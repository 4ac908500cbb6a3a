------------------------- MODULE VirtualExecProofs -------------------------
(***************************************************************************)
(* Virtual execve for any number of sessions, coroutines and binaries, in  *)
(* every scenario.  ExecInv counts the handles of every image and says     *)
(* what an exec at each of its places, and a coroutine entered in each     *)
(* way, may rely on: from it follow RunningCodeIsMapped and                *)
(* CallsAreIntercepted.  OneInv adds that one session opens an image once  *)
(* and keeps it (NoHandleIsLost), SlateInv that with one program at a time *)
(* nothing has written to an image when a new program enters it            *)
(* (ProgramsStartClean).                                                   *)
(***************************************************************************)
EXTENDS VirtualExec, FiniteSetTheorems, TLAPS

\* A leaf that names no prover is tried by Zenon, by the SMT solver, and by
\* Zenon again for longer.
USE ZenonT(3), SMTT(30), ZenonT(60)

\* Where an exec can be.
Places == {"idle", "load", "cached", "reread", "search", "iterate", "hook", "hooking",
           "patch", "save", "spawn", "main", "static"}
\* On the way to _start: with a handle under DlGuard, or with a cached one.
Guarded == {"search", "iterate", "hook", "hooking", "patch", "save"}
Cached == {"cached", "reread", "search", "iterate", "patch", "spawn"}
\* The image is as dlopen left it, or as the snapshot has it.
After == (Guarded \cup Cached) \ {"cached"}

\* What an exec keeps, what the host keeps of an image, and the types.
Call == [pc : Places, caller : Procs \cup {Host}, bin : Binaries \cup {None},
         base : Binaries \cup {None}, snap : BinaryCacheEntry \cup {None}, guard : BOOLEAN]
Image == [loads : Nat, val : Procs \cup {Fresh}, got : {"libc", "ours"}]

TypeInv ==
    /\ scenario \in Scenario
    /\ proc \in [Procs -> Coroutine \cup {None}]
    /\ exec \in [Drivers -> Call]
    /\ image \in [Dynamic -> Image]
    /\ cache \in [Dynamic -> BinaryCacheEntry \cup {None}]
    /\ search \in Binaries \cup {None}
    /\ \E n \in 0..MaxProcs : Created = 1..n

\* Who holds a handle of b: the cache, and the execs that guard one.
Guards(b) == {d \in Drivers : exec[d].bin = b /\ exec[d].guard}
Held(b) == (IF cache[b] = None THEN 0 ELSE 1) + Cardinality(Guards(b))

\* What the exec of driver d may rely on.
CallInv(d) ==
    LET e == exec[d] IN
    /\ e.pc = "idle" => e = Idle
    /\ e.pc = "static" => e.bin \in Static
    /\ e.pc \notin {"idle", "static"} => e.bin \in Dynamic
    /\ e.caller # Host => e.caller \in Created
    /\ e.guard => e.pc \in Guarded
    /\ e.pc \in {"hook", "hooking", "save"} => e.guard
    /\ e.pc \in Cached /\ ~e.guard => cache[e.bin] # None
    /\ e.pc = "cached" => e.snap # None
    /\ e.snap # None => e.snap.got = "ours"
    /\ e.pc \in {"save", "spawn"} => image[e.bin].got = "ours"

\* What coroutine p may, by the way it was entered: a closure of the host, the
\* entry of a static image, _start or main.
CoroutineInv(p) ==
    LET b == proc[p].bin IN
    /\ proc[p].via = "closure" => b = None
    /\ proc[p].via = "static" => b \in Static
    /\ proc[p].via = "start" => b \in Dynamic /\ cache[b] # None /\ image[b].got = "ours"
    /\ proc[p].via = "main" => b \in Dynamic /\ image[b].loads > Held(b)

\* The inductive invariant.  Every handle that is held is counted, a handle
\* that is opened for `main` is never closed, and an exec on its way to
\* _start or a coroutine entered there keeps the cache entry, and with it
\* the image and its patched GOT.
ExecInv ==
    /\ TypeInv
    /\ \A b \in Dynamic : /\ image[b].loads >= Held(b)
                          /\ cache[b] # None => cache[b].got = "ours"
    /\ \A d \in Drivers : CallInv(d)
    /\ \A p \in Live : CoroutineInv(p)

\* One session: an image is loaded by the cache entry or by the one exec that
\* is going to make it, never by both.
OneInv ==
    OneSession =>
        /\ \A d \in Drivers \ {1} : exec[d] = Idle
        /\ \A p \in Created : proc[p].drv = 1 /\ proc[p].via # "main"
        /\ \A b \in Dynamic :
              image[b].loads = (IF cache[b] = None THEN 0 ELSE 1)
                               + (IF exec[1].bin = b /\ exec[1].guard THEN 1 ELSE 0)
        /\ exec[1].pc = "load" \/ exec[1].guard => cache[exec[1].bin] = None

\* One session, one program at a time: snapshots are of images that no program
\* has written, and so is the image of an exec that has loaded or restored it,
\* until the coroutine entered there runs.
SlateInv ==
    OneSession /\ scenario.oneAtATime =>
        /\ \A b \in Dynamic : cache[b] # None => cache[b].val = Fresh
        /\ exec[1].snap # None => exec[1].snap.val = Fresh
        /\ exec[1].pc \in After => image[exec[1].bin].val = Fresh
        /\ exec[1].pc # "idle" => Users(exec[1].bin) \subseteq {exec[1].caller} \cap Started
        /\ \A p \in Live : proc[p].via = "start" /\ proc[p].st = "new" =>
              image[proc[p].bin].val = Fresh /\ Users(proc[p].bin) = {p}

-----------------------------------------------------------------------------
(* Names and handles *)

\* The next coroutine has a name of its own.
LEMMA NextIsFresh ==
    ASSUME TypeInv, CanCreate
    PROVE  NextProc \in Procs \ Created /\ Created \cup {NextProc} = 1..NextProc
<1>1. PICK n \in 0..MaxProcs : Created = 1..n
  BY DEF TypeInv
<1>2. n \in Nat /\ Cardinality(1..n) = n
  BY FS_Interval, ExecAssumption
<1>3. NextProc = n + 1
  BY <1>1, <1>2 DEF NextProc
<1>4. NextProc =< MaxProcs
  <2>1. scenario.procs \in 1..MaxProcs
    BY DEF TypeInv, Scenario, Procs
  <2> QED
    BY <2>1, <1>2, <1>3, ExecAssumption DEF CanCreate
<1> QED
  BY <1>1, <1>2, <1>3, <1>4, ExecAssumption DEF Procs

\* The guards of a binary are counted by a number.
LEMMA GuardsCount ==
    ASSUME NEW b
    PROVE  /\ IsFiniteSet(Guards(b)) /\ Cardinality(Guards(b)) \in Nat
           /\ Cardinality(Guards(b)') \in Nat
<1>1. IsFiniteSet(Drivers)
  BY FS_Interval, ExecAssumption DEF Drivers
<1>2. Guards(b) \in SUBSET Drivers /\ Guards(b)' \in SUBSET Drivers
  BY DEF Guards
<1> QED
  BY <1>1, <1>2, FS_Subset, FS_CardinalityType

\* A handle under a guard is counted.
LEMMA GuardIsHeld ==
    ASSUME NEW d \in Drivers, exec[d].guard, NEW b, exec[d].bin = b
    PROVE  Held(b) >= 1 /\ Cardinality(Guards(b)) >= 1
<1>1. d \in Guards(b)
  BY DEF Guards
<1>2. Cardinality(Guards(b)) # 0
  BY <1>1, GuardsCount, FS_EmptySet
<1> QED
  BY <1>2, GuardsCount DEF Held

\* What is held is a number, and one at least when b is cached.
LEMMA HeldCount ==
    ASSUME NEW b
    PROVE  Held(b) \in Nat /\ Held(b)' \in Nat /\ (cache[b] # None => Held(b) >= 1)
BY GuardsCount DEF Held

\* One exec moves: the guards of the others stay.
LEMMA GuardsStep ==
    ASSUME NEW d \in Drivers, NEW b,
           \A e \in Drivers \ {d} : exec'[e] = exec[e]
    PROVE  LET g == exec[d].bin = b /\ exec[d].guard
               h == exec'[d].bin = b /\ exec'[d].guard
               n == Cardinality(Guards(b))
           IN  Cardinality(Guards(b)') = IF g <=> h THEN n ELSE IF h THEN n + 1 ELSE n - 1
<1> DEFINE g == exec[d].bin = b /\ exec[d].guard
           h == exec'[d].bin = b /\ exec'[d].guard
<1>1. CASE g /\ h
  <2>1. Guards(b)' = Guards(b)
    BY <1>1 DEF Guards
  <2> QED
    BY <2>1, <1>1
<1>2. CASE ~g /\ ~h
  <2>1. Guards(b)' = Guards(b)
    BY <1>2 DEF Guards
  <2> QED
    BY <2>1, <1>2
<1>3. CASE ~g /\ h
  <2>1. Guards(b)' = Guards(b) \cup {d} /\ d \notin Guards(b)
    BY <1>3 DEF Guards
  <2>2. Cardinality(Guards(b) \cup {d}) = Cardinality(Guards(b)) + 1
    BY <2>1, GuardsCount, FS_AddElement
  <2> QED
    BY <2>1, <2>2, <1>3
<1>4. CASE g /\ ~h
  <2>1. Guards(b)' = Guards(b) \ {d} /\ d \in Guards(b)
    BY <1>4 DEF Guards
  <2>2. Cardinality(Guards(b) \ {d}) = Cardinality(Guards(b)) - 1
    BY <2>1, GuardsCount, FS_RemoveElement
  <2> QED
    BY <2>1, <2>2, <1>4
<1> QED
  BY <1>1, <1>2, <1>3, <1>4

-----------------------------------------------------------------------------
(* The invariant *)

\* An exec about to save its snapshot or to spawn has the image mapped.
LEMMA ReadyIsMapped ==
    ASSUME ExecInv, NEW d \in Drivers, exec[d].pc \in {"save", "spawn"}
    PROVE  exec[d].bin \in Dynamic /\ image[exec[d].bin].loads > 0
<1>1. CallInv(d)
  BY DEF ExecInv
<1>2. exec[d].bin \in Dynamic /\ (exec[d].guard \/ cache[exec[d].bin] # None)
  BY <1>1 DEF CallInv, Cached
<1>3. image[exec[d].bin].loads \in Nat /\ image[exec[d].bin].loads >= Held(exec[d].bin)
  BY <1>2 DEF ExecInv, TypeInv, Image
<1> QED
  BY <1>2, <1>3, GuardIsHeld, HeldCount

\* A step of one driver keeps what the others rely on if cache entries stay,
\* a patched GOT stays while the image is mapped, and no more handles are
\* closed than are given up.
LEMMA ExecFrame ==
    ASSUME ExecInv, TypeInv', NEW d \in Drivers,
           \A e \in Drivers \ {d} : exec'[e] = exec[e],
           \A b \in Dynamic :
               /\ cache[b] # None => cache'[b] # None
               /\ cache'[b] # None => cache'[b].got = "ours"
               /\ image[b].loads > 0 /\ image[b].got = "ours" => image'[b].got = "ours"
               /\ image'[b].loads + Held(b) >= image[b].loads + Held(b)',
           Created \subseteq Created',
           CallInv(d)',
           \A p \in Live' : \/ /\ p \in Live
                               /\ proc'[p].bin = proc[p].bin /\ proc'[p].via = proc[p].via
                            \/ CoroutineInv(p)'
    PROVE  ExecInv'
<1>1. ASSUME NEW b \in Dynamic
      PROVE  /\ image[b].loads \in Nat /\ image'[b].loads \in Nat
             /\ Held(b) \in Nat /\ Held(b)' \in Nat
             /\ image[b].loads >= Held(b)
             /\ image'[b].loads >= Held(b)'
             /\ cache'[b] # None => cache'[b].got = "ours"
             /\ image[b].loads > Held(b) => image'[b].loads > Held(b)'
             /\ cache[b] # None => image[b].loads > 0
  <2>1. image[b].loads \in Nat /\ image'[b].loads \in Nat
    BY <1>1 DEF ExecInv, TypeInv, Image
  <2>2. Held(b) \in Nat /\ Held(b)' \in Nat /\ (cache[b] # None => Held(b) >= 1)
    BY HeldCount
  <2>3. image[b].loads >= Held(b)
    BY <1>1 DEF ExecInv
  <2>4. image'[b].loads + Held(b) >= image[b].loads + Held(b)'
    BY <1>1
  <2> QED
    BY <2>1, <2>2, <2>3, <2>4, <1>1
<1>2. ASSUME NEW e \in Drivers PROVE CallInv(e)'
  <2>1. CASE e = d
    BY <2>1
  <2>2. CASE e # d
    <3>1. exec'[e] = exec[e] /\ CallInv(e)
      BY <2>2, <1>2 DEF ExecInv
    <3>2. exec[e].pc \in {"save", "spawn"} =>
             exec[e].bin \in Dynamic /\ image[exec[e].bin].loads > 0
      BY <1>2, ReadyIsMapped
    <3>3. exec[e].pc \in {"save", "spawn"} => image'[exec[e].bin].got = "ours"
      BY <3>1, <3>2 DEF CallInv
    <3>4. exec[e].pc \in Cached /\ ~exec[e].guard => cache'[exec[e].bin] # None
      BY <3>1 DEF CallInv, Cached
    <3> QED
      BY <3>1, <3>3, <3>4 DEF CallInv
  <2> QED
    BY <2>1, <2>2
<1>3. ASSUME NEW p \in Live' PROVE CoroutineInv(p)'
  <2>1. CASE p \in Live /\ proc'[p].bin = proc[p].bin /\ proc'[p].via = proc[p].via
    <3>1. CoroutineInv(p)
      BY <2>1 DEF ExecInv
    <3> QED
      BY <3>1, <2>1, <1>1 DEF CoroutineInv
  <2> QED
    BY <2>1, <1>3
<1> QED
  BY <1>1, <1>2, <1>3 DEF ExecInv

-----------------------------------------------------------------------------
(* Steps of an exec *)

\* Initially no binary is loaded, and a coroutine runs in every session.
LEMMA ExecInit == Init => ExecInv
<1> SUFFICES ASSUME Init PROVE ExecInv
  OBVIOUS
<1> USE DEF Init
<1>1. scenario \in Scenario /\ scenario.drivers \in Drivers
  BY ExecAssumption DEF Scenario
<1>2. proc \in [Procs -> Coroutine \cup {None}]
  <2>1. ASSUME NEW p \in Procs, p <= scenario.drivers
        PROVE  [drv |-> p, bin |-> None, via |-> "closure", st |-> "started", owner |-> p]
                  \in Coroutine
    BY <1>1, <2>1, ExecAssumption DEF Coroutine, Drivers, Procs
  <2> QED
    BY <2>1
<1>3. exec \in [Drivers -> Call] /\ \A d \in Drivers : exec[d] = Idle
  BY DEF Idle, Call, Places, Host
<1>4. image \in [Dynamic -> Image]
  BY DEF Image, Fresh
<1>5. Created = 1..scenario.drivers /\ scenario.drivers \in 0..MaxProcs
  <2>1. scenario.drivers \in 0..MaxProcs
    BY <1>1, ExecAssumption DEF Drivers
  <2>2. \A p \in Procs : proc[p] # None <=> p <= scenario.drivers
    <3>1. ASSUME NEW p \in Procs, p <= scenario.drivers PROVE proc[p] # None
      <4>1. proc[p] \in Coroutine
        BY <1>1, <3>1, ExecAssumption DEF Coroutine, Drivers, Procs
      <4> QED
        BY <4>1, NoneAssumption
    <3> QED
      BY <3>1
  <2> QED
    BY <2>1, <2>2, ExecAssumption DEF Created, Procs
<1>6. TypeInv
  BY <1>1, <1>2, <1>3, <1>4, <1>5 DEF TypeInv
<1>7. \A b \in Dynamic : image[b].loads >= Held(b)
  <2> SUFFICES ASSUME NEW b \in Dynamic PROVE image[b].loads >= Held(b)
    OBVIOUS
  <2>1. Guards(b) = {}
    BY <1>3 DEF Guards, Idle
  <2> QED
    BY <2>1, FS_EmptySet DEF Held
<1>8. \A d \in Drivers : CallInv(d)
  BY <1>3 DEF CallInv, Idle, Cached, Guarded
<1>9. \A p \in Live : CoroutineInv(p)
  <2>1. ASSUME NEW p \in Live PROVE proc[p].via = "closure" /\ proc[p].bin = None
    BY <2>1, <1>5 DEF Live, Created
  <2> QED
    BY <2>1 DEF CoroutineInv
<1> QED
  BY <1>6, <1>7, <1>8, <1>9 DEF ExecInv

\* A step within an exec that touches neither coroutines nor the cache.
LEMMA QuietStep ==
    ASSUME ExecInv, NEW d \in Drivers,
           exec' \in [Drivers -> Call],
           \A e \in Drivers \ {d} : exec'[e] = exec[e],
           exec'[d].bin = exec[d].bin, exec'[d].guard = exec[d].guard,
           image' \in [Dynamic -> Image],
           \A b \in Dynamic :
               /\ image'[b].loads = image[b].loads
               /\ image[b].loads > 0 /\ image[b].got = "ours" => image'[b].got = "ours",
           search' \in Binaries \cup {None},
           UNCHANGED <<scenario, proc, cache>>,
           CallInv(d)'
    PROVE  ExecInv'
<1>1. Created' = Created /\ Live' = Live
  BY DEF Created, Live
<1>2. TypeInv'
  BY <1>1 DEF ExecInv, TypeInv
<1>3. ASSUME NEW b \in Dynamic PROVE Held(b)' = Held(b)
  <2>1. Cardinality(Guards(b)') = Cardinality(Guards(b))
    BY GuardsStep
  <2> QED
    BY <2>1 DEF Held
<1>4. ASSUME NEW b \in Dynamic
      PROVE  image'[b].loads + Held(b) >= image[b].loads + Held(b)'
  BY <1>3, <1>4, HeldCount DEF Image
<1> QED
  BY <1>1, <1>2, <1>4, ExecFrame DEF ExecInv

\* Where an exec goes next.
LEMMA GotoEffect ==
    ASSUME TypeInv, NEW d \in Drivers, NEW pc \in Places, Goto(d, pc)
    PROVE  /\ exec' \in [Drivers -> Call]
           /\ \A e \in Drivers \ {d} : exec'[e] = exec[e]
           /\ exec'[d] = [exec[d] EXCEPT !.pc = pc]
           /\ exec'[d].pc = pc /\ exec'[d].bin = exec[d].bin
           /\ exec'[d].guard = exec[d].guard /\ exec'[d].caller = exec[d].caller
           /\ exec'[d].snap = exec[d].snap /\ exec'[d].base = exec[d].base
BY DEF TypeInv, Goto, Call

\* Restoring writes a snapshot in which the GOT is patched.
LEMMA RestoreStep ==
    ASSUME ExecInv, UNCHANGED scenario, NEW d \in Drivers, Restore(d)
    PROVE  ExecInv'
<1> DEFINE b == exec[d].bin
<1>1. TypeInv /\ CallInv(d)
  BY DEF ExecInv
<1>2. /\ b \in Dynamic /\ exec[d].snap # None /\ exec[d].snap.got = "ours"
      /\ exec[d].pc = "cached"
  BY <1>1 DEF CallInv, Restore
<1>3. exec[d].snap \in BinaryCacheEntry
  BY <1>1, <1>2 DEF TypeInv, Call
<1>4. /\ image' \in [Dynamic -> Image]
      /\ \A c \in Dynamic : /\ image'[c].loads = image[c].loads
                            /\ image[c].got = "ours" => image'[c].got = "ours"
  <2>1. image \in [Dynamic -> Image]
    BY <1>1 DEF TypeInv
  <2>2. CASE image[b].loads = 0
    BY <2>1, <2>2 DEF Restore
  <2>3. CASE image[b].loads # 0
    BY <2>1, <2>3, <1>2, <1>3 DEF Restore, Image, BinaryCacheEntry
  <2> QED
    BY <2>2, <2>3
<1>5. "reread" \in Places /\ Goto(d, "reread")
  BY DEF Restore, Places
<1>6. CallInv(d)'
  <2>1. Created' = Created /\ cache' = cache
    BY DEF Restore, Created
  <2>2. ~exec[d].guard
    BY <1>1, <1>2 DEF CallInv, Guarded
  <2>3. cache[b] # None
    BY <1>1, <1>2, <2>2 DEF CallInv, Cached
  <2> QED
    BY <1>1, <1>2, <2>1, <2>2, <2>3, <1>5, GotoEffect DEF CallInv, Cached, Guarded
<1> QED
  BY <1>1, <1>4, <1>5, <1>6, GotoEffect, QuietStep DEF Restore, TypeInv

\* Failing gives up the guarded handle and closes it.
LEMMA FailEffect ==
    ASSUME ExecInv, NEW d \in Drivers,
           exec[d].pc \notin {"idle", "static"}, ViaEntryFails(d)
    PROVE  /\ exec' \in [Drivers -> Call]
           /\ \A e \in Drivers \ {d} : exec'[e] = exec[e]
           /\ exec'[d] = Idle \/ /\ exec'[d].pc = "main" /\ exec'[d].guard = FALSE
                                 /\ exec'[d].bin = exec[d].bin
                                 /\ exec'[d].caller = exec[d].caller
                                 /\ exec'[d].snap = exec[d].snap
           /\ image' \in [Dynamic -> Image]
           /\ \A c \in Dynamic :
                /\ image'[c].got = image[c].got /\ image'[c].val = image[c].val
                /\ image'[c].loads = IF c = exec[d].bin /\ exec[d].guard
                                       THEN image[c].loads - 1 ELSE image[c].loads
<1> DEFINE b == exec[d].bin
<1>1. TypeInv /\ CallInv(d)
  BY DEF ExecInv
<1>2. b \in Dynamic /\ exec \in [Drivers -> Call] /\ exec[d] \in Call
  BY <1>1 DEF CallInv, TypeInv
<1>3. /\ exec' \in [Drivers -> Call]
      /\ \A e \in Drivers \ {d} : exec'[e] = exec[e]
      /\ exec'[d] = Idle \/ /\ exec'[d].pc = "main" /\ exec'[d].guard = FALSE
                            /\ exec'[d].bin = b /\ exec'[d].caller = exec[d].caller
                            /\ exec'[d].snap = exec[d].snap
  <2>1. Idle \in Call
    BY DEF Idle, Call, Places, Host
  <2>2. [exec[d] EXCEPT !.pc = "main", !.guard = FALSE] \in Call
    BY <1>2 DEF Call, Places
  <2>3. CASE exec[d].caller = Host
    <3>1. exec' = [exec EXCEPT ![d] = Idle]
      BY <2>3, <1>2 DEF ViaEntryFails
    <3> QED
      BY <3>1, <2>1, <1>2
  <2>4. CASE exec[d].caller # Host
    <3>1. exec' = [exec EXCEPT ![d] = [exec[d] EXCEPT !.pc = "main", !.guard = FALSE]]
      BY <2>4, <1>2 DEF ViaEntryFails
    <3>2. exec'[d] = [exec[d] EXCEPT !.pc = "main", !.guard = FALSE]
      BY <3>1, <1>2
    <3>3. exec' \in [Drivers -> Call] /\ \A e \in Drivers \ {d} : exec'[e] = exec[e]
      BY <3>1, <2>2, <1>2
    <3> QED
      BY <3>2, <3>3, <1>2 DEF Call
  <2> QED
    BY <2>3, <2>4
<1>4. exec[d].guard => image[b].loads \in Nat /\ image[b].loads >= 1
  <2>1. image[b].loads \in Nat /\ image[b].loads >= Held(b)
    BY <1>2 DEF ExecInv, TypeInv, Image
  <2> QED
    BY <2>1, GuardIsHeld, HeldCount
<1>5. /\ image' \in [Dynamic -> Image]
      /\ \A c \in Dynamic :
            /\ image'[c].got = image[c].got /\ image'[c].val = image[c].val
            /\ image'[c].loads = IF c = b /\ exec[d].guard THEN image[c].loads - 1
                                                           ELSE image[c].loads
  <2>1. image \in [Dynamic -> Image]
    BY <1>1 DEF TypeInv
  <2>2. CASE exec[d].guard
    <3>1. image' = [image EXCEPT ![b] = [image[b] EXCEPT !.loads = image[b].loads - 1]]
      BY <2>1, <2>2, <1>2 DEF ViaEntryFails, Closed, Image
    <3>2. [image[b] EXCEPT !.loads = image[b].loads - 1] \in Image
      BY <2>1, <2>2, <1>2, <1>4 DEF Image
    <3> QED
      BY <3>1, <3>2, <2>1, <2>2, <1>2 DEF Image
  <2>3. CASE ~exec[d].guard
    BY <2>1, <2>3 DEF ViaEntryFails
  <2> QED
    BY <2>2, <2>3
<1> QED
  BY <1>3, <1>5

\* A failing exec gives back the handle it guards, and nothing else.
LEMMA FailStep ==
    ASSUME ExecInv, UNCHANGED scenario, NEW d \in Drivers,
           exec[d].pc \notin {"idle", "static"}, ViaEntryFails(d)
    PROVE  ExecInv'
<1> DEFINE b == exec[d].bin
<1>1. TypeInv /\ CallInv(d)
  BY DEF ExecInv
<1>2. b \in Dynamic
  BY <1>1 DEF CallInv
<1>3. /\ exec' \in [Drivers -> Call]
      /\ \A e \in Drivers \ {d} : exec'[e] = exec[e]
      /\ exec'[d] = Idle \/ /\ exec'[d].pc = "main" /\ exec'[d].guard = FALSE
                            /\ exec'[d].bin = b /\ exec'[d].caller = exec[d].caller
                            /\ exec'[d].snap = exec[d].snap
      /\ image' \in [Dynamic -> Image]
      /\ \A c \in Dynamic :
            /\ image'[c].got = image[c].got
            /\ image'[c].loads = IF c = b /\ exec[d].guard THEN image[c].loads - 1
                                                           ELSE image[c].loads
  BY FailEffect
<1>4. exec'[d].guard = FALSE
  BY <1>3 DEF Idle
<1>5. Created' = Created /\ Live' = Live /\ proc' = proc /\ cache' = cache
  BY DEF ViaEntryFails, Created, Live
<1>6. TypeInv'
  BY <1>1, <1>3, <1>5 DEF ViaEntryFails, TypeInv
<1>7. ASSUME NEW c \in Dynamic
      PROVE  image'[c].loads + Held(c) >= image[c].loads + Held(c)'
  <2>1. Cardinality(Guards(c)') = IF c = b /\ exec[d].guard THEN Cardinality(Guards(c)) - 1
                                                            ELSE Cardinality(Guards(c))
    BY GuardsStep, <1>3, <1>4
  <2>2. Cardinality(Guards(c)) \in Nat /\ image[c].loads \in Nat
    BY <1>1, <1>7, GuardsCount DEF TypeInv, Image
  <2> QED
    BY <2>1, <2>2, <1>3, <1>5 DEF Held
<1>8. CallInv(d)'
  BY <1>1, <1>2, <1>3, <1>5 DEF CallInv, Idle, Cached, Guarded
<1> QED
  BY <1>3, <1>5, <1>6, <1>7, <1>8, ExecFrame DEF ExecInv

\* dlopen leaves a mapped image as it is and counts one handle more.
LEMMA OpenEffect ==
    ASSUME TypeInv, NEW b \in Dynamic, image' = [image EXCEPT ![b] = Opened(b)]
    PROVE  /\ image' \in [Dynamic -> Image]
           /\ \A c \in Dynamic :
                /\ image[c].loads > 0 => image'[c].got = image[c].got
                /\ image'[c].val = IF c = b /\ image[c].loads = 0 THEN Fresh ELSE image[c].val
                /\ image'[c].loads = IF c = b THEN image[c].loads + 1 ELSE image[c].loads
<1>1. image \in [Dynamic -> Image]
  BY DEF TypeInv
<1>2. /\ Opened(b) \in Image /\ Opened(b).loads = image[b].loads + 1
      /\ Opened(b).val = IF image[b].loads = 0 THEN Fresh ELSE image[b].val
      /\ image[b].loads > 0 => Opened(b).got = image[b].got
  <2>1. CASE image[b].loads = 0
    BY <1>1, <2>1 DEF Opened, Image, Fresh
  <2>2. CASE image[b].loads # 0
    BY <1>1, <2>2 DEF Opened, Image, Fresh
  <2> QED
    BY <2>1, <2>2
<1> QED
  BY <1>1, <1>2

\* Loading opens a handle and guards it.
LEMMA LoadEffect ==
    ASSUME ExecInv, NEW d \in Drivers, exec[d].pc = "load",
           image' = [image EXCEPT ![exec[d].bin] = Opened(exec[d].bin)],
           exec' = [exec EXCEPT ![d].pc = "search", ![d].guard = TRUE]
    PROVE  /\ exec[d].bin \in Dynamic /\ ~exec[d].guard
           /\ exec' \in [Drivers -> Call]
           /\ \A e \in Drivers \ {d} : exec'[e] = exec[e]
           /\ exec'[d].pc = "search" /\ exec'[d].guard = TRUE
           /\ exec'[d].bin = exec[d].bin /\ exec'[d].caller = exec[d].caller
           /\ exec'[d].snap = exec[d].snap
           /\ image' \in [Dynamic -> Image]
           /\ \A c \in Dynamic :
                /\ image[c].loads > 0 => image'[c].got = image[c].got
                /\ image'[c].val = IF c = exec[d].bin /\ image[c].loads = 0
                                     THEN Fresh ELSE image[c].val
                /\ image'[c].loads = IF c = exec[d].bin THEN image[c].loads + 1
                                                        ELSE image[c].loads
<1>1. TypeInv /\ CallInv(d)
  BY DEF ExecInv
<1>2. exec[d].bin \in Dynamic /\ exec \in [Drivers -> Call] /\ ~exec[d].guard
  BY <1>1 DEF CallInv, TypeInv, Guarded
<1>3. /\ exec' \in [Drivers -> Call]
      /\ \A e \in Drivers \ {d} : exec'[e] = exec[e]
      /\ exec'[d].pc = "search" /\ exec'[d].guard = TRUE
      /\ exec'[d].bin = exec[d].bin /\ exec'[d].caller = exec[d].caller
      /\ exec'[d].snap = exec[d].snap
  BY <1>2 DEF Call, Places
<1> QED
  BY <1>1, <1>2, <1>3, OpenEffect

\* dlopen, or the cache entry that another exec made, gives the exec what it
\* holds.
LEMMA LoadStep ==
    ASSUME ExecInv, UNCHANGED scenario, NEW d \in Drivers, Load(d)
    PROVE  ExecInv'
<1> DEFINE b == exec[d].bin
<1>1. TypeInv /\ CallInv(d) /\ exec[d].pc = "load"
  BY DEF ExecInv, Load
<1>2. CASE ViaEntryFails(d)
  BY <1>1, <1>2, FailStep
<1>3. CASE /\ image' = [image EXCEPT ![b] = Opened(b)]
           /\ exec' = [exec EXCEPT ![d].pc = "search", ![d].guard = TRUE]
           /\ UNCHANGED <<proc, cache, search, hook>>
  <2>1. b \in Dynamic /\ ~exec[d].guard
    BY <1>1, <1>3, LoadEffect
  <2>2. /\ exec' \in [Drivers -> Call]
        /\ \A e \in Drivers \ {d} : exec'[e] = exec[e]
        /\ exec'[d].pc = "search" /\ exec'[d].guard = TRUE
        /\ exec'[d].bin = b /\ exec'[d].caller = exec[d].caller
        /\ exec'[d].snap = exec[d].snap
    BY <1>1, <1>3, LoadEffect
  <2>3. /\ image' \in [Dynamic -> Image]
        /\ \A c \in Dynamic :
            /\ image[c].loads > 0 => image'[c].got = image[c].got
            /\ image'[c].loads = IF c = b THEN image[c].loads + 1 ELSE image[c].loads
    BY <1>1, <1>3, LoadEffect
  <2>4. Created' = Created /\ Live' = Live
    BY <1>3 DEF Created, Live
  <2>5. TypeInv'
    BY <1>1, <1>3, <2>2, <2>3, <2>4 DEF TypeInv
  <2>6. ASSUME NEW c \in Dynamic
        PROVE  image'[c].loads + Held(c) >= image[c].loads + Held(c)'
    <3>1. Cardinality(Guards(c)') = IF c = b THEN Cardinality(Guards(c)) + 1
                                             ELSE Cardinality(Guards(c))
      BY GuardsStep, <2>1, <2>2
    <3>2. Cardinality(Guards(c)) \in Nat /\ image[c].loads \in Nat
      BY <1>1, <2>6, GuardsCount DEF TypeInv, Image
    <3> QED
      BY <3>1, <3>2, <2>3, <1>3 DEF Held
  <2>7. CallInv(d)'
    BY <1>1, <2>1, <2>2, <2>4 DEF CallInv, Cached, Guarded
  <2> QED
    BY <1>3, <2>2, <2>3, <2>4, <2>5, <2>6, <2>7, ExecFrame DEF ExecInv
<1> QED
  BY <1>2, <1>3 DEF Load

\* The steps between the image and the snapshot.
LEMMA RereadStep ==
    ASSUME ExecInv, UNCHANGED scenario, NEW d \in Drivers, Reread(d)
    PROVE  ExecInv'
<1>1. TypeInv /\ CallInv(d) /\ exec[d].pc = "reread"
  BY DEF ExecInv, Reread
<1>2. CASE ViaEntryFails(d)
  BY <1>1, <1>2, FailStep
<1>3. CASE Goto(d, "search") /\ UNCHANGED <<proc, image, cache, search, hook>>
  <2>1. "search" \in Places
    BY DEF Places
  <2>2. Created' = Created
    BY <1>3 DEF Created
  <2>3. CallInv(d)'
    BY <1>1, <1>3, <2>1, <2>2, GotoEffect DEF CallInv, Cached, Guarded
  <2> QED
    BY <1>1, <1>3, <2>1, <2>3, GotoEffect, QuietStep DEF TypeInv
<1> QED
  BY <1>2, <1>3 DEF Reread

\* Setting the search path changes no handle.
LEMMA SetSearchPathStep ==
    ASSUME ExecInv, UNCHANGED scenario, NEW d \in Drivers, SetSearchPath(d)
    PROVE  ExecInv'
<1>1. TypeInv /\ CallInv(d) /\ exec[d].pc = "search" /\ exec[d].bin \in Dynamic
  BY DEF ExecInv, SetSearchPath, CallInv
<1>2. "iterate" \in Places /\ Goto(d, "iterate") /\ UNCHANGED <<proc, image, cache>>
  BY DEF SetSearchPath, Places
<1>3. Created' = Created
  BY <1>2 DEF Created
<1>4. CallInv(d)'
  BY <1>1, <1>2, <1>3, GotoEffect DEF CallInv, Cached, Guarded
<1>5. search' \in Binaries \cup {None}
  BY <1>1 DEF SetSearchPath, Binaries
<1> QED
  BY <1>1, <1>2, <1>4, <1>5, GotoEffect, QuietStep DEF TypeInv

\* The base that was found is that of the path that was looked for.
LEMMA IterateEffect ==
    ASSUME TypeInv, NEW d \in Drivers,
           exec' = [exec EXCEPT ![d].base = search,
                                ![d].pc = IF exec[d].guard THEN "hook" ELSE "patch"]
    PROVE  /\ exec' \in [Drivers -> Call]
           /\ \A e \in Drivers \ {d} : exec'[e] = exec[e]
           /\ exec'[d].pc = IF exec[d].guard THEN "hook" ELSE "patch"
           /\ exec'[d].guard = exec[d].guard
           /\ exec'[d].bin = exec[d].bin /\ exec'[d].caller = exec[d].caller
           /\ exec'[d].snap = exec[d].snap
<1>1. exec \in [Drivers -> Call] /\ search \in Binaries \cup {None}
  BY DEF TypeInv
<1>2. PICK pc \in {"hook", "patch"} : pc = IF exec[d].guard THEN "hook" ELSE "patch"
  OBVIOUS
<1>3. exec' = [exec EXCEPT ![d] = [exec[d] EXCEPT !.base = search, !.pc = pc]]
  BY <1>1, <1>2
<1>4. [exec[d] EXCEPT !.base = search, !.pc = pc] \in Call
  BY <1>1, <1>2 DEF Call, Places
<1>5. exec'[d] = [exec[d] EXCEPT !.base = search, !.pc = pc]
  BY <1>1, <1>3
<1>6. exec' \in [Drivers -> Call] /\ \A e \in Drivers \ {d} : exec'[e] = exec[e]
  BY <1>1, <1>3, <1>4
<1> QED
  BY <1>1, <1>2, <1>5, <1>6 DEF Call

\* Walking the loaded objects changes no handle.
LEMMA IterateStep ==
    ASSUME ExecInv, UNCHANGED scenario, NEW d \in Drivers, Iterate(d)
    PROVE  ExecInv'
<1>1. TypeInv /\ CallInv(d) /\ exec[d].pc = "iterate"
  BY DEF ExecInv, Iterate
<1>2. CASE ViaEntryFails(d)
  BY <1>1, <1>2, FailStep
<1>3. CASE /\ exec' = [exec EXCEPT ![d].base = search,
                                   ![d].pc = IF exec[d].guard THEN "hook" ELSE "patch"]
           /\ UNCHANGED <<proc, image, cache, search, hook>>
  <2>1. /\ exec' \in [Drivers -> Call]
        /\ \A e \in Drivers \ {d} : exec'[e] = exec[e]
        /\ exec'[d].pc = IF exec[d].guard THEN "hook" ELSE "patch"
        /\ exec'[d].guard = exec[d].guard
        /\ exec'[d].bin = exec[d].bin /\ exec'[d].caller = exec[d].caller
        /\ exec'[d].snap = exec[d].snap
    BY <1>1, <1>3, IterateEffect
  <2>2. Created' = Created
    BY <1>3 DEF Created
  <2>3. CallInv(d)'
    BY <1>1, <1>3, <2>1, <2>2 DEF CallInv, Cached, Guarded
  <2> QED
    BY <1>1, <1>3, <2>1, <2>3, QuietStep DEF TypeInv
<1> QED
  BY <1>2, <1>3 DEF Iterate

\* The hook of libc is claimed and written once, and changes no handle.
LEMMA HookStep ==
    ASSUME ExecInv, UNCHANGED scenario, NEW d \in Drivers, ClaimHook(d) \/ WriteHook(d)
    PROVE  ExecInv'
<1>1. TypeInv /\ CallInv(d) /\ exec[d].pc \in {"hook", "hooking"}
  BY DEF ExecInv, ClaimHook, WriteHook
<1>2. PICK pc \in {"hooking", "patch"} : Goto(d, pc)
  BY DEF ClaimHook, WriteHook
<1>3. pc \in Places /\ UNCHANGED <<proc, image, cache, search>>
  BY DEF ClaimHook, WriteHook, Places
<1>4. Created' = Created
  BY <1>3 DEF Created
<1>5. CallInv(d)'
  BY <1>1, <1>2, <1>3, <1>4, GotoEffect DEF CallInv, Cached, Guarded
<1> QED
  BY <1>1, <1>2, <1>3, <1>5, GotoEffect, QuietStep DEF TypeInv

\* Patching the GOT only takes calls from libc to ours.
LEMMA PatchGotStep ==
    ASSUME ExecInv, UNCHANGED scenario, NEW d \in Drivers, PatchGot(d)
    PROVE  ExecInv'
<1> DEFINE b == exec[d].bin
<1>1. TypeInv /\ CallInv(d) /\ exec[d].pc = "patch" /\ b \in Dynamic
  BY DEF ExecInv, PatchGot, CallInv
<1>2. PICK pc \in {"save", "spawn"} :
         Goto(d, pc) /\ pc = IF exec[d].guard THEN "save" ELSE "spawn"
  BY DEF PatchGot
<1>3. pc \in Places /\ UNCHANGED <<proc, cache, search>>
  BY DEF PatchGot, Places
<1>4. /\ image' \in [Dynamic -> Image]
      /\ \A c \in Dynamic : /\ image'[c].loads = image[c].loads
                            /\ image[c].got = "ours" => image'[c].got = "ours"
      /\ image'[b].got = "ours"
  BY <1>1 DEF TypeInv, PatchGot, Image
<1>5. Created' = Created
  BY <1>3 DEF Created
<1>6. CallInv(d)'
  BY <1>1, <1>2, <1>3, <1>4, <1>5, GotoEffect DEF CallInv, Cached, Guarded
<1> QED
  BY <1>1, <1>2, <1>3, <1>4, <1>6, GotoEffect, QuietStep DEF TypeInv

\* The cache takes the handle over from the guard.
LEMMA SaveEffect ==
    ASSUME ExecInv, NEW d \in Drivers, SaveAndCache(d)
    PROVE  /\ exec[d].bin \in Dynamic /\ exec[d].guard /\ image[exec[d].bin].got = "ours"
           /\ exec' \in [Drivers -> Call]
           /\ \A e \in Drivers \ {d} : exec'[e] = exec[e]
           /\ exec'[d].pc = "spawn" /\ exec'[d].guard = FALSE
           /\ exec'[d].bin = exec[d].bin /\ exec'[d].caller = exec[d].caller
           /\ exec'[d].snap = exec[d].snap
           /\ cache' \in [Dynamic -> BinaryCacheEntry \cup {None}]
           /\ cache'[exec[d].bin] # None /\ cache'[exec[d].bin].got = "ours"
           /\ cache'[exec[d].bin].val = image[exec[d].bin].val
           /\ \A c \in Dynamic \ {exec[d].bin} : cache'[c] = cache[c]
<1> DEFINE b == exec[d].bin
           entry == [users |-> 0, val |-> image[b].val, got |-> image[b].got]
<1>1. TypeInv /\ CallInv(d) /\ exec[d].pc = "save"
  BY DEF ExecInv, SaveAndCache
<1>2. /\ b \in Dynamic /\ exec[d].guard /\ image[b].got = "ours"
      /\ exec \in [Drivers -> Call] /\ image[b] \in Image
  BY <1>1 DEF CallInv, TypeInv
<1>3. /\ exec' \in [Drivers -> Call]
      /\ \A e \in Drivers \ {d} : exec'[e] = exec[e]
      /\ exec'[d].pc = "spawn" /\ exec'[d].guard = FALSE
      /\ exec'[d].bin = b /\ exec'[d].caller = exec[d].caller
      /\ exec'[d].snap = exec[d].snap
  BY <1>2 DEF SaveAndCache, Call, Places
<1>4. entry \in BinaryCacheEntry /\ entry.got = "ours" /\ entry # None
      /\ entry.val = image[b].val
  <2>1. entry \in BinaryCacheEntry
    BY <1>2 DEF Image, BinaryCacheEntry
  <2> QED
    BY <2>1, <1>2, NoneAssumption
<1>5. cache' = [cache EXCEPT ![b] = entry]
  BY DEF SaveAndCache
<1>6. /\ cache' \in [Dynamic -> BinaryCacheEntry \cup {None}]
      /\ cache'[b] # None /\ cache'[b].got = "ours" /\ cache'[b].val = image[b].val
      /\ \A c \in Dynamic \ {b} : cache'[c] = cache[c]
  <2> HIDE DEF entry
  <2> QED
    BY <1>1, <1>2, <1>4, <1>5 DEF TypeInv
<1> QED
  BY <1>2, <1>3, <1>6

\* The handle goes from the guard of the exec to the cache.
LEMMA SaveAndCacheStep ==
    ASSUME ExecInv, UNCHANGED scenario, NEW d \in Drivers, SaveAndCache(d)
    PROVE  ExecInv'
<1> DEFINE b == exec[d].bin
<1>1. TypeInv /\ CallInv(d) /\ exec[d].pc = "save"
  BY DEF ExecInv, SaveAndCache
<1>2. b \in Dynamic /\ exec[d].guard /\ image[b].got = "ours"
  BY SaveEffect
<1>3. /\ exec' \in [Drivers -> Call]
      /\ \A e \in Drivers \ {d} : exec'[e] = exec[e]
      /\ exec'[d].pc = "spawn" /\ exec'[d].guard = FALSE
      /\ exec'[d].bin = b /\ exec'[d].caller = exec[d].caller
      /\ exec'[d].snap = exec[d].snap
  BY SaveEffect
<1>4. /\ cache' \in [Dynamic -> BinaryCacheEntry \cup {None}]
      /\ cache'[b] # None /\ cache'[b].got = "ours"
      /\ \A c \in Dynamic \ {b} : cache'[c] = cache[c]
  BY SaveEffect
<1>5. Created' = Created /\ Live' = Live /\ UNCHANGED <<proc, image, search>>
  BY DEF SaveAndCache, Created, Live
<1>6. TypeInv'
  BY <1>1, <1>3, <1>4, <1>5 DEF TypeInv
<1>7. ASSUME NEW c \in Dynamic
      PROVE  image'[c].loads + Held(c) >= image[c].loads + Held(c)'
  <2>1. Cardinality(Guards(c)') = IF c = b THEN Cardinality(Guards(c)) - 1
                                           ELSE Cardinality(Guards(c))
    BY GuardsStep, <1>2, <1>3
  <2>2. Cardinality(Guards(c)) \in Nat /\ image[c].loads \in Nat
    BY <1>1, <1>7, GuardsCount DEF TypeInv, Image
  <2> QED
    BY <2>1, <2>2, <1>4, <1>5 DEF Held
<1>8. CallInv(d)'
  BY <1>1, <1>2, <1>3, <1>4, <1>5 DEF CallInv, Cached, Guarded
<1> QED
  BY <1>3, <1>4, <1>5, <1>6, <1>7, <1>8, ExecFrame DEF ExecInv

\* An exec starts without a handle, with the snapshot of the cache.
LEMMA StartEffect ==
    ASSUME ExecInv, NEW d \in Drivers, NEW c \in Procs \cup {Host},
           NEW b \in Binaries, StartExec(d, c, b)
    PROVE  LET snap == IF b \in Dynamic THEN cache[b] ELSE None
               place == IF b \in Static THEN "static"
                        ELSE IF cache[b] = None THEN "load" ELSE "cached"
           IN  /\ exec[d] = Idle
               /\ exec' \in [Drivers -> Call]
               /\ \A e \in Drivers \ {d} : exec'[e] = exec[e]
               /\ exec'[d].pc = place /\ exec'[d].caller = c /\ exec'[d].bin = b
               /\ exec'[d].snap = snap /\ exec'[d].guard = FALSE
<1> DEFINE snap == IF b \in Dynamic THEN cache[b] ELSE None
           place == IF b \in Static THEN "static"
                    ELSE IF cache[b] = None THEN "load" ELSE "cached"
<1>1. TypeInv /\ CallInv(d) /\ exec[d] = Idle
  BY DEF ExecInv, StartExec, CallInv
<1>2. PICK r : /\ r = [Idle EXCEPT !.caller = c, !.bin = b, !.snap = snap, !.pc = place]
               /\ exec' = [exec EXCEPT ![d] = r]
  BY DEF StartExec
<1>3. /\ r.pc = place /\ r.caller = c /\ r.bin = b /\ r.snap = snap /\ r.guard = FALSE
      /\ r.base = None
      /\ r = [pc |-> place, caller |-> c, bin |-> b, base |-> None,
              snap |-> snap, guard |-> FALSE]
  BY <1>2 DEF Idle
<1>4. snap \in BinaryCacheEntry \cup {None} /\ place \in Places
  BY <1>1 DEF TypeInv, Places
<1>5. r \in Call
  BY <1>3, <1>4 DEF Call
<1>6. /\ exec' \in [Drivers -> Call] /\ exec'[d] = r
      /\ \A e \in Drivers \ {d} : exec'[e] = exec[e]
  BY <1>1, <1>2, <1>5 DEF TypeInv
<1> QED
  BY <1>1, <1>3, <1>6

\* An exec starts, on a cached image or on the way to dlopen.
LEMMA StartExecStep ==
    ASSUME ExecInv, UNCHANGED scenario, NEW d \in Drivers, NEW c \in Procs \cup {Host},
           NEW b \in Binaries, StartExec(d, c, b)
    PROVE  ExecInv'
<1> DEFINE snap == IF b \in Dynamic THEN cache[b] ELSE None
           place == IF b \in Static THEN "static"
                    ELSE IF cache[b] = None THEN "load" ELSE "cached"
<1>1. TypeInv
  BY DEF ExecInv
<1>2. /\ exec[d] = Idle
      /\ exec' \in [Drivers -> Call]
      /\ \A e \in Drivers \ {d} : exec'[e] = exec[e]
      /\ exec'[d].pc = place /\ exec'[d].caller = c /\ exec'[d].bin = b
      /\ exec'[d].snap = snap /\ exec'[d].guard = FALSE
  BY StartEffect
<1>3. Created' = Created /\ Live' = Live /\ UNCHANGED <<proc, image, cache, search>>
  BY DEF StartExec, Created, Live
<1>4. TypeInv'
  BY <1>1, <1>2, <1>3 DEF TypeInv
<1>5. ASSUME NEW x \in Dynamic
      PROVE  image'[x].loads + Held(x) >= image[x].loads + Held(x)'
  <2>1. Cardinality(Guards(x)') = Cardinality(Guards(x))
    BY GuardsStep, <1>2 DEF Idle
  <2>2. Held(x)' = Held(x) /\ image'[x].loads = image[x].loads
    BY <2>1, <1>3 DEF Held
  <2> QED
    BY <2>2, <1>1, HeldCount DEF TypeInv, Image
<1>6. CallInv(d)'
  <2>1. c # Host => c \in Created
    BY DEF StartExec, Started
  <2>2. place = "cached" => b \in Dynamic /\ snap # None /\ cache[b] # None
    BY DEF Binaries
  <2>3. snap # None => snap.got = "ours"
    BY DEF ExecInv
  <2>4. place \notin {"idle", "static"} => b \in Dynamic
    BY DEF Binaries
  <2>5. place = "static" => b \in Static
    OBVIOUS
  <2>6. place \in {"static", "load", "cached"}
    OBVIOUS
  <2> HIDE DEF place, snap
  <2> QED
    BY <1>2, <1>3, <2>1, <2>2, <2>3, <2>4, <2>5, <2>6 DEF CallInv, Cached, Guarded
<1> QED
  BY <1>2, <1>3, <1>4, <1>5, <1>6, ExecFrame DEF ExecInv

\* An exec that has no handle ends.
LEMMA GiveUpStep ==
    ASSUME ExecInv, UNCHANGED scenario, NEW d \in Drivers, ~exec[d].guard,
           exec' = [exec EXCEPT ![d] = Idle], UNCHANGED <<proc, image, cache, search>>
    PROVE  ExecInv'
<1>1. TypeInv /\ Idle \in Call
  BY DEF ExecInv, Idle, Call, Places, Host
<1>2. /\ exec' \in [Drivers -> Call] /\ exec'[d] = Idle
      /\ \A e \in Drivers \ {d} : exec'[e] = exec[e]
  BY <1>1 DEF TypeInv
<1>3. Created' = Created /\ Live' = Live
  BY DEF Created, Live
<1>4. TypeInv'
  BY <1>1, <1>2, <1>3 DEF TypeInv
<1>5. ASSUME NEW x \in Dynamic
      PROVE  image'[x].loads + Held(x) >= image[x].loads + Held(x)'
  <2>1. Cardinality(Guards(x)') = Cardinality(Guards(x))
    BY GuardsStep, <1>2 DEF Idle
  <2>2. Held(x)' = Held(x) /\ image'[x].loads = image[x].loads
    BY <2>1 DEF Held
  <2> QED
    BY <2>2, <1>1, HeldCount DEF TypeInv, Image
<1>6. CallInv(d)'
  BY <1>2 DEF CallInv, Idle, Cached, Guarded
<1> QED
  BY <1>2, <1>3, <1>4, <1>5, <1>6, ExecFrame DEF ExecInv

\* What an exec that succeeds does to the coroutines.
LEMMA SpawnedEffect ==
    ASSUME ExecInv, NEW d \in Drivers, NEW via \in {"start", "main", "static"},
           NEW owner \in Procs \cup {Dangling}, Spawned(d, via, owner)
    PROVE  /\ proc' \in [Procs -> Coroutine \cup {None}]
           /\ NextProc \in Procs \ Created
           /\ Created' = Created \cup {NextProc} /\ \E n \in 0..MaxProcs : Created' = 1..n
           /\ proc'[NextProc] = [drv |-> d, bin |-> exec[d].bin, via |-> via, st |-> "new",
                                 owner |-> owner]
           /\ \A p \in Created : /\ proc'[p].bin = proc[p].bin /\ proc'[p].via = proc[p].via
                                 /\ proc'[p].drv = proc[p].drv
                                 /\ proc'[p].st = IF p = exec[d].caller THEN "done"
                                                                        ELSE proc[p].st
           /\ exec' \in [Drivers -> Call] /\ exec'[d] = Idle
           /\ \A e \in Drivers \ {d} : exec'[e] = exec[e]
           /\ CallInv(d)'
<1> DEFINE c == exec[d].caller
           new == [drv |-> d, bin |-> exec[d].bin, via |-> via, st |-> "new",
                   owner |-> owner]
<1>1. TypeInv /\ CallInv(d) /\ CanCreate /\ exec[d] \in Call
  BY DEF ExecInv, Spawned, TypeInv
<1>2. NextProc \in Procs \ Created /\ Created \cup {NextProc} = 1..NextProc
  BY <1>1, NextIsFresh
<1>3. new \in Coroutine /\ new # None
  <2>1. new \in Coroutine
    BY <1>1 DEF Call, Coroutine
  <2> QED
    BY <2>1, NoneAssumption
<1>4. PICK n : n = NextProc
  OBVIOUS
<1>5. /\ proc' \in [Procs -> Coroutine \cup {None}] /\ proc'[n] = new
      /\ \A p \in Procs : proc'[p] # None <=> p \in Created \cup {n}
      /\ \A p \in Created : /\ proc'[p].bin = proc[p].bin /\ proc'[p].via = proc[p].via
                            /\ proc'[p].drv = proc[p].drv
                            /\ proc'[p].st = IF p = c THEN "done" ELSE proc[p].st
  <2>1. ASSUME NEW p \in Procs
        PROVE  proc'[p] = IF p = n THEN new
                          ELSE IF p = c THEN [proc[p] EXCEPT !.st = "done"] ELSE proc[p]
    <3>1. proc'[p] = CASE p = n -> new
                       [] p = c -> [proc[p] EXCEPT !.st = "done"]
                       [] OTHER -> proc[p]
      BY <2>1, <1>4, Zenon DEF Spawned
    <3>2. p = n => p # c
      BY <1>1, <1>2, <1>4, <2>1, ExecAssumption DEF CallInv, Host, Procs
    <3> HIDE DEF new, c
    <3> QED
      BY <3>1, <3>2
  <2>2. ASSUME NEW p \in Created
        PROVE  proc[p] \in Coroutine /\ [proc[p] EXCEPT !.st = "done"] \in Coroutine
    <3>1. proc[p] \in Coroutine
      BY <1>1, <2>2 DEF TypeInv, Created
    <3> QED
      BY <3>1 DEF Coroutine
  <2>3. c \in Procs => c \in Created
    BY <1>1, ExecAssumption DEF CallInv, Host, Procs
  <2>4. proc' = [p \in Procs |-> proc'[p]]
    BY DEF Spawned
  <2>5. ASSUME NEW p \in Procs PROVE proc'[p] \in Coroutine \cup {None}
    <3> HIDE DEF new
    <3> QED
      BY <1>1, <1>3, <2>1, <2>2, <2>3, <2>5 DEF TypeInv
  <2>6. ASSUME NEW p \in Procs PROVE proc'[p] # None <=> p \in Created \cup {n}
    <3> HIDE DEF new
    <3> QED
      BY <1>2, <1>3, <1>4, <2>1, <2>2, <2>3, <2>6, NoneAssumption DEF Created
  <2>7. ASSUME NEW p \in Created
        PROVE /\ proc'[p].bin = proc[p].bin /\ proc'[p].via = proc[p].via
              /\ proc'[p].drv = proc[p].drv
              /\ proc'[p].st = IF p = c THEN "done" ELSE proc[p].st
    <3>1. p # n /\ p \in Procs /\ proc[p] \in Coroutine
      BY <1>2, <1>4, <2>2, <2>7 DEF Created
    <3>2. proc'[p] = IF p = c THEN [proc[p] EXCEPT !.st = "done"] ELSE proc[p]
      BY <3>1, <2>1
    <3> QED
      BY <3>1, <3>2 DEF Coroutine
  <2>8. proc'[n] = new
    BY <1>2, <1>4, <2>1
  <2> QED
    BY <2>4, <2>5, <2>6, <2>7, <2>8
<1>6. Created' = Created \cup {n} /\ \E m \in 0..MaxProcs : Created' = 1..m
  <2>1. Created' = Created \cup {n}
    BY <1>2, <1>4, <1>5 DEF Created
  <2>2. n \in 0..MaxProcs
    BY <1>2, <1>4, ExecAssumption DEF Procs
  <2> QED
    BY <2>1, <2>2, <1>2, <1>4
<1>7. /\ exec' \in [Drivers -> Call] /\ exec'[d] = Idle
      /\ \A e \in Drivers \ {d} : exec'[e] = exec[e]
  <2>1. Idle \in Call
    BY DEF Idle, Call, Places, Host
  <2> QED
    BY <2>1, <1>1 DEF Spawned, TypeInv
<1>8. CallInv(d)'
  BY <1>7 DEF CallInv, Idle, Cached, Guarded
<1> QED
  BY <1>2, <1>4, <1>5, <1>6, <1>7, <1>8

\* A spawn leaves the other coroutines their binary and their entry, and the
\* other execs where they are.
LEMMA SpawnedKeeps ==
    ASSUME ExecInv, NEW d \in Drivers, NEW via \in {"start", "main", "static"},
           NEW owner \in Procs \cup {Dangling}, Spawned(d, via, owner)
    PROVE  /\ \A p \in Created : /\ proc'[p].bin = proc[p].bin /\ proc'[p].via = proc[p].via
                                 /\ proc'[p].drv = proc[p].drv
                                 /\ proc'[p].st = IF p = exec[d].caller THEN "done"
                                                                        ELSE proc[p].st
           /\ exec'[d] = Idle /\ \A e \in Drivers \ {d} : exec'[e] = exec[e]
<1>1. \A p \in Created : /\ proc'[p].bin = proc[p].bin /\ proc'[p].via = proc[p].via
                         /\ proc'[p].drv = proc[p].drv
                         /\ proc'[p].st = IF p = exec[d].caller THEN "done"
                                                                ELSE proc[p].st
  BY SpawnedEffect
<1>2. exec'[d] = Idle /\ \A e \in Drivers \ {d} : exec'[e] = exec[e]
  BY SpawnedEffect
<1> QED
  BY <1>1, <1>2

\* An exec that has no handle succeeds.
LEMMA SpawnStep ==
    ASSUME ExecInv, UNCHANGED scenario, NEW d \in Drivers, ~exec[d].guard,
           NEW via \in {"start", "main", "static"}, NEW owner \in Procs \cup {Dangling},
           Spawned(d, via, owner), NEW n, n = NextProc,
           cache' \in [Dynamic -> BinaryCacheEntry \cup {None}],
           image' \in [Dynamic -> Image],
           search' = search,
           \A b \in Dynamic :
               /\ cache'[b] = None <=> cache[b] = None
               /\ cache'[b] # None => cache'[b].got = "ours"
               /\ image[b].loads > 0 /\ image[b].got = "ours" => image'[b].got = "ours"
               /\ image'[b].loads >= image[b].loads,
           CoroutineInv(n)'
    PROVE  ExecInv'
<1>1. TypeInv
  BY DEF ExecInv
<1>0. /\ Created' = Created \cup {n}
      /\ \A p \in Created : /\ proc'[p].bin = proc[p].bin /\ proc'[p].via = proc[p].via
                            /\ proc'[p].st = IF p = exec[d].caller THEN "done"
                                                                   ELSE proc[p].st
      /\ exec'[d] = Idle /\ \A e \in Drivers \ {d} : exec'[e] = exec[e]
  <2>1. Created' = Created \cup {NextProc}
    BY SpawnedEffect
  <2> QED
    BY <2>1, SpawnedKeeps
<1>2. TypeInv'
  BY <1>1, SpawnedEffect DEF TypeInv
<1>3. ASSUME NEW b \in Dynamic
      PROVE  image'[b].loads + Held(b) >= image[b].loads + Held(b)'
  <2>1. Cardinality(Guards(b)') = Cardinality(Guards(b))
    BY <1>0, GuardsStep DEF Idle
  <2>2. Held(b)' = Held(b)
    BY <2>1 DEF Held
  <2> QED
    BY <2>2, <1>1, <1>2, HeldCount DEF TypeInv, Image
<1>4. ASSUME NEW p \in Live', p # n
      PROVE  p \in Live /\ proc'[p].bin = proc[p].bin /\ proc'[p].via = proc[p].via
  <2>1. p \in Created
    BY <1>0, <1>4 DEF Live
  <2> QED
    BY <2>1, <1>0, <1>4 DEF Live
<1> QED
  BY <1>2, <1>3, <1>4, SpawnedEffect, ExecFrame

\* A coroutine is entered at _start of an image that the cache holds.
LEMMA SpawnEntryStep ==
    ASSUME ExecInv, UNCHANGED scenario, NEW d \in Drivers, SpawnEntry(d)
    PROVE  ExecInv'
<1> DEFINE b == exec[d].bin
<1>1. TypeInv /\ CallInv(d) /\ exec[d].pc = "spawn"
  BY DEF ExecInv, SpawnEntry
<1>2. CASE ViaEntryFails(d)
  BY <1>1, <1>2, FailStep
<1>3. CASE /\ Spawned(d, "start", NextProc)
           /\ cache' = IF cache[b] = None THEN cache ELSE [cache EXCEPT ![b].users = @ + 1]
           /\ UNCHANGED <<image, search, hook>>
  <2>1. /\ b \in Dynamic /\ ~exec[d].guard /\ cache[b] # None /\ image[b].got = "ours"
    BY <1>1 DEF CallInv, Guarded, Cached
  <2>2. /\ cache' \in [Dynamic -> BinaryCacheEntry \cup {None}]
        /\ \A c \in Dynamic : /\ cache'[c] = None <=> cache[c] = None
                              /\ cache'[c] # None => cache'[c].got = "ours"
    <3>1. cache[b] \in BinaryCacheEntry /\ cache[b].got = "ours"
      BY <1>1, <2>1 DEF ExecInv, TypeInv
    <3>2. PICK r : r = [cache[b] EXCEPT !.users = cache[b].users + 1]
      OBVIOUS
    <3>3. r \in BinaryCacheEntry /\ r.got = "ours"
      BY <3>1, <3>2 DEF BinaryCacheEntry
    <3>4. cache' = [cache EXCEPT ![b] = r]
      BY <1>1, <1>3, <2>1, <3>2 DEF TypeInv
    <3> QED
      BY <1>1, <2>1, <3>3, <3>4, NoneAssumption DEF ExecInv, TypeInv
  <2>3. NextProc \in Procs
    BY <1>1, <1>3, NextIsFresh DEF Spawned
  <2>4. PICK n : n = NextProc
    OBVIOUS
  <2>5. proc'[n] = [drv |-> d, bin |-> b, via |-> "start", st |-> "new", owner |-> n]
    BY <1>3, <2>3, <2>4, SpawnedEffect
  <2>6. CoroutineInv(n)'
    BY <2>1, <2>2, <2>5, <1>3 DEF CoroutineInv
  <2>7. /\ image' = image /\ search' = search /\ image' \in [Dynamic -> Image]
        /\ \A c \in Dynamic : image'[c].loads >= image[c].loads
    BY <1>1, <1>3 DEF TypeInv, Image
  <2> QED
    BY <1>3, <2>1, <2>2, <2>3, <2>4, <2>6, <2>7, SpawnStep
<1> QED
  BY <1>2, <1>3 DEF SpawnEntry

\* A coroutine is entered at main, with a handle that is never closed.
LEMMA ExecMainStep ==
    ASSUME ExecInv, UNCHANGED scenario, NEW d \in Drivers, ExecMain(d)
    PROVE  ExecInv'
<1> PICK b : b = exec[d].bin
  OBVIOUS
<1>1. TypeInv /\ CallInv(d) /\ exec[d].pc = "main"
  BY DEF ExecInv, ExecMain
<1>2. ~exec[d].guard /\ b \in Dynamic /\ UNCHANGED <<cache, search>>
  BY <1>1 DEF CallInv, Guarded, ExecMain
<1>3. CASE exec' = [exec EXCEPT ![d] = Idle] /\ UNCHANGED <<proc, image>>
  BY <1>2, <1>3, GiveUpStep
<1>4. CASE /\ image' = [image EXCEPT ![b] = Opened(b)]
           /\ Spawned(d, "main", Dangling)
  <2>1. PICK n : n = NextProc
    OBVIOUS
  <2>2. proc'[n] = [drv |-> d, bin |-> b, via |-> "main", st |-> "new", owner |-> Dangling]
    BY <1>4, <2>1, SpawnedEffect
  <2>3. /\ image' \in [Dynamic -> Image]
        /\ \A c \in Dynamic :
              /\ image[c].loads > 0 => image'[c].got = image[c].got
              /\ image'[c].loads = IF c = b THEN image[c].loads + 1 ELSE image[c].loads
    BY <1>1, <1>2, <1>4, OpenEffect
  <2>4. ASSUME NEW c \in Dynamic PROVE image[c].loads \in Nat
    BY <1>1, <2>4 DEF TypeInv, Image
  <2>5. Held(b)' = Held(b)
    <3>1. exec'[d] = Idle /\ \A e \in Drivers \ {d} : exec'[e] = exec[e]
      BY <1>4, SpawnedEffect
    <3>2. Cardinality(Guards(b)') = Cardinality(Guards(b))
      BY <1>2, <3>1, GuardsStep DEF Idle
    <3> QED
      BY <3>2, <1>2 DEF Held
  <2>6. image'[b].loads > Held(b)'
    BY <1>2, <2>3, <2>4, <2>5, HeldCount DEF ExecInv
  <2>7. CoroutineInv(n)'
    BY <1>2, <2>2, <2>6 DEF CoroutineInv
  <2>8. \A c \in Dynamic : cache[c] # None => cache[c].got = "ours"
    BY DEF ExecInv
  <2>9. \A c \in Dynamic : image'[c].loads >= image[c].loads
    BY <2>3, <2>4
  <2>10. cache' \in [Dynamic -> BinaryCacheEntry \cup {None}]
    BY <1>1, <1>2 DEF TypeInv
  <2> QED
    BY <1>2, <1>4, <2>1, <2>3, <2>7, <2>8, <2>9, <2>10, SpawnStep
<1> QED
  BY <1>3, <1>4 DEF ExecMain

\* A coroutine is entered at the entry of a static image.
LEMMA ExecStaticStep ==
    ASSUME ExecInv, UNCHANGED scenario, NEW d \in Drivers, ExecStatic(d)
    PROVE  ExecInv'
<1> DEFINE b == exec[d].bin
<1>1. TypeInv /\ CallInv(d) /\ exec[d].pc = "static"
  BY DEF ExecInv, ExecStatic
<1>2. ~exec[d].guard /\ b \in Static /\ UNCHANGED <<image, cache, search>>
  BY <1>1 DEF CallInv, Guarded, ExecStatic
<1>3. CASE exec' = [exec EXCEPT ![d] = Idle] /\ UNCHANGED proc
  BY <1>2, <1>3, GiveUpStep
<1>4. CASE Spawned(d, "static", NextProc)
  <2>1. PICK n : n = NextProc
    OBVIOUS
  <2>2. n \in Procs
    BY <1>1, <1>4, <2>1, NextIsFresh DEF Spawned
  <2>3. proc'[n] = [drv |-> d, bin |-> b, via |-> "static", st |-> "new", owner |-> n]
    BY <1>4, <2>1, <2>2, SpawnedEffect
  <2>4. CoroutineInv(n)'
    BY <1>2, <2>3 DEF CoroutineInv
  <2>5. \A c \in Dynamic : /\ cache[c] # None => cache[c].got = "ours"
                           /\ image'[c].loads >= image[c].loads
    BY <1>1, <1>2 DEF ExecInv, TypeInv, Image
  <2>6. /\ cache' \in [Dynamic -> BinaryCacheEntry \cup {None}]
        /\ image' \in [Dynamic -> Image]
    BY <1>1, <1>2 DEF TypeInv
  <2> QED
    BY <1>2, <1>4, <2>1, <2>2, <2>4, <2>5, <2>6, SpawnStep
<1> QED
  BY <1>3, <1>4 DEF ExecStatic

-----------------------------------------------------------------------------
(* Coroutines, and the host *)

\* A step of coroutines: no exec moves, and a coroutine that is live ran the
\* same program before or continues that of one that did.
LEMMA CoroutineStep ==
    ASSUME ExecInv, UNCHANGED <<scenario, exec, cache, search>>,
           proc' \in [Procs -> Coroutine \cup {None}],
           \E n \in 0..MaxProcs : Created' = 1..n,
           Created \subseteq Created',
           image' \in [Dynamic -> Image],
           \A b \in Dynamic : image'[b].loads = image[b].loads /\ image'[b].got = image[b].got,
           \A p \in Live' : \E q \in Live : proc'[p].bin = proc[q].bin /\ proc'[p].via = proc[q].via
    PROVE  ExecInv'
<1>1. TypeInv /\ 1 \in Drivers
  BY ExecAssumption DEF ExecInv, Drivers
<1>2. TypeInv'
  BY <1>1 DEF TypeInv
<1>3. ASSUME NEW b \in Dynamic
      PROVE  /\ Held(b)' = Held(b)
             /\ image'[b].loads + Held(b) >= image[b].loads + Held(b)'
  <2>1. Held(b)' = Held(b)
    BY DEF Held, Guards
  <2> QED
    BY <2>1, <1>1, HeldCount DEF TypeInv, Image
<1>4. CallInv(1)'
  BY <1>1 DEF ExecInv, CallInv
<1>5. ASSUME NEW p \in Live' PROVE CoroutineInv(p)'
  <2>1. PICK q \in Live : proc'[p].bin = proc[q].bin /\ proc'[p].via = proc[q].via
    BY <1>5
  <2>2. CoroutineInv(q)
    BY <2>1 DEF ExecInv
  <2> QED
    BY <2>1, <2>2, <1>3 DEF CoroutineInv
<1>6. \A b \in Dynamic : cache[b] # None => cache[b].got = "ours"
  BY DEF ExecInv
<1> QED
  BY <1>1, <1>2, <1>3, <1>4, <1>5, <1>6, ExecFrame

\* Coroutines get another status.
LEMMA StatusEffect ==
    ASSUME TypeInv, NEW F \in SUBSET Created,
           NEW st \in {"started", "done", "dropped"},
           proc' = [p \in Procs |-> IF p \in F THEN [proc[p] EXCEPT !.st = st] ELSE proc[p]]
    PROVE  /\ proc' \in [Procs -> Coroutine \cup {None}]
           /\ Created' = Created /\ \E n \in 0..MaxProcs : Created' = 1..n
           /\ \A p \in Created : /\ proc'[p].bin = proc[p].bin /\ proc'[p].via = proc[p].via
                                 /\ proc'[p].drv = proc[p].drv
                                 /\ proc'[p].st = IF p \in F THEN st ELSE proc[p].st
<1>1. ASSUME NEW p \in Created
      PROVE  /\ proc'[p] \in Coroutine
             /\ proc'[p].bin = proc[p].bin /\ proc'[p].via = proc[p].via
             /\ proc'[p].drv = proc[p].drv
             /\ proc'[p].st = IF p \in F THEN st ELSE proc[p].st
  <2>1. proc[p] \in Coroutine /\ p \in Procs
    BY <1>1 DEF TypeInv, Created
  <2> QED
    BY <2>1 DEF Coroutine
<1>2. \A p \in Procs \ Created : proc'[p] = None
  BY DEF Created
<1>3. Created' = Created
  BY <1>1, <1>2, NoneAssumption DEF Created
<1>4. proc' \in [Procs -> Coroutine \cup {None}]
  BY <1>1, <1>2 DEF Created
<1> QED
  BY <1>1, <1>3, <1>4 DEF TypeInv

\* A slice, an exit and a reaping change the status of coroutines only, and
\* start nothing that was not live.
LEMMA LifeEffect ==
    ASSUME TypeInv, (\E p \in Procs : RunSlice(p) \/ Exit(p)) \/ \E d \in Drivers : Reap(d)
    PROVE  /\ proc' \in [Procs -> Coroutine \cup {None}]
           /\ Created' = Created /\ \E n \in 0..MaxProcs : Created' = 1..n
           /\ \A q \in Created : /\ proc'[q].bin = proc[q].bin /\ proc'[q].via = proc[q].via
                                 /\ proc'[q].drv = proc[q].drv
                                 /\ proc'[q].st = "new" => proc[q].st = "new"
           /\ Live' \subseteq Live
           /\ image' \in [Dynamic -> Image]
           /\ \A b \in Dynamic : image'[b].loads = image[b].loads /\ image'[b].got = image[b].got
           /\ UNCHANGED <<exec, cache, search>>
<1>1. CASE \E p \in Procs : RunSlice(p)
  <2>1. PICK p \in Procs : RunSlice(p)
    BY <1>1
  <2>2. PICK F \in SUBSET Created : F = {p} /\ F \subseteq Live
    BY <2>1 DEF RunSlice, Live
  <2>3. proc' = [q \in Procs |-> IF q \in F THEN [proc[q] EXCEPT !.st = "started"] ELSE proc[q]]
    BY <2>1, <2>2 DEF RunSlice, TypeInv
  <2>4. /\ image' \in [Dynamic -> Image]
        /\ \A b \in Dynamic : image'[b].loads = image[b].loads /\ image'[b].got = image[b].got
    BY <2>1 DEF TypeInv, RunSlice, Image
  <2>5. /\ proc' \in [Procs -> Coroutine \cup {None}]
        /\ Created' = Created /\ \E n \in 0..MaxProcs : Created' = 1..n
        /\ \A q \in Created : /\ proc'[q].bin = proc[q].bin /\ proc'[q].via = proc[q].via
                              /\ proc'[q].drv = proc[q].drv
                              /\ proc'[q].st = IF q \in F THEN "started" ELSE proc[q].st
    BY <2>3, StatusEffect
  <2>6. Live' \subseteq Live
    BY <2>2, <2>5 DEF Live
  <2> QED
    BY <2>1, <2>4, <2>5, <2>6 DEF RunSlice
<1>2. CASE \E p \in Procs : Exit(p)
  <2>1. PICK p \in Procs : Exit(p)
    BY <1>2
  <2>2. PICK F \in SUBSET Created : F = {p}
    BY <2>1 DEF Exit, Started
  <2>3. proc' = [q \in Procs |-> IF q \in F THEN [proc[q] EXCEPT !.st = "done"] ELSE proc[q]]
    BY <2>1, <2>2 DEF Exit, TypeInv
  <2>4. /\ proc' \in [Procs -> Coroutine \cup {None}]
        /\ Created' = Created /\ \E n \in 0..MaxProcs : Created' = 1..n
        /\ \A q \in Created : /\ proc'[q].bin = proc[q].bin /\ proc'[q].via = proc[q].via
                              /\ proc'[q].drv = proc[q].drv
                              /\ proc'[q].st = IF q \in F THEN "done" ELSE proc[q].st
    BY <2>3, StatusEffect
  <2>5. Live' \subseteq Live
    BY <2>4 DEF Live
  <2> QED
    BY <2>1, <2>4, <2>5 DEF Exit, TypeInv
<1>3. CASE \E d \in Drivers : Reap(d)
  <2>1. PICK d \in Drivers : Reap(d)
    BY <1>3
  <2>2. PICK F \in SUBSET Created :
           proc' = [p \in Procs |-> IF p \in F THEN [proc[p] EXCEPT !.st = "dropped"]
                                                ELSE proc[p]]
    BY <2>1 DEF Reap
  <2>3. /\ proc' \in [Procs -> Coroutine \cup {None}]
        /\ Created' = Created /\ \E n \in 0..MaxProcs : Created' = 1..n
        /\ \A q \in Created : /\ proc'[q].bin = proc[q].bin /\ proc'[q].via = proc[q].via
                              /\ proc'[q].drv = proc[q].drv
                              /\ proc'[q].st = IF q \in F THEN "dropped" ELSE proc[q].st
    BY <2>2, StatusEffect
  <2>4. Live' \subseteq Live
    BY <2>3 DEF Live
  <2>5. UNCHANGED <<exec, image, cache, search>>
    BY <2>1 DEF Reap
  <2> QED
    BY <2>3, <2>4, <2>5 DEF TypeInv
<1> QED
  BY <1>1, <1>2, <1>3

\* Slices, exits and reaping take no image away.
LEMMA LifeStep ==
    ASSUME ExecInv, UNCHANGED scenario,
           (\E p \in Procs : RunSlice(p) \/ Exit(p)) \/ \E d \in Drivers : Reap(d)
    PROVE  ExecInv'
<1>1. TypeInv
  BY DEF ExecInv
<1>2. ASSUME NEW q \in Live'
      PROVE  q \in Live /\ proc'[q].bin = proc[q].bin /\ proc'[q].via = proc[q].via
  BY <1>1, <1>2, LifeEffect DEF Live
<1> QED
  BY <1>1, <1>2, LifeEffect, CoroutineStep

\* What fork does to the coroutines.
LEMMA ForkEffect ==
    ASSUME TypeInv, NEW p \in Procs, Fork(p)
    PROVE  /\ proc' \in [Procs -> Coroutine \cup {None}]
           /\ p \in Created /\ NextProc \in Procs \ Created
           /\ Created' = Created \cup {NextProc} /\ \E n \in 0..MaxProcs : Created' = 1..n
           /\ proc'[NextProc] = proc[p]
           /\ \A q \in Created : proc'[q] = proc[q]
<1>1. NextProc \in Procs \ Created /\ Created \cup {NextProc} = 1..NextProc
  BY NextIsFresh DEF Fork
<1>2. PICK n : n = NextProc
  OBVIOUS
<1>3. p \in Created /\ proc[p] \in Coroutine /\ proc' = [proc EXCEPT ![n] = proc[p]]
  BY <1>2 DEF Fork, Started, Created, TypeInv
<1>4. Created' = Created \cup {n}
  BY <1>1, <1>2, <1>3, NoneAssumption DEF TypeInv, Created
<1>5. n \in 0..MaxProcs
  BY <1>1, <1>2, ExecAssumption DEF Procs
<1> QED
  BY <1>1, <1>2, <1>3, <1>4, <1>5 DEF TypeInv, Created

\* A forked coroutine runs in the image of its parent.
LEMMA ForkStep ==
    ASSUME ExecInv, UNCHANGED scenario, NEW p \in Procs, Fork(p)
    PROVE  ExecInv'
<1>1. TypeInv /\ image' = image /\ p \in Live
  BY DEF ExecInv, Fork, Started, Live
<1>2. ASSUME NEW q \in Live'
      PROVE  \E r \in Live : proc'[q].bin = proc[r].bin /\ proc'[q].via = proc[r].via
  <2>1. q \in Created \/ proc'[q] = proc[p]
    BY <1>1, <1>2, ForkEffect DEF Live
  <2>2. CASE q \in Created
    BY <1>1, <1>2, <2>2, ForkEffect DEF Live
  <2> QED
    BY <2>1, <2>2, <1>1
<1> QED
  BY <1>1, <1>2, ForkEffect, CoroutineStep DEF Fork, TypeInv

\* Unloading: nobody runs the binary and nobody is about to.
LEMMA DroppedStep ==
    ASSUME ExecInv, UNCHANGED scenario, NEW B \in SUBSET Dynamic, Dropped(B),
           \A b \in B : cache[b] # None => MayUnload(b)
    PROVE  ExecInv'
<1>1. TypeInv /\ UNCHANGED <<proc, exec, search>>
  BY DEF ExecInv, Dropped
<1>2. Created' = Created /\ Live' = Live
  BY <1>1 DEF Created, Live
<1>3. \A b \in Dynamic : cache'[b] = IF b \in B THEN None ELSE cache[b]
  BY DEF Dropped
<1>4. ASSUME NEW b \in Dynamic
      PROVE  /\ image'[b] \in Image
             /\ image'[b].got = image[b].got
             /\ image'[b].loads = IF b \in B /\ cache[b] # None THEN image[b].loads - 1
                                                               ELSE image[b].loads
             /\ image[b].loads \in Nat
  <2>1. image[b] \in Image /\ (cache[b] # None => image[b].loads >= 1)
    <3>1. image[b] \in Image /\ image[b].loads >= Held(b)
      BY <1>1, <1>4 DEF ExecInv, TypeInv
    <3> QED
      BY <3>1, HeldCount DEF Image
  <2>2. image'[b] = IF b \in B /\ cache[b] # None THEN Closed(b) ELSE image[b]
    BY <1>4 DEF Dropped
  <2> QED
    BY <2>1, <2>2 DEF Closed, Image
<1>5. TypeInv'
  BY <1>1, <1>2, <1>3, <1>4 DEF TypeInv, Dropped
<1>6. ASSUME NEW b \in Dynamic
      PROVE  Held(b)' = IF b \in B /\ cache[b] # None THEN Held(b) - 1 ELSE Held(b)
  <2>1. Guards(b)' = Guards(b)
    BY <1>1 DEF Guards
  <2> QED
    BY <2>1, <1>3, GuardsCount DEF Held
<1>7. ASSUME NEW b \in Dynamic
      PROVE  /\ image'[b].loads >= Held(b)' /\ (cache'[b] # None => cache'[b].got = "ours")
             /\ image[b].loads > Held(b) => image'[b].loads > Held(b)'
  BY <1>3, <1>4, <1>6, <1>7, HeldCount DEF ExecInv
<1>8. ASSUME NEW b \in Dynamic, cache[b] # None, cache'[b] = None
      PROVE  Users(b) = {} /\ \A d \in Drivers : exec[d].bin # b
  BY <1>3, <1>8 DEF MayUnload
<1>9. ASSUME NEW d \in Drivers PROVE CallInv(d)'
  <2>1. CallInv(d)
    BY <1>9 DEF ExecInv
  <2> QED
    BY <2>1, <1>1, <1>2, <1>4, <1>8, <1>9 DEF CallInv, Cached
<1>10. ASSUME NEW p \in Live' PROVE CoroutineInv(p)'
  <2>1. p \in Live /\ CoroutineInv(p)
    BY <1>2, <1>10 DEF ExecInv
  <2>2. proc[p].bin \in Dynamic /\ cache[proc[p].bin] # None => cache'[proc[p].bin] # None
    BY <2>1, <1>8 DEF Users
  <2> QED
    BY <2>1, <2>2, <1>1, <1>4, <1>7 DEF CoroutineInv
<1> QED
  BY <1>5, <1>7, <1>9, <1>10 DEF ExecInv

-----------------------------------------------------------------------------
(* Code stays mapped and calls stay intercepted *)

\* The drivers of a scenario are drivers.
LEMMA ScenarioDrivers ==
    ASSUME TypeInv
    PROVE  1..scenario.drivers \subseteq Drivers /\ scenario.bins \subseteq Binaries
<1>1. scenario.drivers \in Drivers /\ scenario.bins \subseteq Binaries
  BY DEF TypeInv, Scenario
<1> QED
  BY <1>1, ExecAssumption DEF Drivers

\* Every step keeps the invariant.
LEMMA ExecNext == ExecInv /\ [Next]_vars => ExecInv'
<1> SUFFICES ASSUME ExecInv, [Next]_vars PROVE ExecInv'
  OBVIOUS
<1>1. CASE UNCHANGED vars
  BY <1>1 DEF vars, ExecInv, TypeInv, Created, Live, Held, Guards, CallInv, CoroutineInv
<1>2. CASE Next
  <2> UNCHANGED scenario
    BY <1>2 DEF Next
  <2>1. TypeInv
    BY DEF ExecInv
  <2>2. CASE \E p \in Procs : RunSlice(p) \/ Fork(p) \/ Exit(p)
    BY <2>2, LifeStep, ForkStep
  <2>3. CASE \E d \in 1..scenario.drivers : DriverStep(d)
    <3>1. PICK d \in Drivers : DriverStep(d)
      BY <2>1, <2>3, ScenarioDrivers
    <3> QED
      BY <3>1, LoadStep, RestoreStep, RereadStep, SetSearchPathStep, IterateStep, HookStep,
         PatchGotStep, SaveAndCacheStep, SpawnEntryStep, ExecMainStep, ExecStaticStep, LifeStep
         DEF DriverStep
  <2>4. CASE \E d \in 1..scenario.drivers, c \in Procs \cup {Host}, b \in scenario.bins :
                StartExec(d, c, b)
    <3>1. PICK d \in Drivers, c \in Procs \cup {Host}, b \in Binaries : StartExec(d, c, b)
      BY <2>1, <2>4, ScenarioDrivers
    <3> QED
      BY <3>1, StartExecStep
  <2>5. CASE \E b \in Dynamic : UnloadBinary(b)
    BY <2>5, DroppedStep DEF UnloadBinary
  <2>6. CASE UnloadAll
    BY <2>6, DroppedStep DEF UnloadAll
  <2> QED
    BY <1>2, <2>2, <2>3, <2>4, <2>5, <2>6 DEF Next, Act
<1> QED
  BY <1>1, <1>2

\* The invariant holds in every behaviour.
LEMMA ExecInvariant == Spec => []ExecInv
BY ExecInit, ExecNext, PTL DEF Spec

\* However many sessions load, restore, run, fork and unload the binaries,
\* the code of a live coroutine's binary is mapped.
THEOREM RunningCodeIsMapped == Spec => []CodeMapped
<1>1. ExecInv => CodeMapped
  <2> SUFFICES ASSUME ExecInv, NEW p \in Live, proc[p].bin \in Dynamic
               PROVE  image[proc[p].bin].loads > 0
    BY DEF CodeMapped
  <2> DEFINE b == proc[p].bin
  <2>1. CoroutineInv(p) /\ proc[p].via \in {"closure", "start", "main", "static"}
    BY DEF ExecInv, TypeInv, Live, Created, Coroutine
  <2>2. cache[b] # None \/ image[b].loads > Held(b)
    BY <2>1, ExecAssumption DEF CoroutineInv
  <2>3. image[b].loads \in Nat /\ image[b].loads >= Held(b)
    BY DEF ExecInv, TypeInv, Image
  <2> QED
    BY <2>2, <2>3, HeldCount
<1> QED
  BY <1>1, ExecInvariant, PTL

\* A program entered at _start calls the interceptors, in every scenario.
THEOREM CallsAreIntercepted == Spec => []Intercepted
<1>1. ExecInv => Intercepted
  BY DEF ExecInv, Intercepted, CoroutineInv, Started, Live
<1> QED
  BY <1>1, ExecInvariant, PTL

-----------------------------------------------------------------------------
(* One session *)

\* The steps of an exec from its start to the patched GOT: what they do to
\* the call, to the handles and to the globals.
LEMMA CallMove ==
    ASSUME ExecInv, NEW d \in Drivers,
           \/ Load(d) \/ Restore(d) \/ Reread(d) \/ SetSearchPath(d) \/ Iterate(d)
           \/ ClaimHook(d) \/ WriteHook(d) \/ PatchGot(d)
           \/ SpawnEntry(d) /\ ViaEntryFails(d)
    PROVE  LET b == exec[d].bin IN
           /\ \A e \in Drivers \ {d} : exec'[e] = exec[e]
           /\ UNCHANGED <<proc, cache>>
           /\ b \in Dynamic /\ exec[d].pc # "idle"
           /\ \/ exec'[d] = Idle
              \/ /\ exec'[d].bin = b /\ exec'[d].caller = exec[d].caller
                 /\ exec'[d].snap = exec[d].snap
                 /\ exec'[d].pc \in After \cup {"main"}
                 /\ exec'[d].guard => exec[d].guard \/ exec[d].pc = "load"
                 /\ exec'[d].pc \in After => exec[d].pc \in After \cup {"load", "cached"}
           /\ \A c \in Dynamic \ {b} :
                 image'[c].loads = image[c].loads /\ image'[c].val = image[c].val
           /\ image'[b].loads = image[b].loads + (IF exec'[d].guard THEN 1 ELSE 0)
                                               - (IF exec[d].guard THEN 1 ELSE 0)
           /\ exec'[d].pc \in After /\ exec[d].pc = "load" /\ image[b].loads = 0
                 => image'[b].val = Fresh
           /\ exec'[d].pc \in After /\ exec[d].pc = "cached" /\ image[b].loads > 0
                 => image'[b].val = exec[d].snap.val
           /\ exec[d].pc \in After => image'[b].val = image[b].val
<1> DEFINE b == exec[d].bin
<1>1. TypeInv /\ CallInv(d) /\ image \in [Dynamic -> Image]
  BY DEF ExecInv, TypeInv
<1>2. exec[d].pc \notin {"idle", "static"}
  BY DEF Load, Restore, Reread, SetSearchPath, Iterate, ClaimHook, WriteHook, PatchGot, SpawnEntry
<1>3. b \in Dynamic /\ (exec[d].guard => exec[d].pc \in Guarded)
  BY <1>1, <1>2 DEF CallInv
<1>4. ASSUME NEW c \in Dynamic PROVE image[c].loads \in Nat
  BY <1>1, <1>4 DEF Image
<1>5. CASE ViaEntryFails(d)
  <2>1. UNCHANGED <<proc, cache>>
    BY <1>5 DEF ViaEntryFails
  <2>2. /\ \A e \in Drivers \ {d} : exec'[e] = exec[e]
        /\ exec'[d] = Idle \/ /\ exec'[d].pc = "main" /\ exec'[d].guard = FALSE
                              /\ exec'[d].bin = b /\ exec'[d].caller = exec[d].caller
                              /\ exec'[d].snap = exec[d].snap
    BY <1>2, <1>5, FailEffect
  <2>3. \A c \in Dynamic :
           /\ image'[c].val = image[c].val
           /\ image'[c].loads = IF c = b /\ exec[d].guard THEN image[c].loads - 1
                                                         ELSE image[c].loads
    BY <1>2, <1>5, FailEffect
  <2>4. exec'[d].pc \notin After /\ ~exec'[d].guard
    BY <2>2 DEF Idle, After, Guarded, Cached
  <2> QED
    <3>1. \/ exec'[d] = Idle
          \/ /\ exec'[d].bin = b /\ exec'[d].caller = exec[d].caller
             /\ exec'[d].snap = exec[d].snap /\ exec'[d].pc = "main"
      BY <2>2
    <3>2. \A c \in Dynamic \ {b} :
             image'[c].loads = image[c].loads /\ image'[c].val = image[c].val
      BY <2>3
    <3>3. image'[b].loads = image[b].loads + (IF exec'[d].guard THEN 1 ELSE 0)
                                           - (IF exec[d].guard THEN 1 ELSE 0)
      BY <2>3, <2>4, <1>3, <1>4
    <3>4. image'[b].val = image[b].val
      BY <2>3, <1>3
    <3> QED
      BY <2>1, <2>2, <2>4, <3>1, <3>2, <3>3, <3>4, <1>2, <1>3
<1>6. CASE Load(d) /\ ~ViaEntryFails(d)
  <2>1. /\ image' = [image EXCEPT ![b] = Opened(b)]
        /\ exec' = [exec EXCEPT ![d].pc = "search", ![d].guard = TRUE]
        /\ UNCHANGED <<proc, cache>> /\ exec[d].pc = "load"
    BY <1>6 DEF Load
  <2>2. "search" \in After /\ "load" \notin After
    BY DEF After, Guarded, Cached
  <2>3. /\ \A e \in Drivers \ {d} : exec'[e] = exec[e]
        /\ exec'[d].pc = "search" /\ exec'[d].guard = TRUE /\ ~exec[d].guard
        /\ exec'[d].bin = b /\ exec'[d].caller = exec[d].caller
        /\ exec'[d].snap = exec[d].snap
    BY <2>1, LoadEffect
  <2>4. \A c \in Dynamic :
           /\ image'[c].val = IF c = b /\ image[c].loads = 0 THEN Fresh ELSE image[c].val
           /\ image'[c].loads = IF c = b THEN image[c].loads + 1 ELSE image[c].loads
    BY <2>1, LoadEffect
  <2>5. UNCHANGED <<proc, cache>> /\ exec[d].pc = "load"
    BY <2>1
  <2> QED
    <3>1. \A c \in Dynamic \ {b} :
             image'[c].loads = image[c].loads /\ image'[c].val = image[c].val
      BY <2>4
    <3>2. image'[b].loads = image[b].loads + (IF exec'[d].guard THEN 1 ELSE 0)
                                           - (IF exec[d].guard THEN 1 ELSE 0)
      BY <2>3, <2>4, <1>3, <1>4
    <3>3. image[b].loads = 0 => image'[b].val = Fresh
      BY <2>4, <1>3
    <3> QED
      BY <2>2, <2>3, <2>5, <3>1, <3>2, <3>3, <1>3
<1>7. CASE Iterate(d) /\ ~ViaEntryFails(d)
  <2>1. /\ exec' = [exec EXCEPT ![d].base = search,
                                ![d].pc = IF exec[d].guard THEN "hook" ELSE "patch"]
        /\ UNCHANGED <<proc, cache, image>> /\ exec[d].pc = "iterate"
    BY <1>7 DEF Iterate
  <2>2. {"hook", "patch", "iterate"} \subseteq After
    BY DEF After, Guarded, Cached
  <2>3. /\ \A e \in Drivers \ {d} : exec'[e] = exec[e]
        /\ exec'[d].pc \in {"hook", "patch"} /\ exec'[d].bin = b
        /\ exec'[d].guard = exec[d].guard /\ exec'[d].caller = exec[d].caller
        /\ exec'[d].snap = exec[d].snap
    <3>1. exec' = [exec EXCEPT ![d].base = search,
                               ![d].pc = IF exec[d].guard THEN "hook" ELSE "patch"]
      BY <2>1
    <3> QED
      BY <3>1, <1>1, IterateEffect
  <2>4. UNCHANGED <<proc, cache, image>> /\ exec[d].pc = "iterate"
    BY <2>1
  <2> QED
    <3>1. image'[b].loads = image[b].loads + (IF exec'[d].guard THEN 1 ELSE 0)
                                           - (IF exec[d].guard THEN 1 ELSE 0)
      BY <2>3, <2>4, <1>3, <1>4
    <3>2. exec'[d].pc \in After /\ exec[d].pc \in After /\ exec[d].pc # "idle"
      BY <2>2, <2>3, <2>4
    <3> QED
      BY <2>3, <2>4, <3>1, <3>2, <1>3
<1>8. CASE Restore(d)
  <2>1. Goto(d, "reread") /\ UNCHANGED <<proc, cache>> /\ exec[d].pc = "cached"
    BY <1>8 DEF Restore
  <2>2. "reread" \in After /\ "reread" \in Places /\ "cached" \notin After
    BY DEF After, Guarded, Cached, Places
  <2>3. /\ \A c \in Dynamic \ {b} : image'[c] = image[c]
        /\ image'[b].loads = image[b].loads
        /\ image[b].loads > 0 => image'[b].val = exec[d].snap.val
    BY <1>8, <1>1, <1>3 DEF Restore, Image
  <2>4. /\ \A e \in Drivers \ {d} : exec'[e] = exec[e]
        /\ exec'[d].pc = "reread" /\ exec'[d].bin = b
        /\ exec'[d].guard = exec[d].guard /\ exec'[d].caller = exec[d].caller
        /\ exec'[d].snap = exec[d].snap
    BY <2>1, <2>2, <1>1, GotoEffect
  <2> QED
    <3>1. image'[b].loads = image[b].loads + (IF exec'[d].guard THEN 1 ELSE 0)
                                           - (IF exec[d].guard THEN 1 ELSE 0)
      BY <2>3, <2>4, <1>3, <1>4
    <3> QED
      BY <2>1, <2>2, <2>3, <2>4, <3>1, <1>2, <1>3
<1>9. CASE PatchGot(d)
  <2>1. PICK pc \in {"save", "spawn"} : Goto(d, pc) /\ UNCHANGED <<proc, cache>>
    BY <1>9 DEF PatchGot
  <2>2. {"save", "spawn", "patch"} \subseteq After \cap Places /\ exec[d].pc = "patch"
    BY <1>9 DEF After, Guarded, Cached, Places, PatchGot
  <2>3. /\ \A c \in Dynamic \ {b} : image'[c] = image[c]
        /\ image'[b].loads = image[b].loads /\ image'[b].val = image[b].val
    BY <1>9, <1>1, <1>3 DEF PatchGot, Image
  <2>4. /\ \A e \in Drivers \ {d} : exec'[e] = exec[e]
        /\ exec'[d].pc = pc /\ exec'[d].bin = b
        /\ exec'[d].guard = exec[d].guard /\ exec'[d].caller = exec[d].caller
        /\ exec'[d].snap = exec[d].snap
    BY <2>1, <2>2, <1>1, GotoEffect
  <2> QED
    <3>1. image'[b].loads = image[b].loads + (IF exec'[d].guard THEN 1 ELSE 0)
                                           - (IF exec[d].guard THEN 1 ELSE 0)
      BY <2>3, <2>4, <1>3, <1>4
    <3> QED
      BY <2>1, <2>2, <2>3, <2>4, <3>1, <1>2, <1>3
<1>10. CASE \/ Reread(d) /\ ~ViaEntryFails(d)
            \/ SetSearchPath(d) \/ ClaimHook(d) \/ WriteHook(d)
  <2>1. PICK pc \in {"search", "iterate", "hooking", "patch"} :
           Goto(d, pc) /\ UNCHANGED <<proc, cache, image>>
    BY <1>10 DEF Reread, SetSearchPath, ClaimHook, WriteHook
  <2>2. {"search", "iterate", "hooking", "patch"} \subseteq After \cap Places /\ exec[d].pc \in After
    BY <1>10 DEF After, Guarded, Cached, Places, Reread, SetSearchPath, ClaimHook, WriteHook
  <2>3. exec[d].pc \notin {"load", "cached"}
    BY <1>10 DEF Reread, SetSearchPath, ClaimHook, WriteHook
  <2>4. /\ \A e \in Drivers \ {d} : exec'[e] = exec[e]
        /\ exec'[d].pc = pc /\ exec'[d].bin = b
        /\ exec'[d].guard = exec[d].guard /\ exec'[d].caller = exec[d].caller
        /\ exec'[d].snap = exec[d].snap
    BY <2>1, <2>2, <1>1, GotoEffect
  <2> QED
    <3>1. image'[b].loads = image[b].loads + (IF exec'[d].guard THEN 1 ELSE 0)
                                           - (IF exec[d].guard THEN 1 ELSE 0)
      BY <2>1, <2>4, <1>3, <1>4
    <3> QED
      BY <2>1, <2>2, <2>3, <2>4, <3>1, <1>2, <1>3
<1> QED
  BY <1>5, <1>6, <1>7, <1>8, <1>9, <1>10

\* In one session every step of an exec is that of driver 1.
LEMMA OneDriver ==
    ASSUME TypeInv, OneSession
    PROVE  1..scenario.drivers = {1} /\ 1 \in Drivers /\ scenario.exports = {}
BY ExecAssumption DEF OneSession, Drivers

\* A session starts with no image and no exec.
LEMMA OneInit == Init => OneInv
<1> SUFFICES ASSUME Init, OneSession PROVE OneInv
  BY DEF OneInv
<1>1. 1 \in Drivers /\ \A d \in Drivers : exec[d] = Idle
  BY ExecAssumption DEF Init, Drivers
<1>2. \A p \in Created : proc[p].drv = 1 /\ proc[p].via # "main"
  <2> SUFFICES ASSUME NEW p \in Created PROVE proc[p].drv = 1 /\ proc[p].via # "main"
    OBVIOUS
  <2>1. p \in Procs /\ p \in Nat /\ p >= 1 /\ scenario.drivers = 1
    BY ExecAssumption DEF Created, Procs, OneSession
  <2>2. p <= 1
    <3>1. proc[p] = IF p <= 1 THEN [drv |-> p, bin |-> None, via |-> "closure",
                                    st |-> "started", owner |-> p] ELSE None
      BY <2>1 DEF Init
    <3> QED
      BY <3>1 DEF Created
  <2> QED
    BY <2>1, <2>2 DEF Init
<1>3. exec[1].pc = "idle" /\ exec[1].guard = FALSE
  BY <1>1 DEF Idle
<1>4. \A b \in Dynamic : image[b].loads = 0 /\ cache[b] = None
  BY DEF Init
<1> QED
  BY <1>1, <1>2, <1>3, <1>4 DEF OneInv

\* With one session, every step keeps exactly one handle of an image.
LEMMA OneNext == ExecInv /\ OneInv /\ [Next]_vars => OneInv'
<1> SUFFICES ASSUME ExecInv, OneInv, [Next]_vars, OneSession PROVE OneInv'
  <2>1. ASSUME [Next]_vars PROVE scenario' = scenario
    BY <2>1 DEF Next, vars
  <2> QED
    BY <2>1 DEF OneInv, OneSession
<1>1. /\ TypeInv /\ \A d \in Drivers \ {1} : exec[d] = Idle
      /\ \A p \in Created : proc[p].drv = 1 /\ proc[p].via # "main"
      /\ \A b \in Dynamic :
            image[b].loads = (IF cache[b] = None THEN 0 ELSE 1)
                             + (IF exec[1].bin = b /\ exec[1].guard THEN 1 ELSE 0)
      /\ exec[1].pc = "load" \/ exec[1].guard => cache[exec[1].bin] = None
  BY DEF ExecInv, OneInv
<1>2. 1 \in Drivers /\ CallInv(1)
  BY <1>1, OneDriver DEF ExecInv
<1>3. ASSUME \A d \in Drivers \ {1} : exec'[d] = exec[d],
             \A p \in Created' : proc'[p].drv = 1 /\ proc'[p].via # "main",
             \A b \in Dynamic :
                 image'[b].loads = (IF cache'[b] = None THEN 0 ELSE 1)
                                   + (IF exec'[1].bin = b /\ exec'[1].guard THEN 1 ELSE 0),
             exec'[1].pc = "load" \/ exec'[1].guard => cache'[exec'[1].bin] = None
      PROVE  OneInv'
  BY <1>1, <1>3 DEF OneInv
<1>4. CASE UNCHANGED vars
  BY <1>1, <1>3, <1>4 DEF vars, Created
<1>5. CASE \/ \E p \in Procs : RunSlice(p) \/ Exit(p)
           \/ \E d \in 1..scenario.drivers : Reap(d)
  <2>1. (\E p \in Procs : RunSlice(p) \/ Exit(p)) \/ \E d \in Drivers : Reap(d)
    BY <1>1, <1>5, ScenarioDrivers
  <2>2. /\ Created' = Created
        /\ \A q \in Created : proc'[q].drv = proc[q].drv /\ proc'[q].via = proc[q].via
        /\ \A b \in Dynamic : image'[b].loads = image[b].loads
        /\ UNCHANGED <<exec, cache>>
    BY <2>1, <1>1, LifeEffect
  <2> QED
    BY <2>2, <1>1, <1>3
<1>6. CASE \E p \in Procs : Fork(p)
  <2>1. PICK p \in Procs : Fork(p)
    BY <1>6
  <2>2. /\ p \in Created /\ Created' = Created \cup {NextProc} /\ proc'[NextProc] = proc[p]
        /\ \A q \in Created : proc'[q] = proc[q]
    BY <2>1, <1>1, ForkEffect
  <2>3. UNCHANGED <<exec, image, cache>>
    BY <2>1 DEF Fork
  <2> QED
    BY <2>2, <2>3, <1>1, <1>3
<1>7. CASE \/ Load(1) \/ Restore(1) \/ Reread(1) \/ SetSearchPath(1) \/ Iterate(1)
           \/ ClaimHook(1) \/ WriteHook(1) \/ PatchGot(1)
           \/ SpawnEntry(1) /\ ViaEntryFails(1)
  <2> DEFINE b == exec[1].bin
  <2>1. /\ \A e \in Drivers \ {1} : exec'[e] = exec[e]
        /\ UNCHANGED <<proc, cache>> /\ b \in Dynamic
        /\ exec'[1] = Idle \/ /\ exec'[1].bin = b /\ exec'[1].pc \in After \cup {"main"}
                              /\ exec'[1].guard => exec[1].guard \/ exec[1].pc = "load"
        /\ \A c \in Dynamic \ {b} : image'[c].loads = image[c].loads
        /\ image'[b].loads = image[b].loads + (IF exec'[1].guard THEN 1 ELSE 0)
                                            - (IF exec[1].guard THEN 1 ELSE 0)
    BY <1>2, <1>7, CallMove
  <2>2. Created' = Created
    BY <2>1 DEF Created
  <2>3. exec'[1].pc # "load" /\ (exec'[1].guard => exec'[1].bin = b)
    BY <2>1 DEF Idle, After, Guarded, Cached
  <2>4. ASSUME NEW c \in Dynamic
        PROVE  image'[c].loads = (IF cache'[c] = None THEN 0 ELSE 1)
                                 + (IF exec'[1].bin = c /\ exec'[1].guard THEN 1 ELSE 0)
    <3>1. CASE c = b
      <4>1. image[b].loads = (IF cache[b] = None THEN 0 ELSE 1)
                             + (IF exec[1].guard THEN 1 ELSE 0)
        BY <2>1, <1>1
      <4>2. image'[b].loads = (IF cache[b] = None THEN 0 ELSE 1)
                              + (IF exec'[1].guard THEN 1 ELSE 0)
        BY <4>1, <2>1
      <4> QED
        BY <4>2, <3>1, <2>1, <2>3
    <3>2. CASE c # b
      <4>1. image[c].loads = (IF cache[c] = None THEN 0 ELSE 1)
        BY <2>4, <3>2, <1>1
      <4> QED
        BY <4>1, <3>2, <2>4, <2>1, <2>3
    <3> QED
      BY <3>1, <3>2
  <2>5. exec'[1].guard => cache'[exec'[1].bin] = None
    BY <1>1, <2>1, <2>3 DEF Idle
  <2> QED
    BY <1>1, <1>3, <2>1, <2>2, <2>3, <2>4, <2>5
<1>8. CASE SaveAndCache(1)
  <2> DEFINE b == exec[1].bin
  <2>1. /\ b \in Dynamic /\ exec[1].guard
        /\ \A e \in Drivers \ {1} : exec'[e] = exec[e]
        /\ exec'[1].pc = "spawn" /\ exec'[1].guard = FALSE
        /\ cache'[b] # None /\ \A c \in Dynamic \ {b} : cache'[c] = cache[c]
    BY <1>2, <1>8, SaveEffect
  <2>2. UNCHANGED <<proc, image>> /\ Created' = Created
    BY <1>8 DEF SaveAndCache, Created
  <2> QED
    BY <2>1, <2>2, <1>1, <1>3
<1>9. CASE (SpawnEntry(1) /\ ~ViaEntryFails(1)) \/ ExecMain(1) \/ ExecStatic(1)
  <2>1. exec[1].guard = FALSE
    <3>1. exec[1].guard \in BOOLEAN /\ exec[1].pc \in {"spawn", "main", "static"}
      BY <1>1, <1>2, <1>9 DEF TypeInv, Call, SpawnEntry, ExecMain, ExecStatic
    <3> QED
      BY <3>1, <1>2 DEF CallInv, Guarded
  <2>2. /\ image' = image
        /\ \A b \in Dynamic : cache'[b] = None <=> cache[b] = None
        /\ \/ exec' = [exec EXCEPT ![1] = Idle] /\ UNCHANGED proc
           \/ \E via \in {"start", "static"} : Spawned(1, via, NextProc)
    <3>1. CASE SpawnEntry(1) /\ ~ViaEntryFails(1)
      <4>1. PICK b : b = exec[1].bin
        OBVIOUS
      <4>2. /\ Spawned(1, "start", NextProc) /\ UNCHANGED image
            /\ cache' = IF cache[b] = None THEN cache
                                           ELSE [cache EXCEPT ![b].users = cache[b].users + 1]
        BY <3>1, <4>1 DEF SpawnEntry
      <4>3. cache[b] # None /\ b \in Dynamic =>
              cache[b] \in BinaryCacheEntry
              /\ [cache[b] EXCEPT !.users = cache[b].users + 1] \in BinaryCacheEntry
        BY <1>1 DEF TypeInv, BinaryCacheEntry
      <4>4. \A x \in Dynamic : cache'[x] = None <=> cache[x] = None
        BY <1>1, <4>2, <4>3, NoneAssumption DEF TypeInv
      <4> QED
        BY <4>2, <4>4
    <3>2. CASE ExecMain(1)
      BY <3>2, <1>1, OneDriver DEF ExecMain
    <3>3. CASE ExecStatic(1)
      BY <3>3 DEF ExecStatic
    <3> QED
      BY <3>1, <3>2, <3>3, <1>9
  <2>3. exec'[1] = Idle /\ \A e \in Drivers \ {1} : exec'[e] = exec[e]
    BY <1>1, <1>2, <2>2 DEF TypeInv, Spawned
  <2>4. \A p \in Created' : proc'[p].drv = 1 /\ proc'[p].via # "main"
    <3>1. CASE UNCHANGED proc
      BY <3>1, <1>1 DEF Created
    <3>2. CASE \E via \in {"start", "static"} : Spawned(1, via, NextProc)
      <4>1. PICK via \in {"start", "static"} : Spawned(1, via, NextProc)
        BY <3>2
      <4>2. NextProc \in Procs
        BY <1>1, <4>1, NextIsFresh DEF Spawned
      <4>3. PICK n : n = NextProc
        OBVIOUS
      <4>4. /\ Created' = Created \cup {n}
            /\ proc'[n] = [drv |-> 1, bin |-> exec[1].bin, via |-> via, st |-> "new",
                           owner |-> n]
            /\ \A p \in Created : proc'[p].drv = proc[p].drv /\ proc'[p].via = proc[p].via
        <5>1. ExecInv /\ 1 \in Drivers /\ via \in {"start", "main", "static"}
              /\ NextProc \in Procs \cup {Dangling} /\ Spawned(1, via, NextProc)
          BY <1>2, <4>1, <4>2
        <5>2. Created' = Created \cup {NextProc}
          BY <5>1, SpawnedEffect
        <5>3. proc'[NextProc] = [drv |-> 1, bin |-> exec[1].bin, via |-> via, st |-> "new",
                                 owner |-> NextProc]
          BY <5>1, SpawnedEffect
        <5>4. \A p \in Created : proc'[p].drv = proc[p].drv /\ proc'[p].via = proc[p].via
          BY <5>1, SpawnedKeeps
        <5> QED
          BY <4>3, <5>2, <5>3, <5>4
      <4> QED
        BY <4>1, <4>4, <1>1
    <3> QED
      BY <2>2, <3>1, <3>2
  <2> QED
    BY <2>1, <2>2, <2>3, <2>4, <1>1, <1>3 DEF Idle
<1>10. CASE \E c \in Procs \cup {Host}, b \in scenario.bins : StartExec(1, c, b)
  <2>1. PICK c \in Procs \cup {Host}, b \in Binaries : StartExec(1, c, b)
    BY <1>1, <1>10, ScenarioDrivers
  <2>2. /\ exec[1] = Idle /\ \A e \in Drivers \ {1} : exec'[e] = exec[e]
        /\ exec'[1].pc = IF b \in Static THEN "static"
                         ELSE IF cache[b] = None THEN "load" ELSE "cached"
        /\ exec'[1].bin = b /\ exec'[1].guard = FALSE
    <3>1. PICK d \in Drivers : d = 1
      BY <1>2
    <3>2. StartExec(d, c, b)
      BY <2>1, <3>1
    <3>3. /\ exec[d] = Idle /\ \A e \in Drivers \ {d} : exec'[e] = exec[e]
          /\ exec'[d].pc = IF b \in Static THEN "static"
                           ELSE IF cache[b] = None THEN "load" ELSE "cached"
          /\ exec'[d].bin = b /\ exec'[d].guard = FALSE
      BY <3>2, StartEffect
    <3> QED
      BY <3>1, <3>3
  <2>3. UNCHANGED <<proc, image, cache>> /\ Created' = Created
    BY <2>1 DEF StartExec, Created
  <2> QED
    BY <2>2, <2>3, <1>1, <1>3 DEF Idle
<1>11. CASE (\E b \in Dynamic : UnloadBinary(b)) \/ UnloadAll
  <2>1. PICK B \in SUBSET Dynamic : Dropped(B) /\ \A b \in B : cache[b] # None => MayUnload(b)
    <3>1. CASE \E b \in Dynamic : UnloadBinary(b)
      BY <3>1 DEF UnloadBinary
    <3>2. CASE UnloadAll
      BY <3>2 DEF UnloadAll
    <3> QED
      BY <1>11, <3>1, <3>2
  <2>2. UNCHANGED <<proc, exec>> /\ Created' = Created
    BY <2>1 DEF Dropped, Created
  <2>3. ASSUME NEW b \in Dynamic
        PROVE  /\ cache'[b] = IF b \in B THEN None ELSE cache[b]
               /\ image'[b].loads = IF b \in B /\ cache[b] # None THEN image[b].loads - 1
                                                                 ELSE image[b].loads
    BY <1>1, <2>1, <2>3 DEF Dropped, Closed, TypeInv, Image
  <2>4. exec[1].pc = "load" \/ exec[1].guard => exec[1].bin \in Dynamic
    BY <1>2 DEF CallInv, Guarded
  <2>5. exec'[1].pc = "load" \/ exec'[1].guard => cache'[exec'[1].bin] = None
    BY <1>1, <2>2, <2>3, <2>4
  <2>6. ASSUME NEW b \in Dynamic
        PROVE  image'[b].loads = (IF cache'[b] = None THEN 0 ELSE 1)
                                 + (IF exec'[1].bin = b /\ exec'[1].guard THEN 1 ELSE 0)
    BY <2>2, <2>3, <2>6, <1>1
  <2> QED
    BY <2>2, <2>5, <2>6, <1>1, <1>3
<1> QED
  <2>1. \A d \in 1..scenario.drivers : d = 1
    BY <1>1, OneDriver
  <2> QED
    BY <2>1, <1>4, <1>5, <1>6, <1>7, <1>8, <1>9, <1>10, <1>11 DEF Next, Act, DriverStep

\* Nothing is loaded at the start, so nothing is dirty.
LEMMA SlateInit == Init => SlateInv
<1> SUFFICES ASSUME Init, OneSession PROVE SlateInv
  BY DEF SlateInv
<1>1. exec[1] = Idle
  BY ExecAssumption DEF Init, Drivers
<1>2. \A p \in Live : proc[p].st # "new"
  BY DEF Init, Live, Created
<1>3. exec[1].pc = "idle" /\ exec[1].snap = None /\ "idle" \notin After
  BY <1>1 DEF Idle, After, Guarded, Cached
<1>4. \A b \in Dynamic : cache[b] = None
  BY DEF Init
<1> QED
  BY <1>2, <1>3, <1>4 DEF SlateInv

\* One program at a time in one session: every step keeps images of new
\* programs fresh.
LEMMA SlateNext == ExecInv /\ OneInv /\ SlateInv /\ [Next]_vars => SlateInv'
<1> SUFFICES ASSUME ExecInv, OneInv, SlateInv, [Next]_vars, OneSession, scenario.oneAtATime
             PROVE  SlateInv'
  <2>1. ASSUME [Next]_vars PROVE scenario' = scenario
    BY <2>1 DEF Next, vars
  <2> QED
    BY <2>1 DEF SlateInv, OneSession
<1>1. /\ \A b \in Dynamic : cache[b] # None => cache[b].val = Fresh
      /\ exec[1].snap # None => exec[1].snap.val = Fresh
      /\ exec[1].pc \in After => image[exec[1].bin].val = Fresh
      /\ exec[1].pc # "idle" =>
            \A q \in Live : proc[q].bin = exec[1].bin => q = exec[1].caller /\ q \in Started
      /\ \A p \in Live : proc[p].via = "start" /\ proc[p].st = "new" =>
            /\ image[proc[p].bin].val = Fresh
            /\ \A q \in Live : proc[q].bin = proc[p].bin => q = p
  BY DEF SlateInv, Users
<1>2. TypeInv /\ 1 \in Drivers /\ CallInv(1)
  BY OneDriver DEF ExecInv
<1>3. ASSUME \A b \in Dynamic : cache'[b] # None => cache'[b].val = Fresh,
             exec'[1].snap # None => exec'[1].snap.val = Fresh,
             exec'[1].pc \in After => image'[exec'[1].bin].val = Fresh,
             exec'[1].pc # "idle" =>
                \A q \in Live' : proc'[q].bin = exec'[1].bin =>
                                    q = exec'[1].caller /\ q \in Started',
             \A p \in Live' : proc'[p].via = "start" /\ proc'[p].st = "new" =>
                /\ image'[proc'[p].bin].val = Fresh
                /\ \A q \in Live' : proc'[q].bin = proc'[p].bin => q = p
      PROVE  SlateInv'
  BY <1>3 DEF SlateInv, Users
<1>4. /\ Idle.snap = None /\ Idle.pc = "idle" /\ Idle.bin = None
      /\ "idle" \notin After /\ "static" \notin After /\ "load" \notin After
      /\ "cached" \notin After /\ "save" \in After /\ "spawn" \in After /\ "main" \notin After
  BY DEF Idle, After, Guarded, Cached
<1>5. CASE UNCHANGED vars
  <2>1. Live' = Live /\ Started' = Started /\ Created' = Created
    BY <1>5 DEF vars, Live, Started, Created
  <2> QED
    BY <1>1, <1>3, <1>5, <2>1 DEF vars
<1>6. ASSUME UNCHANGED proc
      PROVE  Live' = Live /\ Started' = Started
  BY <1>6 DEF Live, Started, Created
<1>7. CASE \/ Load(1) \/ Restore(1) \/ Reread(1) \/ SetSearchPath(1) \/ Iterate(1)
           \/ ClaimHook(1) \/ WriteHook(1) \/ PatchGot(1)
           \/ SpawnEntry(1) /\ ViaEntryFails(1)
  <2> DEFINE b == exec[1].bin
  <2>1. /\ UNCHANGED <<proc, cache>> /\ b \in Dynamic /\ exec[1].pc # "idle"
        /\ \/ exec'[1] = Idle
           \/ /\ exec'[1].bin = b /\ exec'[1].caller = exec[1].caller
              /\ exec'[1].snap = exec[1].snap
              /\ exec'[1].pc \in After => exec[1].pc \in After \cup {"load", "cached"}
        /\ \A c \in Dynamic \ {b} : image'[c].val = image[c].val
        /\ exec'[1].pc \in After /\ exec[1].pc = "load" /\ image[b].loads = 0
              => image'[b].val = Fresh
        /\ exec'[1].pc \in After /\ exec[1].pc = "cached" /\ image[b].loads > 0
              => image'[b].val = exec[1].snap.val
        /\ exec[1].pc \in After => image'[b].val = image[b].val
    BY <1>2, <1>7, CallMove
  <2>2. exec'[1].snap # None => exec'[1].snap.val = Fresh
    BY <1>1, <1>4, <2>1
  <2>3. exec'[1].pc \in After => image'[exec'[1].bin].val = Fresh
    <3>1. exec[1].pc = "load" => image[b].loads = 0
      <4>1. ~("load" \in Guarded)
        BY DEF Guarded
      <4>2. exec[1].pc = "load" => ~exec[1].guard /\ cache[b] = None
        BY <4>1, <1>2 DEF OneInv, CallInv
      <4> QED
        BY <4>2, <2>1 DEF OneInv
    <3>2. exec[1].pc = "cached" => image[b].loads > 0 /\ exec[1].snap # None
      <4>1. exec[1].pc = "cached" => cache[b] # None /\ exec[1].snap # None
        BY <1>2 DEF CallInv, Guarded, Cached
      <4> QED
        BY <4>1, <2>1 DEF OneInv
    <3> QED
      BY <3>1, <3>2, <2>1, <1>1, <1>4
  <2>4. exec'[1].pc # "idle" =>
           \A q \in Live' : proc'[q].bin = exec'[1].bin => q = exec'[1].caller /\ q \in Started'
    BY <2>1, <1>1, <1>4, <1>6
  <2>5. ASSUME NEW p \in Live', proc'[p].via = "start", proc'[p].st = "new"
        PROVE  /\ image'[proc'[p].bin].val = Fresh
               /\ \A q \in Live' : proc'[q].bin = proc'[p].bin => q = p
    <3>1. /\ p \in Live /\ proc[p].via = "start" /\ proc[p].st = "new"
          /\ image[proc[p].bin].val = Fresh
          /\ \A q \in Live : proc[q].bin = proc[p].bin => q = p
      BY <2>1, <2>5, <1>1, <1>6
    <3>2. proc[p].bin \in Dynamic
      BY <3>1 DEF ExecInv, CoroutineInv
    <3>3. proc[p].bin # b
      BY <3>1, <2>1, <1>1 DEF Started
    <3> QED
      BY <3>1, <3>2, <3>3, <2>1, <1>6
  <2> QED
    BY <1>1, <1>3, <2>1, <2>2, <2>3, <2>4, <2>5
<1>8. CASE SaveAndCache(1)
  <2> DEFINE b == exec[1].bin
  <2>1. /\ b \in Dynamic /\ exec'[1].pc = "spawn" /\ exec'[1].bin = b
        /\ exec'[1].caller = exec[1].caller /\ exec'[1].snap = exec[1].snap
        /\ cache'[b].val = image[b].val
        /\ \A c \in Dynamic \ {b} : cache'[c] = cache[c]
    BY <1>2, <1>8, SaveEffect
  <2>2. UNCHANGED <<proc, image>> /\ exec[1].pc = "save"
    BY <1>8 DEF SaveAndCache
  <2>3. image[b].val = Fresh
    BY <2>2, <1>1, <1>4
  <2>4. exec'[1].pc # "idle" =>
           \A q \in Live' : proc'[q].bin = exec'[1].bin => q = exec'[1].caller /\ q \in Started'
    BY <1>1, <1>6, <2>1, <2>2
  <2>5. \A p \in Live' : proc'[p].via = "start" /\ proc'[p].st = "new" =>
           /\ image'[proc'[p].bin].val = Fresh
           /\ \A q \in Live' : proc'[q].bin = proc'[p].bin => q = p
    BY <1>1, <1>6, <2>2
  <2>6. \A c \in Dynamic : cache'[c] # None => cache'[c].val = Fresh
    BY <1>1, <2>1, <2>3
  <2> QED
    BY <1>1, <1>3, <2>1, <2>2, <2>3, <2>4, <2>5, <2>6
<1>9. CASE /\ ExecMain(1) \/ ExecStatic(1) \/ SpawnEntry(1)
           /\ exec' = [exec EXCEPT ![1] = Idle] /\ UNCHANGED <<proc, image, cache>>
  <2>1. exec'[1] = Idle
    BY <1>2, <1>9 DEF TypeInv
  <2>2. \A p \in Live' : proc'[p].via = "start" /\ proc'[p].st = "new" =>
           /\ image'[proc'[p].bin].val = Fresh
           /\ \A q \in Live' : proc'[q].bin = proc'[p].bin => q = p
    BY <1>1, <1>6, <1>9
  <2>3. \A c \in Dynamic : cache'[c] # None => cache'[c].val = Fresh
    BY <1>1, <1>9
  <2> QED
    BY <1>3, <1>4, <2>1, <2>2, <2>3
<1>10. CASE \/ SpawnEntry(1) /\ Spawned(1, "start", NextProc)
            \/ ExecStatic(1) /\ Spawned(1, "static", NextProc)
  <2> DEFINE b == exec[1].bin
  <2>1. PICK via \in {"start", "static"} :
           /\ Spawned(1, via, NextProc)
           /\ via = "start" => exec[1].pc = "spawn"
    BY <1>10 DEF SpawnEntry
  <2>2. exec[1].pc # "idle"
    BY <1>10 DEF SpawnEntry, ExecStatic
  <2>3. /\ UNCHANGED image
        /\ \A c \in Dynamic : cache'[c] # None => cache'[c].val = Fresh
    <3>1. CASE ExecStatic(1)
      BY <3>1, <1>1 DEF ExecStatic
    <3>2. CASE SpawnEntry(1) /\ Spawned(1, "start", NextProc)
      <4>1. exec[1].pc = "spawn"
        BY <3>2 DEF SpawnEntry
      <4>2. b \in Dynamic /\ cache[b] # None
        BY <4>1, <1>2 DEF CallInv, Guarded, Cached
      <4>3. ~ViaEntryFails(1)
        <5>1. NextProc \in Procs
          BY <1>2, <3>2, NextIsFresh DEF Spawned
        <5>2. Created' # Created
          BY <5>1, <1>2, <3>2, SpawnedEffect
        <5> QED
          BY <5>2 DEF ViaEntryFails, Created
      <4>4. UNCHANGED image /\ cache' = [cache EXCEPT ![b].users = cache[b].users + 1]
        BY <3>2, <4>2, <4>3 DEF SpawnEntry
      <4>5. cache[b] \in BinaryCacheEntry /\ cache[b].val = Fresh
        BY <4>2, <1>1, <1>2 DEF TypeInv
      <4>6. [cache[b] EXCEPT !.users = cache[b].users + 1].val = Fresh
        BY <4>5 DEF BinaryCacheEntry
      <4>7. \A c \in Dynamic : cache'[c] = IF c = b THEN [cache[b] EXCEPT !.users = cache[b].users + 1]
                                                    ELSE cache[c]
        BY <4>2, <4>4, <1>2 DEF TypeInv
      <4> QED
        BY <4>4, <4>6, <4>7, <1>1
    <3> QED
      BY <1>10, <3>1, <3>2
  <2>4. PICK n : n = NextProc
    OBVIOUS
  <2>5. NextProc \in Procs
    BY <1>2, <2>1, NextIsFresh DEF Spawned
  <2>6. /\ n \notin Created /\ Created' = Created \cup {n}
        /\ proc'[n] = [drv |-> 1, bin |-> b, via |-> via, st |-> "new", owner |-> n]
        /\ \A p \in Created : /\ proc'[p].bin = proc[p].bin /\ proc'[p].via = proc[p].via
                              /\ proc'[p].st = IF p = exec[1].caller THEN "done"
                                                                     ELSE proc[p].st
        /\ exec'[1] = Idle
    <3>1. ExecInv /\ 1 \in Drivers /\ via \in {"start", "main", "static"}
          /\ NextProc \in Procs \cup {Dangling} /\ Spawned(1, via, NextProc)
      BY <1>2, <2>1, <2>5
    <3>2. NextProc \notin Created /\ Created' = Created \cup {NextProc}
      BY <3>1, SpawnedEffect
    <3>3. proc'[NextProc] = [drv |-> 1, bin |-> b, via |-> via, st |-> "new",
                             owner |-> NextProc]
      BY <3>1, SpawnedEffect
    <3>4. /\ \A p \in Created : /\ proc'[p].bin = proc[p].bin /\ proc'[p].via = proc[p].via
                                /\ proc'[p].st = IF p = exec[1].caller THEN "done"
                                                                       ELSE proc[p].st
          /\ exec'[1] = Idle
      BY <3>1, SpawnedKeeps
    <3> QED
      BY <2>4, <3>2, <3>3, <3>4
  <2>7. ASSUME NEW p \in Live', p # n
        PROVE  /\ p \in Live /\ p # exec[1].caller /\ proc[p].bin = proc'[p].bin
               /\ proc[p].via = proc'[p].via /\ proc[p].st = proc'[p].st
    <3>1. p \in Created
      BY <2>6, <2>7 DEF Live
    <3> QED
      BY <3>1, <2>6, <2>7 DEF Live
  <2>8. ASSUME NEW p \in Live', proc'[p].bin = b PROVE p = n
    BY <2>7, <2>8, <2>2, <1>1
  <2>9. ASSUME NEW p \in Live', proc'[p].via = "start", proc'[p].st = "new"
        PROVE  /\ image'[proc'[p].bin].val = Fresh
               /\ \A q \in Live' : proc'[q].bin = proc'[p].bin => q = p
    <3>1. CASE p = n
      <4>1. via = "start" /\ proc'[p].bin = b
        BY <3>1, <2>6, <2>9
      <4>2. image[b].val = Fresh
        BY <4>1, <2>1, <1>1, <1>4
      <4> QED
        BY <3>1, <4>1, <4>2, <2>3, <2>8
    <3>2. CASE p # n
      <4>1. /\ p \in Live /\ image[proc[p].bin].val = Fresh
            /\ \A q \in Live : proc[q].bin = proc[p].bin => q = p
            /\ proc[p].bin = proc'[p].bin
        BY <3>2, <2>7, <2>9, <1>1
      <4>2. proc'[n].bin # proc'[p].bin
        BY <3>2, <2>6, <2>8, <2>9
      <4> QED
        BY <4>1, <4>2, <2>3, <2>7
    <3> QED
      BY <3>1, <3>2
  <2> QED
    BY <1>3, <1>4, <2>3, <2>6, <2>9
<1>11. CASE \E c \in Procs \cup {Host}, b \in scenario.bins : StartExec(1, c, b)
  <2>1. PICK c \in Procs \cup {Host}, b \in Binaries : StartExec(1, c, b)
    BY <1>2, <1>11, ScenarioDrivers
  <2>2. PICK d \in Drivers : d = 1
    BY <1>2
  <2>3. /\ exec'[d].pc \in {"static", "load", "cached"}
        /\ exec'[d].bin = b /\ exec'[d].caller = c
        /\ b \in Dynamic => exec'[d].snap = cache[b]
        /\ b \notin Dynamic => exec'[d].snap = None
    <3>1. StartExec(d, c, b)
      BY <2>1, <2>2
    <3>2. exec'[d].pc = IF b \in Static THEN "static"
                        ELSE IF cache[b] = None THEN "load" ELSE "cached"
      BY <3>1, StartEffect
    <3>3. exec'[d].bin = b
      BY <3>1, StartEffect, ZenonT(40)
    <3>4. exec'[d].caller = c
      BY <3>1, StartEffect
    <3>5. exec'[d].snap = IF b \in Dynamic THEN cache[b] ELSE None
      BY <3>1, StartEffect
    <3> QED
      BY <3>2, <3>3, <3>4, <3>5
  <2>4. UNCHANGED <<proc, image, cache>>
    BY <2>1 DEF StartExec
  <2>5. \A q \in Live : proc[q].bin = b => q = c /\ q \in Started
    <3>1. Users(b) \subseteq {c} /\ (c = Host \/ c \in Started)
      BY <2>1 DEF StartExec
    <3>2. Host \notin Live
      BY ExecAssumption DEF Host, Live, Created, Procs
    <3> QED
      BY <3>1, <3>2 DEF Users
  <2>6. exec'[1].snap # None => exec'[1].snap.val = Fresh
    BY <1>1, <2>2, <2>3
  <2>7. \A p \in Live' : proc'[p].via = "start" /\ proc'[p].st = "new" =>
           /\ image'[proc'[p].bin].val = Fresh
           /\ \A q \in Live' : proc'[q].bin = proc'[p].bin => q = p
    BY <1>1, <1>6, <2>4
  <2>8. \A x \in Dynamic : cache'[x] # None => cache'[x].val = Fresh
    BY <1>1, <2>4
  <2>9. exec'[1].pc \notin After
    BY <1>4, <2>2, <2>3
  <2>10. \A q \in Live' : proc'[q].bin = exec'[1].bin => q = exec'[1].caller /\ q \in Started'
    BY <1>6, <2>2, <2>3, <2>4, <2>5
  <2> QED
    BY <1>3, <2>6, <2>7, <2>8, <2>9, <2>10
<1>12. CASE \/ \E p \in Procs : RunSlice(p) \/ Exit(p)
            \/ Reap(1)
  <2>1. exec[1] = Idle
    <3>1. exec[1].pc = "idle"
      BY <1>12 DEF RunSlice, Exit, Reap, OneInv, Live, Started
    <3> QED
      BY <3>1, <1>2 DEF CallInv
  <2>2. /\ \A q \in Created : /\ proc'[q].bin = proc[q].bin /\ proc'[q].via = proc[q].via
                              /\ proc'[q].st = "new" => proc[q].st = "new"
        /\ Live' \subseteq Live /\ UNCHANGED <<exec, cache>>
    BY <1>2, <1>12, LifeEffect
  <2>3. ASSUME NEW p \in Live', proc'[p].via = "start", proc'[p].st = "new"
        PROVE  /\ image'[proc'[p].bin].val = Fresh
               /\ \A q \in Live' : proc'[q].bin = proc'[p].bin => q = p
    <3>1. p \in Created /\ \A q \in Live' : q \in Created
      BY <2>2, <2>3 DEF Live
    <3>2. /\ p \in Live /\ proc[p].via = "start" /\ proc[p].st = "new"
          /\ proc[p].bin = proc'[p].bin
          /\ image[proc[p].bin].val = Fresh
          /\ \A q \in Live : proc[q].bin = proc[p].bin => q = p
      BY <2>2, <2>3, <3>1, <1>1
    <3>3. image'[proc[p].bin].val = image[proc[p].bin].val
      <4>1. CASE \E q \in Procs : RunSlice(q)
        <5>1. PICK q \in Procs : RunSlice(q)
          BY <4>1
        <5>2. q # p
          <6>1. proc'[q].st = "started"
            BY <1>2, <5>1 DEF RunSlice, TypeInv, Live, Created, Coroutine
          <6> QED
            BY <6>1, <2>3
        <5>3. q \in Live /\ proc[q].bin # proc[p].bin
          BY <5>1, <5>2, <3>2 DEF RunSlice
        <5>4. proc[p].bin \in Dynamic
          BY <3>2 DEF ExecInv, CoroutineInv
        <5> QED
          BY <1>2, <5>1, <5>3, <5>4 DEF RunSlice, TypeInv
      <4>2. CASE (\E q \in Procs : Exit(q)) \/ Reap(1)
        BY <4>2 DEF Exit, Reap
      <4> QED
        BY <1>12, <4>1, <4>2
    <3> QED
      BY <2>2, <3>1, <3>2, <3>3
  <2> QED
    BY <1>1, <1>3, <1>4, <2>1, <2>2, <2>3
<1>13. CASE \E p \in Procs : Fork(p)
  <2>1. PICK p \in Procs : Fork(p)
    BY <1>13
  <2>2. /\ p \in Created /\ Created' = Created \cup {NextProc} /\ proc'[NextProc] = proc[p]
        /\ \A q \in Created : proc'[q] = proc[q]
    BY <1>2, <2>1, ForkEffect
  <2>3. UNCHANGED <<exec, image, cache>> /\ p \in Live /\ proc[p].st = "started"
    BY <2>1 DEF Fork, Started, Live
  <2>4. exec[1] = Idle
    <3>1. exec[1].pc = "idle"
      BY <2>1 DEF Fork, OneInv, Started
    <3> QED
      BY <3>1, <1>2 DEF CallInv
  <2>5. PICK n : n = NextProc
    OBVIOUS
  <2>6. ASSUME NEW q \in Live'
        PROVE  \/ q \in Live /\ proc'[q] = proc[q]
               \/ q = n /\ proc'[q] = proc[p]
    <3>1. q \in Created \/ q = n
      BY <2>2, <2>5, <2>6 DEF Live
    <3>2. CASE q \in Created
      BY <3>2, <2>2, <2>6 DEF Live
    <3>3. CASE q = n
      BY <3>3, <2>2, <2>5
    <3> QED
      BY <3>1, <3>2, <3>3
  <2>7. ASSUME NEW x \in Live', proc'[x].via = "start", proc'[x].st = "new"
        PROVE  /\ image'[proc'[x].bin].val = Fresh
               /\ \A q \in Live' : proc'[q].bin = proc'[x].bin => q = x
    <3>1. /\ x \in Live /\ proc'[x] = proc[x] /\ x # p
          /\ image[proc[x].bin].val = Fresh
          /\ \A q \in Live : proc[q].bin = proc[x].bin => q = x
      BY <2>3, <2>6, <2>7, <1>1
    <3> QED
      BY <3>1, <2>3, <2>6
  <2> QED
    BY <1>1, <1>3, <1>4, <2>3, <2>4, <2>7
<1>14. CASE (\E b \in Dynamic : UnloadBinary(b)) \/ UnloadAll
  <2>1. PICK B \in SUBSET Dynamic : Dropped(B)
    <3>1. CASE \E b \in Dynamic : UnloadBinary(b)
      BY <3>1 DEF UnloadBinary
    <3>2. CASE UnloadAll
      BY <3>2 DEF UnloadAll
    <3> QED
      BY <1>14, <3>1, <3>2
  <2>2. UNCHANGED <<proc, exec>>
    BY <2>1 DEF Dropped
  <2>3. ASSUME NEW b \in Dynamic
        PROVE  cache'[b] \in {None, cache[b]} /\ image'[b].val = image[b].val
    BY <1>2, <2>1, <2>3 DEF Dropped, Closed, TypeInv, Image
  <2>4. exec'[1].pc \in After => image'[exec'[1].bin].val = Fresh
    <3>1. exec[1].pc \in After => exec[1].bin \in Dynamic
      BY <1>2, <1>4 DEF CallInv
    <3> QED
      BY <1>1, <2>2, <2>3, <3>1
  <2>5. ASSUME NEW p \in Live', proc'[p].via = "start", proc'[p].st = "new"
        PROVE  /\ image'[proc'[p].bin].val = Fresh
               /\ \A q \in Live' : proc'[q].bin = proc'[p].bin => q = p
    <3>1. p \in Live /\ proc[p].via = "start" /\ proc[p].st = "new" /\ Live' = Live
      BY <1>6, <2>2, <2>5
    <3>2. proc[p].bin \in Dynamic
      BY <3>1 DEF ExecInv, CoroutineInv
    <3> QED
      BY <3>1, <3>2, <1>1, <2>2, <2>3
  <2>6. \A x \in Dynamic : cache'[x] # None => cache'[x].val = Fresh
    BY <1>1, <2>3
  <2>7. exec'[1].pc # "idle" =>
           \A q \in Live' : proc'[q].bin = exec'[1].bin => q = exec'[1].caller /\ q \in Started'
    BY <1>1, <1>6, <2>2
  <2> QED
    BY <1>1, <1>3, <2>2, <2>4, <2>5, <2>6, <2>7
<1> QED
  <2>1. \A d \in 1..scenario.drivers : d = 1
    BY <1>2, OneDriver
  <2>2. ASSUME SpawnEntry(1)
        PROVE  ViaEntryFails(1) \/ Spawned(1, "start", NextProc)
    BY <2>2 DEF SpawnEntry
  <2>3. ASSUME ExecMain(1)
        PROVE  exec' = [exec EXCEPT ![1] = Idle] /\ UNCHANGED <<proc, image, cache>>
    BY <1>2, <2>3, OneDriver DEF ExecMain
  <2>4. ASSUME ExecStatic(1)
        PROVE  \/ Spawned(1, "static", NextProc)
               \/ exec' = [exec EXCEPT ![1] = Idle] /\ UNCHANGED <<proc, image, cache>>
    BY <2>4 DEF ExecStatic
  <2>5. CASE \E d \in 1..scenario.drivers : DriverStep(d)
    <3>1. DriverStep(1)
      BY <2>1, <2>5
    <3> QED
      BY <3>1, <2>2, <2>3, <2>4, <1>7, <1>8, <1>9, <1>10, <1>12 DEF DriverStep
  <2>6. CASE \E p \in Procs : RunSlice(p) \/ Fork(p) \/ Exit(p)
    BY <2>6, <1>12, <1>13
  <2>7. CASE \E d \in 1..scenario.drivers, c \in Procs \cup {Host}, b \in scenario.bins :
                StartExec(d, c, b)
    BY <2>1, <2>7, <1>11
  <2> QED
    BY <2>5, <2>6, <2>7, <1>5, <1>14 DEF Next, Act

-----------------------------------------------------------------------------
(* What one session may rely on *)

\* The three invariants hold in every behaviour.
LEMMA OneInvariant == Spec => [](ExecInv /\ OneInv /\ SlateInv)
BY ExecInit, ExecNext, OneInit, OneNext, SlateInit, SlateNext, PTL DEF Spec

\* In one session every handle that dlopen returned is held by the cache or
\* by the exec in progress: whatever fails, none is leaked or closed twice.
THEOREM NoHandleIsLost == Spec => []HandlesAreOwned
<1>1. ExecInv /\ OneInv => HandlesAreOwned
  <2> SUFFICES ASSUME ExecInv, OneInv, OneSession, NEW b \in Dynamic
               PROVE  image[b].loads = (IF cache[b] = None THEN 0 ELSE 1) + Cardinality(Guards(b))
    BY DEF HandlesAreOwned, Guards
  <2>1. 1 \in Drivers
    BY OneDriver DEF ExecInv
  <2>2. \A d \in Drivers \ {1} : ~exec[d].guard
    BY DEF OneInv, Idle
  <2>3. image[b].loads = (IF cache[b] = None THEN 0 ELSE 1)
                         + (IF exec[1].bin = b /\ exec[1].guard THEN 1 ELSE 0)
    BY DEF OneInv
  <2>4. CASE exec[1].bin = b /\ exec[1].guard
    <3>1. Guards(b) = {1}
      BY <2>1, <2>2, <2>4 DEF Guards
    <3> QED
      BY <3>1, <2>3, <2>4, FS_Singleton
  <2>5. CASE ~(exec[1].bin = b /\ exec[1].guard)
    <3>1. Guards(b) = {}
      BY <2>2, <2>5 DEF Guards
    <3> QED
      BY <3>1, <2>3, <2>5, FS_EmptySet
  <2> QED
    BY <2>4, <2>5
<1> QED
  BY <1>1, OneInvariant, PTL

\* In one session whose programs exec a binary only when nobody else runs it,
\* a program starts with the globals that dlopen left.
THEOREM ProgramsStartClean == Spec => CleanSlate
<1> DEFINE Clean == OneSession /\ scenario.oneAtATime =>
         \A p \in Live : (proc[p].via = "start" /\ proc[p].st = "new" /\ proc'[p].st = "started")
                            => image[proc[p].bin].val = Fresh
<1>1. SlateInv => [Clean]_vars
  BY DEF SlateInv
<1>2. Spec => [][Clean]_vars
  BY <1>1, OneInvariant, PTL
<1> QED
  BY <1>2 DEF CleanSlate
=============================================================================
