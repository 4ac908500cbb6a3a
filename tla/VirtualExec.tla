---------------------------- MODULE VirtualExec ----------------------------
(***************************************************************************)
(* Virtual execve: the three ways src/src/vexec.rs turns a path into a     *)
(* coroutine, the cache of dlopen'd binaries they share, and what a        *)
(* coroutine owns until it is dropped.                                     *)
(*                                                                         *)
(*   virtual_execve_via_entry  dynamic binaries: dlopen once, patch the    *)
(*       GOT, snapshot the writable segments, jump to _start; later calls  *)
(*       write the snapshot back over the segments and jump again;         *)
(*   virtual_execve_dynamic    the fallback: dlopen and call `main`;       *)
(*   virtual_execve_static     static PIEs: load_pie into a fresh region.  *)
(*                                                                         *)
(* A driver thread (one per session) runs an exec without yielding, but    *)
(* the drivers of different sessions run at the same time and share the    *)
(* dlopen'd images, BINARY_CACHE and SEARCH_PATH, so an exec is a sequence *)
(* of steps, one for each access to something shared.                      *)
(*                                                                         *)
(* Data abstraction.  The globals of an image are the name of the last     *)
(* coroutine that wrote them, or Fresh as dlopen leaves them; its GOT is   *)
(* "libc" or "ours".  Descriptors (fork_fd_table, close_cloexec) are in    *)
(* module VfdTables, scheduling and wait in Executor.                      *)
(***************************************************************************)
EXTENDS Naturals, FiniteSets

CONSTANTS
    NumDrivers,    \* driver threads, one per session
    MaxProcs,      \* bound: coroutines created in a behaviour
    Dynamic,       \* binaries with a PT_INTERP
    Static,        \* static PIE binaries
    Scenarios,     \* what hosts and programs do in a behaviour: see Scenario
    None           \* no coroutine, no cache entry

Drivers == 1..NumDrivers
Procs == 1..MaxProcs
Fresh == 0
Host == 0
Dangling == MaxProcs + 1
Steps == {"read", "dlopen", "base", "stack", "hook"}
Binaries == Dynamic \cup Static

(***************************************************************************)
(* A scenario has the number of sessions and of coroutines, the binaries   *)
(* in use, those whose dynamic symbols include `main`, the steps that may  *)
(* fail, whether programs fork, whether the host unloads binaries, and     *)
(* whether programs exec a binary only when nobody else runs it.           *)
(***************************************************************************)
Scenario ==
    [drivers : Drivers, procs : Procs, bins : SUBSET Binaries,
     exports : SUBSET Dynamic, failing : SUBSET Steps, forks : BOOLEAN,
     unloads : BOOLEAN, oneAtATime : BOOLEAN]

ASSUME ExecAssumption ==
    /\ MaxProcs \in Nat /\ NumDrivers \in 1..MaxProcs
    /\ Dynamic \cap Static = {} /\ None \notin Dynamic \cup Static
    /\ Scenarios \subseteq Scenario

VARIABLES
    scenario, \* the scenario of the behaviour
    proc,     \* coroutine -> what it runs, and whether it is dropped
    exec,     \* driver -> the exec it is in the middle of
    image,    \* dynamic binary -> the linker's copy of it
    cache,    \* BINARY_CACHE: dynamic binary -> BinaryCacheEntry, or None
    search,   \* SEARCH_PATH
    hook      \* the DONE flag and the trampoline of hook_libc_exit

vars == <<scenario, proc, exec, image, cache, search, hook>>

Failing == scenario.failing

-----------------------------------------------------------------------------
(* State *)

\* A coroutine: the driver it runs on, its binary and how it was entered,
\* and the coroutine whose drop frees its argv strings and its region: a
\* forked one lives on its parent's.
Coroutine ==
    [drv : Drivers, bin : Binaries \cup {None},
     via : {"closure", "start", "main", "static"},
     st : {"new", "started", "done", "dropped"},
     owner : Procs \cup {Dangling}]

BinaryCacheEntry == [users : Nat, val : Procs \cup {Fresh}, got : {"libc", "ours"}]

ASSUME NoneAssumption == None \notin Coroutine \cup BinaryCacheEntry

Idle == [pc |-> "idle", caller |-> Host, bin |-> None, base |-> None,
         snap |-> None, guard |-> FALSE]

Init ==
    /\ scenario \in Scenarios
    /\ proc = [p \in Procs |-> IF p <= scenario.drivers
                              THEN [drv |-> p, bin |-> None, via |-> "closure",
                                    st |-> "started", owner |-> p]
                              ELSE None]
    /\ exec = [d \in Drivers |-> Idle]
    /\ image = [b \in Dynamic |-> [loads |-> 0, val |-> Fresh, got |-> "libc"]]
    /\ cache = [b \in Dynamic |-> None]
    /\ search = None
    /\ hook = "none"

Created == {p \in Procs : proc[p] # None}
Live == {p \in Created : proc[p].st \in {"new", "started"}}
Started == {p \in Created : proc[p].st = "started"}
Users(b) == {p \in Live : proc[p].bin = b}
NextProc == Cardinality(Created) + 1
CanCreate == NextProc <= scenario.procs

-----------------------------------------------------------------------------
(* The dynamic linker, as vexec.rs uses it *)

\* dlopen: the first open maps a fresh copy, later ones count.
Opened(b) ==
    IF image[b].loads = 0
      THEN [loads |-> 1, val |-> Fresh, got |-> "libc"]
      ELSE [image[b] EXCEPT !.loads = @ + 1]

Closed(b) == [image[b] EXCEPT !.loads = @ - 1]

-----------------------------------------------------------------------------
(* Running programs *)

\* A slice of coroutine p: it runs code of its binary and writes its globals.
RunSlice(p) ==
    /\ p \in Live
    /\ exec[proc[p].drv].pc = "idle"
    /\ proc' = [proc EXCEPT ![p].st = "started"]
    /\ image' = IF proc[p].bin \in Dynamic
                  THEN [image EXCEPT ![proc[p].bin].val = p] ELSE image
    /\ UNCHANGED <<exec, cache, search, hook>>

\* spawn_fork_child: the child continues the parent's program on a copy of
\* the parent's stack; strings, region and binary_path stay with the parent.
Fork(p) ==
    /\ scenario.forks /\ CanCreate
    /\ p \in Started
    /\ exec[proc[p].drv].pc = "idle"
    /\ proc' = [proc EXCEPT ![NextProc] = proc[p]]
    /\ UNCHANGED <<exec, image, cache, search, hook>>

Exit(p) ==
    /\ p \in Started
    /\ exec[proc[p].drv].pc = "idle"
    /\ proc' = [proc EXCEPT ![p].st = "done"]
    /\ UNCHANGED <<exec, image, cache, search, hook>>

\* Mutant: reaping decrements active_users and unloads a binary at zero.
ReapReleases(d) ==
    LET finished == {p \in Created : proc[p].drv = d /\ proc[p].st = "done"}
        last == {b \in Dynamic : cache[b] # None /\ cache[b].users \in 1..
                   Cardinality({p \in finished : proc[p].bin = b /\ proc[p].owner = p})}
    IN
    /\ exec[d].pc = "idle"
    /\ finished # {}
    /\ proc' = [p \in Procs |->
                 IF p \in finished THEN [proc[p] EXCEPT !.st = "dropped"] ELSE proc[p]]
    /\ cache' = [b \in Dynamic |-> IF b \in last THEN None ELSE cache[b]]
    /\ image' = [b \in Dynamic |-> IF b \in last THEN Closed(b) ELSE image[b]]
    /\ UNCHANGED <<exec, search, hook>>

\* reap_done_coroutines: dropping a Coroutine frees its c_strings, its
\* mapped_regions and its stack.  The binary cache is left alone.
Reap(d) ==
    LET finished == {p \in Created : proc[p].drv = d /\ proc[p].st = "done"} IN
    /\ exec[d].pc = "idle"
    /\ finished # {}
    /\ proc' = [p \in Procs |->
                 IF p \in finished THEN [proc[p] EXCEPT !.st = "dropped"] ELSE proc[p]]
    /\ UNCHANGED <<exec, image, cache, search, hook>>

-----------------------------------------------------------------------------
(* Exec: the way to a coroutine *)

Goto(d, pc) == exec' = [exec EXCEPT ![d].pc = pc]

\* An exec that succeeds creates coroutine NextProc and ends the caller:
\* `vproc_exit_with_code(0)` follows in execve and in vproc_ffi_execve.
Spawned(d, via, owner) ==
    LET c == exec[d].caller
        new == [drv |-> d, bin |-> exec[d].bin, via |-> via, st |-> "new",
                owner |-> owner]
    IN  /\ CanCreate
        /\ proc' = [p \in Procs |-> CASE p = NextProc -> new
                                      [] p = c -> [proc[p] EXCEPT !.st = "done"]
                                      [] OTHER -> proc[p]]
        /\ exec' = [exec EXCEPT ![d] = Idle]

\* virtual_execve called by a program (execve, vproc_ffi_execve), or
\* virtual_execve_via_entry called by the driver for a spawn request.  The
\* cache is consulted under its lock; the snapshot is an Arc clone.
StartExec(d, c, b) ==
    /\ exec[d].pc = "idle"
    /\ c = Host \/ (c \in Started /\ proc[c].drv = d)
    /\ c = Host => b \in Dynamic
    /\ scenario.oneAtATime => Users(b) \subseteq {c}
    /\ CanCreate
    /\ exec' = [exec EXCEPT ![d] =
          [Idle EXCEPT !.caller = c, !.bin = b,
                       !.snap = IF b \in Dynamic THEN cache[b] ELSE None,
                       !.pc = IF b \in Static THEN "static"
                              ELSE IF cache[b] = None THEN "load" ELSE "cached"]]
    /\ UNCHANGED <<proc, image, cache, search, hook>>

\* Mutant: an early return without DlGuard.
UnguardedFailure(d) ==
    /\ exec' = [exec EXCEPT ![d] = IF @.caller = Host THEN Idle
                                   ELSE [@ EXCEPT !.pc = "main", !.guard = FALSE]]
    /\ UNCHANGED <<proc, image, cache, search, hook>>

\* virtual_execve_via_entry returns Err: a guarded handle is closed, and
\* virtual_execve goes on to virtual_execve_dynamic.
ViaEntryFails(d) ==
    /\ image' = IF exec[d].guard THEN [image EXCEPT ![exec[d].bin] = Closed(exec[d].bin)]
                                 ELSE image
    /\ exec' = [exec EXCEPT ![d] = IF @.caller = Host THEN Idle
                                   ELSE [@ EXCEPT !.pc = "main", !.guard = FALSE]]
    /\ UNCHANGED <<proc, cache, search, hook>>

\* First load: read and parse the file, dlopen it, guard the handle.
Load(d) ==
    LET b == exec[d].bin IN
    /\ exec[d].pc = "load"
    /\ \/ /\ image' = [image EXCEPT ![b] = Opened(b)]
          /\ exec' = [exec EXCEPT ![d].pc = "search", ![d].guard = TRUE]
          /\ UNCHANGED <<proc, cache, search, hook>>
       \/ {"read", "dlopen"} \cap Failing # {} /\ ViaEntryFails(d)

\* Mutant: the cached path restores the GOT and leaves the globals alone.
RestoreGotOnly(d) ==
    LET b == exec[d].bin IN
    /\ exec[d].pc = "cached"
    /\ image' = [image EXCEPT ![b].got = exec[d].snap.got]
    /\ Goto(d, "reread")
    /\ UNCHANGED <<proc, cache, search, hook>>

\* Cached: write the snapshot back over the writable segments, whoever runs.
\* The mprotect that precedes the copy fails when the image is gone.
Restore(d) ==
    LET b == exec[d].bin IN
    /\ exec[d].pc = "cached"
    /\ image' = IF image[b].loads = 0 THEN image
                ELSE [image EXCEPT ![b].val = exec[d].snap.val,
                                   ![b].got = exec[d].snap.got]
    /\ Goto(d, "reread")
    /\ UNCHANGED <<proc, cache, search, hook>>

\* Cached: read the file again for its headers.
Reread(d) ==
    /\ exec[d].pc = "reread"
    /\ \/ Goto(d, "search") /\ UNCHANGED <<proc, image, cache, search, hook>>
       \/ "read" \in Failing /\ ViaEntryFails(d)

\* find_loaded_base: the path to look for goes through a static ...
SetSearchPath(d) ==
    /\ exec[d].pc = "search"
    /\ search' = exec[d].bin
    /\ Goto(d, "iterate")
    /\ UNCHANGED <<proc, image, cache, hook>>

\* ... and dl_iterate_callback compares every object's name with it.
Iterate(d) ==
    /\ exec[d].pc = "iterate"
    /\ \/ /\ image[search].loads > 0
          /\ exec' = [exec EXCEPT ![d].base = search,
                                  ![d].pc = IF exec[d].guard THEN "hook" ELSE "patch"]
          /\ UNCHANGED <<proc, image, cache, search, hook>>
       \/ /\ "base" \in Failing \/ image[search].loads = 0
          /\ ViaEntryFails(d)

\* hook_libc_exit, hook_libc_execve: the first caller claims DONE ...
ClaimHook(d) ==
    /\ exec[d].pc = "hook"
    /\ hook' = IF hook = "none" THEN "claimed" ELSE hook
    /\ Goto(d, IF hook = "none" THEN "hooking" ELSE "patch")
    /\ UNCHANGED <<proc, image, cache, search>>

\* ... and then writes the trampoline, which mprotect may refuse.
WriteHook(d) ==
    /\ exec[d].pc = "hooking"
    /\ \/ hook' = "installed"
       \/ "hook" \in Failing /\ hook' = "failed"
    /\ Goto(d, "patch")
    /\ UNCHANGED <<proc, image, cache, search>>

\* patch_got_for_loaded_binary.  Patching at another binary's base, or at
\* that of an image that is gone, is undefined: the model goes no further.
PatchGot(d) ==
    LET b == exec[d].bin IN
    /\ exec[d].pc = "patch"
    /\ exec[d].base = b /\ image[b].loads > 0
    /\ image' = [image EXCEPT ![b].got = "ours"]
    /\ Goto(d, IF exec[d].guard THEN "save" ELSE "spawn")
    /\ UNCHANGED <<proc, cache, search, hook>>

\* Mutant: the snapshot was taken before the GOT was patched.
SaveUnpatched(d) ==
    LET b == exec[d].bin IN
    /\ exec[d].pc = "save"
    /\ cache' = [cache EXCEPT ![b] = [users |-> 0, val |-> image[b].val, got |-> "libc"]]
    /\ exec' = [exec EXCEPT ![d].pc = "spawn", ![d].guard = FALSE]
    /\ UNCHANGED <<proc, image, search, hook>>

\* save_writable_segments and the insertion into BINARY_CACHE, which now
\* owns the handle.
SaveAndCache(d) ==
    LET b == exec[d].bin IN
    /\ exec[d].pc = "save"
    /\ cache' = [cache EXCEPT ![b] = [users |-> 0, val |-> image[b].val, got |-> image[b].got]]
    /\ exec' = [exec EXCEPT ![d].pc = "spawn", ![d].guard = FALSE]
    /\ UNCHANGED <<proc, image, search, hook>>

\* alloc_elf_stack, spawn_elf, register_c_strings, track_binary_user.
SpawnEntry(d) ==
    LET b == exec[d].bin IN
    /\ exec[d].pc = "spawn"
    /\ \/ /\ Spawned(d, "start", NextProc)
          /\ cache' = IF cache[b] = None THEN cache ELSE [cache EXCEPT ![b].users = @ + 1]
          /\ UNCHANGED <<image, search, hook>>
       \/ "stack" \in Failing /\ ViaEntryFails(d)

\* virtual_execve_dynamic: `argv_ptr` points into a Vec that is freed on
\* return, before the coroutine runs; the handle is kept by nobody.  Without
\* a `main` symbol the handle is closed and the exec fails.
ExecMain(d) ==
    LET b == exec[d].bin IN
    /\ exec[d].pc = "main"
    /\ \/ /\ b \in scenario.exports
          /\ image' = [image EXCEPT ![b] = Opened(b)]
          /\ Spawned(d, "main", Dangling)
       \/ /\ b \notin scenario.exports \/ "dlopen" \in Failing
          /\ exec' = [exec EXCEPT ![d] = Idle]
          /\ UNCHANGED <<proc, image>>
    /\ UNCHANGED <<cache, search, hook>>

\* virtual_execve_static after load_pie.
ExecStatic(d) ==
    /\ exec[d].pc = "static"
    /\ \/ Spawned(d, "static", NextProc)
       \/ /\ "stack" \in Failing
          /\ exec' = [exec EXCEPT ![d] = Idle]
          /\ UNCHANGED proc
    /\ UNCHANGED <<image, cache, search, hook>>

-----------------------------------------------------------------------------
(* The host unloads binaries: "Must only be called when no coroutine is    *)
(* executing code from this binary."  Nothing in the library would tell    *)
(* it, but the host also waits for execs of the binary in progress.        *)

MayUnload(b) ==
    /\ scenario.unloads
    /\ Users(b) = {}
    /\ \A d \in Drivers : exec[d].bin # b

Dropped(B) ==
    /\ cache' = [b \in Dynamic |-> IF b \in B THEN None ELSE cache[b]]
    /\ image' = [b \in Dynamic |-> IF b \in B /\ cache[b] # None THEN Closed(b) ELSE image[b]]
    /\ UNCHANGED <<proc, exec, search, hook>>

UnloadBinary(b) ==
    /\ MayUnload(b)
    /\ cache[b] # None
    /\ Dropped({b})

UnloadAll ==
    /\ \A b \in Dynamic : cache[b] # None => MayUnload(b)
    /\ \E b \in Dynamic : cache[b] # None
    /\ Dropped(Dynamic)

-----------------------------------------------------------------------------
DriverStep(d) ==
    \/ Load(d) \/ Restore(d) \/ Reread(d) \/ SetSearchPath(d) \/ Iterate(d)
    \/ ClaimHook(d) \/ WriteHook(d) \/ PatchGot(d) \/ SaveAndCache(d)
    \/ SpawnEntry(d) \/ ExecMain(d) \/ ExecStatic(d) \/ Reap(d)

Act ==
    \/ \E p \in Procs : RunSlice(p) \/ Fork(p) \/ Exit(p)
    \/ \E d \in 1..scenario.drivers : DriverStep(d)
    \/ \E d \in 1..scenario.drivers, c \in Procs \cup {Host}, b \in scenario.bins :
          StartExec(d, c, b)
    \/ \E b \in Dynamic : UnloadBinary(b)
    \/ UnloadAll

Next == Act /\ UNCHANGED scenario

Spec == Init /\ [][Next]_vars

-----------------------------------------------------------------------------
(* Properties *)

ExecTypeOK ==
    /\ proc \in [Procs -> Coroutine \cup {None}]
    /\ \A d \in Drivers : exec[d].caller \in Procs \cup {Host} /\ exec[d].guard \in BOOLEAN
    /\ image \in [Dynamic -> [loads : Nat, val : Procs \cup {Fresh},
                              got : {"libc", "ours"}]]
    /\ \A b \in Dynamic : cache[b] # None => cache[b].users \in Nat
    /\ search \in Dynamic \cup {None}
    /\ hook \in {"none", "claimed", "installed", "failed"}

\* The code of a dynamic binary is mapped as long as a coroutine that runs
\* it is live, provided the host respects the contract of unload_binary and
\* also waits for the execs of the binary that are under way.
CodeMapped ==
    \A p \in Live : proc[p].bin \in Dynamic => image[proc[p].bin].loads > 0

\* Programs of one session whose binaries have no `main` symbol.
OneSession == scenario.drivers = 1 /\ scenario.exports = {}

\* Every dlopen reference is held by the cache ("Handle is now owned by the
\* cache") or by the DlGuard of an exec in progress: none is leaked, on the
\* error paths either.  Two sessions that load a binary for the first time
\* both insert an entry, and the first one's handle is lost; the fallback
\* that calls `main` keeps its handle nowhere.
HandlesAreOwned ==
    OneSession =>
        \A b \in Dynamic :
            image[b].loads = (IF cache[b] = None THEN 0 ELSE 1)
                             + Cardinality({d \in Drivers : exec[d].bin = b /\ exec[d].guard})

\* A coroutine entered at _start finds the globals of its binary as after
\* dlopen ("so __libc_init reinitializes from a clean slate"), if nobody else
\* runs the binary: all its coroutines share one copy.
CleanSlate ==
    [][OneSession /\ scenario.oneAtATime =>
         \A p \in Live : (proc[p].via = "start" /\ proc[p].st = "new" /\ proc'[p].st = "started")
                            => image[proc[p].bin].val = Fresh]_vars

\* While a program entered at _start runs, its binary's GOT resolves to the
\* interceptors, also while another exec of the same binary restores and
\* patches the image.
Intercepted ==
    \A p \in Started : proc[p].via = "start" => image[proc[p].bin].got = "ours"
=============================================================================
