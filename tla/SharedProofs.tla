--------------------------- MODULE SharedProofs ----------------------------
(***************************************************************************)
(* What the virtual processes of one operating-system process share:       *)
(*                                                                         *)
(*   memory (ForkStack), for any number of coroutines and any size of      *)
(*   stacks: forking leaves every coroutine with addresses of its own      *)
(*   stack only, so that none can write into the frames of another;        *)
(*                                                                         *)
(*   fds 0-2 and FD_TABLES (Sessions), for any number of sessions and      *)
(*   processes, in a host that lets one session end before it creates the  *)
(*   next: processes have their own tables and terminals.                  *)
(***************************************************************************)
EXTENDS SharedProcess, TLAPS

\* A leaf that names no prover is tried by Zenon, by the SMT solver, and by
\* Zenon again for longer.
USE ZenonT(3), SMTT(30), ZenonT(60)

\* The inductive invariant: a stack that is not in use is empty, too.
StackInv ==
    /\ StackTypeOK /\ OwnStackOnly
    /\ \A k \in Cos : ~ Live(k) => sp[k] = End(k)

\* Stacks do not touch each other, and none is at address 0.
LEMMA StacksApart ==
    /\ \A k \in Cos : Base(k) \in Nat \ {0} /\ End(k) = Base(k) + Depth /\ Depth \in Nat \ {0}
    /\ \A j, k \in Cos : j # k => End(j) < Base(k) \/ End(k) < Base(j)
<1>1. Depth \in Nat \ {0} /\ \A k \in Cos : k \in Nat \ {0}
  BY StackAssumption
<1>2. ASSUME NEW j \in Nat, NEW k \in Nat, j < k
      PROVE  j * (Depth + 1) + Depth < k * (Depth + 1)
  <2>1. PICK n \in Nat : k = j + 1 + n
    <3>1. k - j - 1 \in Nat /\ k = j + 1 + (k - j - 1)
      BY <1>2
    <3> QED BY <3>1
  <2>2. n * (Depth + 1) \in Nat
    BY <1>1
  <2>3. k * (Depth + 1) = j * (Depth + 1) + (Depth + 1) + n * (Depth + 1)
    BY <1>1, <2>1
  <2> QED BY <1>1, <2>2, <2>3
<1>3. ASSUME NEW k \in Cos PROVE k * (Depth + 1) \in Nat \ {0}
  <2>1. k \in Nat /\ 0 < k /\ k * (Depth + 1) \in Int
    BY <1>1
  <2>2. 0 * (Depth + 1) + Depth < k * (Depth + 1)
    BY <1>2, <2>1
  <2> QED BY <1>1, <2>1, <2>2
<1>4. \A j, k \in Cos : j # k => j < k \/ k < j
  BY <1>1
<1>5. \A j, k \in Cos : j # k => End(j) < Base(k) \/ End(k) < Base(j)
  BY <1>1, <1>2, <1>4 DEF End, Base
<1> QED BY <1>1, <1>3, <1>5 DEF End, Base

\* The words of a stack are the numbers from its base to its end.
LEMMA WordsAre ==
    /\ \A k \in Cos : \A a : a \in Words(k) <=> a \in Int /\ Base(k) =< a /\ a < End(k)
    /\ \A k \in Cos : Words(k) \subseteq Addresses /\ Other \notin Words(k)
    /\ \A j, k \in Cos : j # k => Words(j) \cap Words(k) = {}
    /\ \A a \in Addresses : a \in Int
<1> USE StacksApart
<1>1. \A k \in Cos : \A a : a \in Words(k) <=> a \in Int /\ Base(k) =< a /\ a < End(k)
  BY DEF Words
<1>2. ASSUME NEW k \in Cos, Other \in Words(k) PROVE FALSE
  <2>1. Base(k) \in Nat \ {0} /\ Base(k) =< 0
    BY <1>1, <1>2 DEF Other
  <2> QED BY <2>1
<1>3. \A j, k \in Cos : j # k => Words(j) \cap Words(k) = {}
  BY <1>1
<1>4. \A k \in Cos : Words(k) \subseteq Addresses
  BY DEF Addresses
<1>5. \A a \in Addresses : a \in Int
  BY <1>1 DEF Addresses
<1> QED BY <1>1, <1>2, <1>3, <1>4, <1>5

\* An address of p's stack is moved to the same place of c's.
LEMMA RemapMoves ==
    ASSUME NEW p \in Cos, NEW c \in Cos
    PROVE  /\ \A v \in Words(p) : Remap(p, c, v) = v + Base(c) - Base(p) /\ Remap(p, c, v) \in Words(c)
           /\ Remap(p, c, Other) = Other
           /\ \A v \in Values : Remap(p, c, v) \in Values
<1> USE StacksApart, WordsAre
<1>1. \A v \in Words(p) : Remap(p, c, v) = v + Base(c) - Base(p) /\ Remap(p, c, v) \in Words(c)
  BY DEF Remap
<1>2. Remap(p, c, Other) = Other
  BY DEF Remap, Other
<1>3. ASSUME NEW v \in Values PROVE Remap(p, c, v) \in Values
  <2>1. CASE v \in Words(p)
    BY <1>1, <2>1 DEF Values
  <2>2. CASE v \notin Words(p)
    <3>1. v \in Int
      BY DEF Values, Other
    <3> QED BY <2>2, <3>1 DEF Remap
  <2> QED BY <2>1, <2>2
<1> QED BY <1>1, <1>2, <1>3

\* The stack invariant holds at the start.
LEMMA StackInvInit == Init => StackInv
<1> SUFFICES ASSUME Init PROVE StackInv
  OBVIOUS
<1> USE StacksApart, WordsAre DEF Init
<1>1. \A k \in Cos : state[k] = "none" /\ sp[k] = End(k)
  OBVIOUS
<1>2. StackTypeOK
  <2>1. sp \in [Cos -> Int] /\ \A k \in Cos : sp[k] \in Base(k)..End(k)
    BY <1>1
  <2>2. x \in [Cos -> Values] /\ mem \in [Addresses -> Values]
    BY DEF Values
  <2> QED BY <1>1, <2>1, <2>2 DEF StackTypeOK
<1> QED BY <1>1, <1>2 DEF StackInv, OwnStackOnly, Live

\* What every step may use of the invariant.
LEMMA StackFacts ==
    ASSUME StackInv
    PROVE  /\ DOMAIN state = Cos /\ DOMAIN sp = Cos /\ DOMAIN x = Cos /\ DOMAIN mem = Addresses
           /\ \A k \in Cos : sp[k] \in Int /\ Base(k) =< sp[k] /\ sp[k] =< End(k)
           /\ \A k \in Cos : Live(k) => x[k] \in Words(k) \cup {Other}
           /\ \A k \in Cos : Live(k) =>
                 \A a \in Words(k) : a >= sp[k] => mem[a] \in Words(k) \cup {Other}
BY StacksApart DEF StackInv, StackTypeOK, OwnStackOnly, Active

\* A step that touches the stack of one coroutine preserves the invariant if
\* that coroutine is right afterwards.
LEMMA OneStack ==
    ASSUME StackInv, NEW k \in Cos, StackTypeOK',
           \A j \in Cos \ {k} : state'[j] = state[j] /\ sp'[j] = sp[j] /\ x'[j] = x[j],
           \A a \in Addresses \ Words(k) : mem'[a] = mem[a],
           state'[k] # "none" =>
              /\ x'[k] \in Words(k) \cup {Other}
              /\ \A a \in Words(k) : a >= sp'[k] => mem'[a] \in Words(k) \cup {Other},
           state'[k] = "none" => sp'[k] = End(k)
    PROVE  StackInv'
<1> USE WordsAre, StackFacts
<1>1. \A j \in Cos \ {k} : \A a \in Words(j) : mem'[a] = mem[a]
  OBVIOUS
<1>2. ASSUME NEW j \in Cos, state'[j] # "none"
      PROVE  /\ x'[j] \in Words(j) \cup {Other}
             /\ \A a \in Words(j) : a >= sp'[j] => mem'[a] \in Words(j) \cup {Other}
  <2>1. CASE j = k
    BY <1>2, <2>1
  <2>2. CASE j # k
    BY <1>1, <1>2, <2>2 DEF Live
  <2> QED BY <2>1, <2>2
<1>3. \A j \in Cos : state'[j] = "none" => sp'[j] = End(j)
  BY DEF StackInv, Live
<1>4. OwnStackOnly'
  BY <1>2 DEF OwnStackOnly, Live, Active
<1> QED BY <1>3, <1>4 DEF StackInv, Live

\* The driver's steps that fork nothing.
LEMMA DriverSteps ==
    ASSUME StackInv, NEW k \in Cos,
           Create(k) \/ Resume(k) \/ Destroy(k) \/ ForkFails(k)
    PROVE  StackInv'
<1> USE StackFacts, StacksApart
<1>k. StackTypeOK /\ \A j \in Cos : ~ Live(j) => sp[j] = End(j)
  BY DEF StackInv
<1>i. \A j \in Cos : state[j] # "running"
  BY DEF Create, Resume, Destroy, ForkFails, Idle
<1>1. CASE Create(k)
  <2>1. PICK v \in {Other, End(k) - 1} : x' = [x EXCEPT ![k] = v]
    BY <1>1 DEF Create
  <2>2. v \in Words(k) \cup {Other} /\ v \in Values
    BY WordsAre DEF Values
  <2>3. sp' = sp /\ mem' = mem /\ sp[k] = End(k) /\ state' = [state EXCEPT ![k] = "ready"]
    BY <1>1, <1>k DEF Create
  <2>4. StackTypeOK'
    BY <1>k, <1>i, <2>1, <2>2, <2>3 DEF StackTypeOK
  <2>5. \A a \in Words(k) : ~ (a >= sp'[k])
    BY <2>3, WordsAre
  <2> QED BY <2>1, <2>2, <2>3, <2>4, <2>5, OneStack
<1>2. CASE Resume(k)
  <2>1. UNCHANGED <<sp, x, mem>> /\ state' = [state EXCEPT ![k] = "running"] /\ Live(k)
    BY <1>2 DEF Resume, Live
  <2>2. StackTypeOK'
    BY <1>k, <1>i, <2>1 DEF StackTypeOK
  <2> QED BY <2>1, <2>2, OneStack
<1>3. CASE Destroy(k)
  <2>1. /\ state' = [state EXCEPT ![k] = "none"] /\ sp' = [sp EXCEPT ![k] = End(k)]
        /\ x' = [x EXCEPT ![k] = Other]
        /\ mem' = [a \in Addresses |-> IF a \in Words(k) THEN Other ELSE mem[a]]
    BY <1>3 DEF Destroy
  <2>2. StackTypeOK'
    BY <1>k, <1>i, <2>1 DEF StackTypeOK, Values
  <2> QED BY <2>1, <2>2, OneStack
<1>4. CASE ForkFails(k)
  <2>1. UNCHANGED <<sp, x, mem>> /\ state' = [state EXCEPT ![k] = "ready"] /\ Live(k)
    BY <1>4 DEF ForkFails, Live
  <2>2. StackTypeOK'
    BY <1>k, <1>i, <2>1 DEF StackTypeOK
  <2> QED BY <2>1, <2>2, OneStack
<1> QED BY <1>1, <1>2, <1>3, <1>4

\* A running coroutine's steps, which write to its own stack.
LEMMA RunSteps ==
    ASSUME StackInv, NEW k \in Cos, Run(k)
    PROVE  StackInv' /\ \A a \in Addresses \ Words(k) : mem'[a] = mem[a]
<1> USE StackFacts, StacksApart
<1>k. StackTypeOK
  BY DEF StackInv
<1>l. Live(k) /\ state[k] = "running" /\ \A j \in Cos \ {k} : state[j] # "running"
  BY <1>k DEF Run, Yield, Push, Pop, Store, Live, StackTypeOK
<1>1. CASE Yield(k)
  <2>1. PICK s \in {"ready", "forking"} : state' = [state EXCEPT ![k] = s]
    BY <1>1 DEF Yield
  <2>2. UNCHANGED <<sp, x, mem>> /\ sp[k] < End(k)
    BY <1>1 DEF Yield
  <2>3. StackTypeOK'
    BY <1>k, <1>l, <2>1, <2>2 DEF StackTypeOK
  <2> QED BY <1>l, <2>1, <2>2, <2>3, OneStack
<1>2. ASSUME NEW v \in Values, Push(k, v)
      PROVE  StackInv' /\ \A a \in Addresses \ Words(k) : mem'[a] = mem[a]
  <2> DEFINE top == sp[k] - 1
  <2>1. /\ sp' = [sp EXCEPT ![k] = top] /\ mem' = [mem EXCEPT ![top] = v]
        /\ UNCHANGED <<state, x>> /\ sp[k] > Base(k)
    BY <1>2 DEF Push
  <2>2. top \in Words(k) /\ top \in Addresses /\ top \in Int
    BY <2>1, WordsAre
  <2>3. v \in Words(k) \cup {Other}
    BY <1>2, <1>l, <2>2 DEF Push, Active
  <2>4. \A a \in Words(k) : a >= top => a = top \/ a >= sp[k]
    BY WordsAre
  <2> HIDE DEF top
  <2>5. mem' \in [Addresses -> Values] /\ mem'[top] = v
        /\ \A a \in Addresses \ {top} : mem'[a] = mem[a]
    BY <1>k, <2>1, <2>2 DEF StackTypeOK
  <2>6. /\ sp' \in [Cos -> Int] /\ sp'[k] = top /\ \A j \in Cos \ {k} : sp'[j] = sp[j]
        /\ top >= Base(k) /\ top < End(k)
    BY <1>k, <2>1, <2>2, WordsAre DEF StackTypeOK
  <2>7. StackTypeOK'
    BY <1>k, <2>1, <2>2, <2>5, <2>6 DEF StackTypeOK
  <2>8. \A a \in Words(k) : a >= sp'[k] => mem'[a] \in Words(k) \cup {Other}
    BY <1>l, <2>2, <2>3, <2>4, <2>5, <2>6, WordsAre
  <2>9. \A a \in Addresses \ Words(k) : mem'[a] = mem[a]
    BY <2>2, <2>5
  <2> QED BY <1>l, <2>1, <2>6, <2>7, <2>8, <2>9, OneStack
<1>3. CASE Pop(k)
  <2>1. /\ sp' = [sp EXCEPT ![k] = sp[k] + 1] /\ x' = [x EXCEPT ![k] = mem[sp[k]]]
        /\ UNCHANGED <<state, mem>> /\ sp[k] < End(k)
    BY <1>3 DEF Pop
  <2>2. sp[k] \in Words(k) /\ sp[k] \in Addresses
    BY <2>1, WordsAre
  <2>3. mem[sp[k]] \in Words(k) \cup {Other} /\ mem[sp[k]] \in Values
    BY <1>k, <1>l, <2>2 DEF StackTypeOK
  <2>4. StackTypeOK'
    BY <1>k, <1>l, <2>1, <2>3 DEF StackTypeOK
  <2>5. \A a \in Words(k) : a >= sp[k] + 1 => a >= sp[k]
    BY WordsAre
  <2> QED BY <1>l, <2>1, <2>3, <2>4, <2>5, OneStack
<1>4. CASE Store(k)
  <2>1. mem' = [mem EXCEPT ![x[k]] = Other] /\ UNCHANGED <<state, sp, x>>
    BY <1>4 DEF Store
  <2>2. x[k] \in Words(k)
    BY <1>4, <1>l DEF Store
  <2>3. StackTypeOK'
    BY <1>k, <2>1 DEF StackTypeOK, Values
  <2>4. \A a \in Addresses : mem'[a] = IF a = x[k] THEN Other ELSE mem[a]
    BY <2>1
  <2> QED BY <1>l, <2>1, <2>2, <2>3, <2>4, WordsAre, OneStack
<1> QED BY <1>1, <1>2, <1>3, <1>4 DEF Run

\* mco_fork_from leaves the child with addresses of its own stack.
LEMMA ForkStep ==
    ASSUME StackInv, NEW p \in Cos, NEW c \in Cos, Fork(p, c)
    PROVE  StackInv'
<1> USE StackFacts, StacksApart
<1>k. StackTypeOK
  BY DEF StackInv
<1>1. /\ Live(p) /\ ~ Live(c) /\ p # c /\ \A j \in Cos : state[j] # "running"
      /\ sp[p] < End(p) /\ sp[p] \in Words(p)
  BY <1>k, WordsAre DEF Fork, Live, StackTypeOK, Idle
<1> DEFINE shift == Base(c) - Base(p)
<1>2. /\ state' = [state EXCEPT ![p] = "ready", ![c] = "ready"]
      /\ sp' = [sp EXCEPT ![c] = sp[p] + shift]
      /\ x' = [x EXCEPT ![c] = Remap(p, c, x[p])]
      /\ mem' = RemappedStack(p, c)
  <2>1. RemappedSp(p, c) = sp[p] + shift
    BY <1>1, RemapMoves DEF RemappedSp
  <2> QED BY <2>1 DEF Fork, RemappedRegister
<1>3. Remap(p, c, x[p]) \in Words(c) \cup {Other} /\ Remap(p, c, x[p]) \in Values
  <2>1. x[p] \in Words(p) \cup {Other} /\ x[p] \in Values
    BY <1>k, <1>1 DEF StackTypeOK
  <2> QED BY <2>1, RemapMoves
<1>4. ASSUME NEW a \in Words(c)
      PROVE  /\ a - shift \in Words(p) /\ a - Base(c) + Base(p) = a - shift
             /\ a >= sp[p] + shift <=> a - shift >= sp[p]
  <2>1. a \in Int /\ Base(c) =< a /\ a < End(c)
    BY WordsAre
  <2>2. a - shift \in Int /\ Base(p) =< a - shift /\ a - shift < End(p)
    BY <2>1
  <2> QED BY <2>1, <2>2, WordsAre
<1>5. /\ mem' \in [Addresses -> Values]
      /\ \A a \in Addresses \ Words(c) : mem'[a] = mem[a]
      /\ \A a \in Words(c) : a >= sp[p] + shift => mem'[a] \in Words(c) \cup {Other}
  <2>1. DOMAIN mem' = Addresses /\ \A a \in Addresses \ Words(c) : mem'[a] = mem[a]
    BY <1>2 DEF RemappedStack
  <2>2. ASSUME NEW a \in Words(c)
        PROVE  /\ mem'[a] \in Values
               /\ a >= sp[p] + shift => mem'[a] \in Words(c) \cup {Other}
    <3> DEFINE o == a - shift
    <3>1. o \in Words(p) /\ o \in Addresses /\ a \in Addresses
      BY <1>4, WordsAre
    <3>2. mem'[a] = IF o >= sp[p] THEN Remap(p, c, mem[o]) ELSE mem[o]
      BY <1>2, <1>4, <3>1 DEF RemappedStack
    <3>3. mem[o] \in Values /\ (o >= sp[p] => mem[o] \in Words(p) \cup {Other})
      BY <1>k, <1>1, <3>1 DEF StackTypeOK
    <3>4. a >= sp[p] + shift => o >= sp[p]
      BY <1>4
    <3> HIDE DEF o, shift
    <3> QED BY <3>2, <3>3, <3>4, RemapMoves
  <2>3. mem \in [Addresses -> Values] /\ mem' = [a \in Addresses |-> mem'[a]]
    BY <1>k, <1>2 DEF StackTypeOK, RemappedStack
  <2> QED BY <2>1, <2>2, <2>3
<1>6. /\ DOMAIN state' = Cos /\ state'[p] = "ready" /\ state'[c] = "ready"
      /\ \A j \in Cos \ {p, c} : state'[j] = state[j]
  BY <1>2
<1>7. /\ sp' \in [Cos -> Int] /\ sp'[c] = sp[p] + shift
      /\ Base(c) =< sp'[c] /\ sp'[c] =< End(c)
      /\ \A j \in Cos \ {c} : sp'[j] = sp[j]
  BY <1>k, <1>1, <1>2 DEF StackTypeOK
<1>8. /\ x' \in [Cos -> Values] /\ x'[c] \in Words(c) \cup {Other}
      /\ \A j \in Cos \ {c} : x'[j] = x[j]
  BY <1>k, <1>2, <1>3 DEF StackTypeOK
<1> HIDE DEF shift
<1>9. StackTypeOK'
  <2>1. state' \in [Cos -> {"none", "ready", "running", "forking"}]
    BY <1>k, <1>2 DEF StackTypeOK
  <2>2. \A j \in Cos : state'[j] # "running"
    BY <1>1, <1>6
  <2>3. \A j \in Cos : sp'[j] \in Base(j)..End(j)
    BY <1>k, <1>7 DEF StackTypeOK
  <2>4. \A j \in Cos : state'[j] = "forking" => sp'[j] < End(j)
    BY <1>k, <1>6, <1>7 DEF StackTypeOK
  <2> QED BY <1>5, <1>7, <1>8, <2>1, <2>2, <2>3, <2>4 DEF StackTypeOK
<1>10. ASSUME NEW j \in Cos, state'[j] # "none"
       PROVE  /\ x'[j] \in Words(j) \cup {Other}
              /\ \A a \in Words(j) : a >= sp'[j] => mem'[a] \in Words(j) \cup {Other}
  <2>1. CASE j = c
    BY <2>1, <1>5, <1>7, <1>8
  <2>2. CASE j # c
    <3>1. Live(j) /\ sp'[j] = sp[j] /\ x'[j] = x[j]
      BY <1>1, <1>6, <1>7, <1>8, <1>10, <2>2 DEF Live
    <3>2. \A a \in Words(j) : mem'[a] = mem[a]
      BY <1>5, <2>2, WordsAre
    <3> QED BY <3>1, <3>2
  <2> QED BY <2>1, <2>2
<1>11. \A j \in Cos : ~ Live(j)' => sp'[j] = End(j)
  BY <1>6, <1>7 DEF StackInv, Live
<1>12. OwnStackOnly'
  BY <1>10 DEF OwnStackOnly, Live, Active
<1> QED BY <1>9, <1>11, <1>12 DEF StackInv

\* Every step keeps it.
LEMMA StackInvNext == StackInv /\ [Next]_vars => StackInv'
<1> SUFFICES ASSUME StackInv, [Next]_vars PROVE StackInv'
  OBVIOUS
<1>1. CASE UNCHANGED vars
  BY <1>1 DEF vars, StackInv, StackTypeOK, OwnStackOnly, Live, Active
<1>2. CASE Next
  BY <1>2, DriverSteps, RunSteps, ForkStep DEF Next
<1> QED BY <1>1, <1>2

\* While k runs, only k's stack is written to.
LEMMA PrivateStep ==
    ASSUME StackInv, [Next]_vars, NEW j \in Cos, NEW k \in Cos, state[k] = "running", j # k,
           NEW a \in Active(j)
    PROVE  mem'[a] = mem[a]
<1>1. a \in Addresses \ Words(k)
  BY WordsAre DEF Active
<1>2. CASE UNCHANGED vars
  BY <1>2 DEF vars
<1>3. CASE Next
  <2>1. ~ Idle /\ \A i \in Cos : state[i] = "running" => i = k
    BY DEF Idle, StackInv, StackTypeOK
  <2>2. Run(k)
    BY <1>3, <2>1 DEF Next, Create, Resume, Destroy, ForkFails, Fork,
                      Run, Yield, Push, Pop, Store
  <2> QED BY <1>1, <2>2, RunSteps
<1> QED BY <1>2, <1>3

\* However often coroutines fork, and whichever stacks are freed and used
\* again, the registers and frames that mco_fork_from and the switches leave
\* behind hold no address of another coroutine's stack.
THEOREM ForkKeepsStacksApart == Spec => []OwnStackOnly
<1>1. StackInv => OwnStackOnly
  BY DEF StackInv
<1> QED BY <1>1, StackInvInit, StackInvNext, PTL DEF Spec

\* A running coroutine writes to no frame of another.
THEOREM RunningWritesOwnStack == Spec => StacksArePrivate
<1>1. StackInv /\ [Next]_vars =>
        [\A j, k \in Cos :
           (state[k] = "running" /\ j # k) => \A a \in Active(j) : mem'[a] = mem[a]]_vars
  BY PrivateStep
<1> QED BY <1>1, StackInvInit, StackInvNext, PTL DEF Spec, StacksArePrivate

-----------------------------------------------------------------------------
(* Sessions.                                                               *)

\* A session has a driver thread.
HasDriver(s) == session[s] \in {"live", "stopping"}

\* Types, and what a session that does not exist yet has.
StateInv ==
    /\ session \in [Ids -> {"absent", "live", "stopping", "ended"}]
    /\ driver \in [Ids -> {"none", "start", "top", "locked", "slice", "swapped", "reap"}]
    /\ saved \in [Ids -> {None, S!Host}]
    /\ next_pid \in [Ids -> 1..(MaxPid + 1)]
    /\ procs \in [Ids -> SUBSET S!Pids] /\ done \in [Ids -> SUBSET S!Pids]
    /\ running \in [Ids -> S!Pids \cup {None}]
    /\ \A s \in Ids : \A p \in procs[s] : p < next_pid[s]
    /\ \A s \in Ids : done[s] \subseteq procs[s] /\ (running[s] # None => running[s] \in procs[s])
    /\ \A s \in Ids : driver[s] = "none" <=> ~HasDriver(s)
    /\ \A s \in Ids : session[s] = "absent" => procs[s] = {}

\* Sessions come one after the other.
TurnsInv ==
    /\ \A r, s \in Ids : r < s /\ session[r] = "absent" => session[s] = "absent"
    /\ \A r, s \in Ids : HasDriver(r) /\ HasDriver(s) => r = s

\* The tables are those of the session there is, and their terminals are open.
OwnTablesInv ==
    /\ (\A s \in Ids : ~HasDriver(s)) => DOMAIN tables = {}
    /\ \A s \in Ids : HasDriver(s) =>
          /\ DOMAIN tables = procs[s]
          /\ \A p \in procs[s] : tables[p] = S!Terminal(s, p) /\ S!Terminal(s, p) \in open

\* Fds 0-2 are swapped exactly while a process runs, and were saved before.
StdioInv ==
    /\ ~aborted
    /\ \A s \in Ids :
          /\ driver[s] # "slice"
          /\ running[s] # None <=> driver[s] = "swapped"
          /\ driver[s] = "swapped" => stdio = S!Terminal(s, running[s])
          /\ driver[s] \notin {"none", "start"} => saved[s] = S!Host
    /\ (\A s \in Ids : driver[s] # "swapped") => stdio = S!Host

\* The inductive invariant.
SessionsInv == StateInv /\ TurnsInv /\ OwnTablesInv /\ StdioInv
-----------------------------------------------------------------------------
\* The terminals, the host's fds and the inherited ones are all different.
LEMMA TerminalsDiffer ==
    ASSUME S!SessionsAssumption
    PROVE  /\ \A r, s \in Ids : \A p, q : S!Terminal(r, p) = S!Terminal(s, q) <=> r = s /\ p = q
           /\ \A s \in Ids : \A p : S!Terminal(s, p) # S!Inherited /\ S!Terminal(s, p) # S!Host
           /\ \A s \in Ids : s \in Nat \ {0}
<1>1. \A s \in Ids : s \in Nat \ {0}
  BY DEF S!SessionsAssumption
<1> QED BY <1>1 DEF S!Terminal, S!Inherited, S!Host

\* The invariant holds before the first session.
LEMMA SessionsInit ==
    ASSUME S!SessionsAssumption PROVE S!Init => SessionsInv
BY DEF S!Init, SessionsInv, StateInv, TurnsInv, OwnTablesInv, StdioInv, HasDriver, S!Pids,
       S!SessionsAssumption

\* Every step of the host and of the drivers keeps the invariant, if sessions
\* do not overlap.
LEMMA SessionsNext ==
    ASSUME S!SessionsAssumption, Overlap = "never"
    PROVE  SessionsInv /\ [S!Next]_(S!vars) => SessionsInv'
<1> SUFFICES ASSUME SessionsInv, [S!Next]_(S!vars) PROVE SessionsInv'
  OBVIOUS
<1> USE DEF SessionsInv
<1>1. CASE UNCHANGED S!vars
  BY <1>1 DEF S!vars, StateInv, TurnsInv, OwnTablesInv, StdioInv, HasDriver
<1>2. ASSUME NEW s \in Ids, S!CreateSession(s) PROVE SessionsInv'
  <2>1. /\ session[s] = "absent" /\ session' = [session EXCEPT ![s] = "live"]
        /\ driver' = [driver EXCEPT ![s] = "start"]
        /\ \A r \in Ids : r < s => session[r] # "absent"
        /\ \A r \in 1..(s - 1) : session[r] = "ended"
        /\ UNCHANGED <<saved, next_pid, procs, done, running, tables, stdio, open, aborted>>
    BY <1>2 DEF S!CreateSession
  <2>2. \A r \in Ids : r < s => session[r] = "ended"
    BY <2>1, TerminalsDiffer
  <2>3. \A r \in Ids : s < r => session[r] = "absent"
    BY <2>1 DEF TurnsInv
  <2>4. \A r \in Ids : ~HasDriver(r)
    <3>1. \A r \in Ids : r < s \/ r = s \/ s < r
      BY TerminalsDiffer
    <3> QED BY <2>1, <2>2, <2>3, <3>1 DEF HasDriver
  <2>5. \A r \in Ids : HasDriver(r)' <=> r = s
    BY <2>1, <2>4 DEF HasDriver, StateInv
  <2>6. StateInv'
    BY <2>1, <2>4, <2>5 DEF StateInv, HasDriver
  <2>7. TurnsInv'
    <3>1. \A q, r \in Ids : q < r /\ session'[q] = "absent" => session'[r] = "absent"
      <4> SUFFICES ASSUME NEW q \in Ids, NEW r \in Ids, q < r, session'[q] = "absent"
                   PROVE  session'[r] = "absent"
        OBVIOUS
      <4>1. q # s /\ session[q] = "absent"
        BY <2>1 DEF StateInv
      <4>2. session[r] = "absent"
        BY <4>1 DEF TurnsInv
      <4>3. s < q
        BY <2>2, <4>1, TerminalsDiffer
      <4>4. r # s
        BY <4>3, TerminalsDiffer
      <4> QED BY <2>1, <4>2, <4>4 DEF StateInv
    <3> QED BY <2>5, <3>1 DEF TurnsInv
  <2>8. OwnTablesInv'
    BY <2>1, <2>4, <2>5 DEF OwnTablesInv, StateInv
  <2>9. StdioInv'
    BY <2>1, <2>4 DEF StdioInv, StateInv, HasDriver
  <2> QED BY <2>6, <2>7, <2>8, <2>9
<1>3. ASSUME NEW s \in Ids, S!DestroySession(s) PROVE SessionsInv'
  <2>1. /\ session[s] = "live" /\ session' = [session EXCEPT ![s] = "stopping"]
        /\ UNCHANGED <<driver, saved, next_pid, procs, done, running, tables, stdio,
                       open, aborted>>
    BY <1>3 DEF S!DestroySession
  <2>2. \A r \in Ids : HasDriver(r)' <=> HasDriver(r)
    BY <2>1 DEF HasDriver, StateInv
  <2>3. \A r \in Ids : session'[r] = "absent" <=> session[r] = "absent"
    BY <2>1 DEF StateInv
  <2>4. session' \in [Ids -> {"absent", "live", "stopping", "ended"}]
    BY <2>1 DEF StateInv
  <2>5. StateInv'
    BY <2>1, <2>2, <2>3, <2>4 DEF StateInv
  <2> QED BY <2>1, <2>2, <2>3, <2>5 DEF TurnsInv, OwnTablesInv, StdioInv
<1>4. ASSUME NEW s \in Ids, S!SaveFds(s) \/ S!Lock(s) \/ S!NothingToRun(s) PROVE SessionsInv'
  <2>1. /\ driver[s] \in {"start", "top", "locked"}
        /\ driver' = [driver EXCEPT ![s] = driver'[s]]
        /\ driver'[s] \in {"top", "locked", "reap"}
        /\ UNCHANGED <<session, next_pid, procs, done, running, tables, stdio, open, aborted>>
    BY <1>4 DEF S!SaveFds, S!Lock, S!NothingToRun, StateInv
  <2>2. HasDriver(s) /\ \A r \in Ids : HasDriver(r)' <=> HasDriver(r)
    BY <2>1 DEF HasDriver, StateInv
  <2>3. stdio = S!Host
    BY <2>1, <2>2 DEF StateInv, TurnsInv, StdioInv
  <2>4. /\ saved' \in [Ids -> {None, S!Host}] /\ saved'[s] = S!Host
        /\ \A r \in Ids \ {s} : saved'[r] = saved[r]
    BY <1>4, <2>3 DEF S!SaveFds, S!Lock, S!NothingToRun, StateInv, StdioInv
  <2>5. StateInv'
    <3>1. /\ driver' \in [Ids -> {"none", "start", "top", "locked", "slice", "swapped", "reap"}]
          /\ \A r \in Ids : driver'[r] = "none" <=> driver[r] = "none"
      BY <1>4 DEF S!SaveFds, S!Lock, S!NothingToRun, StateInv
    <3> QED BY <2>1, <2>2, <2>4, <3>1 DEF StateInv
  <2>6. StdioInv'
    BY <2>1, <2>3, <2>4 DEF StdioInv, StateInv
  <2> QED BY <2>1, <2>2, <2>5, <2>6 DEF TurnsInv, OwnTablesInv
<1>5. ASSUME NEW s \in Ids, S!Serve(s) PROVE SessionsInv'
  <2> DEFINE p == next_pid[s]
  <2>1. /\ driver[s] = "locked" /\ p \in S!Pids /\ next_pid' = [next_pid EXCEPT ![s] = p + 1]
        /\ procs' = [procs EXCEPT ![s] = procs[s] \cup {p}]
        /\ tables' = S!Insert(tables, p, S!Terminal(s, p))
        /\ open' = open \cup {S!Terminal(s, p)}
        /\ UNCHANGED <<session, driver, saved, done, running, stdio, aborted>>
    BY <1>5 DEF S!Serve, S!CreateTable
  <2>2. HasDriver(s) /\ \A r \in Ids : HasDriver(r)' <=> HasDriver(r)
    BY <2>1 DEF HasDriver, StateInv
  <2>3. StateInv'
    <3>1. p \in 1..MaxPid /\ MaxPid \in Nat
      BY <2>1 DEF S!Pids, S!SessionsAssumption
    <3>2. next_pid' \in [Ids -> 1..(MaxPid + 1)] /\ procs' \in [Ids -> SUBSET S!Pids]
      BY <2>1, <3>1 DEF StateInv
    <3>3. \A r \in Ids : \A q \in procs'[r] : q < next_pid'[r]
      BY <2>1, <3>1 DEF StateInv, S!Pids
    <3>4. \A r \in Ids : procs[r] \subseteq procs'[r] /\ (r # s => procs'[r] = procs[r])
      BY <2>1 DEF StateInv
    <3> QED BY <2>1, <2>2, <3>2, <3>3, <3>4 DEF StateInv, HasDriver
  <2>4. OwnTablesInv'
    <3>1. DOMAIN tables' = procs'[s]
      BY <2>1, <2>2 DEF OwnTablesInv, StateInv, S!Insert
    <3>2. \A q \in procs'[s] : tables'[q] = S!Terminal(s, q) /\ S!Terminal(s, q) \in open'
      BY <2>1, <2>2 DEF OwnTablesInv, StateInv, S!Insert
    <3> QED BY <2>2, <3>1, <3>2 DEF OwnTablesInv, TurnsInv
  <2> QED BY <2>1, <2>2, <2>3, <2>4 DEF TurnsInv, StdioInv
<1>6. ASSUME NEW s \in Ids, NEW p \in S!Pids, S!SwapIn(s, p) PROVE SessionsInv'
  <2>1. driver[s] = "locked" /\ p \in procs[s] \ done[s]
    BY <1>6 DEF S!SwapIn
  <2>2. HasDriver(s) /\ p \in DOMAIN tables /\ tables[p] = S!Terminal(s, p) /\ tables[p] \in open
    BY <2>1 DEF StateInv, OwnTablesInv
  <2>3. tables[p] # S!Inherited
    BY <2>2, TerminalsDiffer
  <2>4. /\ aborted' = FALSE /\ stdio' = S!Terminal(s, p)
        /\ running' = [running EXCEPT ![s] = p]
        /\ driver' = [driver EXCEPT ![s] = "swapped"]
        /\ UNCHANGED <<session, saved, next_pid, procs, done, tables, open>>
    BY <1>6, <2>2, <2>3 DEF S!SwapIn, S!Install
  <2>5. \A r \in Ids : HasDriver(r)' <=> HasDriver(r)
    BY <2>4 DEF HasDriver
  <2>6. StateInv'
    BY <2>1, <2>2, <2>4, <2>5 DEF StateInv
  <2>7. StdioInv'
    <3>1. p # None
      BY DEF S!SessionsAssumption, S!Pids
    <3>2. \A r \in Ids \ {s} : driver[r] = "none"
      BY <2>2 DEF StateInv, TurnsInv
    <3> QED BY <2>1, <2>4, <3>1, <3>2 DEF StdioInv, StateInv
  <2> QED BY <2>4, <2>5, <2>6, <2>7 DEF TurnsInv, OwnTablesInv
<1>7. ASSUME NEW s \in Ids, S!UseTable(s) PROVE SessionsInv'
  <2>1. running[s] # None /\ running[s] \in procs[s] /\ driver[s] = "swapped"
    BY <1>7 DEF S!UseTable, StateInv, StdioInv
  <2>2. running[s] \in DOMAIN tables
    BY <2>1 DEF StateInv, OwnTablesInv
  <2>3. UNCHANGED S!vars
    BY <1>7, <2>2 DEF S!UseTable, S!vars
  <2> QED BY <1>1, <2>3
<1>8. ASSUME NEW s \in Ids, S!SwapOut(s) PROVE SessionsInv'
  <2>1. driver[s] = "swapped" /\ saved[s] = S!Host /\ HasDriver(s) /\ running[s] \in procs[s]
    BY <1>8 DEF S!SwapOut, StdioInv, StateInv
  <2>2. /\ stdio' = S!Host /\ driver' = [driver EXCEPT ![s] = "reap"]
        /\ running' = [running EXCEPT ![s] = None]
        /\ done' \in {done, [done EXCEPT ![s] = done[s] \cup {running[s]}]}
        /\ UNCHANGED <<session, saved, next_pid, procs, tables, open, aborted>>
    BY <1>8, <2>1 DEF S!SwapOut, S!Restore
  <2>3. \A r \in Ids : HasDriver(r)' <=> HasDriver(r)
    BY <2>2 DEF HasDriver
  <2>4. StateInv'
    <3>1. done' \in [Ids -> SUBSET S!Pids] /\ \A r \in Ids : done'[r] \subseteq procs[r]
      BY <2>1, <2>2 DEF StateInv
    <3> QED BY <2>1, <2>2, <2>3, <3>1 DEF StateInv
  <2>5. StdioInv'
    <3>1. \A r \in Ids \ {s} : driver[r] = "none"
      BY <2>1 DEF StateInv, TurnsInv
    <3> QED BY <2>1, <2>2, <3>1 DEF StdioInv, StateInv
  <2> QED BY <2>2, <2>3, <2>4, <2>5 DEF TurnsInv, OwnTablesInv
<1>9. ASSUME NEW s \in Ids, HasDriver(s), driver[s] # "swapped", S!Reaped(s)
      PROVE  /\ stdio' = S!Host /\ stdio = S!Host
             /\ procs' = [procs EXCEPT ![s] = procs[s] \ done[s]]
             /\ done' = [done EXCEPT ![s] = {}]
             /\ \A p \in procs[s] \ done[s] : S!Terminal(s, p) \in open'
  <2> DEFINE gone == {tables[p] : p \in done[s] \cap DOMAIN tables}
  <2>1. \A t \in gone : \E p \in done[s] : t = S!Terminal(s, p)
    BY <1>9 DEF OwnTablesInv
  <2>2. S!Inherited \notin gone
    BY <2>1, TerminalsDiffer
  <2>3. /\ procs' = [procs EXCEPT ![s] = procs[s] \ done[s]]
        /\ done' = [done EXCEPT ![s] = {}]
        /\ open' = open \ gone /\ stdio' = stdio
    BY <1>9, <2>2 DEF S!Reaped
  <2>4. \A p \in procs[s] \ done[s] : S!Terminal(s, p) \notin gone
    BY <2>1, TerminalsDiffer
  <2>5. stdio = S!Host
    BY <1>9 DEF StdioInv, StateInv, TurnsInv
  <2> HIDE DEF gone
  <2> QED BY <1>9, <2>3, <2>4, <2>5 DEF OwnTablesInv
<1>10. ASSUME NEW s \in Ids, S!Reap(s) PROVE SessionsInv'
  <2>1. /\ driver[s] = "reap" /\ S!Reaped(s) /\ HasDriver(s)
        /\ tables' = S!Without(tables, done[s]) /\ driver' = [driver EXCEPT ![s] = "top"]
        /\ UNCHANGED <<session, saved, next_pid, running, aborted>>
    BY <1>10 DEF S!Reap, StateInv
  <2>2. /\ stdio' = S!Host /\ stdio = S!Host
        /\ procs' = [procs EXCEPT ![s] = procs[s] \ done[s]]
        /\ done' = [done EXCEPT ![s] = {}]
        /\ \A p \in procs[s] \ done[s] : S!Terminal(s, p) \in open'
    BY <1>9, <2>1
  <2>3. \A r \in Ids : HasDriver(r)' <=> HasDriver(r)
    BY <2>1 DEF HasDriver
  <2>4. running[s] = None
    BY <2>1 DEF StdioInv
  <2>5. StateInv'
    BY <2>1, <2>2, <2>3, <2>4 DEF StateInv
  <2>6. OwnTablesInv'
    <3>1. DOMAIN tables' = procs'[s] /\ \A p \in procs'[s] : tables'[p] = S!Terminal(s, p)
      BY <2>1, <2>2 DEF OwnTablesInv, StateInv, S!Without
    <3>2. \A p \in procs'[s] : S!Terminal(s, p) \in open'
      BY <2>2 DEF StateInv
    <3> QED BY <2>1, <2>3, <3>1, <3>2 DEF OwnTablesInv, TurnsInv
  <2>7. StdioInv'
    BY <2>1, <2>2, <2>4 DEF StdioInv, StateInv
  <2> QED BY <2>1, <2>3, <2>5, <2>6, <2>7 DEF TurnsInv
<1>11. ASSUME NEW s \in Ids, S!Shutdown(s) PROVE SessionsInv'
  <2>1. /\ driver[s] = "top" /\ session[s] = "stopping" /\ S!Reaped(s) /\ HasDriver(s)
        /\ DOMAIN tables' = {} /\ session' = [session EXCEPT ![s] = "ended"]
        /\ driver' = [driver EXCEPT ![s] = "none"]
        /\ UNCHANGED <<saved, next_pid, running, aborted>>
    BY <1>11 DEF S!Shutdown, HasDriver
  <2>2. /\ stdio' = S!Host /\ stdio = S!Host
        /\ procs' = [procs EXCEPT ![s] = procs[s] \ done[s]]
        /\ done' = [done EXCEPT ![s] = {}]
    BY <1>9, <2>1
  <2>3. /\ \A r \in Ids : ~HasDriver(r)'
        /\ \A r \in Ids : session'[r] = "absent" <=> session[r] = "absent"
        /\ \A r \in Ids \ {s} : ~HasDriver(r)
    BY <2>1 DEF HasDriver, StateInv, TurnsInv
  <2>4. running[s] = None
    BY <2>1 DEF StdioInv
  <2>5. StateInv'
    BY <2>1, <2>2, <2>3, <2>4 DEF StateInv
  <2>6. StdioInv'
    BY <2>1, <2>2, <2>4 DEF StdioInv, StateInv
  <2> QED BY <2>1, <2>3, <2>5, <2>6 DEF TurnsInv, OwnTablesInv
<1> QED BY <1>1, <1>2, <1>3, <1>4, <1>5, <1>6, <1>7, <1>8, <1>10, <1>11 DEF S!Next

\* TablesArePrivate: in a host that waits for the end of a session before it
\* creates the next, every process of a live session has the fd table that was
\* made for it, although all sessions count pids from 1 and share FD_TABLES.
THEOREM SessionsKeepTheirTables ==
    ASSUME S!SessionsAssumption, Overlap = "never"
    PROVE  S!Spec => []TablesArePrivate
<1>1. SessionsInv => TablesArePrivate
  BY DEF SessionsInv, OwnTablesInv, HasDriver, TablesArePrivate, S!TablesArePrivate
<1> QED BY <1>1, SessionsInit, SessionsNext, PTL DEF S!Spec

\* StdioFollowsSlices: under the same condition fds 0-2 are the terminal of the
\* process that runs and the host's own between slices, and no driver aborts
\* because a terminal it has to install was closed.
THEOREM SessionsSwapTheirTerminals ==
    ASSUME S!SessionsAssumption, Overlap = "never"
    PROVE  S!Spec => []StdioFollowsSlices
<1>1. SessionsInv => StdioFollowsSlices
  BY DEF SessionsInv, StdioInv, StdioFollowsSlices, S!StdioFollowsSlices
<1> QED BY <1>1, SessionsInit, SessionsNext, PTL DEF S!Spec
=============================================================================
