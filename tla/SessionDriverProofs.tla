------------------------ MODULE SessionDriverProofs ------------------------
(***************************************************************************)
(* The executor (Executor) for every number of pids, exit codes, signals   *)
(* and kinds of I/O wait; then one session (SessionDriver) for any number  *)
(* of client threads and every instance of its executor: the driver thread *)
(* uses the executor as module Executor says, run_until_exit returns       *)
(* recorded codes, and no wakeup is lost.                                  *)
(***************************************************************************)
EXTENDS SessionDriver, FiniteSetTheorems, SequenceTheorems, TLAPS

\* A leaf that names no prover is tried by Zenon, by the SMT solver, and by
\* Zenon again for longer.
USE ZenonT(3), SMTT(30), ZenonT(60)

(***************************************************************************)
(* Queues without duplicates: what the pushes and pops of ready_queue do   *)
(* to the set of queued pids.                                              *)
(***************************************************************************)

\* push_back of a pid that is not queued.
LEMMA PushBack ==
    ASSUME NEW S, NEW q \in Seq(S), NEW x \in S, NoDuplicates(q), x \notin Elems(q)
    PROVE  /\ Append(q, x) \in Seq(S)
           /\ NoDuplicates(Append(q, x))
           /\ Elems(Append(q, x)) = Elems(q) \cup {x}
<1> DEFINE r == Append(q, x)
<1>1. /\ r \in Seq(S)
      /\ Len(r) = Len(q) + 1
      /\ \A i \in 1..Len(q) : r[i] = q[i]
      /\ r[Len(q) + 1] = x
      /\ Len(q) \in Nat
      /\ DOMAIN q = 1..Len(q)
      /\ DOMAIN r = 1..(Len(q) + 1)
  BY AppendProperties, LenProperties
<1> HIDE DEF r
<1>2. NoDuplicates(r)
  BY <1>1 DEF NoDuplicates, Elems
<1>3. Elems(r) = Elems(q) \cup {x}
  BY <1>1 DEF Elems
<1> QED
  BY <1>1, <1>2, <1>3 DEF r

\* push_front of a pid that is not queued.
LEMMA PushFront ==
    ASSUME NEW S, NEW q \in Seq(S), NEW x \in S, NoDuplicates(q), x \notin Elems(q)
    PROVE  /\ << x >> \o q \in Seq(S)
           /\ NoDuplicates(<< x >> \o q)
           /\ Elems(<< x >> \o q) = Elems(q) \cup {x}
           /\ (<< x >> \o q)[1] = x
<1> DEFINE r == << x >> \o q
<1>1. /\ r \in Seq(S)
      /\ Len(r) = Len(q) + 1
      /\ r[1] = x
      /\ \A i \in 2..(Len(q) + 1) : r[i] = q[i - 1]
      /\ Len(q) \in Nat
      /\ DOMAIN q = 1..Len(q)
      /\ DOMAIN r = 1..(Len(q) + 1)
  BY ConcatProperties, LenProperties
<1> HIDE DEF r
<1>2. \A i \in DOMAIN r : i # 1 => i - 1 \in DOMAIN q /\ r[i] = q[i - 1]
  BY <1>1
<1>3. \A i \in DOMAIN q : i + 1 \in DOMAIN r /\ r[i + 1] = q[i]
  BY <1>1
<1>4. 1 \in DOMAIN r
  BY <1>1
<1>5. NoDuplicates(r)
  <2> SUFFICES ASSUME NEW i \in DOMAIN r, NEW j \in DOMAIN r, r[i] = r[j], i # 1
               PROVE  i = j
    BY <1>2, <1>1 DEF NoDuplicates, Elems
  <2>1. q[i - 1] \in Elems(q)
    BY <1>2 DEF Elems
  <2>2. j # 1
    BY <1>1, <1>2, <2>1
  <2>3. i - 1 = j - 1
    BY <1>2, <2>2 DEF NoDuplicates
  <2> QED
    BY <1>1, <2>3
<1>6. ASSUME NEW y
      PROVE  y \in Elems(r) <=> y \in Elems(q) \cup {x}
  <2>1. ASSUME NEW i \in DOMAIN r
        PROVE  r[i] \in Elems(q) \cup {x}
    BY <1>1, <1>2 DEF Elems
  <2>2. ASSUME NEW i \in DOMAIN q
        PROVE  q[i] \in Elems(r)
    BY <1>3 DEF Elems
  <2>3. x \in Elems(r)
    BY <1>1, <1>4 DEF Elems
  <2> QED
    BY <2>1, <2>2, <2>3 DEF Elems
<1>7. Elems(r) = Elems(q) \cup {x}
  BY <1>6
<1> QED
  BY <1>1, <1>5, <1>7 DEF r

\* The pushes of wake_io_ready: an order of pids none of which is queued.
LEMMA PushAll ==
    ASSUME NEW S, NEW q \in Seq(S), NEW W \in SUBSET S, IsFiniteSet(W),
           NoDuplicates(q), W \cap Elems(q) = {},
           NEW s \in Orders(W)
    PROVE  /\ q \o s \in Seq(S)
           /\ NoDuplicates(q \o s)
           /\ Elems(q \o s) = Elems(q) \cup W
           /\ q # << >> => q \o s # << >> /\ (q \o s)[1] = q[1]
<1> DEFINE r == q \o s
<1>1. /\ s \in Seq(S)
      /\ NoDuplicates(s)
      /\ Elems(s) = W
  <2>1. Cardinality(W) \in Nat
    BY FS_CardinalityType
  <2> QED
    BY <2>1 DEF Orders
<1>2. /\ r \in Seq(S)
      /\ Len(q) \in Nat /\ Len(s) \in Nat
      /\ Len(r) = Len(q) + Len(s)
      /\ DOMAIN q = 1..Len(q)
      /\ DOMAIN s = 1..Len(s)
      /\ DOMAIN r = 1..(Len(q) + Len(s))
      /\ \A i \in 1..Len(q) : r[i] = q[i]
      /\ \A i \in (Len(q) + 1)..(Len(q) + Len(s)) : r[i] = s[i - Len(q)]
  BY <1>1, ConcatProperties, LenProperties
<1>3. q # << >> => Len(q) > 0
  BY <1>2, EmptySeq
<1> HIDE DEF r
<1>4. \A i \in DOMAIN r : \/ i \in DOMAIN q /\ r[i] = q[i]
                          \/ i - Len(q) \in DOMAIN s /\ r[i] = s[i - Len(q)]
  BY <1>2
<1>5. \A i \in DOMAIN s : i + Len(q) \in DOMAIN r /\ r[i + Len(q)] = s[i]
  BY <1>2
<1>6. \A i \in DOMAIN q : i \in DOMAIN r /\ r[i] = q[i]
  BY <1>2
<1>8. NoDuplicates(r)
  <2> SUFFICES ASSUME NEW i \in DOMAIN r, NEW j \in DOMAIN r, r[i] = r[j]
               PROVE  i = j
    BY DEF NoDuplicates
  <2>1. \A k \in DOMAIN q, l \in DOMAIN s : q[k] # s[l]
    BY <1>1 DEF Elems
  <2>2. CASE i \in DOMAIN q /\ r[i] = q[i]
    <3>1. j \in DOMAIN q /\ r[j] = q[j]
      BY <1>4, <2>1, <2>2
    <3> QED
      BY <2>2, <3>1 DEF NoDuplicates
  <2>3. CASE i - Len(q) \in DOMAIN s /\ r[i] = s[i - Len(q)]
    <3>1. j - Len(q) \in DOMAIN s /\ r[j] = s[j - Len(q)]
      BY <1>4, <2>1, <2>3
    <3>2. i - Len(q) = j - Len(q)
      BY <1>1, <2>3, <3>1 DEF NoDuplicates
    <3>3. i \in Int /\ j \in Int
      BY <1>2
    <3> QED
      BY <1>2, <3>2, <3>3
  <2> QED
    BY <1>4, <2>2, <2>3
<1>9. ASSUME NEW y
      PROVE  y \in Elems(r) <=> y \in Elems(q) \cup Elems(s)
  <2>1. ASSUME NEW i \in DOMAIN r
        PROVE  r[i] \in Elems(q) \cup Elems(s)
    BY <1>4 DEF Elems
  <2>2. ASSUME NEW i \in DOMAIN q
        PROVE  q[i] \in Elems(r)
    BY <1>6 DEF Elems
  <2>3. ASSUME NEW i \in DOMAIN s
        PROVE  s[i] \in Elems(r)
    BY <1>5 DEF Elems
  <2> QED
    BY <2>1, <2>2, <2>3 DEF Elems
<1>10. Elems(r) = Elems(q) \cup W
  BY <1>1, <1>9
<1>7. q # << >> => r # << >> /\ r[1] = q[1]
  BY <1>2, <1>3, EmptySeq
<1> QED
  BY <1>2, <1>7, <1>8, <1>10 DEF r

\* pick_next pops the head when the queue has no stale entry.
LEMMA PopFront ==
    ASSUME NEW S, NEW q \in Seq(S), NoDuplicates(q), NEW i \in DOMAIN q, i = 1
    PROVE  /\ SubSeq(q, i + 1, Len(q)) \in Seq(S)
           /\ NoDuplicates(SubSeq(q, i + 1, Len(q)))
           /\ Elems(SubSeq(q, i + 1, Len(q))) = Elems(q) \ {q[i]}
<1> DEFINE r == SubSeq(q, 2, Len(q))
<1>1. /\ Len(q) \in Nat /\ Len(q) >= 1
      /\ DOMAIN q = 1..Len(q)
  BY LenProperties
<1>2. /\ r \in Seq(S)
      /\ Len(r) = Len(q) - 1
      /\ DOMAIN r = 1..(Len(q) - 1)
      /\ \A k \in 1..(Len(q) - 1) : r[k] = q[k + 1]
  BY <1>1, SubSeqProperties, LenProperties
<1> HIDE DEF r
<1>3. \A k \in DOMAIN r : k + 1 \in DOMAIN q /\ k + 1 # 1 /\ r[k] = q[k + 1]
  BY <1>1, <1>2
<1>4. \A k \in DOMAIN q : k # 1 => k - 1 \in DOMAIN r /\ r[k - 1] = q[k]
  BY <1>1, <1>2
<1>5. NoDuplicates(r)
  <2> SUFFICES ASSUME NEW k \in DOMAIN r, NEW l \in DOMAIN r, r[k] = r[l]
               PROVE  k = l
    BY DEF NoDuplicates
  <2>1. k + 1 = l + 1
    BY <1>3 DEF NoDuplicates
  <2>2. k \in Int /\ l \in Int
    BY <1>2
  <2> QED
    BY <2>1, <2>2
<1>6. ASSUME NEW y
      PROVE  y \in Elems(r) <=> y \in Elems(q) \ {q[1]}
  <2>1. ASSUME NEW k \in DOMAIN r
        PROVE  r[k] \in Elems(q) \ {q[1]}
    BY <1>1, <1>3 DEF Elems, NoDuplicates
  <2>2. ASSUME NEW k \in DOMAIN q, k # 1
        PROVE  q[k] \in Elems(r)
    BY <1>4, <2>2 DEF Elems
  <2> QED
    BY <2>1, <2>2 DEF Elems
<1>7. Elems(r) = Elems(q) \ {q[1]}
  BY <1>6
<1> QED
  BY <1>2, <1>5, <1>7 DEF r

-----------------------------------------------------------------------------
(***************************************************************************)
(* Maps and coroutine records.                                             *)
(***************************************************************************)

\* What HashMap::insert does to the model's maps.
LEMMA InsertMap ==
    ASSUME NEW m, NEW k, NEW v
    PROVE  /\ DOMAIN Insert(m, k, v) = DOMAIN m \cup {k}
           /\ Insert(m, k, v)[k] = v
           /\ \A j \in DOMAIN m : j # k => Insert(m, k, v)[j] = m[j]
BY DEF Insert

\* Inserting a value of the map's type.
LEMMA InsertType ==
    ASSUME NEW T, NEW m, m \in [DOMAIN m -> T], NEW k, NEW v \in T
    PROVE  /\ DOMAIN Insert(m, k, v) = DOMAIN m \cup {k}
           /\ Insert(m, k, v) \in [DOMAIN Insert(m, k, v) -> T]
BY DEF Insert

\* vproc_exit_with_code on the running coroutine of a map of coroutines.
LEMMA ExitedType ==
    ASSUME NEW m, m \in [DOMAIN m -> Coroutine], current \in DOMAIN m,
           NEW code \in Int
    PROVE  /\ DOMAIN Exited(m, code) = DOMAIN m
           /\ Exited(m, code) \in [DOMAIN m -> Coroutine]
           /\ Exited(m, code)[current].done = TRUE
           /\ \A p \in DOMAIN m : p # current => Exited(m, code)[p] = m[p]
BY ZenonT(60) DEF Exited, Coroutine

\* The running coroutine goes to another place in its code.
LEMMA MovedToType ==
    ASSUME NEW m, m \in [DOMAIN m -> Coroutine], current \in DOMAIN m,
           NEW place \in Places, NEW arg \in Nat
    PROVE  /\ DOMAIN MovedTo(m, place, arg) = DOMAIN m
           /\ MovedTo(m, place, arg) \in [DOMAIN m -> Coroutine]
           /\ MovedTo(m, place, arg)[current].at = place
           /\ MovedTo(m, place, arg)[current].arg = arg
           /\ MovedTo(m, place, arg)[current].done = m[current].done
           /\ MovedTo(m, place, arg)[current].io_wait = m[current].io_wait
           /\ MovedTo(m, place, arg)[current].ppid = m[current].ppid
           /\ MovedTo(m, place, arg)[current].is_fork_child = m[current].is_fork_child
           /\ MovedTo(m, place, arg)[current].fork_child_pid = m[current].fork_child_pid
           /\ \A p \in DOMAIN m : p # current => MovedTo(m, place, arg)[p] = m[p]
BY DEF MovedTo, Coroutine

\* Coroutine::new and Coroutine::new_elf build well-typed coroutines.
LEMMA NewCoroutineType ==
    ASSUME NEW place \in Places, NEW arg \in Nat
    PROVE  NewCoroutine(place, arg) \in Coroutine
BY DEF NewCoroutine, Coroutine, Places, NoPid

\* Coroutine::fork_from makes a live child that stands where its parent stands.
LEMMA ForkChildType ==
    ASSUME NEW co \in Coroutine, NEW parent \in Nat
    PROVE  /\ ForkChild(co, parent) \in Coroutine
           /\ ForkChild(co, parent).done = FALSE
           /\ ForkChild(co, parent).io_wait = "none"
           /\ ForkChild(co, parent).ppid = parent
           /\ ForkChild(co, parent).is_fork_child = TRUE
           /\ ForkChild(co, parent).at = co.at
           /\ ForkChild(co, parent).arg = co.arg
<1>1. NoPid \in Nat /\ 0 \in Int /\ "none" \in IoWaits \cup {"none"}
  BY DEF NoPid
<1> QED
  BY <1>1 DEF ForkChild, Coroutine

\* spawn_fork_child on the map of coroutines.
LEMMA ForkedFromType ==
    ASSUME NEW m, m \in [DOMAIN m -> Coroutine], NEW parent \in DOMAIN m,
           parent \in Nat, NEW child \in Nat, child \notin DOMAIN m
    PROVE  /\ DOMAIN ForkedFrom(m, parent, child) = DOMAIN m \cup {child}
           /\ ForkedFrom(m, parent, child)
                \in [DOMAIN ForkedFrom(m, parent, child) -> Coroutine]
           /\ ForkedFrom(m, parent, child)[child] = ForkChild(m[parent], parent)
           /\ \A p \in DOMAIN m : p # parent => ForkedFrom(m, parent, child)[p] = m[p]
           /\ ForkedFrom(m, parent, child)[parent].done = m[parent].done
           /\ ForkedFrom(m, parent, child)[parent].io_wait = m[parent].io_wait
           /\ ForkedFrom(m, parent, child)[parent].ppid = m[parent].ppid
           /\ ForkedFrom(m, parent, child)[parent].is_fork_child
                = m[parent].is_fork_child
           /\ ForkedFrom(m, parent, child)[parent].at = m[parent].at
           /\ ForkedFrom(m, parent, child)[parent].arg = m[parent].arg
           /\ ForkedFrom(m, parent, child)[parent].fork_child_pid = child
<1> DEFINE c == ForkChild(m[parent], parent)
           i == Insert(m, child, c)
           n == [i EXCEPT ![parent].fork_child_pid = child]
<1>1. c \in Coroutine
  BY ForkChildType
<1> HIDE DEF c
<1>2. DOMAIN i = DOMAIN m \cup {child} /\ i \in [DOMAIN i -> Coroutine]
  BY <1>1, InsertType
<1>3. /\ i[child] = c
      /\ \A p \in DOMAIN m : i[p] = m[p]
  BY DEF Insert
<1> HIDE DEF i
<1>4. /\ DOMAIN n = DOMAIN i
      /\ n \in [DOMAIN n -> Coroutine]
      /\ \A p \in DOMAIN i : p # parent => n[p] = i[p]
      /\ n[parent].done = i[parent].done
      /\ n[parent].io_wait = i[parent].io_wait
      /\ n[parent].ppid = i[parent].ppid
      /\ n[parent].is_fork_child = i[parent].is_fork_child
      /\ n[parent].at = i[parent].at
      /\ n[parent].arg = i[parent].arg
      /\ n[parent].fork_child_pid = child
  BY <1>2 DEF Coroutine
<1>5. ForkedFrom(m, parent, child) = n
  BY DEF ForkedFrom, i, c
<1> HIDE DEF n
<1> QED
  BY <1>2, <1>3, <1>4, <1>5 DEF c

\* deliver_signals followed by resume keeps a coroutine well typed, clears the
\* Done mark, and changes neither its I/O wait nor its fork bookkeeping.
LEMMA ResumedType ==
    ASSUME NEW co \in Coroutine, NEW d \in DeliverSignals(co)
    PROVE  /\ Resumed(d) \in Coroutine
           /\ Resumed(d).done = FALSE
           /\ Resumed(d).io_wait = co.io_wait
           /\ Resumed(d).ppid = co.ppid
           /\ Resumed(d).is_fork_child = co.is_fork_child
           /\ Resumed(d).fork_child_pid = co.fork_child_pid
           /\ Resumed(d).arg = co.arg
           /\ Resumed(d).at = IF co.at = "closure" THEN "user" ELSE co.at
<1>1. d \in Coroutine
  <2> DEFINE taken == [co EXCEPT !.pending_signals = {}]
  <2>1. taken \in Coroutine
    BY DEF Coroutine
  <2>2. ASSUME NEW s \in Fatal
        PROVE  [taken EXCEPT !.done = TRUE, !.exit_code = 128 + s] \in Coroutine
    <3>1. 128 + s \in Int
      BY DEF Fatal, SIGKILL, SIGTERM
    <3> HIDE DEF taken
    <3> QED
      BY <2>1, <3>1 DEF Coroutine
  <2> QED
    BY <2>1, <2>2 DEF DeliverSignals
<1>2. /\ d.io_wait = co.io_wait /\ d.ppid = co.ppid /\ d.at = co.at
      /\ d.is_fork_child = co.is_fork_child /\ d.arg = co.arg
      /\ d.fork_child_pid = co.fork_child_pid
  BY DEF DeliverSignals, Coroutine
<1>3. Resumed(d) \in Coroutine
  BY <1>1 DEF Resumed, Coroutine, Places
<1> QED
  BY <1>1, <1>2, <1>3 DEF Resumed, Coroutine

\* Queues over the pids handed out so far are queues over those of later.
LEMMA QueueGrows ==
    ASSUME NEW n \in Nat, NEW q \in Seq(1..(n - 1))
    PROVE  /\ q \in Seq(1..n)
           /\ n # 0 => Append(q, n) \in Seq(1..n) /\ << n >> \o q \in Seq(1..n)
<1>1. 1..(n - 1) \subseteq 1..n
  OBVIOUS
<1>2. q \in Seq(1..n)
  BY <1>1, SeqMonotonic
<1>3. ASSUME n # 0
      PROVE  Append(q, n) \in Seq(1..n) /\ << n >> \o q \in Seq(1..n)
  BY <1>2, <1>3, AppendProperties, ConcatProperties
<1> QED
  BY <1>2, <1>3
-----------------------------------------------------------------------------
\* Initially the executor is well typed.
LEMMA InitType == Init => TypeOK
<1>1. \A T : << >> \in Seq(T) /\ << >> \in [{} -> T]
  BY EmptySeq, LenProperties
<1>2. DOMAIN << >> = {}
  BY <1>1
<1>3. ASSUME Init
      PROVE  TypeOK
  <2>1. /\ DOMAIN vprocs = {} /\ vprocs \in [{} -> Coroutine]
        /\ DOMAIN children = {} /\ children \in [{} -> SUBSET (1..(next_pid - 1))]
        /\ DOMAIN exit_codes = {} /\ exit_codes \in [{} -> Int]
        /\ ready_queue \in Seq(1..(next_pid - 1))
    BY <1>1, <1>2, <1>3, Zenon DEF Init
  <2>2. /\ next_pid \in Nat \ {0}
        /\ saved_fork_lr \in 0..(next_pid - 1)
    BY <1>3 DEF Init, NoPid
  <2>3. /\ current \in DOMAIN vprocs \cup {NoPid}
        /\ aborted \in BOOLEAN
    BY <1>3, Zenon DEF Init
  <2> QED
    BY <2>1, <2>2, <2>3 DEF TypeOK
<1> QED
  BY <1>3

\* Every step keeps the executor well typed.
LEMMA NextType == TypeOK /\ [Next]_vars => TypeOK'
<1> SUFFICES ASSUME TypeOK, [Next]_vars
             PROVE  TypeOK'
  OBVIOUS
<1>1. /\ next_pid \in Nat \ {0}
      /\ DOMAIN vprocs \subseteq 1..(next_pid - 1)
      /\ vprocs \in [DOMAIN vprocs -> Coroutine]
      /\ ready_queue \in Seq(1..(next_pid - 1))
      /\ exit_codes \in [DOMAIN exit_codes -> Int]
      /\ NoPid \in Nat
      /\ 0 \in Int
      /\ {"user", "fork", "waitpid", "helper"} \subseteq Places
  BY DEF TypeOK, NoPid, Places
<1>2. ASSUME NEW place \in {"closure", "user"}, Spawn(place)
      PROVE  TypeOK'
  <2>1. NewCoroutine(place, NoPid) \in Coroutine
    BY <1>1, NewCoroutineType DEF Places
  <2> DEFINE m == Insert(vprocs, next_pid, NewCoroutine(place, NoPid))
  <2>4. /\ DOMAIN m = DOMAIN vprocs \cup {next_pid}
        /\ m \in [DOMAIN m -> Coroutine]
    BY <1>1, <2>1, InsertType
  <2>2. /\ DOMAIN vprocs' = DOMAIN vprocs \cup {next_pid}
        /\ vprocs' \in [DOMAIN vprocs' -> Coroutine]
    BY <1>2, <2>4 DEF Spawn
  <2> HIDE DEF m
  <2>3. ready_queue' \in Seq(1..next_pid)
    BY <1>1, <1>2, QueueGrows DEF Spawn
  <2> QED
    BY <1>1, <1>2, <2>2, <2>3 DEF Spawn, TypeOK
<1>3. ASSUME NEW place \in {"closure", "user"}, Execve(place)
      PROVE  TypeOK'
  <2> DEFINE m == Insert(vprocs, next_pid, NewCoroutine(place, NoPid))
  <2>1. NewCoroutine(place, NoPid) \in Coroutine
    BY <1>1, NewCoroutineType DEF Places
  <2>2. /\ DOMAIN m = DOMAIN vprocs \cup {next_pid}
        /\ m \in [DOMAIN m -> Coroutine]
    BY <1>1, <2>1, InsertType
  <2>3. vprocs' = Exited(m, 0)
    BY <1>3 DEF Execve
  <2> HIDE DEF m
  <2>4. current \in DOMAIN vprocs
    BY <1>3 DEF Execve, InUser, TypeOK
  <2>5. /\ DOMAIN vprocs' = DOMAIN vprocs \cup {next_pid}
        /\ vprocs' \in [DOMAIN vprocs' -> Coroutine]
    <3>1. /\ DOMAIN Exited(m, 0) = DOMAIN m
          /\ Exited(m, 0) \in [DOMAIN m -> Coroutine]
      BY <1>1, <2>2, <2>4, ExitedType
    <3> QED
      BY <2>2, <2>3, <3>1
  <2>6. ready_queue' \in Seq(1..next_pid)
    BY <1>1, <1>3, QueueGrows DEF Execve
  <2>7. /\ DOMAIN exit_codes' = DOMAIN exit_codes \cup {current}
        /\ exit_codes' \in [DOMAIN exit_codes' -> Int]
    <3>1. /\ DOMAIN Insert(exit_codes, current, 0) = DOMAIN exit_codes \cup {current}
          /\ Insert(exit_codes, current, 0)
               \in [DOMAIN Insert(exit_codes, current, 0) -> Int]
      BY <1>1, InsertType
    <3> QED
      BY <1>3, <3>1 DEF Execve
  <2>8. /\ next_pid' = next_pid + 1 /\ current' = NoPid
        /\ UNCHANGED << children, saved_fork_lr, aborted >>
    BY <1>3 DEF Execve, BackToDriver
  <2> QED
    BY <1>1, <2>4, <2>5, <2>6, <2>7, <2>8 DEF TypeOK
<1>4. ASSUME DoYield \/ WaitpidYield
      PROVE  TypeOK'
  <2>1. current \in DOMAIN vprocs
    BY <1>4 DEF DoYield, WaitpidYield, InUser, AtWaitpid, TypeOK
  <2>2. ready_queue' \in Seq(1..(next_pid - 1))
    <3>1. Append(ready_queue, current) \in Seq(1..(next_pid - 1))
      BY <1>1, <2>1, AppendProperties
    <3> QED
      BY <1>1, <1>4, <3>1 DEF DoYield, WaitpidYield, Requeued
  <2> QED
    BY <1>1, <1>4, <2>2 DEF DoYield, WaitpidYield, BackToDriver, TypeOK
<1>5. ASSUME NEW w \in Waits, YieldForIo(w)
      PROVE  TypeOK'
  <2>1. w \in IoWaits
    BY ExecutorAssumption DEF IoWaits, FdWaits, DeadlineWaits
  <2>2. current \in DOMAIN vprocs
    BY <1>5 DEF YieldForIo, InUser, TypeOK
  <2>3. /\ DOMAIN vprocs' = DOMAIN vprocs
        /\ vprocs' \in [DOMAIN vprocs -> Coroutine]
    BY <1>1, <1>5, <2>1, <2>2, ZenonT(60) DEF YieldForIo, Coroutine
  <2> QED
    BY <1>1, <1>5, <2>3 DEF YieldForIo, BackToDriver, TypeOK
<1>6. ASSUME NEW code \in Int, Exit(code)
      PROVE  TypeOK'
  <2>1. current \in DOMAIN vprocs
    BY <1>6 DEF Exit, InUser, TypeOK
  <2>2. /\ DOMAIN Exited(vprocs, code) = DOMAIN vprocs
        /\ Exited(vprocs, code) \in [DOMAIN vprocs -> Coroutine]
    BY <1>1, <2>1, ExitedType
  <2>3. /\ DOMAIN Insert(exit_codes, current, code) = DOMAIN exit_codes \cup {current}
        /\ Insert(exit_codes, current, code)
             \in [DOMAIN Insert(exit_codes, current, code) -> Int]
    BY <1>1, InsertType
  <2> QED
    BY <1>1, <1>6, <2>1, <2>2, <2>3 DEF Exit, BackToDriver, TypeOK
<1>7. ASSUME NEW p, NEW sig \in Signals, Kill(p, sig)
      PROVE  TypeOK'
  <2>1. /\ DOMAIN vprocs' = DOMAIN vprocs
        /\ vprocs' \in [DOMAIN vprocs -> Coroutine]
    BY <1>1, <1>7, ZenonT(60) DEF Kill, Coroutine
  <2> QED
    BY <1>1, <1>7, <2>1 DEF Kill, TypeOK
<1>8. ASSUME NEW p \in DOMAIN vprocs, WaitpidEnter(p)
      PROVE  TypeOK'
  <2>1. current \in DOMAIN vprocs /\ p \in Nat
    BY <1>1, <1>8 DEF WaitpidEnter, InUser, TypeOK
  <2>2. /\ DOMAIN vprocs' = DOMAIN vprocs
        /\ vprocs' \in [DOMAIN vprocs -> Coroutine]
    <3>1. /\ DOMAIN MovedTo(vprocs, "waitpid", p) = DOMAIN vprocs
          /\ MovedTo(vprocs, "waitpid", p) \in [DOMAIN vprocs -> Coroutine]
      BY <1>1, <2>1, MovedToType
    <3> QED
      BY <1>8, <3>1 DEF WaitpidEnter
  <2> QED
    BY <1>1, <1>8, <2>2 DEF WaitpidEnter, TypeOK
<1>9. ASSUME WaitpidReturn
      PROVE  TypeOK'
  <2>1. current \in DOMAIN vprocs
    BY <1>9 DEF WaitpidReturn, AtWaitpid, TypeOK
  <2>2. /\ DOMAIN vprocs' = DOMAIN vprocs
        /\ vprocs' \in [DOMAIN vprocs -> Coroutine]
    <3>1. /\ DOMAIN MovedTo(vprocs, "user", NoPid) = DOMAIN vprocs
          /\ MovedTo(vprocs, "user", NoPid) \in [DOMAIN vprocs -> Coroutine]
      BY <1>1, <2>1, MovedToType
    <3> QED
      BY <1>9, <3>1 DEF WaitpidReturn
  <2> QED
    BY <1>1, <1>9, <2>2 DEF WaitpidReturn, TypeOK
<1>10. ASSUME ForkReturn
       PROVE  TypeOK'
  <2>1. current \in DOMAIN vprocs
    BY <1>10 DEF ForkReturn, TypeOK
  <2>2. /\ DOMAIN vprocs' = DOMAIN vprocs
        /\ vprocs' \in [DOMAIN vprocs -> Coroutine]
    <3> DEFINE m == [vprocs EXCEPT ![current].is_fork_child = FALSE]
    <3>1. DOMAIN m = DOMAIN vprocs /\ m \in [DOMAIN m -> Coroutine]
      BY <1>1, <2>1, ZenonT(60) DEF Coroutine
    <3>2. vprocs' = MovedTo(m, "user", NoPid)
      BY <1>10 DEF ForkReturn
    <3> HIDE DEF m
    <3>3. /\ DOMAIN MovedTo(m, "user", NoPid) = DOMAIN m
          /\ MovedTo(m, "user", NoPid) \in [DOMAIN m -> Coroutine]
      BY <1>1, <2>1, <3>1, MovedToType DEF Places
    <3> QED
      BY <3>1, <3>2, <3>3
  <2>3. saved_fork_lr' \in 0..(next_pid - 1)
    BY <1>1, <1>10 DEF ForkReturn, NoPid
  <2> QED
    BY <1>1, <1>10, <2>2, <2>3 DEF ForkReturn, TypeOK
<1>11. ASSUME ForkCall
       PROVE  TypeOK'
  <2> DEFINE m == MovedTo(vprocs, "fork", next_pid)
             n == Insert(m, next_pid, NewCoroutine("helper", current))
  <2>1. current \in DOMAIN vprocs /\ current \in Nat
    BY <1>1, <1>11 DEF ForkCall, InUser, TypeOK
  <2>2. DOMAIN m = DOMAIN vprocs /\ m \in [DOMAIN m -> Coroutine]
    BY <1>1, <2>1, MovedToType
  <2>3. NewCoroutine("helper", current) \in Coroutine
    BY <1>1, <2>1, NewCoroutineType
  <2> HIDE DEF m
  <2>4. DOMAIN n = DOMAIN m \cup {next_pid} /\ n \in [DOMAIN n -> Coroutine]
    BY <2>2, <2>3, InsertType
  <2>5. vprocs' = n
    BY <1>11 DEF ForkCall, m
  <2> HIDE DEF n
  <2>6. ready_queue' \in Seq(1..next_pid)
    <3>1. << next_pid >> \o ready_queue \in Seq(1..next_pid)
      BY <1>1, QueueGrows
    <3>2. current \in 1..next_pid
      BY <1>1, <2>1
    <3>3. Append(<< next_pid >> \o ready_queue, current) \in Seq(1..next_pid)
      BY <3>1, <3>2, AppendProperties
    <3> QED
      BY <1>11, <3>1, <3>3 DEF ForkCall, Requeued
  <2> QED
    BY <1>1, <1>11, <2>1, <2>2, <2>4, <2>5, <2>6 DEF ForkCall, BackToDriver, TypeOK
<1>12. ASSUME HelperRun
       PROVE  TypeOK'
  <2> DEFINE parent == vprocs[current].arg
             m == ForkedFrom(vprocs, parent, next_pid)
             siblings == IF parent \in DOMAIN children THEN children[parent] ELSE {}
             c == Insert(children, parent, siblings \cup {next_pid})
  <2>1. current \in DOMAIN vprocs /\ parent \in DOMAIN vprocs
    BY <1>12 DEF HelperRun, TypeOK
  <2>2. /\ vprocs' = Exited(m, 0)
        /\ children' = c
        /\ ready_queue' = Append(ready_queue, next_pid)
        /\ next_pid' = next_pid + 1
        /\ exit_codes' = Insert(exit_codes, current, 0)
        /\ UNCHANGED << saved_fork_lr, aborted >>
        /\ current' = NoPid
    BY <1>12 DEF HelperRun, BackToDriver
  <2> HIDE DEF parent
  <2>3. DOMAIN m = DOMAIN vprocs \cup {next_pid} /\ m \in [DOMAIN m -> Coroutine]
    <3>1. /\ vprocs \in [DOMAIN vprocs -> Coroutine]
          /\ parent \in DOMAIN vprocs /\ parent \in Nat
          /\ next_pid \in Nat /\ next_pid \notin DOMAIN vprocs
      BY <1>1, <2>1
    <3>2. /\ DOMAIN ForkedFrom(vprocs, parent, next_pid) = DOMAIN vprocs \cup {next_pid}
          /\ ForkedFrom(vprocs, parent, next_pid)
               \in [DOMAIN ForkedFrom(vprocs, parent, next_pid) -> Coroutine]
      BY <3>1, ForkedFromType, ZenonT(60)
    <3> QED
      BY <3>2
  <2> HIDE DEF m
  <2>4. /\ DOMAIN vprocs' = DOMAIN vprocs \cup {next_pid}
        /\ vprocs' \in [DOMAIN vprocs' -> Coroutine]
    <3>1. /\ DOMAIN Exited(m, 0) = DOMAIN m
          /\ Exited(m, 0) \in [DOMAIN m -> Coroutine]
      BY <1>1, <2>1, <2>3, ExitedType
    <3> QED
      BY <2>2, <2>3, <3>1
  <2>5. ready_queue' \in Seq(1..next_pid)
    BY <1>1, <2>2, QueueGrows
  <2>6. /\ DOMAIN exit_codes' = DOMAIN exit_codes \cup {current}
        /\ exit_codes' \in [DOMAIN exit_codes' -> Int]
    <3>1. /\ DOMAIN Insert(exit_codes, current, 0) = DOMAIN exit_codes \cup {current}
          /\ Insert(exit_codes, current, 0)
               \in [DOMAIN Insert(exit_codes, current, 0) -> Int]
      BY <1>1, InsertType
    <3> QED
      BY <2>2, <3>1
  <2>7. /\ DOMAIN children' = DOMAIN children \cup {parent}
        /\ children' \in [DOMAIN children' -> SUBSET (1..next_pid)]
    <3>1. siblings \cup {next_pid} \in SUBSET (1..next_pid)
      BY <1>1 DEF TypeOK
    <3>2. children \in [DOMAIN children -> SUBSET (1..next_pid)]
      BY <1>1 DEF TypeOK
    <3> HIDE DEF siblings
    <3>3. DOMAIN c = DOMAIN children \cup {parent}
          /\ c \in [DOMAIN c -> SUBSET (1..next_pid)]
      BY <3>1, <3>2, InsertType
    <3> QED
      BY <2>2, <3>3
  <2>8. next_pid' \in Nat \ {0} /\ next_pid' - 1 = next_pid
    BY <1>1, <2>2
  <2>10. /\ current \in 1..next_pid
         /\ parent \in 1..next_pid
         /\ DOMAIN children \subseteq 1..next_pid
         /\ DOMAIN exit_codes \subseteq 1..next_pid
         /\ saved_fork_lr' \in 0..next_pid
    BY <1>1, <2>1, <2>2 DEF TypeOK
  <2>11. /\ DOMAIN vprocs' \subseteq 1..next_pid
         /\ DOMAIN children' \subseteq 1..next_pid
         /\ DOMAIN exit_codes' \subseteq 1..next_pid
    BY <1>1, <2>4, <2>6, <2>7, <2>10
  <2>9. /\ current' \in DOMAIN vprocs' \cup {NoPid}
        /\ aborted' \in BOOLEAN
    BY <2>2 DEF TypeOK
  <2> QED
    BY <2>4, <2>5, <2>6, <2>7, <2>8, <2>9, <2>10, <2>11 DEF TypeOK
<1>13. ASSUME Step
       PROVE  TypeOK'
  <2>1. PICK i \in DOMAIN ready_queue :
          /\ PickNext(i)
          /\ ready_queue' = SubSeq(ready_queue, i + 1, Len(ready_queue))
          /\ current' = ready_queue[i]
          /\ \E co \in DeliverSignals(vprocs[ready_queue[i]]) :
               /\ vprocs' = [vprocs EXCEPT ![ready_queue[i]] = Resumed(co)]
               /\ aborted' = (co.done /\ co.at \in {"closure", "helper"})
    BY <1>13 DEF Step
  <2> DEFINE p == ready_queue[i]
  <2>2. p \in DOMAIN vprocs
    BY <2>1 DEF PickNext, Live
  <2>3. PICK co \in DeliverSignals(vprocs[p]) :
          /\ vprocs' = [vprocs EXCEPT ![p] = Resumed(co)]
          /\ aborted' = (co.done /\ co.at \in {"closure", "helper"})
    BY <2>1
  <2>4. ready_queue' \in Seq(1..(next_pid - 1))
    BY <1>1, <2>1, SubSeqProperties, LenProperties, SMTT(30)
  <2>5. current' = p
    BY <2>1
  <2> HIDE DEF p
  <2>6. Resumed(co) \in Coroutine
    BY <1>1, <2>2, ResumedType
  <2>7. DOMAIN vprocs' = DOMAIN vprocs /\ vprocs' \in [DOMAIN vprocs -> Coroutine]
    BY <1>1, <2>2, <2>3, <2>6
  <2>8. aborted' \in BOOLEAN
    BY <2>3
  <2> QED
    BY <1>1, <1>13, <2>2, <2>4, <2>5, <2>7, <2>8 DEF Step, TypeOK
<1>14. ASSUME Reap
       PROVE  TypeOK'
  <2>1. /\ DOMAIN vprocs' = DOMAIN vprocs \ DonePids
        /\ vprocs' \in [DOMAIN vprocs' -> Coroutine]
    BY <1>1, <1>14 DEF Reap
  <2>2. /\ DOMAIN children' \subseteq DOMAIN children
        /\ children' \in [DOMAIN children' -> SUBSET (1..(next_pid - 1))]
    BY <1>1, <1>14 DEF Reap
  <2> QED
    BY <1>1, <1>14, <2>1, <2>2 DEF Reap, TypeOK
<1>15. ASSUME PollAndWake
       PROVE  TypeOK'
  <2>1. PICK R \in SUBSET FdWaiters, X \in SUBSET DeadlineWaiters : WakeIoReady(R \cup X)
    BY <1>15 DEF PollAndWake
  <2>2. /\ DOMAIN vprocs' = DOMAIN vprocs
        /\ vprocs' \in [DOMAIN vprocs -> Coroutine]
    BY <1>1, <2>1, ZenonT(60) DEF WakeIoReady, Coroutine
  <2>3. ready_queue' \in Seq(1..(next_pid - 1))
    <3> DEFINE W == (R \cup X) \ Elems(ready_queue)
    <3>1. PICK s \in Orders(W) : ready_queue' = ready_queue \o s
      BY <2>1 DEF WakeIoReady
    <3>2. W \subseteq 1..(next_pid - 1)
      BY <1>1 DEF FdWaiters, DeadlineWaiters
    <3>3. IsFiniteSet(W)
      <4>1. IsFiniteSet(1..(next_pid - 1))
        <5>1. 1 \in Int /\ next_pid - 1 \in Int
          BY <1>1
        <5> QED
          BY <5>1, FS_Interval
      <4> QED
        BY <3>2, <4>1, FS_Subset
    <3>4. Cardinality(W) \in Nat
      BY <3>3, FS_CardinalityType
    <3> HIDE DEF W
    <3>5. s \in Seq(1..(next_pid - 1))
      <4>1. s \in Seq(W)
        BY <3>1, <3>4 DEF Orders
      <4> QED
        BY <3>2, <4>1, SeqMonotonic
    <3> QED
      BY <1>1, <3>1, <3>5, ConcatProperties
  <2> QED
    BY <1>1, <1>15, <2>2, <2>3 DEF PollAndWake, TypeOK
<1>16. ASSUME NEW sig \in Signals, Raise(sig)
       PROVE  TypeOK'
  <2>1. 128 + sig \in Int
    BY ExecutorAssumption
  <2> QED
    BY <1>6, <1>7, <1>16, <2>1 DEF Raise
<1>17. ASSUME UNCHANGED vars
       PROVE  TypeOK'
  BY <1>17 DEF vars, TypeOK
<1> QED
  BY <1>2, <1>3, <1>4, <1>5, <1>6, <1>7, <1>8, <1>9, <1>10, <1>11, <1>12, <1>13,
     <1>14, <1>15, <1>16, <1>17, ExecutorAssumption DEF Next, SwitchOut, KeepRunning

\* The executor stays well typed, for every instance.
THEOREM TypeCorrect == Spec => []TypeOK
BY InitType, NextType, PTL DEF Spec
-----------------------------------------------------------------------------
(***************************************************************************)
(* What the actions do to vprocs, coroutine by coroutine.                  *)
(***************************************************************************)

\* Spawn adds a fresh coroutine and touches no other.
LEMMA SpawnEffect ==
    ASSUME TypeOK, NEW place \in {"closure", "user"}, Spawn(place)
    PROVE  /\ next_pid \notin DOMAIN vprocs
           /\ DOMAIN vprocs' = DOMAIN vprocs \cup {next_pid}
           /\ vprocs'[next_pid] = NewCoroutine(place, NoPid)
           /\ \A p \in DOMAIN vprocs : vprocs'[p] = vprocs[p]
<1>1. next_pid \notin DOMAIN vprocs
  BY DEF TypeOK
<1>2. vprocs' = Insert(vprocs, next_pid, NewCoroutine(place, NoPid))
  BY DEF Spawn
<1> QED
  BY <1>1, <1>2 DEF Insert

\* Execve adds a fresh coroutine and ends the caller.
LEMMA ExecveEffect ==
    ASSUME TypeOK, NEW place \in {"closure", "user"}, Execve(place)
    PROVE  /\ current \in DOMAIN vprocs
           /\ next_pid \notin DOMAIN vprocs
           /\ DOMAIN vprocs' = DOMAIN vprocs \cup {next_pid}
           /\ vprocs'[next_pid] = NewCoroutine(place, NoPid)
           /\ vprocs'[current] = [vprocs[current] EXCEPT !.done = TRUE, !.exit_code = 0]
           /\ \A p \in DOMAIN vprocs : p # current => vprocs'[p] = vprocs[p]
<1>1. current \in DOMAIN vprocs /\ next_pid \notin DOMAIN vprocs
  BY DEF TypeOK, Execve, InUser
<1> DEFINE m == Insert(vprocs, next_pid, NewCoroutine(place, NoPid))
<1>2. /\ DOMAIN m = DOMAIN vprocs \cup {next_pid}
      /\ m[next_pid] = NewCoroutine(place, NoPid)
      /\ \A p \in DOMAIN vprocs : m[p] = vprocs[p]
  BY <1>1 DEF Insert
<1>3. vprocs' = [m EXCEPT ![current].done = TRUE, ![current].exit_code = 0]
  BY DEF Execve, Exited
<1> HIDE DEF m
<1> QED
  BY <1>1, <1>2, <1>3

\* Exit ends the caller.
LEMMA ExitEffect ==
    ASSUME TypeOK, NEW code, Exit(code)
    PROVE  /\ current \in DOMAIN vprocs
           /\ DOMAIN vprocs' = DOMAIN vprocs
           /\ vprocs'[current] = [vprocs[current] EXCEPT !.done = TRUE,
                                                         !.exit_code = code]
           /\ \A p \in DOMAIN vprocs : p # current => vprocs'[p] = vprocs[p]
BY DEF TypeOK, Exit, InUser, Exited

\* The running coroutine starts a fork: a helper is added.
LEMMA ForkCallEffect ==
    ASSUME TypeOK, ForkCall
    PROVE  /\ current \in DOMAIN vprocs
           /\ next_pid \notin DOMAIN vprocs
           /\ DOMAIN vprocs' = DOMAIN vprocs \cup {next_pid}
           /\ vprocs'[next_pid] = NewCoroutine("helper", current)
           /\ vprocs'[current] = [vprocs[current] EXCEPT !.at = "fork",
                                                         !.arg = next_pid]
           /\ \A p \in DOMAIN vprocs : p # current => vprocs'[p] = vprocs[p]
<1>1. current \in DOMAIN vprocs /\ next_pid \notin DOMAIN vprocs
  BY DEF TypeOK, ForkCall, InUser
<1> DEFINE m == MovedTo(vprocs, "fork", next_pid)
<1>2. /\ DOMAIN m = DOMAIN vprocs
      /\ m[current] = [vprocs[current] EXCEPT !.at = "fork", !.arg = next_pid]
      /\ \A p \in DOMAIN vprocs : p # current => m[p] = vprocs[p]
  BY <1>1 DEF MovedTo, TypeOK, Coroutine
<1>3. vprocs' = Insert(m, next_pid, NewCoroutine("helper", current))
  BY DEF ForkCall
<1> HIDE DEF m
<1> QED
  BY <1>1, <1>2, <1>3 DEF Insert

\* The helper makes the child, tells the parent, and ends.
LEMMA HelperRunEffect ==
    ASSUME TypeOK, HelperRun
    PROVE  /\ current \in DOMAIN vprocs
           /\ vprocs[current].arg \in DOMAIN vprocs
           /\ next_pid \notin DOMAIN vprocs
           /\ DOMAIN vprocs' = DOMAIN vprocs \cup {next_pid}
           /\ vprocs'[next_pid].done = FALSE
           /\ vprocs'[next_pid].io_wait = "none"
           /\ vprocs'[next_pid].ppid = vprocs[current].arg
           /\ vprocs'[next_pid].is_fork_child = TRUE
           /\ vprocs'[next_pid].at = vprocs[vprocs[current].arg].at
           /\ vprocs'[next_pid].arg = vprocs[vprocs[current].arg].arg
           /\ vprocs'[current].done = TRUE
           /\ vprocs'[vprocs[current].arg].fork_child_pid = next_pid
           /\ \A p \in DOMAIN vprocs :
                /\ p # current => vprocs'[p].done = vprocs[p].done
                /\ vprocs'[p].io_wait = vprocs[p].io_wait
                /\ vprocs'[p].ppid = vprocs[p].ppid
                /\ vprocs'[p].is_fork_child = vprocs[p].is_fork_child
                /\ vprocs'[p].at = vprocs[p].at
                /\ vprocs'[p].arg = vprocs[p].arg
                /\ p # vprocs[current].arg =>
                     vprocs'[p].fork_child_pid = vprocs[p].fork_child_pid
<1> DEFINE parent == vprocs[current].arg
           c == ForkChild(vprocs[parent], parent)
           m == ForkedFrom(vprocs, parent, next_pid)
<1>1. /\ vprocs \in [DOMAIN vprocs -> Coroutine]
      /\ current \in DOMAIN vprocs
      /\ parent \in DOMAIN vprocs /\ parent \in Nat
      /\ next_pid \in Nat /\ next_pid \notin DOMAIN vprocs
  BY DEF HelperRun, TypeOK
<1>2. vprocs' = Exited(m, 0)
  BY DEF HelperRun
<1> HIDE DEF parent
<1>3. /\ DOMAIN m = DOMAIN vprocs \cup {next_pid}
      /\ m \in [DOMAIN m -> Coroutine]
      /\ m[next_pid] = c
      /\ \A p \in DOMAIN vprocs : p # parent => m[p] = vprocs[p]
      /\ m[parent].done = vprocs[parent].done
      /\ m[parent].io_wait = vprocs[parent].io_wait
      /\ m[parent].ppid = vprocs[parent].ppid
      /\ m[parent].is_fork_child = vprocs[parent].is_fork_child
      /\ m[parent].at = vprocs[parent].at
      /\ m[parent].arg = vprocs[parent].arg
      /\ m[parent].fork_child_pid = next_pid
  BY <1>1, ForkedFromType, SMTT(60)
<1>4. /\ c.done = FALSE
      /\ c.io_wait = "none"
      /\ c.ppid = parent
      /\ c.is_fork_child = TRUE
      /\ c.at = vprocs[parent].at
      /\ c.arg = vprocs[parent].arg
  BY <1>1, ForkChildType
<1> HIDE DEF c, m
<1>5. /\ DOMAIN vprocs' = DOMAIN m
      /\ vprocs'[current].done = TRUE
      /\ vprocs'[current].io_wait = m[current].io_wait
      /\ vprocs'[current].ppid = m[current].ppid
      /\ vprocs'[current].is_fork_child = m[current].is_fork_child
      /\ vprocs'[current].fork_child_pid = m[current].fork_child_pid
      /\ vprocs'[current].at = m[current].at
      /\ vprocs'[current].arg = m[current].arg
      /\ \A p \in DOMAIN m : p # current => vprocs'[p] = m[p]
  BY <1>1, <1>2, <1>3 DEF Exited, Coroutine
<1> USE DEF parent
<1> QED
  BY <1>1, <1>3, <1>4, <1>5
-----------------------------------------------------------------------------
(***************************************************************************)
(* The core of the inductive invariant.  ReadyQueueExact alone is not      *)
(* inductive: that exit removes nothing from the queue needs               *)
(* RunningIsLive, that a resumed coroutine has not exited before needs     *)
(* that exactly the coroutines marked Done have an exit code, and that     *)
(* wake_io_ready queues no finished coroutine needs that those do not wait *)
(* for I/O.                                                                *)
(***************************************************************************)
ExitsRecorded ==
    \A p \in DOMAIN vprocs :
        /\ IsDone(p) <=> p \in DOMAIN exit_codes
        /\ IsDone(p) => vprocs[p].io_wait = "none"

\* The inductive invariant of the executor, beside its types.
QueueInv == ReadyQueueExact /\ RunningIsLive /\ ExitsRecorded

\* The coroutines that belong in the ready queue.
Runnable == {p \in DOMAIN vprocs : /\ ~IsDone(p)
                                   /\ vprocs[p].io_wait = "none"
                                   /\ p # current}

\* What the fields that matter for queueing are in a new coroutine.
LEMMA NewCoroutineFields ==
    ASSUME NEW place, NEW arg
    PROVE  /\ NewCoroutine(place, arg).done = FALSE
           /\ NewCoroutine(place, arg).io_wait = "none"
           /\ NewCoroutine(place, arg).at = place
           /\ NewCoroutine(place, arg).arg = arg
           /\ NewCoroutine(place, arg).is_fork_child = FALSE
BY DEF NewCoroutine

\* Initially nothing is queued and nothing has exited.
LEMMA InitQueue == Init => QueueInv
<1> SUFFICES ASSUME Init
             PROVE  QueueInv
  OBVIOUS
<1>1. DOMAIN << >> = {}
  BY EmptySeq, LenProperties
<1>2. DOMAIN vprocs = {} /\ DOMAIN ready_queue = {} /\ current = NoPid
  BY <1>1 DEF Init
<1> QED
  BY <1>2 DEF QueueInv, ReadyQueueExact, RunningIsLive, ExitsRecorded,
              NoDuplicates, Elems

\* Every step keeps the queue exact.
LEMMA NextQueue == TypeOK /\ QueueInv /\ [Next]_vars => QueueInv'
<1> SUFFICES ASSUME TypeOK, QueueInv, [Next]_vars
             PROVE  QueueInv'
  OBVIOUS
<1>1. /\ next_pid \in Nat \ {0}
      /\ DOMAIN vprocs \subseteq 1..(next_pid - 1)
      /\ vprocs \in [DOMAIN vprocs -> Coroutine]
      /\ ready_queue \in Seq(1..(next_pid - 1))
      /\ ready_queue \in Seq(1..next_pid)
      /\ current \in DOMAIN vprocs \cup {NoPid}
      /\ DOMAIN exit_codes \subseteq 1..(next_pid - 1)
      /\ NoPid = 0
  BY QueueGrows DEF TypeOK, NoPid
<1>2. /\ NoDuplicates(ready_queue)
      /\ Elems(ready_queue) = Runnable
  BY DEF QueueInv, ReadyQueueExact, Runnable
<1>3. /\ next_pid \notin DOMAIN vprocs /\ next_pid \notin DOMAIN exit_codes
      /\ next_pid # current
      /\ next_pid \notin Elems(ready_queue)
      /\ next_pid \in 1..next_pid
  BY <1>1, <1>2 DEF Runnable
<1>4. ASSUME NEW place \in {"closure", "user"}, Spawn(place)
      PROVE  QueueInv'
  <2>1. /\ DOMAIN vprocs' = DOMAIN vprocs \cup {next_pid}
        /\ vprocs'[next_pid].done = FALSE
        /\ vprocs'[next_pid].io_wait = "none"
        /\ \A p \in DOMAIN vprocs : vprocs'[p] = vprocs[p]
    <3>1. /\ DOMAIN vprocs' = DOMAIN vprocs \cup {next_pid}
          /\ vprocs'[next_pid] = NewCoroutine(place, NoPid)
          /\ \A p \in DOMAIN vprocs : vprocs'[p] = vprocs[p]
      BY <1>4, SpawnEffect
    <3> QED
      BY <3>1 DEF NewCoroutine
  <2>2. /\ ready_queue' = Append(ready_queue, next_pid)
        /\ current' = current /\ exit_codes' = exit_codes
    BY <1>4 DEF Spawn
  <2>3. /\ NoDuplicates(ready_queue')
        /\ Elems(ready_queue') = Elems(ready_queue) \cup {next_pid}
    BY <1>1, <1>2, <1>3, <2>2, PushBack
  <2>4. Runnable' = Runnable \cup {next_pid}
    BY <1>3, <2>1, <2>2 DEF Runnable, IsDone
  <2>5. RunningIsLive'
    BY <1>1, <2>1, <2>2 DEF QueueInv, RunningIsLive, IsDone
  <2>6. ExitsRecorded'
    BY <1>3, <2>1, <2>2 DEF QueueInv, ExitsRecorded, IsDone
  <2> QED
    BY <1>2, <2>3, <2>4, <2>5, <2>6 DEF QueueInv, ReadyQueueExact, Runnable
<1>5. ASSUME NEW place \in {"closure", "user"}, Execve(place)
      PROVE  QueueInv'
  <2>1. /\ current \in DOMAIN vprocs
        /\ DOMAIN vprocs' = DOMAIN vprocs \cup {next_pid}
        /\ vprocs'[next_pid].done = FALSE
        /\ vprocs'[next_pid].io_wait = "none"
        /\ vprocs'[current].done = TRUE
        /\ vprocs'[current].io_wait = vprocs[current].io_wait
        /\ \A p \in DOMAIN vprocs : p # current => vprocs'[p] = vprocs[p]
    <3>1. /\ current \in DOMAIN vprocs
          /\ DOMAIN vprocs' = DOMAIN vprocs \cup {next_pid}
          /\ vprocs'[next_pid] = NewCoroutine(place, NoPid)
          /\ vprocs'[current] = [vprocs[current] EXCEPT !.done = TRUE, !.exit_code = 0]
          /\ \A p \in DOMAIN vprocs : p # current => vprocs'[p] = vprocs[p]
      BY <1>5, ExecveEffect
    <3> QED
      BY <1>1, <3>1 DEF Coroutine, NewCoroutine
  <2>2. /\ ready_queue' = Append(ready_queue, next_pid)
        /\ current' = NoPid
        /\ DOMAIN exit_codes' = DOMAIN exit_codes \cup {current}
    BY <1>5, InsertMap DEF Execve, BackToDriver
  <2>3. /\ NoDuplicates(ready_queue')
        /\ Elems(ready_queue') = Elems(ready_queue) \cup {next_pid}
    BY <1>1, <1>2, <1>3, <2>2, PushBack
  <2>4. NoPid \notin DOMAIN vprocs'
    BY <1>1, <2>1
  <2>5. Runnable' = Runnable \cup {next_pid}
    BY <1>3, <2>1, <2>2, <2>4 DEF Runnable, IsDone
  <2>6. RunningIsLive'
    BY <2>2 DEF RunningIsLive
  <2>7. ExitsRecorded'
    BY <1>1, <1>3, <2>1, <2>2 DEF QueueInv, ExitsRecorded, RunningIsLive, IsDone
  <2> QED
    BY <1>2, <2>3, <2>5, <2>6, <2>7 DEF QueueInv, ReadyQueueExact, Runnable
<1>6. ASSUME DoYield \/ WaitpidYield
      PROVE  QueueInv'
  <2>1. /\ current \in DOMAIN vprocs /\ current # NoPid
        /\ vprocs' = vprocs /\ current' = NoPid /\ exit_codes' = exit_codes
        /\ ready_queue' = Requeued(ready_queue)
    BY <1>1, <1>6 DEF DoYield, WaitpidYield, InUser, AtWaitpid, BackToDriver
  <2>2. ~IsDone(current) /\ vprocs[current].io_wait = "none"
    BY <2>1 DEF QueueInv, RunningIsLive
  <2>3. ready_queue' = Append(ready_queue, current)
    BY <2>1, <2>2 DEF Requeued
  <2>4. current \notin Elems(ready_queue) /\ current \in 1..next_pid
    BY <1>1, <1>2, <2>1 DEF Runnable
  <2>5. /\ NoDuplicates(ready_queue')
        /\ Elems(ready_queue') = Elems(ready_queue) \cup {current}
    BY <1>1, <1>2, <2>3, <2>4, PushBack
  <2>6. NoPid \notin DOMAIN vprocs
    BY <1>1
  <2>7. Runnable' = Runnable \cup {current}
    BY <2>1, <2>2, <2>6 DEF Runnable, IsDone
  <2>8. RunningIsLive' /\ ExitsRecorded'
    BY <2>1 DEF QueueInv, RunningIsLive, ExitsRecorded, IsDone
  <2> QED
    BY <1>2, <2>5, <2>7, <2>8 DEF QueueInv, ReadyQueueExact, Runnable
<1>7. ASSUME NEW w \in Waits, YieldForIo(w)
      PROVE  QueueInv'
  <2>1. w # "none"
    BY ExecutorAssumption
  <2>2. /\ current \in DOMAIN vprocs /\ current # NoPid
        /\ current' = NoPid /\ exit_codes' = exit_codes /\ ready_queue' = ready_queue
    BY <1>1, <1>7 DEF YieldForIo, InUser, BackToDriver
  <2>3. /\ DOMAIN vprocs' = DOMAIN vprocs
        /\ vprocs'[current].done = vprocs[current].done
        /\ vprocs'[current].io_wait = w
        /\ \A p \in DOMAIN vprocs : p # current => vprocs'[p] = vprocs[p]
    BY <1>1, <1>7, <2>2 DEF YieldForIo, Coroutine
  <2>4. NoPid \notin DOMAIN vprocs
    BY <1>1
  <2>5. Runnable' = Runnable
    BY <2>1, <2>2, <2>3, <2>4 DEF Runnable, IsDone
  <2>6. RunningIsLive'
    BY <2>2 DEF RunningIsLive
  <2>7. ExitsRecorded'
    BY <2>2, <2>3 DEF QueueInv, RunningIsLive, ExitsRecorded, IsDone
  <2> QED
    BY <1>2, <2>2, <2>5, <2>6, <2>7 DEF QueueInv, ReadyQueueExact, Runnable
<1>8. ASSUME NEW code \in Int, Exit(code)
      PROVE  QueueInv'
  <2>1. /\ current \in DOMAIN vprocs
        /\ DOMAIN vprocs' = DOMAIN vprocs
        /\ vprocs'[current].done = TRUE
        /\ vprocs'[current].io_wait = vprocs[current].io_wait
        /\ \A p \in DOMAIN vprocs : p # current => vprocs'[p] = vprocs[p]
    BY <1>1, <1>8, ExitEffect DEF Coroutine
  <2>2. /\ current' = NoPid /\ ready_queue' = ready_queue
        /\ DOMAIN exit_codes' = DOMAIN exit_codes \cup {current}
    BY <1>8, InsertMap DEF Exit, BackToDriver
  <2>3. NoPid \notin DOMAIN vprocs
    BY <1>1
  <2>4. Runnable' = Runnable
    BY <2>1, <2>2, <2>3 DEF Runnable, IsDone
  <2>5. RunningIsLive'
    BY <2>2 DEF RunningIsLive
  <2>6. ExitsRecorded'
    BY <1>1, <2>1, <2>2 DEF QueueInv, ExitsRecorded, RunningIsLive, IsDone
  <2> QED
    BY <1>2, <2>2, <2>4, <2>5, <2>6 DEF QueueInv, ReadyQueueExact, Runnable
<1>9. ASSUME /\ DOMAIN vprocs' = DOMAIN vprocs
             /\ \A p \in DOMAIN vprocs : /\ vprocs'[p].done = vprocs[p].done
                                         /\ vprocs'[p].io_wait = vprocs[p].io_wait
             /\ UNCHANGED << ready_queue, current, exit_codes >>
      PROVE  QueueInv'
  <2>1. Runnable' = Runnable
    BY <1>9 DEF Runnable, IsDone
  <2>2. RunningIsLive'
    BY <1>1, <1>9 DEF QueueInv, RunningIsLive, IsDone
  <2>3. ExitsRecorded'
    BY <1>9 DEF QueueInv, ExitsRecorded, IsDone
  <2> QED
    BY <1>2, <1>9, <2>1, <2>2, <2>3 DEF QueueInv, ReadyQueueExact, Runnable
<1>10. ASSUME NEW p, NEW sig, Kill(p, sig)
       PROVE  QueueInv'
  <2>1. /\ DOMAIN vprocs' = DOMAIN vprocs
        /\ \A q \in DOMAIN vprocs : /\ vprocs'[q].done = vprocs[q].done
                                    /\ vprocs'[q].io_wait = vprocs[q].io_wait
        /\ UNCHANGED << ready_queue, current, exit_codes >>
    BY <1>1, <1>10 DEF Kill, Coroutine
  <2> QED
    BY <1>9, <2>1
<1>11. ASSUME NEW m, m \in [DOMAIN vprocs -> Coroutine], current \in DOMAIN vprocs,
              \A q \in DOMAIN vprocs : /\ m[q].done = vprocs[q].done
                                       /\ m[q].io_wait = vprocs[q].io_wait,
              NEW place \in Places, NEW arg \in Nat,
              vprocs' = MovedTo(m, place, arg),
              UNCHANGED << ready_queue, current, exit_codes >>
       PROVE  QueueInv'
  <2>1. DOMAIN m = DOMAIN vprocs
    BY <1>11
  <2>2. /\ DOMAIN MovedTo(m, place, arg) = DOMAIN m
        /\ MovedTo(m, place, arg)[current].done = m[current].done
        /\ MovedTo(m, place, arg)[current].io_wait = m[current].io_wait
        /\ \A p \in DOMAIN m : p # current => MovedTo(m, place, arg)[p] = m[p]
    BY <1>11, <2>1, MovedToType
  <2> QED
    BY <1>9, <1>11, <2>1, <2>2
<1>12. ASSUME NEW p \in DOMAIN vprocs, WaitpidEnter(p)
       PROVE  QueueInv'
  <2>1. current \in DOMAIN vprocs /\ p \in Nat /\ "waitpid" \in Places
    BY <1>1, <1>12 DEF WaitpidEnter, InUser, Places
  <2> QED
    BY <1>1, <1>11, <1>12, <2>1 DEF WaitpidEnter
<1>13. ASSUME WaitpidReturn
       PROVE  QueueInv'
  <2>1. current \in DOMAIN vprocs /\ NoPid \in Nat /\ "user" \in Places
    BY <1>1, <1>13 DEF WaitpidReturn, AtWaitpid, Places
  <2> QED
    BY <1>1, <1>11, <1>13, <2>1 DEF WaitpidReturn
<1>14. ASSUME ForkReturn
       PROVE  QueueInv'
  <2>1. current \in DOMAIN vprocs /\ NoPid \in Nat /\ "user" \in Places
    BY <1>1, <1>14 DEF ForkReturn, Places
  <2> DEFINE m == [vprocs EXCEPT ![current].is_fork_child = FALSE]
  <2>2. /\ m \in [DOMAIN vprocs -> Coroutine]
        /\ \A q \in DOMAIN vprocs : /\ m[q].done = vprocs[q].done
                                    /\ m[q].io_wait = vprocs[q].io_wait
    BY <1>1, <2>1 DEF Coroutine
  <2>3. /\ vprocs' = MovedTo(m, "user", NoPid)
        /\ UNCHANGED << ready_queue, current, exit_codes >>
    BY <1>14 DEF ForkReturn
  <2> HIDE DEF m
  <2> QED
    BY <1>11, <2>1, <2>2, <2>3
<1>15. ASSUME ForkCall
       PROVE  QueueInv'
  <2>1. /\ current \in DOMAIN vprocs /\ current # NoPid
        /\ DOMAIN vprocs' = DOMAIN vprocs \cup {next_pid}
        /\ vprocs'[next_pid] = NewCoroutine("helper", current)
        /\ vprocs'[current] = [vprocs[current] EXCEPT !.at = "fork", !.arg = next_pid]
        /\ \A p \in DOMAIN vprocs : p # current => vprocs'[p] = vprocs[p]
    BY <1>15, ForkCallEffect DEF ForkCall, InUser
  <2>2. /\ vprocs'[next_pid].done = FALSE
        /\ vprocs'[next_pid].io_wait = "none"
        /\ vprocs'[current].done = vprocs[current].done
        /\ vprocs'[current].io_wait = vprocs[current].io_wait
    BY <1>1, <2>1 DEF Coroutine, NewCoroutine
  <2>3. ~IsDone(current) /\ vprocs[current].io_wait = "none"
    BY <2>1 DEF QueueInv, RunningIsLive
  <2> DEFINE q == << next_pid >> \o ready_queue
  <2>4. /\ ready_queue' = Append(q, current)
        /\ current' = NoPid /\ exit_codes' = exit_codes
    BY <1>15, <2>3 DEF ForkCall, Requeued, BackToDriver
  <2>5. /\ q \in Seq(1..next_pid)
        /\ NoDuplicates(q)
        /\ Elems(q) = Elems(ready_queue) \cup {next_pid}
    BY <1>1, <1>2, <1>3, PushFront
  <2>6. current \notin Elems(q) /\ current \in 1..next_pid
    BY <1>1, <1>2, <1>3, <2>1, <2>5, SMTT(60) DEF Runnable
  <2> HIDE DEF q
  <2>7. /\ NoDuplicates(ready_queue')
        /\ Elems(ready_queue') = Elems(q) \cup {current}
    <3>1. /\ NoDuplicates(Append(q, current))
          /\ Elems(Append(q, current)) = Elems(q) \cup {current}
      <4> DEFINE S == 1..next_pid
      <4>1. /\ q \in Seq(S) /\ NoDuplicates(q)
            /\ current \in S /\ current \notin Elems(q)
        BY <2>5, <2>6
      <4> HIDE DEF S
      <4> QED
        BY <4>1, PushBack
    <3> QED
      BY <2>4, <3>1
  <2>8. NoPid \notin DOMAIN vprocs'
    BY <1>1, <2>1
  <2>9. Runnable' = Runnable \cup {next_pid, current}
    BY <1>3, <2>1, <2>2, <2>3, <2>4, <2>8 DEF Runnable, IsDone
  <2>10. RunningIsLive'
    BY <2>4 DEF RunningIsLive
  <2>11. ExitsRecorded'
    BY <1>3, <2>1, <2>2, <2>4 DEF QueueInv, ExitsRecorded, IsDone
  <2> QED
    BY <1>2, <2>5, <2>7, <2>9, <2>10, <2>11 DEF QueueInv, ReadyQueueExact, Runnable
<1>16. ASSUME HelperRun
       PROVE  QueueInv'
  <2>1. /\ current \in DOMAIN vprocs /\ current # NoPid
        /\ ready_queue' = Append(ready_queue, next_pid)
        /\ DOMAIN exit_codes' = DOMAIN exit_codes \cup {current}
        /\ current' = NoPid
    BY <1>1, <1>16, InsertMap DEF HelperRun, BackToDriver
  <2>2. /\ DOMAIN vprocs' = DOMAIN vprocs \cup {next_pid}
        /\ vprocs'[next_pid].done = FALSE
        /\ vprocs'[next_pid].io_wait = "none"
        /\ vprocs'[current].done = TRUE
        /\ \A p \in DOMAIN vprocs : /\ p # current => vprocs'[p].done = vprocs[p].done
                                    /\ vprocs'[p].io_wait = vprocs[p].io_wait
    BY <1>1, <1>16, HelperRunEffect
  <2>3. /\ NoDuplicates(ready_queue')
        /\ Elems(ready_queue') = Elems(ready_queue) \cup {next_pid}
    BY <1>1, <1>2, <1>3, <2>1, PushBack
  <2>4. NoPid \notin DOMAIN vprocs'
    BY <1>1, <2>2
  <2>5. Runnable' = Runnable \cup {next_pid}
    BY <1>3, <2>1, <2>2, <2>4 DEF Runnable, IsDone
  <2>6. RunningIsLive'
    BY <2>1 DEF RunningIsLive
  <2>7. ExitsRecorded'
    <3>1. vprocs[current].io_wait = "none"
      BY <2>1 DEF QueueInv, RunningIsLive
    <3> QED
      BY <1>1, <1>3, <2>1, <2>2, <3>1 DEF QueueInv, ExitsRecorded, IsDone
  <2> QED
    BY <1>2, <2>3, <2>5, <2>6, <2>7 DEF QueueInv, ReadyQueueExact, Runnable
<1>17. ASSUME Step
       PROVE  QueueInv'
  <2>1. PICK i \in DOMAIN ready_queue :
          /\ PickNext(i)
          /\ ready_queue' = SubSeq(ready_queue, i + 1, Len(ready_queue))
          /\ current' = ready_queue[i]
          /\ \E co \in DeliverSignals(vprocs[ready_queue[i]]) :
               vprocs' = [vprocs EXCEPT ![ready_queue[i]] = Resumed(co)]
    BY <1>17 DEF Step
  <2>2. \A j \in DOMAIN ready_queue : ready_queue[j] \in Runnable
    BY <1>2 DEF Elems
  <2>3. i = 1
    <3>1. DOMAIN ready_queue = 1..Len(ready_queue) /\ Len(ready_queue) \in Nat
      BY <1>1, LenProperties
    <3>2. ASSUME i # 1
          PROVE  FALSE
      <4>1. 1 \in DOMAIN ready_queue /\ 1 \in 1..(i - 1)
        BY <3>1, <3>2
      <4>2. ~Live(ready_queue[1])
        BY <2>1, <4>1 DEF PickNext
      <4> QED
        BY <2>2, <4>1, <4>2 DEF Live, Runnable
    <3> QED
      BY <3>2
  <2> DEFINE p == ready_queue[i]
  <2>4. /\ NoDuplicates(ready_queue')
        /\ Elems(ready_queue') = Elems(ready_queue) \ {p}
    BY <1>1, <1>2, <2>1, <2>3, PopFront
  <2>5. p \in Runnable /\ p \in DOMAIN vprocs /\ ~vprocs[p].done
        /\ vprocs[p].io_wait = "none"
    BY <2>2 DEF Runnable, IsDone
  <2>6. PICK co \in DeliverSignals(vprocs[p]) : vprocs' = [vprocs EXCEPT ![p] = Resumed(co)]
    BY <2>1
  <2>7. current = NoPid /\ current' = p /\ exit_codes' = exit_codes
    BY <1>17, <2>1 DEF Step
  <2> HIDE DEF p
  <2>8. /\ Resumed(co).done = FALSE
        /\ Resumed(co).io_wait = "none"
    BY <1>1, <2>5, ResumedType
  <2>9. /\ DOMAIN vprocs' = DOMAIN vprocs
        /\ vprocs'[p].done = FALSE
        /\ vprocs'[p].io_wait = "none"
        /\ \A q \in DOMAIN vprocs : q # p => vprocs'[q] = vprocs[q]
    BY <1>1, <2>5, <2>6, <2>8
  <2>10. NoPid \notin DOMAIN vprocs
    BY <1>1
  <2>11. Runnable' = Runnable \ {p}
    BY <2>5, <2>7, <2>9, <2>10 DEF Runnable, IsDone
  <2>12. p \notin DOMAIN exit_codes
    BY <2>5 DEF QueueInv, ExitsRecorded, IsDone
  <2>13. RunningIsLive'
    BY <2>7, <2>9, <2>12 DEF RunningIsLive, IsDone
  <2>14. ExitsRecorded'
    BY <2>7, <2>9, <2>12 DEF QueueInv, ExitsRecorded, IsDone
  <2> QED
    BY <1>2, <2>4, <2>11, <2>13, <2>14 DEF QueueInv, ReadyQueueExact, Runnable
<1>18. ASSUME Reap
       PROVE  QueueInv'
  <2>1. /\ current = NoPid
        /\ UNCHANGED << ready_queue, current, exit_codes >>
        /\ DOMAIN vprocs' = DOMAIN vprocs \ DonePids
        /\ \A p \in DOMAIN vprocs \ DonePids : vprocs'[p] = vprocs[p]
    BY <1>18 DEF Reap
  <2>2. Runnable' = Runnable
    BY <2>1 DEF Runnable, DonePids, IsDone
  <2>3. RunningIsLive' /\ ExitsRecorded'
    BY <2>1 DEF QueueInv, RunningIsLive, ExitsRecorded, IsDone
  <2> QED
    BY <1>2, <2>1, <2>2, <2>3 DEF QueueInv, ReadyQueueExact, Runnable
<1>19. ASSUME PollAndWake
       PROVE  QueueInv'
  <2>1. PICK R \in SUBSET FdWaiters, X \in SUBSET DeadlineWaiters : WakeIoReady(R \cup X)
    BY <1>19 DEF PollAndWake
  <2> DEFINE W == R \cup X
  <2>2. \A p \in W : p \in DOMAIN vprocs /\ vprocs[p].io_wait # "none"
    BY DEF FdWaiters, DeadlineWaiters, FdWaits, DeadlineWaits
  <2>3. /\ WakeIoReady(W)
        /\ current = NoPid
        /\ UNCHANGED << current, exit_codes >>
    BY <1>19, <2>1 DEF PollAndWake
  <2> HIDE DEF W
  <2>4. W \cap Elems(ready_queue) = {} /\ W \ Elems(ready_queue) = W
    BY <1>2, <2>2 DEF Runnable
  <2>5. W \in SUBSET (1..(next_pid - 1))
    BY <1>1, <2>2
  <2>6. IsFiniteSet(W)
    <3>1. 1 \in Int /\ next_pid - 1 \in Int
      BY <1>1
    <3>2. IsFiniteSet(1..(next_pid - 1))
      BY <3>1, FS_Interval
    <3> QED
      BY <2>5, <3>2, FS_Subset
  <2>7. PICK s \in Orders(W) : ready_queue' = ready_queue \o s
    BY <2>3, <2>4 DEF WakeIoReady
  <2>8. /\ NoDuplicates(ready_queue')
        /\ Elems(ready_queue') = Elems(ready_queue) \cup W
    <3>1. /\ NoDuplicates(ready_queue \o s)
          /\ Elems(ready_queue \o s) = Elems(ready_queue) \cup W
      BY <1>1, <1>2, <2>4, <2>5, <2>6, PushAll
    <3> QED
      BY <2>7, <3>1
  <2>9. /\ DOMAIN vprocs' = DOMAIN vprocs
        /\ \A p \in DOMAIN vprocs : /\ vprocs'[p].done = vprocs[p].done
                                    /\ p \in W => vprocs'[p].io_wait = "none"
                                    /\ p \notin W => vprocs'[p] = vprocs[p]
    BY <1>1, <2>3 DEF WakeIoReady, Coroutine
  <2>10. \A p \in W : ~vprocs[p].done /\ p # current
    BY <1>1, <2>2, <2>3, SMTT(60) DEF QueueInv, ExitsRecorded, IsDone
  <2>11. Runnable' = Runnable \cup W
    BY <2>2, <2>3, <2>9, <2>10 DEF Runnable, IsDone
  <2>12. RunningIsLive' /\ ExitsRecorded'
    BY <2>2, <2>3, <2>9 DEF QueueInv, RunningIsLive, ExitsRecorded, IsDone
  <2> QED
    BY <1>2, <2>8, <2>11, <2>12 DEF QueueInv, ReadyQueueExact, Runnable
<1>20. ASSUME NEW sig \in Signals, Raise(sig)
       PROVE  QueueInv'
  <2>1. 128 + sig \in Int
    BY ExecutorAssumption
  <2> QED
    BY <1>8, <1>10, <1>20, <2>1 DEF Raise
<1>21. ASSUME UNCHANGED vars
       PROVE  QueueInv'
  BY <1>9, <1>21 DEF vars
<1> QED
  BY <1>4, <1>5, <1>6, <1>7, <1>8, <1>10, <1>12, <1>13, <1>14, <1>15, <1>16, <1>17,
     <1>18, <1>19, <1>20, <1>21, ExecutorAssumption DEF Next, SwitchOut, KeepRunning

\* The ready queue is always exact: no coroutine is lost, queued twice, or
\* queued when it cannot run.
THEOREM QueueIsExact == Spec => []ReadyQueueExact
<1>1. TypeOK /\ QueueInv /\ [Next]_vars => (TypeOK /\ QueueInv)'
  BY NextType, NextQueue
<1>2. Init => TypeOK /\ QueueInv
  BY InitType, InitQueue
<1>3. QueueInv => ReadyQueueExact
  BY DEF QueueInv
<1> QED
  BY <1>1, <1>2, <1>3, PTL DEF Spec

\* The coroutine that runs has not exited and does not wait for I/O.
THEOREM RunningCoroutineIsLive == Spec => []RunningIsLive
<1>1. TypeOK /\ QueueInv /\ [Next]_vars => (TypeOK /\ QueueInv)'
  BY NextType, NextQueue
<1>2. Init => TypeOK /\ QueueInv
  BY InitType, InitQueue
<1>3. QueueInv => RunningIsLive
  BY DEF QueueInv
<1> QED
  BY <1>1, <1>2, <1>3, PTL DEF Spec
-----------------------------------------------------------------------------
(***************************************************************************)
(* Exit codes.                                                             *)
(***************************************************************************)

\* No step changes or forgets a recorded exit code: exit records only the code
\* of the running coroutine, which has none yet.
LEMMA CodesKept ==
    ASSUME TypeOK, QueueInv, [Next]_vars
    PROVE  /\ DOMAIN exit_codes \subseteq DOMAIN exit_codes'
           /\ \A p \in DOMAIN exit_codes : exit_codes'[p] = exit_codes[p]
<1>1. ASSUME NEW code, current # NoPid, exit_codes' = Insert(exit_codes, current, code)
      PROVE  /\ DOMAIN exit_codes \subseteq DOMAIN exit_codes'
             /\ \A p \in DOMAIN exit_codes : exit_codes'[p] = exit_codes[p]
  <2>1. current \notin DOMAIN exit_codes
    BY <1>1 DEF QueueInv, RunningIsLive
  <2> QED
    BY <1>1, <2>1 DEF Insert
<1>2. ASSUME NEW code, Exit(code)
      PROVE  current # NoPid /\ exit_codes' = Insert(exit_codes, current, code)
  BY <1>2 DEF Exit, InUser
<1>3. ASSUME NEW place, Execve(place)
      PROVE  current # NoPid /\ exit_codes' = Insert(exit_codes, current, 0)
  BY <1>3 DEF Execve, InUser
<1>4. ASSUME HelperRun
      PROVE  current # NoPid /\ exit_codes' = Insert(exit_codes, current, 0)
  BY <1>4 DEF HelperRun
<1>5. ASSUME NEW sig, Raise(sig)
      PROVE  exit_codes' = exit_codes \/ Exit(128 + sig)
  BY <1>5 DEF Raise, Kill
<1>6. \/ exit_codes' = exit_codes
      \/ \E code : Exit(code)
      \/ \E place : Execve(place)
      \/ HelperRun
  BY <1>5 DEF Next, SwitchOut, KeepRunning, vars, Spawn, DoYield, YieldForIo,
              WaitpidYield, ForkCall, Kill, WaitpidEnter, WaitpidReturn, ForkReturn,
              Step, Reap, PollAndWake
<1> QED
  BY <1>1, <1>2, <1>3, <1>4, <1>6

\* Exit codes are final, for every instance: get_exit_code gives the same answer
\* for ever, and no pid with an exit code is live again.
THEOREM ExitCodesStayFinal == Spec => ExitCodesAreFinal
<1>1. TypeOK /\ QueueInv /\ [Next]_vars => (TypeOK /\ QueueInv)'
  BY NextType, NextQueue
<1>2. Init => TypeOK /\ QueueInv
  BY InitType, InitQueue
<1>3. ASSUME TypeOK, QueueInv, [Next]_vars
      PROVE  \A p \in DOMAIN exit_codes :
                 /\ p \in DOMAIN exit_codes'
                 /\ exit_codes'[p] = exit_codes[p]
                 /\ p \in DOMAIN vprocs' => vprocs'[p].done
  <2>1. ExitsRecorded'
    BY <1>1, <1>3 DEF QueueInv
  <2> QED
    BY <1>3, <2>1, CodesKept DEF ExitsRecorded, IsDone
<1> QED
  BY <1>1, <1>2, <1>3, PTL DEF Spec, ExitCodesAreFinal
-----------------------------------------------------------------------------
(***************************************************************************)
(* Fork.  A live helper of vproc_ffi_fork is the next coroutine to run, or *)
(* runs, so there is one at most, and the caller of its fork is suspended  *)
(* in that call.  A coroutine in the yield of fork has its helper still to *)
(* run, or has the child that the helper made.                             *)
(***************************************************************************)
HelperIsNext(h) ==
    \/ current = h
    \/ current = NoPid /\ ready_queue # << >> /\ ready_queue[1] = h

\* The caller of helper h's fork is in the yield of that call.
CallerSuspended(h) ==
    LET parent == vprocs[h].arg
    IN  /\ parent \in DOMAIN vprocs
        /\ ~IsDone(parent)
        /\ vprocs[parent].at = "fork"
        /\ vprocs[parent].arg = h
        /\ ~vprocs[parent].is_fork_child

\* The helper of p's fork is still to run.
HelperPending(p) ==
    LET h == vprocs[p].arg
    IN  /\ h \in DOMAIN vprocs
        /\ ~IsDone(h)
        /\ vprocs[h].at = "helper"
        /\ vprocs[h].arg = p

\* p's fork has made a child, which lives or whose exit is recorded.
HasForkChild(p) ==
    LET child == vprocs[p].fork_child_pid
    IN  /\ child > vprocs[p].arg
        /\ child \in DOMAIN vprocs \cup DOMAIN exit_codes
        /\ child \in DOMAIN vprocs => vprocs[child].ppid = p

\* The inductive invariant.
ForkInv ==
    \A p \in DOMAIN vprocs : ~IsDone(p) =>
        /\ vprocs[p].at = "helper" => HelperIsNext(p) /\ CallerSuspended(p)
        /\ (vprocs[p].at = "fork" /\ ~vprocs[p].is_fork_child) =>
              HelperPending(p) \/ HasForkChild(p)

\* The helpers that are still to run, or run.
LiveHelpers == {p \in DOMAIN vprocs : ~IsDone(p) /\ vprocs[p].at = "helper"}

\* While some other coroutine runs, no helper is live.
LEMMA NoHelperBesides ==
    ASSUME TypeOK, ForkInv, current # NoPid, NEW h \in LiveHelpers
    PROVE  h = current
BY DEF ForkInv, LiveHelpers, HelperIsNext

\* The caller whose helper is live does not run.
LEMMA CallerDoesNotRun ==
    ASSUME TypeOK, ForkInv, NEW h \in LiveHelpers
    PROVE  /\ vprocs[h].arg # current
           /\ vprocs[h].arg \in DOMAIN vprocs
           /\ vprocs[vprocs[h].arg].at = "fork"
<1>1. HelperIsNext(h) /\ CallerSuspended(h) /\ vprocs[h].at = "helper"
  BY DEF ForkInv, LiveHelpers
<1>2. NoPid \notin DOMAIN vprocs
  BY DEF TypeOK, NoPid
<1> QED
  BY <1>1, <1>2 DEF HelperIsNext, CallerSuspended

(***************************************************************************)
(* The frame of the fork invariant: it survives a step that neither makes  *)
(* nor ends a helper, keeps suspended callers as they are, forgets no pid, *)
(* and leaves the helper next in line.                                     *)
(***************************************************************************)
SameFork(p) ==
    /\ vprocs'[p].done = vprocs[p].done
    /\ vprocs'[p].at = vprocs[p].at
    /\ vprocs'[p].arg = vprocs[p].arg
    /\ vprocs'[p].is_fork_child = vprocs[p].is_fork_child
    /\ vprocs'[p].fork_child_pid = vprocs[p].fork_child_pid

\* A step that moves no process into or out of a fork keeps ForkInv.
LEMMA ForkFrame ==
    ASSUME TypeOK, ForkInv,
           \A p \in DOMAIN vprocs' :
              (~vprocs'[p].done /\ vprocs'[p].at \in {"helper", "fork"})
                 => p \in DOMAIN vprocs /\ SameFork(p),
           \A p \in DOMAIN vprocs :
              (/\ ~vprocs[p].done
               /\ \/ vprocs[p].at = "helper"
                  \/ vprocs[p].at = "fork" /\ p # current)
                 => p \in DOMAIN vprocs' /\ SameFork(p),
           DOMAIN vprocs \cup DOMAIN exit_codes
              \subseteq DOMAIN vprocs' \cup DOMAIN exit_codes',
           \A p \in DOMAIN vprocs' :
              /\ p \in DOMAIN vprocs => vprocs'[p].ppid = vprocs[p].ppid
              /\ p \in DOMAIN exit_codes => p \in DOMAIN vprocs,
           \A h \in LiveHelpers : HelperIsNext(h)'
    PROVE  ForkInv'
<1> SUFFICES ASSUME NEW p \in DOMAIN vprocs', ~vprocs'[p].done
             PROVE  /\ vprocs'[p].at = "helper" => HelperIsNext(p)' /\ CallerSuspended(p)'
                    /\ (vprocs'[p].at = "fork" /\ ~vprocs'[p].is_fork_child) =>
                          HelperPending(p)' \/ HasForkChild(p)'
  BY DEF ForkInv, IsDone
<1>1. ASSUME vprocs'[p].at = "helper"
      PROVE  HelperIsNext(p)' /\ CallerSuspended(p)'
  <2>1. p \in DOMAIN vprocs /\ SameFork(p)
    BY <1>1
  <2>2. p \in LiveHelpers
    BY <1>1, <2>1 DEF LiveHelpers, SameFork, IsDone
  <2> DEFINE parent == vprocs[p].arg
  <2>3. /\ parent # current /\ parent \in DOMAIN vprocs
        /\ vprocs[parent].at = "fork" /\ ~vprocs[parent].done
        /\ vprocs[parent].arg = p /\ ~vprocs[parent].is_fork_child
    BY <2>2, CallerDoesNotRun DEF ForkInv, LiveHelpers, CallerSuspended, IsDone
  <2>4. parent \in DOMAIN vprocs' /\ SameFork(parent)
    BY <2>3
  <2>5. vprocs'[p].arg = parent
    BY <2>1 DEF SameFork
  <2> HIDE DEF parent
  <2>6. CallerSuspended(p)'
    BY <2>3, <2>4, <2>5 DEF CallerSuspended, SameFork, IsDone
  <2> QED
    BY <2>2, <2>6
<1>2. ASSUME vprocs'[p].at = "fork", ~vprocs'[p].is_fork_child
      PROVE  HelperPending(p)' \/ HasForkChild(p)'
  <2>1. p \in DOMAIN vprocs /\ SameFork(p)
    BY <1>2
  <2>2. HelperPending(p) \/ HasForkChild(p)
    BY <1>2, <2>1 DEF ForkInv, SameFork, IsDone
  <2>3. ASSUME HelperPending(p)
        PROVE  HelperPending(p)'
    <3> DEFINE h == vprocs[p].arg
    <3>1. /\ h \in DOMAIN vprocs /\ ~vprocs[h].done
          /\ vprocs[h].at = "helper" /\ vprocs[h].arg = p
      BY <2>3 DEF HelperPending, IsDone
    <3>2. h \in DOMAIN vprocs' /\ SameFork(h)
      BY <3>1
    <3>3. vprocs'[p].arg = h
      BY <2>1 DEF SameFork
    <3> HIDE DEF h
    <3> QED
      BY <3>1, <3>2, <3>3 DEF HelperPending, SameFork, IsDone
  <2>4. ASSUME HasForkChild(p)
        PROVE  HasForkChild(p)'
    <3> DEFINE c == vprocs[p].fork_child_pid
    <3>1. /\ c > vprocs[p].arg
          /\ c \in DOMAIN vprocs \cup DOMAIN exit_codes
          /\ c \in DOMAIN vprocs => vprocs[c].ppid = p
      BY <2>4 DEF HasForkChild
    <3>2. vprocs'[p].fork_child_pid = c /\ vprocs'[p].arg = vprocs[p].arg
      BY <2>1 DEF SameFork
    <3> HIDE DEF c
    <3>3. c \in DOMAIN vprocs' \cup DOMAIN exit_codes'
      BY <3>1
    <3>4. c \in DOMAIN vprocs' => vprocs'[c].ppid = p
      BY <3>1
    <3> QED
      BY <3>1, <3>2, <3>3, <3>4 DEF HasForkChild
  <2> QED
    BY <2>2, <2>3, <2>4
<1> QED
  BY <1>1, <1>2

\* Initially nothing forks.
LEMMA InitFork == Init => ForkInv
<1> SUFFICES ASSUME Init
             PROVE  ForkInv
  OBVIOUS
<1>1. DOMAIN << >> = {}
  BY EmptySeq, LenProperties
<1> QED
  BY <1>1 DEF Init, ForkInv

\* Every step keeps the fork invariant.
LEMMA NextFork == TypeOK /\ QueueInv /\ ForkInv /\ [Next]_vars => ForkInv'
<1> SUFFICES ASSUME TypeOK, QueueInv, ForkInv, [Next]_vars
             PROVE  ForkInv'
  OBVIOUS
<1>1. /\ next_pid \in Nat \ {0}
      /\ DOMAIN vprocs \subseteq 1..(next_pid - 1)
      /\ vprocs \in [DOMAIN vprocs -> Coroutine]
      /\ ready_queue \in Seq(1..(next_pid - 1))
      /\ current \in DOMAIN vprocs \cup {NoPid}
      /\ DOMAIN exit_codes \subseteq 1..(next_pid - 1)
      /\ NoPid = 0
      /\ next_pid \notin DOMAIN vprocs /\ next_pid \notin DOMAIN exit_codes
  BY DEF TypeOK, NoPid
<1>2. DOMAIN exit_codes \subseteq DOMAIN exit_codes'
  BY CodesKept
<1>3. ASSUME current # NoPid, vprocs[current].at # "helper"
      PROVE  LiveHelpers = {}
  BY <1>3, NoHelperBesides DEF LiveHelpers
\* A helper at the front stays there while the driver pushes at the back.
<1>4. ASSUME current' = current,
             ready_queue # << >> => ready_queue' # << >> /\ ready_queue'[1] = ready_queue[1]
      PROVE  \A h \in LiveHelpers : HelperIsNext(h)'
  BY <1>4 DEF ForkInv, LiveHelpers, HelperIsNext
<1>5. ASSUME NEW x
      PROVE  ready_queue # << >> =>
               Append(ready_queue, x) # << >> /\ Append(ready_queue, x)[1] = ready_queue[1]
  <2> SUFFICES ASSUME ready_queue # << >>
               PROVE  Append(ready_queue, x) # << >> /\ Append(ready_queue, x)[1] = ready_queue[1]
    OBVIOUS
  <2>1. Len(ready_queue) \in Nat /\ Len(ready_queue) > 0
    BY <1>1, EmptySeq, LenProperties
  <2> QED
    BY <1>1, <2>1
<1>6. ASSUME NEW place \in {"closure", "user"}, Spawn(place)
      PROVE  ForkInv'
  <2>1. /\ DOMAIN vprocs' = DOMAIN vprocs \cup {next_pid}
        /\ vprocs'[next_pid] = NewCoroutine(place, NoPid)
        /\ \A p \in DOMAIN vprocs : vprocs'[p] = vprocs[p]
    BY <1>6, SpawnEffect
  <2>2. vprocs'[next_pid].at = place
    BY <2>1 DEF NewCoroutine
  <2>3. \A h \in LiveHelpers : HelperIsNext(h)'
    BY <1>4, <1>5, <1>6 DEF Spawn
  <2> QED
    BY <1>1, <1>2, <2>1, <2>2, <2>3, ForkFrame DEF SameFork
<1>7. ASSUME NEW place \in {"closure", "user"}, Execve(place)
      PROVE  ForkInv'
  <2>1. /\ current \in DOMAIN vprocs
        /\ DOMAIN vprocs' = DOMAIN vprocs \cup {next_pid}
        /\ vprocs'[next_pid] = NewCoroutine(place, NoPid)
        /\ vprocs'[current] = [vprocs[current] EXCEPT !.done = TRUE, !.exit_code = 0]
        /\ \A p \in DOMAIN vprocs : p # current => vprocs'[p] = vprocs[p]
    BY <1>7, ExecveEffect
  <2>2. /\ vprocs'[next_pid].at = place
        /\ vprocs'[current].done = TRUE
        /\ vprocs'[current].ppid = vprocs[current].ppid
    BY <1>1, <2>1 DEF Coroutine, NewCoroutine
  <2>3. LiveHelpers = {} /\ vprocs[current].at = "user"
    BY <1>3, <1>7 DEF Execve, InUser
  <2> QED
    BY <1>1, <1>2, <2>1, <2>2, <2>3, ForkFrame DEF SameFork
\* The running coroutine is in user code, in the loop of waitpid or at the
\* return of fork, and no coroutine is added or removed.
<1>8. ASSUME current # NoPid, vprocs[current].at # "helper",
             DOMAIN vprocs' = DOMAIN vprocs,
             vprocs'[current].ppid = vprocs[current].ppid,
             \/ vprocs'[current].done
             \/ vprocs'[current].at \notin {"helper", "fork"},
             vprocs[current].at # "fork" \/ current' = current,
             \A p \in DOMAIN vprocs : p # current =>
                 SameFork(p) /\ vprocs'[p].ppid = vprocs[p].ppid
      PROVE  ForkInv'
  BY <1>1, <1>2, <1>3, <1>8, ForkFrame
<1>9. ASSUME DoYield \/ WaitpidYield
      PROVE  ForkInv'
  BY <1>1, <1>8, <1>9 DEF DoYield, WaitpidYield, InUser, AtWaitpid, SameFork
<1>10. ASSUME NEW w \in Waits, YieldForIo(w)
       PROVE  ForkInv'
  <2>1. current \in DOMAIN vprocs /\ current # NoPid /\ vprocs[current].at = "user"
    BY <1>1, <1>10 DEF YieldForIo, InUser
  <2>2. /\ DOMAIN vprocs' = DOMAIN vprocs
        /\ vprocs'[current].at = vprocs[current].at
        /\ vprocs'[current].ppid = vprocs[current].ppid
        /\ \A p \in DOMAIN vprocs : p # current => vprocs'[p] = vprocs[p]
    BY <1>1, <1>10, <2>1 DEF YieldForIo, Coroutine
  <2> QED
    BY <1>8, <2>1, <2>2 DEF SameFork
<1>11. ASSUME NEW code \in Int, Exit(code)
       PROVE  ForkInv'
  <2>1. /\ current \in DOMAIN vprocs
        /\ DOMAIN vprocs' = DOMAIN vprocs
        /\ vprocs'[current] = [vprocs[current] EXCEPT !.done = TRUE, !.exit_code = code]
        /\ \A p \in DOMAIN vprocs : p # current => vprocs'[p] = vprocs[p]
    BY <1>11, ExitEffect
  <2>2. /\ vprocs'[current].done = TRUE
        /\ vprocs'[current].ppid = vprocs[current].ppid
    BY <1>1, <2>1 DEF Coroutine
  <2> QED
    BY <1>8, <1>11, <2>1, <2>2 DEF Exit, InUser, SameFork
<1>12. ASSUME NEW p \in DOMAIN vprocs, NEW sig, Kill(p, sig)
       PROVE  ForkInv'
  <2>1. /\ DOMAIN vprocs' = DOMAIN vprocs
        /\ \A q \in DOMAIN vprocs : SameFork(q) /\ vprocs'[q].ppid = vprocs[q].ppid
    BY <1>1, <1>12 DEF Kill, Coroutine, SameFork
  <2>2. current \in DOMAIN vprocs /\ current # NoPid /\ vprocs[current].at = "user"
    BY <1>1, <1>12 DEF Kill, InUser
  <2> QED
    BY <1>8, <2>1, <2>2 DEF SameFork
<1>13. ASSUME current # NoPid, vprocs[current].at # "helper", current' = current,
              NEW m, m \in [DOMAIN vprocs -> Coroutine],
              \A q \in DOMAIN vprocs : q # current => m[q] = vprocs[q],
              m[current].ppid = vprocs[current].ppid,
              NEW place \in {"user", "waitpid"}, NEW arg \in Nat,
              vprocs' = MovedTo(m, place, arg)
       PROVE  ForkInv'
  <2>1. DOMAIN m = DOMAIN vprocs /\ current \in DOMAIN m /\ place \in Places
    BY <1>1, <1>13 DEF Places
  <2>2. /\ DOMAIN MovedTo(m, place, arg) = DOMAIN m
        /\ MovedTo(m, place, arg)[current].at = place
        /\ MovedTo(m, place, arg)[current].ppid = m[current].ppid
        /\ \A p \in DOMAIN m : p # current => MovedTo(m, place, arg)[p] = m[p]
    BY <1>13, <2>1, MovedToType
  <2> QED
    BY <1>8, <1>13, <2>1, <2>2 DEF SameFork
<1>14. ASSUME NEW p \in DOMAIN vprocs, WaitpidEnter(p)
       PROVE  ForkInv'
  BY <1>1, <1>13, <1>14 DEF WaitpidEnter, InUser
<1>15. ASSUME WaitpidReturn
       PROVE  ForkInv'
  BY <1>1, <1>13, <1>15 DEF WaitpidReturn, AtWaitpid
<1>16. ASSUME ForkReturn
       PROVE  ForkInv'
  <2> DEFINE m == [vprocs EXCEPT ![current].is_fork_child = FALSE]
  <2>1. current \in DOMAIN vprocs /\ current # NoPid /\ vprocs[current].at = "fork"
    BY <1>1, <1>16 DEF ForkReturn
  <2>2. /\ m \in [DOMAIN vprocs -> Coroutine]
        /\ \A q \in DOMAIN vprocs : q # current => m[q] = vprocs[q]
        /\ m[current].ppid = vprocs[current].ppid
    BY <1>1, <2>1 DEF Coroutine
  <2>3. vprocs' = MovedTo(m, "user", NoPid) /\ current' = current
    BY <1>16 DEF ForkReturn
  <2> HIDE DEF m
  <2> QED
    BY <1>1, <1>13, <2>1, <2>2, <2>3
<1>17. ASSUME ForkCall
       PROVE  ForkInv'
  <2>1. /\ current \in DOMAIN vprocs /\ current # NoPid
        /\ vprocs[current].at = "user" /\ ~vprocs[current].is_fork_child
        /\ DOMAIN vprocs' = DOMAIN vprocs \cup {next_pid}
        /\ vprocs'[next_pid] = NewCoroutine("helper", current)
        /\ vprocs'[current] = [vprocs[current] EXCEPT !.at = "fork", !.arg = next_pid]
        /\ \A p \in DOMAIN vprocs : p # current => vprocs'[p] = vprocs[p]
    BY <1>17, ForkCallEffect DEF ForkCall, InUser
  <2>2. LiveHelpers = {} /\ ~vprocs[current].done
    BY <1>3, <2>1 DEF QueueInv, RunningIsLive, IsDone
  \* Names for the helper and the caller that a prime does not change.
  <2>3. PICK h \in Nat, c \in Nat : h = next_pid /\ c = current
    BY <1>1
  <2>4. /\ ~vprocs'[h].done /\ vprocs'[h].at = "helper" /\ vprocs'[h].arg = c
        /\ ~vprocs'[c].done /\ vprocs'[c].at = "fork" /\ vprocs'[c].arg = h
        /\ ~vprocs'[c].is_fork_child
        /\ vprocs'[c].ppid = vprocs[c].ppid
    <3>1. /\ ~vprocs'[h].done /\ vprocs'[h].at = "helper" /\ vprocs'[h].arg = c
      BY <2>1, <2>3 DEF NewCoroutine
    <3>2. vprocs[c] \in Coroutine
      BY <1>1, <2>1, <2>3
    <3>3. vprocs'[c] = [vprocs[c] EXCEPT !.at = "fork", !.arg = h]
      BY <2>1, <2>3
    <3>4. /\ vprocs'[c].done = vprocs[c].done /\ vprocs'[c].at = "fork"
          /\ vprocs'[c].arg = h /\ vprocs'[c].is_fork_child = vprocs[c].is_fork_child
          /\ vprocs'[c].ppid = vprocs[c].ppid
      BY <3>2, <3>3 DEF Coroutine
    <3> QED
      BY <2>1, <2>2, <2>3, <3>1, <3>4
  <2>5. /\ DOMAIN vprocs' = DOMAIN vprocs \cup {h}
        /\ c \in DOMAIN vprocs /\ h \notin DOMAIN vprocs /\ h \notin DOMAIN exit_codes
        /\ \A p \in DOMAIN vprocs : /\ p # c => vprocs'[p] = vprocs[p]
                                    /\ vprocs'[p].ppid = vprocs[p].ppid
    BY <1>1, <2>1, <2>3, <2>4
  <2>6. HelperIsNext(h)'
    <3> DEFINE q == << next_pid >> \o ready_queue
    <3>1. ready_queue' = Append(q, current) /\ current' = NoPid
      BY <1>17, <2>2 DEF ForkCall, Requeued, BackToDriver, IsDone
    <3>2. q \in Seq(Nat) /\ Len(q) > 0 /\ Len(q) \in Nat /\ q[1] = next_pid
      <4>1. ready_queue \in Seq(Nat) /\ << next_pid >> \in Seq(Nat)
        BY <1>1, SeqMonotonic
      <4> QED
        BY <1>1, <4>1, ConcatProperties, LenProperties
    <3>3. current \in Nat
      BY <1>1
    <3> HIDE DEF q
    <3>4. Append(q, current) # << >> /\ Append(q, current)[1] = next_pid
      BY <3>2, <3>3
    <3> QED
      BY <2>3, <3>1, <3>4 DEF HelperIsNext
  <2>7. CallerSuspended(h)' /\ HelperPending(c)'
    BY <2>4, <2>5 DEF CallerSuspended, HelperPending, IsDone
  <2>8. ASSUME NEW p \in DOMAIN vprocs, p # c, ~vprocs[p].done,
               vprocs[p].at = "fork", ~vprocs[p].is_fork_child
        PROVE  HasForkChild(p)'
    <3>1. HasForkChild(p)
      BY <2>2, <2>8 DEF ForkInv, HelperPending, LiveHelpers, IsDone
    <3> QED
      BY <1>2, <2>5, <2>8, <3>1 DEF HasForkChild
  <2>9. \A p \in DOMAIN vprocs : vprocs[p].at = "helper" => vprocs[p].done
    BY <2>2 DEF LiveHelpers, IsDone
  <2> QED
    BY <2>4, <2>5, <2>6, <2>7, <2>8, <2>9 DEF ForkInv, IsDone
<1>18. ASSUME HelperRun
       PROVE  ForkInv'
  \* Names for the caller and the helper that a prime does not change.
  <2>0. PICK parent \in Nat, h \in Nat :
          parent = vprocs[current].arg /\ h = current
    BY <1>1, <1>18 DEF HelperRun, Coroutine
  <2>1. /\ current \in DOMAIN vprocs /\ current # NoPid
        /\ vprocs[current].at = "helper" /\ ~vprocs[current].done
    BY <1>1, <1>18 DEF HelperRun, QueueInv, RunningIsLive, IsDone
  <2>2. /\ parent \in DOMAIN vprocs
        /\ DOMAIN vprocs' = DOMAIN vprocs \cup {next_pid}
        /\ vprocs'[next_pid].ppid = parent
        /\ vprocs'[next_pid].is_fork_child = TRUE
        /\ vprocs'[next_pid].at = vprocs[parent].at
        /\ vprocs'[current].done = TRUE
        /\ vprocs'[parent].fork_child_pid = next_pid
        /\ \A p \in DOMAIN vprocs :
             /\ p # current => vprocs'[p].done = vprocs[p].done
             /\ vprocs'[p].ppid = vprocs[p].ppid
             /\ vprocs'[p].is_fork_child = vprocs[p].is_fork_child
             /\ vprocs'[p].at = vprocs[p].at
             /\ vprocs'[p].arg = vprocs[p].arg
             /\ p # parent => vprocs'[p].fork_child_pid = vprocs[p].fork_child_pid
    BY <1>18, <2>0, HelperRunEffect
  <2>3. current \in LiveHelpers
    BY <2>1 DEF LiveHelpers, IsDone
  <2>4. /\ vprocs[parent].at = "fork" /\ vprocs[parent].arg = current
        /\ ~vprocs[parent].done /\ parent # current
    BY <2>0, <2>1, <2>3 DEF ForkInv, CallerSuspended, IsDone
  <2>5. HasForkChild(parent)'
    BY <1>1, <2>0, <2>1, <2>2, <2>4 DEF HasForkChild
  <2>6. ASSUME NEW p \in DOMAIN vprocs, p # parent, p # current, ~vprocs[p].done,
               vprocs[p].at = "fork", ~vprocs[p].is_fork_child
        PROVE  HasForkChild(p)'
    <3>1. ~HelperPending(p)
      <4>1. ASSUME HelperPending(p)
            PROVE  FALSE
        <5>1. vprocs[p].arg \in LiveHelpers /\ vprocs[vprocs[p].arg].arg = p
          BY <4>1 DEF HelperPending, LiveHelpers
        <5>2. vprocs[p].arg = current
          BY <2>1, <5>1, NoHelperBesides
        <5> QED
          BY <2>0, <2>6, <5>1, <5>2
      <4> QED
        BY <4>1
    <3>2. HasForkChild(p)
      BY <2>6, <3>1 DEF ForkInv, IsDone
    <3>3. /\ vprocs'[p].fork_child_pid = vprocs[p].fork_child_pid
          /\ vprocs'[p].arg = vprocs[p].arg
      BY <2>2, <2>6
    <3> QED
      BY <1>1, <1>2, <2>2, <3>2, <3>3 DEF HasForkChild
  <2>7. \A p \in DOMAIN vprocs : vprocs[p].at = "helper" => vprocs[p].done \/ p = current
    BY <2>1, NoHelperBesides DEF LiveHelpers, IsDone
  <2> QED
    BY <2>0, <2>1, <2>2, <2>4, <2>5, <2>6, <2>7 DEF ForkInv, IsDone
<1>19. ASSUME Step
       PROVE  ForkInv'
  <2>1. PICK i \in DOMAIN ready_queue :
          /\ PickNext(i)
          /\ current' = ready_queue[i]
          /\ \E co \in DeliverSignals(vprocs[ready_queue[i]]) :
               vprocs' = [vprocs EXCEPT ![ready_queue[i]] = Resumed(co)]
    BY <1>19 DEF Step
  <2>2. \A j \in DOMAIN ready_queue : ready_queue[j] \in DOMAIN vprocs /\ Live(ready_queue[j])
    BY DEF QueueInv, ReadyQueueExact, Elems, Live
  <2>3. i = 1
    <3>1. DOMAIN ready_queue = 1..Len(ready_queue) /\ Len(ready_queue) \in Nat
      BY <1>1, LenProperties
    <3> QED
      BY <2>1, <2>2, <3>1 DEF PickNext
  <2> DEFINE p == ready_queue[1]
  <2>4. p \in DOMAIN vprocs /\ ~vprocs[p].done
    BY <2>2, <2>3 DEF Live, IsDone
  <2>5. PICK co \in DeliverSignals(vprocs[p]) : vprocs' = [vprocs EXCEPT ![p] = Resumed(co)]
    BY <2>1, <2>3
  <2>6. current = NoPid /\ current' = p /\ exit_codes' = exit_codes
    BY <1>19, <2>1, <2>3 DEF Step
  <2>7. \A h \in LiveHelpers : HelperIsNext(h)'
    BY <1>1, <2>6 DEF ForkInv, LiveHelpers, HelperIsNext
  <2> HIDE DEF p
  <2>8. /\ Resumed(co).done = FALSE
        /\ Resumed(co).ppid = vprocs[p].ppid
        /\ Resumed(co).is_fork_child = vprocs[p].is_fork_child
        /\ Resumed(co).fork_child_pid = vprocs[p].fork_child_pid
        /\ Resumed(co).arg = vprocs[p].arg
        /\ Resumed(co).at = IF vprocs[p].at = "closure" THEN "user" ELSE vprocs[p].at
    BY <1>1, <2>4, ResumedType
  <2>9. /\ DOMAIN vprocs' = DOMAIN vprocs
        /\ vprocs'[p] = Resumed(co)
        /\ \A q \in DOMAIN vprocs : q # p => vprocs'[q] = vprocs[q]
    BY <1>1, <2>4, <2>5
  <2>10. \A q \in DOMAIN vprocs : /\ vprocs'[q].ppid = vprocs[q].ppid
                                  /\ vprocs[q].at # "closure" => SameFork(q)
                                  /\ vprocs[q].at = "closure" =>
                                       vprocs'[q].at \in {"closure", "user"}
    <3>1. ASSUME NEW q \in DOMAIN vprocs, q # p
          PROVE  vprocs'[q] = vprocs[q]
      BY <2>9, <3>1
    <3>2. vprocs[p].done \in BOOLEAN
      BY <1>1, <2>4 DEF Coroutine
    <3> QED
      BY <2>4, <2>8, <2>9, <3>1, <3>2 DEF SameFork
  <2> QED
    BY <1>2, <2>7, <2>9, <2>10, ForkFrame
<1>20. ASSUME Reap
       PROVE  ForkInv'
  <2>1. /\ UNCHANGED << ready_queue, current, exit_codes >>
        /\ DOMAIN vprocs' = DOMAIN vprocs \ DonePids
        /\ \A p \in DOMAIN vprocs \ DonePids : vprocs'[p] = vprocs[p]
    BY <1>20 DEF Reap
  <2>2. DonePids \subseteq DOMAIN exit_codes
    BY DEF DonePids, QueueInv, ExitsRecorded
  <2>3. \A h \in LiveHelpers : HelperIsNext(h)'
    BY <1>4, <2>1
  <2>4. \A p \in DOMAIN vprocs : ~vprocs[p].done => p \notin DonePids
    BY DEF DonePids, IsDone
  <2> QED
    BY <2>1, <2>2, <2>3, <2>4, ForkFrame DEF SameFork
<1>21. ASSUME PollAndWake
       PROVE  ForkInv'
  <2>1. PICK R \in SUBSET FdWaiters, X \in SUBSET DeadlineWaiters : WakeIoReady(R \cup X)
    BY <1>21 DEF PollAndWake
  <2>2. /\ DOMAIN vprocs' = DOMAIN vprocs
        /\ \A p \in DOMAIN vprocs : SameFork(p) /\ vprocs'[p].ppid = vprocs[p].ppid
    BY <1>1, <2>1 DEF WakeIoReady, Coroutine, SameFork
  <2> DEFINE W == (R \cup X) \ Elems(ready_queue)
  <2>3. PICK s \in Orders(W) : ready_queue' = ready_queue \o s
    BY <2>1 DEF WakeIoReady
  <2>4. W \in SUBSET (1..(next_pid - 1)) /\ W \cap Elems(ready_queue) = {}
    BY <1>1 DEF FdWaiters, DeadlineWaiters
  <2> HIDE DEF W
  <2>5. IsFiniteSet(W)
    <3>1. 1 \in Int /\ next_pid - 1 \in Int
      BY <1>1
    <3>2. IsFiniteSet(1..(next_pid - 1))
      BY <3>1, FS_Interval
    <3> QED
      BY <2>4, <3>2, FS_Subset
  <2>6. NoDuplicates(ready_queue)
    BY DEF QueueInv, ReadyQueueExact
  <2>7. ready_queue # << >> =>
          ready_queue \o s # << >> /\ (ready_queue \o s)[1] = ready_queue[1]
    BY <1>1, <2>4, <2>5, <2>6, PushAll
  <2>8. \A h \in LiveHelpers : HelperIsNext(h)'
    BY <1>4, <1>21, <2>3, <2>7 DEF PollAndWake
  <2> QED
    BY <1>2, <2>2, <2>8, ForkFrame
<1>22. ASSUME NEW sig \in Signals, Raise(sig)
       PROVE  ForkInv'
  <2>1. 128 + sig \in Int
    BY ExecutorAssumption
  <2>2. Kill(current, sig) => current \in DOMAIN vprocs
    BY DEF Kill
  <2> QED
    BY <1>11, <1>12, <1>22, <2>1, <2>2 DEF Raise
<1>23. ASSUME UNCHANGED vars
       PROVE  ForkInv'
  <2>1. /\ vprocs' = vprocs /\ current' = current /\ exit_codes' = exit_codes
        /\ ready_queue' = ready_queue
    BY <1>23 DEF vars
  <2> QED
    BY <1>4, <2>1, ForkFrame DEF SameFork
<1> QED
  BY <1>6, <1>7, <1>9, <1>10, <1>11, <1>12, <1>14, <1>15, <1>16, <1>17, <1>18, <1>19,
     <1>20, <1>21, <1>22, <1>23, ExecutorAssumption DEF Next, SwitchOut, KeepRunning

\* The fork invariant gives what the runs check of fork.
LEMMA ForkInvImplies ==
    ASSUME TypeOK, QueueInv, ForkInv
    PROVE  HelperCopiesSuspendedCaller /\ ForkReturnsOwnChild
<1>1. ASSUME current # NoPid
      PROVE  current \in DOMAIN vprocs /\ ~IsDone(current)
  BY <1>1 DEF TypeOK, QueueInv, RunningIsLive
<1>2. HelperCopiesSuspendedCaller
  BY <1>1 DEF HelperCopiesSuspendedCaller, ForkInv, CallerSuspended
<1>3. ASSUME current # NoPid, vprocs[current].at = "fork", ~vprocs[current].is_fork_child
      PROVE  HasForkChild(current)
  <2>1. ~HelperPending(current)
    BY <1>1, <1>3, NoHelperBesides DEF HelperPending, LiveHelpers
  <2> QED
    BY <1>1, <1>3, <2>1 DEF ForkInv
<1>4. ForkReturnsOwnChild
  BY <1>3 DEF ForkReturnsOwnChild, HasForkChild
<1> QED
  BY <1>2, <1>4

\* The helper of vproc_ffi_fork always finds the caller of its fork live and
\* suspended in that call, however forks, signals, I/O and spawns interleave.
THEOREM HelperFindsItsCaller == Spec => []HelperCopiesSuspendedCaller
<1>1. TypeOK /\ QueueInv /\ ForkInv /\ [Next]_vars => (TypeOK /\ QueueInv /\ ForkInv)'
  BY NextType, NextQueue, NextFork
<1>2. Init => TypeOK /\ QueueInv /\ ForkInv
  BY InitType, InitQueue, InitFork
<1>3. TypeOK /\ QueueInv /\ ForkInv => HelperCopiesSuspendedCaller
  BY ForkInvImplies
<1> QED
  BY <1>1, <1>2, <1>3, PTL DEF Spec

\* In the parent vproc_ffi_fork always returns the child that its own helper
\* made.
THEOREM ForkAlwaysReturnsOwnChild == Spec => []ForkReturnsOwnChild
<1>1. TypeOK /\ QueueInv /\ ForkInv /\ [Next]_vars => (TypeOK /\ QueueInv /\ ForkInv)'
  BY NextType, NextQueue, NextFork
<1>2. Init => TypeOK /\ QueueInv /\ ForkInv
  BY InitType, InitQueue, InitFork
<1>3. TypeOK /\ QueueInv /\ ForkInv => ForkReturnsOwnChild
  BY ForkInvImplies
<1> QED
  BY <1>1, <1>2, <1>3, PTL DEF Spec

-----------------------------------------------------------------------------
(* One session.                                                            *)

(***************************************************************************)
(* The inductive invariant.  The driver polls only what waits, and it      *)
(* leaves a slice only when no coroutine runs, so wake_io_ready and the    *)
(* reap find the executor as they expect it; a waiter is for the pid its   *)
(* client asked for, which the client keeps until the end of its call.     *)
(***************************************************************************)
DriverInv ==
    /\ driver \in DriverPlaces
    /\ driver # "slice" => current = NoPid /\ ~aborted
    /\ driver \in {"poll", "relock"} => pollfds # {} /\ pollfds \subseteq FdWaiters
    /\ driver = "relock" => revents \subseteq pollfds

\* A waiter is a client in vproc_wait, and only such a client has a result.
ClientInv ==
    /\ client \in [Clients -> ClientPlaces]
    /\ spawn_result \in [Clients -> {None} \cup Nat]
    /\ vpid \in [Clients -> {None} \cup Nat]
    /\ wait_result \in [Clients -> {None} \cup Int]
    /\ \A w \in waiters :
          \E c \in Clients : w = <<c, vpid[c]>> /\ client[c] \in {"waiting", "done"}
    /\ \A c \in Clients : wait_result[c] # None => client[c] \in {"waiting", "done"}

\* What is proved of the executor above.
ExecutorInv == TypeOK /\ QueueInv

-----------------------------------------------------------------------------
(* The refinement *)

\* Every step of the driver is a step of its executor, or leaves it alone.
LEMMA DriverMaps == DriverInv /\ DriverNext => [Next]_vars
<1> SUFFICES ASSUME DriverInv, DriverNext PROVE [Next]_vars
  OBVIOUS
<1>1. CASE DriverExits
  BY <1>1 DEF DriverExits, Next
<1>2. CASE DriverDrains
  BY <1>2 DEF DriverDrains
<1>3. CASE ServeRequest
  BY <1>3 DEF ServeRequest, Next
<1>4. CASE RejectRequest \/ DrainDone
  BY <1>4 DEF RejectRequest, DrainDone
<1>5. CASE DriverSteps
  BY <1>5 DEF DriverSteps, Next
<1>6. CASE CoroutineStep
  BY <1>6 DEF CoroutineStep, Next
<1>7. CASE AfterSlice
  BY <1>7 DEF AfterSlice, Next
<1>8. CASE PollReturns \/ PollFails
  BY <1>8 DEF PollReturns, PollFails
<1>9. CASE DriverWakes
  <2>1. PICK X \in SUBSET DeadlineWaiters : WakeIoReady(revents \cup X)
    BY <1>9 DEF DriverWakes
  <2>2. /\ current = NoPid /\ ~aborted /\ FdWaiters # {} /\ revents \in SUBSET FdWaiters
        /\ UNCHANGED << next_pid, current, children, saved_fork_lr, exit_codes, aborted >>
    BY <1>9 DEF DriverWakes, DriverInv
  <2>3. PollAndWake
    BY <2>1, <2>2, Zenon DEF PollAndWake
  <2> QED BY <2>3 DEF Next
<1>10. CASE DriverChecks \/ SpuriousWakeup
  BY <1>10 DEF DriverChecks, SpuriousWakeup
<1> QED BY <1>1, <1>2, <1>3, <1>4, <1>5, <1>6, <1>7, <1>8, <1>9, <1>10 DEF DriverNext

\* Clients and the kernel do not touch the executor.
LEMMA OthersKeepExecutor ==
    ASSUME \/ \E c \in Clients : ClientNext(c)
           \/ \E p \in DOMAIN vprocs : FdsBecomeReady(p)
    PROVE  UNCHANGED vars
<1>1. ASSUME NEW p, FdsBecomeReady(p) PROVE UNCHANGED vars
  BY <1>1 DEF FdsBecomeReady
<1>2. ASSUME NEW c \in Clients, ClientNext(c) PROVE UNCHANGED vars
  BY <1>2 DEF ClientNext, CreateLookup, CreateTryLock, CreatePush, CreateNotify, CreateResult,
              WaitLookup, WaitCheck, WaitRegister, WaitResult, DestroyRemove, DestroySignal
<1> QED BY <1>1, <1>2

\* Every step of a session is a step of the executor or none of it.
LEMMA StepMaps == DriverInv /\ [SessionNext]_all_vars => [Next]_vars
<1>1. UNCHANGED all_vars => UNCHANGED vars
  BY DEF all_vars
<1> QED BY <1>1, DriverMaps, OthersKeepExecutor DEF SessionNext

\* What poll() covers still waits when the driver wakes it.
LEMMA DriverKeeps ==
    ExecutorInv /\ DriverInv /\ DriverNext => DriverInv'
<1> SUFFICES ASSUME ExecutorInv, DriverInv, DriverNext PROVE DriverInv'
  OBVIOUS
<1>1. CASE DriverExits
  BY <1>1 DEF DriverExits, DriverInv, Reap, DriverPlaces
<1>2. CASE DriverDrains
  BY <1>2 DEF DriverDrains, DriverInv, DriverPlaces, vars
<1>3. CASE ServeRequest
  BY <1>3 DEF ServeRequest, Answer, Spawn, DriverInv, DriverPlaces
<1>4. CASE RejectRequest \/ DrainDone
  BY <1>4 DEF RejectRequest, Answer, DrainDone, DriverInv, DriverPlaces, vars
<1>5. CASE DriverSteps
  BY <1>5 DEF DriverSteps, DriverInv, DriverPlaces
<1>6. CASE CoroutineStep
  BY <1>6 DEF CoroutineStep, session_vars, DriverInv, DriverPlaces
<1>7. CASE AfterSlice
  <2>1. /\ vprocs' = [p \in DOMAIN vprocs \ DonePids |-> vprocs[p]]
        /\ current' = NoPid /\ ~aborted'
        /\ pollfds' = FdWaiters /\ driver' = IF FdWaiters = {} THEN "check" ELSE "poll"
    BY <1>7 DEF AfterSlice, Reap
  <2>2. \A p \in FdWaiters : p \in DOMAIN vprocs /\ p \notin DonePids
    BY DEF ExecutorInv, QueueInv, ExitsRecorded, FdWaiters, DonePids, FdWaits
  <2>3. FdWaiters \subseteq FdWaiters'
    BY <2>1, <2>2 DEF FdWaiters
  <2> QED BY <2>1, <2>3 DEF DriverInv, DriverPlaces
<1>8. CASE PollReturns \/ PollFails
  <2>1. FdWaiters' = FdWaiters
    BY <1>8 DEF PollReturns, PollFails, vars, FdWaiters
  <2> QED BY <1>8, <2>1 DEF PollReturns, PollFails, DriverInv, DriverPlaces, vars, driver_vars
<1>9. CASE DriverWakes
  BY <1>9 DEF DriverWakes, DriverInv, DriverPlaces
<1>10. CASE DriverChecks \/ SpuriousWakeup
  BY <1>10 DEF DriverChecks, SpuriousWakeup, DriverInv, DriverPlaces, vars
<1> QED BY <1>1, <1>2, <1>3, <1>4, <1>5, <1>6, <1>7, <1>8, <1>9, <1>10 DEF DriverNext

\* Clients and readiness of fds leave the driver where it is.
LEMMA OthersKeepDriver ==
    ASSUME DriverInv,
           \/ \E c \in Clients : ClientNext(c)
           \/ \E p \in DOMAIN vprocs : FdsBecomeReady(p)
    PROVE  DriverInv'
<1>1. UNCHANGED vars /\ FdWaiters' = FdWaiters
  BY OthersKeepExecutor DEF vars, FdWaiters
<1>2. UNCHANGED <<pollfds, revents>> /\ (driver' = driver \/ (driver = "asleep" /\ driver' = "check"))
  <2>1. ASSUME NEW p, FdsBecomeReady(p) PROVE UNCHANGED <<pollfds, revents, driver>>
    BY <2>1 DEF FdsBecomeReady, driver_vars
  <2>2. ASSUME NEW c \in Clients, ClientNext(c)
        PROVE  /\ UNCHANGED <<pollfds, revents>>
               /\ driver' = driver \/ (driver = "asleep" /\ driver' = "check")
    BY <2>2 DEF ClientNext, CreateLookup, CreateTryLock, CreatePush, CreateNotify, CreateResult,
                WaitLookup, WaitCheck, WaitRegister, WaitResult, DestroyRemove, DestroySignal,
                NotifyDriver, driver_vars
  <2> QED BY <2>1, <2>2
<1> QED BY <1>1, <1>2 DEF DriverInv, DriverPlaces, vars

\* Every step of a session keeps the invariants of executor and driver.
LEMMA NextDriver == ExecutorInv /\ DriverInv /\ [SessionNext]_all_vars => (ExecutorInv /\ DriverInv)'
<1> SUFFICES ASSUME ExecutorInv, DriverInv, [SessionNext]_all_vars
             PROVE  ExecutorInv' /\ DriverInv'
  OBVIOUS
<1>1. ExecutorInv'
  BY StepMaps, NextType, NextQueue DEF ExecutorInv
<1>2. CASE UNCHANGED all_vars
  <2>1. UNCHANGED <<vars, driver, pollfds, revents>>
    BY <1>2 DEF all_vars, session_vars
  <2>2. DriverInv'
    BY <2>1 DEF DriverInv, FdWaiters, vars
  <2> QED BY <1>1, <2>2
<1>3. CASE SessionNext
  BY <1>1, <1>3, DriverKeeps, OthersKeepDriver DEF SessionNext
<1> QED BY <1>2, <1>3

\* They hold at the start.
LEMMA InitDriver == SessionInit => ExecutorInv /\ DriverInv
<1>1. SessionInit => ExecutorInv
  BY InitType, InitQueue DEF SessionInit, ExecutorInv
<1>2. SessionInit => DriverInv
  BY DEF SessionInit, Init, DriverInv, DriverPlaces
<1> QED BY <1>1, <1>2

\* The driver thread with any number of clients implements Executor: every
\* section of run_session_driver that works on the executor is one of the
\* executor's actions, and nothing else changes it.
THEOREM SessionImplementsExecutor == SessionSpec => ImplementsExecutor
<1>1. SessionInit => Init
  BY DEF SessionInit
<1> QED BY <1>1, InitDriver, NextDriver, StepMaps, PTL DEF SessionSpec, ImplementsExecutor

-----------------------------------------------------------------------------
(* The clients *)

\* get_exit_code returns what is recorded, before and after the reap.
LEMMA KnownIsRecorded ==
    ASSUME ExecutorInv, NEW p, ExitCodeKnown(p)
    PROVE  p \in DOMAIN exit_codes /\ CodeOf(p) = exit_codes[p] /\ CodeOf(p) \in Int
<1>1. p \in DOMAIN exit_codes
  BY DEF ExecutorInv, QueueInv, ExitsRecorded, ExitCodeKnown, DonePids
<1> QED BY <1>1 DEF CodeOf, ExecutorInv, TypeOK

\* What the driver does to the clients' slots.
LEMMA DriverAnswers ==
    ASSUME ExecutorInv, ClientInv, WaitedCodeIsRecorded, AfterSlice
    PROVE  ClientInv' /\ WaitedCodeIsRecorded'
<1>1. /\ UNCHANGED <<client, vpid, spawn_result, exit_codes>> /\ waiters' \subseteq waiters
      /\ wait_result' = [c \in Clients |->
                            IF \E w \in Served : w[1] = c
                            THEN CodeOf((CHOOSE w \in Served : w[1] = c)[2])
                            ELSE wait_result[c]]
  BY DEF AfterSlice, Reap
<1>2. ASSUME NEW c \in Clients, \E w \in Served : w[1] = c
      PROVE  /\ vpid[c] \in DOMAIN exit_codes /\ wait_result'[c] = exit_codes[vpid[c]]
             /\ wait_result'[c] \in Int /\ client[c] \in {"waiting", "done"}
  <2>1. PICK w : w = (CHOOSE u \in Served : u[1] = c)
    OBVIOUS
  <2>2. w \in Served /\ w[1] = c
    BY <1>2, <2>1
  <2>3. w[2] = vpid[c] /\ ExitCodeKnown(vpid[c]) /\ client[c] \in {"waiting", "done"}
    BY <2>2 DEF Served, ClientInv
  <2>4. wait_result'[c] = CodeOf(vpid[c])
    <3>1. wait_result'[c] = CodeOf((CHOOSE u \in Served : u[1] = c)[2])
      BY <1>1, <1>2, Zenon
    <3> QED BY <2>1, <2>3, <3>1
  <2> QED BY <2>3, <2>4, KnownIsRecorded
<1>3. ASSUME NEW c \in Clients, ~ \E w \in Served : w[1] = c
      PROVE  wait_result'[c] = wait_result[c]
  BY <1>1, <1>3, Zenon
<1>4. wait_result' \in [Clients -> {None} \cup Int]
  <2>1. \A c \in Clients : wait_result'[c] \in {None} \cup Int
    BY <1>2, <1>3 DEF ClientInv
  <2>2. wait_result' = [c \in Clients |-> wait_result'[c]]
    BY <1>1
  <2> HIDE DEF ClientInv
  <2> QED BY <2>1, <2>2
<1>5. \A c \in Clients : wait_result'[c] # None => client[c] \in {"waiting", "done"}
  BY <1>2, <1>3 DEF ClientInv
<1>6. ClientInv'
  BY <1>1, <1>4, <1>5 DEF ClientInv
<1>7. WaitedCodeIsRecorded'
  BY <1>1, <1>2, <1>3 DEF WaitedCodeIsRecorded
<1> QED BY <1>6, <1>7

\* A step that leaves the clients' slots alone; codes are final.
LEMMA SlotsFrame ==
    ASSUME ExecutorInv, [Next]_vars, ClientInv, WaitedCodeIsRecorded,
           UNCHANGED <<client, vpid, waiters, wait_result>>,
           spawn_result' \in [Clients -> {None} \cup Nat]
    PROVE  ClientInv' /\ WaitedCodeIsRecorded'
<1>1. \A p \in DOMAIN exit_codes : p \in DOMAIN exit_codes' /\ exit_codes'[p] = exit_codes[p]
  BY CodesKept DEF ExecutorInv
<1>2. ClientInv'
  BY DEF ClientInv
<1>3. WaitedCodeIsRecorded'
  BY <1>1 DEF WaitedCodeIsRecorded
<1> QED BY <1>2, <1>3

\* A step of the driver keeps what clients rely on.
LEMMA DriverKeepsClients ==
    ASSUME ExecutorInv, DriverInv, ClientInv, WaitedCodeIsRecorded, DriverNext
    PROVE  ClientInv' /\ WaitedCodeIsRecorded'
<1>1. [Next]_vars /\ spawn_result \in [Clients -> {None} \cup Nat]
  BY DriverMaps DEF ClientInv
<1>2. CASE AfterSlice
  BY <1>2, DriverAnswers
<1>3. CASE ServeRequest \/ RejectRequest
  <2>1. PICK v \in Nat : Answer(v)
    BY <1>3 DEF ServeRequest, RejectRequest, ExecutorInv, TypeOK
  <2>2. /\ UNCHANGED <<client, vpid, waiters, wait_result>>
        /\ spawn_result' \in [Clients -> {None} \cup Nat]
    BY <1>1, <2>1 DEF Answer
  <2> QED BY <1>1, <2>2, SlotsFrame
<1>4. CASE \/ DriverExits \/ DriverDrains \/ DrainDone \/ DriverSteps \/ CoroutineStep
           \/ PollReturns \/ PollFails \/ DriverWakes \/ DriverChecks \/ SpuriousWakeup
  <2>1. UNCHANGED <<client, vpid, waiters, wait_result, spawn_result>>
    BY <1>4 DEF DriverExits, DriverDrains, DrainDone, DriverSteps, CoroutineStep, PollReturns,
                PollFails, DriverWakes, DriverChecks, SpuriousWakeup, client_vars, session_vars
  <2> QED BY <1>1, <2>1, SlotsFrame
<1> QED BY <1>2, <1>3, <1>4 DEF DriverNext

\* A client moves on: at most its own slots change, and its pid only before
\* it waits.
LEMMA ClientMoves ==
    ASSUME ClientInv, WaitedCodeIsRecorded, UNCHANGED <<exit_codes, spawn_result>>,
           NEW c \in Clients, NEW place \in ClientPlaces, client' = [client EXCEPT ![c] = place],
           NEW v \in {None} \cup Nat, vpid' = [vpid EXCEPT ![c] = v],
           NEW r \in {None} \cup Int, wait_result' = [wait_result EXCEPT ![c] = r],
           client[c] \in {"waiting", "done"} => place \in {"waiting", "done"} /\ v = vpid[c],
           waiters' \subseteq waiters \cup {<<c, v>>},
           place \notin {"waiting", "done"} => waiters' = waiters,
           r # wait_result[c] =>
              place \in {"waiting", "done"} /\ v \in DOMAIN exit_codes /\ r = exit_codes[v]
    PROVE  ClientInv' /\ WaitedCodeIsRecorded'
<1>1. /\ client' \in [Clients -> ClientPlaces] /\ vpid' \in [Clients -> {None} \cup Nat]
      /\ wait_result' \in [Clients -> {None} \cup Int]
      /\ client'[c] = place /\ vpid'[c] = v /\ wait_result'[c] = r
      /\ \A d \in Clients \ {c} : /\ client'[d] = client[d] /\ vpid'[d] = vpid[d]
                                  /\ wait_result'[d] = wait_result[d]
  BY DEF ClientInv
<1>2. ASSUME NEW w \in waiters'
      PROVE  \E d \in Clients : w = <<d, vpid'[d]>> /\ client'[d] \in {"waiting", "done"}
  <2>1. CASE w \in waiters
    <3>1. PICK d \in Clients : w = <<d, vpid[d]>> /\ client[d] \in {"waiting", "done"}
      BY <2>1 DEF ClientInv
    <3>2. vpid'[d] = vpid[d] /\ client'[d] \in {"waiting", "done"}
      BY <1>1, <3>1
    <3> QED BY <3>1, <3>2
  <2>2. CASE w \notin waiters
    <3>1. w = <<c, v>> /\ place \in {"waiting", "done"}
      BY <1>2, <2>2
    <3> QED BY <1>1, <3>1
  <2> QED BY <2>1, <2>2
<1>3. ASSUME NEW d \in Clients, wait_result'[d] # None
      PROVE  /\ client'[d] \in {"waiting", "done"} /\ vpid'[d] \in DOMAIN exit_codes
             /\ wait_result'[d] = exit_codes[vpid'[d]]
  <2>1. CASE d # c \/ r = wait_result[c]
    <3>1. wait_result[d] = wait_result'[d]
      BY <1>1, <2>1
    <3>2. /\ client[d] \in {"waiting", "done"} /\ vpid[d] \in DOMAIN exit_codes
          /\ wait_result[d] = exit_codes[vpid[d]]
      BY <1>3, <3>1 DEF ClientInv, WaitedCodeIsRecorded
    <3> QED BY <1>1, <3>1, <3>2
  <2>2. CASE d = c /\ r # wait_result[c]
    BY <1>1, <2>2
  <2> QED BY <2>1, <2>2
<1>4. ClientInv'
  BY <1>1, <1>2, <1>3 DEF ClientInv
<1>5. WaitedCodeIsRecorded'
  BY <1>3 DEF WaitedCodeIsRecorded
<1> QED BY <1>4, <1>5

\* A step of a client does.
LEMMA ClientKeepsClients ==
    ASSUME ExecutorInv, ClientInv, WaitedCodeIsRecorded, NEW c \in Clients, ClientNext(c)
    PROVE  ClientInv' /\ WaitedCodeIsRecorded'
<1>1. /\ client[c] \in ClientPlaces /\ vpid[c] \in {None} \cup Nat
      /\ wait_result[c] \in {None} \cup Int
      /\ vpid = [vpid EXCEPT ![c] = vpid[c]]
      /\ wait_result = [wait_result EXCEPT ![c] = wait_result[c]]
  BY DEF ClientInv
<1>2. UNCHANGED <<exit_codes, spawn_result>>
  BY OthersKeepExecutor
     DEF vars, ClientNext, CreateLookup, CreateTryLock, CreatePush, CreateNotify, CreateResult,
         WaitLookup, WaitCheck, WaitRegister, WaitResult, DestroyRemove, DestroySignal
<1>3. CASE \/ CreateLookup(c) \/ CreateTryLock(c) \/ CreatePush(c) \/ CreateNotify(c)
           \/ WaitResult(c) \/ DestroyRemove(c) \/ DestroySignal(c)
  <2>1. UNCHANGED <<vpid, wait_result, waiters>>
    BY <1>3 DEF CreateLookup, CreateTryLock, CreatePush, CreateNotify, WaitResult, DestroyRemove,
                DestroySignal
  <2>2. PICK place \in ClientPlaces :
            /\ client' = [client EXCEPT ![c] = place]
            /\ client[c] \in {"waiting", "done"} => place \in {"waiting", "done"}
    BY <1>3 DEF CreateLookup, CreateTryLock, CreatePush, CreateNotify, WaitResult, DestroyRemove,
                DestroySignal, Go, ClientPlaces
  <2> QED BY <1>1, <1>2, <2>1, <2>2, ClientMoves
<1>4. CASE CreateResult(c)
  <2>1. UNCHANGED <<wait_result, waiters>> /\ client[c] = "result"
    BY <1>4 DEF CreateResult
  <2>2. PICK place \in ClientPlaces : client' = [client EXCEPT ![c] = place]
    BY <1>4 DEF CreateResult, Go, ClientPlaces
  <2>3. PICK v \in {None} \cup Nat : vpid' = [vpid EXCEPT ![c] = v]
    BY <1>1, <1>4 DEF CreateResult, ClientInv
  <2> QED BY <1>1, <1>2, <2>1, <2>2, <2>3, ClientMoves
<1>5. CASE WaitLookup(c)
  <2>1. UNCHANGED <<wait_result, waiters>> /\ client[c] \in {"idle", "created"}
    BY <1>5 DEF WaitLookup
  <2>2. PICK place \in ClientPlaces : client' = [client EXCEPT ![c] = place]
    BY <1>5 DEF WaitLookup, Go, ClientPlaces
  <2>3. PICK v \in Pids : vpid' = [vpid EXCEPT ![c] = v]
    BY <1>5 DEF WaitLookup
  <2>4. v \in {None} \cup Nat
    BY ExecutorAssumption DEF Pids
  <2> QED BY <1>1, <1>2, <2>1, <2>2, <2>3, <2>4, ClientMoves
<1>6. CASE WaitCheck(c) \/ WaitRegister(c)
  <2>1. UNCHANGED vpid /\ client[c] \in {"check", "recheck"}
    BY <1>6 DEF WaitCheck, WaitRegister
  <2>2. CASE ExitCodeKnown(vpid[c])
    <3>1. /\ vpid[c] \in DOMAIN exit_codes /\ CodeOf(vpid[c]) = exit_codes[vpid[c]]
          /\ CodeOf(vpid[c]) \in {None} \cup Int
      BY <2>2, KnownIsRecorded
    <3>2. /\ client' = [client EXCEPT ![c] = "done"] /\ UNCHANGED waiters
          /\ wait_result' = [wait_result EXCEPT ![c] = CodeOf(vpid[c])]
      BY <1>6, <2>2 DEF WaitCheck, WaitRegister, Go
    <3>3. "done" \in ClientPlaces
      BY DEF ClientPlaces
    <3> QED BY <1>1, <1>2, <2>1, <3>1, <3>2, <3>3, ClientMoves
  <2>3. CASE ~ ExitCodeKnown(vpid[c])
    <3>1. PICK place \in {"recheck", "waiting"} :
             /\ client' = [client EXCEPT ![c] = place]
             /\ waiters' = IF place = "waiting" THEN waiters \cup {<<c, vpid[c]>>} ELSE waiters
      BY <1>6, <2>3 DEF WaitCheck, WaitRegister, Go
    <3>2. place \in ClientPlaces /\ UNCHANGED wait_result
      BY <1>6, <2>3 DEF WaitCheck, WaitRegister, ClientPlaces
    <3> QED BY <1>1, <1>2, <2>1, <3>1, <3>2, ClientMoves
  <2> QED BY <2>2, <2>3
<1> QED BY <1>3, <1>4, <1>5, <1>6 DEF ClientNext

\* Every step of a session does.
LEMMA NextClient ==
    ExecutorInv /\ DriverInv /\ ClientInv /\ WaitedCodeIsRecorded /\ [SessionNext]_all_vars
       => (ClientInv /\ WaitedCodeIsRecorded)'
<1> SUFFICES ASSUME ExecutorInv, DriverInv, ClientInv, WaitedCodeIsRecorded,
                    [SessionNext]_all_vars
             PROVE  ClientInv' /\ WaitedCodeIsRecorded'
  OBVIOUS
<1>1. [Next]_vars /\ spawn_result \in [Clients -> {None} \cup Nat]
  BY StepMaps DEF ClientInv
<1>2. CASE UNCHANGED all_vars
  <2>1. UNCHANGED <<client, vpid, waiters, wait_result, spawn_result>>
    BY <1>2 DEF all_vars, session_vars
  <2> QED BY <1>1, <2>1, SlotsFrame
<1>3. ASSUME NEW p, FdsBecomeReady(p) PROVE ClientInv' /\ WaitedCodeIsRecorded'
  <2>1. UNCHANGED <<client, vpid, waiters, wait_result, spawn_result>>
    BY <1>3 DEF FdsBecomeReady, client_vars
  <2> QED BY <1>1, <2>1, SlotsFrame
<1> QED BY <1>2, <1>3, DriverKeepsClients, ClientKeepsClients DEF SessionNext

\* It holds at the start.
LEMMA InitClient == SessionInit => ClientInv /\ WaitedCodeIsRecorded
<1>1. NoPid \in Nat
  BY DEF NoPid
<1> QED BY <1>1 DEF SessionInit, ClientInv, WaitedCodeIsRecorded, ClientPlaces

\* For any number of clients, run_until_exit returns the exit code that is
\* recorded for the pid it was asked for, whichever of the three places
\* answers it and whether or not the coroutine is reaped by then.
THEOREM WaitersGetRecordedCodes == SessionSpec => []WaitedCodeIsRecorded
BY InitDriver, InitClient, NextDriver, NextClient, PTL DEF SessionSpec

-----------------------------------------------------------------------------
(* Wakeups *)

\* The driver falls asleep in one step only, with nothing to do.
LEMMA DriverFallsAsleep ==
    ASSUME DriverNext, driver' = "asleep"
    PROVE  ~HasWork /\ UNCHANGED <<vars, spawn_queue, waiters>>
<1>1. CASE DriverChecks
  BY <1>1 DEF DriverChecks, client_vars
<1>2. CASE ~ DriverChecks
  BY <1>2 DEF DriverNext, DriverExits, DriverDrains, ServeRequest, RejectRequest, Answer, DrainDone,
              DriverSteps, CoroutineStep, session_vars, AfterSlice, PollReturns, PollFails,
              DriverWakes, SpuriousWakeup
<1> QED BY <1>1, <1>2

\* While it sleeps, a client that pushes a request has yet to notify it, and
\* one that registers wakes it.
LEMMA ClientWakesDriver ==
    ASSUME ClientInv, SleepLosesNothing, NEW c \in Clients, ClientNext(c)
    PROVE  SleepLosesNothing'
<1> SUFFICES ASSUME driver' = "asleep"
             PROVE  /\ ~HasReady' /\ waiters' = {}
                    /\ spawn_queue' # << >> => \E d \in Clients : client'[d] = "notify"
  BY DEF SleepLosesNothing
<1>1. ~ CreateNotify(c) /\ driver = "asleep"
  BY DEF ClientNext, CreateLookup, CreateTryLock, CreatePush, CreateNotify, CreateResult,
         WaitLookup, WaitCheck, WaitRegister, WaitResult, DestroyRemove, DestroySignal, NotifyDriver
<1>2. /\ ~HasReady /\ waiters = {}
      /\ spawn_queue # << >> => \E d \in Clients : client[d] = "notify"
  BY <1>1 DEF SleepLosesNothing
<1>3. ~HasReady'
  BY <1>2, OthersKeepExecutor DEF vars, HasReady, IsDone
<1>4. waiters' = {}
  BY <1>1, <1>2 DEF ClientNext, CreateLookup, CreateTryLock, CreatePush, CreateResult, WaitLookup,
                    WaitCheck, WaitRegister, WaitResult, DestroyRemove, DestroySignal, NotifyDriver
<1>5. CASE CreatePush(c)
  <2>1. client'[c] = "notify"
    BY <1>5 DEF CreatePush, Go, ClientInv
  <2> QED BY <1>3, <1>4, <2>1
<1>6. CASE ~ CreatePush(c)
  <2>1. spawn_queue' = spawn_queue /\ client[c] # "notify"
    BY <1>1, <1>6 DEF ClientNext, CreateLookup, CreateTryLock, CreateResult, WaitLookup,
                      WaitCheck, WaitRegister, WaitResult, DestroyRemove, DestroySignal
  <2>2. PICK place : client' = [client EXCEPT ![c] = place]
    BY <1>1, <1>6 DEF ClientNext, CreateLookup, CreateTryLock, CreateResult, WaitLookup,
                      WaitCheck, WaitRegister, WaitResult, DestroyRemove, DestroySignal, Go
  <2>3. \A d \in Clients : client[d] = "notify" => client'[d] = "notify"
    BY <2>1, <2>2 DEF ClientInv
  <2> QED BY <1>2, <1>3, <1>4, <2>1, <2>3
<1> QED BY <1>5, <1>6

\* No step puts the driver to sleep on work it has not seen.
LEMMA NextSleep ==
    ClientInv /\ SleepLosesNothing /\ [SessionNext]_all_vars => SleepLosesNothing'
<1> SUFFICES ASSUME ClientInv, SleepLosesNothing, [SessionNext]_all_vars
             PROVE  SleepLosesNothing'
  OBVIOUS
<1>1. CASE DriverNext
  <2> SUFFICES ASSUME driver' = "asleep"
               PROVE  ~HasReady' /\ waiters' = {} /\ spawn_queue' = << >>
    BY DEF SleepLosesNothing
  <2> QED BY <1>1, DriverFallsAsleep DEF HasWork, HasReady, IsDone, vars
<1>2. ASSUME NEW p, FdsBecomeReady(p) PROVE SleepLosesNothing'
  BY <1>2 DEF FdsBecomeReady, client_vars, vars, SleepLosesNothing, HasReady, IsDone
<1>3. CASE UNCHANGED all_vars
  BY <1>3 DEF all_vars, session_vars, vars, SleepLosesNothing, HasReady, IsDone
<1> QED BY <1>1, <1>2, <1>3, ClientWakesDriver DEF SessionNext

\* For any number of clients no wakeup is lost: while the driver sleeps on
\* Session::wake no coroutine can run, nobody is registered in waiters, and
\* whoever pushed a request is still to notify.
THEOREM NoWakeupIsLost == SessionSpec => []SleepLosesNothing
<1>1. SessionInit => SleepLosesNothing
  BY DEF SessionInit, SleepLosesNothing
<1> QED BY <1>1, InitDriver, InitClient, NextDriver, NextClient, NextSleep, PTL DEF SessionSpec

\* What Executor promises holds in a session, whatever its clients do: the
\* ready queue is exact and the running coroutine is live.
THEOREM SessionQueueIsExact == SessionSpec => [](ReadyQueueExact /\ RunningIsLive)
<1>1. ExecutorInv => ReadyQueueExact /\ RunningIsLive
  BY DEF ExecutorInv, QueueInv
<1> QED BY <1>1, InitDriver, NextDriver, PTL DEF SessionSpec
=============================================================================
