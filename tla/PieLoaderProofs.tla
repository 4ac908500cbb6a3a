-------------------------- MODULE PieLoaderProofs --------------------------
(***************************************************************************)
(* load_pie for any number of calls, any files it can load and any sizes   *)
(* of page, slot and address space: the slots that alloc_slot hands out    *)
(* never overlap (SlotOrder: NEXT_BASE is past every slot), nobody's       *)
(* mapping is replaced (OwnInv: a call owns its reservation from mmap to   *)
(* munmap), and an image that is returned is the file (ImageInv).          *)
(* And extract_main_addr, for any code: when it has the form the comment   *)
(* describes, what the ldr loads is returned (MainInv).                    *)
(***************************************************************************)
EXTENDS ExecLoader, FiniteSetTheorems, TLAPS

\* A leaf that names no prover is tried by Zenon, by the SMT solver, and by
\* Zenon again for longer.
USE ZenonT(3), SMTT(30), ZenonT(60)

\* Where a call of load_pie can be, and what it keeps.
Places == {"idle", "reserve", "map", "relocate", "loaded", "released", "failed", "fault"}
CallRecord == [pc : Places, file : Files \cup {None}, base : Nat, seg : Nat]

\* The end of a reservation.
SlotEnd(l) == load[l].base + TotalMapped(load[l].file)

\* The inductive invariant.
SlotOrder ==
    /\ next \in Nat \ {0}
    /\ load \in [Loads -> CallRecord]
    /\ \A l \in Loads : load[l].pc = "idle" => ~ HasSlot(l)
    /\ \A l \in Loads : HasSlot(l) =>
          /\ load[l].file \in Files /\ load[l].file.loads # << >>
          /\ SlotEnd(l) =< next
    /\ \A l1, l2 \in Loads :
          HasSlot(l1) /\ HasSlot(l2) /\ l1 # l2
             => SlotEnd(l1) =< load[l2].base \/ SlotEnd(l2) =< load[l1].base

\* Rounding up gives a number that is not smaller.
LEMMA AlignUpGrows ==
    ASSUME NEW a \in Nat, NEW n \in Nat \ {0}
    PROVE  AlignUp(a, n) \in Nat /\ AlignUp(a, n) >= a
<1>1. (a % n) \in 0..(n - 1)
  OBVIOUS
<1>2. n - (a % n) \in Nat
  BY <1>1
<1>3. ((n - (a % n)) % n) \in 0..(n - 1)
  BY <1>2
<1> QED BY <1>3 DEF AlignUp

\* Every set of numbers that is not empty has a least element.
LEMMA LeastNat ==
    ASSUME NEW T \in SUBSET Nat, T # {}
    PROVE  \E x \in T : \A y \in T : x =< y
<1> DEFINE U == {0..n : n \in T}
           R == StrictSubsetOrdering(Nat)
<1>1. \A n \in Nat : 0..n \in FiniteSubsetsOf(Nat)
  <2>1. \A n \in Nat : IsFiniteSet(0..n)
    BY FS_Interval
  <2> QED BY <2>1 DEF FiniteSubsetsOf
<1>2. U # {} /\ U \subseteq FiniteSubsetsOf(Nat)
  BY <1>1
<1>3. IsWellFoundedOn(R, FiniteSubsetsOf(Nat))
  BY FS_StrictSubsetOrderingWellFounded
<1>4. PICK u \in U : \A v \in U : ~ (<<v, u>> \in R)
  <2> HIDE DEF R, U
  <2> QED BY <1>2, <1>3, WFMin
<1>5. PICK x \in T : u = 0..x
  BY <1>4
<1>6. ASSUME NEW y \in T, y < x PROVE FALSE
  <2>1. 0..y \in U /\ 0..y \subseteq 0..x /\ x \in 0..x /\ x \notin 0..y
    BY <1>6
  <2>2. <<0..y, 0..x>> \in R
    BY <2>1 DEF StrictSubsetOrdering
  <2> QED BY <1>4, <1>5, <2>1, <2>2
<1> QED BY <1>6

\* A sequence of numbers has a bound: otherwise take the shortest prefix
\* without one.
LEMMA SeqBounded ==
    ASSUME NEW n \in Nat, NEW g \in [1..n -> Nat]
    PROVE  \E b \in Nat : \A i \in 1..n : g[i] =< b
<1> DEFINE Bounded(k) == \E b \in Nat : \A i \in 1..k : g[i] =< b
           Bad == {k \in 0..n : ~ Bounded(k)}
<1>1. SUFFICES ASSUME Bad # {} PROVE FALSE
  <2>1. n \in 0..n /\ n \notin {} /\ (n \notin Bad => Bounded(n))
    <3> HIDE DEF Bounded
    <3> QED OBVIOUS
  <2> QED BY <2>1, Zenon
<1>2. PICK k \in Bad : \A j \in Bad : k =< j
  <2>1. Bad \in SUBSET Nat
    OBVIOUS
  <2> HIDE DEF Bad
  <2> QED BY <1>1, <2>1, LeastNat
<1>3. k # 0
  OBVIOUS
<1>4. PICK b \in Nat : \A i \in 1..(k - 1) : g[i] =< b
  <2>1. Bounded(k - 1)
    <3> HIDE DEF Bounded
    <3> QED BY <1>2, <1>3
  <2> QED BY <2>1
<1>5. g[k] \in Nat
  BY <1>3
<1>6. \A i \in 1..k : g[i] =< b + g[k]
  BY <1>4, <1>5
<1>7. Bounded(k)
  <2>1. b + g[k] \in Nat
    BY <1>5
  <2> QED BY <1>6, <2>1
<1> QED
  <2> HIDE DEF Bounded
  <2> QED BY <1>2, <1>7

\* So it has a least and a greatest element: load_span's min() and max().
LEMMA Extremes ==
    ASSUME NEW n \in Nat \ {0}, NEW g \in [1..n -> Nat]
    PROVE  LET S == {g[i] : i \in 1..n} IN
           /\ Min(S) \in Nat /\ Max(S) \in Nat
           /\ \A i \in 1..n : Min(S) =< g[i] /\ g[i] =< Max(S)
<1> DEFINE S == {g[i] : i \in 1..n}
           Above == {b \in Nat : \A x \in S : x =< b}
<1>1. S \in SUBSET Nat /\ S # {}
  BY 1 \in 1..n
<1>2. Above # {}
  <2>1. PICK b \in Nat : \A i \in 1..n : g[i] =< b
    BY SeqBounded
  <2>2. \A x \in S : x =< b
    BY <2>1
  <2> QED BY <2>2
<1>3. \E x \in S : \A y \in S : x =< y
  <2> HIDE DEF S
  <2> QED BY <1>1, LeastNat
<1>4. PICK m \in Above : \A b \in Above : m =< b
  <2>1. Above \in SUBSET Nat
    OBVIOUS
  <2> HIDE DEF Above
  <2> QED BY <1>2, <2>1, LeastNat
<1>5. m \in S
  <2> SUFFICES ASSUME m \notin S PROVE FALSE
    OBVIOUS
  <2> HIDE DEF S
  <2>1. m \in Nat /\ m # 0
    <3>1. PICK x \in S : x =< m
      BY <1>1
    <3> QED BY <1>1, <3>1
  <2>2. m - 1 \in Above
    BY <1>1, <2>1
  <2> QED BY <1>4, <2>1, <2>2
<1>6. \A x \in S : x =< m
  OBVIOUS
<1> HIDE DEF S, Above
<1>7. Min(S) \in S /\ \A y \in S : Min(S) =< y
  BY <1>3 DEF Min
<1>8. Max(S) \in S /\ \A y \in S : Max(S) >= y
  <2>1. \A y \in S : m >= y
    BY <1>1, <1>5, <1>6
  <2> QED BY <1>5, <2>1 DEF Max
<1>9. \A i \in 1..n : g[i] \in S
  BY DEF S
<1> QED BY <1>1, <1>7, <1>8, <1>9 DEF S

\* The span of a file runs from its lowest to its highest address.
LEMMA SpanCovers ==
    ASSUME NEW f \in Files, f.loads # << >>
    PROVE  /\ MinVaddr(f) \in Nat /\ MaxVaddr(f) \in Nat /\ Span(f) \in Nat
           /\ \A i \in DOMAIN f.loads : f.loads[i].vaddr + f.loads[i].memsz =< MaxVaddr(f)
<1> DEFINE n == Len(f.loads)
           lo == [i \in 1..n |-> f.loads[i].vaddr]
           hi == [i \in 1..n |-> f.loads[i].vaddr + f.loads[i].memsz]
<1>1. n \in Nat \ {0} /\ DOMAIN f.loads = 1..n /\ \A i \in 1..n : f.loads[i] \in LoadHeader
  <2>1. f.loads \in Seq(LoadHeader)
    BY FileAssumption
  <2> QED BY <2>1
<1>2. lo \in [1..n -> Nat] /\ hi \in [1..n -> Nat]
  BY <1>1 DEF LoadHeader
<1>3. {f.loads[i].vaddr : i \in DOMAIN f.loads} = {lo[i] : i \in 1..n}
  BY <1>1
<1>4. {f.loads[i].vaddr + f.loads[i].memsz : i \in DOMAIN f.loads} = {hi[i] : i \in 1..n}
  BY <1>1
<1>5. /\ MinVaddr(f) \in Nat /\ MaxVaddr(f) \in Nat
      /\ \A i \in 1..n : MinVaddr(f) =< lo[i] /\ hi[i] =< MaxVaddr(f)
  <2> HIDE DEF n, lo, hi
  <2> QED BY <1>1, <1>2, <1>3, <1>4, Extremes DEF MinVaddr, MaxVaddr
<1>6. \A i \in 1..n : lo[i] =< hi[i] /\ hi[i] = f.loads[i].vaddr + f.loads[i].memsz
  BY <1>1 DEF LoadHeader
<1>7. MinVaddr(f) =< MaxVaddr(f)
  <2>1. 1 \in 1..n
    BY <1>1
  <2>2. lo[1] \in Nat /\ hi[1] \in Nat
    BY <1>2, <2>1
  <2> HIDE DEF lo, hi
  <2>3. MinVaddr(f) =< lo[1] /\ lo[1] =< hi[1] /\ hi[1] =< MaxVaddr(f)
    BY <2>1, <1>5, <1>6
  <2> QED BY <1>5, <2>2, <2>3
<1>8. Span(f) \in Nat
  BY <1>5, <1>7 DEF Span
<1>9. \A i \in DOMAIN f.loads : f.loads[i].vaddr + f.loads[i].memsz =< MaxVaddr(f)
  <2> HIDE DEF lo, hi, n
  <2> QED BY <1>1, <1>5, <1>6
<1> QED BY <1>5, <1>8, <1>9

\* A slot holds the image it is for.
LEMMA SlotFits ==
    ASSUME NEW f \in Files, f.loads # << >>
    PROVE  /\ TotalMapped(f) \in Nat /\ SlotSize(TotalMapped(f)) \in Nat
           /\ TotalMapped(f) =< SlotSize(TotalMapped(f))
<1>1. Span(f) \in Nat
  BY SpanCovers
<1>2. TotalMapped(f) \in Nat
  BY <1>1, AlignUpGrows, LoaderAssumption DEF TotalMapped
<1> HIDE DEF TotalMapped
<1>3. AlignUp(TotalMapped(f), SlotAlign) \in Nat /\ AlignUp(TotalMapped(f), SlotAlign) >= TotalMapped(f)
  BY <1>2, AlignUpGrows, LoaderAssumption
<1> QED BY <1>2, <1>3, LoaderAssumption DEF SlotSize

\* A step that keeps the bases and files of the calls keeps the order.
LEMMA SlotsKept ==
    ASSUME SlotOrder, next' = next, load' \in [Loads -> CallRecord],
           \A l \in Loads : /\ load'[l].base = load[l].base
                            /\ HasSlot(l) => load'[l].file = load[l].file
                            /\ load'[l].pc = "idle" => load[l].pc = "idle"
    PROVE  SlotOrder'
<1>1. \A l \in Loads : HasSlot(l)' <=> HasSlot(l)
  BY DEF HasSlot
<1>2. \A l \in Loads : HasSlot(l) => SlotEnd(l)' = SlotEnd(l)
  BY DEF SlotEnd
<1> QED BY <1>1, <1>2, Zenon DEF SlotOrder

\* What a call does after its reservation changes its place and segment only.
LEMMA FieldsKept ==
    ASSUME NEW r \in CallRecord, NEW p \in Places, NEW n \in Nat
    PROVE  /\ [r EXCEPT !.pc = p] \in CallRecord
           /\ [r EXCEPT !.pc = p].base = r.base /\ [r EXCEPT !.pc = p].file = r.file
           /\ [r EXCEPT !.pc = p].pc = p
           /\ [r EXCEPT !.seg = n] \in CallRecord
           /\ [r EXCEPT !.seg = n].base = r.base /\ [r EXCEPT !.seg = n].file = r.file
           /\ [r EXCEPT !.seg = n].pc = r.pc
BY DEF CallRecord

\* A load that only changes its place keeps the order of the slots.
LEMMA GotoKeeps ==
    ASSUME SlotOrder, NEW l \in Loads, NEW p \in Places \ {"idle"},
           Goto(l, p), next' = next
    PROVE  SlotOrder'
<1>1. load \in [Loads -> CallRecord] /\ load[l] \in CallRecord
  BY DEF SlotOrder
<1>2. load' = [load EXCEPT ![l] = [load[l] EXCEPT !.pc = p]]
  BY Zenon DEF Goto
<1> DEFINE r == [load[l] EXCEPT !.pc = p]
<1>3. r \in CallRecord /\ r.base = load[l].base /\ r.file = load[l].file /\ r.pc = p
  BY <1>1, FieldsKept, Zenon
<1> HIDE DEF r
<1>4. load' = [load EXCEPT ![l] = r]
  BY <1>2 DEF r
<1> QED BY <1>1, <1>3, <1>4, SlotsKept

\* alloc_slot: the new slot begins where all others have ended.
LEMMA BeginKeeps ==
    ASSUME SlotOrder, NEW l \in Loads, NEW f \in Files, Begin(l, f)
    PROVE  SlotOrder'
<1>1. load \in [Loads -> CallRecord] /\ load[l] \in CallRecord /\ ~ HasSlot(l)
  BY DEF SlotOrder, Begin
<1>2. CASE ~ f.pie \/ f.loads = << >>
  <2> DEFINE r == [load[l] EXCEPT !.pc = "failed", !.file = f]
  <2>1. load' = [load EXCEPT ![l] = r] /\ next' = next
    BY <1>2, Zenon DEF Begin
  <2>2. r \in CallRecord /\ r.base = load[l].base /\ r.pc = "failed"
    BY <1>1 DEF CallRecord, Places
  <2> HIDE DEF r
  <2> QED BY <1>1, <2>1, <2>2, SlotsKept
<1>3. CASE ~ (~ f.pie \/ f.loads = << >>)
  <2> DEFINE size == SlotSize(TotalMapped(f))
             r == [pc |-> "reserve", file |-> f, base |-> next, seg |-> 1]
  <2>1. next' = next + size /\ load' = [load EXCEPT ![l] = r]
    BY <1>3 DEF Begin
  <2>2. size \in Nat /\ TotalMapped(f) \in Nat /\ TotalMapped(f) =< size
    BY <1>3, SlotFits
  <2>3. next \in Nat \ {0}
    BY DEF SlotOrder
  <2>4. r \in CallRecord /\ r.base = next /\ r.file = f /\ r.pc = "reserve"
    BY <2>3 DEF CallRecord, Places
  <2> HIDE DEF r, size
  <2>5. /\ load' \in [Loads -> CallRecord] /\ load'[l] = r
        /\ \A k \in Loads \ {l} : load'[k] = load[k]
    BY <1>1, <2>1, <2>4
  <2>6. HasSlot(l)' /\ SlotEnd(l)' = next + TotalMapped(f)
    BY <2>3, <2>4, <2>5 DEF HasSlot, SlotEnd
  <2>7. \A k \in Loads \ {l} : (HasSlot(k)' <=> HasSlot(k)) /\ SlotEnd(k)' = SlotEnd(k)
    BY <2>5 DEF HasSlot, SlotEnd
  <2>8. \A k \in Loads \ {l} : HasSlot(k) => SlotEnd(k) \in Nat /\ SlotEnd(k) =< next
    <3> SUFFICES ASSUME NEW k \in Loads \ {l}, HasSlot(k)
                 PROVE  SlotEnd(k) \in Nat /\ SlotEnd(k) =< next
      OBVIOUS
    <3>1. TotalMapped(load[k].file) \in Nat /\ load[k].base \in Nat /\ SlotEnd(k) =< next
      BY SlotFits DEF SlotOrder, CallRecord
    <3> QED BY <3>1 DEF SlotEnd
  <2>9. next' \in Nat \ {0}
    BY <2>1, <2>2, <2>3
  <2>10. \A k \in Loads : load'[k].pc = "idle" => ~ HasSlot(k)'
    BY <2>4, <2>5, <2>7 DEF SlotOrder
  <2>11. \A k \in Loads : HasSlot(k)' =>
            /\ load'[k].file \in Files /\ load'[k].file.loads # << >>
            /\ SlotEnd(k)' =< next'
    <3> SUFFICES ASSUME NEW k \in Loads, HasSlot(k)'
                 PROVE  /\ load'[k].file \in Files /\ load'[k].file.loads # << >>
                        /\ SlotEnd(k)' =< next'
      OBVIOUS
    <3>1. CASE k = l
      BY <3>1, <1>3, <2>1, <2>2, <2>3, <2>4, <2>5, <2>6
    <3>2. CASE k # l
      <4>1. load'[k].file = load[k].file /\ HasSlot(k) /\ SlotEnd(k)' = SlotEnd(k)
        BY <3>2, <2>5, <2>7
      <4>2. load[k].file \in Files /\ load[k].file.loads # << >>
        BY <4>1 DEF SlotOrder
      <4>3. SlotEnd(k)' =< next'
        BY <3>2, <4>1, <2>1, <2>2, <2>3, <2>8
      <4> QED BY <4>1, <4>2, <4>3
    <3> QED BY <3>1, <3>2
  <2>12. \A k1, k2 \in Loads :
            HasSlot(k1)' /\ HasSlot(k2)' /\ k1 # k2
               => SlotEnd(k1)' =< load'[k2].base \/ SlotEnd(k2)' =< load'[k1].base
    <3> SUFFICES ASSUME NEW k1 \in Loads, NEW k2 \in Loads,
                        HasSlot(k1)', HasSlot(k2)', k1 # k2
                 PROVE  SlotEnd(k1)' =< load'[k2].base \/ SlotEnd(k2)' =< load'[k1].base
      OBVIOUS
    <3>1. CASE k1 = l
      BY <3>1, <2>4, <2>5, <2>7, <2>8
    <3>2. CASE k2 = l
      BY <3>2, <2>4, <2>5, <2>7, <2>8
    <3>3. CASE k1 # l /\ k2 # l
      BY <3>3, <2>5, <2>7 DEF SlotOrder
    <3> QED BY <3>1, <3>2, <3>3
  <2> QED BY <2>5, <2>9, <2>10, <2>11, <2>12 DEF SlotOrder
<1> QED BY <1>2, <1>3

\* Every step keeps the order.
LEMMA SlotOrderNext == SlotOrder /\ [Next]_vars => SlotOrder'
<1> SUFFICES ASSUME SlotOrder, [Next]_vars PROVE SlotOrder'
  OBVIOUS
<1>1. CASE UNCHANGED vars
  BY <1>1, SlotsKept DEF vars, SlotOrder
<1>2. ASSUME NEW l \in Loads, NEW f \in Files, Begin(l, f) PROVE SlotOrder'
  BY <1>2, BeginKeeps
<1>3. ASSUME NEW l \in Loads, Reserve(l) PROVE SlotOrder'
  BY <1>3, GotoKeeps DEF Reserve, Fail, Places
<1>4. ASSUME NEW l \in Loads, MapSegment(l) PROVE SlotOrder'
  <2>1. next' = next
    BY <1>4 DEF MapSegment
  <2>2. CASE Fail(l)
    BY <2>1, <2>2, GotoKeeps DEF Fail, Places
  <2> DEFINE last == load[l].seg = Len(load[l].file.loads)
             p == IF last THEN "relocate" ELSE "map"
             n == IF last THEN load[l].seg ELSE load[l].seg + 1
             q == [load[l] EXCEPT !.pc = p]
             r == [q EXCEPT !.seg = n]
  <2>3. CASE load' = [load EXCEPT ![l].pc = IF last THEN "relocate" ELSE "map",
                                  ![l].seg = IF last THEN @ ELSE @ + 1]
    <3>1. load \in [Loads -> CallRecord] /\ load[l] \in CallRecord
      BY DEF SlotOrder
    <3>2. p \in Places /\ p # "idle"
      BY DEF Places
    <3>3. n \in Nat
      BY <3>1 DEF CallRecord
    <3>4. load' = [load EXCEPT ![l] = r]
      BY <2>3, <3>1 DEF CallRecord
    <3> HIDE DEF p, n
    <3>q. q \in CallRecord /\ q.base = load[l].base /\ q.file = load[l].file /\ q.pc = p
      BY <3>1, <3>2, <3>3, FieldsKept, Zenon
    <3> HIDE DEF q
    <3>5. r \in CallRecord /\ r.base = load[l].base /\ r.file = load[l].file /\ r.pc = p
      BY <3>2, <3>3, <3>q, FieldsKept, Zenon
    <3> HIDE DEF r
    <3> QED BY <2>1, <3>1, <3>2, <3>4, <3>5, SlotsKept
  <2> QED BY <1>4, <2>2, <2>3 DEF MapSegment
<1>5. ASSUME NEW l \in Loads, Relocate(l) PROVE SlotOrder'
  <2>1. next' = next /\ (Goto(l, "failed") \/ Goto(l, "fault") \/ Goto(l, "loaded"))
    BY <1>5 DEF Relocate, Fail
  <2> QED BY <2>1, GotoKeeps DEF Places
<1>6. ASSUME NEW l \in Loads, Release(l) PROVE SlotOrder'
  BY <1>6, GotoKeeps DEF Release, Places
<1> QED BY <1>1, <1>2, <1>3, <1>4, <1>5, <1>6 DEF Next

\* Initially no call has a slot.
LEMMA SlotOrderInit == Init => SlotOrder
BY LoaderAssumption DEF Init, SlotOrder, HasSlot, CallRecord, Places

\* Ordered slots have no word in common.
LEMMA OrderedSlotsDisjoint == SlotOrder => SlotsDisjoint
<1> SUFFICES ASSUME SlotOrder, NEW l1 \in Loads, NEW l2 \in Loads,
                    HasSlot(l1), HasSlot(l2), l1 # l2
             PROVE  Reserved(l1) \cap Reserved(l2) = {}
  BY DEF SlotsDisjoint
<1>1. SlotEnd(l1) =< load[l2].base \/ SlotEnd(l2) =< load[l1].base
  BY DEF SlotOrder
<1>2. /\ load[l1].base \in Nat /\ TotalMapped(load[l1].file) \in Nat
      /\ load[l2].base \in Nat /\ TotalMapped(load[l2].file) \in Nat
  BY SlotFits DEF SlotOrder, CallRecord
<1> QED BY <1>1, <1>2 DEF SlotEnd, Reserved

\* Whatever files are loaded by however many threads, two reservations of
\* load_pie have no word in common: alloc_slot's fetch_add of the image's
\* size, rounded up, is enough without a lock.
THEOREM SlotsNeverOverlap == Spec => []SlotsDisjoint
BY SlotOrderInit, SlotOrderNext, OrderedSlotsDisjoint, PTL DEF Spec

-----------------------------------------------------------------------------
(* Ownership of the words *)

\* Rounding up gives the next multiple.
LEMMA AlignUpMultiple ==
    ASSUME NEW a \in Nat, NEW n \in Nat \ {0}
    PROVE  AlignUp(a, n) < a + n /\ \E q \in Nat : AlignUp(a, n) = n * q
<1> DEFINE d == a \div n
           r == a % n
<1>1. d \in Nat /\ r \in 0..(n - 1) /\ a = n * d + r
  OBVIOUS
<1>2. CASE r = 0
  <2>1. (n - r) % n = 0
    BY <1>2
  <2>2. AlignUp(a, n) = n * d
    BY <1>1, <1>2, <2>1 DEF AlignUp
  <2> QED BY <1>1, <1>2, <2>2
<1>3. CASE r # 0
  <2>1. n - r \in 1..(n - 1)
    BY <1>1, <1>3
  <2>2. (n - r) % n = n - r
    <3> HIDE DEF r
    <3> QED BY <2>1
  <2>3. AlignUp(a, n) = a + (n - r)
    BY <2>2 DEF AlignUp
  <2> HIDE DEF d, r
  <2>4. n * (d + 1) = n * d + n
    BY <1>1
  <2>5. AlignUp(a, n) = n * (d + 1)
    BY <1>1, <2>3, <2>4
  <2>6. d + 1 \in Nat /\ AlignUp(a, n) < a + n
    BY <1>1, <2>1, <2>3
  <2> QED BY <2>5, <2>6
<1> QED BY <1>2, <1>3

\* So it keeps the order of addresses.
LEMMA AlignUpMonotone ==
    ASSUME NEW a \in Nat, NEW b \in Nat, NEW n \in Nat \ {0}, a =< b
    PROVE  AlignUp(a, n) =< AlignUp(b, n)
<1>1. PICK p \in Nat : AlignUp(a, n) = n * p
  BY AlignUpMultiple
<1>2. PICK q \in Nat : AlignUp(b, n) = n * q
  BY AlignUpMultiple
<1>3. n * p < a + n /\ b =< n * q
  BY <1>1, <1>2, AlignUpMultiple, AlignUpGrows
<1>4. SUFFICES ASSUME n * q < n * p PROVE FALSE
  <2>1. n * p \in Nat /\ n * q \in Nat
    OBVIOUS
  <2> QED BY <1>1, <1>2, <2>1
<1>5. q < p
  BY <1>4
<1>6. n * (q + 1) =< n * p /\ n * (q + 1) = n * q + n
  BY <1>5
<1> QED BY <1>3, <1>6

\* Rounding down gives a natural number that is not above the address.
LEMMA AlignDownNat ==
    ASSUME NEW a \in Nat, NEW n \in Nat \ {0}
    PROVE  AlignDown(a, n) \in Nat /\ AlignDown(a, n) =< a
<1> DEFINE d == a \div n
           r == a % n
<1>1. d \in Nat /\ r \in 0..(n - 1) /\ a = n * d + r
  OBVIOUS
<1>2. n * d \in Nat
  BY <1>1
<1>3. AlignDown(a, n) = a - r
  BY DEF AlignDown
<1> HIDE DEF d, r
<1> QED BY <1>1, <1>2, <1>3

\* The pages of every segment of a PIE lie in its reservation.
LEMMA PagesReserved ==
    ASSUME NEW f \in Files, f.pie, f.loads # << >>, NEW i \in DOMAIN f.loads, NEW b \in Nat
    PROVE  Pages(b, f.loads[i]) \subseteq b..(b + TotalMapped(f) - 1)
<1> DEFINE s == f.loads[i]
<1>1. s.vaddr \in Nat /\ s.memsz \in Nat
  <2>1. f.loads \in Seq(LoadHeader)
    BY FileAssumption
  <2>2. s \in LoadHeader
    BY <2>1
  <2> QED BY <2>2 DEF LoadHeader
<1>2. Span(f) = MaxVaddr(f) /\ MaxVaddr(f) \in Nat /\ s.vaddr + s.memsz =< MaxVaddr(f)
  <2>1. MinVaddr(f) = 0
    BY FileAssumption
  <2> QED BY <2>1, SpanCovers DEF Span
<1>3. AlignDown(s.vaddr, PageSize) \in Nat
  BY <1>1, AlignDownNat, LoaderAssumption
<1> HIDE DEF s
<1>4. s.vaddr + s.memsz \in Nat
  BY <1>1
<1>5. AlignUp(s.vaddr + s.memsz, PageSize) =< TotalMapped(f)
  BY <1>2, <1>4, AlignUpMonotone, LoaderAssumption DEF TotalMapped
<1>6. AlignUp(s.vaddr + s.memsz, PageSize) \in Nat /\ TotalMapped(f) \in Nat
  BY <1>4, AlignUpGrows, LoaderAssumption, SlotFits
<1>7. Pages(b, s) \subseteq b..(b + TotalMapped(f) - 1)
  BY <1>3, <1>5, <1>6 DEF Pages
<1> QED BY <1>7 DEF s

\* A call that has passed alloc_slot, and one that holds its reservation.
Slotted == {"reserve", "map", "relocate", "loaded"}
Holding == {"map", "relocate", "loaded"}

\* A call that has a slot loads a PIE that fits, and owns what it reserved.
OwnCall(l) ==
    /\ load[l].pc \in Slotted => HasSlot(l) /\ load[l].file.pie /\ SlotEnd(l) =< MaxAddr
    /\ load[l].pc \in {"reserve", "map"} => load[l].seg \in DOMAIN load[l].file.loads
    /\ load[l].pc \in Holding => \A a \in Reserved(l) : mem[a].own = l

\* The inductive invariant: a call owns every word of its reservation from
\* mmap to munmap.
OwnInv ==
    /\ SlotOrder
    /\ \A a \in Addr : DOMAIN mem[a] = {"own", "val", "prot"}
    /\ \A l \in Loads : OwnCall(l)

\* A reservation is a range of addresses.
LEMMA ReservedAddr ==
    ASSUME OwnInv, NEW l \in Loads, load[l].pc \in Slotted
    PROVE  /\ Reserved(l) \subseteq Addr
           /\ load[l].base \in Nat /\ TotalMapped(load[l].file) \in Nat
           /\ load[l].file \in Files /\ load[l].file.loads # << >> /\ load[l].file.pie
<1>1. HasSlot(l) /\ load[l].file.pie /\ SlotEnd(l) =< MaxAddr
  BY DEF OwnInv, OwnCall
<1>2. load[l].base \in Nat /\ load[l].file \in Files /\ load[l].file.loads # << >>
  BY <1>1 DEF OwnInv, SlotOrder, CallRecord
<1>3. TotalMapped(load[l].file) \in Nat
  BY <1>2, SlotFits
<1> HIDE DEF TotalMapped
<1>4. Reserved(l) \subseteq Addr
  BY <1>1, <1>2, <1>3, LoaderAssumption DEF Reserved, Addr, SlotEnd
<1> QED BY <1>1, <1>2, <1>3, <1>4

\* What the steps after alloc_slot leave alone in load.
OnlyMoves(l) ==
    /\ \A k \in Loads \ {l} : load'[k] = load[k]
    /\ load'[l].base = load[l].base /\ load'[l].file = load[l].file

\* A load that changes its place moves no other.
LEMMA GotoMoves ==
    ASSUME SlotOrder, NEW l \in Loads, NEW p, Goto(l, p)
    PROVE  OnlyMoves(l) /\ load'[l].pc = p /\ load'[l].seg = load[l].seg
<1>1. load \in [Loads -> CallRecord] /\ load[l] \in CallRecord
  BY DEF SlotOrder
<1>2. load' = [load EXCEPT ![l] = [load[l] EXCEPT !.pc = p]]
  BY Zenon DEF Goto
<1> DEFINE r == [load[l] EXCEPT !.pc = p]
<1>3. r.base = load[l].base /\ r.file = load[l].file /\ r.pc = p /\ r.seg = load[l].seg
  BY <1>1 DEF CallRecord
<1> HIDE DEF r
<1>4. load' = [load EXCEPT ![l] = r]
  BY <1>2 DEF r
<1> QED BY <1>1, <1>3, <1>4 DEF OnlyMoves

\* A step of one call that gives and takes words of its own reservation only
\* keeps what the others own.
LEMMA OwnFrame ==
    ASSUME OwnInv, SlotOrder', NEW l \in Loads, load[l].pc \in Slotted, OnlyMoves(l),
           \A a \in Addr : DOMAIN mem'[a] = {"own", "val", "prot"},
           \A a \in Addr \ Reserved(l) : mem'[a].own = mem[a].own,
           load'[l].pc = "map" => load'[l].seg \in DOMAIN load[l].file.loads,
           load'[l].pc \in Slotted => load'[l].pc \in Holding,
           load'[l].pc \in Holding => \A a \in Reserved(l) : mem'[a].own = l
    PROVE  OwnInv'
<1>1. ASSUME NEW k \in Loads \ {l} PROVE OwnCall(k)'
  <2>1. /\ load'[k] = load[k] /\ OwnCall(k) /\ OwnCall(l)
        /\ Reserved(k)' = Reserved(k) /\ HasSlot(k)' = HasSlot(k) /\ SlotEnd(k)' = SlotEnd(k)
    BY <1>1 DEF OnlyMoves, Reserved, HasSlot, SlotEnd, OwnInv
  <2>2. ASSUME load[k].pc \in Holding, NEW a \in Reserved(k) PROVE mem'[a].own = k
    <3>1. a \in Addr /\ mem[a].own = k
      BY <2>1, <2>2, ReservedAddr DEF Slotted, Holding, OwnCall
    <3>2. HasSlot(k) /\ HasSlot(l)
      BY <2>1, <2>2 DEF OwnCall, Slotted, Holding
    <3>3. a \notin Reserved(l)
      BY <1>1, <2>2, <3>2, OrderedSlotsDisjoint DEF SlotsDisjoint, OwnInv
    <3> QED BY <3>1, <3>3
  <2> QED BY <2>1, <2>2 DEF OwnCall
<1>2. OwnCall(l)'
  <2>1. OwnCall(l) /\ HasSlot(l)
    BY DEF OwnInv, OwnCall
  <2>2. Reserved(l)' = Reserved(l) /\ HasSlot(l)' = HasSlot(l) /\ SlotEnd(l)' = SlotEnd(l)
    BY DEF OnlyMoves, Reserved, HasSlot, SlotEnd
  <2> QED BY <2>1, <2>2 DEF OwnCall, OnlyMoves, Slotted, Holding
<1> QED BY <1>1, <1>2 DEF OwnInv

\* No load owns anything at the start.
LEMMA OwnInit == Init => OwnInv
<1> SUFFICES ASSUME Init PROVE OwnInv
  OBVIOUS
<1>1. \A a \in Addr : DOMAIN mem[a] = {"own", "val", "prot"}
  BY DEF Init, Unmapped
<1>2. \A l \in Loads : OwnCall(l)
  BY DEF Init, OwnCall, Slotted, Holding
<1> QED BY <1>1, <1>2, SlotOrderInit DEF OwnInv

\* What OwnersKeepTheirWords says of a step.
KeepsOwners == \A a \in Addr : mem[a].own # None => mem'[a].own \in {mem[a].own, None}

\* The slot that alloc_slot hands out lies in the address space; what the
\* others own stays as it was.
LEMMA BeginOwn ==
    ASSUME OwnInv, NEW l \in Loads, NEW f \in Files, Begin(l, f)
    PROVE  OwnInv' /\ KeepsOwners
<1>1. load \in [Loads -> CallRecord] /\ mem' = mem /\ SlotOrder' /\ next \in Nat \ {0}
  BY BeginKeeps DEF OwnInv, SlotOrder, Begin
<1>2. \A k \in Loads \ {l} : load'[k] = load[k]
  BY <1>1 DEF Begin
<1>3. ASSUME NEW k \in Loads \ {l} PROVE OwnCall(k)'
  <2>1. OwnCall(k) /\ load'[k] = load[k]
    BY <1>2 DEF OwnInv
  <2>2. Reserved(k)' = Reserved(k) /\ HasSlot(k)' = HasSlot(k) /\ SlotEnd(k)' = SlotEnd(k)
    BY <2>1 DEF Reserved, HasSlot, SlotEnd
  <2> QED BY <1>1, <2>1, <2>2 DEF OwnCall
<1>4. OwnCall(l)'
  <2>1. CASE ~ f.pie \/ f.loads = << >>
    <3>1. load'[l].pc = "failed"
      <4>1. load[l] \in CallRecord
        BY <1>1
      <4>2. load' = [load EXCEPT ![l] = [load[l] EXCEPT !.pc = "failed", !.file = f]]
        BY <2>1, Zenon DEF Begin
      <4>3. [load[l] EXCEPT !.pc = "failed", !.file = f].pc = "failed"
        BY <4>1 DEF CallRecord
      <4> QED BY <1>1, <4>2, <4>3
    <3> QED BY <3>1 DEF OwnCall, Slotted, Holding
  <2>2. CASE ~ (~ f.pie \/ f.loads = << >>)
    <3> DEFINE r == [pc |-> "reserve", file |-> f, base |-> next, seg |-> 1]
    <3>1. load' = [load EXCEPT ![l] = r] /\ next + SlotSize(TotalMapped(f)) =< MaxAddr
      BY <2>2 DEF Begin
    <3>2. load'[l] = r
      BY <1>1, <3>1
    <3>3. load'[l].pc = "reserve" /\ load'[l].file = f /\ load'[l].base = next
      BY <3>2
    <3>4. TotalMapped(f) \in Nat /\ SlotSize(TotalMapped(f)) \in Nat
          /\ TotalMapped(f) =< SlotSize(TotalMapped(f))
      BY <2>2, SlotFits
    <3> HIDE DEF TotalMapped, SlotSize, r
    <3>5. SlotEnd(l)' =< MaxAddr /\ HasSlot(l)'
      BY <1>1, <3>1, <3>3, <3>4, LoaderAssumption DEF SlotEnd, HasSlot
    <3>6. load'[l].seg \in DOMAIN f.loads
      <4>1. f.loads \in Seq(LoadHeader) /\ load'[l].seg = 1
        BY <3>2, FileAssumption DEF r
      <4> QED BY <2>2, <4>1
    <3> QED BY <2>2, <3>3, <3>5, <3>6 DEF OwnCall, Holding
  <2> QED BY <2>1, <2>2
<1>5. OwnInv'
  BY <1>1, <1>3, <1>4 DEF OwnInv
<1> QED BY <1>1, <1>5 DEF KeepsOwners

\* MAP_FIXED_NOREPLACE takes words that nobody owns.
LEMMA ReserveOwn ==
    ASSUME OwnInv, NEW l \in Loads, Reserve(l)
    PROVE  OwnInv' /\ KeepsOwners
<1>1. load[l].pc = "reserve" /\ SlotOrder /\ SlotOrder' /\ Reserved(l) \subseteq Addr
  BY ReservedAddr, GotoKeeps DEF OwnInv, Reserve, Slotted, Fail, Places
<1>2. CASE /\ \A a \in Reserved(l) : mem[a].own = None
           /\ mem' = [a \in Addr |-> IF a \in Reserved(l)
                                       THEN [own |-> l, val |-> Zero, prot |-> "none"]
                                       ELSE mem[a]]
           /\ Goto(l, "map")
  <2>1. /\ \A a \in Reserved(l) : mem'[a] = [own |-> l, val |-> Zero, prot |-> "none"]
        /\ \A a \in Addr \ Reserved(l) : mem'[a] = mem[a]
    BY <1>1, <1>2
  <2>2. /\ \A a \in Addr : DOMAIN mem'[a] = {"own", "val", "prot"}
        /\ \A a \in Reserved(l) : mem'[a].own = l
    BY <2>1 DEF OwnInv
  <2>3. OnlyMoves(l) /\ load'[l].pc = "map" /\ load'[l].seg = load[l].seg
    BY <1>1, <1>2, GotoMoves
  <2>4. load[l].seg \in DOMAIN load[l].file.loads
    BY <1>1 DEF OwnInv, OwnCall
  <2>5. OwnInv'
    BY <1>1, <2>1, <2>2, <2>3, <2>4, OwnFrame DEF Slotted, Holding
  <2>6. KeepsOwners
    BY <1>2, <2>1 DEF KeepsOwners
  <2> QED BY <2>5, <2>6
<1>3. CASE Fail(l) /\ mem' = mem
  <2>1. OnlyMoves(l) /\ load'[l].pc = "failed"
    BY <1>1, <1>3, GotoMoves DEF Fail
  <2>2. OwnInv'
    BY <1>1, <1>3, <2>1, OwnFrame DEF Slotted, Holding, OwnInv
  <2> QED BY <1>3, <2>2 DEF KeepsOwners
<1> QED BY <1>2, <1>3 DEF Reserve

\* map_load_segment succeeded: the next segment, or the relocations.
Advance(l) ==
    LET last == load[l].seg = Len(load[l].file.loads) IN
    load' = [load EXCEPT ![l].pc = IF last THEN "relocate" ELSE "map",
                         ![l].seg = IF last THEN @ ELSE @ + 1]

\* After the last segment a load goes on to relocate, before it to the next
\* one.
LEMMA AdvanceMoves ==
    ASSUME SlotOrder, NEW l \in Loads, Advance(l)
    PROVE  /\ OnlyMoves(l)
           /\ load[l].seg = Len(load[l].file.loads) =>
                 load'[l].pc = "relocate" /\ load'[l].seg = load[l].seg
           /\ load[l].seg # Len(load[l].file.loads) =>
                 load'[l].pc = "map" /\ load'[l].seg = load[l].seg + 1
<1> DEFINE last == load[l].seg = Len(load[l].file.loads)
           p == IF last THEN "relocate" ELSE "map"
           n == IF last THEN load[l].seg ELSE load[l].seg + 1
           r == [load[l] EXCEPT !.pc = p, !.seg = n]
<1>1. load \in [Loads -> CallRecord] /\ load[l] \in CallRecord
  BY DEF SlotOrder
<1>2. load' = [load EXCEPT ![l] = r]
  BY <1>1 DEF Advance, CallRecord
<1>3. r.base = load[l].base /\ r.file = load[l].file /\ r.pc = p /\ r.seg = n
  <2> HIDE DEF p, n
  <2> QED BY <1>1 DEF CallRecord
<1>4. load'[l] = r /\ \A k \in Loads \ {l} : load'[k] = load[k]
  <2> HIDE DEF r
  <2> QED BY <1>1, <1>2
<1> HIDE DEF r
<1> QED BY <1>3, <1>4 DEF OnlyMoves

\* MAP_FIXED over the pages of a segment: they are the call's own.
LEMMA MapSegmentOwn ==
    ASSUME OwnInv, NEW l \in Loads, MapSegment(l)
    PROVE  OwnInv' /\ KeepsOwners
<1> DEFINE P == Pages(load[l].base, Segment(l))
           f == load[l].file
<1>1. load[l].pc = "map" /\ SlotOrder
  BY DEF OwnInv, MapSegment
<1>2. SlotOrder'
  <2>1. Next
    BY DEF Next
  <2> QED BY <1>1, <2>1, SlotOrderNext
<1>3. /\ load[l].base \in Nat /\ f \in Files /\ f.pie /\ f.loads # << >>
      /\ Reserved(l) \subseteq Addr
  BY <1>1, ReservedAddr DEF Slotted
<1>4. load[l].seg \in DOMAIN f.loads /\ \A a \in Reserved(l) : mem[a].own = l
  BY <1>1 DEF OwnInv, OwnCall, Holding
<1>5. P \subseteq Reserved(l)
  BY <1>3, <1>4, PagesReserved DEF Reserved, Segment
<1>6. ASSUME NEW word, NEW prot, Mapped(l, word, prot)
      PROVE  /\ \A a \in Addr : DOMAIN mem'[a] = {"own", "val", "prot"}
             /\ \A a \in Addr \ Reserved(l) : mem'[a] = mem[a]
             /\ \A a \in Reserved(l) : mem'[a].own = l
  <2> HIDE DEF P
  <2>1. /\ \A a \in P : mem'[a] = [own |-> l, val |-> word[a], prot |-> prot]
        /\ \A a \in Addr \ P : mem'[a] = mem[a]
    BY <1>3, <1>5, <1>6 DEF Mapped, P
  <2>2. ASSUME NEW a \in P
        PROVE  DOMAIN mem'[a] = {"own", "val", "prot"} /\ mem'[a].own = l
    <3>1. PICK v : v = word[a]
      OBVIOUS
    <3>2. mem'[a] = [own |-> l, val |-> v, prot |-> prot]
      BY <2>1, <3>1
    <3> QED BY <3>2
  <2> QED BY <1>3, <1>4, <1>5, <2>1, <2>2 DEF OwnInv
<1>7. /\ \A a \in Addr : DOMAIN mem'[a] = {"own", "val", "prot"}
      /\ \A a \in Addr \ Reserved(l) : mem'[a] = mem[a]
      /\ \A a \in Reserved(l) : mem'[a].own = l
  <2>1. CASE mem' = mem
    BY <2>1, <1>4 DEF OwnInv
  <2>2. CASE \E word, prot : Mapped(l, word, prot)
    BY <2>2, <1>6
  <2> QED BY <2>1, <2>2, Zenon DEF MapSegment
<1>8. CASE Fail(l)
  <2>1. OnlyMoves(l) /\ load'[l].pc = "failed"
    BY <1>1, <1>8, GotoMoves DEF Fail
  <2> QED BY <1>1, <1>2, <1>4, <1>7, <2>1, OwnFrame DEF Slotted, Holding, KeepsOwners
<1>9. CASE Advance(l)
  <2>1. OnlyMoves(l) /\ load'[l].pc \in {"map", "relocate"}
    BY <1>1, <1>9, AdvanceMoves
  <2>2. load'[l].pc = "map" => load'[l].seg \in DOMAIN f.loads
    <3>1. f.loads \in Seq(LoadHeader)
      BY <1>3, FileAssumption
    <3>2. load'[l].pc = "map" => load'[l].seg = load[l].seg + 1 /\ load[l].seg # Len(f.loads)
      BY <1>1, <1>9, AdvanceMoves
    <3> QED BY <1>4, <3>1, <3>2
  <2> QED BY <1>1, <1>2, <1>4, <1>7, <2>1, <2>2, OwnFrame DEF Slotted, Holding, KeepsOwners
<1> QED BY <1>8, <1>9 DEF MapSegment, Advance

\* Relocations change the contents of words, not their owners.
LEMMA RelocateOwn ==
    ASSUME OwnInv, NEW l \in Loads, Relocate(l)
    PROVE  OwnInv' /\ KeepsOwners
<1>1. load[l].pc = "relocate" /\ SlotOrder
  BY DEF OwnInv, Relocate
<1>2. SlotOrder'
  <2>1. Next
    BY DEF Next
  <2> QED BY <1>1, <2>1, SlotOrderNext
<1>3. Reserved(l) \subseteq Addr /\ \A a \in Reserved(l) : mem[a].own = l
  BY <1>1, ReservedAddr DEF Slotted, OwnInv, OwnCall, Holding
<1>4. \A a \in Addr : DOMAIN mem'[a] = {"own", "val", "prot"} /\ mem'[a].own = mem[a].own
  <2>1. ASSUME NEW w, NEW v, DOMAIN w = {"own", "val", "prot"}
        PROVE  DOMAIN [w EXCEPT !.val = v] = {"own", "val", "prot"}
               /\ [w EXCEPT !.val = v].own = w.own
    BY <2>1
  <2>2. \A a \in Addr : DOMAIN mem[a] = {"own", "val", "prot"}
    BY DEF OwnInv
  <2>3. \A a \in Addr : mem'[a] = mem[a] \/ \E v : mem'[a] = [mem[a] EXCEPT !.val = v]
    BY Zenon DEF Relocate
  <2> QED BY <2>1, <2>2, <2>3, Zenon
<1>5. OnlyMoves(l) /\ load'[l].pc \in {"failed", "fault", "loaded"}
  <2>1. Goto(l, "failed") \/ Goto(l, "fault") \/ Goto(l, "loaded")
    BY DEF Relocate, Fail
  <2> QED BY <1>1, <2>1, GotoMoves
<1>6. OwnInv'
  BY <1>1, <1>2, <1>3, <1>4, <1>5, OwnFrame DEF Slotted, Holding
<1> QED BY <1>4, <1>6 DEF KeepsOwners

\* munmap(base, total_size) frees the call's own words.
LEMMA ReleaseOwn ==
    ASSUME OwnInv, NEW l \in Loads, Release(l)
    PROVE  OwnInv' /\ KeepsOwners
<1>1. load[l].pc = "loaded" /\ SlotOrder /\ SlotOrder'
  BY GotoKeeps DEF OwnInv, Release, Places
<1>2. Reserved(l) \subseteq Addr
  BY <1>1, ReservedAddr DEF Slotted
<1>3. /\ \A a \in Reserved(l) : mem'[a] = Unmapped
      /\ \A a \in Addr \ Reserved(l) : mem'[a] = mem[a]
  BY <1>2 DEF Release
<1>4. Unmapped.own = None /\ DOMAIN Unmapped = {"own", "val", "prot"}
  BY DEF Unmapped
<1>5. \A a \in Addr : DOMAIN mem'[a] = {"own", "val", "prot"}
  BY <1>3, <1>4 DEF OwnInv
<1>6. OnlyMoves(l) /\ load'[l].pc = "released"
  BY <1>1, GotoMoves DEF Release
<1>7. OwnInv'
  BY <1>1, <1>3, <1>5, <1>6, OwnFrame DEF Slotted, Holding
<1> QED BY <1>3, <1>4, <1>7 DEF KeepsOwners

\* Every step keeps the invariant and the owners.
LEMMA OwnNext == OwnInv /\ [Next]_vars => OwnInv' /\ (KeepsOwners \/ UNCHANGED vars)
<1> SUFFICES ASSUME OwnInv, [Next]_vars PROVE OwnInv' /\ (KeepsOwners \/ UNCHANGED vars)
  OBVIOUS
<1>1. CASE UNCHANGED vars
  <2>1. next' = next /\ load' = load /\ mem' = mem
    BY <1>1 DEF vars
  <2>2. SlotOrder'
    BY SlotOrderNext DEF OwnInv
  <2> QED BY <1>1, <2>1, <2>2 DEF OwnInv, OwnCall, HasSlot, SlotEnd, Reserved
<1> QED BY <1>1, BeginOwn, ReserveOwn, MapSegmentOwn, RelocateOwn, ReleaseOwn DEF Next

\* For any number of calls, any files and any refusals, a word that somebody
\* has mapped stays theirs until it is unmapped: the MAP_FIXED of
\* map_load_segment never replaces another mapping.
THEOREM MappingsAreNeverReplaced == Spec => OwnersKeepTheirWords
<1>1. OwnInv /\ [Next]_vars => [\A a \in Addr : mem[a].own # None => mem'[a].own \in {mem[a].own, None}]_vars
  BY OwnNext DEF KeepsOwners
<1> QED BY <1>1, OwnInit, OwnNext, PTL DEF Spec, OwnersKeepTheirWords

-----------------------------------------------------------------------------
(* The image *)

\* The word that map_load_segment leaves at a for segment s.
MappedWord(l, s, a) ==
    LET o == a - load[l].base - s.vaddr IN
    [own |-> l, prot |-> ProtFromFlags(s),
     val |-> IF o \in 0..(s.filesz - 1) THEN <<"file", s.off + o>> ELSE Zero]

\* The segments that are mapped.
SegmentsDone(l) ==
    {i \in DOMAIN load[l].file.loads : load[l].pc = "map" => i < load[l].seg}

\* Every word of every segment is the file's, relocated.
ImageDone(l) ==
    LET f == load[l].file b == load[l].base IN
    \A i \in DOMAIN f.loads :
        LET s == f.loads[i] IN
        \A v \in s.vaddr..(s.vaddr + s.memsz - 1) :
            mem[b + v] = [own |-> l, val |-> ReferenceWord(f, b, s, v), prot |-> ProtFromFlags(s)]

\* What a call has done so far is right, and it does not fault.
ImageCall(l) ==
    /\ load[l].pc # "fault"
    /\ load[l].pc = "reserve" => load[l].seg = 1
    /\ load[l].pc \in {"map", "relocate"} =>
          \A i \in SegmentsDone(l) :
              LET s == load[l].file.loads[i] IN
              \A a \in Pages(load[l].base, s) : mem[a] = MappedWord(l, s, a)
    /\ load[l].pc = "loaded" => ImageDone(l)

\* The inductive invariant: the segments a call has mapped hold the file's
\* words, and its relocations make them the image.
ImageInv == OwnInv /\ \A l \in Loads : ImageCall(l)

\* The words of a segment lie in its pages, and the pages move with the base.
LEMMA SegmentPages ==
    ASSUME NEW f \in Files, NEW i \in DOMAIN f.loads, NEW b \in Nat
    PROVE  LET s == f.loads[i] IN
           /\ s.vaddr \in Nat /\ s.memsz \in Nat /\ s.filesz \in Nat /\ s.off \in Nat
           /\ \A v \in s.vaddr..(s.vaddr + s.memsz - 1) : b + v \in Pages(b, s)
           /\ \A a \in Pages(b, s) : a \in Int /\ a - b \in Pages(0, s)
<1> DEFINE s == f.loads[i]
<1>1. s.vaddr \in Nat /\ s.memsz \in Nat /\ s.filesz \in Nat /\ s.off \in Nat
  <2>1. f.loads \in Seq(LoadHeader)
    BY FileAssumption
  <2>2. s \in LoadHeader
    BY <2>1
  <2> QED BY <2>2 DEF LoadHeader
<1> HIDE DEF s
<1> DEFINE lo == AlignDown(s.vaddr, PageSize)
           hi == AlignUp(s.vaddr + s.memsz, PageSize)
<1>2. lo \in Nat /\ lo =< s.vaddr
  BY <1>1, AlignDownNat, LoaderAssumption
<1>3. s.vaddr + s.memsz \in Nat
  BY <1>1
<1>4. hi \in Nat /\ hi >= s.vaddr + s.memsz
  BY <1>3, AlignUpGrows, LoaderAssumption
<1>5. Pages(b, s) = (b + lo)..(b + hi - 1) /\ Pages(0, s) = (0 + lo)..(0 + hi - 1)
  BY DEF Pages
<1> HIDE DEF lo, hi
<1>6. /\ \A v \in s.vaddr..(s.vaddr + s.memsz - 1) : b + v \in Pages(b, s)
      /\ \A a \in Pages(b, s) : a \in Int /\ a - b \in Pages(0, s)
  BY <1>1, <1>2, <1>4, <1>5
<1> QED BY <1>1, <1>6 DEF s

\* What a call has loaded depends on its record and the memory alone.
LEMMA ImageSame ==
    ASSUME NEW k, ImageCall(k), load'[k] = load[k], mem' = mem
    PROVE  ImageCall(k)'
<1>1. SegmentsDone(k)' = SegmentsDone(k)
  BY DEF SegmentsDone
<1>2. \A s, a : MappedWord(k, s, a)' = MappedWord(k, s, a)
  BY DEF MappedWord
<1>3. ImageDone(k) => ImageDone(k)'
  BY DEF ImageDone
<1> QED BY <1>1, <1>2, <1>3 DEF ImageCall

\* A step of one call keeps what the others have loaded, when it writes to
\* its own reservation only.
LEMMA ImageFrame ==
    ASSUME ImageInv, NEW l \in Loads, load[l].pc \in Slotted, OnlyMoves(l),
           \A a \in Addr \ Reserved(l) : mem'[a] = mem[a],
           NEW k \in Loads \ {l}
    PROVE  ImageCall(k)'
<1>1. load'[k] = load[k] /\ ImageCall(k) /\ OwnInv
  BY DEF OnlyMoves, ImageInv
<1>2. ASSUME load[k].pc \in Holding, NEW a \in Reserved(k) PROVE mem'[a] = mem[a]
  <2>1. a \in Addr
    BY <1>1, <1>2, ReservedAddr DEF Slotted, Holding
  <2>2. HasSlot(k) /\ HasSlot(l)
    BY <1>1, <1>2 DEF OwnInv, OwnCall, Slotted, Holding
  <2>3. a \notin Reserved(l)
    BY <1>1, <1>2, <2>2, OrderedSlotsDisjoint DEF SlotsDisjoint, OwnInv
  <2> QED BY <2>1, <2>3
<1>3. ASSUME load[k].pc \in Holding, NEW i \in DOMAIN load[k].file.loads,
             NEW a \in Pages(load[k].base, load[k].file.loads[i])
      PROVE  mem'[a] = mem[a]
  <2>1. /\ load[k].base \in Nat /\ load[k].file \in Files /\ load[k].file.loads # << >>
        /\ load[k].file.pie
    BY <1>1, <1>3, ReservedAddr DEF Slotted, Holding
  <2>2. a \in Reserved(k)
    BY <1>3, <2>1, PagesReserved DEF Reserved
  <2> QED BY <1>2, <1>3, <2>2
<1>4. ASSUME load[k].pc \in {"map", "relocate"}, NEW i \in SegmentsDone(k),
             NEW a \in Pages(load[k].base, load[k].file.loads[i])
      PROVE  mem'[a] = MappedWord(k, load[k].file.loads[i], a)
  BY <1>1, <1>3, <1>4 DEF ImageCall, Holding, SegmentsDone
<1>5. SegmentsDone(k)' = SegmentsDone(k)
  BY <1>1 DEF SegmentsDone
<1>6. \A s, a : MappedWord(k, s, a)' = MappedWord(k, s, a)
  BY <1>1 DEF MappedWord
<1>7. ASSUME load[k].pc = "loaded" PROVE ImageDone(k)'
  <2>1. load[k].base \in Nat /\ load[k].file \in Files
    BY <1>1, <1>7, ReservedAddr DEF Slotted
  <2> SUFFICES ASSUME NEW i \in DOMAIN load[k].file.loads,
                      NEW v \in load[k].file.loads[i].vaddr
                                ..(load[k].file.loads[i].vaddr + load[k].file.loads[i].memsz - 1)
               PROVE  mem'[load[k].base + v] = mem[load[k].base + v]
    <3>1. ImageDone(k)
      BY <1>1, <1>7 DEF ImageCall
    <3> HIDE DEF ReferenceWord
    <3> QED BY <1>1, <3>1 DEF ImageDone
  <2>2. load[k].base + v \in Pages(load[k].base, load[k].file.loads[i])
    BY <2>1, SegmentPages
  <2> QED BY <1>3, <1>7, <2>2 DEF Holding
<1>8. PICK f, b : f = load[k].file /\ b = load[k].base
  OBVIOUS
<1>9. load[k].pc \in {"map", "relocate"} =>
          \A i \in SegmentsDone(k)' :
              \A a \in Pages(b, f.loads[i]) : mem'[a] = MappedWord(k, f.loads[i], a)'
  BY <1>4, <1>5, <1>6, <1>8
<1>10. load'[k].file = f /\ load'[k].base = b
  BY <1>1, <1>8
<1> QED BY <1>1, <1>7, <1>9, <1>10 DEF ImageCall

\* No image is mapped at the start.
LEMMA ImageInit == Init => ImageInv
BY OwnInit DEF Init, ImageInv, ImageCall

\* Reading the headers maps nothing.
LEMMA BeginImage ==
    ASSUME ImageInv, NEW l \in Loads, NEW f \in Files, Begin(l, f)
    PROVE  \A k \in Loads : ImageCall(k)'
<1>1. load \in [Loads -> CallRecord] /\ mem' = mem
  BY DEF ImageInv, OwnInv, SlotOrder, Begin
<1>2. ASSUME NEW k \in Loads \ {l} PROVE ImageCall(k)'
  <2>1. load'[k] = load[k] /\ ImageCall(k)
    BY <1>1 DEF Begin, ImageInv
  <2> QED BY <1>1, <2>1, ImageSame
<1>3. ImageCall(l)'
  <2>1. load[l] \in CallRecord
    BY <1>1
  <2>2. \/ load'[l] = [load[l] EXCEPT !.pc = "failed", !.file = f]
        \/ load'[l] = [pc |-> "reserve", file |-> f, base |-> next, seg |-> 1]
    BY <1>1 DEF Begin
  <2>3. load'[l].pc = "failed" \/ (load'[l].pc = "reserve" /\ load'[l].seg = 1)
    <3>1. [load[l] EXCEPT !.pc = "failed", !.file = f].pc = "failed"
      BY <2>1 DEF CallRecord
    <3>2. CASE load'[l] = [load[l] EXCEPT !.pc = "failed", !.file = f]
      BY <3>1, <3>2, Zenon
    <3>3. CASE load'[l] = [pc |-> "reserve", file |-> f, base |-> next, seg |-> 1]
      BY <3>3
    <3> QED BY <2>2, <3>2, <3>3
  <2> QED BY <2>3 DEF ImageCall
<1> QED BY <1>2, <1>3

\* Reserving the range makes room for the image, of which nothing is there
\* yet.
LEMMA ReserveImage ==
    ASSUME ImageInv, NEW l \in Loads, Reserve(l)
    PROVE  \A k \in Loads : ImageCall(k)'
<1>1. load[l].pc = "reserve" /\ SlotOrder /\ OwnInv /\ load[l].seg = 1
  BY DEF ImageInv, ImageCall, OwnInv, Reserve
<1>2. \A a \in Addr \ Reserved(l) : mem'[a] = mem[a]
  BY DEF Reserve
<1>3. OnlyMoves(l) /\ load'[l].pc \in {"map", "failed"} /\ load'[l].seg = 1
  BY <1>1, GotoMoves DEF Reserve, Fail
<1>4. load'[l].pc = "map" => SegmentsDone(l)' = {}
  <2>1. load[l].file \in Files
    BY <1>1, ReservedAddr DEF Slotted
  <2>2. load[l].file.loads \in Seq(LoadHeader)
    BY <2>1, FileAssumption
  <2>3. \A i \in DOMAIN load[l].file.loads : ~ (i < 1)
    BY <2>2
  <2> QED BY <1>3, <2>3 DEF SegmentsDone, OnlyMoves
<1>5. ImageCall(l)'
  BY <1>3, <1>4 DEF ImageCall
<1> QED BY <1>1, <1>2, <1>3, <1>5, ImageFrame DEF Slotted

\* A segment is mapped beside the ones before it.
LEMMA MapSegmentImage ==
    ASSUME ImageInv, NEW l \in Loads, MapSegment(l)
    PROVE  \A k \in Loads : ImageCall(k)'
<1>1. load[l].pc = "map" /\ SlotOrder /\ OwnInv /\ ImageCall(l)
  BY DEF ImageInv, OwnInv, MapSegment
<1>2. PICK f, b, n : f = load[l].file /\ b = load[l].base /\ n = load[l].seg
  OBVIOUS
<1>3. /\ b \in Nat /\ f \in Files /\ f.pie /\ f.loads # << >> /\ Reserved(l) \subseteq Addr
      /\ n \in DOMAIN f.loads
  BY <1>1, <1>2, ReservedAddr DEF Slotted, OwnInv, OwnCall
<1>4. f.loads \in Seq(LoadHeader) /\ n \in 1..Len(f.loads) /\ DOMAIN f.loads = 1..Len(f.loads)
  <2>1. f.loads \in Seq(LoadHeader)
    BY <1>3, FileAssumption
  <2> QED BY <1>3, <2>1
<1>5. \A i \in DOMAIN f.loads : Pages(b, f.loads[i]) \subseteq Reserved(l)
  BY <1>2, <1>3, PagesReserved DEF Reserved
<1>6. \A a \in Addr \ Reserved(l) : mem'[a] = mem[a]
  <2>1. CASE mem' = mem
    BY <2>1
  <2>2. ASSUME NEW word, NEW prot, Mapped(l, word, prot)
        PROVE  \A a \in Addr \ Reserved(l) : mem'[a] = mem[a]
    BY <1>2, <1>3, <1>5, <2>2 DEF Mapped, Segment
  <2> QED BY <2>1, <2>2, Zenon DEF MapSegment
<1>7. CASE Fail(l)
  <2>1. OnlyMoves(l) /\ load'[l].pc = "failed"
    BY <1>1, <1>7, GotoMoves DEF Fail
  <2>2. ImageCall(l)'
    BY <2>1 DEF ImageCall
  <2> QED BY <1>1, <1>6, <2>1, <2>2, ImageFrame DEF Slotted
<1>8. CASE /\ Advance(l)
           /\ Mapped(l, [a \in Addr |-> SegmentWord(l, a)], ProtFromFlags(Segment(l)))
  <2>1. OnlyMoves(l) /\ load'[l].pc \in {"map", "relocate"}
    BY <1>1, <1>8, AdvanceMoves
  <2>2. SegmentsDone(l)' = SegmentsDone(l) \cup {n}
    <3>1. load'[l].file = f
      BY <1>2, <2>1 DEF OnlyMoves
    <3>2. CASE n = Len(f.loads)
      <4>1. load'[l].pc = "relocate"
        BY <1>1, <1>2, <1>8, <3>2, AdvanceMoves
      <4>2. SegmentsDone(l)' = DOMAIN f.loads
        BY <3>1, <4>1 DEF SegmentsDone
      <4>3. SegmentsDone(l) = {i \in DOMAIN f.loads : i < n}
        BY <1>1, <1>2 DEF SegmentsDone
      <4> QED BY <1>4, <3>2, <4>2, <4>3
    <3>3. CASE n # Len(f.loads)
      <4>1. load'[l].pc = "map" /\ load'[l].seg = n + 1
        BY <1>1, <1>2, <1>8, <3>3, AdvanceMoves
      <4>2. SegmentsDone(l)' = {i \in DOMAIN f.loads : i < n + 1}
        BY <3>1, <4>1 DEF SegmentsDone
      <4>3. SegmentsDone(l) = {i \in DOMAIN f.loads : i < n}
        BY <1>1, <1>2 DEF SegmentsDone
      <4> QED BY <1>4, <4>2, <4>3
    <3> QED BY <3>2, <3>3
  <2>3. \A s, a : MappedWord(l, s, a)' = MappedWord(l, s, a)
    BY <2>1 DEF MappedWord, OnlyMoves
  <2>4. ASSUME NEW i \in SegmentsDone(l), NEW a \in Pages(b, f.loads[i])
        PROVE  mem'[a] = MappedWord(l, f.loads[i], a)
    <3>1. i \in DOMAIN f.loads /\ i # n
      BY <1>1, <1>2, <1>4, <2>4 DEF SegmentsDone
    <3>2. a - b \in Pages(0, f.loads[i]) /\ (a \in Pages(b, f.loads[n]) => a - b \in Pages(0, f.loads[n]))
      BY <1>3, <2>4, <3>1, SegmentPages
    <3>3. a \notin Pages(b, f.loads[n])
      BY <1>3, <3>1, <3>2, LayoutAssumption
    <3>4. a \in Addr
      BY <1>3, <1>5, <2>4, <3>1
    <3>5. mem'[a] = mem[a]
      BY <1>2, <1>8, <3>3, <3>4 DEF Mapped, Segment
    <3> QED BY <1>1, <1>2, <2>4, <3>5 DEF ImageCall
  <2>5. ASSUME NEW a \in Pages(b, f.loads[n])
        PROVE  mem'[a] = MappedWord(l, f.loads[n], a)
    <3>1. a \in Addr
      BY <1>3, <1>5, <2>5
    <3>2. Segment(l) = f.loads[n]
      BY <1>2 DEF Segment
    <3>3. mem'[a] = [own |-> l, val |-> SegmentWord(l, a), prot |-> ProtFromFlags(f.loads[n])]
      <4> HIDE DEF SegmentWord, ProtFromFlags
      <4> QED BY <1>2, <1>8, <2>5, <3>1, <3>2 DEF Mapped
    <3> HIDE DEF ProtFromFlags
    <3> QED BY <3>2, <3>3 DEF MappedWord, SegmentWord
  <2>6. \A i \in SegmentsDone(l)' :
            \A a \in Pages(b, f.loads[i]) : mem'[a] = MappedWord(l, f.loads[i], a)'
    BY <2>2, <2>3, <2>4, <2>5
  <2>7. load'[l].file = f /\ load'[l].base = b
    BY <1>2, <2>1 DEF OnlyMoves
  <2>8. ImageCall(l)'
    BY <2>1, <2>6, <2>7 DEF ImageCall
  <2> QED BY <1>1, <1>6, <2>1, <2>8, ImageFrame DEF Slotted
<1> QED BY <1>7, <1>8 DEF MapSegment, Advance

\* In a file that is accepted the table that is applied is the true one.
LEMMA TrueTable ==
    ASSUME NEW f \in Files, f.pie, f.loads # << >>, ~ \E o \in RelaOffsets(f) : o >= f.size
    PROVE  TrueRelocations(f) = Relocations(f)
<1>1. \A o \in RelaOffsets(f) : OffsetOf(f, o) = o
  BY LayoutAssumption
<1>2. {OffsetOf(f, v) : v \in RelaOffsets(f)} = RelaOffsets(f)
  BY <1>1
<1> QED BY <1>2 DEF TrueRelocations, Relocations

\* Relocations are written to mapped, writable words of the call's own
\* image, and complete it.
LEMMA RelocateImage ==
    ASSUME ImageInv, NEW l \in Loads, Relocate(l)
    PROVE  \A k \in Loads : ImageCall(k)'
<1>1. load[l].pc = "relocate" /\ SlotOrder /\ OwnInv /\ ImageCall(l)
  BY DEF ImageInv, OwnInv, Relocate
<1>2. PICK f, b : f = load[l].file /\ b = load[l].base
  OBVIOUS
<1>3. b \in Nat /\ f \in Files /\ f.pie /\ f.loads # << >> /\ Reserved(l) \subseteq Addr
  BY <1>1, <1>2, ReservedAddr DEF Slotted
<1>4. \A i \in DOMAIN f.loads : Pages(b, f.loads[i]) \subseteq Reserved(l)
  BY <1>2, <1>3, PagesReserved DEF Reserved
<1>5. \A i \in DOMAIN f.loads : \A a \in Pages(b, f.loads[i]) : mem[a] = MappedWord(l, f.loads[i], a)
  BY <1>1, <1>2 DEF ImageCall, SegmentsDone
<1> DEFINE targets == {b + r.target : r \in Relocations(f)}
<1>6. ASSUME NEW r \in Relocations(f)
      PROVE  r.target \in Int /\ b + r.target \in Reserved(l) /\ mem[b + r.target].prot = "rw"
  <2>1. PICK i \in DOMAIN f.loads :
            f.loads[i].w /\ r.target \in f.loads[i].vaddr..(f.loads[i].vaddr + f.loads[i].memsz - 1)
    BY <1>3, <1>6, LayoutAssumption
  <2>2. f.loads[i].vaddr \in Nat /\ f.loads[i].memsz \in Nat /\ b + r.target \in Pages(b, f.loads[i])
    BY <1>3, <2>1, SegmentPages
  <2>3. r.target \in Int
    BY <2>1, <2>2
  <2>4. mem[b + r.target] = MappedWord(l, f.loads[i], b + r.target)
    BY <1>5, <2>2
  <2>5. MappedWord(l, f.loads[i], b + r.target).prot = "rw"
    BY <2>1 DEF MappedWord, ProtFromFlags
  <2> QED BY <1>4, <2>2, <2>3, <2>4, <2>5
<1>7. targets \subseteq Reserved(l) /\ \A a \in targets : mem[a].prot = "rw"
  BY <1>6
<1>8. CASE Fail(l) /\ mem' = mem
  <2>1. OnlyMoves(l) /\ load'[l].pc = "failed"
    BY <1>1, <1>8, GotoMoves DEF Fail
  <2>2. ImageCall(l)'
    BY <2>1 DEF ImageCall
  <2> QED BY <1>1, <1>8, <2>1, <2>2, ImageFrame DEF Slotted
<1> DEFINE word(a) == <<"addr", b + (CHOOSE r \in Relocations(f) : b + r.target = a).addend>>
<1>9. CASE /\ ~ \E o \in RelaOffsets(f) : o >= f.size
           /\ mem' = [a \in Addr |-> IF a \in targets THEN [mem[a] EXCEPT !.val = word(a)]
                                                        ELSE mem[a]]
           /\ Goto(l, "loaded")
  <2>1. OnlyMoves(l) /\ load'[l].pc = "loaded"
    BY <1>1, <1>9, GotoMoves
  <2>2. \A a \in Addr \ Reserved(l) : mem'[a] = mem[a]
    <3> HIDE DEF word, targets
    <3> QED BY <1>7, <1>9
  <2>3. TrueRelocations(f) = Relocations(f)
    BY <1>3, <1>9, TrueTable
  <2>4. ASSUME NEW i \in DOMAIN f.loads,
               NEW v \in f.loads[i].vaddr..(f.loads[i].vaddr + f.loads[i].memsz - 1)
        PROVE  mem'[b + v] = [own |-> l, val |-> ReferenceWord(f, b, f.loads[i], v),
                              prot |-> ProtFromFlags(f.loads[i])]
    <3> DEFINE s == f.loads[i]
               a == b + v
               here == {r \in TrueRelocations(f) : r.target = v}
    <3>1. /\ s.vaddr \in Nat /\ s.memsz \in Nat /\ s.filesz \in Nat /\ s.off \in Nat
          /\ a \in Pages(b, s)
      BY <1>3, <2>4, SegmentPages
    <3>2. v \in Int /\ v >= s.vaddr /\ a \in Addr
      BY <1>3, <1>4, <2>4, <3>1
    <3>3. mem[a] = MappedWord(l, s, a)
      BY <1>5, <3>1
    <3>4. CASE here = {}
      <4>1. a \notin targets
        BY <1>3, <1>6, <2>3, <3>2, <3>4
      <4>2. mem'[a] = mem[a]
        <5> HIDE DEF word, targets, a
        <5> QED BY <1>9, <3>2, <4>1
      <4>3. ReferenceWord(f, b, s, v) = IF v - s.vaddr < s.filesz
                                          THEN <<"file", s.off + (v - s.vaddr)>> ELSE Zero
        BY <3>4 DEF ReferenceWord
      <4>4. a - b - s.vaddr = v - s.vaddr /\ (v - s.vaddr \in 0..(s.filesz - 1) <=> v - s.vaddr < s.filesz)
        <5> HIDE DEF s
        <5> QED BY <1>3, <3>1, <3>2
      <4>5. MappedWord(l, s, a) = [own |-> l, val |-> ReferenceWord(f, b, s, v), prot |-> ProtFromFlags(s)]
        <5> HIDE DEF s, a
        <5> QED BY <1>2, <4>3, <4>4 DEF MappedWord
      <4> QED BY <3>3, <4>2, <4>5
    <3>5. CASE here # {}
      <4>1. PICK r \in here : TRUE
        BY <3>5
      <4>2. r \in Relocations(f) /\ r.target = v
        BY <2>3, <4>1
      <4>3. \A q \in Relocations(f) : b + q.target = a => q = r
        <5> SUFFICES ASSUME NEW q \in Relocations(f), b + q.target = a PROVE q = r
          OBVIOUS
        <5>1. q.target = v
          BY <1>3, <1>6, <3>2
        <5> QED BY <1>3, <4>2, <5>1, LayoutAssumption
      <4>4. (CHOOSE q \in Relocations(f) : b + q.target = a) = r
        BY <4>2, <4>3
      <4>5. (CHOOSE q \in here : TRUE) = r
        <5>1. \A q \in here : q = r
          BY <2>3, <4>2, <4>3
        <5> QED BY <4>1, <5>1
      <4>6. ReferenceWord(f, b, s, v) = <<"addr", b + r.addend>>
        BY <3>5, <4>5 DEF ReferenceWord
      <4>7. word(a) = <<"addr", b + r.addend>>
        BY <4>4
      <4>8. a \in targets
        BY <4>2
      <4>9. mem'[a] = [mem[a] EXCEPT !.val = word(a)]
        <5> HIDE DEF word, targets, a
        <5> QED BY <1>9, <3>2, <4>8
      <4>10. mem'[a] = [MappedWord(l, s, a) EXCEPT !.val = ReferenceWord(f, b, s, v)]
        BY <3>3, <4>6, <4>7, <4>9
      <4> HIDE DEF s, a
      <4>11. mem'[a] = [own |-> l, val |-> ReferenceWord(f, b, s, v), prot |-> ProtFromFlags(s)]
        <5> HIDE DEF ReferenceWord, ProtFromFlags
        <5> QED BY <4>10 DEF MappedWord
      <4> QED BY <4>11 DEF s, a
    <3> QED BY <3>4, <3>5
  <2>5. load'[l].file = f /\ load'[l].base = b
    BY <1>2, <2>1 DEF OnlyMoves
  <2>6. ImageDone(l)'
    <3> HIDE DEF ReferenceWord, ProtFromFlags
    <3> QED BY <2>4, <2>5 DEF ImageDone
  <2>7. ImageCall(l)'
    BY <2>1, <2>6 DEF ImageCall
  <2> QED BY <1>1, <2>1, <2>2, <2>7, ImageFrame DEF Slotted
<1> QED
  <2>1. ~ \E a \in targets : mem[a].prot # "rw"
    BY <1>7
  <2>2. CASE \E o \in RelaOffsets(f) : o >= f.size
    <3>1. Fail(l) /\ mem' = mem
      BY <1>2, <2>2, Zenon DEF Relocate
    <3> QED BY <1>8, <3>1
  <2>3. CASE ~ \E o \in RelaOffsets(f) : o >= f.size
    <3>1. ~ \E a \in {load[l].base + r.target : r \in Relocations(load[l].file)} : mem[a].prot # "rw"
      BY <1>2, <2>1
    <3>2. /\ mem' = [a \in Addr |-> IF a \in targets THEN [mem[a] EXCEPT !.val = word(a)]
                                                      ELSE mem[a]]
          /\ Goto(l, "loaded")
      BY <1>2, <2>3, <3>1 DEF Relocate
    <3> QED BY <1>9, <2>3, <3>2
  <2> QED BY <2>2, <2>3

\* An image is dropped without touching the others.
LEMMA ReleaseImage ==
    ASSUME ImageInv, NEW l \in Loads, Release(l)
    PROVE  \A k \in Loads : ImageCall(k)'
<1>1. load[l].pc = "loaded" /\ SlotOrder
  BY DEF ImageInv, OwnInv, Release
<1>2. \A a \in Addr \ Reserved(l) : mem'[a] = mem[a]
  BY DEF Release
<1>3. OnlyMoves(l) /\ load'[l].pc = "released"
  BY <1>1, GotoMoves DEF Release
<1>4. ImageCall(l)'
  BY <1>3 DEF ImageCall
<1> QED BY <1>1, <1>2, <1>3, <1>4, ImageFrame DEF Slotted

\* Every step keeps the images as far as they are loaded.
LEMMA ImageNext == ImageInv /\ [Next]_vars => ImageInv'
<1> SUFFICES ASSUME ImageInv, [Next]_vars PROVE ImageInv'
  OBVIOUS
<1>1. OwnInv'
  BY OwnNext DEF ImageInv
<1>2. CASE UNCHANGED vars
  <2>1. load' = load /\ mem' = mem
    BY <1>2 DEF vars
  <2>2. \A k \in Loads : ImageCall(k)'
    BY <2>1, ImageSame DEF ImageInv
  <2> QED BY <1>1, <2>2 DEF ImageInv
<1>3. CASE Next
  <2>1. \A k \in Loads : ImageCall(k)'
    BY <1>3, BeginImage, ReserveImage, MapSegmentImage, RelocateImage, ReleaseImage DEF Next
  <2> QED BY <1>1, <2>1 DEF ImageInv
<1> QED BY <1>2, <1>3

\* Whatever else is loaded or dropped at the same time and wherever a system
\* call is refused, an image that load_pie returns is the file: every word
\* of every segment, relocated, with its protection; and no relocation
\* faults.
THEOREM LoadedImagesMatch == Spec => []ImageMatchesFile
<1>1. ImageInv => ImageMatchesFile
  <2> HIDE DEF ReferenceWord, ProtFromFlags
  <2> QED BY DEF ImageInv, ImageCall, ImageDone, ImageMatchesFile
<1> QED BY <1>1, ImageInit, ImageNext, PTL DEF Spec

-----------------------------------------------------------------------------
(* extract_main_addr (MainAddr), for programs of any length.               *)

\* What a search has returned is what the instructions give.
MainInv ==
    /\ code \in Programs
    /\ result # "pending" => result = M!Found

\* The greatest element of a set.
LEMMA MaxIs ==
    ASSUME NEW T \in SUBSET Nat, NEW m \in T, \A y \in T : m >= y
    PROVE  M!Max(T) = m
<1>1. M!Max(T) \in T /\ \A y \in T : M!Max(T) >= y
  BY DEF M!Max
<1>2. M!Max(T) \in Nat /\ m \in Nat /\ M!Max(T) >= m /\ m >= M!Max(T)
  BY <1>1
<1> QED BY <1>2

\* A set of instructions that is not empty has a last one.
LEMMA LastOf ==
    ASSUME NEW n \in Nat, NEW T \in SUBSET (1..n), T # {}
    PROVE  M!Max(T) \in T /\ \A y \in T : M!Max(T) >= y
<1> DEFINE Above == {b \in Nat : \A y \in T : y =< b}
<1>1. n \in Above /\ Above \in SUBSET Nat
  OBVIOUS
<1>2. PICK m \in Above : \A b \in Above : m =< b
  <2> HIDE DEF Above
  <2> QED BY <1>1, LeastNat
<1>3. m \in T
  <2> SUFFICES ASSUME m \notin T PROVE FALSE
    OBVIOUS
  <2>1. m \in Nat /\ m # 0
    <3>1. PICK y \in T : y \in 1..n /\ y =< m
      OBVIOUS
    <3> QED BY <3>1
  <2>2. m - 1 \in Above
    BY <2>1
  <2> QED BY <1>2, <2>1, <2>2
<1>4. \A y \in T : m >= y
  OBVIOUS
<1> HIDE DEF Above
<1> QED BY <1>3, <1>4 DEF M!Max

\* The instructions searched are the first ones.
LEMMA ScannedIs ==
    ASSUME M!MainAssumption, code \in Programs
    PROVE  /\ DOMAIN code = 1..Len(code) /\ Len(code) \in Nat
           /\ \E n \in Nat : M!Scanned = 1..n /\ n =< Len(code)
<1>1. ScanLimit \in Nat /\ DOMAIN code = 1..Len(code) /\ Len(code) \in Nat
  BY DEF M!MainAssumption
<1>2. M!Min({ScanLimit, Len(code)}) \in Nat /\ M!Min({ScanLimit, Len(code)}) =< Len(code)
  <2> DEFINE T == {ScanLimit, Len(code)}
  <2>1. \E v \in T : \A y \in T : v =< y
    BY <1>1
  <2>2. M!Min(T) \in T /\ \A y \in T : M!Min(T) =< y
    <3> HIDE DEF T
    <3> QED BY <2>1 DEF M!Min
  <2> QED BY <1>1, <2>2
<1> QED BY <1>1, <1>2 DEF M!Scanned

\* With one ldr, at i, the pairs are those of i and an adrp of its register.
LEMMA PairsAre ==
    ASSUME M!MainAssumption, code \in Programs, M!Described,
           NEW i \in DOMAIN code, code[i].op = "ldr"
    PROVE  /\ i \in Nat
           /\ \A p \in M!Pairs : p[1] = i /\ p[2] \in M!Written(code[i].reg, i)
           /\ \A k \in M!Written(code[i].reg, i) : <<i, k>> \in M!Pairs
           /\ M!Written(code[i].reg, i) # {} /\ M!Written(code[i].reg, i) \in SUBSET (1..i)
<1> DEFINE ldrs == {k \in DOMAIN code : code[k].op = "ldr"}
<1>1. PICK n \in Nat : M!Scanned = 1..n /\ n =< Len(code)
  BY ScannedIs
<1>2. DOMAIN code = 1..Len(code) /\ Len(code) \in Nat /\ i \in Nat
  BY ScannedIs
<1>3. ldrs = {i} /\ i \in 1..n /\ M!Written(code[i].reg, i) # {}
  BY <1>1 DEF M!Described
<1>5. \A p \in M!Pairs : p[1] = i /\ p[2] \in M!Written(code[i].reg, i)
  <2> TAKE p \in M!Pairs
  <2>1. /\ p[1] \in 1..n /\ p[2] \in 1..n /\ p[2] < p[1]
        /\ code[p[1]].op = "ldr" /\ code[p[2]].op = "adrp" /\ code[p[1]].reg = code[p[2]].reg
    BY <1>1 DEF M!Pairs
  <2>2. p[1] = i
    BY <1>1, <1>2, <1>3, <2>1
  <2> QED BY <1>3, <2>1, <2>2 DEF M!Written
<1>6. \A k \in M!Written(code[i].reg, i) : <<i, k>> \in M!Pairs
  BY <1>1, <1>3 DEF M!Written, M!Pairs
<1>7. M!Written(code[i].reg, i) \in SUBSET (1..i)
  BY <1>2 DEF M!Written
<1> QED BY <1>2, <1>3, <1>5, <1>6, <1>7

\* The slot that the search computes for the last adrp is the one the ldr reads.
LEMMA SlotIsExecuted ==
    ASSUME M!MainAssumption, code \in Programs, M!Described,
           NEW i \in DOMAIN code, code[i].op = "ldr"
    PROVE  M!Executed(i) = M!Slot(i, M!Max(M!Written(code[i].reg, i)))
<1> DEFINE r == code[i].reg
           j == M!Max(M!Written(r, i))
           adds == M!AddsSince(r, j, i)
<1>1. i \in Nat /\ DOMAIN code = 1..Len(code) /\ Len(code) \in Nat
  BY PairsAre, ScannedIs
<1>2. j \in M!Written(r, i)
  BY <1>1, PairsAre, LastOf
<1>3. j \in 1..(i - 1) /\ code[j].op = "adrp"
  BY <1>2 DEF M!Written
<1>4. M!DecodeAdrp(j, code[j].imm) = M!AdrpPage(j, code[j].imm)
  <2>1. j \in DOMAIN code
    BY <1>1, <1>3
  <2>2. code[j].imm \in Immediates
    BY <1>3, <2>1 DEF M!MainAssumption
  <2> QED BY <2>2 DEF M!MainAssumption, M!DecodeAdrp, M!AdrpPage
<1>5. adds \in SUBSET Nat
  BY <1>1, <1>3 DEF M!AddsSince
<1>6. adds = {} \/ \E k \in Nat : adds = {k}
  <2>1. \A a, b \in adds : a = b
    BY DEF M!Described
  <2> HIDE DEF adds
  <2> QED BY <1>5, <2>1
<1> DEFINE added == {code[k].imm : k \in adds}
<1>7. M!Addend(i, j) = IF added = {} THEN 0 ELSE CHOOSE n \in added : TRUE
  <2>1. adds = {k \in (j + 1)..(i - 1) : code[k].op = "add" /\ code[k].reg = code[i].reg}
    BY DEF M!AddsSince
  <2>2. M!Addend(i, j) = IF adds = {} THEN 0 ELSE code[M!Max(adds)].imm
    BY <2>1 DEF M!Addend
  <2> HIDE DEF adds, j
  <2>3. CASE adds = {}
    BY <2>2, <2>3
  <2>4. CASE \E k \in Nat : adds = {k}
    <3>1. PICK k \in Nat : adds = {k}
      BY <2>4
    <3>2. M!Max(adds) = k
      BY <3>1, MaxIs
    <3>3. added = {code[k].imm}
      BY <3>1
    <3> HIDE DEF added
    <3> QED BY <2>2, <3>1, <3>2, <3>3
  <2> QED BY <1>6, <2>3, <2>4
<1>8. M!Executed(i) = <<M!AdrpPage(j, code[j].imm),
                        (IF added = {} THEN 0 ELSE CHOOSE n \in added : TRUE) + code[i].imm * 8>>
  BY DEF M!Executed
<1> HIDE DEF added, adds
<1> QED BY <1>4, <1>7, <1>8 DEF M!Slot

\* On code of the form that its comment describes, of any length and from any
\* address, extract_main_addr returns what the ldr loads, if that is a code
\* address and the adrp reaches no further than 2 GiB.
THEOREM SearchFindsMain ==
    ASSUME M!MainAssumption PROVE M!Spec => []FindsMain
<1>1. M!Init => MainInv
  BY DEF M!Init, MainInv
<1>2. MainInv /\ [M!Next]_(M!vars) => MainInv'
  <2> SUFFICES ASSUME MainInv, [M!Next]_(M!vars) PROVE MainInv'
    OBVIOUS
  <2>1. UNCHANGED <<code, bad>>
    BY DEF M!Next, M!ExtractMainAddr, M!vars
  <2>2. M!Found' = M!Found
    <3>1. M!Pairs' = M!Pairs
      BY <2>1 DEF M!Pairs, M!Scanned
    <3>2. \A i, j : M!Slot(i, j)' = M!Slot(i, j)
      BY <2>1 DEF M!Slot, M!Addend, M!DecodeAdrp, M!PageOf
    <3> QED BY <2>1, <3>1, <3>2 DEF M!Found
  <2>3. result' = M!Found \/ result' = result
    BY DEF M!Next, M!ExtractMainAddr, M!vars
  <2> QED BY <2>1, <2>2, <2>3 DEF MainInv
<1>3. MainInv => FindsMain
  <2> DEFINE i == CHOOSE k \in DOMAIN code : code[k].op = "ldr"
             W == M!Written(code[i].reg, i)
             good == {p \in M!Pairs : M!Slot(p[1], p[2]) \notin bad}
  <2> SUFFICES ASSUME MainInv, M!Described, result # "pending", M!Executed(i) \notin bad
               PROVE  result = M!Executed(i)
    BY DEF FindsMain, M!FindsMain
  <2>1. code \in Programs /\ result = M!Found
    BY DEF MainInv
  <2>2. i \in DOMAIN code /\ code[i].op = "ldr"
    BY DEF M!Described
  <2> HIDE DEF i
  <2>3. /\ i \in Nat /\ W # {} /\ W \in SUBSET (1..i)
        /\ \A p \in M!Pairs : p[1] = i /\ p[2] \in W
        /\ \A k \in W : <<i, k>> \in M!Pairs
    BY <2>1, <2>2, PairsAre
  <2> DEFINE j == M!Max(W)
  <2>4. j \in W /\ \A y \in W : j >= y
    <3> HIDE DEF W
    <3> QED BY <2>3, LastOf
  <2>5. M!Executed(i) = M!Slot(i, j)
    BY <2>1, <2>2, SlotIsExecuted
  <2> HIDE DEF W, j
  <2>6. <<i, j>> \in good
    BY <2>3, <2>4, <2>5
  <2>7. {p[1] : p \in good} = {i}
    BY <2>3, <2>6
  <2>8. M!Min({i}) = i
    BY <2>3 DEF M!Min
  <2>9. M!Max({p[2] : p \in {q \in good : q[1] = i}}) = j
    <3> DEFINE T == {p[2] : p \in {q \in good : q[1] = i}}
    <3>1. T \in SUBSET W /\ j \in T
      BY <2>3, <2>6
    <3> HIDE DEF T
    <3>2. T \in SUBSET Nat /\ \A y \in T : j >= y
      BY <2>3, <2>4, <3>1
    <3>3. M!Max(T) = j
      BY <3>1, <3>2, MaxIs
    <3> QED BY <3>3 DEF T
  <2>10. good # {}
    BY <2>6
  <2>11. M!Found = M!Slot(i, j)
    <3>1. M!Found = IF good = {} THEN "none"
                    ELSE M!Slot(M!Min({p[1] : p \in good}),
                                M!Max({p[2] : p \in {q \in good : q[1] = M!Min({p[1] : p \in good})}}))
      BY DEF M!Found
    <3> HIDE DEF good
    <3> QED BY <2>7, <2>8, <2>9, <2>10, <3>1
  <2> QED BY <2>1, <2>5, <2>11
<1> QED BY <1>1, <1>2, <1>3, PTL DEF M!Spec
=============================================================================
