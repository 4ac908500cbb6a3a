-------------------------- MODULE VfdTablesProofs --------------------------
(***************************************************************************)
(* The fd tables for any number of processes, descriptors, kernel fds and  *)
(* open files, in every scenario.  Five invariants carry the proofs:       *)
(*                                                                         *)
(*   TableInv  types, and every entry is for something that was made;      *)
(*   AllocInv  without dup2, next_fd is above the numbers in use;          *)
(*   LeakInv   every kernel fd is the driver's, the host's or in a table;  *)
(*   OwnInv    every kernel fd has one owner, if the processes keep to     *)
(*             files of their own (OwnFiles);                              *)
(*   SliceInv  fds 0-2 are those of the running process (Isolated).        *)
(*                                                                         *)
(* AbandonedPipesClose rests on the first two, KernelFdsDoNotLeak on the   *)
(* first three, EntriesStayReachable on TableInv and OwnInv,               *)
(* SlicesHaveOwnFds and TablesImplementPosix on AllocInv and SliceInv as   *)
(* well.                                                                   *)
(***************************************************************************)
EXTENDS VfdTables, WellFoundedInduction, TLAPS

\* A leaf that names no prover is tried by Zenon, by the SMT solver, and by
\* Zenon again for longer.
USE ZenonT(3), SMTT(30), ZenonT(60)

(***************************************************************************)
(* In every scenario: a table belongs to a coroutine that exists, and its  *)
(* entries name kernel fds, FileRefs and buffers that have been made, nf   *)
(* and nc of them.                                                         *)
(***************************************************************************)
IsEntry(v, nf, nc) ==
    /\ v \in Vfd
    /\ v.kind = "Real" => v.id \in Kfds
    /\ IsFile(v) => v.id \in 1..nf
    /\ IsPipe(v) => v.id \in 1..nc

\* All entries of a table, of all tables, are.
Backed(t, nf, nc) == IsTable(t) /\ \A fd \in DOMAIN t.fds : IsEntry(t.fds[fd], nf, nc)

\* In all tables.
AllBacked(T, nf, nc) == \A p \in DOMAIN T : Backed(T[p], nf, nc)

\* Types, and every entry is for something that was made.
TableInv ==
    /\ TypeOK
    /\ DOMAIN tables \subseteq live
    /\ AllBacked(tables, Len(filerefs), Len(closed))

\* A number that alloc_fd returns is not in use.
Below(t) == \A fd \in DOMAIN t.fds : fd < t.next_fd

\* Without dup2, which takes numbers of the caller's choice, next_fd is above
\* the numbers in use.
AllocInv ==
    Calls \cap {"dup2", "ffi_dup2"} = {} => \A p \in DOMAIN tables : Below(tables[p])

\* The kernel fd behind an entry, given the FileRefs F, and those of a table.
KernelFd(F, v) == IF v.kind = "Real" THEN v.id ELSE F[v.id].real_fd
KernelEntries(t) == {fd \in DOMAIN t.fds : ~IsPipe(t.fds[fd])}
Uses(F, t) == {KernelFd(F, t.fds[fd]) : fd \in KernelEntries(t)}

-----------------------------------------------------------------------------
(* Maps, numbers and tables.                                               *)

\* Every set of numbers that is not empty has a least element.
LEMMA LeastOf ==
    ASSUME NEW T \in SUBSET Nat, T # {}
    PROVE  \E x \in T : \A y \in T : x <= y
<1> DEFINE R == OpToRel(<, Nat)
<1>1. IsWellFoundedOn(R, Nat)
  BY NatLessThanWellFounded
<1>2. \A x, y \in Nat : x < y => <<x, y>> \in R
  BY DEF OpToRel
<1> HIDE DEF R
<1>3. PICK x \in T : \A y \in T : <<y, x>> \notin R
  BY <1>1, WFMin
<1>4. ASSUME NEW y \in T PROVE x <= y
  <2>1. x \in Nat /\ y \in Nat
    OBVIOUS
  <2>2. ~(y < x)
    BY <1>2, <1>3, <2>1
  <2> QED BY <2>1, <2>2
<1> QED BY <1>4

\* insert: one key has the new value.
LEMMA InsertFacts ==
    ASSUME NEW m, NEW k, NEW v
    PROVE  /\ DOMAIN Insert(m, k, v) = DOMAIN m \cup {k}
           /\ Insert(m, k, v)[k] = v
           /\ \A j \in DOMAIN m \ {k} : Insert(m, k, v)[j] = m[j]
BY DEF Insert

\* remove: the other keys keep their values.
LEMMA WithoutFacts ==
    ASSUME NEW m, NEW S
    PROVE  /\ DOMAIN Without(m, S) = DOMAIN m \ S
           /\ \A j \in DOMAIN m \ S : Without(m, S)[j] = m[j]
BY DEF Without

\* insert and remove keep a map a map.
LEMMA MapFacts ==
    ASSUME NEW m, NEW K, NEW V, IsMap(m, K, V)
    PROVE  /\ \A k \in K, v \in V : IsMap(Insert(m, k, v), K, V)
           /\ \A S : IsMap(Without(m, S), K, V)
BY DEF IsMap, Insert, Without

\* The fields of a table, and a table made of its fields.
LEMMA TableFields ==
    ASSUME NEW f, NEW n, IsMap(f, Fds, Vfd), n \in 3..FdLimit
    PROVE  IsTable([fds |-> f, next_fd |-> n])
BY DEF IsTable

\* alloc_fd: the next number is larger, and free.
LEMMA AllocFacts ==
    ASSUME NEW t, IsTable(t), t.next_fd + 1 < FdLimit
    PROVE  /\ AfterAlloc(t) = [fds |-> t.fds, next_fd |-> AfterAlloc(t).next_fd]
           /\ AfterAlloc(t).next_fd \in (t.next_fd + 1)..FdLimit
           /\ IsTable(AfterAlloc(t))
           /\ AllocFd(t) = t.next_fd /\ t.next_fd \in Fds
<1> DEFINE n == t.next_fd + 1
           S == DOMAIN t.fds
           T == {m \in n..FdLimit : m \notin S}
<1>1. /\ t.next_fd \in 3..FdLimit /\ FdLimit \in Nat
      /\ S \subseteq 0..(FdLimit - 1)
      /\ t = [fds |-> t.fds, next_fd |-> t.next_fd] /\ IsMap(t.fds, Fds, Vfd)
  BY FdLimitAssumption DEF IsTable, IsMap, Fds
<1>2. T \in SUBSET Nat /\ FdLimit \in T
  BY <1>1
<1>3. PICK x \in T : \A y \in T : x <= y
  <2> HIDE DEF T
  <2> QED BY <1>2, LeastOf
<1>4. x \in n..FdLimit /\ x \notin S /\ \A j \in n..(x - 1) : j \in S
  BY <1>1, <1>3
<1>5. FirstUnused(S, n) \in n..FdLimit
  <2> HIDE DEF S, n
  <2> QED BY <1>4 DEF FirstUnused
<1>6. AfterAlloc(t) = [fds |-> t.fds, next_fd |-> FirstUnused(S, n)]
  BY <1>1 DEF AfterAlloc
<1>7. FirstUnused(S, n) \in 3..FdLimit
  <2> DEFINE w == FirstUnused(S, n)
  <2>1. w \in n..FdLimit
    BY <1>5
  <2> HIDE DEF w
  <2>2. w \in 3..FdLimit
    BY <1>1, <2>1
  <2> QED BY <2>2 DEF w
<1>8. IsTable(AfterAlloc(t))
  BY <1>1, <1>6, <1>7, TableFields
<1>9. AllocFd(t) = t.next_fd /\ t.next_fd \in Fds
  BY <1>1 DEF AllocFd, Fds
<1> QED BY <1>5, <1>6, <1>8, <1>9

\* insert.
LEMMA InsertVfdFacts ==
    ASSUME NEW t, IsTable(t), t.next_fd + 1 < FdLimit, NEW v \in Vfd
    PROVE  /\ IsTable(InsertVfd(t, v))
           /\ InsertVfd(t, v).fds = Insert(t.fds, t.next_fd, v)
           /\ InsertVfd(t, v).next_fd = AfterAlloc(t).next_fd
<1> DEFINE n == AfterAlloc(t).next_fd
<1>1. /\ AfterAlloc(t) = [fds |-> t.fds, next_fd |-> n]
      /\ n \in 3..FdLimit /\ AllocFd(t) = t.next_fd /\ t.next_fd \in Fds
  BY AllocFacts DEF IsTable
<1> HIDE DEF n
<1>2. InsertVfd(t, v) = [fds |-> Insert(t.fds, t.next_fd, v), next_fd |-> n]
  BY <1>1 DEF InsertVfd, Put
<1>3. IsMap(Insert(t.fds, t.next_fd, v), Fds, Vfd)
  BY <1>1, MapFacts DEF IsTable
<1> QED BY <1>1, <1>2, <1>3, TableFields DEF n

\* close.
LEMMA CloseFdFacts ==
    ASSUME NEW t, IsTable(t), NEW fd
    PROVE  /\ CloseFd(t, fd) = [fds |-> Without(t.fds, {fd}), next_fd |-> t.next_fd]
           /\ IsTable(CloseFd(t, fd))
<1>1. /\ t = [fds |-> t.fds, next_fd |-> t.next_fd] /\ IsMap(t.fds, Fds, Vfd)
      /\ t.next_fd \in 3..FdLimit
  BY DEF IsTable
<1>2. CloseFd(t, fd) = [fds |-> Without(t.fds, {fd}), next_fd |-> t.next_fd]
  BY <1>1 DEF CloseFd
<1> QED BY <1>1, <1>2, MapFacts, TableFields

\* close removes the entry it is given and no other.
LEMMA CloseEntries ==
    ASSUME NEW t, IsTable(t), NEW fd
    PROVE  LET c == CloseFd(t, fd) IN
           /\ DOMAIN c.fds = DOMAIN t.fds \ {fd}
           /\ \A j \in DOMAIN t.fds \ {fd} : c.fds[j] = t.fds[j]
<1>1. CloseFd(t, fd).fds = Without(t.fds, {fd})
  BY CloseFdFacts
<1> QED BY <1>1 DEF Without

\* dup2: every entry afterwards was an entry before, and only new_fd changes.
LEMMA Dup2FdFacts ==
    ASSUME NEW t, IsTable(t), NEW f, NEW g \in Fds
    PROVE  LET u == Dup2Fd(t, f, g) IN
           /\ IsTable(u) /\ u.next_fd = t.next_fd
           /\ \A j \in DOMAIN t.fds \ {g} : j \in DOMAIN u.fds /\ u.fds[j] = t.fds[j]
           /\ \A j \in DOMAIN u.fds \ {g} : j \in DOMAIN t.fds
           /\ g \in DOMAIN u.fds <=> f \in DOMAIN t.fds /\ f # g
           /\ g \in DOMAIN u.fds => u.fds[g] = t.fds[f]
<1> DEFINE c == Without(t.fds, {g})
<1>1. /\ CloseFd(t, g) = [fds |-> c, next_fd |-> t.next_fd]
      /\ IsTable(CloseFd(t, g))
  BY CloseFdFacts
<1>2. /\ DOMAIN c = DOMAIN t.fds \ {g} /\ \A j \in DOMAIN t.fds \ {g} : c[j] = t.fds[j]
      /\ IsMap(c, Fds, Vfd) /\ t.next_fd \in 3..FdLimit
  BY WithoutFacts, MapFacts DEF IsTable
<1> HIDE DEF c
<1>3. CASE Dup2Ok(t, f, g)
  <2>1. Dup2Fd(t, f, g) = [fds |-> Insert(c, g, t.fds[f]), next_fd |-> t.next_fd]
    BY <1>1, <1>3 DEF Dup2Fd, Put
  <2>2. f \in DOMAIN t.fds /\ f # g /\ t.fds[f] \in Vfd
    BY <1>3 DEF Dup2Ok, IsTable, IsMap
  <2>3. /\ IsMap(Insert(c, g, t.fds[f]), Fds, Vfd)
        /\ DOMAIN Insert(c, g, t.fds[f]) = DOMAIN c \cup {g}
        /\ Insert(c, g, t.fds[f])[g] = t.fds[f]
        /\ \A j \in DOMAIN c \ {g} : Insert(c, g, t.fds[f])[j] = c[j]
    <3>1. IsMap(Insert(c, g, t.fds[f]), Fds, Vfd)
      BY <1>2, <2>2, MapFacts
    <3> QED BY <3>1 DEF Insert
  <2>4. IsTable(Dup2Fd(t, f, g))
    BY <1>2, <2>1, <2>3, TableFields
  <2> QED BY <1>2, <2>1, <2>2, <2>3, <2>4
<1>4. CASE ~Dup2Ok(t, f, g)
  <2>1. Dup2Fd(t, f, g) = [fds |-> c, next_fd |-> t.next_fd]
    BY <1>1, <1>4 DEF Dup2Fd
  <2>2. ~(f \in DOMAIN t.fds /\ f # g)
    BY <1>4 DEF Dup2Ok
  <2> QED BY <1>1, <1>2, <1>4, <2>1, <2>2 DEF Dup2Fd
<1> QED BY <1>3, <1>4
-----------------------------------------------------------------------------
(* Every scenario: types.                                                  *)

\* The bounds of a scenario are within the bounds of the instance.
LEMMA ScenarioFacts ==
    ASSUME scenario \in Scenarios
    PROVE  /\ scenario.fds \in 4..FdLimit /\ scenario.kfds \in 7..KernelLimit
           /\ scenario.pids \in 0..PidLimit /\ scenario.opens \in 0..OpenLimit
           /\ FdLimit \in Nat /\ KernelLimit \in Nat /\ PidLimit \in Nat /\ OpenLimit \in Nat
           /\ FdLimit > 3 /\ KernelLimit > 6 /\ FdLimit <= KernelLimit
           /\ FdsInUse \subseteq Fds /\ Fds \subseteq Kfds /\ KfdsInUse \subseteq Kfds
<1>1. /\ scenario \in Scenario
      /\ FdLimit \in Nat /\ KernelLimit \in Nat /\ PidLimit \in Nat /\ OpenLimit \in Nat
      /\ FdLimit > 3 /\ KernelLimit > 6 /\ FdLimit <= KernelLimit
  BY VfdTablesAssumption, FdLimitAssumption
<1>2. /\ scenario.fds \in 4..FdLimit /\ scenario.kfds \in 7..KernelLimit
      /\ scenario.pids \in 0..PidLimit /\ scenario.opens \in 0..OpenLimit
  BY <1>1 DEF Scenario
<1> QED BY <1>1, <1>2 DEF FdsInUse, Fds, Kfds, KfdsInUse

\* The kernel's lowest free fd is free.
LEMMA LowestFree ==
    ASSUME scenario \in Scenarios, NEW K, FreeKfds(K) # {}
    PROVE  LowestKfd(K) \in Kfds \ DOMAIN K
<1>1. FreeKfds(K) \in SUBSET Nat /\ FreeKfds(K) \subseteq Kfds \ DOMAIN K
  BY ScenarioFacts DEF FreeKfds, Kfds, KfdsInUse
<1>2. PICK k \in FreeKfds(K) : \A j \in FreeKfds(K) : k <= j
  BY <1>1, LeastOf
<1>3. LowestKfd(K) \in FreeKfds(K)
  <2> DEFINE P(i) == \A j \in FreeKfds(K) : i <= j
  <2>1. P(k)
    BY <1>2
  <2>2. LowestKfd(K) = CHOOSE x \in FreeKfds(K) : P(x)
    BY DEF LowestKfd
  <2> HIDE DEF P
  <2> QED BY <2>1, <2>2
<1> QED BY <1>1, <1>3

\* What is backed stays backed as more is made.
LEMMA BackedMore ==
    ASSUME NEW t, NEW nf \in Nat, NEW nc \in Nat, NEW mf \in Nat, NEW mc \in Nat,
           Backed(t, nf, nc), nf <= mf, nc <= mc
    PROVE  Backed(t, mf, mc)
BY DEF Backed, IsEntry

\* A table of new_with_fds.
LEMMA NewTableBacked ==
    ASSUME NEW i \in Kfds, NEW j \in Kfds, NEW k \in Kfds, NEW nf, NEW nc
    PROVE  /\ Backed(NewTable(i, j, k), nf, nc)
           /\ NewTable(i, j, k).next_fd = 3 /\ DOMAIN NewTable(i, j, k).fds = 0..2
           /\ NewTable(i, j, k).fds[0] = Real(i) /\ NewTable(i, j, k).fds[1] = Real(j)
           /\ NewTable(i, j, k).fds[2] = Real(k)
<1>1. /\ \A x \in Kfds : Real(x) \in Vfd /\ Real(x).kind = "Real" /\ Real(x).id = x
      /\ FdLimit \in Nat /\ FdLimit > 3
  BY FdLimitAssumption, VfdTablesAssumption DEF Real, Vfd, Kfds
<1>2. /\ DOMAIN Stdio(i, j, k) = 0..2
      /\ Stdio(i, j, k)[0] = Real(i) /\ Stdio(i, j, k)[1] = Real(j) /\ Stdio(i, j, k)[2] = Real(k)
      /\ Stdio(i, j, k) \in [0..2 -> Vfd]
  BY <1>1 DEF Stdio
<1>3. IsMap(Stdio(i, j, k), Fds, Vfd) /\ 3 \in 3..FdLimit
  BY <1>1, <1>2 DEF IsMap, Fds
<1>4. IsTable(NewTable(i, j, k))
  BY <1>3, TableFields DEF NewTable
<1>5. \A x \in Kfds : IsEntry(Real(x), nf, nc)
  BY <1>1 DEF IsEntry, IsFile, IsPipe
<1>6. \A fd \in 0..2 : Stdio(i, j, k)[fd] \in {Real(i), Real(j), Real(k)}
  BY DEF Stdio
<1> QED BY <1>2, <1>4, <1>5, <1>6 DEF NewTable, Backed

\* close leaves entries that are backed.
LEMMA CloseBacked ==
    ASSUME NEW t, NEW nf, NEW nc, Backed(t, nf, nc), NEW fd
    PROVE  Backed(CloseFd(t, fd), nf, nc)
<1>1. IsTable(CloseFd(t, fd)) /\ CloseFd(t, fd).fds = Without(t.fds, {fd})
  BY CloseFdFacts DEF Backed
<1>2. \A f \in DOMAIN Without(t.fds, {fd}) : IsEntry(Without(t.fds, {fd})[f], nf, nc)
  BY DEF Backed, Without
<1> QED BY <1>1, <1>2 DEF Backed

\* insert_at.
LEMMA InsertAtFacts ==
    ASSUME NEW t, IsTable(t), NEW g \in Fds, NEW v \in Vfd
    PROVE  /\ IsTable(InsertAt(t, g, v))
           /\ InsertAt(t, g, v).fds = Insert(Without(t.fds, {g}), g, v)
<1> DEFINE n == IF g >= t.next_fd THEN g + 1 ELSE t.next_fd
           f == Insert(Without(t.fds, {g}), g, v)
<1>1. IsMap(Without(t.fds, {g}), Fds, Vfd) /\ t.next_fd \in 3..FdLimit
  BY MapFacts DEF IsTable
<1>2. IsMap(f, Fds, Vfd)
  BY <1>1, MapFacts
<1>3. n \in 3..FdLimit
  BY <1>1, FdLimitAssumption DEF Fds
<1>4. CloseFd(t, g).fds = Without(t.fds, {g})
  BY CloseFdFacts
<1>5. InsertAt(t, g, v) = [fds |-> f, next_fd |-> n]
  BY <1>4 DEF InsertAt
<1> HIDE DEF f, n
<1>6. IsTable([fds |-> f, next_fd |-> n])
  BY <1>2, <1>3, TableFields
<1> QED BY <1>5, <1>6 DEF f

\* close_cloexec.
LEMMA CloexecFacts ==
    ASSUME NEW t, IsTable(t), NEW R
    PROVE  LET S == {fd \in DOMAIN t.fds : IsFile(t.fds[fd]) /\ t.fds[fd].id \in R}
           IN CloseCloexec(t, R) = [fds |-> Without(t.fds, S), next_fd |-> t.next_fd]
BY DEF CloseCloexec, IsTable

\* close() on buffers changes neither their number nor what they are.
LEMMA MarkClosedFacts ==
    ASSUME NEW B, MarkClosed(B), closed \in Seq(BOOLEAN)
    PROVE  /\ closed' \in Seq(BOOLEAN) /\ Len(closed') = Len(closed)
           /\ DOMAIN closed' = DOMAIN closed
           /\ \A b \in DOMAIN closed : closed'[b] <=> (closed[b] \/ b \in B)
<1>1. closed' = [b \in DOMAIN closed |-> closed[b] \/ b \in B]
  BY DEF MarkClosed
<1>2. DOMAIN closed = 1..Len(closed) /\ Len(closed) \in Nat
  OBVIOUS
<1>3. \A b \in DOMAIN closed : (closed[b] \/ b \in B) \in BOOLEAN
  OBVIOUS
<1>4. closed' \in [1..Len(closed) -> BOOLEAN]
  BY <1>1, <1>2, <1>3
<1>5. closed' \in Seq(BOOLEAN) /\ Len(closed') = Len(closed)
  BY <1>2, <1>4
<1> QED BY <1>1, <1>5

\* A new FileRef.
LEMMA NewFileRefFacts ==
    ASSUME TypeOK, NEW k \in Kfds, NEW cloexec \in BOOLEAN, NEW d \in 0..OpenLimit,
           NewFileRef(k, cloexec, d)
    PROVE  /\ filerefs' \in Seq(FileRef) /\ Len(filerefs') = Len(filerefs) + 1
           /\ Len(filerefs) \in Nat /\ NextRef = Len(filerefs) + 1
           /\ \A r \in 1..Len(filerefs) : filerefs'[r] = filerefs[r]
           /\ filerefs'[NextRef] = [real_fd |-> k, cloexec |-> cloexec, obj |-> d]
           /\ filerefs'[NextRef].real_fd = k /\ filerefs'[NextRef].obj = d
           /\ IsEntry(File(NextRef), Len(filerefs'), Len(closed))
           /\ IsEntry(File(NextRef), Len(filerefs'), Len(closed'))
<1> DEFINE r == [real_fd |-> k, cloexec |-> cloexec, obj |-> d]
<1>1. r \in FileRef
  BY DEF FileRef
<1>2. filerefs \in Seq(FileRef) /\ filerefs' = Append(filerefs, r) /\ NextRef = Len(filerefs) + 1
  BY DEF TypeOK, NewFileRef, NextRef
<1>3. r.real_fd = k /\ r.obj = d
  OBVIOUS
<1> HIDE DEF r
<1>4. /\ filerefs' \in Seq(FileRef) /\ Len(filerefs') = Len(filerefs) + 1
      /\ Len(filerefs) \in Nat
      /\ \A j \in 1..Len(filerefs) : filerefs'[j] = filerefs[j]
      /\ filerefs'[NextRef] = r
  BY <1>1, <1>2
<1>5. File(NextRef) \in Vfd /\ File(NextRef).kind = "File" /\ File(NextRef).id = NextRef
  BY <1>2, <1>4 DEF File, Vfd
<1>6. IsEntry(File(NextRef), Len(filerefs'), Len(closed))
  BY <1>2, <1>4, <1>5 DEF IsEntry, IsFile, IsPipe
<1>7. IsEntry(File(NextRef), Len(filerefs'), Len(closed'))
  BY <1>2, <1>4, <1>5 DEF IsEntry, IsFile, IsPipe
<1> QED BY <1>2, <1>3, <1>4, <1>6, <1>7 DEF r

\* get_or_create_table.
LEMMA GetOrCreateBacked ==
    ASSUME TableInv, NEW p, NEW mf \in Nat, NEW mc \in Nat,
           Len(filerefs) <= mf, Len(closed) <= mc
    PROVE  Backed(GetOrCreate(p), mf, mc)
<1>1. Len(filerefs) \in Nat /\ Len(closed) \in Nat
  BY DEF TableInv, TypeOK
<1>2. CASE p \in DOMAIN tables
  <2>1. GetOrCreate(p) = tables[p] /\ Backed(tables[p], Len(filerefs), Len(closed))
    BY <1>2 DEF GetOrCreate, TableInv, AllBacked
  <2> QED BY <1>1, <2>1, BackedMore
<1>3. CASE p \notin DOMAIN tables
  <2>1. 0 \in Kfds /\ 1 \in Kfds /\ 2 \in Kfds
    BY VfdTablesAssumption DEF Kfds
  <2> QED BY <1>3, <2>1, NewTableBacked DEF GetOrCreate
<1> QED BY <1>2, <1>3

\* The kernel fd of an entry, and what it is open on.
LEMMA RealFdType ==
    ASSUME TableInv, NEW p \in DOMAIN tables, NEW fd \in DOMAIN tables[p].fds,
           ~IsPipe(tables[p].fds[fd])
    PROVE  LET v == tables[p].fds[fd] IN
           /\ v.kind = "Real" \/ (IsFile(v) /\ v.id \in 1..Len(filerefs))
           /\ RealFd(v) \in Kfds /\ RealFd(v) = KernelFd(filerefs, v)
           /\ RealFd(v) \in DOMAIN kernel => kernel[RealFd(v)] \in 0..OpenLimit
<1> DEFINE v == tables[p].fds[fd]
<1>1. IsEntry(v, Len(filerefs), Len(closed))
  BY DEF TableInv, AllBacked, Backed
<1>2. ~IsPipe(v)
  OBVIOUS
<1> HIDE DEF v
<1>3. v.kind \in {"Real", "File", "PipeRead", "PipeWrite"}
  BY <1>1 DEF IsEntry, Vfd
<1>4. v.kind = "Real" \/ (IsFile(v) /\ v.id \in 1..Len(filerefs))
  BY <1>1, <1>2, <1>3 DEF IsEntry, IsFile, IsPipe
<1>5. \A r \in 1..Len(filerefs) : filerefs[r].real_fd \in Kfds
  <2>1. filerefs \in Seq(FileRef)
    BY DEF TableInv, TypeOK
  <2>2. \A r \in 1..Len(filerefs) : filerefs[r] \in FileRef
    BY <2>1
  <2> QED BY <2>2 DEF FileRef
<1>6. RealFd(v) \in Kfds /\ RealFd(v) = KernelFd(filerefs, v)
  BY <1>1, <1>4, <1>5 DEF RealFd, KernelFd, IsEntry, IsFile
<1>7. RealFd(v) \in DOMAIN kernel => kernel[RealFd(v)] \in 0..OpenLimit
  BY DEF TableInv, TypeOK, IsMap
<1> QED BY <1>4, <1>6, <1>7 DEF v

\* A table with room in the scenario has room.
LEMMA RoomFacts ==
    ASSUME scenario \in Scenarios, NEW t, IsTable(t), Room(t)
    PROVE  t.next_fd + 1 < FdLimit
<1>1. scenario.fds \in 4..FdLimit /\ FdLimit \in Nat
  BY ScenarioFacts
<1> QED BY <1>1 DEF Room, IsTable

\* Facts of TypeOK that the calls use.
LEMMA StateFacts ==
    ASSUME TableInv
    PROVE  /\ scenario \in Scenarios /\ TypeOK
           /\ closed \in Seq(BOOLEAN) /\ Len(closed) \in Nat /\ DOMAIN closed = 1..Len(closed)
           /\ filerefs \in Seq(FileRef) /\ Len(filerefs) \in Nat
           /\ knums \in [Pids -> SUBSET Kfds] /\ opened \in 0..OpenLimit
           /\ IsMap(kernel, Kfds, 0..OpenLimit) /\ IsMap(host, Kfds, 0..OpenLimit)
           /\ lent \subseteq 0..OpenLimit
           /\ next_pid \in 1..(PidLimit + 1) /\ live \subseteq 1..(next_pid - 1)
           /\ live \subseteq Pids /\ current \in live \cup {0}
           /\ DOMAIN tables \subseteq live /\ next_pid \notin live
           /\ \A p \in DOMAIN tables : Backed(tables[p], Len(filerefs), Len(closed))
           /\ \A p \in DOMAIN tables : IsTable(tables[p])
<1>1. PidLimit \in Nat
  BY VfdTablesAssumption
<1>2. /\ next_pid \in 1..(PidLimit + 1) /\ live \subseteq 1..(next_pid - 1)
      /\ closed \in Seq(BOOLEAN) /\ filerefs \in Seq(FileRef)
  BY DEF TableInv, TypeOK
<1>3. live \subseteq Pids /\ next_pid \notin live
  BY <1>1, <1>2 DEF Pids
<1>4. Len(closed) \in Nat /\ DOMAIN closed = 1..Len(closed) /\ Len(filerefs) \in Nat
  BY <1>2
<1> QED BY <1>2, <1>3, <1>4 DEF TableInv, TypeOK, AllBacked

\* The kernel fds that pipe gets are free and different.
LEMMA PipeKfds ==
    ASSUME TableInv, opened + 1 < scenario.opens, \E j, k \in FreeKfds(kernel) : j # k
    PROVE  LET r == LowestKfd(kernel)
               w == LowestKfd(Insert(kernel, r, opened + 1))
           IN /\ r \in Kfds \ DOMAIN kernel /\ w \in Kfds \ (DOMAIN kernel \cup {r})
              /\ opened + 1 \in 0..OpenLimit /\ opened + 2 \in 0..OpenLimit
<1> DEFINE r == LowestKfd(kernel)
           K == Insert(kernel, r, opened + 1)
           w == LowestKfd(K)
<1>1. FreeKfds(kernel) # {} /\ FreeKfds(kernel) # {r}
  <2> HIDE DEF r
  <2> QED OBVIOUS
<1>2. r \in Kfds \ DOMAIN kernel
  BY <1>1, LowestFree, StateFacts
<1>3. DOMAIN K = DOMAIN kernel \cup {r}
  BY InsertFacts
<1>4. FreeKfds(K) # {}
  BY <1>1, <1>3 DEF FreeKfds
<1> HIDE DEF K, r
<1>5. w \in Kfds \ DOMAIN K
  BY <1>4, LowestFree, StateFacts
<1>6. opened + 1 \in 0..OpenLimit /\ opened + 2 \in 0..OpenLimit
  <2>1. scenario.opens \in 0..OpenLimit /\ OpenLimit \in Nat /\ opened \in 0..OpenLimit
    BY StateFacts, ScenarioFacts
  <2> QED BY <2>1
<1> QED BY <1>2, <1>3, <1>5, <1>6 DEF K, r

\* One raw_dup3.
LEMMA Dup3Facts ==
    ASSUME NEW K, IsMap(K, Kfds, 0..OpenLimit), NEW s, NEW i \in 0..2, CanDup3(K, s, i)
    PROVE  /\ IsMap(Dup3(K, s, i), Kfds, 0..OpenLimit)
           /\ Dup3(K, s, i)[i] = K[s]
           /\ \A k \in DOMAIN K \ {i} : Dup3(K, s, i)[k] = K[k]
           /\ DOMAIN K \subseteq DOMAIN Dup3(K, s, i)
           /\ DOMAIN Dup3(K, s, i) \subseteq DOMAIN K \cup {i}
<1>1. i \in Kfds
  BY VfdTablesAssumption DEF Kfds
<1>2. CASE s = i
  BY <1>2 DEF Dup3
<1>3. CASE s # i
  <2>1. s \in DOMAIN K /\ K[s] \in 0..OpenLimit /\ Dup3(K, s, i) = Insert(K, i, K[s])
    BY <1>3 DEF Dup3, CanDup3, IsMap
  <2>2. IsMap(Insert(K, i, K[s]), Kfds, 0..OpenLimit)
    BY <1>1, <2>1, MapFacts
  <2> QED BY <2>1, <2>2 DEF Insert
<1> QED BY <1>2, <1>3

\* The three of them touch 0-2 only; from sources above 2 they install these.
LEMMA InstallFacts ==
    ASSUME IsMap(kernel, Kfds, 0..OpenLimit), NEW src, CanInstall(src)
    PROVE  /\ IsMap(Install(src), Kfds, 0..OpenLimit)
           /\ \A k \in DOMAIN kernel \ 0..2 : Install(src)[k] = kernel[k]
           /\ DOMAIN kernel \subseteq DOMAIN Install(src)
           /\ DOMAIN Install(src) \subseteq DOMAIN kernel \cup 0..2
           /\ (\A i \in 0..2 : src[i] \in DOMAIN kernel \ 0..2) =>
                 \A i \in 0..2 : Install(src)[i] = kernel[src[i]]
<1> DEFINE K1 == Dup3(kernel, src[0], 0)
           K2 == Dup3(K1, src[1], 1)
           K3 == Dup3(K2, src[2], 2)
<1>1. /\ CanDup3(kernel, src[0], 0) /\ CanDup3(K1, src[1], 1) /\ CanDup3(K2, src[2], 2)
      /\ Install(src) = K3
  BY DEF CanInstall, Install
<1>2. /\ IsMap(K1, Kfds, 0..OpenLimit) /\ K1[0] = kernel[src[0]]
      /\ \A k \in DOMAIN kernel \ {0} : K1[k] = kernel[k]
      /\ DOMAIN kernel \subseteq DOMAIN K1 /\ DOMAIN K1 \subseteq DOMAIN kernel \cup {0}
  BY <1>1, Dup3Facts, 0 \in 0..2
<1> HIDE DEF K1
<1>3. /\ IsMap(K2, Kfds, 0..OpenLimit) /\ K2[1] = K1[src[1]]
      /\ \A k \in DOMAIN K1 \ {1} : K2[k] = K1[k]
      /\ DOMAIN K1 \subseteq DOMAIN K2 /\ DOMAIN K2 \subseteq DOMAIN K1 \cup {1}
  BY <1>1, <1>2, Dup3Facts, 1 \in 0..2
<1> HIDE DEF K2
<1>4. /\ IsMap(K3, Kfds, 0..OpenLimit) /\ K3[2] = K2[src[2]]
      /\ \A k \in DOMAIN K2 \ {2} : K3[k] = K2[k]
      /\ DOMAIN K2 \subseteq DOMAIN K3 /\ DOMAIN K3 \subseteq DOMAIN K2 \cup {2}
  BY <1>1, <1>3, Dup3Facts, 2 \in 0..2
<1> HIDE DEF K3
<1>5. \A k \in DOMAIN kernel \ 0..2 : K3[k] = kernel[k]
  BY <1>2, <1>3, <1>4
<1>6. DOMAIN kernel \subseteq DOMAIN K3 /\ DOMAIN K3 \subseteq DOMAIN kernel \cup 0..2
  BY <1>2, <1>3, <1>4
<1>7. ASSUME \A i \in 0..2 : src[i] \in DOMAIN kernel \ 0..2
      PROVE  \A i \in 0..2 : K3[i] = kernel[src[i]]
  <2>1. /\ src[0] \in DOMAIN kernel \ 0..2 /\ src[1] \in DOMAIN kernel \ 0..2
        /\ src[2] \in DOMAIN kernel \ 0..2
    BY <1>7
  <2>2. 0 \in DOMAIN K1 /\ 1 \in DOMAIN K2
    BY <1>1, <2>1 DEF K1, K2, Dup3, Insert
  <2>3. K3[0] = kernel[src[0]]
    BY <1>2, <1>3, <1>4, <2>2
  <2>4. K3[1] = kernel[src[1]]
    BY <1>2, <1>3, <1>4, <2>1, <2>2
  <2>5. K3[2] = kernel[src[2]]
    BY <1>2, <1>3, <1>4, <2>1
  <2>6. \A i \in 0..2 : i = 0 \/ i = 1 \/ i = 2
    OBVIOUS
  <2> QED BY <2>3, <2>4, <2>5, <2>6
<1> QED BY <1>1, <1>4, <1>5, <1>6, <1>7

\* TableInv is inductive.
LEMMA TableInit == Init => TableInv
<1> SUFFICES ASSUME Init PROVE TableInv
  OBVIOUS
<1>1. DOMAIN tables = {} /\ DOMAIN host = {} /\ filerefs = << >> /\ closed = << >>
  BY DEF Init
<1>2. IsMap(kernel, Kfds, 0..OpenLimit) /\ IsMap(host, Kfds, 0..OpenLimit)
  <2>1. /\ kernel = [k \in 0..5 |-> 0] /\ 0 \in 0..OpenLimit
        /\ 0..5 \subseteq Kfds
    BY VfdTablesAssumption DEF Init, Kfds, Tty
  <2>2. kernel \in [0..5 -> 0..OpenLimit] /\ DOMAIN kernel = 0..5
    BY <2>1
  <2>3. host = << >> /\ << >> \in [{} -> 0..OpenLimit]
    BY DEF Init
  <2> QED BY <1>1, <2>1, <2>2, <2>3 DEF IsMap
<1>3. TypeOK
  <2>1. /\ next_pid \in 1..(PidLimit + 1) /\ opened \in 0..OpenLimit
        /\ live = {} /\ current \in live \cup {0}
    BY VfdTablesAssumption DEF Init
  <2>2. filerefs \in Seq(FileRef) /\ closed \in Seq(BOOLEAN)
    BY <1>1
  <2>3. knums \in [Pids -> SUBSET Kfds] /\ lent \subseteq 0..OpenLimit
    BY DEF Init
  <2>4. scenario \in Scenarios /\ swapped \in BOOLEAN /\ leaving \in BOOLEAN /\ aborted \in BOOLEAN
    BY DEF Init
  <2> QED BY <1>1, <1>2, <2>1, <2>2, <2>3, <2>4 DEF TypeOK
<1> QED BY <1>1, <1>3 DEF TableInv, AllBacked

\* Every step keeps the types.
LEMMA TableNext == TableInv /\ [Next]_vars => TableInv'
\* A map of tables after an insert.
<1>AllBackedInsert.
    ASSUME NEW T, NEW nf \in Nat, NEW nc \in Nat, NEW mf \in Nat, NEW mc \in Nat,
           AllBacked(T, nf, nc), nf <= mf, nc <= mc, NEW p, NEW t, Backed(t, mf, mc)
    PROVE  AllBacked(Insert(T, p, t), mf, mc)
  <2> USE <1>AllBackedInsert
  <2> SUFFICES ASSUME NEW q \in DOMAIN T \cup {p} PROVE Backed(Insert(T, p, t)[q], mf, mc)
    BY DEF AllBacked, Insert
  <2>1. CASE q = p
    BY <2>1 DEF Insert
  <2>2. CASE q # p
    <3>1. Insert(T, p, t)[q] = T[q] /\ Backed(T[q], nf, nc)
      BY <2>2 DEF Insert, AllBacked
    <3> QED BY <3>1, BackedMore
  <2> QED BY <2>1, <2>2
\* insert, close and dup2 leave a table backed.
<1>InsertBacked.
    ASSUME NEW t, NEW nf, NEW nc, Backed(t, nf, nc), t.next_fd + 1 < FdLimit,
           NEW v, IsEntry(v, nf, nc)
    PROVE  Backed(InsertVfd(t, v), nf, nc)
  <2> USE <1>InsertBacked
  <2>1. IsTable(InsertVfd(t, v)) /\ InsertVfd(t, v).fds = Insert(t.fds, t.next_fd, v)
    BY InsertVfdFacts DEF Backed, IsEntry
  <2>2. \A fd \in DOMAIN Insert(t.fds, t.next_fd, v) :
           IsEntry(Insert(t.fds, t.next_fd, v)[fd], nf, nc)
    BY DEF Backed, Insert
  <2> QED BY <2>1, <2>2 DEF Backed
\* So does dup2, for any pair of numbers.
<1>Dup2Backed.
    ASSUME NEW t, NEW nf, NEW nc, Backed(t, nf, nc), NEW f, NEW g \in Fds
    PROVE  Backed(Dup2Fd(t, f, g), nf, nc)
  <2> USE <1>Dup2Backed
  <2> DEFINE u == Dup2Fd(t, f, g)
  <2>1. /\ IsTable(u)
        /\ \A j \in DOMAIN t.fds \ {g} : j \in DOMAIN u.fds /\ u.fds[j] = t.fds[j]
        /\ \A j \in DOMAIN u.fds \ {g} : j \in DOMAIN t.fds
        /\ g \in DOMAIN u.fds => f \in DOMAIN t.fds /\ u.fds[g] = t.fds[f]
    BY Dup2FdFacts DEF Backed
  <2> HIDE DEF u
  <2>2. \A j \in DOMAIN u.fds : IsEntry(u.fds[j], nf, nc)
    BY <2>1 DEF Backed
  <2>3. Backed(u, nf, nc)
    BY <2>1, <2>2 DEF Backed
  <2> QED BY <2>3 DEF u
\* dup.
<1>DupBacked.
    ASSUME NEW t, NEW nf, NEW nc, Backed(t, nf, nc), t.next_fd + 1 < FdLimit, NEW f
    PROVE  Backed(DupFd(t, f), nf, nc)
  <2> USE <1>DupBacked
  <2>1. /\ AfterAlloc(t) = [fds |-> t.fds, next_fd |-> AfterAlloc(t).next_fd]
        /\ IsTable(AfterAlloc(t)) /\ AllocFd(t) \in Fds
    BY AllocFacts DEF Backed
  <2>2. Backed(AfterAlloc(t), nf, nc)
    <3>1. AfterAlloc(t).fds = t.fds
      BY <2>1
    <3> QED BY <2>1, <3>1 DEF Backed
  <2> QED BY <2>1, <2>2, <1>Dup2Backed DEF DupFd
\* So does inserting an entry that is backed.
<1>InsertAtBacked.
    ASSUME NEW t, NEW nf, NEW nc, Backed(t, nf, nc), NEW g \in Fds,
           NEW v, IsEntry(v, nf, nc)
    PROVE  Backed(InsertAt(t, g, v), nf, nc)
  <2> USE <1>InsertAtBacked
  <2>1. /\ IsTable(InsertAt(t, g, v))
        /\ InsertAt(t, g, v).fds = Insert(Without(t.fds, {g}), g, v)
    BY InsertAtFacts DEF Backed, IsEntry
  <2>2. \A f \in DOMAIN Insert(Without(t.fds, {g}), g, v) :
           IsEntry(Insert(Without(t.fds, {g}), g, v)[f], nf, nc)
    BY DEF Backed, Insert, Without
  <2> QED BY <2>1, <2>2 DEF Backed
\* create_pipe.
<1>PipeBacked.
    ASSUME NEW t, NEW nf, NEW nc, Backed(t, nf, nc), NEW b, b \in 1..nc, nc \in Nat,
           t.next_fd + 1 < FdLimit, AfterAlloc(t).next_fd + 1 < FdLimit
    PROVE  Backed(CreatePipe(t, b), nf, nc)
  <2> USE <1>PipeBacked
  <2>1. IsEntry(PipeRead(b), nf, nc) /\ IsEntry(PipeWrite(b), nf, nc)
    BY DEF IsEntry, PipeRead, PipeWrite, Vfd, IsFile, IsPipe
  <2> DEFINE u == InsertVfd(t, PipeRead(b))
  <2>2. Backed(u, nf, nc)
    BY <2>1, <1>InsertBacked
  <2>3. u.next_fd + 1 < FdLimit
    BY <2>1, InsertVfdFacts DEF Backed, IsEntry
  <2> HIDE DEF u
  <2>4. Backed(InsertVfd(u, PipeWrite(b)), nf, nc)
    BY <2>1, <2>2, <2>3, <1>InsertBacked
  <2> QED BY <2>4 DEF u, CreatePipe
\* So does close_cloexec, whichever numbers it is given.
<1>CloexecBacked.
    ASSUME NEW t, NEW nf, NEW nc, Backed(t, nf, nc), NEW R
    PROVE  Backed(CloseCloexec(t, R), nf, nc)
  <2> USE <1>CloexecBacked
  <2>1. PICK S : CloseCloexec(t, R) = [fds |-> Without(t.fds, S), next_fd |-> t.next_fd]
    BY CloexecFacts DEF Backed
  <2>2. IsMap(Without(t.fds, S), Fds, Vfd) /\ t.next_fd \in 3..FdLimit
    BY MapFacts DEF Backed, IsTable
  <2>3. IsTable(CloseCloexec(t, R))
    BY <2>1, <2>2, TableFields
  <2>4. \A f \in DOMAIN Without(t.fds, S) : IsEntry(Without(t.fds, S)[f], nf, nc)
    BY DEF Backed, Without
  <2> QED BY <2>1, <2>3, <2>4 DEF Backed
\* What a call of the running process has to show.
<1>CallFrame.
    ASSUME TableInv, scenario' = scenario, UNCHANGED << host, lent >>, UNCHANGED schedVars,
           knums' \in [Pids -> SUBSET Kfds], opened' \in 0..OpenLimit,
           IsMap(kernel', Kfds, 0..OpenLimit),
           filerefs' \in Seq(FileRef), Len(filerefs) <= Len(filerefs'),
           closed' \in Seq(BOOLEAN), Len(closed) <= Len(closed'), current # 0,
           NEW t, Backed(t, Len(filerefs'), Len(closed')),
           tables' = Insert(tables, current, t)
    PROVE  TableInv'
  <2> USE <1>CallFrame
  <2>1. /\ filerefs \in Seq(FileRef) /\ closed \in Seq(BOOLEAN)
        /\ current \in live /\ live \subseteq 1..(next_pid - 1)
        /\ next_pid \in 1..(PidLimit + 1) /\ PidLimit \in Nat
        /\ DOMAIN tables \subseteq live
    BY VfdTablesAssumption DEF TableInv, TypeOK
  <2>2. /\ Len(filerefs) \in Nat /\ Len(filerefs') \in Nat
        /\ Len(closed) \in Nat /\ Len(closed') \in Nat
    BY <2>1
  <2>3. AllBacked(tables', Len(filerefs'), Len(closed'))
    BY <2>2, <1>AllBackedInsert DEF TableInv
  <2>4. DOMAIN tables' = DOMAIN tables \cup {current}
    BY InsertFacts
  <2>5. UNCHANGED << next_pid, live, current, swapped, leaving, aborted >>
    BY DEF schedVars
  <2>6. DOMAIN tables' \subseteq live' /\ DOMAIN tables' \subseteq Pids
    <3>1. live \subseteq Pids
      BY <2>1 DEF Pids
    <3> QED BY <2>1, <2>4, <2>5, <3>1
  <2>7. \A p \in DOMAIN tables' : IsTable(tables'[p])
    BY <2>3 DEF AllBacked, Backed
  <2>8. TypeOK'
    BY <2>5, <2>6, <2>7 DEF TableInv, TypeOK
  <2> QED BY <2>3, <2>6, <2>8 DEF TableInv
\* open.
<1>OpenType.
    ASSUME TableInv, scenario' = scenario, NEW cloexec \in BOOLEAN, Open(cloexec)
    PROVE  TableInv'
  <2> USE <1>OpenType
  <2> DEFINE k == LowestKfd(kernel)
             t == GetOrCreate(current)
  <2>1. /\ k \in Kfds \ DOMAIN kernel /\ opened + 1 \in 0..OpenLimit
        /\ kernel' = Insert(kernel, k, opened + 1) /\ opened' = opened + 1
        /\ NewFileRef(k, cloexec, opened + 1)
        /\ tables' = Insert(tables, current, InsertVfd(t, File(NextRef)))
        /\ UNCHANGED << closed, host, lent, knums >> /\ UNCHANGED schedVars
        /\ current # 0 /\ Room(t)
    <3>1. /\ opened < scenario.opens /\ FreeKfds(kernel) # {}
          /\ kernel' = Insert(kernel, k, opened + 1) /\ opened' = opened + 1
          /\ NewFileRef(k, cloexec, opened + 1)
          /\ tables' = Insert(tables, current, InsertVfd(t, File(NextRef)))
          /\ UNCHANGED << closed, host, lent, knums >> /\ UNCHANGED schedVars
          /\ current # 0 /\ Room(t)
      BY DEF Open, Running
    <3>2. scenario \in Scenarios /\ opened \in 0..OpenLimit
      BY DEF TableInv, TypeOK
    <3>3. k \in Kfds \ DOMAIN kernel
      BY <3>1, <3>2, LowestFree
    <3>4. scenario.opens \in 0..OpenLimit /\ OpenLimit \in Nat
      BY <3>2, ScenarioFacts
    <3> QED BY <3>1, <3>2, <3>3, <3>4
  <2> HIDE DEF k
  <2>2. /\ IsMap(kernel', Kfds, 0..OpenLimit) /\ closed \in Seq(BOOLEAN)
        /\ knums \in [Pids -> SUBSET Kfds] /\ TypeOK
    BY <2>1, MapFacts DEF TableInv, TypeOK
  <2>3. /\ filerefs' \in Seq(FileRef) /\ Len(filerefs') = Len(filerefs) + 1
        /\ Len(filerefs) \in Nat /\ Len(closed) \in Nat
        /\ IsEntry(File(NextRef), Len(filerefs'), Len(closed))
    <3>1. Len(closed) \in Nat
      BY <2>2
    <3>2. k \in Kfds /\ opened + 1 \in 0..OpenLimit /\ NewFileRef(k, cloexec, opened + 1)
      BY <2>1
    <3>3. /\ filerefs' \in Seq(FileRef) /\ Len(filerefs') = Len(filerefs) + 1
          /\ Len(filerefs) \in Nat
          /\ IsEntry(File(NextRef), Len(filerefs'), Len(closed))
      BY <2>2, <3>2, NewFileRefFacts
    <3> QED BY <3>1, <3>3
  <2>4. Backed(t, Len(filerefs'), Len(closed))
    BY <2>3, GetOrCreateBacked
  <2> HIDE DEF t
  <2>5. t.next_fd + 1 < FdLimit
    BY <2>1, <2>2, <2>4, RoomFacts DEF TypeOK, Backed
  <2>6. Backed(InsertVfd(t, File(NextRef)), Len(filerefs'), Len(closed'))
    BY <2>1, <2>3, <2>4, <2>5, <1>InsertBacked
  <2> QED BY <2>1, <2>2, <2>3, <2>6, <1>CallFrame
\* dup.
<1>DupType.
    ASSUME TableInv, scenario' = scenario, NEW old_fd, Dup(old_fd)
    PROVE  TableInv'
  <2> USE <1>DupType
  <2> DEFINE t == tables[current]
  <2>1. /\ current # 0 /\ current \in DOMAIN tables /\ Room(t)
        /\ UNCHANGED << host, lent, knums, opened >> /\ UNCHANGED schedVars
    BY DEF Dup, Running
  <2>2. /\ TypeOK /\ closed \in Seq(BOOLEAN) /\ knums \in [Pids -> SUBSET Kfds]
        /\ opened \in 0..OpenLimit /\ IsMap(kernel, Kfds, 0..OpenLimit)
        /\ filerefs \in Seq(FileRef) /\ Len(filerefs) \in Nat /\ Len(closed) \in Nat
    BY DEF TableInv, TypeOK
  <2>3. Backed(t, Len(filerefs), Len(closed))
    BY <2>1 DEF TableInv, AllBacked
  <2>4. t.next_fd + 1 < FdLimit
    BY <2>1, <2>2, <2>3, RoomFacts DEF TypeOK, Backed
  <2>5. CASE Backs(t, old_fd)
    <3> DEFINE k == LowestKfd(kernel)
               d == kernel[RealFd(t.fds[old_fd])]
    <3>1. /\ old_fd \in DOMAIN t.fds /\ ~IsPipe(t.fds[old_fd])
          /\ RealFd(t.fds[old_fd]) \in DOMAIN kernel /\ FreeKfds(kernel) # {}
          /\ kernel' = Insert(kernel, k, d) /\ NewFileRef(k, FALSE, d)
          /\ tables' = Insert(tables, current, InsertVfd(t, File(NextRef)))
          /\ UNCHANGED closed
      BY <2>5 DEF Dup, Backs
    <3>2. k \in Kfds \ DOMAIN kernel /\ d \in 0..OpenLimit
      BY <2>1, <2>2, <3>1, LowestFree, RealFdType DEF TypeOK
    <3> HIDE DEF k, d, t
    <3>3. IsMap(kernel', Kfds, 0..OpenLimit)
      BY <2>2, <3>1, <3>2, MapFacts
    <3>4. /\ filerefs' \in Seq(FileRef) /\ Len(filerefs') = Len(filerefs) + 1
          /\ IsEntry(File(NextRef), Len(filerefs'), Len(closed))
      BY <2>2, <3>1, <3>2, NewFileRefFacts
    <3>5. Backed(t, Len(filerefs'), Len(closed))
      BY <2>2, <2>3, <3>4, BackedMore
    <3>6. Backed(InsertVfd(t, File(NextRef)), Len(filerefs'), Len(closed'))
      BY <2>4, <3>1, <3>4, <3>5, <1>InsertBacked
    <3> QED BY <2>1, <2>2, <3>1, <3>3, <3>4, <3>6, <1>CallFrame
  <2>6. CASE ~Backs(t, old_fd)
    <3>1. /\ MarkClosed(ClosedBy(AfterAlloc(t), AllocFd(t)))
          /\ tables' = Insert(tables, current, DupFd(t, old_fd))
          /\ UNCHANGED << kernel, filerefs >>
      BY <2>6 DEF Dup
    <3>2. closed' \in Seq(BOOLEAN) /\ Len(closed') = Len(closed)
      BY <2>2, <3>1, MarkClosedFacts
    <3>3. Backed(DupFd(t, old_fd), Len(filerefs'), Len(closed'))
      BY <2>3, <2>4, <3>1, <3>2, <1>DupBacked
    <3> QED BY <2>1, <2>2, <3>1, <3>2, <3>3, <1>CallFrame
  <2> QED BY <2>5, <2>6
\* dup2.
<1>Dup2Type.
    ASSUME TableInv, scenario' = scenario, NEW old_fd, NEW new_fd \in FdsInUse,
           Dup2(old_fd, new_fd)
    PROVE  TableInv'
  <2> USE <1>Dup2Type
  <2> DEFINE t == tables[current]
  <2>1. /\ current # 0 /\ current \in DOMAIN tables
        /\ UNCHANGED << host, lent, knums, opened >> /\ UNCHANGED schedVars
        /\ MarkClosed(ClosedBy(t, new_fd))
    BY DEF Dup2, Running
  <2>2. new_fd \in Fds /\ new_fd \in Kfds
    BY StateFacts, ScenarioFacts
  <2>3. /\ Backed(t, Len(filerefs), Len(closed)) /\ TypeOK /\ closed \in Seq(BOOLEAN)
        /\ Len(filerefs) \in Nat /\ Len(closed) \in Nat /\ filerefs \in Seq(FileRef)
        /\ knums \in [Pids -> SUBSET Kfds] /\ opened \in 0..OpenLimit
        /\ IsMap(kernel, Kfds, 0..OpenLimit)
    BY <2>1, StateFacts
  <2>4. closed' \in Seq(BOOLEAN) /\ Len(closed') = Len(closed)
    BY <2>1, <2>3, MarkClosedFacts
  <2>5. CASE Backs(t, old_fd)
    <3> DEFINE d == kernel[RealFd(t.fds[old_fd])]
    <3>1. /\ old_fd \in DOMAIN t.fds /\ ~IsPipe(t.fds[old_fd])
          /\ RealFd(t.fds[old_fd]) \in DOMAIN kernel
          /\ kernel' = Insert(kernel, new_fd, d) /\ NewFileRef(new_fd, FALSE, d)
          /\ tables' = Insert(tables, current, InsertAt(t, new_fd, File(NextRef)))
      BY <2>5 DEF Dup2, Backs
    <3>2. d \in 0..OpenLimit
      BY <2>1, <3>1, RealFdType
    <3> HIDE DEF d, t
    <3>3. IsMap(kernel', Kfds, 0..OpenLimit)
      BY <2>2, <2>3, <3>1, <3>2, MapFacts
    <3>4. /\ filerefs' \in Seq(FileRef) /\ Len(filerefs') = Len(filerefs) + 1
          /\ IsEntry(File(NextRef), Len(filerefs'), Len(closed'))
      BY <2>2, <2>3, <3>1, <3>2, NewFileRefFacts
    <3>5. Backed(t, Len(filerefs'), Len(closed'))
      BY <2>3, <2>4, <3>4, BackedMore
    <3>6. Backed(InsertAt(t, new_fd, File(NextRef)), Len(filerefs'), Len(closed'))
      BY <2>2, <3>4, <3>5, <1>InsertAtBacked
    <3> QED BY <2>1, <2>3, <2>4, <3>1, <3>3, <3>4, <3>6, <1>CallFrame
  <2>6. CASE ~Backs(t, old_fd)
    <3>1. /\ tables' = Insert(tables, current, Dup2Fd(t, old_fd, new_fd))
          /\ UNCHANGED << kernel, filerefs >>
      BY <2>6 DEF Dup2
    <3>2. Backed(Dup2Fd(t, old_fd, new_fd), Len(filerefs'), Len(closed'))
      BY <2>2, <2>3, <2>4, <3>1, <1>Dup2Backed
    <3> QED BY <2>1, <2>3, <2>4, <3>1, <3>2, <1>CallFrame
  <2> QED BY <2>5, <2>6
\* close of an entry: vproc_ffi_close, and close.
<1>CloseEntryType.
    ASSUME TableInv, scenario' = scenario, NEW fd, InTable(fd), CloseEntry(fd), current # 0,
           UNCHANGED << filerefs, host, lent, opened >>, UNCHANGED schedVars
    PROVE  TableInv'
  <2> USE <1>CloseEntryType
  <2>1. /\ current \in DOMAIN tables
        /\ tables' = Insert(tables, current, CloseFd(tables[current], fd))
        /\ MarkClosed(ClosedBy(tables[current], fd)) /\ knums' = knums
    BY DEF InTable, CloseEntry
  <2>2. PICK S : kernel' = Without(kernel, S)
    BY DEF CloseEntry, RealClose
  <2>3. IsMap(kernel', Kfds, 0..OpenLimit)
    BY <2>2, MapFacts, StateFacts
  <2>4. /\ closed' \in Seq(BOOLEAN) /\ Len(closed') = Len(closed)
        /\ Len(filerefs) \in Nat /\ Len(closed) \in Nat /\ filerefs' \in Seq(FileRef)
        /\ knums' \in [Pids -> SUBSET Kfds] /\ opened' \in 0..OpenLimit
    BY <2>1, MarkClosedFacts, StateFacts
  <2>5. Backed(CloseFd(tables[current], fd), Len(filerefs'), Len(closed'))
    BY <2>1, <2>4, CloseBacked, StateFacts
  <2> QED BY <2>1, <2>3, <2>4, <2>5, <1>CallFrame
\* Steps that leave the tables alone.
<1>QuietFrame.
    ASSUME TableInv, scenario' = scenario, UNCHANGED << tables, filerefs, closed >>,
           UNCHANGED schedVars, IsMap(host', Kfds, 0..OpenLimit), lent' \subseteq 0..OpenLimit,
           knums' \in [Pids -> SUBSET Kfds], opened' \in 0..OpenLimit,
           IsMap(kernel', Kfds, 0..OpenLimit)
    PROVE  TableInv'
  BY <1>QuietFrame DEF TableInv, TypeOK, schedVars, AllBacked
\* close of a kernel fd that pipe returned.
<1>CloseType.
    ASSUME TableInv, scenario' = scenario, NEW fd, Close(fd)
    PROVE  TableInv'
  <2> USE <1>CloseType
  <2>1. CASE Running("close") /\ InTable(fd) /\ CloseEntry(fd)
    <3>1. UNCHANGED << filerefs, host, lent, opened >> /\ UNCHANGED schedVars /\ current # 0
      BY <2>1 DEF Close, Running
    <3> QED BY <2>1, <3>1, <1>CloseEntryType
  <2>2. CASE ~(Running("close") /\ InTable(fd) /\ CloseEntry(fd))
    <3>1. /\ current # 0 /\ kernel' = Without(kernel, {fd})
          /\ knums' = [knums EXCEPT ![current] = @ \ {fd}]
          /\ UNCHANGED << tables, closed, filerefs, host, lent, opened >> /\ UNCHANGED schedVars
      BY <2>2 DEF Close, Running, RealClose
    <3>2. knums' \in [Pids -> SUBSET Kfds] /\ IsMap(kernel', Kfds, 0..OpenLimit)
      BY <3>1, StateFacts, MapFacts
    <3> QED BY <3>1, <3>2, StateFacts, <1>QuietFrame
  <2> QED BY <2>1, <2>2
\* pipe.
<1>PipeType.
    ASSUME TableInv, scenario' = scenario, Pipe
    PROVE  TableInv'
  <2> USE <1>PipeType
  <2> DEFINE r == LowestKfd(kernel)
             K == Insert(kernel, r, opened + 1)
             w == LowestKfd(K)
  <2>1. /\ current # 0 /\ opened + 1 < scenario.opens /\ (\E j, k \in FreeKfds(kernel) : j # k)
        /\ kernel' = Insert(K, w, opened + 2)
        /\ knums' = [knums EXCEPT ![current] = @ \cup {r, w}]
        /\ opened' = opened + 2
        /\ UNCHANGED << tables, filerefs, closed, host, lent >> /\ UNCHANGED schedVars
    BY DEF Pipe, Running
  <2>2. /\ r \in Kfds \ DOMAIN kernel /\ w \in Kfds \ (DOMAIN kernel \cup {r})
        /\ opened + 1 \in 0..OpenLimit /\ opened + 2 \in 0..OpenLimit
    BY <2>1, PipeKfds
  <2> HIDE DEF r, w
  <2>3. IsMap(K, Kfds, 0..OpenLimit)
    BY <2>2, StateFacts, MapFacts
  <2> HIDE DEF K
  <2>4. IsMap(kernel', Kfds, 0..OpenLimit)
    BY <2>1, <2>2, <2>3, MapFacts
  <2>5. knums' \in [Pids -> SUBSET Kfds]
    BY <2>1, <2>2, StateFacts
  <2> QED BY <2>1, <2>2, <2>4, <2>5, StateFacts, <1>QuietFrame
\* vproc_ffi_pipe.
<1>FfiPipeType.
    ASSUME TableInv, scenario' = scenario, FfiPipe
    PROVE  TableInv'
  <2> USE <1>FfiPipeType
  <2> DEFINE t == GetOrCreate(current)
  <2>1. /\ current # 0 /\ Room(t) /\ Room(AfterAlloc(t))
        /\ tables' = Insert(tables, current, CreatePipe(t, Len(closed) + 1))
        /\ closed' = Append(closed, FALSE)
        /\ UNCHANGED << filerefs, kernel, host, lent, knums, opened >> /\ UNCHANGED schedVars
    BY DEF FfiPipe, Running
  <2>2. closed' \in Seq(BOOLEAN) /\ Len(closed') = Len(closed) + 1
    BY <2>1, StateFacts
  <2>3. Backed(t, Len(filerefs'), Len(closed'))
    BY <2>1, <2>2, StateFacts, GetOrCreateBacked
  <2> HIDE DEF t
  <2>4. t.next_fd + 1 < FdLimit /\ AfterAlloc(t).next_fd + 1 < FdLimit
    <3>1. t.next_fd + 1 < FdLimit
      BY <2>1, <2>3, StateFacts, RoomFacts DEF Backed
    <3>2. IsTable(AfterAlloc(t))
      BY <2>3, <3>1, AllocFacts DEF Backed
    <3> QED BY <2>1, <3>1, <3>2, StateFacts, RoomFacts
  <2>5. Len(closed) + 1 \in 1..Len(closed') /\ Len(closed') \in Nat /\ Len(closed) <= Len(closed')
    BY <2>2, StateFacts
  <2>6. Backed(CreatePipe(t, Len(closed) + 1), Len(filerefs'), Len(closed'))
    BY <2>3, <2>4, <2>5, <1>PipeBacked
  <2> QED BY <2>1, <2>2, <2>5, <2>6, StateFacts, <1>CallFrame
\* vproc_ffi_dup.
<1>FfiDupType.
    ASSUME TableInv, scenario' = scenario, NEW old_fd, FfiDup(old_fd)
    PROVE  TableInv'
  <2> USE <1>FfiDupType
  <2> DEFINE t == tables[current]
  <2>1. /\ current # 0 /\ current \in DOMAIN tables /\ Room(t)
        /\ MarkClosed(ClosedBy(AfterAlloc(t), AllocFd(t)))
        /\ tables' = Insert(tables, current, DupFd(t, old_fd))
        /\ UNCHANGED << filerefs, kernel, host, lent, knums, opened >> /\ UNCHANGED schedVars
    BY DEF FfiDup, Running
  <2>2. Backed(t, Len(filerefs), Len(closed))
    BY <2>1, StateFacts
  <2>3. closed' \in Seq(BOOLEAN) /\ Len(closed') = Len(closed)
    BY <2>1, StateFacts, MarkClosedFacts
  <2>4. t.next_fd + 1 < FdLimit
    BY <2>1, <2>2, StateFacts, RoomFacts DEF Backed
  <2>5. Backed(DupFd(t, old_fd), Len(filerefs'), Len(closed'))
    BY <2>1, <2>2, <2>3, <2>4, <1>DupBacked
  <2> QED BY <2>1, <2>3, <2>5, StateFacts, <1>CallFrame
\* vproc_ffi_dup2.
<1>FfiDup2Type.
    ASSUME TableInv, scenario' = scenario, NEW old_fd, NEW new_fd \in FdsInUse,
           FfiDup2(old_fd, new_fd)
    PROVE  TableInv'
  <2> USE <1>FfiDup2Type
  <2> DEFINE t == tables[current]
  <2>1. /\ current # 0 /\ current \in DOMAIN tables
        /\ MarkClosed(ClosedBy(t, new_fd))
        /\ tables' = Insert(tables, current, Dup2Fd(t, old_fd, new_fd))
        /\ UNCHANGED << filerefs, kernel, host, lent, knums, opened >> /\ UNCHANGED schedVars
    BY DEF FfiDup2, Running
  <2>2. Backed(t, Len(filerefs), Len(closed)) /\ new_fd \in Fds
    BY <2>1, StateFacts, ScenarioFacts
  <2>3. closed' \in Seq(BOOLEAN) /\ Len(closed') = Len(closed)
    BY <2>1, StateFacts, MarkClosedFacts
  <2>4. Backed(Dup2Fd(t, old_fd, new_fd), Len(filerefs'), Len(closed'))
    BY <2>1, <2>2, <2>3, <1>Dup2Backed
  <2> QED BY <2>1, <2>3, <2>4, StateFacts, <1>CallFrame
\* What the start of a process has to show.
<1>StartFrame.
    ASSUME TableInv, scenario' = scenario, UNCHANGED << filerefs, closed, host, opened >>,
           UNCHANGED << current, swapped, aborted >>, leaving' \in BOOLEAN,
           lent' \subseteq 0..OpenLimit, knums' \in [Pids -> SUBSET Kfds],
           IsMap(kernel', Kfds, 0..OpenLimit), next_pid <= scenario.pids,
           live' = live \cup {next_pid}, next_pid' = next_pid + 1,
           NEW t, tables' = Insert(tables, next_pid, t),
           Backed(t, Len(filerefs), Len(closed))
    PROVE  TableInv'
  <2> USE <1>StartFrame
  <2>1. /\ next_pid \in Pids /\ next_pid' \in 1..(PidLimit + 1)
        /\ live' \subseteq 1..(next_pid' - 1) /\ live' \subseteq Pids
    <3>1. /\ scenario.pids \in 0..PidLimit /\ PidLimit \in Nat
          /\ next_pid \in 1..(PidLimit + 1) /\ live \subseteq 1..(next_pid - 1)
      BY StateFacts, ScenarioFacts
    <3> QED BY <3>1 DEF Pids
  <2>2. AllBacked(tables', Len(filerefs'), Len(closed'))
    BY StateFacts, <1>AllBackedInsert DEF TableInv
  <2>3. DOMAIN tables' \subseteq live'
    <3>1. DOMAIN tables' = DOMAIN tables \cup {next_pid}
      BY InsertFacts
    <3> QED BY <3>1, StateFacts
  <2>4. \A p \in DOMAIN tables' : IsTable(tables'[p])
    BY <2>2 DEF AllBacked, Backed
  <2>5. DOMAIN tables' \subseteq Pids
    BY <2>1, <2>3
  <2>6. TypeOK'
    BY <2>1, <2>4, <2>5 DEF TableInv, TypeOK
  <2> QED BY <2>2, <2>3, <2>6 DEF TableInv
\* create_table_with_fds.
<1>CreateProcessType.
    ASSUME TableInv, scenario' = scenario, NEW k \in DOMAIN host, CreateProcess(k)
    PROVE  TableInv'
  <2> USE <1>CreateProcessType
  <2>1. /\ next_pid <= scenario.pids /\ lent' = lent \cup {host[k]}
        /\ tables' = Insert(tables, next_pid, NewTable(k, k, k))
        /\ live' = live \cup {next_pid} /\ next_pid' = next_pid + 1
        /\ UNCHANGED << filerefs, closed, kernel, host, knums, opened, current,
                        swapped, leaving, aborted >>
    BY DEF CreateProcess
  <2>2. k \in Kfds /\ host[k] \in 0..OpenLimit
    BY StateFacts DEF IsMap
  <2>3. Backed(NewTable(k, k, k), Len(filerefs), Len(closed))
    BY <2>2, NewTableBacked
  <2>4. lent' \subseteq 0..OpenLimit /\ leaving' \in BOOLEAN
    BY <2>1, <2>2, StateFacts DEF TypeOK
  <2> QED BY <2>1, <2>3, <2>4, StateFacts, <1>StartFrame
\* vproc_ffi_fork.
<1>FfiForkType.
    ASSUME TableInv, scenario' = scenario, FfiFork
    PROVE  TableInv'
  <2> USE <1>FfiForkType
  <2>1. /\ next_pid <= scenario.pids /\ current # 0
        /\ tables' = Insert(tables, next_pid, GetOrCreate(current))
        /\ knums' = [knums EXCEPT ![next_pid] = knums[current]]
        /\ live' = live \cup {next_pid} /\ next_pid' = next_pid + 1
        /\ UNCHANGED << filerefs, closed, kernel, host, lent, opened, current,
                        swapped, leaving, aborted >>
    BY DEF FfiFork, Forked, Running
  <2>2. Backed(GetOrCreate(current), Len(filerefs), Len(closed))
    BY StateFacts, GetOrCreateBacked
  <2>3. /\ knums' \in [Pids -> SUBSET Kfds] /\ leaving' \in BOOLEAN
        /\ lent' \subseteq 0..OpenLimit /\ IsMap(kernel', Kfds, 0..OpenLimit)
    <3>1. current \in Pids
      BY <2>1, StateFacts
    <3> QED BY <2>1, <3>1, StateFacts DEF TypeOK
  <2> QED BY <2>1, <2>2, <2>3, <1>StartFrame
\* execve.
<1>ExecveType.
    ASSUME TableInv, scenario' = scenario, Execve
    PROVE  TableInv'
  <2> USE <1>ExecveType
  <2>1. PICK R, S :
           /\ next_pid <= scenario.pids /\ current # 0
           /\ tables' = Insert(tables, next_pid, CloseCloexec(GetOrCreate(current), R))
           /\ kernel' = Without(kernel, S)
           /\ knums' = [knums EXCEPT ![next_pid] = knums[current]]
           /\ live' = live \cup {next_pid} /\ next_pid' = next_pid + 1 /\ leaving' = TRUE
           /\ UNCHANGED << filerefs, closed, host, lent, opened, current, swapped, aborted >>
    BY DEF Execve, Forked, Running, RealClose
  <2>2. Backed(CloseCloexec(GetOrCreate(current), R), Len(filerefs), Len(closed))
    BY StateFacts, GetOrCreateBacked, <1>CloexecBacked
  <2>3. /\ knums' \in [Pids -> SUBSET Kfds] /\ leaving' \in BOOLEAN
        /\ lent' \subseteq 0..OpenLimit /\ IsMap(kernel', Kfds, 0..OpenLimit)
    <3>1. current \in Pids
      BY <2>1, StateFacts
    <3>2. IsMap(kernel', Kfds, 0..OpenLimit)
      BY <2>1, StateFacts, MapFacts
    <3> QED BY <2>1, <3>1, <3>2, StateFacts DEF TypeOK
  <2> QED BY <2>1, <2>2, <2>3, <1>StartFrame
\* The host and the driver keep the types.
<1>HostOpenType.
    ASSUME TableInv, scenario' = scenario, HostOpen
    PROVE  TableInv'
  <2> USE <1>HostOpenType
  <2> DEFINE k == LowestKfd(kernel)
  <2>1. /\ opened < scenario.opens /\ FreeKfds(kernel) # {}
        /\ kernel' = Insert(kernel, k, opened + 1) /\ host' = Insert(host, k, opened + 1)
        /\ opened' = opened + 1
        /\ UNCHANGED << tables, filerefs, closed, lent, knums >> /\ UNCHANGED schedVars
    BY DEF HostOpen
  <2>2. k \in Kfds \ DOMAIN kernel
    BY <2>1, LowestFree, StateFacts
  <2> HIDE DEF k
  <2>3. opened + 1 \in 0..OpenLimit
    <3>1. scenario.opens \in 0..OpenLimit /\ OpenLimit \in Nat /\ opened \in 0..OpenLimit
      BY StateFacts, ScenarioFacts
    <3> QED BY <2>1, <3>1
  <2>4. IsMap(kernel', Kfds, 0..OpenLimit) /\ IsMap(host', Kfds, 0..OpenLimit)
    BY <2>1, <2>2, <2>3, StateFacts, MapFacts
  <2> QED BY <2>1, <2>3, <2>4, StateFacts, <1>QuietFrame
\* Creating a coroutine keeps the types.
<1>SpawnType.
    ASSUME TableInv, scenario' = scenario, Spawn
    PROVE  TableInv'
  <2> USE <1>SpawnType
  <2>1. /\ next_pid <= scenario.pids /\ live' = live \cup {next_pid} /\ next_pid' = next_pid + 1
        /\ UNCHANGED << tables, filerefs, closed, kernel, host, lent, knums, opened,
                        current, swapped, leaving, aborted >>
    BY DEF Spawn
  <2>2. next_pid' \in 1..(PidLimit + 1) /\ live' \subseteq 1..(next_pid' - 1)
    <3>1. /\ scenario.pids \in 0..PidLimit /\ PidLimit \in Nat
          /\ next_pid \in 1..(PidLimit + 1) /\ live \subseteq 1..(next_pid - 1)
      BY StateFacts, ScenarioFacts
    <3> QED BY <2>1, <3>1
  <2> QED BY <2>1, <2>2 DEF TableInv, TypeOK, AllBacked
\* Starting a slice, which may create the table of the coroutine, does.
<1>ResumeType.
    ASSUME TableInv, scenario' = scenario, NEW p \in live, Resume(p)
    PROVE  TableInv'
  <2> USE <1>ResumeType
  <2>1. /\ UNCHANGED << tables, filerefs, closed, host, lent, knums, opened, next_pid, live, leaving >>
        /\ current' \in live \cup {0}
        /\ swapped' \in BOOLEAN /\ aborted' \in BOOLEAN
    BY StateFacts DEF Resume, TypeOK
  <2>2. IsMap(kernel', Kfds, 0..OpenLimit)
    BY InstallFacts, StateFacts DEF Resume
  <2> QED BY <2>1, <2>2 DEF TableInv, TypeOK, AllBacked
\* Ending a slice does, whether the coroutine exits or not.
<1>EndSliceType.
    ASSUME TableInv, scenario' = scenario, NEW exits \in BOOLEAN, EndSlice(exits)
    PROVE  TableInv'
  <2> USE <1>EndSliceType
  <2>1. /\ current # 0 /\ current' = 0 /\ swapped' = FALSE /\ leaving' = FALSE
        /\ UNCHANGED << filerefs, host, lent, opened, next_pid >>
    BY DEF EndSlice
  <2>2. CASE swapped /\ ~CanInstall(saved_fds)
    <3>1. aborted' = TRUE /\ UNCHANGED << tables, closed, kernel, knums, live >>
      BY <2>2 DEF EndSlice
    <3> QED BY <2>1, <3>1 DEF TableInv, TypeOK, AllBacked
  <2>3. CASE ~(swapped /\ ~CanInstall(saved_fds))
    <3> DEFINE restored == IF swapped THEN Install(saved_fds) ELSE kernel
               reaps == exits /\ current \in DOMAIN tables
               gone == IF reaps THEN ReapedFds(current) ELSE {}
               B == IF reaps THEN Pipes(tables[current]) ELSE {}
    <3>1. /\ kernel' = Without(restored, gone)
          /\ tables' = IF reaps THEN Without(tables, {current}) ELSE tables
          /\ MarkClosed(B)
          /\ live' = IF exits THEN live \ {current} ELSE live
          /\ knums' = IF exits THEN [knums EXCEPT ![current] = {}] ELSE knums
          /\ UNCHANGED aborted
      BY <2>3 DEF EndSlice
    <3>2. IsMap(restored, Kfds, 0..OpenLimit)
      BY <2>3, InstallFacts, StateFacts
    <3> HIDE DEF restored, gone, B
    <3>3. IsMap(kernel', Kfds, 0..OpenLimit)
      BY <3>1, <3>2, MapFacts
    <3>4. closed' \in Seq(BOOLEAN) /\ Len(closed') = Len(closed)
      BY <3>1, MarkClosedFacts, StateFacts
    <3>5. knums' \in [Pids -> SUBSET Kfds] /\ live' \subseteq 1..(next_pid' - 1)
      BY <2>1, <3>1, StateFacts
    <3>6. AllBacked(tables', Len(filerefs'), Len(closed')) /\ DOMAIN tables' \subseteq DOMAIN tables
      BY <2>1, <3>1, <3>4 DEF TableInv, AllBacked, Without
    <3>7. DOMAIN tables' \subseteq live'
      BY <2>1, <3>1, StateFacts DEF Without
    <3>8. \A p \in DOMAIN tables' : IsTable(tables'[p])
      BY <3>6 DEF AllBacked, Backed
    <3>9. DOMAIN tables' \subseteq Pids
      BY <3>6, StateFacts
    <3>10. TypeOK'
      BY <2>1, <3>1, <3>3, <3>4, <3>5, <3>8, <3>9 DEF TableInv, TypeOK
    <3> QED BY <3>6, <3>7, <3>10 DEF TableInv
  <2> QED BY <2>2, <2>3
<1> SUFFICES ASSUME TableInv, [Next]_vars PROVE TableInv'
  OBVIOUS
<1>1. CASE UNCHANGED vars
  BY <1>1 DEF TableInv, TypeOK, AllBacked, vars
<1>2. CASE Next
  <2>1. Act /\ scenario' = scenario
    BY <1>2 DEF Next
  <2>2. CASE HostOpen
    BY <2>1, <2>2, <1>HostOpenType
  <2>3. CASE Spawn
    BY <2>1, <2>3, <1>SpawnType
  <2>4. CASE \E k \in DOMAIN host : CreateProcess(k)
    BY <2>1, <2>4, <1>CreateProcessType
  <2>5. CASE \E p \in live : Resume(p)
    BY <2>1, <2>5, <1>ResumeType
  <2>6. CASE \E exits \in BOOLEAN : EndSlice(exits)
    BY <2>1, <2>6, <1>EndSliceType
  <2>7. CASE \E cloexec \in (IF "execve" \in Calls THEN BOOLEAN ELSE {FALSE}) : Open(cloexec)
    BY <2>1, <2>7, <1>OpenType
  <2>8. CASE Pipe
    BY <2>1, <2>8, <1>PipeType
  <2>9. CASE FfiPipe
    BY <2>1, <2>9, <1>FfiPipeType
  <2>10. CASE FfiFork
    BY <2>1, <2>10, <1>FfiForkType
  <2>11. CASE Execve
    BY <2>1, <2>11, <1>ExecveType
  <2>12. CASE \E fd \in FdsInUse : Dup(fd) \/ FfiDup(fd) \/ FfiClose(fd)
    <3>1. PICK fd \in FdsInUse : Dup(fd) \/ FfiDup(fd) \/ FfiClose(fd)
      BY <2>12
    <3>2. CASE FfiClose(fd)
      BY <2>1, <3>2, <1>CloseEntryType DEF FfiClose, Running
    <3> QED BY <2>1, <3>1, <3>2, <1>DupType, <1>FfiDupType
  <2>13. CASE \E fd \in KfdsInUse : Close(fd)
    BY <2>1, <2>13, <1>CloseType
  <2>14. CASE \E old_fd, new_fd \in FdsInUse : Dup2(old_fd, new_fd) \/ FfiDup2(old_fd, new_fd)
    BY <2>1, <2>14, <1>Dup2Type, <1>FfiDup2Type
  <2> QED BY <2>1, <2>2, <2>3, <2>4, <2>5, <2>6, <2>7, <2>8, <2>9, <2>10, <2>11,
             <2>12, <2>13, <2>14 DEF Act
<1> QED BY <1>1, <1>2
-----------------------------------------------------------------------------
(* Without dup2, alloc_fd returns numbers that are not in use.             *)

\* insert, close, dup, create_pipe and close_cloexec.
LEMMA InsertBelow ==
    ASSUME NEW t, IsTable(t), Below(t), t.next_fd + 1 < FdLimit, NEW v \in Vfd
    PROVE  Below(InsertVfd(t, v)) /\ t.next_fd \notin DOMAIN t.fds
<1>1. /\ InsertVfd(t, v).fds = Insert(t.fds, t.next_fd, v)
      /\ InsertVfd(t, v).next_fd \in (t.next_fd + 1)..FdLimit
      /\ t.next_fd \in 3..FdLimit /\ DOMAIN t.fds \subseteq 0..(FdLimit - 1)
  BY InsertVfdFacts, AllocFacts DEF IsTable, IsMap, Fds
<1>2. DOMAIN Insert(t.fds, t.next_fd, v) = DOMAIN t.fds \cup {t.next_fd}
  BY DEF Insert
<1> QED BY <1>1, <1>2, FdLimitAssumption DEF Below

\* dup returns next_fd, which was not in use, and moves it up.
LEMMA DupBelow ==
    ASSUME NEW t, IsTable(t), Below(t), t.next_fd + 1 < FdLimit, NEW f
    PROVE  /\ Below(DupFd(t, f)) /\ t.next_fd \notin DOMAIN t.fds
           /\ f \notin DOMAIN t.fds => DupFd(t, f).fds = t.fds
           /\ f \in DOMAIN t.fds => DupFd(t, f).fds = Insert(t.fds, t.next_fd, t.fds[f])
           /\ ClosedBy(AfterAlloc(t), AllocFd(t)) = {}
<1> DEFINE a == AfterAlloc(t)
           g == AllocFd(t)
<1>1. /\ a = [fds |-> t.fds, next_fd |-> a.next_fd] /\ a.next_fd \in (t.next_fd + 1)..FdLimit
      /\ IsTable(a) /\ g = t.next_fd /\ g \in Fds
      /\ t.next_fd \in 3..FdLimit /\ DOMAIN t.fds \subseteq 0..(FdLimit - 1)
      /\ FdLimit \in Nat
  BY AllocFacts, FdLimitAssumption DEF IsTable, IsMap, Fds
<1>2. t.next_fd \notin DOMAIN t.fds
  BY <1>1 DEF Below
<1> HIDE DEF a, g
<1>3. a.fds = t.fds
  BY <1>1
<1>4. Without(a.fds, {g}) = t.fds
  <2>1. t.fds = [j \in DOMAIN t.fds |-> t.fds[j]]
    BY DEF IsTable, IsMap
  <2> QED BY <1>1, <1>2, <1>3, <2>1 DEF Without
<1>5. CloseFd(a, g) = [fds |-> t.fds, next_fd |-> a.next_fd]
  BY <1>1, <1>4, CloseFdFacts
<1>6. CASE f \in DOMAIN t.fds
  <2>1. Dup2Ok(a, f, g)
    BY <1>1, <1>2, <1>3, <1>6 DEF Dup2Ok
  <2>2. Dup2Fd(a, f, g) = [fds |-> Insert(t.fds, g, t.fds[f]), next_fd |-> a.next_fd]
    BY <1>3, <1>5, <2>1 DEF Dup2Fd, Put
  <2>3. DOMAIN Insert(t.fds, g, t.fds[f]) = DOMAIN t.fds \cup {g}
    BY DEF Insert
  <2>4. Below(Dup2Fd(a, f, g))
    BY <1>1, <2>2, <2>3 DEF Below
  <2>5. ClosedBy(a, g) = {}
    BY <1>1, <1>2, <1>3 DEF ClosedBy
  <2> QED BY <1>1, <1>2, <1>6, <2>2, <2>4, <2>5 DEF DupFd, a, g
<1>7. CASE f \notin DOMAIN t.fds
  <2>1. Dup2Fd(a, f, g) = [fds |-> t.fds, next_fd |-> a.next_fd]
    BY <1>3, <1>5, <1>7 DEF Dup2Fd, Dup2Ok
  <2>2. Below(Dup2Fd(a, f, g))
    BY <1>1, <2>1 DEF Below
  <2>3. ClosedBy(a, g) = {}
    BY <1>1, <1>2, <1>3 DEF ClosedBy
  <2> QED BY <1>1, <1>2, <1>7, <2>1, <2>2, <2>3 DEF DupFd, a, g
<1> QED BY <1>6, <1>7

\* pipe returns two numbers that were not in use, and moves next_fd up.
LEMMA PipeBelow ==
    ASSUME NEW t, IsTable(t), Below(t), t.next_fd + 1 < FdLimit,
           AfterAlloc(t).next_fd + 1 < FdLimit, NEW b \in Nat
    PROVE  /\ Below(CreatePipe(t, b))
           /\ t.next_fd \notin DOMAIN t.fds
           /\ AfterAlloc(t).next_fd \notin DOMAIN t.fds \cup {t.next_fd}
           /\ CreatePipe(t, b).fds = Insert(Insert(t.fds, t.next_fd, PipeRead(b)),
                                            AfterAlloc(t).next_fd, PipeWrite(b))
<1>1. PipeRead(b) \in Vfd /\ PipeWrite(b) \in Vfd
  BY DEF PipeRead, PipeWrite, Vfd
<1> DEFINE u == InsertVfd(t, PipeRead(b))
<1>2. /\ IsTable(u) /\ Below(u) /\ t.next_fd \notin DOMAIN t.fds
      /\ u.fds = Insert(t.fds, t.next_fd, PipeRead(b)) /\ u.next_fd = AfterAlloc(t).next_fd
  BY <1>1, InsertVfdFacts, InsertBelow
<1> HIDE DEF u
<1>3. /\ Below(InsertVfd(u, PipeWrite(b))) /\ u.next_fd \notin DOMAIN u.fds
      /\ InsertVfd(u, PipeWrite(b)).fds = Insert(u.fds, u.next_fd, PipeWrite(b))
  BY <1>1, <1>2, InsertVfdFacts, InsertBelow
<1>4. DOMAIN u.fds = DOMAIN t.fds \cup {t.next_fd}
  BY <1>2 DEF Insert
<1> QED BY <1>2, <1>3, <1>4 DEF CreatePipe, u

\* The table a call finds or makes has next_fd above its numbers.
LEMMA GetOrCreateBelow ==
    ASSUME TableInv, NEW p, \A q \in DOMAIN tables : Below(tables[q])
    PROVE  Below(GetOrCreate(p)) /\ IsTable(GetOrCreate(p))
<1>1. CASE p \in DOMAIN tables
  BY <1>1, StateFacts DEF GetOrCreate
<1>2. CASE p \notin DOMAIN tables
  <2>1. 0 \in Kfds /\ 1 \in Kfds /\ 2 \in Kfds
    BY VfdTablesAssumption DEF Kfds
  <2>2. /\ IsTable(NewTable(0, 1, 2)) /\ NewTable(0, 1, 2).next_fd = 3
        /\ DOMAIN NewTable(0, 1, 2).fds = 0..2
    BY <2>1, NewTableBacked DEF Backed
  <2> QED BY <1>2, <2>2 DEF GetOrCreate, Below
<1> QED BY <1>1, <1>2

\* Where no dup2 is called, every step keeps next_fd above the numbers in use.
LEMMA AllocNext == TableInv /\ AllocInv /\ [Next]_vars => AllocInv'
\* close does not bring next_fd within the numbers in use.
<1>CloseBelow.
    ASSUME NEW t, IsTable(t), Below(t), NEW fd
    PROVE  Below(CloseFd(t, fd))
  <2> USE <1>CloseBelow
  <2>1. CloseFd(t, fd) = [fds |-> Without(t.fds, {fd}), next_fd |-> t.next_fd]
    BY CloseFdFacts
  <2> QED BY <2>1 DEF Below, Without
\* close_cloexec only takes numbers out of use.
<1>CloexecBelow.
    ASSUME NEW t, IsTable(t), Below(t), NEW R
    PROVE  Below(CloseCloexec(t, R))
  <2> USE <1>CloexecBelow
  <2>1. PICK S : CloseCloexec(t, R) = [fds |-> Without(t.fds, S), next_fd |-> t.next_fd]
    BY CloexecFacts
  <2> QED BY <2>1 DEF Below, Without
\* A map of tables after an insert.
<1>AllBelowInsert.
    ASSUME NEW T, NEW p, NEW t, \A q \in DOMAIN T : Below(T[q]), Below(t)
    PROVE  \A q \in DOMAIN Insert(T, p, t) : Below(Insert(T, p, t)[q])
  BY <1>AllBelowInsert DEF Insert
<1> SUFFICES ASSUME TableInv, AllocInv, [Next]_vars, (Calls \cap {"dup2", "ffi_dup2"} = {})'
             PROVE  \A p \in DOMAIN tables' : Below(tables'[p])
  BY DEF AllocInv
<1>1. scenario' = scenario
  BY DEF Next, vars
<1>2. /\ Calls \cap {"dup2", "ffi_dup2"} = {}
      /\ \A p \in DOMAIN tables : Below(tables[p])
  BY <1>1 DEF AllocInv, Calls
<1>3. CASE UNCHANGED tables
  BY <1>2, <1>3
<1>4. CASE \E k \in DOMAIN host : CreateProcess(k)
  <2>1. PICK k \in DOMAIN host : tables' = Insert(tables, next_pid, NewTable(k, k, k))
    BY <1>4 DEF CreateProcess
  <2>2. k \in Kfds
    BY StateFacts DEF IsMap
  <2>3. NewTable(k, k, k).next_fd = 3 /\ DOMAIN NewTable(k, k, k).fds = 0..2
    BY <2>2, NewTableBacked
  <2>4. Below(NewTable(k, k, k))
    BY <2>3 DEF Below
  <2> QED BY <1>2, <2>1, <2>4, <1>AllBelowInsert
<1>5. CASE \E exits \in BOOLEAN : EndSlice(exits)
  <2>1. tables' = tables \/ tables' = Without(tables, {current})
    BY <1>5 DEF EndSlice
  <2> QED BY <1>2, <2>1 DEF Without
<1>6. CASE \E cloexec \in BOOLEAN : Open(cloexec)
  <2> DEFINE t == GetOrCreate(current)
  <2>1. PICK cloexec \in BOOLEAN : Open(cloexec)
    BY <1>6
  <2>2. Room(t) /\ tables' = Insert(tables, current, InsertVfd(t, File(NextRef)))
    BY <2>1 DEF Open
  <2>3. Below(t) /\ IsTable(t)
    BY <1>2, GetOrCreateBelow
  <2> HIDE DEF t
  <2>4. File(NextRef) \in Vfd
    BY StateFacts DEF File, Vfd, NextRef
  <2>5. t.next_fd + 1 < FdLimit
    BY <2>2, <2>3, RoomFacts, StateFacts
  <2>6. Below(InsertVfd(t, File(NextRef)))
    BY <2>3, <2>4, <2>5, InsertBelow
  <2> QED BY <1>2, <2>2, <2>6, <1>AllBelowInsert
<1>7. CASE FfiPipe
  <2> DEFINE t == GetOrCreate(current)
             b == Len(closed) + 1
  <2>1. /\ Room(t) /\ Room(AfterAlloc(t))
        /\ tables' = Insert(tables, current, CreatePipe(t, b))
    BY <1>7 DEF FfiPipe
  <2>2. Below(t) /\ IsTable(t) /\ b \in Nat
    BY <1>2, GetOrCreateBelow, StateFacts
  <2> HIDE DEF t, b
  <2>3. t.next_fd + 1 < FdLimit
    BY <2>1, <2>2, RoomFacts, StateFacts
  <2>4. AfterAlloc(t).next_fd + 1 < FdLimit
    BY <2>1, <2>2, <2>3, RoomFacts, StateFacts, AllocFacts
  <2>5. Below(CreatePipe(t, b))
    BY <2>2, <2>3, <2>4, PipeBelow
  <2> QED BY <1>2, <2>1, <2>5, <1>AllBelowInsert
<1>8. CASE FfiFork \/ Execve
  <2>1. Below(GetOrCreate(current)) /\ IsTable(GetOrCreate(current))
    BY <1>2, GetOrCreateBelow
  <2>2. PICK t : Below(t) /\ tables' = Insert(tables, next_pid, t)
    <3>1. CASE FfiFork
      BY <2>1, <3>1 DEF FfiFork, Forked
    <3>2. CASE Execve
      BY <2>1, <3>2, <1>CloexecBelow DEF Execve, Forked
    <3> QED BY <1>8, <3>1, <3>2
  <2> QED BY <1>2, <2>2, <1>AllBelowInsert
<1>9. ASSUME NEW fd, Dup(fd) \/ FfiDup(fd)
      PROVE  \A p \in DOMAIN tables' : Below(tables'[p])
  <2> DEFINE t == tables[current]
  <2>1. current \in DOMAIN tables /\ Room(t)
    BY <1>9 DEF Dup, FfiDup
  <2>2. Below(t) /\ IsTable(t) /\ t.next_fd + 1 < FdLimit
    BY <1>2, <2>1, StateFacts, RoomFacts
  <2>3. File(NextRef) \in Vfd
    BY StateFacts DEF File, Vfd, NextRef
  <2>4. Below(InsertVfd(t, File(NextRef))) /\ Below(DupFd(t, fd))
    BY <2>2, <2>3, InsertBelow, DupBelow
  <2>5. \/ tables' = Insert(tables, current, InsertVfd(t, File(NextRef)))
        \/ tables' = Insert(tables, current, DupFd(t, fd))
    BY <1>9 DEF Dup, FfiDup
  <2> HIDE DEF t
  <2> QED BY <1>2, <2>4, <2>5, <1>AllBelowInsert
<1>10. ASSUME NEW fd, InTable(fd), CloseEntry(fd)
       PROVE  \A p \in DOMAIN tables' : Below(tables'[p])
  <2>1. /\ current \in DOMAIN tables
        /\ tables' = Insert(tables, current, CloseFd(tables[current], fd))
    BY <1>10 DEF InTable, CloseEntry
  <2>2. Below(CloseFd(tables[current], fd))
    BY <1>2, <2>1, <1>CloseBelow, StateFacts
  <2> QED BY <1>2, <2>1, <2>2, <1>AllBelowInsert
<1>11. CASE Next
  <2>1. Act
    BY <1>11 DEF Next
  <2>2. HostOpen \/ Spawn \/ (\E p \in live : Resume(p)) \/ Pipe => UNCHANGED tables
    BY DEF HostOpen, Spawn, Resume, Pipe
  <2>3. \A fd : Close(fd) => UNCHANGED tables \/ (InTable(fd) /\ CloseEntry(fd))
    BY DEF Close
  <2>4. \A fd : FfiClose(fd) => InTable(fd) /\ CloseEntry(fd)
    BY DEF FfiClose
  <2>5. \A f, g : ~Dup2(f, g) /\ ~FfiDup2(f, g)
    BY <1>2 DEF Dup2, FfiDup2, Running
  <2>6. \A x \in (IF "execve" \in Calls THEN BOOLEAN ELSE {FALSE}) : x \in BOOLEAN
    OBVIOUS
  <2> QED BY <2>1, <2>2, <2>3, <2>4, <2>5, <2>6, <1>3, <1>4, <1>5, <1>6, <1>7, <1>8,
             <1>9, <1>10 DEF Act
<1>12. CASE UNCHANGED vars
  BY <1>3, <1>12 DEF vars
<1> QED BY <1>11, <1>12

\* A kernel fd a table uses is that of one of its entries.
LEMMA UsesDef ==
    ASSUME NEW F, NEW t, NEW k
    PROVE  k \in Uses(F, t) <=>
               \E fd \in DOMAIN t.fds : ~IsPipe(t.fds[fd]) /\ KernelFd(F, t.fds[fd]) = k
BY DEF Uses, KernelEntries

\* Entries are of one of three kinds.
LEMMA EntryKinds ==
    ASSUME NEW v, NEW nf, NEW nc, IsEntry(v, nf, nc)
    PROVE  /\ \/ v.kind = "Real" /\ ~IsFile(v) /\ ~IsPipe(v) /\ v = Real(v.id)
              \/ IsFile(v) /\ ~IsPipe(v) /\ v.kind # "Real" /\ v = File(v.id) /\ v.id \in 1..nf
              \/ IsPipe(v) /\ ~IsFile(v) /\ v.kind # "Real" /\ v.id \in 1..nc
BY DEF IsEntry, Vfd, IsFile, IsPipe, Real, File

\* A FileRef made later changes nothing for the entries there are.
LEMMA KernelFdFrame ==
    ASSUME NEW t, NEW nf, NEW nc, Backed(t, nf, nc), NEW F, NEW G,
           \A r \in 1..nf : G[r] = F[r]
    PROVE  /\ \A fd \in DOMAIN t.fds :
                 ~IsPipe(t.fds[fd]) => KernelFd(G, t.fds[fd]) = KernelFd(F, t.fds[fd])
           /\ Uses(G, t) = Uses(F, t)
<1>1. ASSUME NEW fd \in DOMAIN t.fds, ~IsPipe(t.fds[fd])
      PROVE  KernelFd(G, t.fds[fd]) = KernelFd(F, t.fds[fd])
  BY <1>1, EntryKinds DEF Backed, KernelFd
<1>2. ASSUME NEW k PROVE k \in Uses(G, t) <=> k \in Uses(F, t)
  BY <1>1, UsesDef
<1> QED BY <1>1, <1>2

\* The same for all tables.
LEMMA KernelFdsFrame ==
    ASSUME NEW T, NEW nf, NEW nc, AllBacked(T, nf, nc), NEW F, NEW G,
           \A r \in 1..nf : G[r] = F[r]
    PROVE  \A q \in DOMAIN T :
              /\ \A fd \in KernelEntries(T[q]) : KernelFd(G, T[q].fds[fd]) = KernelFd(F, T[q].fds[fd])
              /\ Uses(G, T[q]) = Uses(F, T[q])
<1> TAKE q \in DOMAIN T
<1>1. Backed(T[q], nf, nc)
  BY DEF AllBacked
<1> QED BY <1>1, KernelFdFrame DEF KernelEntries

\* Init => AllocInv, and the two invariants together.
LEMMA TablesInvariant == Spec => [](TableInv /\ AllocInv)
<1>1. Init => AllocInv
  BY DEF Init, AllocInv
<1> QED BY <1>1, TableInit, TableNext, AllocNext, PTL DEF Spec

-----------------------------------------------------------------------------
(***************************************************************************)
(* No two entries of a table hold the same FileRef, and every kernel fd is *)
(* accounted for.                                                          *)
(***************************************************************************)
Distinct(t) ==
    \A f, g \in DOMAIN t.fds : IsFile(t.fds[f]) /\ t.fds[f] = t.fds[g] => f = g

\* What a table has from the host is the host's or the driver's; every other
\* kernel fd is in a table.
Accounted(T, F, K, H) ==
    /\ \A p \in DOMAIN T : Distinct(T[p])
    /\ \A p \in DOMAIN T : \A fd \in DOMAIN T[p].fds :
          T[p].fds[fd].kind = "Real" => T[p].fds[fd].id \in DOMAIN H \cup 0..5
    /\ \A k \in DOMAIN K \ (0..5 \cup DOMAIN H) : \E p \in DOMAIN T : k \in Uses(F, T[p])

\* Without the calls that leave kernel fds behind.
LeakInv ==
    Calls \cap {"pipe", "dup2", "ffi_dup", "ffi_dup2"} = {} =>
        Accounted(tables, filerefs, kernel, host)

-----------------------------------------------------------------------------
(* A buffer closes exactly when a process gives up its last end.           *)

\* The step that PipesCloseWhenAbandoned allows.
PipeStep ==
    \A b \in DOMAIN closed :
         IF \E p \in DOMAIN tables : GivesUp(p, b)
         THEN closed'[b] \/ Calls \cap {"dup2", "ffi_dup2"} # {}
         ELSE closed'[b] = closed[b]

\* PipesCloseWhenAbandoned, for any number of processes, descriptors and
\* buffers: close, dup2, exit and the reap mark a buffer closed exactly when
\* they take the last end a process has.
THEOREM AbandonedPipesClose == Spec => PipesCloseWhenAbandoned
\* The buffers a table has an end of are those of its pipe entries.
<1>PipesDef.
    ASSUME NEW t, NEW b
    PROVE  b \in Pipes(t) <=> \E fd \in DOMAIN t.fds : IsPipe(t.fds[fd]) /\ t.fds[fd].id = b
  BY <1>PipesDef DEF Pipes
\* close, dup2 and insert_at of a file give up what ClosedBy says.
<1>ClosedByPipes.
    ASSUME NEW t, IsTable(t), NEW g
    PROVE  ClosedBy(t, g) = Pipes(t) \ Pipes(CloseFd(t, g))
  <2> USE <1>ClosedByPipes
  <2> DEFINE c == CloseFd(t, g)
  <2>1. DOMAIN c.fds = DOMAIN t.fds \ {g} /\ \A j \in DOMAIN t.fds \ {g} : c.fds[j] = t.fds[j]
    BY CloseEntries
  <2> HIDE DEF c
  <2>2. ASSUME NEW b, b \in Pipes(t) \ Pipes(c)
        PROVE  g \in DOMAIN t.fds /\ IsPipe(t.fds[g]) /\ t.fds[g].id = b
    BY <2>1, <2>2, <1>PipesDef
  <2>3. CASE g \in DOMAIN t.fds /\ IsPipe(t.fds[g])
    <3>1. t.fds[g].id \in Pipes(t)
      BY <2>3, <1>PipesDef
    <3>2. ClosedBy(t, g) = {t.fds[g].id} \ Pipes(c)
      BY <2>3 DEF ClosedBy, c
    <3> QED BY <2>2, <3>1, <3>2 DEF c
  <2>4. CASE ~(g \in DOMAIN t.fds /\ IsPipe(t.fds[g]))
    <3>1. ClosedBy(t, g) = {}
      BY <2>4 DEF ClosedBy
    <3> QED BY <2>2, <2>4, <3>1 DEF c
  <2> QED BY <2>3, <2>4
\* dup2 closes exactly the buffers whose last end it replaces.
<1>Dup2Pipes.
    ASSUME NEW t, IsTable(t), NEW f, NEW g \in Fds
    PROVE  ClosedBy(t, g) = Pipes(t) \ Pipes(Dup2Fd(t, f, g))
  <2> USE <1>Dup2Pipes
  <2> DEFINE c == CloseFd(t, g)
             u == Dup2Fd(t, f, g)
  <2>1. DOMAIN c.fds = DOMAIN t.fds \ {g} /\ \A j \in DOMAIN t.fds \ {g} : c.fds[j] = t.fds[j]
    BY CloseEntries
  <2>2. /\ \A j \in DOMAIN t.fds \ {g} : j \in DOMAIN u.fds /\ u.fds[j] = t.fds[j]
        /\ \A j \in DOMAIN u.fds \ {g} : j \in DOMAIN t.fds
        /\ g \in DOMAIN u.fds => f \in DOMAIN t.fds /\ f # g /\ u.fds[g] = t.fds[f]
    BY Dup2FdFacts
  <2>3. ClosedBy(t, g) = Pipes(t) \ Pipes(c)
    BY <1>ClosedByPipes
  <2> HIDE DEF c, u
  <2>4. ASSUME NEW b PROVE b \in Pipes(c) <=> b \in Pipes(u)
    BY <2>1, <2>2, <1>PipesDef
  <2>5. Pipes(c) = Pipes(u)
    BY <2>4
  <2> QED BY <2>3, <2>5 DEF u
\* So does inserting a kernel fd over an entry.
<1>InsertAtPipes.
    ASSUME NEW t, IsTable(t), NEW g \in Fds, NEW v \in Vfd, ~IsPipe(v)
    PROVE  ClosedBy(t, g) = Pipes(t) \ Pipes(InsertAt(t, g, v))
  <2> USE <1>InsertAtPipes
  <2> DEFINE c == CloseFd(t, g)
             u == InsertAt(t, g, v)
  <2>1. DOMAIN c.fds = DOMAIN t.fds \ {g} /\ \A j \in DOMAIN t.fds \ {g} : c.fds[j] = t.fds[j]
    BY CloseEntries
  <2>2. u.fds = Insert(Without(t.fds, {g}), g, v)
    BY InsertAtFacts
  <2>3. ClosedBy(t, g) = Pipes(t) \ Pipes(c)
    BY <1>ClosedByPipes
  <2> HIDE DEF c, u
  <2>4. /\ DOMAIN u.fds = DOMAIN t.fds \cup {g} /\ u.fds[g] = v
        /\ \A j \in DOMAIN t.fds \ {g} : u.fds[j] = t.fds[j]
    BY <2>2 DEF Insert, Without
  <2>5. ASSUME NEW b PROVE b \in Pipes(c) <=> b \in Pipes(u)
    BY <2>1, <2>4, <1>PipesDef
  <2>6. Pipes(c) = Pipes(u)
    BY <2>5
  <2> QED BY <2>3, <2>6 DEF u
\* insert on a free number gives up nothing.
<1>InsertPipes.
    ASSUME NEW t, IsTable(t), t.next_fd + 1 < FdLimit, NEW v \in Vfd,
           t.next_fd \notin DOMAIN t.fds
    PROVE  Pipes(t) \subseteq Pipes(InsertVfd(t, v))
  <2> USE <1>InsertPipes
  <2> DEFINE u == InsertVfd(t, v)
  <2>1. u.fds = Insert(t.fds, t.next_fd, v)
    BY InsertVfdFacts
  <2> HIDE DEF u
  <2>2. \A j \in DOMAIN t.fds : j \in DOMAIN u.fds /\ u.fds[j] = t.fds[j]
    BY <2>1 DEF Insert
  <2>3. \A b : b \in Pipes(t) => b \in Pipes(u)
    BY <2>2, <1>PipesDef
  <2> QED BY <2>3 DEF u
\* What a call has to show: buffers C are marked, and the caller gives up
\* exactly these, unless there is a dup2.
<1>PipeFrame.
    ASSUME TableInv, NEW t, tables' = Insert(tables, current, t), NEW C,
           \A b \in DOMAIN closed : closed'[b] \in BOOLEAN /\ (closed'[b] <=> (closed[b] \/ b \in C)),
           current \in DOMAIN tables =>
               /\ C \subseteq Pipes(tables[current]) \ Pipes(t)
               /\ \/ Calls \cap {"dup2", "ffi_dup2"} # {}
                  \/ Pipes(tables[current]) \ Pipes(t) \subseteq C,
           current \notin DOMAIN tables => C = {}
    PROVE  PipeStep
  <2> USE <1>PipeFrame
  <2> SUFFICES ASSUME NEW b \in DOMAIN closed
               PROVE  IF \E p \in DOMAIN tables : GivesUp(p, b)
                      THEN closed'[b] \/ Calls \cap {"dup2", "ffi_dup2"} # {}
                      ELSE closed'[b] = closed[b]
    BY DEF PipeStep
  <2>1. DOMAIN tables \subseteq DOMAIN tables' /\ tables'[current] = t
        /\ \A p \in DOMAIN tables \ {current} : tables'[p] = tables[p]
    BY DEF Insert
  <2>2. \A p \in DOMAIN tables : GivesUp(p, b) <=> p = current /\ b \in Pipes(tables[current]) \ Pipes(t)
    BY <2>1 DEF GivesUp
  <2>3. CASE \E p \in DOMAIN tables : GivesUp(p, b)
    BY <2>2, <2>3
  <2>4. CASE ~\E p \in DOMAIN tables : GivesUp(p, b)
    <3>1. b \notin C
      BY <2>2, <2>4
    <3>2. closed[b] \in BOOLEAN /\ closed'[b] \in BOOLEAN /\ (closed'[b] <=> closed[b])
      BY <3>1, StateFacts
    <3>3. closed'[b] = closed[b]
      BY <3>2
    <3> QED BY <2>4, <3>3
  <2> QED BY <2>3, <2>4
\* A call that marks no buffer.
<1>PipeFrameNone.
    ASSUME NEW t, tables' = Insert(tables, current, t),
           \A b \in DOMAIN closed : closed'[b] = closed[b],
           \/ Calls \cap {"dup2", "ffi_dup2"} # {}
           \/ current \notin DOMAIN tables
           \/ Pipes(tables[current]) \subseteq Pipes(t)
    PROVE  PipeStep
  <2> USE <1>PipeFrameNone
  <2>1. /\ DOMAIN tables \subseteq DOMAIN tables' /\ tables'[current] = t
        /\ \A p \in DOMAIN tables \ {current} : tables'[p] = tables[p]
    BY DEF Insert
  <2>2. ASSUME Calls \cap {"dup2", "ffi_dup2"} = {}
        PROVE  \A b, p : p \in DOMAIN tables => ~GivesUp(p, b)
    BY <2>1, <2>2 DEF GivesUp
  <2> QED BY <2>2 DEF PipeStep
\* A step that changes no table of a process and no buffer.
<1>NoPipeStep.
    ASSUME UNCHANGED closed,
           \A p \in DOMAIN tables : p \in DOMAIN tables' /\ tables'[p] = tables[p]
    PROVE  PipeStep
  BY <1>NoPipeStep DEF PipeStep, GivesUp
\* The end of a slice closes the buffers an exiting coroutine abandons.
<1>EndSlicePipes.
    ASSUME TableInv, NEW exits \in BOOLEAN, EndSlice(exits)
    PROVE  PipeStep
  <2> USE <1>EndSlicePipes
  <2>1. CASE swapped /\ ~CanInstall(saved_fds)
    BY <2>1, <1>NoPipeStep DEF EndSlice
  <2>2. CASE ~(swapped /\ ~CanInstall(saved_fds))
    <3>1. CASE exits /\ current \in DOMAIN tables
      <4>1. /\ tables' = Without(tables, {current}) /\ MarkClosed(Pipes(tables[current]))
        BY <2>2, <3>1 DEF EndSlice
      <4>2. \A b \in DOMAIN closed : /\ closed'[b] \in BOOLEAN /\ closed[b] \in BOOLEAN
                                     /\ closed'[b] <=> (closed[b] \/ b \in Pipes(tables[current]))
        BY <4>1, MarkClosedFacts, StateFacts
      <4>3. /\ \A p \in DOMAIN tables \ {current} : p \in DOMAIN tables' /\ tables'[p] = tables[p]
            /\ current \notin DOMAIN tables'
        BY <4>1 DEF Without
      <4>4. \A b, p : p \in DOMAIN tables =>
               (GivesUp(p, b) <=> p = current /\ b \in Pipes(tables[current]))
        BY <4>3 DEF GivesUp
      <4> SUFFICES ASSUME NEW b \in DOMAIN closed
                   PROVE  IF \E p \in DOMAIN tables : GivesUp(p, b)
                          THEN closed'[b] \/ Calls \cap {"dup2", "ffi_dup2"} # {}
                          ELSE closed'[b] = closed[b]
        BY DEF PipeStep
      <4>5. CASE b \in Pipes(tables[current])
        BY <3>1, <4>2, <4>4, <4>5
      <4>6. CASE b \notin Pipes(tables[current])
        <5>1. ~\E p \in DOMAIN tables : GivesUp(p, b)
          BY <4>4, <4>6
        <5>2. closed[b] \in BOOLEAN /\ closed'[b] \in BOOLEAN /\ (closed'[b] <=> closed[b])
          BY <4>2, <4>6
        <5>3. closed'[b] = closed[b]
          BY <5>2
        <5> QED BY <5>1, <5>3
      <4> QED BY <4>5, <4>6
    <3>2. CASE ~(exits /\ current \in DOMAIN tables)
      <4>1. tables' = tables /\ MarkClosed({})
        BY <2>2, <3>2 DEF EndSlice
      <4>2. \A b \in DOMAIN closed : /\ closed'[b] \in BOOLEAN /\ closed[b] \in BOOLEAN
                                     /\ closed'[b] <=> closed[b]
        BY <4>1, MarkClosedFacts, StateFacts
      <4>3. \A b \in DOMAIN closed : closed'[b] = closed[b]
        BY <4>2
      <4>4. \A p, b : p \in DOMAIN tables => ~GivesUp(p, b)
        BY <4>1 DEF GivesUp
      <4> QED BY <4>3, <4>4 DEF PipeStep
    <3> QED BY <3>1, <3>2
  <2> QED BY <2>1, <2>2
\* open, and dup of a file or terminal: an insert.
<1>InsertCallPipes.
    ASSUME TableInv, AllocInv, UNCHANGED closed, Room(GetOrCreate(current)),
           tables' = Insert(tables, current, InsertVfd(GetOrCreate(current), File(NextRef)))
    PROVE  PipeStep
  <2> USE <1>InsertCallPipes
  <2> DEFINE t == GetOrCreate(current)
  <2>1. Backed(t, Len(filerefs), Len(closed))
    BY GetOrCreateBacked, StateFacts
  <2>2. current \in DOMAIN tables => t = tables[current]
    BY DEF GetOrCreate
  <2> HIDE DEF t
  <2>3. IsTable(t) /\ t.next_fd + 1 < FdLimit
    BY <2>1, RoomFacts, StateFacts DEF Backed, t
  <2>4. File(NextRef) \in Vfd
    BY StateFacts DEF File, Vfd, NextRef
  <2>5. ASSUME current \in DOMAIN tables, Calls \cap {"dup2", "ffi_dup2"} = {}
        PROVE  Pipes(tables[current]) \subseteq Pipes(InsertVfd(t, File(NextRef)))
    <3>1. Below(t)
      BY <2>2, <2>5 DEF AllocInv
    <3>2. t.next_fd \notin DOMAIN t.fds
      BY <2>3, <2>4, <3>1, InsertBelow
    <3> QED BY <2>2, <2>3, <2>4, <2>5, <3>2, <1>InsertPipes
  <2>6. \A b \in DOMAIN closed : closed'[b] = closed[b]
    OBVIOUS
  <2> QED BY <2>5, <2>6, <1>PipeFrameNone DEF t
\* vproc_ffi_pipe closes no buffer: the numbers it takes are free.
<1>FfiPipePipes.
    ASSUME TableInv, AllocInv, FfiPipe
    PROVE  PipeStep
  <2> USE <1>FfiPipePipes
  <2> DEFINE t == GetOrCreate(current)
             b == Len(closed) + 1
             u == InsertVfd(t, PipeRead(b))
  <2>1. /\ Room(t) /\ Room(AfterAlloc(t))
        /\ tables' = Insert(tables, current, CreatePipe(t, b)) /\ closed' = Append(closed, FALSE)
    BY DEF FfiPipe
  <2>2. IsTable(t) /\ b \in Nat
    BY GetOrCreateBacked, StateFacts DEF Backed
  <2>3. current \in DOMAIN tables => t = tables[current]
    BY DEF GetOrCreate
  <2> HIDE DEF t, b
  <2>4. PipeRead(b) \in Vfd /\ PipeWrite(b) \in Vfd
    BY <2>2 DEF PipeRead, PipeWrite, Vfd
  <2>5. t.next_fd + 1 < FdLimit
    BY <2>1, <2>2, RoomFacts, StateFacts
  <2>6. AfterAlloc(t).next_fd + 1 < FdLimit
    BY <2>1, <2>2, <2>5, AllocFacts, RoomFacts, StateFacts
  <2>7. IsTable(u) /\ u.next_fd = AfterAlloc(t).next_fd
    BY <2>2, <2>4, <2>5, InsertVfdFacts
  <2>8. ASSUME current \in DOMAIN tables, Calls \cap {"dup2", "ffi_dup2"} = {}
        PROVE  Pipes(tables[current]) \subseteq Pipes(CreatePipe(t, b))
    <3>1. Below(t)
      BY <2>3, <2>8 DEF AllocInv
    <3>2. t.next_fd \notin DOMAIN t.fds /\ Below(u)
      BY <2>2, <2>4, <2>5, <3>1, InsertBelow
    <3>3. Pipes(t) \subseteq Pipes(u)
      BY <2>2, <2>4, <2>5, <3>2, <1>InsertPipes
    <3> HIDE DEF u
    <3>4. u.next_fd \notin DOMAIN u.fds
      BY <2>4, <2>6, <2>7, <3>2, InsertBelow
    <3>5. Pipes(u) \subseteq Pipes(InsertVfd(u, PipeWrite(b)))
      BY <2>4, <2>6, <2>7, <3>4, <1>InsertPipes
    <3> QED BY <2>3, <2>8, <3>3, <3>5 DEF CreatePipe, u
  <2>9. \A c \in DOMAIN closed : closed'[c] = closed[c]
    <3>1. closed \in Seq(BOOLEAN)
      BY StateFacts
    <3>2. PICK x \in BOOLEAN : closed' = Append(closed, x)
      BY <2>1
    <3>3. ASSUME NEW S, NEW q \in Seq(S), NEW y \in S, NEW c \in DOMAIN q
          PROVE  Append(q, y)[c] = q[c]
      OBVIOUS
    <3> QED BY <3>1, <3>2, <3>3
  <2> QED BY <2>1, <2>8, <2>9, <1>PipeFrameNone
\* dup and dup2 on entries of the table, and close.
<1>TableCallPipes.
    ASSUME TableInv, current \in DOMAIN tables, NEW t, NEW C, MarkClosed(C),
           tables' = Insert(tables, current, t), C = Pipes(tables[current]) \ Pipes(t)
    PROVE  PipeStep
  <2> USE <1>TableCallPipes
  <2>1. \A b \in DOMAIN closed : closed'[b] \in BOOLEAN /\ (closed'[b] <=> (closed[b] \/ b \in C))
    BY MarkClosedFacts, StateFacts
  <2> QED BY <2>1, <1>PipeFrame
\* dup closes what its new number held, whether next_fd is free or not.
<1>DupPipes.
    ASSUME NEW t, IsTable(t), t.next_fd + 1 < FdLimit, NEW f
    PROVE  ClosedBy(AfterAlloc(t), AllocFd(t)) = Pipes(t) \ Pipes(DupFd(t, f))
  <2> USE <1>DupPipes
  <2>1. /\ AfterAlloc(t) = [fds |-> t.fds, next_fd |-> AfterAlloc(t).next_fd]
        /\ IsTable(AfterAlloc(t)) /\ AllocFd(t) \in Fds
    BY AllocFacts
  <2>2. AfterAlloc(t).fds = t.fds
    BY <2>1
  <2>3. Pipes(AfterAlloc(t)) = Pipes(t)
    BY <2>2 DEF Pipes
  <2> QED BY <2>1, <2>3, <1>Dup2Pipes DEF DupFd
\* Every step closes exactly the buffers it abandons.
<1>PipeNext. TableInv /\ AllocInv /\ [Next]_vars => PipeStep
  <2> SUFFICES ASSUME TableInv, AllocInv, [Next]_vars PROVE PipeStep
    OBVIOUS
  <2>1. CASE UNCHANGED << tables, closed >>
    BY <2>1, <1>NoPipeStep
  <2>2. ASSUME NEW t, UNCHANGED closed, tables' = Insert(tables, next_pid, t) PROVE PipeStep
    <3>1. next_pid \notin DOMAIN tables
      BY StateFacts
    <3>2. \A p \in DOMAIN tables : p \in DOMAIN tables' /\ tables'[p] = tables[p]
      BY <2>2, <3>1 DEF Insert
    <3> QED BY <2>2, <3>2, <1>NoPipeStep
  <2>3. ASSUME NEW k, CreateProcess(k) PROVE PipeStep
    BY <2>2, <2>3 DEF CreateProcess
  <2>4. CASE FfiFork \/ Execve
    BY <2>2, <2>4 DEF FfiFork, Execve
  <2>5. ASSUME NEW cloexec, Open(cloexec) PROVE PipeStep
    BY <2>5, <1>InsertCallPipes DEF Open
  <2>6. ASSUME NEW fd, InTable(fd), CloseEntry(fd) PROVE PipeStep
    <3>1. /\ current \in DOMAIN tables /\ MarkClosed(ClosedBy(tables[current], fd))
          /\ tables' = Insert(tables, current, CloseFd(tables[current], fd))
      BY <2>6 DEF InTable, CloseEntry
    <3> QED BY <3>1, <1>ClosedByPipes, <1>TableCallPipes, StateFacts
  <2>7. ASSUME NEW f, NEW g \in FdsInUse, Dup2(f, g) \/ FfiDup2(f, g) PROVE PipeStep
    <3> DEFINE t == tables[current]
    <3>1. current \in DOMAIN tables /\ MarkClosed(ClosedBy(t, g)) /\ IsTable(t) /\ g \in Fds
      BY <2>7, StateFacts, ScenarioFacts DEF Dup2, FfiDup2
    <3>2. File(NextRef) \in Vfd /\ ~IsPipe(File(NextRef))
      BY StateFacts DEF File, Vfd, NextRef, IsPipe
    <3>3. \/ tables' = Insert(tables, current, InsertAt(t, g, File(NextRef)))
          \/ tables' = Insert(tables, current, Dup2Fd(t, f, g))
      BY <2>7 DEF Dup2, FfiDup2
    <3> HIDE DEF t
    <3>4. /\ ClosedBy(t, g) = Pipes(t) \ Pipes(InsertAt(t, g, File(NextRef)))
          /\ ClosedBy(t, g) = Pipes(t) \ Pipes(Dup2Fd(t, f, g))
      BY <3>1, <3>2, <1>InsertAtPipes, <1>Dup2Pipes
    <3> QED BY <3>1, <3>3, <3>4, <1>TableCallPipes DEF t
  <2>8. ASSUME NEW f, Dup(f) \/ FfiDup(f) PROVE PipeStep
    <3> DEFINE t == tables[current]
               C == ClosedBy(AfterAlloc(t), AllocFd(t))
    <3>1. current \in DOMAIN tables /\ Room(t)
      BY <2>8 DEF Dup, FfiDup
    <3>2. IsTable(t) /\ t.next_fd + 1 < FdLimit
      BY <3>1, StateFacts, RoomFacts
    <3>3. \/ tables' = Insert(tables, current, InsertVfd(t, File(NextRef))) /\ UNCHANGED closed
          \/ tables' = Insert(tables, current, DupFd(t, f)) /\ MarkClosed(C)
      BY <2>8 DEF Dup, FfiDup
    <3>4. t = GetOrCreate(current)
      BY <3>1 DEF GetOrCreate
    <3>5. C = Pipes(t) \ Pipes(DupFd(t, f))
      BY <3>2, <1>DupPipes
    <3>6. CASE tables' = Insert(tables, current, DupFd(t, f)) /\ MarkClosed(C)
      BY <3>1, <3>5, <3>6, <1>TableCallPipes
    <3>7. CASE tables' = Insert(tables, current, InsertVfd(t, File(NextRef))) /\ UNCHANGED closed
      BY <3>1, <3>4, <3>7, <1>InsertCallPipes
    <3> QED BY <3>3, <3>6, <3>7
  <2>9. CASE Next
    <3>1. Act
      BY <2>9 DEF Next
    <3>2. HostOpen \/ Spawn \/ (\E p \in live : Resume(p)) \/ Pipe => UNCHANGED << tables, closed >>
      BY DEF HostOpen, Spawn, Resume, Pipe
    <3>3. \A fd : Close(fd) => UNCHANGED << tables, closed >> \/ (InTable(fd) /\ CloseEntry(fd))
      BY DEF Close
    <3>4. \A fd : FfiClose(fd) => InTable(fd) /\ CloseEntry(fd)
      BY DEF FfiClose
    <3> QED BY <2>1, <2>3, <2>4, <2>5, <2>6, <2>7, <2>8, <3>1, <3>2, <3>3, <3>4,
               <1>EndSlicePipes, <1>FfiPipePipes DEF Act
  <2>10. CASE UNCHANGED vars
    BY <2>1, <2>10 DEF vars
  <2> QED BY <2>9, <2>10
<1>1. TableInv /\ AllocInv /\ [Next]_vars => [PipeStep]_vars
  BY <1>PipeNext
<1> QED BY <1>1, TablesInvariant, PTL DEF Spec, PipesCloseWhenAbandoned, PipeStep
-----------------------------------------------------------------------------
(* No kernel fd leaks.                                                     *)

\* The terminals of a table are the host's fds or below 6.
Lent(t, H) ==
    \A fd \in DOMAIN t.fds : t.fds[fd].kind = "Real" => t.fds[fd].id \in DOMAIN H \cup 0..5

\* NoKernelFdLeaks, for any number of processes, descriptors and kernel fds:
\* close and the reap of a process close every kernel fd that no entry of any
\* table names any more.
THEOREM KernelFdsDoNotLeak == Spec => []NoKernelFdLeaks
\* A set of one element has cardinality 1.
<1>CountOne.
    ASSUME NEW x
    PROVE  Cardinality({x}) = 1
  <2> USE <1>CountOne
  <2> DEFINE Counts(f) == f = [T \in SUBSET {x} |-> IF T = {} THEN 0 ELSE 1 + f[T \ {CHOOSE y : y \in T}]]
             g == [T \in SUBSET {x} |-> IF T = {} THEN 0 ELSE 1]
             c == CHOOSE f : Counts(f)
  <2>1. Counts(g)
    <3>1. ASSUME NEW T \in SUBSET {x}, T # {} PROVE T \ {CHOOSE y : y \in T} = {}
      <4>1. T = {x}
        BY <3>1
      <4>2. (CHOOSE y : y \in T) \in T
        BY <3>1
      <4> QED BY <4>1, <4>2
    <3>2. ASSUME NEW T \in SUBSET {x} 
          PROVE  g[T] = IF T = {} THEN 0 ELSE 1 + g[T \ {CHOOSE y : y \in T}]
      BY <3>1
    <3> QED BY <3>2
  <2>2. Counts(c)
    <3> HIDE DEF Counts, g
    <3> QED BY <2>1
  <2>3. c[{}] = 0
    BY <2>2
  <2>4. c[{x}] = 1
    <3>1. c[{x}] = 1 + c[{x} \ {CHOOSE y : y \in {x}}]
      BY <2>2
    <3>2. (CHOOSE y : y \in {x}) = x
      OBVIOUS
    <3>3. {x} \ {CHOOSE y : y \in {x}} = {}
      BY <3>2
    <3> QED BY <2>3, <3>1, <3>3
  <2> QED BY <2>4 DEF Cardinality
\* A file inserted, a pipe end inserted, a number closed.
<1>InsertUses.
    ASSUME NEW t, IsTable(t), t.next_fd + 1 < FdLimit, NEW v \in Vfd,
           t.next_fd \notin DOMAIN t.fds, NEW F
    PROVE  /\ ~IsPipe(v) => Uses(F, InsertVfd(t, v)) = Uses(F, t) \cup {KernelFd(F, v)}
           /\ IsPipe(v) => Uses(F, InsertVfd(t, v)) = Uses(F, t)
  <2> USE <1>InsertUses
  <2> DEFINE u == InsertVfd(t, v)
  <2>1. u.fds = Insert(t.fds, t.next_fd, v)
    BY InsertVfdFacts
  <2> HIDE DEF u
  <2>2. /\ DOMAIN u.fds = DOMAIN t.fds \cup {t.next_fd} /\ u.fds[t.next_fd] = v
        /\ \A j \in DOMAIN t.fds : u.fds[j] = t.fds[j]
    BY <2>1 DEF Insert
  <2>3. ASSUME ~IsPipe(v), NEW k
        PROVE  k \in Uses(F, u) <=> k \in Uses(F, t) \cup {KernelFd(F, v)}
    BY <2>2, <2>3, UsesDef
  <2>4. ASSUME IsPipe(v), NEW k
        PROVE  k \in Uses(F, u) <=> k \in Uses(F, t)
    BY <2>2, <2>4, UsesDef
  <2> QED BY <2>3, <2>4 DEF u
\* What a new or changed table has to show.
<1>AccountedFrame.
    ASSUME NEW T, NEW F, NEW K, NEW H, NEW nf, NEW nc, AllBacked(T, nf, nc),
           Accounted(T, F, K, H), NEW p, NEW t, NEW G, NEW J,
           \A r \in 1..nf : G[r] = F[r],
           Distinct(t),
           \A fd \in DOMAIN t.fds : t.fds[fd].kind = "Real" => t.fds[fd].id \in DOMAIN H \cup 0..5,
           \A k \in DOMAIN J : k \in DOMAIN K \cup 0..5 \cup Uses(G, t),
           p \in DOMAIN T => \A k \in DOMAIN J :
               k \in Uses(F, T[p]) => k \in Uses(G, t) \cup 0..5 \cup DOMAIN H
    PROVE  Accounted(Insert(T, p, t), G, J, H)
  <2> USE <1>AccountedFrame
  <2> DEFINE S == Insert(T, p, t)
  <2>1. DOMAIN S = DOMAIN T \cup {p} /\ S[p] = t /\ \A q \in DOMAIN T \ {p} : S[q] = T[q]
    BY DEF Insert
  <2> HIDE DEF S
  <2>2. \A q \in DOMAIN T : Uses(G, T[q]) = Uses(F, T[q])
    BY KernelFdsFrame
  <2>3. \A q \in DOMAIN S : Distinct(S[q])
    BY <2>1 DEF Accounted
  <2>4. \A q \in DOMAIN S : \A fd \in DOMAIN S[q].fds :
           S[q].fds[fd].kind = "Real" => S[q].fds[fd].id \in DOMAIN H \cup 0..5
    BY <2>1 DEF Accounted
  <2>5. ASSUME NEW k \in DOMAIN J \ (0..5 \cup DOMAIN H)
        PROVE  \E q \in DOMAIN S : k \in Uses(G, S[q])
    <3>1. CASE k \in Uses(G, t)
      BY <2>1, <3>1
    <3>2. CASE k \notin Uses(G, t)
      <4>1. k \in DOMAIN K \ (0..5 \cup DOMAIN H)
        BY <2>5, <3>2
      <4>2. PICK q \in DOMAIN T : k \in Uses(F, T[q])
        BY <4>1 DEF Accounted
      <4>3. q # p
        BY <2>5, <3>2, <4>2
      <4> QED BY <2>1, <2>2, <4>2, <4>3
    <3> QED BY <3>1, <3>2
  <2>6. Accounted(S, G, J, H)
    BY <2>3, <2>4, <2>5 DEF Accounted
  <2> QED BY <2>6 DEF S
\* The table a coroutine is created with lists kernel fds of the host.
<1>NewTableAccounted.
    ASSUME NEW i \in Kfds, NEW j \in Kfds, NEW k \in Kfds, NEW H, {i, j, k} \subseteq DOMAIN H \cup 0..5
    PROVE  Distinct(NewTable(i, j, k)) /\ Lent(NewTable(i, j, k), H)
  <2> USE <1>NewTableAccounted
  <2> DEFINE t == NewTable(i, j, k)
  <2>1. DOMAIN t.fds = 0..2 /\ t.fds[0] = Real(i) /\ t.fds[1] = Real(j) /\ t.fds[2] = Real(k)
    BY NewTableBacked
  <2> HIDE DEF t
  <2>2. \A fd \in DOMAIN t.fds : fd = 0 \/ fd = 1 \/ fd = 2
    BY <2>1
  <2>3. \A fd \in DOMAIN t.fds : t.fds[fd].kind = "Real" /\ t.fds[fd].id \in {i, j, k}
    BY <2>1, <2>2 DEF Real
  <2> QED BY <2>3 DEF Distinct, Lent, IsFile, t
\* So does the one a call finds or makes.
<1>GetOrCreateAccounted.
    ASSUME TableInv, Accounted(tables, filerefs, kernel, host), NEW p
    PROVE  Distinct(GetOrCreate(p)) /\ Lent(GetOrCreate(p), host)
  <2> USE <1>GetOrCreateAccounted
  <2>1. CASE p \in DOMAIN tables
    BY <2>1 DEF GetOrCreate, Accounted, Lent
  <2>2. CASE p \notin DOMAIN tables
    <3>1. 0 \in Kfds /\ 1 \in Kfds /\ 2 \in Kfds /\ {0, 1, 2} \subseteq DOMAIN host \cup 0..5
      BY VfdTablesAssumption DEF Kfds
    <3> QED BY <2>2, <3>1, <1>NewTableAccounted DEF GetOrCreate
  <2> QED BY <2>1, <2>2
\* open, and dup of a file or terminal.
<1>InsertCallAccounted.
    ASSUME TableInv, Accounted(tables, filerefs, kernel, host),
           NEW t, t = GetOrCreate(current), Room(t), Below(t),
           NEW k \in Kfds, NEW d \in 0..OpenLimit, NEW cloexec \in BOOLEAN,
           NewFileRef(k, cloexec, d), kernel' = Insert(kernel, k, d),
           tables' = Insert(tables, current, InsertVfd(t, File(NextRef)))
    PROVE  Accounted(tables', filerefs', kernel', host)
  <2> USE <1>InsertCallAccounted
  <2> DEFINE u == InsertVfd(t, File(NextRef))
  <2>1. Backed(t, Len(filerefs), Len(closed)) /\ Distinct(t) /\ Lent(t, host)
    BY GetOrCreateBacked, <1>GetOrCreateAccounted, StateFacts
  <2>2. IsTable(t) /\ t.next_fd + 1 < FdLimit
    BY <2>1, RoomFacts, StateFacts DEF Backed
  <2>3. /\ NextRef = Len(filerefs) + 1 /\ Len(filerefs) \in Nat
        /\ \A r \in 1..Len(filerefs) : filerefs'[r] = filerefs[r]
        /\ filerefs'[NextRef].real_fd = k
    BY NewFileRefFacts, StateFacts
  <2>4. /\ File(NextRef) \in Vfd /\ ~IsPipe(File(NextRef)) /\ IsFile(File(NextRef))
        /\ File(NextRef).kind = "File" /\ File(NextRef).id = NextRef
        /\ KernelFd(filerefs', File(NextRef)) = k
    BY <2>3 DEF File, Vfd, IsPipe, IsFile, KernelFd
  <2>5. t.next_fd \notin DOMAIN t.fds
    BY <2>2, <2>4, InsertBelow
  <2>6. u.fds = Insert(t.fds, t.next_fd, File(NextRef))
    BY <2>2, <2>4, InsertVfdFacts
  <2>7. Uses(filerefs', u) = Uses(filerefs', t) \cup {k}
    BY <2>2, <2>4, <2>5, <1>InsertUses
  <2>8. Uses(filerefs', t) = Uses(filerefs, t)
    BY <2>1, <2>3, KernelFdFrame
  <2> HIDE DEF u
  <2>9. /\ DOMAIN u.fds = DOMAIN t.fds \cup {t.next_fd} /\ u.fds[t.next_fd] = File(NextRef)
        /\ \A j \in DOMAIN t.fds : u.fds[j] = t.fds[j]
    BY <2>5, <2>6 DEF Insert
  <2>10. \A fd \in DOMAIN t.fds : t.fds[fd] # File(NextRef)
    <3> SUFFICES ASSUME NEW fd \in DOMAIN t.fds, t.fds[fd] = File(NextRef) PROVE FALSE
      OBVIOUS
    <3>1. IsEntry(t.fds[fd], Len(filerefs), Len(closed))
      BY <2>1 DEF Backed
    <3>2. NextRef \in 1..Len(filerefs)
      BY <2>4, <3>1 DEF IsEntry
    <3> QED BY <2>3, <3>2
  <2>11. Distinct(u)
    BY <2>1, <2>5, <2>9, <2>10 DEF Distinct
  <2>12. Lent(u, host)
    BY <2>1, <2>4, <2>9 DEF Lent
  <2>13. \A x \in DOMAIN kernel' : x \in DOMAIN kernel \cup 0..5 \cup Uses(filerefs', u)
    BY <2>7 DEF Insert
  <2>14. current \in DOMAIN tables => \A x \in DOMAIN kernel' :
            x \in Uses(filerefs, tables[current]) => x \in Uses(filerefs', u) \cup 0..5 \cup DOMAIN host
    BY <2>7, <2>8 DEF GetOrCreate
  <2>15. AllBacked(tables, Len(filerefs), Len(closed))
    BY DEF TableInv
  <2> QED BY <2>3, <2>11, <2>12, <2>13, <2>14, <2>15, <1>AccountedFrame DEF Lent, u
\* Calls on the running process's table that add no file and open nothing.
<1>TableCallAccounted.
    ASSUME TableInv, Accounted(tables, filerefs, kernel, host), NEW p, NEW t, NEW K,
           tables' = Insert(tables, p, t), Distinct(t), Lent(t, host), DOMAIN K \subseteq DOMAIN kernel,
           p \in DOMAIN tables => \A k \in DOMAIN K :
               k \in Uses(filerefs, tables[p]) => k \in Uses(filerefs, t) \cup 0..5 \cup DOMAIN host
    PROVE  Accounted(tables', filerefs, K, host)
  <2> USE <1>TableCallAccounted
  <2>1. AllBacked(tables, Len(filerefs), Len(closed))
    BY DEF TableInv
  <2>2. \A k \in DOMAIN K : k \in DOMAIN kernel \cup 0..5 \cup Uses(filerefs, t)
    OBVIOUS
  <2>3. \A r \in 1..Len(filerefs) : filerefs[r] = filerefs[r]
    OBVIOUS
  <2> QED BY <2>1, <2>2, <2>3, <1>AccountedFrame DEF Lent
\* close: the kernel fd goes with the only entry for it.
<1>CloseAccounted.
    ASSUME TableInv, Accounted(tables, filerefs, kernel, host), NEW fd, InTable(fd), CloseEntry(fd)
    PROVE  Accounted(tables', filerefs, kernel', host)
  <2> USE <1>CloseAccounted
  <2> DEFINE t == tables[current]
             c == CloseFd(t, fd)
             v == t.fds[fd]
  <2>1. current \in DOMAIN tables /\ fd \in DOMAIN t.fds /\ tables' = Insert(tables, current, c)
    BY DEF InTable, CloseEntry
  <2>2. /\ IsTable(t) /\ Distinct(t) /\ Lent(t, host)
        /\ IsEntry(v, Len(filerefs), Len(closed))
    BY <2>1, StateFacts DEF Accounted, Lent, Backed
  <2>3. DOMAIN c.fds = DOMAIN t.fds \ {fd} /\ \A j \in DOMAIN t.fds \ {fd} : c.fds[j] = t.fds[j]
    BY <2>2, CloseEntries
  <2>4. kernel' = Without(kernel, IF IsFile(v) THEN {filerefs[r].real_fd : r \in {v.id} \ Files(c)} ELSE {})
    BY DEF CloseEntry, RealClose, Unreferenced
  <2>5. DOMAIN kernel' \subseteq DOMAIN kernel
    BY <2>4 DEF Without
  <2>6. Distinct(c) /\ Lent(c, host)
    BY <2>2, <2>3 DEF Distinct, Lent
  <2>7. ASSUME NEW k \in DOMAIN kernel', k \in Uses(filerefs, t)
        PROVE  k \in Uses(filerefs, c) \cup 0..5 \cup DOMAIN host
    <3>1. PICK f \in DOMAIN t.fds : ~IsPipe(t.fds[f]) /\ KernelFd(filerefs, t.fds[f]) = k
      BY <2>7, UsesDef
    <3>2. CASE f # fd
      BY <2>3, <3>1, <3>2, UsesDef
    <3>3. CASE f = fd /\ v.kind = "Real"
      BY <2>1, <2>2, <3>1, <3>3 DEF KernelFd, Lent
    <3>4. CASE f = fd /\ IsFile(v)
      <4>1. k = filerefs[v.id].real_fd
        BY <3>1, <3>4 DEF KernelFd, IsFile
      <4>2. v.id \notin Files(c)
        <5>1. ASSUME NEW g \in DOMAIN c.fds, IsFile(c.fds[g]), c.fds[g].id = v.id PROVE FALSE
          <6>1. g \in DOMAIN t.fds /\ g # fd /\ c.fds[g] = t.fds[g]
            BY <2>3, <5>1
          <6>2. IsEntry(t.fds[g], Len(filerefs), Len(closed))
            BY <2>1, <6>1, StateFacts DEF Backed
          <6>3. t.fds[g] = File(v.id) /\ v = File(v.id)
            BY <2>2, <3>4, <5>1, <6>1, <6>2, EntryKinds
          <6> QED BY <2>1, <2>2, <3>4, <6>1, <6>3 DEF Distinct
        <5> QED BY <5>1 DEF Files
      <4>3. k \notin DOMAIN kernel'
        BY <2>4, <3>4, <4>1, <4>2 DEF Without
      <4> QED BY <2>7, <4>3
    <3> QED BY <2>2, <3>1, <3>2, <3>3, <3>4, EntryKinds
  <2> HIDE DEF c
  <2> QED BY <2>1, <2>5, <2>6, <2>7, <1>TableCallAccounted
\* A table with the same entries for files and terminals uses the same
\* kernel fds.
<1>SameKernelEntries.
    ASSUME NEW t, NEW u, KernelEntries(u) = KernelEntries(t),
           \A fd \in KernelEntries(t) : u.fds[fd] = t.fds[fd], NEW H, NEW F
    PROVE  /\ Distinct(t) => Distinct(u)
           /\ Lent(t, H) => Lent(u, H)
           /\ Uses(F, u) = Uses(F, t)
  <2> USE <1>SameKernelEntries
  <2>1. Uses(F, u) = Uses(F, t)
    BY DEF Uses
  <2>2. \A fd \in DOMAIN u.fds : u.fds[fd].kind \in {"Real", "File"} =>
            fd \in DOMAIN t.fds /\ u.fds[fd] = t.fds[fd]
    BY DEF KernelEntries, IsPipe
  <2>3. Lent(t, H) => Lent(u, H)
    BY <2>2 DEF Lent
  <2>4. Distinct(t) => Distinct(u)
    BY <2>2 DEF Distinct, IsFile
  <2> QED BY <2>1, <2>3, <2>4
\* create_pipe, and dup of a pipe end or of nothing.
<1>PipeKernelEntries.
    ASSUME NEW t, IsTable(t), Below(t), t.next_fd + 1 < FdLimit,
           AfterAlloc(t).next_fd + 1 < FdLimit, NEW b \in Nat
    PROVE  LET u == CreatePipe(t, b) IN
           /\ KernelEntries(u) = KernelEntries(t)
           /\ \A fd \in KernelEntries(t) : u.fds[fd] = t.fds[fd]
  <2> USE <1>PipeKernelEntries
  <2> DEFINE n == t.next_fd
             m == AfterAlloc(t).next_fd
             u == CreatePipe(t, b)
  <2>1. /\ n \notin DOMAIN t.fds /\ m \notin DOMAIN t.fds \cup {n}
        /\ u.fds = Insert(Insert(t.fds, n, PipeRead(b)), m, PipeWrite(b))
    BY PipeBelow
  <2> HIDE DEF n, m, u
  <2>2. /\ DOMAIN u.fds = DOMAIN t.fds \cup {n, m}
        /\ u.fds[n] = PipeRead(b) /\ u.fds[m] = PipeWrite(b)
        /\ \A fd \in DOMAIN t.fds : u.fds[fd] = t.fds[fd]
    BY <2>1 DEF Insert
  <2>3. IsPipe(PipeRead(b)) /\ IsPipe(PipeWrite(b))
    BY DEF IsPipe, PipeRead, PipeWrite
  <2> QED BY <2>1, <2>2, <2>3 DEF KernelEntries, u
\* dup of a pipe end, or of nothing, leaves the kernel entries alone.
<1>DupKernelEntries.
    ASSUME NEW t, IsTable(t), Below(t), t.next_fd + 1 < FdLimit, NEW f, ~Backs(t, f)
    PROVE  LET u == DupFd(t, f) IN
           /\ KernelEntries(u) = KernelEntries(t)
           /\ \A fd \in KernelEntries(t) : u.fds[fd] = t.fds[fd]
  <2> USE <1>DupKernelEntries
  <2> DEFINE u == DupFd(t, f)
             n == t.next_fd
  <2>1. /\ n \notin DOMAIN t.fds
        /\ f \notin DOMAIN t.fds => u.fds = t.fds
        /\ f \in DOMAIN t.fds => u.fds = Insert(t.fds, n, t.fds[f])
    BY DupBelow
  <2> HIDE DEF u, n
  <2>2. CASE f \notin DOMAIN t.fds
    BY <2>1, <2>2 DEF KernelEntries, u
  <2>3. CASE f \in DOMAIN t.fds
    <3>1. IsPipe(t.fds[f])
      BY <2>3 DEF Backs
    <3>2. /\ DOMAIN u.fds = DOMAIN t.fds \cup {n} /\ u.fds[n] = t.fds[f]
          /\ \A fd \in DOMAIN t.fds : u.fds[fd] = t.fds[fd]
      BY <2>1, <2>3 DEF Insert
    <3> QED BY <2>1, <3>1, <3>2 DEF KernelEntries, u
  <2> QED BY <2>2, <2>3
\* A call that changes no entry for a file or terminal.
<1>SameEntriesAccounted.
    ASSUME TableInv, Accounted(tables, filerefs, kernel, host), NEW p,
           NEW u, tables' = Insert(tables, p, u),
           LET t == GetOrCreate(p) IN
           KernelEntries(u) = KernelEntries(t) /\ \A fd \in KernelEntries(t) : u.fds[fd] = t.fds[fd]
    PROVE  Accounted(tables', filerefs, kernel, host)
  <2> USE <1>SameEntriesAccounted
  <2> DEFINE t == GetOrCreate(p)
  <2>1. Distinct(t) /\ Lent(t, host)
    BY <1>GetOrCreateAccounted
  <2>2. p \in DOMAIN tables => t = tables[p]
    BY DEF GetOrCreate
  <2>3. KernelEntries(u) = KernelEntries(t) /\ \A fd \in KernelEntries(t) : u.fds[fd] = t.fds[fd]
    OBVIOUS
  <2> HIDE DEF t
  <2>4. Distinct(u) /\ Lent(u, host) /\ Uses(filerefs, u) = Uses(filerefs, t)
    BY <2>1, <2>3, <1>SameKernelEntries
  <2>5. p \in DOMAIN tables => \A k \in DOMAIN kernel :
            k \in Uses(filerefs, tables[p]) => k \in Uses(filerefs, u) \cup 0..5 \cup DOMAIN host
    BY <2>2, <2>4
  <2> QED BY <2>4, <2>5, <1>TableCallAccounted
\* fork and exec.
<1>InheritAccounted.
    ASSUME TableInv, Accounted(tables, filerefs, kernel, host), FfiFork \/ Execve
    PROVE  Accounted(tables', filerefs, kernel', host)
  <2> USE <1>InheritAccounted
  <2> DEFINE t == GetOrCreate(current)
  <2>1. Distinct(t) /\ Lent(t, host) /\ IsTable(t)
    BY <1>GetOrCreateAccounted, GetOrCreateBacked, StateFacts DEF Backed
  <2> HIDE DEF t
  <2>2. PICK u : /\ tables' = Insert(tables, next_pid, u) /\ Distinct(u) /\ Lent(u, host)
                 /\ DOMAIN kernel' \subseteq DOMAIN kernel
    <3>1. CASE FfiFork
      BY <2>1, <3>1 DEF FfiFork, Forked, t
    <3>2. CASE Execve
      <4>1. PICK R : tables' = Insert(tables, next_pid, CloseCloexec(t, R))
        BY <3>2 DEF Execve, Forked, t
      <4>2. PICK S : CloseCloexec(t, R) = [fds |-> Without(t.fds, S), next_fd |-> t.next_fd]
        BY <2>1, CloexecFacts
      <4>3. /\ DOMAIN CloseCloexec(t, R).fds = DOMAIN t.fds \ S
            /\ \A fd \in DOMAIN t.fds \ S : CloseCloexec(t, R).fds[fd] = t.fds[fd]
        BY <4>2 DEF Without
      <4>4. Distinct(CloseCloexec(t, R)) /\ Lent(CloseCloexec(t, R), host)
        BY <2>1, <4>3 DEF Distinct, Lent
      <4>5. DOMAIN kernel' \subseteq DOMAIN kernel
        BY <3>2 DEF Execve, RealClose, Without
      <4> QED BY <4>1, <4>4, <4>5
    <3> QED BY <3>1, <3>2
  <2>3. next_pid \notin DOMAIN tables
    BY StateFacts
  <2> QED BY <2>2, <2>3, <1>TableCallAccounted
\* A step that leaves the tables alone, and opens only 0-2 or for the host.
<1>QuietAccounted.
    ASSUME NEW T, NEW F, NEW K, NEW H, NEW J, NEW G, Accounted(T, F, K, H),
           DOMAIN H \subseteq DOMAIN G, DOMAIN J \subseteq DOMAIN K \cup 0..5 \cup DOMAIN G
    PROVE  Accounted(T, F, J, G)
  BY <1>QuietAccounted DEF Accounted
\* The end of a slice: reaping closes what only the reaped table uses.
<1>EndSliceAccounted.
    ASSUME TableInv, Accounted(tables, filerefs, kernel, host),
           NEW exits \in BOOLEAN, EndSlice(exits)
    PROVE  Accounted(tables', filerefs, kernel', host)
  <2> USE <1>EndSliceAccounted
  <2> USE DEF saved_fds
  <2>1. CASE swapped /\ ~CanInstall(saved_fds)
    BY <2>1 DEF EndSlice
  <2>2. CASE ~(swapped /\ ~CanInstall(saved_fds))
    <3> DEFINE restored == IF swapped THEN Install(saved_fds) ELSE kernel
               reaps == exits /\ current \in DOMAIN tables
    <3>1. /\ kernel' = Without(restored, IF reaps THEN ReapedFds(current) ELSE {})
          /\ tables' = IF reaps THEN Without(tables, {current}) ELSE tables
      BY <2>2 DEF EndSlice
    <3>2. DOMAIN restored \subseteq DOMAIN kernel \cup 0..5
      <4>1. CASE swapped
        <5>1. CanInstall(saved_fds) /\ IsMap(kernel, Kfds, 0..OpenLimit)
          BY <2>2, <4>1, StateFacts
        <5>2. DOMAIN Install(saved_fds) \subseteq DOMAIN kernel \cup 0..2
          BY <5>1, InstallFacts
        <5> QED BY <4>1, <5>2
      <4>2. CASE ~swapped
        BY <4>2
      <4> QED BY <4>1, <4>2
    <3> HIDE DEF restored
    <3>3. CASE ~reaps
      <4>1. tables' = tables /\ DOMAIN kernel' \subseteq DOMAIN kernel \cup 0..5
        BY <3>1, <3>2, <3>3 DEF Without
      <4> QED BY <4>1, <1>QuietAccounted
    <3>4. CASE reaps
      <4>1. /\ DOMAIN tables' = DOMAIN tables \ {current}
            /\ \A q \in DOMAIN tables' : tables'[q] = tables[q]
        BY <3>1, <3>4 DEF Without
      <4>2. /\ \A p \in DOMAIN tables' : Distinct(tables'[p])
            /\ \A p \in DOMAIN tables' : \A fd \in DOMAIN tables'[p].fds :
                  tables'[p].fds[fd].kind = "Real" => tables'[p].fds[fd].id \in DOMAIN host \cup 0..5
        BY <4>1 DEF Accounted
      <4>3. ASSUME NEW k \in DOMAIN kernel' \ (0..5 \cup DOMAIN host)
            PROVE  \E p \in DOMAIN tables' : k \in Uses(filerefs, tables'[p])
        <5>1. k \in DOMAIN kernel /\ k \notin ReapedFds(current)
          BY <3>1, <3>2, <3>4 DEF Without
        <5>2. PICK q \in DOMAIN tables : k \in Uses(filerefs, tables[q])
          BY <4>3, <5>1 DEF Accounted
        <5>3. CASE q # current
          BY <4>1, <5>2, <5>3
        <5>4. CASE q = current
          <6> DEFINE t == tables[current]
          <6>1. PICK fd \in DOMAIN t.fds : ~IsPipe(t.fds[fd]) /\ KernelFd(filerefs, t.fds[fd]) = k
            BY <5>2, <5>4, UsesDef
          <6>2. IsEntry(t.fds[fd], Len(filerefs), Len(closed))
            BY <3>4, StateFacts DEF Backed
          <6>3. t.fds[fd].kind # "Real"
            BY <3>4, <4>3, <6>1 DEF KernelFd, Accounted
          <6> DEFINE r == t.fds[fd].id
          <6>4. t.fds[fd] = File(r) /\ IsFile(t.fds[fd]) /\ k = filerefs[r].real_fd
            BY <6>1, <6>2, <6>3, EntryKinds DEF KernelFd
          <6>5. StrongCount(tables, r) # 1
            BY <5>1, <6>4 DEF ReapedFds, IsFile
          <6> DEFINE S == UNION {{<<p, f>> : f \in {g \in DOMAIN tables[p].fds : tables[p].fds[g] = File(r)}}
                                 : p \in DOMAIN tables}
          <6>6. Cardinality(S) # 1
            BY <6>5 DEF StrongCount
          <6>7. <<current, fd>> \in S
            BY <3>4, <6>4
          <6>8. PICK e \in S : e # <<current, fd>>
            <7> HIDE DEF S
            <7>1. S # {<<current, fd>>}
              BY <6>6, <1>CountOne
            <7> QED BY <6>7, <7>1
          <6>9. PICK p \in DOMAIN tables :
                   \E f \in DOMAIN tables[p].fds : e = <<p, f>> /\ tables[p].fds[f] = File(r)
            BY <6>8
          <6>10. PICK f \in DOMAIN tables[p].fds : e = <<p, f>> /\ tables[p].fds[f] = File(r)
            BY <6>9
          <6>11. p # current
            <7>1. ASSUME p = current PROVE FALSE
              <8>1. f = fd
                BY <3>4, <6>4, <6>10, <7>1 DEF Accounted, Distinct
              <8> QED BY <6>8, <6>10, <7>1, <8>1
            <7> QED BY <7>1
          <6>12. k \in Uses(filerefs, tables[p])
            <7>1. ~IsPipe(File(r)) /\ KernelFd(filerefs, File(r)) = k
              BY <6>4 DEF IsPipe, KernelFd, File
            <7> QED BY <6>10, <7>1, UsesDef
          <6> QED BY <4>1, <6>11, <6>12
        <5> QED BY <5>3, <5>4
      <4> QED BY <4>2, <4>3 DEF Accounted
    <3> QED BY <3>3, <3>4
  <2> QED BY <2>1, <2>2
\* Every step accounts for the kernel fds it opens and closes.
<1>LeakNext. TableInv /\ AllocInv /\ LeakInv /\ [Next]_vars => LeakInv'
  <2> SUFFICES ASSUME TableInv, AllocInv, LeakInv, [Next]_vars,
                      (Calls \cap {"pipe", "dup2", "ffi_dup", "ffi_dup2"} = {})'
               PROVE  Accounted(tables', filerefs', kernel', host')
    BY DEF LeakInv
  <2>1. scenario' = scenario
    BY DEF Next, vars
  <2>2. /\ "pipe" \notin Calls /\ "dup2" \notin Calls /\ "ffi_dup" \notin Calls /\ "ffi_dup2" \notin Calls
        /\ Accounted(tables, filerefs, kernel, host)
        /\ \A p \in DOMAIN tables : Below(tables[p])
    BY <2>1 DEF LeakInv, AllocInv, Calls
  <2>3. CASE UNCHANGED vars
    BY <2>2, <2>3 DEF vars
  <2>4. CASE HostOpen
    <3>1. /\ UNCHANGED << tables, filerefs >> /\ DOMAIN host \subseteq DOMAIN host'
          /\ DOMAIN kernel' \subseteq DOMAIN kernel \cup 0..5 \cup DOMAIN host'
      BY <2>4 DEF HostOpen, Insert
    <3> QED BY <2>2, <3>1, <1>QuietAccounted
  <2>5. CASE Spawn
    BY <2>2, <2>5 DEF Spawn
  <2>6. CASE \E k \in DOMAIN host : CreateProcess(k)
    <3>1. PICK k \in DOMAIN host : CreateProcess(k)
      BY <2>6
    <3>2. k \in Kfds
      BY StateFacts DEF IsMap
    <3>3. Distinct(NewTable(k, k, k)) /\ Lent(NewTable(k, k, k), host)
      BY <3>2, <1>NewTableAccounted
    <3>4. UNCHANGED << filerefs, kernel, host >> /\ tables' = Insert(tables, next_pid, NewTable(k, k, k))
      BY <3>1 DEF CreateProcess
    <3>5. next_pid \notin DOMAIN tables
      BY StateFacts
    <3> QED BY <2>2, <3>3, <3>4, <3>5, <1>TableCallAccounted
  <2>7. CASE \E p \in live : Resume(p)
    <3>1. PICK p \in live : Resume(p)
      BY <2>7
    <3>2. UNCHANGED << tables, filerefs, host >>
      BY <3>1 DEF Resume
    <3>3. kernel' = kernel \/ (kernel' = Install(RealFds(p)) /\ CanInstall(RealFds(p)))
      BY <3>1 DEF Resume
    <3>4. DOMAIN kernel' \subseteq DOMAIN kernel \cup 0..5
      <4>1. CASE kernel' = kernel
        BY <4>1
      <4>2. CASE kernel' = Install(RealFds(p)) /\ CanInstall(RealFds(p))
        <5>1. DOMAIN Install(RealFds(p)) \subseteq DOMAIN kernel \cup 0..2
          BY <4>2, StateFacts, InstallFacts
        <5> QED BY <4>2, <5>1
      <4> QED BY <3>3, <4>1, <4>2
    <3> QED BY <2>2, <3>2, <3>4, <1>QuietAccounted
  <2>8. CASE \E exits \in BOOLEAN : EndSlice(exits)
    <3>1. UNCHANGED << filerefs, host >>
      BY <2>8 DEF EndSlice
    <3> QED BY <2>2, <2>8, <3>1, <1>EndSliceAccounted
  <2>9. ASSUME NEW cloexec \in BOOLEAN, Open(cloexec)
        PROVE  Accounted(tables', filerefs', kernel', host')
    <3> DEFINE t == GetOrCreate(current)
               k == LowestKfd(kernel)
               d == opened + 1
    <3>1. /\ FreeKfds(kernel) # {} /\ Room(t) /\ kernel' = Insert(kernel, k, d)
          /\ NewFileRef(k, cloexec, d) /\ UNCHANGED host
          /\ tables' = Insert(tables, current, InsertVfd(t, File(NextRef)))
      BY <2>9 DEF Open
    <3>2. k \in Kfds
      BY <3>1, StateFacts, LowestFree
    <3>3. d \in 0..OpenLimit
      <4>1. /\ opened < scenario.opens /\ OpenLimit \in Nat
            /\ opened \in 0..OpenLimit /\ scenario.opens \in 0..OpenLimit
        BY <2>9, StateFacts, ScenarioFacts DEF Open
      <4> QED BY <4>1
    <3>4. Below(t)
      BY <2>2, GetOrCreateBelow
    <3> HIDE DEF k, d
    <3> QED BY <2>2, <2>9, <3>1, <3>2, <3>3, <3>4, <1>InsertCallAccounted
  <2>10. CASE FfiPipe
    <3> DEFINE t == GetOrCreate(current)
               b == Len(closed) + 1
    <3>1. /\ Room(t) /\ Room(AfterAlloc(t)) /\ UNCHANGED << filerefs, kernel, host >>
          /\ tables' = Insert(tables, current, CreatePipe(t, b))
      BY <2>10 DEF FfiPipe
    <3>2. Below(t) /\ IsTable(t) /\ b \in Nat
      BY <2>2, GetOrCreateBelow, StateFacts
    <3> HIDE DEF b
    <3>3. t.next_fd + 1 < FdLimit
      BY <3>1, <3>2, RoomFacts, StateFacts
    <3>4. AfterAlloc(t).next_fd + 1 < FdLimit
      BY <3>1, <3>2, <3>3, RoomFacts, StateFacts, AllocFacts
    <3>5. /\ KernelEntries(CreatePipe(t, b)) = KernelEntries(t)
          /\ \A fd \in KernelEntries(t) : CreatePipe(t, b).fds[fd] = t.fds[fd]
      BY <3>2, <3>3, <3>4, <1>PipeKernelEntries
    <3> QED BY <2>2, <3>1, <3>5, <1>SameEntriesAccounted
  <2>11. CASE FfiFork \/ Execve
    <3>1. UNCHANGED << filerefs, host >>
      BY <2>11 DEF FfiFork, Execve
    <3> QED BY <2>2, <2>11, <3>1, <1>InheritAccounted
  <2>12. ASSUME NEW fd, Dup(fd)
         PROVE  Accounted(tables', filerefs', kernel', host')
    <3> DEFINE t == tables[current]
               k == LowestKfd(kernel)
               d == kernel[RealFd(t.fds[fd])]
    <3>1. current \in DOMAIN tables /\ Room(t) /\ UNCHANGED host /\ t = GetOrCreate(current)
      BY <2>12 DEF Dup, GetOrCreate
    <3>2. Below(t) /\ IsTable(t) /\ t.next_fd + 1 < FdLimit
      BY <2>2, <3>1, StateFacts, RoomFacts
    <3>3. CASE Backs(t, fd)
      <4>1. /\ FreeKfds(kernel) # {} /\ kernel' = Insert(kernel, k, d)
            /\ NewFileRef(k, FALSE, d) /\ RealFd(t.fds[fd]) \in DOMAIN kernel
            /\ tables' = Insert(tables, current, InsertVfd(t, File(NextRef)))
        BY <2>12, <3>3 DEF Dup
      <4>2. k \in Kfds
        BY <4>1, StateFacts, LowestFree
      <4>3. d \in 0..OpenLimit
        BY <3>1, <3>3, <4>1, RealFdType DEF Backs
      <4> HIDE DEF k, d, t
      <4>4. FALSE \in BOOLEAN
        OBVIOUS
      <4> QED BY <2>2, <3>1, <3>2, <4>1, <4>2, <4>3, <4>4, <1>InsertCallAccounted
    <3>4. CASE ~Backs(t, fd)
      <4>1. UNCHANGED << kernel, filerefs >> /\ tables' = Insert(tables, current, DupFd(t, fd))
        BY <2>12, <3>4 DEF Dup
      <4>2. /\ KernelEntries(DupFd(t, fd)) = KernelEntries(t)
            /\ \A f \in KernelEntries(t) : DupFd(t, fd).fds[f] = t.fds[f]
        BY <3>2, <3>4, <1>DupKernelEntries
      <4> HIDE DEF t
      <4> QED BY <2>2, <3>1, <4>1, <4>2, <1>SameEntriesAccounted
    <3> QED BY <3>3, <3>4
  <2>13. ASSUME NEW fd, Close(fd) \/ FfiClose(fd)
         PROVE  Accounted(tables', filerefs', kernel', host')
    <3>1. UNCHANGED << filerefs, host >>
      BY <2>13 DEF Close, FfiClose
    <3>2. CASE InTable(fd) /\ CloseEntry(fd)
      BY <2>2, <3>1, <3>2, <1>CloseAccounted
    <3>3. CASE UNCHANGED tables /\ RealClose({fd})
      <4>1. DOMAIN kernel' \subseteq DOMAIN kernel \cup 0..5 \cup DOMAIN host'
        BY <3>3 DEF RealClose, Without
      <4> QED BY <2>2, <3>1, <3>3, <4>1, <1>QuietAccounted
    <3> QED BY <2>13, <3>2, <3>3 DEF Close, FfiClose
  <2>14. CASE Next
    <3>1. Act
      BY <2>14 DEF Next
    <3>2. ~Pipe /\ (\A fd : ~FfiDup(fd)) /\ \A f, g : ~Dup2(f, g) /\ ~FfiDup2(f, g)
      BY <2>2 DEF Pipe, FfiDup, Dup2, FfiDup2, Running
    <3> QED BY <2>4, <2>5, <2>6, <2>7, <2>8, <2>9, <2>10, <2>11, <2>12, <2>13, <3>1, <3>2 DEF Act
  <2> QED BY <2>3, <2>14
<1>1. Init => LeakInv
  <2> SUFFICES ASSUME Init PROVE Accounted(tables, filerefs, kernel, host)
    BY DEF LeakInv
  <2>1. DOMAIN tables = {} /\ DOMAIN kernel = 0..5
    BY DEF Init
  <2> QED BY <2>1 DEF Accounted
<1>2. TableInv /\ LeakInv => NoKernelFdLeaks
  <2> SUFFICES ASSUME TableInv, LeakInv, Calls \cap {"pipe", "dup2", "ffi_dup", "ffi_dup2"} = {},
                      NEW k \in DOMAIN kernel, ~(k <= 5), k \notin DOMAIN host
               PROVE  \E e \in Entries(tables) : ~IsPipe(Entry(e)) /\ RealFd(Entry(e)) = k
    BY DEF NoKernelFdLeaks
  <2>1. PICK p \in DOMAIN tables : k \in Uses(filerefs, tables[p])
    <3>1. k \notin 0..5
      OBVIOUS
    <3> QED BY <3>1 DEF LeakInv, Accounted
  <2>2. PICK fd \in DOMAIN tables[p].fds :
           ~IsPipe(tables[p].fds[fd]) /\ KernelFd(filerefs, tables[p].fds[fd]) = k
    BY <2>1, UsesDef
  <2>3. <<p, fd>> \in Entries(tables) /\ Entry(<<p, fd>>) = tables[p].fds[fd]
    BY DEF Entries, Entry
  <2> QED BY <2>2, <2>3 DEF RealFd, KernelFd
<1> QED BY <1>1, <1>2, TablesInvariant, <1>LeakNext, PTL DEF Spec
-----------------------------------------------------------------------------
(***************************************************************************)
(* With OwnFiles every kernel fd above the driver's own belongs to one     *)
(* table, to one process that has it from pipe, or to the host, which has  *)
(* not lent it yet, and is closed by its owner only.  The operators below  *)
(* have the state as parameters: tables T, FileRefs F, kernel K, host H    *)
(* and lent L, pipe fds N.                                                 *)
(***************************************************************************)
Unlent(H, L) == {k \in DOMAIN H : H[k] \notin L}

\* Entry v is for an open kernel fd above the driver's.
Held(F, K, H, L, v) ==
    /\ KernelFd(F, v) \in DOMAIN K \ 0..5
    /\ v.kind = "Real" => /\ v.id \in DOMAIN H /\ H[v.id] \in L
                          /\ K[v.id] = H[v.id]
    /\ IsFile(v) => K[KernelFd(F, v)] = F[v.id].obj

\* All kernel entries of a table are, and two for one kernel fd are the same.
Sound(F, K, H, L, t) ==
    /\ \A fd \in KernelEntries(t) : Held(F, K, H, L, t.fds[fd])
    /\ \A f, g \in KernelEntries(t) :
          KernelFd(F, t.fds[f]) = KernelFd(F, t.fds[g]) => t.fds[f] = t.fds[g]

\* Tables, pipe fds and what the host has not lent are pairwise disjoint sets
\* of open kernel fds.
Own(T, F, K, H, L, N) ==
    /\ 0..5 \subseteq DOMAIN K
    /\ \A p \in DOMAIN T : Sound(F, K, H, L, T[p])
    /\ \A p, q \in DOMAIN T : p # q => Uses(F, T[p]) \cap Uses(F, T[q]) = {}
    /\ \A p \in Pids : N[p] \subseteq DOMAIN K \ 0..5
    /\ \A p, q \in Pids : p # q => N[p] \cap N[q] = {}
    /\ \A p \in Pids, q \in DOMAIN T : N[p] \cap Uses(F, T[q]) = {}
    /\ \A k \in Unlent(H, L) : k \in DOMAIN K \ 0..5 /\ K[k] = H[k]
    /\ \A p \in DOMAIN T : Uses(F, T[p]) \cap Unlent(H, L) = {}
    /\ \A p \in Pids : N[p] \cap Unlent(H, L) = {}

\* Every kernel fd has one owner.
OwnInv ==
    OwnFiles => /\ ~aborted
                /\ live = DOMAIN tables
                /\ Own(tables, filerefs, kernel, host, lent, knums)

\* The 0-2 of a table are terminals of the host, and it has no pipes.
Plain(t) ==
    /\ \A i \in 0..2 \cap DOMAIN t.fds : t.fds[i].kind = "Real"
    /\ \A fd \in DOMAIN t.fds : ~IsPipe(t.fds[fd])

\* While fds 0-2 are swapped in they are what the running process has there.
SliceInv ==
    Isolated =>
        /\ \A p \in DOMAIN tables : Plain(tables[p])
        /\ current # 0 /\ swapped =>
              \A i \in 0..2 \cap DOMAIN tables[current].fds :
                  kernel[i] = kernel[tables[current].fds[i].id]

-----------------------------------------------------------------------------
(* Every kernel fd has one owner.                                          *)

\* The kernel fds a sound table uses are open and above the driver's.
LEMMA SoundUses ==
    ASSUME NEW F, NEW K, NEW H, NEW L, NEW t, Sound(F, K, H, L, t)
    PROVE  Uses(F, t) \subseteq DOMAIN K \ 0..5
BY DEF Sound, Uses, Held

\* A table stays sound while the kernel keeps what it uses, FileRefs are
\* added and the host lends more.
LEMMA SoundFrame ==
    ASSUME NEW F, NEW K, NEW H, NEW L, NEW t, Sound(F, K, H, L, t),
           NEW nf, NEW nc, Backed(t, nf, nc), NEW G, \A r \in 1..nf : G[r] = F[r],
           NEW J, \A k \in Uses(F, t) : k \in DOMAIN J /\ J[k] = K[k],
           NEW I, \A k \in Uses(F, t) : k \in DOMAIN H => k \in DOMAIN I /\ I[k] = H[k],
           NEW M, L \subseteq M
    PROVE  Sound(G, J, I, M, t)
<1>1. \A fd \in KernelEntries(t) : KernelFd(G, t.fds[fd]) = KernelFd(F, t.fds[fd])
  BY KernelFdFrame DEF KernelEntries
<1>2. ASSUME NEW fd \in KernelEntries(t) PROVE Held(G, J, I, M, t.fds[fd])
  <2> DEFINE v == t.fds[fd]
             k == KernelFd(F, v)
  <2>1. k \in Uses(F, t) /\ KernelFd(G, v) = k /\ Held(F, K, H, L, v)
    BY <1>1 DEF Uses, Sound
  <2>2. k \in DOMAIN J \ 0..5 /\ J[k] = K[k]
    BY <2>1 DEF Held
  <2>3. IsFile(v) => J[k] = G[v.id].obj
    <3>1. IsEntry(v, nf, nc)
      BY DEF Backed, KernelEntries
    <3>2. IsFile(v) => G[v.id] = F[v.id]
      BY <3>1 DEF IsEntry
    <3> QED BY <2>1, <2>2, <3>2 DEF Held
  <2>4. v.kind = "Real" => v.id \in DOMAIN I /\ I[v.id] \in M /\ J[v.id] = I[v.id]
    <3>1. v.kind = "Real" => k = v.id
      BY DEF KernelFd
    <3> QED BY <2>1, <2>2, <3>1 DEF Held
  <2> HIDE DEF v, k
  <2>5. Held(G, J, I, M, v)
    BY <2>1, <2>2, <2>3, <2>4 DEF Held
  <2> QED BY <2>5 DEF v
<1>3. ASSUME NEW f \in KernelEntries(t), NEW g \in KernelEntries(t),
             KernelFd(G, t.fds[f]) = KernelFd(G, t.fds[g])
      PROVE  t.fds[f] = t.fds[g]
  <2>1. KernelFd(F, t.fds[f]) = KernelFd(F, t.fds[g])
    BY <1>1, <1>3
  <2> QED BY <2>1 DEF Sound
<1> QED BY <1>2, <1>3 DEF Sound

\* In particular while the host lends nothing.
LEMMA SoundKept ==
    ASSUME NEW F, NEW K, NEW H, NEW L, NEW t, Sound(F, K, H, L, t),
           NEW nf, NEW nc, Backed(t, nf, nc), NEW G, \A r \in 1..nf : G[r] = F[r],
           NEW J, \A k \in Uses(F, t) : k \in DOMAIN J /\ J[k] = K[k]
    PROVE  Sound(G, J, H, L, t)
<1>1. \A k \in Uses(F, t) : k \in DOMAIN H => k \in DOMAIN H /\ H[k] = H[k]
  OBVIOUS
<1> QED BY <1>1, SoundFrame

\* A call changes table p to t: its kernel entries are entries it had, or
\* files on kernel fds of A, which were free; it closes the kernel fds of C,
\* which t does not use.  FileRefs and kernel become G and J.
TableCall(T, F, K, p, t, G, J, A, C) ==
    /\ A \cap DOMAIN K = {} /\ C \subseteq Uses(F, T[p])
    /\ DOMAIN J = (DOMAIN K \ C) \cup A /\ \A k \in DOMAIN K \ C : J[k] = K[k]
    /\ \A fd \in KernelEntries(t) :
          \/ \E g \in KernelEntries(T[p]) : t.fds[fd] = T[p].fds[g] /\ KernelFd(F, t.fds[fd]) \notin C
          \/ /\ KernelFd(G, t.fds[fd]) \in A /\ IsFile(t.fds[fd])
             /\ J[KernelFd(G, t.fds[fd])] = G[t.fds[fd].id].obj
    /\ \A f, g \in KernelEntries(t) :
          KernelFd(G, t.fds[f]) \in A /\ KernelFd(G, t.fds[f]) = KernelFd(G, t.fds[g])
             => t.fds[f] = t.fds[g]

\* The kernel changes below 3 only: the swap of fds 0-2.
LEMMA OwnSwap ==
    ASSUME NEW T, NEW F, NEW K, NEW H, NEW L, NEW N, Own(T, F, K, H, L, N),
           NEW nf, NEW nc, AllBacked(T, nf, nc),
           NEW J, DOMAIN K \subseteq DOMAIN J, \A k \in DOMAIN K \ 0..2 : J[k] = K[k]
    PROVE  Own(T, F, J, H, L, N)
<1>1. \A k \in DOMAIN K \ 0..5 : k \in DOMAIN J \ 0..5 /\ J[k] = K[k]
  OBVIOUS
<1>2. ASSUME NEW p \in DOMAIN T PROVE Sound(F, J, H, L, T[p])
  <2>1. Sound(F, K, H, L, T[p])
    BY DEF Own
  <2>2. \A k \in Uses(F, T[p]) : k \in DOMAIN J /\ J[k] = K[k]
    BY <1>1, <2>1, SoundUses
  <2> QED BY <2>1, <2>2, SoundFrame DEF AllBacked
<1> QED BY <1>1, <1>2 DEF Own

\* The reap of p, which closes C.
LEMMA OwnReap ==
    ASSUME NEW T, NEW F, NEW K, NEW H, NEW L, NEW N, Own(T, F, K, H, L, N),
           NEW nf, NEW nc, AllBacked(T, nf, nc), NEW p \in DOMAIN T, NEW C, C \subseteq Uses(F, T[p]),
           NEW M, \A q \in Pids : M[q] \subseteq N[q]
    PROVE  Own(Without(T, {p}), F, Without(K, C), H, L, M)
<1> DEFINE S == Without(T, {p})
           J == Without(K, C)
<1>1. /\ DOMAIN S = DOMAIN T \ {p} /\ \A q \in DOMAIN S : S[q] = T[q]
      /\ DOMAIN J = DOMAIN K \ C /\ \A k \in DOMAIN J : J[k] = K[k]
  BY DEF Without
<1> HIDE DEF S, J
<1>2. \A q \in DOMAIN T : Uses(F, T[q]) \subseteq DOMAIN K \ 0..5
  BY SoundUses DEF Own
<1>3. C \cap 0..5 = {} /\ \A q \in DOMAIN S : C \cap Uses(F, T[q]) = {}
  BY <1>1, <1>2 DEF Own
<1>4. C \cap Unlent(H, L) = {} /\ \A q \in Pids : C \cap N[q] = {}
  BY DEF Own
<1>5. ASSUME NEW q \in DOMAIN S PROVE Sound(F, J, H, L, S[q])
  <2>1. Sound(F, K, H, L, T[q]) /\ S[q] = T[q] /\ q \in DOMAIN T
    BY <1>1 DEF Own
  <2>2. \A k \in Uses(F, T[q]) : k \in DOMAIN J /\ J[k] = K[k]
    BY <1>1, <1>2, <1>3, <2>1
  <2>3. Backed(T[q], nf, nc) /\ \A r \in 1..nf : F[r] = F[r]
    BY <2>1 DEF AllBacked
  <2>4. Sound(F, J, H, L, T[q])
    BY <2>1, <2>2, <2>3, SoundKept
  <2> QED BY <2>1, <2>4
<1>6. /\ 0..5 \subseteq DOMAIN J
      /\ \A q \in Pids : M[q] \subseteq DOMAIN J \ 0..5
  BY <1>1, <1>3, <1>4 DEF Own
<1>7. \A k \in Unlent(H, L) : k \in DOMAIN J \ 0..5 /\ J[k] = H[k]
  BY <1>1, <1>4 DEF Own
<1>8. \A q, r \in DOMAIN S : q # r => Uses(F, S[q]) \cap Uses(F, S[r]) = {}
  <2>1. \A q, r \in DOMAIN T : q # r => Uses(F, T[q]) \cap Uses(F, T[r]) = {}
    BY DEF Own
  <2> QED BY <1>1, <2>1
<1>9. \A q, r \in Pids : q # r => M[q] \cap M[r] = {}
  BY DEF Own
<1>10. \A q \in Pids, r \in DOMAIN S : M[q] \cap Uses(F, S[r]) = {}
  BY <1>1 DEF Own
<1>11. \A q \in DOMAIN S : Uses(F, S[q]) \cap Unlent(H, L) = {}
  BY <1>1 DEF Own
<1>12. \A q \in Pids : M[q] \cap Unlent(H, L) = {}
  BY DEF Own
<1> QED BY <1>5, <1>6, <1>7, <1>8, <1>9, <1>10, <1>11, <1>12 DEF Own, S, J

\* Process p gets the kernel fds A, which were free, from pipe, or closes some
\* that it had from there, C.
PipeCall(K, N, p, J, M, A, C) ==
    /\ A \cap DOMAIN K = {} /\ C \subseteq N[p]
    /\ DOMAIN J = (DOMAIN K \ C) \cup A /\ \A k \in DOMAIN K \ C : J[k] = K[k]
    /\ M[p] = (N[p] \ C) \cup A /\ \A q \in Pids \ {p} : M[q] = N[q]

\* What OwnInv says with OwnFiles.
LEMMA OwnFacts ==
    ASSUME TableInv, OwnInv, OwnFiles
    PROVE  /\ ~aborted /\ live = DOMAIN tables
           /\ Own(tables, filerefs, kernel, host, lent, knums)
           /\ AllBacked(tables, Len(filerefs), Len(closed))
           /\ current # 0 => current \in DOMAIN tables /\ current \in Pids
           /\ \A p \in DOMAIN tables :
                /\ Sound(filerefs, kernel, host, lent, tables[p])
                /\ Uses(filerefs, tables[p]) \subseteq DOMAIN kernel \ 0..5
           /\ 0..5 \subseteq DOMAIN kernel
<1>1. live = DOMAIN tables /\ Own(tables, filerefs, kernel, host, lent, knums) /\ ~aborted
  BY DEF OwnInv
<1>2. \A p \in DOMAIN tables : Sound(filerefs, kernel, host, lent, tables[p])
  BY <1>1 DEF Own
<1>3. \A p \in DOMAIN tables : Uses(filerefs, tables[p]) \subseteq DOMAIN kernel \ 0..5
  BY <1>2, SoundUses
<1>4. 0..5 \subseteq DOMAIN kernel
  BY <1>1 DEF Own
<1>5. current # 0 => current \in DOMAIN tables /\ current \in Pids
  BY <1>1, StateFacts
<1> QED BY <1>1, <1>2, <1>3, <1>4, <1>5 DEF TableInv

\* The swap never fails: the kernel fds under 0-2 of a table are open.
LEMMA ResumeOwn ==
    ASSUME TableInv, OwnInv, OwnFiles, NEW p \in live, Resume(p)
    PROVE  /\ aborted' = aborted
           /\ Own(tables, filerefs, kernel', host, lent, knums)
           /\ current' = p /\ (swapped' <=> HasRealFds(tables[p]))
           /\ swapped' => /\ \A i \in 0..2 : RealFds(p)[i] \in DOMAIN kernel \ 0..5
                          /\ kernel' = Install(RealFds(p)) /\ CanInstall(RealFds(p))
           /\ ~swapped' => kernel' = kernel
<1>1. /\ p \in DOMAIN tables /\ Own(tables, filerefs, kernel, host, lent, knums)
      /\ AllBacked(tables, Len(filerefs), Len(closed))
      /\ Uses(filerefs, tables[p]) \subseteq DOMAIN kernel \ 0..5
  BY OwnFacts
<1>2. CASE HasRealFds(tables[p])
  <2>1. \A i \in 0..2 : RealFds(p)[i] \in DOMAIN kernel \ 0..5
    <3>1. \A i \in 0..2 : i \in DOMAIN tables[p].fds /\ ~IsPipe(tables[p].fds[i])
      BY <1>2 DEF HasRealFds
    <3>2. \A i \in 0..2 : KernelFd(filerefs, tables[p].fds[i]) \in DOMAIN kernel \ 0..5
      BY <1>1, <3>1, UsesDef
    <3> QED BY <3>2 DEF RealFds, RealFd, KernelFd
  <2>2. CanInstall(RealFds(p))
    <3>1. 0 \in 0..2 /\ 1 \in 0..2 /\ 2 \in 0..2
      OBVIOUS
    <3>2. RealFds(p)[0] \in DOMAIN kernel /\ RealFds(p)[1] \in DOMAIN kernel /\ RealFds(p)[2] \in DOMAIN kernel
      BY <2>1, <3>1
    <3> QED BY <3>2 DEF CanInstall, CanDup3, Dup3, Insert
  <2>3. /\ kernel' = Install(RealFds(p)) /\ swapped' = TRUE /\ current' = p /\ aborted' = aborted
    BY <1>1, <1>2, <2>2 DEF Resume
  <2>4. DOMAIN kernel \subseteq DOMAIN kernel' /\ \A k \in DOMAIN kernel \ 0..2 : kernel'[k] = kernel[k]
    BY <2>2, <2>3, InstallFacts, StateFacts
  <2>5. Own(tables, filerefs, kernel', host, lent, knums)
    BY <1>1, <2>4, OwnSwap
  <2> QED BY <1>2, <2>1, <2>2, <2>3, <2>5
<1>3. CASE ~HasRealFds(tables[p])
  <2>1. kernel' = kernel /\ swapped' = FALSE /\ current' = p /\ aborted' = aborted
    BY <1>3 DEF Resume
  <2> QED BY <1>1, <1>3, <2>1
<1> QED BY <1>2, <1>3

\* Nor does the swap back, and a reap closes only what the process used.
LEMMA EndSliceOwn ==
    ASSUME TableInv, OwnInv, OwnFiles, NEW exits \in BOOLEAN, EndSlice(exits)
    PROVE  /\ aborted' = aborted /\ live' = DOMAIN tables'
           /\ Own(tables', filerefs, kernel', host, lent, knums')
           /\ tables' = IF exits THEN Without(tables, {current}) ELSE tables
<1>1. /\ current \in DOMAIN tables /\ Own(tables, filerefs, kernel, host, lent, knums)
      /\ AllBacked(tables, Len(filerefs), Len(closed)) /\ live = DOMAIN tables
      /\ 0..5 \subseteq DOMAIN kernel
  BY OwnFacts DEF EndSlice
<1>2. CanInstall(saved_fds)
  <2>1. saved_fds[0] = 3 /\ saved_fds[1] = 4 /\ saved_fds[2] = 5
    BY DEF saved_fds
  <2>2. 3 \in DOMAIN kernel /\ 4 \in DOMAIN kernel /\ 5 \in DOMAIN kernel
    <3>1. 3 \in 0..5 /\ 4 \in 0..5 /\ 5 \in 0..5
      OBVIOUS
    <3> QED BY <1>1, <3>1
  <2> QED BY <2>1, <2>2 DEF CanInstall, CanDup3, Dup3, Insert
<1> DEFINE restored == IF swapped THEN Install(saved_fds) ELSE kernel
<1>3. /\ kernel' = Without(restored, IF exits THEN ReapedFds(current) ELSE {})
      /\ tables' = IF exits THEN Without(tables, {current}) ELSE tables
      /\ live' = IF exits THEN live \ {current} ELSE live
      /\ knums' = IF exits THEN [knums EXCEPT ![current] = {}] ELSE knums
      /\ aborted' = aborted
  BY <1>1, <1>2 DEF EndSlice
<1>4. DOMAIN kernel \subseteq DOMAIN restored /\ \A k \in DOMAIN kernel \ 0..2 : restored[k] = kernel[k]
  BY <1>2, InstallFacts, StateFacts
<1>5. Own(tables, filerefs, restored, host, lent, knums)
  <2> HIDE DEF restored
  <2> QED BY <1>1, <1>4, OwnSwap
<1> HIDE DEF restored
<1>6. CASE exits
  <2>1. ReapedFds(current) \subseteq Uses(filerefs, tables[current])
    <3> DEFINE t == tables[current]
    <3>1. ASSUME NEW fd \in DOMAIN t.fds, t.fds[fd].kind = "Real"
          PROVE  t.fds[fd].id \in Uses(filerefs, t)
      BY <3>1, UsesDef DEF IsPipe, KernelFd
    <3>2. ASSUME NEW fd \in DOMAIN t.fds, t.fds[fd].kind = "File"
          PROVE  filerefs[t.fds[fd].id].real_fd \in Uses(filerefs, t)
      <4>1. ~IsPipe(t.fds[fd]) /\ KernelFd(filerefs, t.fds[fd]) = filerefs[t.fds[fd].id].real_fd
        BY <3>2 DEF IsPipe, KernelFd
      <4> QED BY <4>1, UsesDef
    <3> QED BY <3>1, <3>2 DEF ReapedFds
  <2>2. \A q \in Pids : knums'[q] \subseteq knums[q]
    BY <1>3, <1>6, StateFacts
  <2>3. Own(Without(tables, {current}), filerefs, Without(restored, ReapedFds(current)), host, lent, knums')
    BY <1>1, <1>5, <2>1, <2>2, OwnReap
  <2>4. DOMAIN tables' = DOMAIN tables \ {current}
    BY <1>3, <1>6 DEF Without
  <2> QED BY <1>1, <1>3, <1>6, <2>3, <2>4
<1>7. CASE ~exits
  <2>1. DOMAIN restored \subseteq DOMAIN kernel' /\ \A k \in DOMAIN restored \ 0..2 : kernel'[k] = restored[k]
    BY <1>3, <1>7 DEF Without
  <2>2. Own(tables, filerefs, kernel', host, lent, knums)
    BY <1>1, <1>5, <2>1, OwnSwap
  <2> QED BY <1>1, <1>3, <1>7, <2>2
<1> QED BY <1>6, <1>7

\* The invariants hold in every behaviour.
LEMMA OwnInvariant == Spec => [](TableInv /\ AllocInv /\ OwnInv)
\* Such a call keeps the one owner of every kernel fd.
<1>OwnTable.
    ASSUME NEW T, NEW F, NEW K, NEW H, NEW L, NEW N, Own(T, F, K, H, L, N),
           NEW nf, NEW nc, AllBacked(T, nf, nc), NEW p \in DOMAIN T, NEW t,
           NEW G, \A r \in 1..nf : G[r] = F[r], NEW J, NEW A, NEW C,
           TableCall(T, F, K, p, t, G, J, A, C)
    PROVE  Own(Insert(T, p, t), G, J, H, L, N)
  <2>Backed. AllBacked(T, nf, nc) /\ \A r \in 1..nf : G[r] = F[r]
    BY <1>OwnTable
  <2>4. \A q \in DOMAIN T : \A fd \in KernelEntries(T[q]) :
           KernelFd(G, T[q].fds[fd]) = KernelFd(F, T[q].fds[fd])
    BY <2>Backed, KernelFdsFrame
  <2>5. \A q \in DOMAIN T : Uses(G, T[q]) = Uses(F, T[q])
    BY <2>Backed, KernelFdsFrame
  <2> USE <1>OwnTable
  <2>0. /\ A \cap DOMAIN K = {} /\ C \subseteq Uses(F, T[p])
        /\ DOMAIN J = (DOMAIN K \ C) \cup A /\ \A k \in DOMAIN K \ C : J[k] = K[k]
        /\ \A fd \in KernelEntries(t) :
              \/ \E g \in KernelEntries(T[p]) : t.fds[fd] = T[p].fds[g] /\ KernelFd(F, t.fds[fd]) \notin C
              \/ /\ KernelFd(G, t.fds[fd]) \in A /\ IsFile(t.fds[fd])
                 /\ J[KernelFd(G, t.fds[fd])] = G[t.fds[fd].id].obj
        /\ \A f, g \in KernelEntries(t) :
              KernelFd(G, t.fds[f]) \in A /\ KernelFd(G, t.fds[f]) = KernelFd(G, t.fds[g])
                 => t.fds[f] = t.fds[g]
    BY DEF TableCall
  <2> USE <2>0
  <2> DEFINE S == Insert(T, p, t)
             O == {fd \in KernelEntries(t) : \E g \in KernelEntries(T[p]) :
                      t.fds[fd] = T[p].fds[g] /\ KernelFd(F, t.fds[fd]) \notin C}
  <2>1. DOMAIN S = DOMAIN T /\ S[p] = t /\ \A q \in DOMAIN T \ {p} : S[q] = T[q]
    BY DEF Insert
  <2> HIDE DEF S
  <2>2. /\ \A q \in DOMAIN T : Sound(F, K, H, L, T[q]) /\ Uses(F, T[q]) \subseteq DOMAIN K \ 0..5
        /\ 0..5 \subseteq DOMAIN K
    BY SoundUses DEF Own
  <2>3. A \cap 0..5 = {} /\ C \cap 0..5 = {}
    BY <2>2
  <2>6. \A q \in DOMAIN T \ {p} : Uses(F, T[q]) \cap C = {}
    BY DEF Own
  <2>7. ASSUME NEW fd \in O
        PROVE  /\ KernelFd(G, t.fds[fd]) = KernelFd(F, t.fds[fd])
               /\ KernelFd(F, t.fds[fd]) \in Uses(F, T[p]) \ C
               /\ Held(F, K, H, L, t.fds[fd])
               /\ IsFile(t.fds[fd]) => t.fds[fd].id \in 1..nf
    <3>1. PICK g \in KernelEntries(T[p]) : t.fds[fd] = T[p].fds[g] /\ KernelFd(F, t.fds[fd]) \notin C
      OBVIOUS
    <3>2. Held(F, K, H, L, T[p].fds[g]) /\ KernelFd(F, T[p].fds[g]) \in Uses(F, T[p])
      BY <2>2 DEF Sound, Uses
    <3>3. IsFile(T[p].fds[g]) => T[p].fds[g].id \in 1..nf
      BY DEF AllBacked, Backed, IsEntry, KernelEntries
    <3>4. KernelFd(G, T[p].fds[g]) = KernelFd(F, T[p].fds[g])
      BY <2>4
    <3> HIDE <1>OwnTable, <2>0
    <3> QED BY <3>1, <3>2, <3>3, <3>4
  <2>8. \A fd \in KernelEntries(t) \ O :
           /\ KernelFd(G, t.fds[fd]) \in A /\ IsFile(t.fds[fd])
           /\ J[KernelFd(G, t.fds[fd])] = G[t.fds[fd].id].obj
    OBVIOUS
  <2>9. O \subseteq KernelEntries(t)
    OBVIOUS
  <2>10. \A f, g \in O : KernelFd(F, t.fds[f]) = KernelFd(F, t.fds[g]) => t.fds[f] = t.fds[g]
    <3>1. \A f, g \in KernelEntries(T[p]) :
            KernelFd(F, T[p].fds[f]) = KernelFd(F, T[p].fds[g]) => T[p].fds[f] = T[p].fds[g]
      BY <2>2 DEF Sound
    <3>2. SUFFICES ASSUME NEW f \in O, NEW g \in O, KernelFd(F, t.fds[f]) = KernelFd(F, t.fds[g])
                   PROVE  t.fds[f] = t.fds[g]
      OBVIOUS
    <3> HIDE <1>OwnTable, <2>0
    <3>3. PICK a \in KernelEntries(T[p]) : t.fds[f] = T[p].fds[a]
      OBVIOUS
    <3>4. PICK b \in KernelEntries(T[p]) : t.fds[g] = T[p].fds[b]
      OBVIOUS
    <3> HIDE DEF O
    <3> QED BY <3>1, <3>2, <3>3, <3>4
  <2> HIDE DEF O
  <2>11. Sound(G, J, H, L, t)
    <3>1. ASSUME NEW fd \in O PROVE Held(G, J, H, L, t.fds[fd])
      <4> DEFINE v == t.fds[fd]
                 k == KernelFd(F, v)
      <4>1. /\ KernelFd(G, v) = k /\ k \in Uses(F, T[p]) \ C /\ Held(F, K, H, L, v)
            /\ IsFile(v) => v.id \in 1..nf
        BY <2>7
      <4>2. k \in DOMAIN J \ 0..5 /\ J[k] = K[k]
        BY <2>2, <4>1
      <4>3. IsFile(v) => J[k] = G[v.id].obj
        BY <4>1, <4>2 DEF Held
      <4>4. v.kind = "Real" => k = v.id
        BY DEF KernelFd
      <4> QED BY <4>1, <4>2, <4>3, <4>4 DEF Held
    <3>2. ASSUME NEW fd \in KernelEntries(t) \ O PROVE Held(G, J, H, L, t.fds[fd])
      BY <2>3, <2>8 DEF Held, IsFile
    <3>3. ASSUME NEW f \in KernelEntries(t), NEW g \in KernelEntries(t),
                 KernelFd(G, t.fds[f]) = KernelFd(G, t.fds[g])
          PROVE  t.fds[f] = t.fds[g]
      <4>1. CASE f \in O /\ g \in O
        <5>1. KernelFd(F, t.fds[f]) = KernelFd(F, t.fds[g])
          BY <2>7, <3>3, <4>1
        <5> QED BY <2>10, <4>1, <5>1
      <4>2. CASE f \notin O \/ g \notin O
        BY <2>8, <3>3, <4>2
      <4> QED BY <4>1, <4>2
    <3> QED BY <3>1, <3>2, <3>3 DEF Sound
  <2>12. Uses(G, t) \subseteq (Uses(F, T[p]) \ C) \cup A
    BY <2>7, <2>8 DEF Uses
  <2>13. \A q \in DOMAIN S : Sound(G, J, H, L, S[q])
    <3>1. ASSUME NEW q \in DOMAIN T \ {p} PROVE Sound(G, J, H, L, T[q])
      <4>1. \A k \in Uses(F, T[q]) : k \in DOMAIN J /\ J[k] = K[k]
        BY <2>2, <2>6
      <4>2. Sound(F, K, H, L, T[q]) /\ Backed(T[q], nf, nc)
        BY <2>2, <2>Backed DEF AllBacked
      <4> HIDE <1>OwnTable, <2>0
      <4> QED BY <2>Backed, <4>1, <4>2, SoundKept
    <3> QED BY <2>1, <2>11, <3>1
  <2>14. /\ \A q \in DOMAIN S : Uses(G, S[q]) \subseteq Uses(F, T[q]) \cup A
         /\ \A q \in DOMAIN S \ {p} : Uses(G, S[q]) = Uses(F, T[q])
    BY <2>1, <2>5, <2>12
  <2>15. \A q, r \in DOMAIN S : q # r => Uses(G, S[q]) \cap Uses(G, S[r]) = {}
    <3>1. \A q, r \in DOMAIN T : q # r => Uses(F, T[q]) \cap Uses(F, T[r]) = {}
      BY DEF Own
    <3>2. \A q \in DOMAIN T : A \cap Uses(F, T[q]) = {}
      BY <2>2
    <3> HIDE <1>OwnTable, <2>0
    <3>3. ASSUME NEW q \in DOMAIN S, NEW r \in DOMAIN S, q # r, r # p
          PROVE  Uses(G, S[q]) \cap Uses(G, S[r]) = {}
      <4>1. /\ Uses(G, S[q]) \subseteq Uses(F, T[q]) \cup A /\ Uses(G, S[r]) = Uses(F, T[r])
            /\ q \in DOMAIN T /\ r \in DOMAIN T
        BY <2>1, <2>14, <3>3
      <4>2. Uses(F, T[q]) \cap Uses(F, T[r]) = {} /\ A \cap Uses(F, T[r]) = {}
        BY <3>1, <3>2, <3>3, <4>1
      <4> QED BY <4>1, <4>2
    <3>4. ASSUME NEW q \in DOMAIN S, NEW r \in DOMAIN S, q # r
          PROVE  Uses(G, S[q]) \cap Uses(G, S[r]) = {}
      <4>1. CASE r # p
        BY <3>3, <3>4, <4>1
      <4>2. CASE q # p
        <5>1. Uses(G, S[r]) \cap Uses(G, S[q]) = {}
          BY <3>3, <3>4, <4>2
        <5> QED BY <5>1
      <4> QED BY <3>4, <4>1, <4>2
    <3> QED BY <3>4
  <2>16. \A q \in Pids : N[q] \subseteq DOMAIN J \ 0..5
    BY DEF Own
  <2>17. \A q \in Pids, r \in DOMAIN S : N[q] \cap Uses(G, S[r]) = {}
    <3>1. \A q \in Pids, r \in DOMAIN T : N[q] \cap Uses(F, T[r]) = {} /\ N[q] \cap A = {}
      BY DEF Own
    <3> QED BY <2>1, <2>14, <3>1
  <2>18. \A k \in Unlent(H, L) : k \in DOMAIN J \ 0..5 /\ J[k] = H[k]
    BY DEF Own
  <2>19. \A q \in DOMAIN S : Uses(G, S[q]) \cap Unlent(H, L) = {}
    <3>1. \A q \in DOMAIN T : Uses(F, T[q]) \cap Unlent(H, L) = {} /\ A \cap Unlent(H, L) = {}
      BY DEF Own
    <3> QED BY <2>1, <2>14, <3>1
  <2>20. 0..5 \subseteq DOMAIN J
    BY <2>2, <2>3
  <2> QED BY <2>13, <2>15, <2>16, <2>17, <2>18, <2>19, <2>20 DEF Own, S
\* So does such a call of pipe, or a close of what it returned.
<1>OwnPipes.
    ASSUME NEW T, NEW F, NEW K, NEW H, NEW L, NEW N, Own(T, F, K, H, L, N),
           NEW nf, NEW nc, AllBacked(T, nf, nc), NEW p \in Pids, NEW J, NEW M, NEW A, NEW C,
           PipeCall(K, N, p, J, M, A, C)
    PROVE  Own(T, F, J, H, L, M)
  <2> USE <1>OwnPipes
  <2>0. /\ A \cap DOMAIN K = {} /\ C \subseteq N[p]
        /\ DOMAIN J = (DOMAIN K \ C) \cup A /\ \A k \in DOMAIN K \ C : J[k] = K[k]
        /\ M[p] = (N[p] \ C) \cup A /\ \A q \in Pids \ {p} : M[q] = N[q]
    BY DEF PipeCall
  <2> USE <2>0
  <2>1. /\ C \cap 0..5 = {} /\ A \cap 0..5 = {} /\ 0..5 \subseteq DOMAIN K
        /\ \A q \in DOMAIN T : C \cap Uses(F, T[q]) = {}
        /\ \A q \in Pids \ {p} : C \cap N[q] = {}
    BY DEF Own
  <2>2. C \cap Unlent(H, L) = {} /\ A \cap Unlent(H, L) = {}
    BY DEF Own
  <2>3. ASSUME NEW q \in DOMAIN T PROVE Uses(F, T[q]) \subseteq DOMAIN K \ 0..5
    BY SoundUses DEF Own
  <2>4. ASSUME NEW q \in DOMAIN T PROVE Sound(F, J, H, L, T[q])
    <3>1. Sound(F, K, H, L, T[q])
      BY DEF Own
    <3>2. \A k \in Uses(F, T[q]) : k \in DOMAIN J /\ J[k] = K[k]
      BY <2>1, <2>3
    <3>3. Backed(T[q], nf, nc) /\ \A r \in 1..nf : F[r] = F[r]
      BY DEF AllBacked
    <3> HIDE <1>OwnPipes, <2>0
    <3> QED BY <3>1, <3>2, <3>3, SoundKept
  <2>5. \A q \in Pids : M[q] \subseteq DOMAIN J \ 0..5
    <3>1. \A q \in Pids : N[q] \subseteq DOMAIN K \ 0..5
      BY DEF Own
    <3>2. M[p] \subseteq DOMAIN J \ 0..5
      BY <2>1, <3>1
    <3>3. \A q \in Pids \ {p} : M[q] \subseteq DOMAIN J \ 0..5
      BY <2>1, <3>1
    <3> QED BY <3>2, <3>3
  <2>6. \A q, r \in Pids : q # r => M[q] \cap M[r] = {}
    <3>1. \A q, r \in Pids : q # r => N[q] \cap N[r] = {}
      BY DEF Own
    <3>2. \A q \in Pids : A \cap N[q] = {}
      BY DEF Own
    <3>3. \A q \in Pids \ {p} : M[p] \cap M[q] = {}
      BY <3>1, <3>2
    <3> QED BY <3>1, <3>3
  <2>7. \A q \in Pids, r \in DOMAIN T : M[q] \cap Uses(F, T[r]) = {}
    <3>1. \A q \in Pids, r \in DOMAIN T : N[q] \cap Uses(F, T[r]) = {}
      BY DEF Own
    <3>2. \A r \in DOMAIN T : M[p] \cap Uses(F, T[r]) = {}
      BY <2>3, <3>1
    <3> QED BY <3>1, <3>2
  <2>8. \A k \in Unlent(H, L) : k \in DOMAIN J \ 0..5 /\ J[k] = H[k]
    BY <2>2 DEF Own
  <2>9. \A q \in Pids : M[q] \cap Unlent(H, L) = {}
    <3>1. \A q \in Pids : N[q] \cap Unlent(H, L) = {}
      BY DEF Own
    <3> QED BY <2>2, <3>1
  <2>10. 0..5 \subseteq DOMAIN J
    BY <2>1
  <2>11. /\ \A q, r \in DOMAIN T : q # r => Uses(F, T[q]) \cap Uses(F, T[r]) = {}
         /\ \A q \in DOMAIN T : Uses(F, T[q]) \cap Unlent(H, L) = {}
    BY DEF Own
  <2> QED BY <2>4, <2>5, <2>6, <2>7, <2>8, <2>9, <2>10, <2>11 DEF Own
\* The host opens k, which was free.
<1>OwnHost.
    ASSUME NEW T, NEW F, NEW K, NEW H, NEW L, NEW N, Own(T, F, K, H, L, N),
           NEW nf, NEW nc, AllBacked(T, nf, nc), NEW k, k \notin DOMAIN K, NEW d
    PROVE  Own(T, F, Insert(K, k, d), Insert(H, k, d), L, N)
  <2> USE <1>OwnHost
  <2> DEFINE J == Insert(K, k, d)
             I == Insert(H, k, d)
  <2>1. /\ DOMAIN J = DOMAIN K \cup {k} /\ J[k] = d /\ \A j \in DOMAIN K : J[j] = K[j]
        /\ DOMAIN I = DOMAIN H \cup {k} /\ I[k] = d /\ \A j \in DOMAIN H \ {k} : I[j] = H[j]
    BY DEF Insert
  <2> HIDE DEF J, I
  <2>2. Unlent(I, L) \subseteq Unlent(H, L) \cup {k}
    BY <2>1 DEF Unlent
  <2>3. 0..5 \subseteq DOMAIN K /\ k \notin 0..5
    BY DEF Own
  <2>4. ASSUME NEW q \in DOMAIN T PROVE Sound(F, J, I, L, T[q]) /\ k \notin Uses(F, T[q])
    <3>1. Sound(F, K, H, L, T[q])
      BY DEF Own
    <3>2. \A j \in Uses(F, T[q]) : j \in DOMAIN K /\ j # k
      BY <3>1, SoundUses
    <3> QED BY <2>1, <3>1, <3>2, SoundFrame DEF AllBacked
  <2>5. \A j \in Unlent(I, L) : j \in DOMAIN J \ 0..5 /\ J[j] = I[j]
    <3>1. \A j \in Unlent(I, L) \ {k} : j \in DOMAIN H /\ j \in Unlent(H, L)
      BY <2>1, <2>2 DEF Unlent
    <3>2. \A j \in Unlent(I, L) \ {k} : j \in DOMAIN K \ 0..5 /\ K[j] = H[j]
      BY <3>1 DEF Own
    <3> QED BY <2>1, <2>3, <3>1, <3>2
  <2>6. /\ \A q \in Pids : N[q] \subseteq DOMAIN K \ 0..5
        /\ \A q \in Pids : N[q] \cap Unlent(H, L) = {}
        /\ \A q \in DOMAIN T : Uses(F, T[q]) \cap Unlent(H, L) = {}
    BY DEF Own
  <2>7. \A q \in Pids : N[q] \subseteq DOMAIN J \ 0..5 /\ N[q] \cap Unlent(I, L) = {}
    <3> TAKE q \in Pids
    <3>1. N[q] \subseteq DOMAIN K \ 0..5 /\ N[q] \cap Unlent(H, L) = {} /\ k \notin DOMAIN K
      BY <2>6
    <3> QED BY <2>1, <2>2, <3>1
  <2>8. \A q \in DOMAIN T : Uses(F, T[q]) \cap Unlent(I, L) = {}
    BY <2>2, <2>4, <2>6
  <2>9. 0..5 \subseteq DOMAIN J
    BY <2>1, <2>3
  <2> QED BY <2>4, <2>5, <2>7, <2>8, <2>9 DEF Own, I, J
\* Process p starts on terminal k, not lent before.
<1>OwnStart.
    ASSUME NEW T, NEW F, NEW K, NEW H, NEW L, NEW N, Own(T, F, K, H, L, N),
           NEW nf, NEW nc, AllBacked(T, nf, nc), NEW k \in Unlent(H, L), k \in Kfds, NEW p, p \notin DOMAIN T
    PROVE  Own(Insert(T, p, NewTable(k, k, k)), F, K, H, L \cup {H[k]}, N)
  <2> USE <1>OwnStart
  <2> DEFINE t == NewTable(k, k, k)
             S == Insert(T, p, t)
             M == L \cup {H[k]}
  <2>1. DOMAIN S = DOMAIN T \cup {p} /\ S[p] = t /\ \A q \in DOMAIN T : S[q] = T[q]
    BY DEF Insert
  <2>2. DOMAIN t.fds = 0..2 /\ t.fds[0] = Real(k) /\ t.fds[1] = Real(k) /\ t.fds[2] = Real(k)
    BY NewTableBacked
  <2> HIDE DEF S, t
  <2>3. \A fd \in DOMAIN t.fds : t.fds[fd] = Real(k)
    <3>1. \A fd \in DOMAIN t.fds : fd = 0 \/ fd = 1 \/ fd = 2
      BY <2>2
    <3> QED BY <2>2, <3>1
  <2>4. KernelFd(F, Real(k)) = k /\ Real(k).kind = "Real" /\ Real(k).id = k /\ ~IsFile(Real(k))
    BY DEF KernelFd, Real, IsFile
  <2>5. Uses(F, t) \subseteq {k}
    BY <2>3, <2>4 DEF Uses, KernelEntries
  <2>6. /\ Unlent(H, M) \subseteq Unlent(H, L) \ {k} /\ k \in DOMAIN H
        /\ k \in DOMAIN K \ 0..5 /\ K[k] = H[k]
    BY DEF Unlent, Own
  <2>7. Sound(F, K, H, M, t)
    <3>1. Held(F, K, H, M, Real(k))
      BY <2>4, <2>6 DEF Held
    <3> QED BY <2>3, <3>1 DEF Sound, KernelEntries
  <2>8. ASSUME NEW q \in DOMAIN T PROVE Sound(F, K, H, M, T[q])
    <3>1. Sound(F, K, H, L, T[q])
      BY DEF Own
    <3>2. \A j \in Uses(F, T[q]) : j \in DOMAIN K
      BY <3>1, SoundUses
    <3> HIDE DEF M
    <3>3. L \subseteq M
      BY DEF M
    <3> QED BY <3>1, <3>2, <3>3, SoundFrame DEF AllBacked
  <2> HIDE DEF M
  <2>9. /\ \A q \in DOMAIN T : k \notin Uses(F, T[q])
        /\ \A q \in Pids : k \notin N[q]
    BY DEF Own
  <2>10. \A q, r \in DOMAIN S : q # r => Uses(F, S[q]) \cap Uses(F, S[r]) = {}
    <3>1. \A q, r \in DOMAIN T : q # r => Uses(F, T[q]) \cap Uses(F, T[r]) = {}
      BY DEF Own
    <3> QED BY <2>1, <2>5, <2>9, <3>1
  <2>11. \A q \in Pids, r \in DOMAIN S : N[q] \cap Uses(F, S[r]) = {}
    <3>1. \A q \in Pids, r \in DOMAIN T : N[q] \cap Uses(F, T[r]) = {}
      BY DEF Own
    <3> QED BY <2>1, <2>5, <2>9, <3>1
  <2>12. \A q \in DOMAIN S : Uses(F, S[q]) \cap Unlent(H, M) = {}
    <3>1. \A q \in DOMAIN T : Uses(F, T[q]) \cap Unlent(H, L) = {}
      BY DEF Own
    <3> QED BY <2>1, <2>5, <2>6, <3>1
  <2>13. \A q \in DOMAIN S : Sound(F, K, H, M, S[q])
    BY <2>1, <2>7, <2>8
  <2>14. /\ 0..5 \subseteq DOMAIN K
         /\ \A q \in Pids : N[q] \subseteq DOMAIN K \ 0..5
         /\ \A q, r \in Pids : q # r => N[q] \cap N[r] = {}
         /\ \A j \in Unlent(H, M) : j \in DOMAIN K \ 0..5 /\ K[j] = H[j]
         /\ \A q \in Pids : N[q] \cap Unlent(H, M) = {}
    BY <2>6 DEF Own
  <2> QED BY <2>10, <2>11, <2>12, <2>13, <2>14 DEF Own, S, M, t
\* open, and dup of a file or terminal.
<1>InsertCallOwn.
    ASSUME TableInv, OwnInv, OwnFiles, current # 0, Room(tables[current]),
           NEW k \in Kfds \ DOMAIN kernel, NEW d \in 0..OpenLimit, NEW cloexec \in BOOLEAN,
           NewFileRef(k, cloexec, d), kernel' = Insert(kernel, k, d),
           tables' = Insert(tables, current, InsertVfd(tables[current], File(NextRef)))
    PROVE  /\ Own(tables', filerefs', kernel', host, lent, knums)
           /\ DOMAIN tables' = DOMAIN tables
  <2> USE <1>InsertCallOwn
  <2> DEFINE t == tables[current]
             u == InsertVfd(t, File(NextRef))
             n == t.next_fd
  <2>1. /\ current \in DOMAIN tables /\ Own(tables, filerefs, kernel, host, lent, knums)
        /\ AllBacked(tables, Len(filerefs), Len(closed))
        /\ Uses(filerefs, t) \subseteq DOMAIN kernel \ 0..5
    BY OwnFacts
  <2>2. Backed(t, Len(filerefs), Len(closed)) /\ IsTable(t) /\ n + 1 < FdLimit
    BY <2>1, RoomFacts, StateFacts
  <2>3. /\ NextRef = Len(filerefs) + 1 /\ Len(filerefs) \in Nat
        /\ \A r \in 1..Len(filerefs) : filerefs'[r] = filerefs[r]
        /\ filerefs'[NextRef].real_fd = k /\ filerefs'[NextRef].obj = d
    <3>1. k \in Kfds /\ TypeOK
      BY StateFacts
    <3> QED BY <3>1, NewFileRefFacts
  <2>4. /\ File(NextRef) \in Vfd /\ IsFile(File(NextRef)) /\ File(NextRef).id = NextRef
        /\ KernelFd(filerefs', File(NextRef)) = k
    BY <2>3 DEF File, Vfd, IsFile, KernelFd
  <2>5. u.fds = Insert(t.fds, n, File(NextRef))
    BY <2>2, <2>4, InsertVfdFacts
  <2>6. \A fd \in KernelEntries(t) :
           KernelFd(filerefs', t.fds[fd]) = KernelFd(filerefs, t.fds[fd])
           /\ KernelFd(filerefs, t.fds[fd]) # k
    <3>1. \A fd \in KernelEntries(t) : KernelFd(filerefs', t.fds[fd]) = KernelFd(filerefs, t.fds[fd])
      <4> HIDE <1>InsertCallOwn
      <4> DEFINE nf == Len(filerefs)
                 nc == Len(closed)
      <4>1. Backed(t, nf, nc) /\ nf \in Nat /\ \A r \in 1..nf : filerefs'[r] = filerefs[r]
        BY <2>2, <2>3
      <4> HIDE DEF nf, nc, t
      <4>2. \A fd \in DOMAIN t.fds :
               ~IsPipe(t.fds[fd]) => KernelFd(filerefs', t.fds[fd]) = KernelFd(filerefs, t.fds[fd])
        BY <4>1, KernelFdFrame
      <4> QED BY <4>2 DEF KernelEntries
    <3>2. \A fd \in KernelEntries(t) : KernelFd(filerefs, t.fds[fd]) \in DOMAIN kernel
      BY <2>1 DEF Uses
    <3> QED BY <3>1, <3>2
  <2> HIDE DEF u, n
  <2>7. /\ DOMAIN u.fds = DOMAIN t.fds \cup {n} /\ u.fds[n] = File(NextRef)
        /\ \A j \in DOMAIN t.fds \ {n} : u.fds[j] = t.fds[j]
    BY <2>5 DEF Insert
  <2>8. \A fd \in KernelEntries(u) : fd = n \/ (fd \in KernelEntries(t) /\ u.fds[fd] = t.fds[fd])
    BY <2>7 DEF KernelEntries
  <2>9. DOMAIN kernel' = (DOMAIN kernel \ {}) \cup {k} /\ kernel'[k] = d
        /\ \A j \in DOMAIN kernel \ {} : kernel'[j] = kernel[j]
    BY DEF Insert
  <2> HIDE DEF t
  <2>10. \A fd \in KernelEntries(u) :
            \/ \E g \in KernelEntries(t) : u.fds[fd] = t.fds[g] /\ KernelFd(filerefs, u.fds[fd]) \notin {}
            \/ /\ KernelFd(filerefs', u.fds[fd]) \in {k} /\ IsFile(u.fds[fd])
               /\ kernel'[KernelFd(filerefs', u.fds[fd])] = filerefs'[u.fds[fd].id].obj
    <3> HIDE <1>InsertCallOwn
    <3>1. /\ KernelFd(filerefs', u.fds[n]) = k /\ IsFile(u.fds[n])
          /\ kernel'[k] = filerefs'[u.fds[n].id].obj
      BY <2>3, <2>4, <2>7, <2>9
    <3> QED BY <2>8, <3>1
  <2>11. \A f, g \in KernelEntries(u) :
            KernelFd(filerefs', u.fds[f]) \in {k} /\ KernelFd(filerefs', u.fds[f]) = KernelFd(filerefs', u.fds[g])
               => u.fds[f] = u.fds[g]
    BY <2>6, <2>8
  <2>12. {k} \cap DOMAIN kernel = {} /\ {} \subseteq Uses(filerefs, t)
    OBVIOUS
  <2>13. TableCall(tables, filerefs, kernel, current, u, filerefs', kernel', {k}, {})
    BY <2>9, <2>10, <2>11, <2>12 DEF TableCall, t
  <2>14. Own(Insert(tables, current, u), filerefs', kernel', host, lent, knums)
    BY <2>1, <2>3, <2>13, <1>OwnTable
  <2> QED BY <2>1, <2>14 DEF u, t, Insert
\* A call that leaves the kernel alone and moves entries of the table.
<1>MoveCallOwn.
    ASSUME TableInv, OwnInv, OwnFiles, current # 0, NEW u,
           tables' = Insert(tables, current, u),
           \A fd \in KernelEntries(u) :
              \E g \in KernelEntries(tables[current]) : u.fds[fd] = tables[current].fds[g]
    PROVE  /\ Own(tables', filerefs, kernel, host, lent, knums)
           /\ DOMAIN tables' = DOMAIN tables
  <2> USE <1>MoveCallOwn
  <2>1. /\ current \in DOMAIN tables /\ Own(tables, filerefs, kernel, host, lent, knums)
        /\ AllBacked(tables, Len(filerefs), Len(closed))
    BY OwnFacts
  <2>2. TableCall(tables, filerefs, kernel, current, u, filerefs, kernel, {}, {})
    BY DEF TableCall
  <2>3. \A r \in 1..Len(filerefs) : filerefs[r] = filerefs[r]
    OBVIOUS
  <2>4. Own(Insert(tables, current, u), filerefs, kernel, host, lent, knums)
    BY <2>1, <2>2, <2>3, <1>OwnTable
  <2> QED BY <2>1, <2>4 DEF Insert
\* vproc_ffi_dup2 and vproc_ffi_dup, dup of a pipe end or of nothing, and
\* vproc_ffi_pipe move entries, also where they overwrite one.
<1>Dup2Moves.
    ASSUME NEW t, IsTable(t), NEW f, NEW g \in Fds
    PROVE  \A fd \in KernelEntries(Dup2Fd(t, f, g)) :
              \E h \in KernelEntries(t) : Dup2Fd(t, f, g).fds[fd] = t.fds[h]
  <2> USE <1>Dup2Moves
  <2> DEFINE u == Dup2Fd(t, f, g)
  <2>1. /\ \A j \in DOMAIN t.fds \ {g} : j \in DOMAIN u.fds /\ u.fds[j] = t.fds[j]
        /\ \A j \in DOMAIN u.fds \ {g} : j \in DOMAIN t.fds
        /\ g \in DOMAIN u.fds <=> f \in DOMAIN t.fds /\ f # g
        /\ g \in DOMAIN u.fds => u.fds[g] = t.fds[f]
    BY Dup2FdFacts
  <2> HIDE DEF u
  <2>2. \A fd \in KernelEntries(u) : \E h \in KernelEntries(t) : u.fds[fd] = t.fds[h]
    BY <2>1 DEF KernelEntries
  <2> QED BY <2>2 DEF u
\* Every kernel entry after dup is a copy of one before it.
<1>DupMoves.
    ASSUME NEW t, IsTable(t), t.next_fd + 1 < FdLimit, NEW f
    PROVE  \A fd \in KernelEntries(DupFd(t, f)) :
              \E h \in KernelEntries(t) : DupFd(t, f).fds[fd] = t.fds[h]
  <2> USE <1>DupMoves
  <2> DEFINE a == AfterAlloc(t)
  <2>1. IsTable(a) /\ a = [fds |-> t.fds, next_fd |-> a.next_fd] /\ AllocFd(t) \in Fds
    BY AllocFacts
  <2> HIDE DEF a
  <2>2. a.fds = t.fds
    BY <2>1
  <2>3. \A fd \in KernelEntries(Dup2Fd(a, f, AllocFd(t))) :
           \E h \in KernelEntries(a) : Dup2Fd(a, f, AllocFd(t)).fds[fd] = a.fds[h]
    BY <2>1, <1>Dup2Moves
  <2>4. KernelEntries(a) = KernelEntries(t)
    BY <2>2 DEF KernelEntries
  <2> QED BY <2>2, <2>3, <2>4 DEF DupFd, a
\* So is every one after pipe.
<1>PipeMoves.
    ASSUME NEW t, IsTable(t), t.next_fd + 1 < FdLimit,
           AfterAlloc(t).next_fd + 1 < FdLimit, NEW b \in Nat
    PROVE  \A fd \in KernelEntries(CreatePipe(t, b)) :
              \E h \in KernelEntries(t) : CreatePipe(t, b).fds[fd] = t.fds[h]
  <2> USE <1>PipeMoves
  <2> DEFINE a == InsertVfd(t, PipeRead(b))
             u == InsertVfd(a, PipeWrite(b))
  <2>1. PipeRead(b) \in Vfd /\ PipeWrite(b) \in Vfd /\ IsPipe(PipeRead(b)) /\ IsPipe(PipeWrite(b))
    BY DEF PipeRead, PipeWrite, Vfd, IsPipe
  <2>2. /\ IsTable(a) /\ a.fds = Insert(t.fds, t.next_fd, PipeRead(b))
        /\ a.next_fd = AfterAlloc(t).next_fd
    BY <2>1, InsertVfdFacts
  <2> HIDE DEF a
  <2>3. u.fds = Insert(a.fds, a.next_fd, PipeWrite(b))
    BY <2>1, <2>2, InsertVfdFacts
  <2> HIDE DEF u
  <2>4. \A fd \in KernelEntries(u) : fd \in KernelEntries(a) /\ u.fds[fd] = a.fds[fd]
    BY <2>1, <2>3 DEF KernelEntries, Insert
  <2>5. \A fd \in KernelEntries(a) : fd \in KernelEntries(t) /\ a.fds[fd] = t.fds[fd]
    BY <2>1, <2>2 DEF KernelEntries, Insert
  <2> QED BY <2>4, <2>5 DEF CreatePipe, u, a
\* close of an entry: no other entry uses the kernel fd that is closed.
<1>CloseOwn.
    ASSUME TableInv, OwnInv, OwnFiles, current # 0, NEW fd, InTable(fd), CloseEntry(fd)
    PROVE  /\ Own(tables', filerefs, kernel', host, lent, knums)
           /\ DOMAIN tables' = DOMAIN tables
  <2> USE <1>CloseOwn
  <2> DEFINE t == tables[current]
             v == t.fds[fd]
             c == CloseFd(t, fd)
             C == IF IsFile(v) THEN {filerefs[r].real_fd : r \in {v.id} \ Files(c)} ELSE {}
  <2>1. /\ current \in DOMAIN tables /\ Own(tables, filerefs, kernel, host, lent, knums)
        /\ AllBacked(tables, Len(filerefs), Len(closed))
        /\ Sound(filerefs, kernel, host, lent, t) /\ fd \in DOMAIN t.fds
    BY OwnFacts DEF InTable
  <2>2. tables' = Insert(tables, current, c) /\ kernel' = Without(kernel, C)
    BY DEF CloseEntry, RealClose, Unreferenced
  <2>3. DOMAIN c.fds = DOMAIN t.fds \ {fd} /\ \A j \in DOMAIN t.fds \ {fd} : c.fds[j] = t.fds[j]
    BY <2>1, StateFacts, CloseEntries
  <2>4. \A g \in KernelEntries(c) : g \in KernelEntries(t) /\ c.fds[g] = t.fds[g] /\ g # fd
    BY <2>3 DEF KernelEntries
  <2>5. ASSUME NEW k \in C
        PROVE  k \in Uses(filerefs, t) /\ \A g \in KernelEntries(c) : KernelFd(filerefs, c.fds[g]) # k
    <3>1. /\ IsFile(v) /\ k = filerefs[v.id].real_fd /\ v.id \notin Files(c)
      OBVIOUS
    <3>2. fd \in KernelEntries(t) /\ KernelFd(filerefs, v) = k
      BY <2>1, <3>1 DEF KernelEntries, IsFile, IsPipe, KernelFd
    <3>3. ASSUME NEW g \in KernelEntries(c), KernelFd(filerefs, c.fds[g]) = k PROVE FALSE
      <4>1. c.fds[g] = v
        BY <2>1, <2>4, <3>2, <3>3 DEF Sound
      <4>2. v.id \in Files(c)
        BY <3>1, <4>1 DEF Files, KernelEntries
      <4> QED BY <3>1, <4>2
    <3> QED BY <3>2, <3>3 DEF Uses
  <2> HIDE DEF C, c
  <2>6. DOMAIN kernel' = (DOMAIN kernel \ C) \cup {} /\ \A k \in DOMAIN kernel \ C : kernel'[k] = kernel[k]
    BY <2>2 DEF Without
  <2>7. TableCall(tables, filerefs, kernel, current, c, filerefs, kernel', {}, C)
    <3>1. C \subseteq Uses(filerefs, tables[current])
      BY <2>5
    <3>2. \A f \in KernelEntries(c) :
             \E g \in KernelEntries(t) : c.fds[f] = t.fds[g] /\ KernelFd(filerefs, c.fds[f]) \notin C
      BY <2>4, <2>5
    <3> QED BY <2>6, <3>1, <3>2 DEF TableCall
  <2>8. \A r \in 1..Len(filerefs) : filerefs[r] = filerefs[r]
    OBVIOUS
  <2>9. Own(Insert(tables, current, c), filerefs, kernel', host, lent, knums)
    BY <2>1, <2>7, <2>8, <1>OwnTable
  <2> QED BY <2>1, <2>2, <2>9 DEF Insert
\* With OwnFiles, every step keeps the one owner of every kernel fd.
<1>OwnNext. TableInv /\ OwnInv /\ [Next]_vars => OwnInv'
  <2> DEFINE Goal == /\ ~aborted' /\ live' = DOMAIN tables'
                     /\ Own(tables', filerefs', kernel', host', lent', knums')
  <2> SUFFICES ASSUME TableInv, OwnInv, [Next]_vars, OwnFiles' PROVE Goal
    BY DEF OwnInv
  <2>1. scenario' = scenario
    BY DEF Next, vars
  <2>2. /\ OwnFiles /\ ~SharedTerminal
        /\ "spawn" \notin Calls /\ "dup2" \notin Calls /\ "ffi_fork" \notin Calls /\ "execve" \notin Calls
    BY <2>1 DEF OwnFiles, Calls, SharedTerminal
  <2>3. /\ ~aborted /\ live = DOMAIN tables
        /\ Own(tables, filerefs, kernel, host, lent, knums)
        /\ AllBacked(tables, Len(filerefs), Len(closed))
        /\ current # 0 => current \in DOMAIN tables /\ current \in Pids
    BY <2>2, OwnFacts
  <2>4. CASE UNCHANGED vars
    BY <2>3, <2>4 DEF vars
  <2>5. CASE HostOpen
    <3> DEFINE k == LowestKfd(kernel)
               d == opened + 1
    <3>1. /\ FreeKfds(kernel) # {} /\ kernel' = Insert(kernel, k, d) /\ host' = Insert(host, k, d)
          /\ UNCHANGED << tables, filerefs, lent, knums, live, aborted >>
      BY <2>5 DEF HostOpen, schedVars
    <3>2. k \notin DOMAIN kernel
      BY <3>1, StateFacts, LowestFree
    <3> HIDE DEF k, d
    <3>3. Own(tables, filerefs, Insert(kernel, k, d), Insert(host, k, d), lent, knums)
      BY <2>3, <3>2, <1>OwnHost
    <3> QED BY <2>3, <3>1, <3>3
  <2>6. CASE \E k \in DOMAIN host : CreateProcess(k)
    <3>1. PICK k \in DOMAIN host : CreateProcess(k)
      BY <2>6
    <3>2. /\ tables' = Insert(tables, next_pid, NewTable(k, k, k)) /\ live' = live \cup {next_pid}
          /\ lent' = lent \cup {host[k]} /\ host[k] \notin lent
          /\ UNCHANGED << filerefs, kernel, host, knums, aborted >>
      BY <2>2, <3>1 DEF CreateProcess
    <3>3. k \in Unlent(host, lent) /\ k \in Kfds /\ next_pid \notin DOMAIN tables
      BY <3>2, StateFacts DEF Unlent, IsMap
    <3>4. Own(Insert(tables, next_pid, NewTable(k, k, k)), filerefs, kernel, host, lent \cup {host[k]}, knums)
      BY <2>3, <3>3, <1>OwnStart
    <3>5. DOMAIN tables' = DOMAIN tables \cup {next_pid}
      BY <3>2 DEF Insert
    <3> QED BY <2>3, <3>2, <3>4, <3>5
  <2>7. CASE \E p \in live : Resume(p)
    <3>1. PICK p \in live : Resume(p)
      BY <2>7
    <3>2. UNCHANGED << tables, filerefs, host, lent, knums, live >>
      BY <3>1 DEF Resume
    <3>3. aborted' = aborted /\ Own(tables, filerefs, kernel', host, lent, knums)
      BY <2>2, <3>1, ResumeOwn
    <3> QED BY <2>3, <3>2, <3>3
  <2>8. CASE \E exits \in BOOLEAN : EndSlice(exits)
    <3>1. PICK exits \in BOOLEAN : EndSlice(exits)
      BY <2>8
    <3>2. UNCHANGED << filerefs, host, lent >>
      BY <3>1 DEF EndSlice
    <3>3. aborted' = aborted /\ live' = DOMAIN tables' /\ Own(tables', filerefs, kernel', host, lent, knums')
      BY <2>2, <3>1, EndSliceOwn
    <3> QED BY <2>3, <3>2, <3>3
  <2>9. ASSUME NEW cloexec \in BOOLEAN, Open(cloexec)
        PROVE  Goal
    <3> DEFINE k == LowestKfd(kernel)
               d == opened + 1
    <3>1. /\ FreeKfds(kernel) # {} /\ Room(tables[current]) /\ kernel' = Insert(kernel, k, d)
          /\ NewFileRef(k, cloexec, d) /\ UNCHANGED << host, lent, knums, live, aborted >>
          /\ tables' = Insert(tables, current, InsertVfd(tables[current], File(NextRef)))
          /\ current # 0
      BY <2>3, <2>9 DEF Open, GetOrCreate, Running, schedVars
    <3>2. k \in Kfds \ DOMAIN kernel
      BY <3>1, StateFacts, LowestFree
    <3>3. d \in 0..OpenLimit
      <4>1. /\ opened < scenario.opens /\ OpenLimit \in Nat
            /\ opened \in 0..OpenLimit /\ scenario.opens \in 0..OpenLimit
        BY <2>9, StateFacts, ScenarioFacts DEF Open
      <4> QED BY <4>1
    <3> HIDE DEF k, d
    <3>4. Own(tables', filerefs', kernel', host, lent, knums) /\ DOMAIN tables' = DOMAIN tables
      BY <2>2, <3>1, <3>2, <3>3, <1>InsertCallOwn
    <3> QED BY <2>3, <3>1, <3>4
  <2>10. CASE Pipe
    <3> DEFINE r == LowestKfd(kernel)
               K == Insert(kernel, r, opened + 1)
               w == LowestKfd(K)
    <3>1. /\ kernel' = Insert(K, w, opened + 2) /\ knums' = [knums EXCEPT ![current] = @ \cup {r, w}]
          /\ UNCHANGED << tables, filerefs, host, lent, live, aborted >> /\ current # 0
          /\ opened + 1 < scenario.opens /\ (\E j, k \in FreeKfds(kernel) : j # k)
      BY <2>10 DEF Pipe, Running, schedVars
    <3>2. r \notin DOMAIN kernel /\ w \notin DOMAIN kernel \cup {r}
      BY <3>1, PipeKfds
    <3>3. /\ DOMAIN kernel' = (DOMAIN kernel \ {}) \cup {r, w}
          /\ \A k \in DOMAIN kernel \ {} : kernel'[k] = kernel[k]
      <4> HIDE DEF w, r
      <4> QED BY <3>1, <3>2 DEF Insert
    <3> HIDE DEF r, w, K
    <3>4. knums'[current] = (knums[current] \ {}) \cup {r, w} /\ \A q \in Pids \ {current} : knums'[q] = knums[q]
      BY <2>3, <3>1, StateFacts
    <3>5. {r, w} \cap DOMAIN kernel = {} /\ {} \subseteq knums[current]
      BY <3>2
    <3>6. Own(tables, filerefs, kernel', host, lent, knums')
      <4>1. PipeCall(kernel, knums, current, kernel', knums', {r, w}, {})
        BY <3>3, <3>4, <3>5 DEF PipeCall
      <4> QED BY <2>3, <3>1, <4>1, <1>OwnPipes
    <3> QED BY <2>3, <3>1, <3>6
  <2>11. ASSUME FfiPipe \/ \E f, g \in FdsInUse : Dup(f) \/ FfiDup(f) \/ FfiDup2(f, g)
         PROVE  Goal
    <3> DEFINE t == tables[current]
    <3>1. current # 0 /\ UNCHANGED << host, lent, knums, live, aborted >>
      BY <2>11 DEF FfiPipe, Dup, FfiDup, FfiDup2, Running, schedVars
    <3>2. current \in DOMAIN tables /\ IsTable(t)
      BY <2>3, <3>1, StateFacts
    <3>3. ASSUME NEW u, tables' = Insert(tables, current, u), UNCHANGED << kernel, filerefs >>,
                 \A fd \in KernelEntries(u) : \E g \in KernelEntries(t) : u.fds[fd] = t.fds[g]
          PROVE  Goal
      <4>1. Own(tables', filerefs, kernel, host, lent, knums) /\ DOMAIN tables' = DOMAIN tables
        BY <2>2, <3>1, <3>3, <1>MoveCallOwn
      <4> QED BY <2>3, <3>1, <3>3, <4>1
    <3>4. CASE FfiPipe
      <4> DEFINE b == Len(closed) + 1
      <4>1. /\ Room(t) /\ Room(AfterAlloc(t)) /\ UNCHANGED << kernel, filerefs >>
            /\ tables' = Insert(tables, current, CreatePipe(t, b))
        BY <3>2, <3>4 DEF FfiPipe, GetOrCreate
      <4>2. b \in Nat
        BY StateFacts
      <4> HIDE DEF b, t
      <4>3. t.next_fd + 1 < FdLimit
        BY <3>2, <4>1, RoomFacts, StateFacts
      <4>4. AfterAlloc(t).next_fd + 1 < FdLimit
        BY <3>2, <4>1, <4>3, RoomFacts, StateFacts, AllocFacts
      <4>5. \A fd \in KernelEntries(CreatePipe(t, b)) :
               \E g \in KernelEntries(t) : CreatePipe(t, b).fds[fd] = t.fds[g]
        BY <3>2, <4>2, <4>3, <4>4, <1>PipeMoves
      <4> QED BY <3>3, <4>1, <4>5
    <3>5. ASSUME NEW f, NEW g \in FdsInUse, FfiDup2(f, g) PROVE Goal
      <4>1. tables' = Insert(tables, current, Dup2Fd(t, f, g)) /\ UNCHANGED << kernel, filerefs >>
        BY <3>5 DEF FfiDup2
      <4>2. g \in Fds
        BY ScenarioFacts, StateFacts
      <4> HIDE DEF t
      <4>3. \A fd \in KernelEntries(Dup2Fd(t, f, g)) :
               \E h \in KernelEntries(t) : Dup2Fd(t, f, g).fds[fd] = t.fds[h]
        BY <3>2, <4>2, <1>Dup2Moves
      <4> QED BY <3>3, <4>1, <4>3
    <3>6. ASSUME NEW f, Room(t), tables' = Insert(tables, current, DupFd(t, f)),
                 UNCHANGED << kernel, filerefs >>
          PROVE  Goal
      <4>1. t.next_fd + 1 < FdLimit
        BY <3>2, <3>6, RoomFacts, StateFacts
      <4> HIDE DEF t
      <4>2. \A fd \in KernelEntries(DupFd(t, f)) :
               \E h \in KernelEntries(t) : DupFd(t, f).fds[fd] = t.fds[h]
        BY <3>2, <4>1, <1>DupMoves
      <4> QED BY <3>3, <3>6, <4>2
    <3>7. ASSUME NEW f, FfiDup(f) PROVE Goal
      BY <3>6, <3>7 DEF FfiDup
    <3>8. ASSUME NEW f, Dup(f) PROVE Goal
      <4> DEFINE k == LowestKfd(kernel)
                 d == kernel[RealFd(t.fds[f])]
      <4>1. CASE Backs(t, f)
        <5>1. /\ FreeKfds(kernel) # {} /\ kernel' = Insert(kernel, k, d) /\ Room(t)
              /\ NewFileRef(k, FALSE, d) /\ RealFd(t.fds[f]) \in DOMAIN kernel
              /\ tables' = Insert(tables, current, InsertVfd(t, File(NextRef)))
          BY <3>8, <4>1 DEF Dup
        <5>2. k \in Kfds \ DOMAIN kernel
          BY <5>1, StateFacts, LowestFree
        <5>3. d \in 0..OpenLimit
          BY <3>2, <4>1, <5>1, RealFdType DEF Backs
        <5>4. FALSE \in BOOLEAN
          OBVIOUS
        <5> HIDE DEF k, d
        <5>5. Own(tables', filerefs', kernel', host, lent, knums) /\ DOMAIN tables' = DOMAIN tables
          BY <2>2, <3>1, <5>1, <5>2, <5>3, <5>4, <1>InsertCallOwn
        <5> QED BY <2>3, <3>1, <5>5
      <4>2. CASE ~Backs(t, f)
        <5>1. Room(t) /\ tables' = Insert(tables, current, DupFd(t, f)) /\ UNCHANGED << kernel, filerefs >>
          BY <3>8, <4>2 DEF Dup
        <5> QED BY <3>6, <5>1
      <4> QED BY <4>1, <4>2
    <3> HIDE DEF Goal
    <3> QED BY <2>11, <3>4, <3>5, <3>7, <3>8
  <2>12. ASSUME NEW fd, Close(fd) \/ FfiClose(fd)
         PROVE  Goal
    <3>1. UNCHANGED << filerefs, host, lent, live, aborted >> /\ current # 0
      BY <2>12 DEF Close, FfiClose, Running, schedVars
    <3>2. CASE InTable(fd) /\ CloseEntry(fd)
      <4>1. Own(tables', filerefs, kernel', host, lent, knums) /\ DOMAIN tables' = DOMAIN tables
        BY <2>2, <3>1, <3>2, <1>CloseOwn
      <4>2. knums' = knums
        BY <3>2 DEF CloseEntry
      <4> QED BY <2>3, <3>1, <4>1, <4>2
    <3>3. CASE /\ UNCHANGED tables /\ RealClose({fd}) /\ fd \in knums[current]
               /\ knums' = [knums EXCEPT ![current] = @ \ {fd}]
      <4>1. PipeCall(kernel, knums, current, kernel', knums', {}, {fd})
        BY <2>3, <3>1, <3>3, StateFacts DEF PipeCall, RealClose, Without
      <4>2. Own(tables, filerefs, kernel', host, lent, knums')
        BY <2>3, <3>1, <4>1, <1>OwnPipes
      <4> QED BY <2>3, <3>1, <3>3, <4>2
    <3> QED BY <2>12, <3>2, <3>3 DEF Close, FfiClose
  <2>13. CASE Next
    <3>1. Act
      BY <2>13 DEF Next
    <3>2. ~Spawn /\ ~FfiFork /\ ~Execve /\ \A f, g : ~Dup2(f, g)
      BY <2>2 DEF Spawn, FfiFork, Execve, Dup2, Running
    <3>3. ASSUME NEW fd \in FdsInUse, Dup(fd) \/ FfiDup(fd) PROVE Goal
      BY <2>11, <3>3
    <3>4. CASE \E fd \in FdsInUse : Dup(fd) \/ FfiDup(fd) \/ FfiClose(fd)
      <4> HIDE DEF Goal
      <4> QED BY <2>12, <3>3, <3>4
    <3>5. CASE \E f, g \in FdsInUse : Dup2(f, g) \/ FfiDup2(f, g)
      BY <2>11, <3>2, <3>5
    <3> HIDE DEF Goal
    <3> QED BY <2>5, <2>6, <2>7, <2>8, <2>9, <2>10, <2>11, <2>12, <3>1, <3>2, <3>4, <3>5 DEF Act
  <2> QED BY <2>4, <2>13
<1>1. Init => OwnInv
  <2> SUFFICES ASSUME Init PROVE ~aborted /\ live = DOMAIN tables /\ Own(tables, filerefs, kernel, host, lent, knums)
    BY DEF OwnInv
  <2>1. DOMAIN tables = {} /\ DOMAIN host = {} /\ DOMAIN kernel = 0..5 /\ live = {} /\ ~aborted
    BY DEF Init
  <2>2. \A p \in Pids : knums[p] = {}
    BY DEF Init
  <2>3. Unlent(host, lent) = {}
    BY <2>1 DEF Unlent
  <2> QED BY <2>1, <2>2, <2>3 DEF Own
<1> QED BY <1>1, TablesInvariant, <1>OwnNext, PTL DEF Spec

\* An entry of a sound table reaches what it was made for.
LEMMA EntryReaches ==
    ASSUME TableInv, OwnInv, OwnFiles, NEW p \in DOMAIN tables, NEW fd \in DOMAIN tables[p].fds,
           ~IsPipe(tables[p].fds[fd])
    PROVE  LET v == tables[p].fds[fd] IN
           /\ RealFd(v) = KernelFd(filerefs, v) /\ RealFd(v) \in DOMAIN kernel \ 0..5
           /\ kernel[RealFd(v)] = MadeFor(v)
<1> DEFINE v == tables[p].fds[fd]
<1>1. RealFd(v) = KernelFd(filerefs, v) /\ (v.kind = "Real" \/ IsFile(v))
  BY RealFdType
<1>2. Held(filerefs, kernel, host, lent, v)
  BY OwnFacts DEF Sound, KernelEntries
<1>3. CASE IsFile(v)
  BY <1>1, <1>2, <1>3 DEF Held, MadeFor
<1>4. CASE v.kind = "Real"
  <2>1. RealFd(v) = v.id /\ ~IsFile(v)
    BY <1>4 DEF RealFd, IsFile
  <2> QED BY <1>1, <1>2, <1>4, <2>1 DEF Held, MadeFor
<1> QED BY <1>1, <1>3, <1>4

\* EntriesReachable, for any number of processes, descriptors and kernel fds,
\* whatever else programs and host do: close, dup, the swap and the reap leave
\* every entry of every other table on the file or terminal it was made for.
THEOREM EntriesStayReachable == Spec => []EntriesReachable
<1>1. TableInv /\ OwnInv => EntriesReachable
  <2> SUFFICES ASSUME TableInv, OwnInv, OwnFiles, NEW e \in Entries(tables)
               PROVE  Reaches(Entry(e))
    BY DEF EntriesReachable
  <2>1. PICK p \in DOMAIN tables : \E fd \in DOMAIN tables[p].fds : e = <<p, fd>>
    BY DEF Entries
  <2>2. PICK fd \in DOMAIN tables[p].fds : e = <<p, fd>>
    BY <2>1
  <2>3. Entry(e) = tables[p].fds[fd]
    BY <2>2 DEF Entry
  <2> QED BY <2>2, <2>3, EntryReaches DEF Reaches
<1> QED BY <1>1, OwnInvariant, PTL
-----------------------------------------------------------------------------
(* Fds 0-2 of a slice.                                                     *)

\* The invariants, with fds 0-2, hold in every behaviour.
LEMMA SliceInvariant == Spec => [](TableInv /\ AllocInv /\ OwnInv /\ SliceInv)
\* A call of the running process that leaves 0-2 of its table, and what the
\* kernel keeps, alone.
<1>CallSlice.
    ASSUME TableInv, OwnInv, OwnInv', SliceInv, Isolated, Isolated', current # 0, UNCHANGED << current, swapped >>,
           NEW u, tables' = Insert(tables, current, u), Plain(u),
           \A i \in 0..2 \cap DOMAIN u.fds : i \in DOMAIN tables[current].fds /\ u.fds[i] = tables[current].fds[i],
           \A k \in DOMAIN kernel \cap DOMAIN kernel' : kernel'[k] = kernel[k]
    PROVE  SliceInv'
  <2> USE <1>CallSlice
  <2>1. /\ current \in DOMAIN tables /\ 0..5 \subseteq DOMAIN kernel
        /\ Uses(filerefs, tables[current]) \subseteq DOMAIN kernel \ 0..5
    BY OwnFacts DEF Isolated
  <2>2. Own(tables', filerefs', kernel', host', lent', knums')
    BY DEF OwnInv, Isolated
  <2>3. /\ DOMAIN tables' = DOMAIN tables /\ tables'[current] = u
        /\ \A q \in DOMAIN tables \ {current} : tables'[q] = tables[q]
    BY <2>1 DEF Insert
  <2>4. Uses(filerefs', u) \subseteq DOMAIN kernel' /\ 0..5 \subseteq DOMAIN kernel'
    <3>0. current \in DOMAIN tables' /\ u = tables'[current]
      BY <2>1, <2>3
    <3> HIDE <1>CallSlice
    <3>1. Sound(filerefs', kernel', host', lent', u) /\ 0..5 \subseteq DOMAIN kernel'
      BY <2>2, <3>0 DEF Own
    <3>2. Uses(filerefs', u) \subseteq DOMAIN kernel' \ 0..5
      BY <3>1, SoundUses
    <3> QED BY <3>1, <3>2
  <2>5. \A q \in DOMAIN tables' : Plain(tables'[q])
    BY <2>3 DEF SliceInv
  <2>6. ASSUME swapped, NEW i \in 0..2 \cap DOMAIN u.fds
        PROVE  kernel'[i] = kernel'[u.fds[i].id]
    <3>1. u.fds[i].kind = "Real" /\ ~IsPipe(u.fds[i]) /\ u.fds[i] = tables[current].fds[i]
      BY DEF Plain
    <3>2. u.fds[i].id \in Uses(filerefs', u) /\ u.fds[i].id \in Uses(filerefs, tables[current])
      BY <3>1, UsesDef DEF KernelFd
    <3>3. kernel[i] = kernel[u.fds[i].id]
      BY <2>6, <3>1 DEF SliceInv
    <3>4. i \in DOMAIN kernel \cap DOMAIN kernel' /\ u.fds[i].id \in DOMAIN kernel \cap DOMAIN kernel'
      BY <2>1, <2>4, <3>2
    <3> QED BY <3>3, <3>4
  <2> QED BY <2>3, <2>5, <2>6 DEF SliceInv
\* A step that leaves the tables alone, within a slice.
<1>QuietSlice.
    ASSUME TableInv, OwnInv, SliceInv, Isolated, UNCHANGED << tables, current, swapped >>,
           \A k \in DOMAIN kernel \ UNION {knums[p] : p \in Pids} : kernel'[k] = kernel[k]
    PROVE  SliceInv'
  <2> USE <1>QuietSlice
  <2>1. /\ current # 0 => current \in DOMAIN tables
        /\ 0..5 \subseteq DOMAIN kernel /\ Own(tables, filerefs, kernel, host, lent, knums)
        /\ \A p \in DOMAIN tables : Uses(filerefs, tables[p]) \subseteq DOMAIN kernel \ 0..5
    BY OwnFacts DEF Isolated
  <2>2. /\ \A p \in Pids : knums[p] \cap 0..5 = {}
        /\ \A p \in Pids, q \in DOMAIN tables : knums[p] \cap Uses(filerefs, tables[q]) = {}
    BY <2>1 DEF Own
  <2>3. ASSUME current # 0, swapped, NEW i \in 0..2 \cap DOMAIN tables[current].fds
        PROVE  kernel'[i] = kernel'[tables[current].fds[i].id]
    <3> DEFINE v == tables[current].fds[i]
    <3>1. v.kind = "Real" /\ ~IsPipe(v) /\ kernel[i] = kernel[v.id] /\ current \in DOMAIN tables
      BY <2>1, <2>3 DEF SliceInv, Plain
    <3>2. v.id \in Uses(filerefs, tables[current])
      BY <3>1, UsesDef DEF KernelFd
    <3>3. i \in DOMAIN kernel \ UNION {knums[p] : p \in Pids}
      BY <2>1, <2>2
    <3>4. v.id \in DOMAIN kernel \ UNION {knums[p] : p \in Pids}
      BY <2>1, <2>2, <3>1, <3>2
    <3> QED BY <3>1, <3>3, <3>4
  <2> QED BY <2>3 DEF SliceInv
\* A file or an entry of the table itself inserted at next_fd.
<1>InsertPlain.
    ASSUME NEW t, IsTable(t), Plain(t), NEW u, NEW v, ~IsPipe(v), u.fds = Insert(t.fds, t.next_fd, v)
    PROVE  /\ Plain(u)
           /\ \A i \in 0..2 \cap DOMAIN u.fds : i \in DOMAIN t.fds /\ u.fds[i] = t.fds[i]
  <2> USE <1>InsertPlain
  <2>1. t.next_fd \notin 0..2
    BY FdLimitAssumption DEF IsTable
  <2>2. /\ DOMAIN u.fds = DOMAIN t.fds \cup {t.next_fd} /\ u.fds[t.next_fd] = v
        /\ \A fd \in DOMAIN t.fds \ {t.next_fd} : u.fds[fd] = t.fds[fd]
    BY DEF Insert
  <2> QED BY <2>1, <2>2 DEF Plain
\* Every step keeps what fds 0-2 are during and between slices.
<1>SliceNext.
    TableInv /\ AllocInv /\ OwnInv /\ OwnInv' /\ SliceInv /\ [Next]_vars => SliceInv'
  <2> SUFFICES ASSUME TableInv, AllocInv, OwnInv, OwnInv', SliceInv, [Next]_vars, Isolated'
               PROVE  SliceInv'
    BY DEF SliceInv
  <2>1. scenario' = scenario
    BY DEF Next, vars
  <2>2. /\ Isolated /\ OwnFiles /\ "pipe" \notin Calls /\ "ffi_pipe" \notin Calls /\ "ffi_dup2" \notin Calls
        /\ "spawn" \notin Calls /\ "dup2" \notin Calls /\ "ffi_fork" \notin Calls /\ "execve" \notin Calls
        /\ \A p \in DOMAIN tables : Below(tables[p]) /\ Plain(tables[p])
    BY <2>1 DEF Isolated, OwnFiles, Calls, SharedTerminal, AllocInv, SliceInv
  <2>3. /\ 0..5 \subseteq DOMAIN kernel /\ live = DOMAIN tables
        /\ current # 0 => current \in DOMAIN tables
        /\ \A p \in DOMAIN tables : Uses(filerefs, tables[p]) \subseteq DOMAIN kernel \ 0..5
    BY <2>2, OwnFacts
  <2>4. CASE UNCHANGED vars
    BY <2>4 DEF vars, SliceInv, Isolated, OwnFiles, Calls, SharedTerminal
  <2>5. CASE HostOpen
    <3>1. /\ FreeKfds(kernel) # {} /\ kernel' = Insert(kernel, LowestKfd(kernel), opened + 1)
          /\ UNCHANGED << tables, current, swapped >>
      BY <2>5 DEF HostOpen, schedVars
    <3>2. LowestKfd(kernel) \notin DOMAIN kernel
      BY <3>1, StateFacts, LowestFree
    <3>3. \A k \in DOMAIN kernel : kernel'[k] = kernel[k]
      BY <3>1, <3>2 DEF Insert
    <3> QED BY <2>2, <3>1, <3>3, <1>QuietSlice
  <2>6. CASE \E k \in DOMAIN host : CreateProcess(k)
    <3>1. PICK k \in DOMAIN host : CreateProcess(k)
      BY <2>6
    <3>2. tables' = Insert(tables, next_pid, NewTable(k, k, k)) /\ current' = 0
      BY <3>1 DEF CreateProcess
    <3>3. k \in Kfds
      BY StateFacts DEF IsMap
    <3> DEFINE t == NewTable(k, k, k)
    <3>4. DOMAIN t.fds = 0..2 /\ t.fds[0] = Real(k) /\ t.fds[1] = Real(k) /\ t.fds[2] = Real(k)
      BY <3>3, NewTableBacked
    <3> HIDE DEF t
    <3>5. \A fd \in DOMAIN t.fds : t.fds[fd] = Real(k)
      <4>1. \A fd \in DOMAIN t.fds : fd = 0 \/ fd = 1 \/ fd = 2
        BY <3>4
      <4> QED BY <3>4, <4>1
    <3>6. Plain(t)
      BY <3>5 DEF Plain, Real, IsPipe
    <3>7. \A p \in DOMAIN tables' : Plain(tables'[p])
      BY <2>2, <3>2, <3>6 DEF Insert, t
    <3> QED BY <3>2, <3>7 DEF SliceInv
  <2>7. CASE \E p \in live : Resume(p)
    <3>1. PICK p \in live : Resume(p)
      BY <2>7
    <3>2. UNCHANGED tables /\ p \in DOMAIN tables
      BY <2>3, <3>1 DEF Resume
    <3>3. /\ current' = p /\ (swapped' <=> HasRealFds(tables[p]))
          /\ swapped' => /\ \A i \in 0..2 : RealFds(p)[i] \in DOMAIN kernel \ 0..5
                         /\ kernel' = Install(RealFds(p)) /\ CanInstall(RealFds(p))
      BY <2>2, <3>1, ResumeOwn
    <3>4. ASSUME swapped', NEW i \in 0..2 \cap DOMAIN tables[p].fds
          PROVE  kernel'[i] = kernel'[tables[p].fds[i].id]
      <4>1. RealFds(p)[i] = tables[p].fds[i].id
        BY <2>2, <3>2 DEF Plain, RealFds, RealFd
      <4>2. \A j \in 0..2 : RealFds(p)[j] \in DOMAIN kernel \ 0..2
        BY <3>3, <3>4
      <4>3. /\ \A k \in DOMAIN kernel \ 0..2 : kernel'[k] = kernel[k]
            /\ \A j \in 0..2 : kernel'[j] = kernel[RealFds(p)[j]]
        <5>1. IsMap(kernel, Kfds, 0..OpenLimit) /\ CanInstall(RealFds(p)) /\ kernel' = Install(RealFds(p))
          BY <3>3, <3>4, StateFacts
        <5> QED BY <4>2, <5>1, InstallFacts
      <4> QED BY <4>1, <4>2, <4>3
    <3> QED BY <2>2, <3>2, <3>3, <3>4 DEF SliceInv
  <2>8. CASE \E exits \in BOOLEAN : EndSlice(exits)
    <3>1. PICK exits \in BOOLEAN : EndSlice(exits)
      BY <2>8
    <3>2. current' = 0 /\ (tables' = tables \/ tables' = Without(tables, {current}))
      BY <3>1 DEF EndSlice
    <3>3. \A p \in DOMAIN tables' : Plain(tables'[p])
      BY <2>2, <3>2 DEF Without
    <3> QED BY <3>2, <3>3 DEF SliceInv
  <2>9. ASSUME current # 0, UNCHANGED << current, swapped >>, Room(tables[current]),
               NEW k, k \notin DOMAIN kernel, NEW d, kernel' = Insert(kernel, k, d),
               tables' = Insert(tables, current, InsertVfd(tables[current], File(NextRef)))
        PROVE  SliceInv'
    <3> DEFINE t == tables[current]
               u == InsertVfd(t, File(NextRef))
    <3>1. IsTable(t) /\ t.next_fd + 1 < FdLimit /\ Plain(t)
      BY <2>2, <2>3, <2>9, StateFacts, RoomFacts
    <3>2. File(NextRef) \in Vfd /\ ~IsPipe(File(NextRef))
      BY StateFacts DEF File, Vfd, NextRef, IsPipe
    <3>3. u.fds = Insert(t.fds, t.next_fd, File(NextRef))
      BY <3>1, <3>2, InsertVfdFacts
    <3> HIDE DEF u, t
    <3>4. Plain(u) /\ \A i \in 0..2 \cap DOMAIN u.fds : i \in DOMAIN t.fds /\ u.fds[i] = t.fds[i]
      BY <3>1, <3>2, <3>3, <1>InsertPlain
    <3>5. \A j \in DOMAIN kernel \cap DOMAIN kernel' : kernel'[j] = kernel[j]
      BY <2>9 DEF Insert
    <3> QED BY <2>2, <2>9, <3>4, <3>5, <1>CallSlice DEF u, t
  <2>10. ASSUME NEW f, current # 0, UNCHANGED << current, swapped, kernel >>, Room(tables[current]),
                tables' = Insert(tables, current, DupFd(tables[current], f))
         PROVE  SliceInv'
    <3> DEFINE t == tables[current]
               u == DupFd(t, f)
    <3>1. IsTable(t) /\ t.next_fd + 1 < FdLimit /\ Plain(t) /\ Below(t)
      BY <2>2, <2>3, <2>10, StateFacts, RoomFacts
    <3>2. /\ f \notin DOMAIN t.fds => u.fds = t.fds
          /\ f \in DOMAIN t.fds => u.fds = Insert(t.fds, t.next_fd, t.fds[f])
      BY <3>1, DupBelow
    <3> HIDE DEF u, t
    <3>3. Plain(u) /\ \A i \in 0..2 \cap DOMAIN u.fds : i \in DOMAIN t.fds /\ u.fds[i] = t.fds[i]
      <4>1. CASE f \notin DOMAIN t.fds
        BY <3>1, <3>2, <4>1 DEF Plain
      <4>2. CASE f \in DOMAIN t.fds
        <5>1. ~IsPipe(t.fds[f]) /\ u.fds = Insert(t.fds, t.next_fd, t.fds[f])
          BY <3>1, <3>2, <4>2 DEF Plain
        <5> QED BY <3>1, <5>1, <1>InsertPlain
      <4> QED BY <4>1, <4>2
    <3> QED BY <2>2, <2>10, <3>3, <1>CallSlice DEF u, t
  <2>11. ASSUME NEW cloexec \in BOOLEAN, Open(cloexec) PROVE SliceInv'
    <3>1. /\ current # 0 /\ UNCHANGED << current, swapped >> /\ FreeKfds(kernel) # {}
          /\ Room(tables[current]) /\ kernel' = Insert(kernel, LowestKfd(kernel), opened + 1)
          /\ tables' = Insert(tables, current, InsertVfd(tables[current], File(NextRef)))
      BY <2>3, <2>11 DEF Open, Running, GetOrCreate, schedVars
    <3>2. LowestKfd(kernel) \notin DOMAIN kernel
      BY <3>1, StateFacts, LowestFree
    <3> QED BY <2>9, <3>1, <3>2
  <2>12. ASSUME NEW f, Dup(f) PROVE SliceInv'
    <3> DEFINE t == tables[current]
    <3>1. current # 0 /\ UNCHANGED << current, swapped >> /\ Room(t)
      BY <2>12 DEF Dup, Running, schedVars
    <3>2. CASE Backs(t, f)
      <4>1. /\ FreeKfds(kernel) # {} /\ kernel' = Insert(kernel, LowestKfd(kernel), kernel[RealFd(t.fds[f])])
            /\ tables' = Insert(tables, current, InsertVfd(t, File(NextRef)))
        BY <2>12, <3>2 DEF Dup
      <4>2. LowestKfd(kernel) \notin DOMAIN kernel
        BY <4>1, StateFacts, LowestFree
      <4> QED BY <2>9, <3>1, <4>1, <4>2
    <3>3. CASE ~Backs(t, f)
      <4>1. UNCHANGED kernel /\ tables' = Insert(tables, current, DupFd(t, f))
        BY <2>12, <3>3 DEF Dup
      <4> QED BY <2>10, <3>1, <4>1
    <3> QED BY <3>2, <3>3
  <2>13. ASSUME NEW f, FfiDup(f) PROVE SliceInv'
    <3>1. /\ current # 0 /\ UNCHANGED << current, swapped, kernel >> /\ Room(tables[current])
          /\ tables' = Insert(tables, current, DupFd(tables[current], f))
      BY <2>13 DEF FfiDup, Running, schedVars
    <3> QED BY <2>10, <3>1
  <2>14. ASSUME NEW fd, Close(fd) \/ FfiClose(fd) PROVE SliceInv'
    <3>1. UNCHANGED << current, swapped >> /\ current # 0
      BY <2>14 DEF Close, FfiClose, Running, schedVars
    <3>2. CASE InTable(fd) /\ CloseEntry(fd)
      <4> DEFINE t == tables[current]
                 c == CloseFd(t, fd)
      <4>1. /\ tables' = Insert(tables, current, c) /\ Plain(t) /\ IsTable(t)
            /\ \A k \in DOMAIN kernel \cap DOMAIN kernel' : kernel'[k] = kernel[k]
        BY <2>2, <2>3, <3>1, <3>2, StateFacts DEF CloseEntry, RealClose, Without
      <4>2. DOMAIN c.fds = DOMAIN t.fds \ {fd} /\ \A j \in DOMAIN t.fds \ {fd} : c.fds[j] = t.fds[j]
        BY <4>1, CloseEntries
      <4> HIDE DEF c, t
      <4>3. Plain(c) /\ \A i \in 0..2 \cap DOMAIN c.fds : i \in DOMAIN t.fds /\ c.fds[i] = t.fds[i]
        BY <4>1, <4>2 DEF Plain
      <4> QED BY <2>2, <3>1, <4>1, <4>3, <1>CallSlice DEF c, t
    <3>3. CASE UNCHANGED tables /\ RealClose({fd}) /\ fd \in knums[current]
      <4>1. current \in Pids
        BY <3>1, StateFacts
      <4>2. \A k \in DOMAIN kernel \ UNION {knums[p] : p \in Pids} : k # fd
        BY <3>3, <4>1
      <4>3. \A k \in DOMAIN kernel \ UNION {knums[p] : p \in Pids} : kernel'[k] = kernel[k]
        BY <3>3, <4>2 DEF RealClose, Without
      <4> QED BY <2>2, <3>1, <3>3, <4>3, <1>QuietSlice
    <3> QED BY <2>14, <3>2, <3>3 DEF Close, FfiClose
  <2>15. CASE Next
    <3>1. Act
      BY <2>15 DEF Next
    <3>2. /\ ~Spawn /\ ~Pipe /\ ~FfiPipe /\ ~FfiFork /\ ~Execve
          /\ \A f, g : ~Dup2(f, g) /\ ~FfiDup2(f, g)
      BY <2>2 DEF Spawn, Pipe, FfiPipe, FfiFork, Execve, Dup2, FfiDup2, Running
    <3> QED BY <2>5, <2>6, <2>7, <2>8, <2>11, <2>12, <2>13, <2>14, <3>1, <3>2 DEF Act
  <2> QED BY <2>4, <2>15
<1>1. Init => SliceInv
  BY DEF Init, SliceInv
<1> QED BY <1>1, OwnInvariant, <1>SliceNext, PTL DEF Spec

\* SliceHasOwnFds, for any number of processes, descriptors and kernel fds:
\* the kernel's 0, 1 and 2 are the running process's from the swap before its
\* slice to the swap after it, whatever it, or the host, opens and closes.
THEOREM SlicesHaveOwnFds == Spec => []SliceHasOwnFds
<1>1. TableInv /\ OwnInv /\ SliceInv => SliceHasOwnFds
  <2> SUFFICES ASSUME TableInv, OwnInv, SliceInv, Isolated, current # 0, swapped,
                      NEW i \in 0..2 \cap DOMAIN tables[current].fds, ~IsPipe(tables[current].fds[i])
               PROVE  i \in DOMAIN kernel /\ kernel[i] = MadeFor(tables[current].fds[i])
    BY DEF SliceHasOwnFds
  <2> DEFINE v == tables[current].fds[i]
  <2>1. OwnFiles
    BY DEF Isolated
  <2>2. current \in DOMAIN tables /\ 0..5 \subseteq DOMAIN kernel
    BY <2>1, OwnFacts
  <2>3. v.kind = "Real" /\ kernel[i] = kernel[v.id]
    BY <2>2 DEF SliceInv, Plain
  <2>4. kernel[RealFd(v)] = MadeFor(v)
    BY <2>1, <2>2, EntryReaches
  <2> QED BY <2>2, <2>3, <2>4 DEF RealFd
<1> QED BY <1>1, SliceInvariant, PTL
-----------------------------------------------------------------------------
(* The tables implement PosixFds.  The operators have FileRefs and kernel  *)
(* as parameters.                                                          *)

\* What an entry reaches, and all entries of a table: see Object, OpenFiles.
Reached(F, K, v) ==
    IF IsPipe(v) THEN v
    ELSE [kind |-> "Desc",
          id |-> IF KernelFd(F, v) \in DOMAIN K THEN K[KernelFd(F, v)] ELSE OpenLimit + 1]

\* What a program reaches through each of its fds.
View(F, K, t) == [fd \in DOMAIN t.fds |-> Reached(F, K, t.fds[fd])]

\* No step changes what an open kernel fd above the driver's is open on.
KernelKeeps == \A k \in (DOMAIN kernel \cap DOMAIN kernel') \ 0..5 : kernel'[k] = kernel[k]

\* The invariants, before and after a step of an isolated scenario.
PosixStep ==
    /\ TableInv /\ TableInv' /\ AllocInv /\ OwnInv /\ OwnInv' /\ SliceInv
    /\ Isolated /\ Isolated' /\ [Next]_vars

\* ImplementsPosix, for any number of processes, descriptors and kernel fds:
\* where programs keep to open, dup and close, the tables over one kernel
\* table are a private map from descriptors to open files per process, which
\* only its own calls change and in which a new number never replaces one in
\* use.
THEOREM TablesImplementPosix == Spec => ImplementsPosix
\* Where the tables are isolated, the refinement map is the view of each
\* table.
<1>OpenFilesAre.
    /\ Isolated => OpenFiles = [p \in DOMAIN tables |-> View(filerefs, kernel, tables[p])]
    /\ Isolated' => OpenFiles' = [p \in DOMAIN tables' |-> View(filerefs', kernel', tables'[p])]
  BY DEF OpenFiles, View, Reached, Object, RealFd, KernelFd
\* A kernel fd that a table uses before and after a step is open on the same
\* file.
<1>KernelStep.
    ASSUME TableInv, OwnInv, Isolated, [Next]_vars
    PROVE  KernelKeeps /\ \A r \in 1..Len(filerefs) : filerefs'[r] = filerefs[r]
  <2> USE <1>KernelStep
  <2>1. /\ OwnFiles /\ "dup2" \notin Calls /\ "execve" \notin Calls /\ "pipe" \notin Calls
    BY DEF Isolated, OwnFiles
  <2>2. ASSUME kernel' = kernel PROVE KernelKeeps
    BY <2>2 DEF KernelKeeps
  <2>3. ASSUME NEW k, k \notin DOMAIN kernel, NEW d, kernel' = Insert(kernel, k, d) PROVE KernelKeeps
    BY <2>3 DEF KernelKeeps, Insert
  <2>4. ASSUME NEW S, kernel' = Without(kernel, S) PROVE KernelKeeps
    BY <2>4 DEF KernelKeeps, Without
  <2>5. ASSUME NEW src, CanInstall(src), NEW S, kernel' = Install(src) \/ kernel' = Without(Install(src), S)
        PROVE  KernelKeeps
    <3>1. \A k \in DOMAIN kernel \ 0..2 : Install(src)[k] = kernel[k]
      BY <2>5, InstallFacts, StateFacts
    <3>2. \A k \in DOMAIN kernel' : kernel'[k] = Install(src)[k]
      BY <2>5 DEF Without
    <3> QED BY <3>1, <3>2 DEF KernelKeeps
  <2>6. FreeKfds(kernel) # {} => LowestKfd(kernel) \notin DOMAIN kernel
    BY StateFacts, LowestFree
  <2>7. KernelKeeps
    <3>1. CASE UNCHANGED vars
      BY <2>2, <3>1 DEF vars
    <3>2. CASE HostOpen \/ \E cloexec \in BOOLEAN : Open(cloexec)
      BY <2>3, <2>6, <3>2 DEF HostOpen, Open
    <3>3. ASSUME NEW p, Resume(p) PROVE KernelKeeps
      BY <2>2, <2>5, <3>3 DEF Resume
    <3>4. ASSUME NEW exits, EndSlice(exits) PROVE KernelKeeps
      <4>1. CASE swapped /\ ~CanInstall(saved_fds)
        BY <2>2, <3>4, <4>1 DEF EndSlice
      <4>2. CASE swapped /\ CanInstall(saved_fds)
        <5>1. \E S : kernel' = Without(Install(saved_fds), S)
          BY <3>4, <4>2 DEF EndSlice
        <5> QED BY <2>5, <4>2, <5>1
      <4>3. CASE ~swapped
        <5>1. \E S : kernel' = Without(kernel, S)
          BY <3>4, <4>3 DEF EndSlice
        <5> QED BY <2>4, <5>1
      <4> QED BY <4>1, <4>2, <4>3
    <3>5. ASSUME NEW fd, Dup(fd) PROVE KernelKeeps
      <4>1. kernel' = kernel \/ (FreeKfds(kernel) # {} /\ \E d : kernel' = Insert(kernel, LowestKfd(kernel), d))
        BY <3>5 DEF Dup
      <4> QED BY <2>2, <2>3, <2>6, <4>1
    <3>6. ASSUME NEW fd, Close(fd) \/ FfiClose(fd) PROVE KernelKeeps
      <4>1. \E S : kernel' = Without(kernel, S)
        BY <3>6 DEF Close, FfiClose, CloseEntry, RealClose
      <4> QED BY <2>4, <4>1
    <3>7. (\E k \in DOMAIN host : CreateProcess(k)) \/ Spawn \/ FfiPipe \/ FfiFork
             \/ (\E f \in FdsInUse : FfiDup(f)) \/ (\E f, g \in FdsInUse : FfiDup2(f, g)) => KernelKeeps
      BY <2>2 DEF CreateProcess, Spawn, FfiPipe, FfiFork, FfiDup, FfiDup2
    <3>8. ~Pipe /\ ~Execve /\ \A f, g : ~Dup2(f, g)
      BY <2>1 DEF Pipe, Execve, Dup2, Running
    <3> QED BY <3>1, <3>2, <3>3, <3>4, <3>5, <3>6, <3>7, <3>8 DEF Next, Act
  <2>8. filerefs' = filerefs \/ \E x : filerefs' = Append(filerefs, x)
    <3>1. ASSUME NEW fd, Close(fd) \/ FfiClose(fd) \/ Dup(fd) \/ FfiDup(fd) \/ \E g : Dup2(fd, g) \/ FfiDup2(fd, g)
          PROVE  filerefs' = filerefs \/ \E x : filerefs' = Append(filerefs, x)
      BY <3>1 DEF Close, FfiClose, Dup, FfiDup, Dup2, FfiDup2, NewFileRef
    <3>2. ASSUME NEW cloexec, Open(cloexec) PROVE \E x : filerefs' = Append(filerefs, x)
      BY <3>2 DEF Open, NewFileRef
    <3>3. HostOpen \/ Spawn \/ (\E k \in DOMAIN host : CreateProcess(k)) \/ (\E p \in live : Resume(p))
             \/ (\E exits \in BOOLEAN : EndSlice(exits)) \/ Pipe \/ FfiPipe \/ FfiFork \/ Execve
             \/ UNCHANGED vars => filerefs' = filerefs
      BY DEF HostOpen, Spawn, CreateProcess, Resume, EndSlice, Pipe, FfiPipe, FfiFork, Execve, vars
    <3> QED BY <3>1, <3>2, <3>3 DEF Next, Act
  <2>9. \A r \in 1..Len(filerefs) : filerefs'[r] = filerefs[r]
    <3>1. filerefs \in Seq(FileRef)
      BY StateFacts
    <3>2. ASSUME NEW x, filerefs' = Append(filerefs, x) PROVE \A r \in 1..Len(filerefs) : filerefs'[r] = filerefs[r]
      BY <3>1, <3>2
    <3> QED BY <2>8, <3>2
  <2> QED BY <2>7, <2>9
\* A table reaches what it did while the kernel keeps what it uses.
<1>SameView.
    ASSUME NEW t, Backed(t, Len(filerefs), Len(closed)), KernelKeeps,
           \A r \in 1..Len(filerefs) : filerefs'[r] = filerefs[r],
           Uses(filerefs, t) \subseteq DOMAIN kernel \ 0..5, Uses(filerefs', t) \subseteq DOMAIN kernel'
    PROVE  View(filerefs', kernel', t) = View(filerefs, kernel, t)
  <2> USE <1>SameView
  <2>1. PICK G, J, F, K, nf, nc : G = filerefs' /\ J = kernel' /\ F = filerefs /\ K = kernel
                                  /\ nf = Len(filerefs) /\ nc = Len(closed)
    OBVIOUS
  <2>2. Backed(t, nf, nc) /\ \A r \in 1..nf : G[r] = F[r]
    BY <2>1
  <2>3. /\ \A fd \in DOMAIN t.fds :
              ~IsPipe(t.fds[fd]) => KernelFd(G, t.fds[fd]) = KernelFd(F, t.fds[fd])
        /\ Uses(G, t) = Uses(F, t)
    <3>1. Uses(G, t) = Uses(F, t)
      BY <2>2, KernelFdFrame
    <3>2. ASSUME NEW fd \in DOMAIN t.fds, ~IsPipe(t.fds[fd])
          PROVE  KernelFd(G, t.fds[fd]) = KernelFd(F, t.fds[fd])
      <4>1. IsEntry(t.fds[fd], nf, nc)
        BY <2>2 DEF Backed
      <4>2. t.fds[fd].kind = "Real" \/ t.fds[fd].id \in 1..nf
        BY <3>2, <4>1, EntryKinds
      <4> QED BY <2>2, <4>2 DEF KernelFd
    <3> QED BY <3>1, <3>2
  <2>4. \A k \in Uses(F, t) : k \in DOMAIN K /\ k \in DOMAIN J /\ J[k] = K[k]
    BY <2>1, <2>3 DEF KernelKeeps
  <2>5. ASSUME NEW fd \in DOMAIN t.fds PROVE Reached(G, J, t.fds[fd]) = Reached(F, K, t.fds[fd])
    <3>1. CASE IsPipe(t.fds[fd])
      BY <3>1 DEF Reached
    <3>2. CASE ~IsPipe(t.fds[fd])
      <4>1. KernelFd(G, t.fds[fd]) = KernelFd(F, t.fds[fd])
        BY <2>3, <3>2
      <4>2. KernelFd(F, t.fds[fd]) \in Uses(F, t)
        BY <3>2, UsesDef
      <4> QED BY <2>4, <3>2, <4>1, <4>2 DEF Reached
    <3> QED BY <3>1, <3>2
  <2>6. View(G, J, t) = View(F, K, t)
    BY <2>5 DEF View
  <2> QED BY <2>1, <2>6
\* What a step that maps to one of process p has to show: the tables of the
\* others stay.
<1>OthersKeep.
    ASSUME TableInv, OwnInv, OwnInv', Isolated, Isolated', [Next]_vars, NEW p,
           \A q \in DOMAIN tables \ {p} : q \in DOMAIN tables' /\ tables'[q] = tables[q]
    PROVE  /\ DOMAIN OpenFiles = DOMAIN tables /\ DOMAIN OpenFiles' = DOMAIN tables'
           /\ \A q \in DOMAIN tables : OpenFiles[q] = View(filerefs, kernel, tables[q])
           /\ \A q \in DOMAIN tables' : OpenFiles'[q] = View(filerefs', kernel', tables'[q])
           /\ \A q \in DOMAIN tables :
                Uses(filerefs', tables[q]) \subseteq DOMAIN kernel' =>
                    View(filerefs', kernel', tables[q]) = View(filerefs, kernel, tables[q])
           /\ Posix!Others(p)
  <2> USE <1>OthersKeep
  <2>1. KernelKeeps /\ \A r \in 1..Len(filerefs) : filerefs'[r] = filerefs[r]
    BY <1>KernelStep
  <2>2. \A q \in DOMAIN tables : /\ Uses(filerefs, tables[q]) \subseteq DOMAIN kernel \ 0..5
                                 /\ Backed(tables[q], Len(filerefs), Len(closed))
    BY OwnFacts, StateFacts DEF Isolated
  <2>3. Own(tables', filerefs', kernel', host', lent', knums')
    BY DEF OwnInv, Isolated
  <2>4. \A q \in DOMAIN tables' : Uses(filerefs', tables'[q]) \subseteq DOMAIN kernel'
    BY <2>3, SoundUses DEF Own
  <2>5. ASSUME NEW q \in DOMAIN tables, Uses(filerefs', tables[q]) \subseteq DOMAIN kernel'
        PROVE  View(filerefs', kernel', tables[q]) = View(filerefs, kernel, tables[q])
    BY <2>1, <2>2, <2>5, <1>SameView
  <2>6. /\ DOMAIN OpenFiles = DOMAIN tables /\ DOMAIN OpenFiles' = DOMAIN tables'
        /\ \A q \in DOMAIN tables : OpenFiles[q] = View(filerefs, kernel, tables[q])
        /\ \A q \in DOMAIN tables' : OpenFiles'[q] = View(filerefs', kernel', tables'[q])
    BY <1>OpenFilesAre
  <2>7. \A q \in DOMAIN tables \ {p} : q \in DOMAIN OpenFiles' /\ OpenFiles'[q] = OpenFiles[q]
    BY <2>4, <2>5, <2>6
  <2> QED BY <2>5, <2>6, <2>7 DEF Posix!Others
\* A step that leaves the entries alone changes nothing that PosixFds sees.
<1>PosixStutter.
    ASSUME PosixStep, DOMAIN tables' = DOMAIN tables,
           \A q \in DOMAIN tables : tables'[q].fds = tables[q].fds
    PROVE  OpenFiles' = OpenFiles
  <2> USE <1>PosixStutter
  <2>1. /\ \A q \in DOMAIN tables \ DOMAIN tables : q \in DOMAIN tables' /\ tables'[q] = tables[q]
        /\ TableInv /\ OwnInv /\ OwnInv' /\ Isolated /\ Isolated' /\ [Next]_vars
    BY DEF PosixStep
  <2>2. KernelKeeps /\ \A r \in 1..Len(filerefs) : filerefs'[r] = filerefs[r]
    BY <2>1, <1>KernelStep
  <2>3. Own(tables', filerefs', kernel', host', lent', knums')
    BY <2>1 DEF OwnInv, Isolated
  <2>4. ASSUME NEW q \in DOMAIN tables
        PROVE  View(filerefs', kernel', tables'[q]) = View(filerefs, kernel, tables[q])
    <3> DEFINE t == tables[q]
    <3>1. Uses(filerefs', tables'[q]) \subseteq DOMAIN kernel'
      BY <2>3, SoundUses DEF Own
    <3>2. Uses(filerefs', tables'[q]) = Uses(filerefs', t) /\ View(filerefs', kernel', tables'[q]) = View(filerefs', kernel', t)
      <4>1. PICK s, G, J : s = tables'[q] /\ G = filerefs' /\ J = kernel'
        OBVIOUS
      <4>2. s.fds = t.fds
        BY <4>1
      <4>3. Uses(G, s) = Uses(G, t) /\ View(G, J, s) = View(G, J, t)
        BY <4>2 DEF Uses, KernelEntries, View
      <4> QED BY <4>1, <4>3
    <3>3. Uses(filerefs, t) \subseteq DOMAIN kernel \ 0..5 /\ Backed(t, Len(filerefs), Len(closed))
      BY <2>1, OwnFacts, StateFacts DEF Isolated
    <3>4. View(filerefs', kernel', t) = View(filerefs, kernel, t)
      BY <2>2, <3>1, <3>2, <3>3, <1>SameView
    <3> QED BY <3>2, <3>4
  <2>5. /\ OpenFiles = [p \in DOMAIN tables |-> View(filerefs, kernel, tables[p])]
        /\ OpenFiles' = [p \in DOMAIN tables' |-> View(filerefs', kernel', tables'[p])]
    BY <2>1, <1>OpenFilesAre
  <2> QED BY <2>4, <2>5
\* open, dup, vproc_ffi_dup.
<1>PosixGain.
    ASSUME PosixStep, current # 0, NEW u, tables' = Insert(tables, current, u),
           NEW n \in Fds \ DOMAIN tables[current].fds, NEW v, ~IsPipe(v),
           u.fds = Insert(tables[current].fds, n, v)
    PROVE  Posix!Gain(current)
  <2> USE <1>PosixGain
  <2> DEFINE t == tables[current]
             w == View(filerefs, kernel, t)
             obj == Reached(filerefs', kernel', v)
  <2>1. TableInv /\ TableInv' /\ OwnInv /\ OwnInv' /\ Isolated /\ Isolated' /\ OwnFiles /\ [Next]_vars
    BY DEF PosixStep, Isolated
  <2>2. current \in DOMAIN tables
    BY <2>1, OwnFacts
  <2>3. /\ DOMAIN tables' = DOMAIN tables /\ tables'[current] = u
        /\ \A q \in DOMAIN tables \ {current} : q \in DOMAIN tables' /\ tables'[q] = tables[q]
    BY <2>2 DEF Insert
  <2>4. /\ DOMAIN OpenFiles = DOMAIN tables /\ DOMAIN OpenFiles' = DOMAIN tables'
        /\ OpenFiles[current] = w /\ OpenFiles'[current] = View(filerefs', kernel', u)
        /\ Uses(filerefs', t) \subseteq DOMAIN kernel' => View(filerefs', kernel', t) = w
        /\ Posix!Others(current)
    BY <2>1, <2>2, <2>3, <1>OthersKeep
  <2>5. Uses(filerefs', u) \subseteq DOMAIN kernel'
    <3>1. Own(tables', filerefs', kernel', host', lent', knums')
      BY <2>1 DEF OwnInv, Isolated
    <3>2. Sound(filerefs', kernel', host', lent', u)
      BY <2>2, <2>3, <3>1 DEF Own
    <3>3. Uses(filerefs', u) \subseteq DOMAIN kernel' \ 0..5
      BY <3>2, SoundUses
    <3> QED BY <3>3
  <2>6. /\ DOMAIN u.fds = DOMAIN t.fds \cup {n} /\ u.fds[n] = v
        /\ \A fd \in DOMAIN t.fds : u.fds[fd] = t.fds[fd]
    BY DEF Insert
  <2>7. Uses(filerefs', t) \subseteq Uses(filerefs', u)
    BY <2>6 DEF Uses, KernelEntries
  <2>8. View(filerefs', kernel', t) = w
    BY <2>4, <2>5, <2>7
  <2>9. obj \in [kind : {"Desc"}, id : 0..OpenLimit]
    <3>1. KernelFd(filerefs', v) \in DOMAIN kernel'
      BY <2>5, <2>6, UsesDef
    <3>2. IsMap(kernel', Kfds, 0..OpenLimit)
      BY <2>1 DEF TableInv, TypeOK
    <3>3. kernel'[KernelFd(filerefs', v)] \in 0..OpenLimit
      BY <3>1, <3>2 DEF IsMap
    <3> QED BY <3>1, <3>3 DEF Reached
  <2>10. View(filerefs', kernel', u) = [f \in DOMAIN w \cup {n} |-> IF f = n THEN obj ELSE w[f]]
    <3>1. DOMAIN w = DOMAIN t.fds /\ \A f \in DOMAIN t.fds : w[f] = Reached(filerefs', kernel', t.fds[f])
      BY <2>8 DEF View
    <3> HIDE DEF w, obj
    <3>2. View(filerefs', kernel', u) = [f \in DOMAIN u.fds |-> Reached(filerefs', kernel', u.fds[f])]
      BY DEF View
    <3>3. \A f \in DOMAIN u.fds : Reached(filerefs', kernel', u.fds[f]) = IF f = n THEN obj ELSE w[f]
      BY <2>6, <3>1 DEF obj
    <3> QED BY <2>6, <3>1, <3>2, <3>3
  <2>11. n \in Fds \ DOMAIN w
    BY DEF View
  <2> HIDE DEF w, obj
  <2> QED BY <2>2, <2>3, <2>4, <2>9, <2>10, <2>11 DEF Posix!Gain
\* close, vproc_ffi_close.
<1>PosixClose.
    ASSUME PosixStep, current # 0, NEW fd, InTable(fd), CloseEntry(fd), UNCHANGED filerefs
    PROVE  Posix!Close(current)
  <2> USE <1>PosixClose
  <2> DEFINE t == tables[current]
             c == CloseFd(t, fd)
             w == View(filerefs, kernel, t)
  <2>1. TableInv /\ TableInv' /\ OwnInv /\ OwnInv' /\ Isolated /\ Isolated' /\ OwnFiles /\ [Next]_vars
    BY DEF PosixStep, Isolated
  <2>2. /\ current \in DOMAIN tables /\ tables' = Insert(tables, current, c) /\ fd \in DOMAIN t.fds
        /\ Uses(filerefs, t) \subseteq DOMAIN kernel \ 0..5 /\ Backed(t, Len(filerefs), Len(closed)) /\ IsTable(t)
    BY <2>1, OwnFacts, StateFacts DEF InTable, CloseEntry
  <2>3. /\ DOMAIN tables' = DOMAIN tables /\ tables'[current] = c
        /\ \A q \in DOMAIN tables \ {current} : q \in DOMAIN tables' /\ tables'[q] = tables[q]
    BY <2>2 DEF Insert
  <2>4. /\ DOMAIN OpenFiles = DOMAIN tables /\ DOMAIN OpenFiles' = DOMAIN tables'
        /\ OpenFiles[current] = w /\ OpenFiles'[current] = View(filerefs', kernel', c)
        /\ Posix!Others(current)
    BY <2>1, <2>2, <2>3, <1>OthersKeep
  <2>5. Uses(filerefs, c) \subseteq DOMAIN kernel'
    <3>1. Own(tables', filerefs', kernel', host', lent', knums')
      BY <2>1 DEF OwnInv, Isolated
    <3>2. current \in DOMAIN tables' /\ tables'[current] = c
      BY <2>2, <2>3
    <3> HIDE DEF c
    <3>3. Sound(filerefs', kernel', host', lent', c)
      BY <3>1, <3>2 DEF Own
    <3>4. Uses(filerefs', c) \subseteq DOMAIN kernel' \ 0..5
      BY <3>3, SoundUses
    <3> QED BY <3>4
  <2>6. DOMAIN c.fds = DOMAIN t.fds \ {fd} /\ \A j \in DOMAIN t.fds \ {fd} : c.fds[j] = t.fds[j]
    BY <2>2, CloseEntries
  <2>7. Uses(filerefs, c) \subseteq Uses(filerefs, t)
    BY <2>6 DEF Uses, KernelEntries
  <2>8. Backed(c, Len(filerefs), Len(closed)) /\ Uses(filerefs, c) \subseteq DOMAIN kernel \ 0..5
    BY <2>2, <2>7, CloseBacked
  <2>9. KernelKeeps /\ \A r \in 1..Len(filerefs) : filerefs'[r] = filerefs[r]
    BY <2>1, <1>KernelStep
  <2> HIDE DEF c
  <2>10. View(filerefs', kernel', c) = View(filerefs, kernel, c)
    BY <2>5, <2>8, <2>9, <1>SameView
  <2>11. /\ DOMAIN w = DOMAIN t.fds
         /\ View(filerefs, kernel, c) = [f \in DOMAIN w \ {fd} |-> w[f]]
    BY <2>6 DEF View
  <2> HIDE DEF w, t
  <2>12. /\ fd \in DOMAIN w /\ OpenFiles[current] = w
         /\ OpenFiles'[current] = [f \in DOMAIN w \ {fd} |-> w[f]]
    BY <2>2, <2>4, <2>10, <2>11
  <2>13. \E j \in DOMAIN OpenFiles[current] :
            OpenFiles'[current] = [f \in DOMAIN OpenFiles[current] \ {j} |-> OpenFiles[current][f]]
    BY <2>12
  <2> QED BY <2>2, <2>3, <2>4, <2>13 DEF Posix!Close
\* Every step of an isolated scenario is a step of PosixFds or changes nothing
\* it can see.
<1>IsolatedStep.
    ASSUME PosixStep
    PROVE  Posix!Next \/ OpenFiles' = OpenFiles
  <2> USE <1>IsolatedStep
  <2>1. /\ TableInv /\ TableInv' /\ OwnInv /\ OwnInv' /\ Isolated /\ Isolated' /\ OwnFiles /\ [Next]_vars
        /\ "pipe" \notin Calls /\ "ffi_pipe" \notin Calls /\ "ffi_dup2" \notin Calls
        /\ "spawn" \notin Calls /\ "dup2" \notin Calls /\ "ffi_fork" \notin Calls /\ "execve" \notin Calls
        /\ \A p \in DOMAIN tables : Below(tables[p]) /\ Plain(tables[p])
    BY DEF PosixStep, Isolated, OwnFiles, AllocInv, SliceInv
  <2>2. /\ live = DOMAIN tables /\ DOMAIN tables \subseteq Pids
        /\ current # 0 => current \in DOMAIN tables /\ current \in Pids
    BY <2>1, OwnFacts, StateFacts
  <2>3. ASSUME UNCHANGED tables PROVE OpenFiles' = OpenFiles
    BY <2>3, <1>PosixStutter
  <2>4. ASSUME NEW k \in DOMAIN host, CreateProcess(k) PROVE Posix!Next
    <3>1. tables' = Insert(tables, next_pid, NewTable(k, k, k)) /\ next_pid <= scenario.pids
      BY <2>4 DEF CreateProcess
    <3>2. next_pid \notin DOMAIN tables /\ next_pid \in Pids
      <4>1. next_pid \in 1..(PidLimit + 1) /\ scenario.pids \in 0..PidLimit /\ PidLimit \in Nat
        BY <2>1, StateFacts, ScenarioFacts
      <4>2. next_pid \in Pids
        BY <3>1, <4>1 DEF Pids
      <4> QED BY <2>1, <4>2, StateFacts
    <3>3. /\ DOMAIN tables' = DOMAIN tables \cup {next_pid}
          /\ \A q \in DOMAIN tables \ {next_pid} : q \in DOMAIN tables' /\ tables'[q] = tables[q]
      BY <3>1, <3>2 DEF Insert
    <3>4. /\ DOMAIN OpenFiles = DOMAIN tables /\ DOMAIN OpenFiles' = DOMAIN tables'
          /\ Posix!Others(next_pid)
      BY <2>1, <3>3, <1>OthersKeep
    <3>5. Posix!Start(next_pid)
      BY <3>2, <3>3, <3>4 DEF Posix!Start
    <3> QED BY <3>2, <3>5 DEF Posix!Next
  <2>5. ASSUME NEW exits \in BOOLEAN, EndSlice(exits) PROVE Posix!Next \/ OpenFiles' = OpenFiles
    <3>1. tables' = IF exits THEN Without(tables, {current}) ELSE tables
      BY <2>1, <2>5, EndSliceOwn
    <3>2. current \in DOMAIN tables /\ current \in Pids
      BY <2>2, <2>5 DEF EndSlice
    <3>3. CASE exits
      <4>1. /\ DOMAIN tables' = DOMAIN tables \ {current}
            /\ \A q \in DOMAIN tables \ {current} : q \in DOMAIN tables' /\ tables'[q] = tables[q]
        BY <3>1, <3>3 DEF Without
      <4>2. /\ DOMAIN OpenFiles = DOMAIN tables /\ DOMAIN OpenFiles' = DOMAIN tables'
            /\ Posix!Others(current)
        BY <2>1, <4>1, <1>OthersKeep
      <4>3. Posix!Exit(current)
        BY <3>2, <4>1, <4>2 DEF Posix!Exit
      <4> QED BY <3>2, <4>3 DEF Posix!Next
    <3>4. CASE ~exits
      BY <2>3, <3>1, <3>4
    <3> QED BY <3>3, <3>4
  <2>6. ASSUME current # 0, Room(tables[current]),
               tables' = Insert(tables, current, InsertVfd(tables[current], File(NextRef)))
        PROVE  Posix!Next
    <3> DEFINE t == tables[current]
    <3>1. IsTable(t) /\ Below(t) /\ t.next_fd + 1 < FdLimit /\ t.next_fd \in Fds
      BY <2>1, <2>2, <2>6, StateFacts, RoomFacts, AllocFacts
    <3>2. File(NextRef) \in Vfd /\ ~IsPipe(File(NextRef))
      BY <2>1, StateFacts DEF File, Vfd, NextRef, IsPipe
    <3>3. /\ InsertVfd(t, File(NextRef)).fds = Insert(t.fds, t.next_fd, File(NextRef))
          /\ t.next_fd \notin DOMAIN t.fds
      BY <3>1, <3>2, InsertVfdFacts, InsertBelow
    <3>4. Posix!Gain(current)
      BY <2>6, <3>1, <3>2, <3>3, <1>PosixGain
    <3> QED BY <2>2, <2>6, <3>4 DEF Posix!Next
  <2>7. ASSUME NEW f, current # 0, Room(tables[current]), tables' = Insert(tables, current, DupFd(tables[current], f))
        PROVE  Posix!Next \/ OpenFiles' = OpenFiles
    <3> DEFINE t == tables[current]
               u == DupFd(t, f)
    <3>1. /\ IsTable(t) /\ Below(t) /\ t.next_fd + 1 < FdLimit /\ t.next_fd \in Fds
          /\ Plain(t) /\ current \in DOMAIN tables
      BY <2>1, <2>2, <2>7, StateFacts, RoomFacts, AllocFacts
    <3>2. /\ t.next_fd \notin DOMAIN t.fds
          /\ f \notin DOMAIN t.fds => u.fds = t.fds
          /\ f \in DOMAIN t.fds => u.fds = Insert(t.fds, t.next_fd, t.fds[f])
      BY <3>1, DupBelow
    <3>3. CASE f \in DOMAIN t.fds
      <4>1. ~IsPipe(t.fds[f])
        BY <3>1, <3>3 DEF Plain
      <4> HIDE DEF u
      <4>2. Posix!Gain(current)
        BY <2>7, <3>1, <3>2, <3>3, <4>1, <1>PosixGain DEF u
      <4> QED BY <2>2, <2>7, <4>2 DEF Posix!Next
    <3>4. CASE f \notin DOMAIN t.fds
      <4> HIDE DEF u
      <4>1. tables' = Insert(tables, current, u)
        BY <2>7 DEF u
      <4>2. DOMAIN tables' = DOMAIN tables /\ \A q \in DOMAIN tables : tables'[q].fds = tables[q].fds
        BY <3>1, <3>2, <3>4, <4>1 DEF Insert
      <4> QED BY <4>2, <1>PosixStutter
    <3> QED BY <3>3, <3>4
  <2>8. ASSUME NEW f, Dup(f) \/ FfiDup(f) PROVE Posix!Next \/ OpenFiles' = OpenFiles
    <3>1. /\ current # 0 /\ Room(tables[current])
          /\ \/ tables' = Insert(tables, current, InsertVfd(tables[current], File(NextRef)))
             \/ tables' = Insert(tables, current, DupFd(tables[current], f))
      BY <2>8 DEF Dup, FfiDup, Running
    <3> QED BY <2>6, <2>7, <3>1
  <2>9. ASSUME NEW cloexec, Open(cloexec) PROVE Posix!Next
    <3>1. /\ current # 0 /\ Room(tables[current])
          /\ tables' = Insert(tables, current, InsertVfd(tables[current], File(NextRef)))
      BY <2>2, <2>9 DEF Open, Running, GetOrCreate
    <3> QED BY <2>6, <3>1
  <2>10. ASSUME NEW fd, Close(fd) \/ FfiClose(fd) PROVE Posix!Next \/ OpenFiles' = OpenFiles
    <3>1. UNCHANGED filerefs /\ current # 0
      BY <2>10 DEF Close, FfiClose, Running
    <3>2. CASE InTable(fd) /\ CloseEntry(fd)
      <4>1. Posix!Close(current)
        BY <3>1, <3>2, <1>PosixClose
      <4> QED BY <2>2, <3>1, <4>1 DEF Posix!Next
    <3>3. CASE UNCHANGED tables
      BY <2>3, <3>3
    <3> QED BY <2>10, <3>2, <3>3 DEF Close, FfiClose
  <2>11. HostOpen \/ (\E p \in live : Resume(p)) \/ UNCHANGED vars => UNCHANGED tables
    BY DEF HostOpen, Resume, vars
  <2>12. /\ ~Spawn /\ ~Pipe /\ ~FfiPipe /\ ~FfiFork /\ ~Execve
         /\ \A f, g : ~Dup2(f, g) /\ ~FfiDup2(f, g)
    BY <2>1 DEF Spawn, Pipe, FfiPipe, FfiFork, Execve, Dup2, FfiDup2, Running
  <2>13. Act \/ UNCHANGED vars
    BY <2>1 DEF Next
  <2> QED BY <2>3, <2>4, <2>5, <2>8, <2>9, <2>10, <2>11, <2>12, <2>13 DEF Act
<1>1. Init => Posix!Init
  <2> SUFFICES ASSUME Init PROVE OpenFiles = << >>
    BY DEF Posix!Init
  <2>1. DOMAIN tables = {}
    BY DEF Init
  <2> QED BY <2>1 DEF OpenFiles
<1>2. TableInv /\ TableInv' /\ AllocInv /\ OwnInv /\ OwnInv' /\ SliceInv /\ [Next]_vars
         => [Posix!Next]_OpenFiles
  <2> SUFFICES ASSUME TableInv, TableInv', AllocInv, OwnInv, OwnInv', SliceInv, [Next]_vars
               PROVE  Posix!Next \/ OpenFiles' = OpenFiles
    OBVIOUS
  <2>1. Isolated' = Isolated
    BY DEF Next, vars, Isolated, OwnFiles, Calls, SharedTerminal
  <2>2. CASE Isolated
    BY <2>1, <2>2, <1>IsolatedStep DEF PosixStep
  <2>3. CASE ~Isolated
    BY <2>1, <2>3 DEF OpenFiles
  <2> QED BY <2>2, <2>3
<1> QED BY <1>1, <1>2, SliceInvariant, PTL DEF Spec, ImplementsPosix, Posix!Spec
=============================================================================
