------------------------------ MODULE VfdTable ------------------------------
(***************************************************************************)
(* One virtual fd table (struct VfdTable of src/src/vfd.rs) as a value:    *)
(* what each method does to `fds' and `next_fd', and which pipe buffers it *)
(* marks closed on the way.  VfdTables puts the tables of all virtual      *)
(* processes over the kernel's fds.                                        *)
(*                                                                         *)
(* An entry is a record [kind, id].  `id' is the kernel fd of a "Real"     *)
(* entry and the identity of the Arc behind the others: two entries hold   *)
(* clones of one Arc iff they have the same kind of Arc and the same id.   *)
(***************************************************************************)
EXTENDS Integers, FiniteSets

CONSTANT FdLimit        \* bound: virtual fd numbers are below FdLimit

ASSUME FdLimitAssumption == FdLimit \in Nat /\ FdLimit > 3

Fds == 0..(FdLimit - 1)

Real(k) == [kind |-> "Real", id |-> k]
File(r) == [kind |-> "File", id |-> r]
PipeRead(b) == [kind |-> "PipeRead", id |-> b]
PipeWrite(b) == [kind |-> "PipeWrite", id |-> b]

Vfd == [kind : {"Real", "File", "PipeRead", "PipeWrite"}, id : Nat]

\* m is a map from some of the keys of K to values of V.
IsMap(m, K, V) == DOMAIN m \subseteq K /\ m \in [DOMAIN m -> V]

IsTable(t) ==
    /\ t = [fds |-> t.fds, next_fd |-> t.next_fd]
    /\ IsMap(t.fds, Fds, Vfd)
    /\ t.next_fd \in 3..FdLimit

\* The map m after m.insert(k, v), and without the keys of S.
Insert(m, k, v) == [j \in DOMAIN m \cup {k} |-> IF j = k THEN v ELSE m[j]]
Without(m, S) == [j \in DOMAIN m \ S |-> m[j]]

IsPipe(v) == v.kind \in {"PipeRead", "PipeWrite"}
IsFile(v) == v.kind = "File"

\* The buffers a table has an end of, and the FileRefs it has an entry for.
Pipes(t) == {t.fds[fd].id : fd \in {f \in DOMAIN t.fds : IsPipe(t.fds[f])}}
Files(t) == {t.fds[fd].id : fd \in {f \in DOMAIN t.fds : IsFile(t.fds[f])}}

-----------------------------------------------------------------------------
Stdio(stdin, stdout, stderr) ==
    [fd \in 0..2 |-> Real(IF fd = 0 THEN stdin ELSE IF fd = 1 THEN stdout ELSE stderr)]

\* VfdTable::new_with_fds; VfdTable::new is the case 0, 1, 2.
NewTable(stdin, stdout, stderr) ==
    [fds |-> Stdio(stdin, stdout, stderr), next_fd |-> 3]

\* The first number from n on that is not in S.
FirstUnused(S, n) ==
    CHOOSE m \in n..FdLimit : m \notin S /\ \A j \in n..(m - 1) : j \in S

\* The number alloc_fd returns: next_fd, whether it is in use or not ...
AllocFd(t) == t.next_fd

\* Mutant: next_fd is not moved on.
AllocForgets(t) == t

\* ... and the table after it: next_fd has moved on past the numbers in use.
AfterAlloc(t) ==
    [t EXCEPT !.next_fd = FirstUnused(DOMAIN t.fds, t.next_fd + 1)]

Put(t, fd, v) == [t EXCEPT !.fds = Insert(@, fd, v)]

\* insert and insert_file: an entry that was under the number is dropped.
InsertVfd(t, v) == Put(AfterAlloc(t), AllocFd(t), v)

\* close, on an entry of any kind.
CloseFd(t, fd) == [t EXCEPT !.fds = Without(@, {fd})]

\* Mutant: other entries of this table are not looked at.
ClosedByAnyEnd(t, fd) ==
    IF fd \in DOMAIN t.fds /\ IsPipe(t.fds[fd]) THEN {t.fds[fd].id} ELSE {}

\* The buffer that close(fd) marks closed: the entry was this table's last
\* one, of either end, for that buffer.
ClosedBy(t, fd) ==
    IF fd \in DOMAIN t.fds /\ IsPipe(t.fds[fd])
    THEN {t.fds[fd].id} \ Pipes(CloseFd(t, fd))
    ELSE {}

\* insert_at.
InsertAt(t, fd, v) ==
    [fds |-> Insert(CloseFd(t, fd).fds, fd, v),
     next_fd |-> IF fd >= t.next_fd THEN fd + 1 ELSE t.next_fd]

\* dup2: the entry of new_fd is closed first, also when it is old_fd itself.
\* next_fd stays.
Dup2Ok(t, old_fd, new_fd) == old_fd \in DOMAIN t.fds \ {new_fd}

Dup2Fd(t, old_fd, new_fd) ==
    IF Dup2Ok(t, old_fd, new_fd)
    THEN Put(CloseFd(t, new_fd), new_fd, t.fds[old_fd])
    ELSE CloseFd(t, new_fd)

\* dup: a number is used up even if old_fd is not there.
DupFd(t, old_fd) == Dup2Fd(AfterAlloc(t), old_fd, AllocFd(t))

\* create_pipe.
CreatePipe(t, b) == InsertVfd(InsertVfd(t, PipeRead(b)), PipeWrite(b))

\* close_file_fd: the FileRef whose kernel fd the caller is to close, if any.
Unreferenced(t, fd) == {t.fds[fd].id} \ Files(CloseFd(t, fd))

\* close_cloexec, for the FileRefs R that are marked close-on-exec.
CloseCloexec(t, R) ==
    [t EXCEPT !.fds = Without(@, {fd \in DOMAIN t.fds :
                                    IsFile(t.fds[fd]) /\ t.fds[fd].id \in R})]

\* get_real_fds_012 returns Some.
HasRealFds(t) == \A fd \in 0..2 : fd \in DOMAIN t.fds /\ ~IsPipe(t.fds[fd])
=============================================================================
