----------------------------- MODULE VfdTables ------------------------------
(***************************************************************************)
(* The fd tables of all virtual processes over the fds of the one kernel   *)
(* process they share: src/src/vfd.rs with its callers, the open, close,   *)
(* dup, dup2, pipe, fstat and lseek of src/src/preload.rs, the fd calls of *)
(* src/src/ffi.rs, the table inherited by fork and exec, the swap of fds   *)
(* 0-2 around a slice and the removal of a table when its process is       *)
(* reaped.                                                                 *)
(*                                                                         *)
(* The driver runs one virtual process at a time (`current'); only the     *)
(* host application, on threads of its own, opens fds at any moment.  The  *)
(* kernel's table maps fd numbers to open file descriptions, which are     *)
(* numbers here: Tty for what the host had on 0-2 when the session began,  *)
(* a new one for each file, pipe end or terminal opened later.             *)
(*                                                                         *)
(* All entry points together have too many behaviours, so a behaviour      *)
(* keeps to a scenario, which says what programs call (`Calls').  Programs *)
(* close only fds they hold.                                               *)
(***************************************************************************)
EXTENDS VfdTable, Sequences

CONSTANTS
    PidLimit,       \* bound: pids are handed out up to PidLimit
    KernelLimit,    \* bound: kernel fds are below KernelLimit
    OpenLimit,      \* bound: descriptions opened after the start
    RefLimit,       \* bound: FileRefs created, and virtual pipes
    Scenarios       \* what programs and host do in a behaviour: see Scenario

AllCalls == {"spawn", "open", "dup", "dup2", "close", "pipe",
             "execve", "ffi_pipe", "ffi_dup", "ffi_dup2", "ffi_close", "ffi_fork"}

\* The entry points programs use, whether the host gives one terminal to
\* several processes, and tighter bounds, `hosts' for how many descriptions
\* the host opens.
Scenario ==
    [calls : SUBSET AllCalls, shared : BOOLEAN, fds : 4..FdLimit, pids : 0..PidLimit,
     kfds : 7..KernelLimit, opens : 0..OpenLimit, hosts : 0..OpenLimit, refs : 0..RefLimit]

ASSUME VfdTablesAssumption ==
    /\ PidLimit \in Nat
    /\ KernelLimit \in Nat /\ KernelLimit > 6 /\ FdLimit <= KernelLimit
    /\ OpenLimit \in Nat /\ RefLimit \in Nat
    /\ Scenarios \subseteq Scenario

VARIABLES
    scenario,   \* the scenario of the behaviour
    tables,     \* FD_TABLES: pid -> table
    filerefs,   \* the FileRefs made so far, by identity of their Arc
    closed,     \* PipeBufferInner.closed, by identity of the Arc
    kernel,     \* the kernel's table: fd -> open file description
    host,       \* fds the host opened and owns: fd -> description
    lent,       \* the descriptions of the host that it has given to a process
    knums,      \* pid -> kernel fds it got from pipe and has not closed
    opened,     \* descriptions opened so far
    next_pid,   \* Executor.next_pid
    live,       \* pids of the coroutines that exist
    current,    \* Executor.current, 0 for None
    swapped,    \* fds_swapped of the running slice
    leaving,    \* execve has succeeded: the caller's next step is exit(0)
    aborted     \* raw_dup3 has failed and the driver has called abort()

vars == << scenario, tables, filerefs, closed, kernel, host, lent, knums, opened,
           next_pid, live, current, swapped, leaving, aborted >>

Calls == scenario.calls
SharedTerminal == scenario.shared

Tty == 0
Kfds == 0..(KernelLimit - 1)
KfdsInUse == 0..(scenario.kfds - 1)
FdsInUse == 0..(scenario.fds - 1)
Pids == 1..PidLimit

\* A FileRef.  `obj' is the description it was made for; the code has no
\* such field, it is there for the properties.
FileRef == [real_fd : Kfds, cloexec : BOOLEAN, obj : 0..OpenLimit]

TypeOK ==
    /\ scenario \in Scenarios
    /\ DOMAIN tables \subseteq Pids /\ \A p \in DOMAIN tables : IsTable(tables[p])
    /\ filerefs \in Seq(FileRef)
    /\ closed \in Seq(BOOLEAN)
    /\ IsMap(kernel, Kfds, 0..OpenLimit)
    /\ IsMap(host, Kfds, 0..OpenLimit) /\ lent \subseteq 0..OpenLimit
    /\ knums \in [Pids -> SUBSET Kfds]
    /\ opened \in 0..OpenLimit
    /\ next_pid \in 1..(PidLimit + 1)
    /\ live \subseteq 1..(next_pid - 1)
    /\ current \in live \cup {0}
    /\ swapped \in BOOLEAN /\ leaving \in BOOLEAN /\ aborted \in BOOLEAN

-----------------------------------------------------------------------------
\* The kernel hands out the lowest free number.
FreeKfds(K) == KfdsInUse \ DOMAIN K
LowestKfd(K) == CHOOSE k \in FreeKfds(K) : \A j \in FreeKfds(K) : k <= j

\* The kernel fd behind a Real or File entry.
RealFd(v) == IF v.kind = "Real" THEN v.id ELSE filerefs[v.id].real_fd

\* get_real_fds: the kernel fds under 0, 1 and 2.
RealFds(p) == [i \in 0..2 |-> RealFd(tables[p].fds[i])]

\* Arc::strong_count of FileRef r: a table entry holds one reference each.
StrongCount(T, r) ==
    Cardinality(UNION {{<<p, fd>> : fd \in {f \in DOMAIN T[p].fds : T[p].fds[f] = File(r)}}
                       : p \in DOMAIN T})

\* get_or_create_table.
GetOrCreate(p) == IF p \in DOMAIN tables THEN tables[p] ELSE NewTable(0, 1, 2)

\* close() on the buffers of B.
MarkClosed(B) == closed' = [b \in DOMAIN closed |-> closed[b] \/ b \in B]

RealClose(S) == kernel' = Without(kernel, S)

\* A table has room for one more number.
Room(t) == t.next_fd + 1 < scenario.fds

\* A new FileRef, appended.
NewFileRef(k, cloexec, obj) ==
    /\ Len(filerefs) < scenario.refs
    /\ filerefs' = Append(filerefs, [real_fd |-> k, cloexec |-> cloexec, obj |-> obj])

NextRef == Len(filerefs) + 1

Init ==
    /\ scenario \in Scenarios
    /\ tables = << >>
    /\ filerefs = << >>
    /\ closed = << >>
    /\ kernel = [k \in 0..5 |-> Tty]   \* 3-5 are the driver's saved_fds
    /\ host = << >> /\ lent = {}
    /\ knums = [p \in Pids |-> {}]
    /\ opened = 0
    /\ next_pid = 1
    /\ live = {}
    /\ current = 0
    /\ swapped = FALSE
    /\ leaving = FALSE
    /\ aborted = FALSE

schedVars == << next_pid, live, current, swapped, leaving, aborted >>
-----------------------------------------------------------------------------
(***************************************************************************)
(* The host and the driver.                                                *)
(***************************************************************************)
\* A thread of the host opens something, for instance a terminal.
HostOpen ==
    /\ ~aborted
    /\ Cardinality(DOMAIN host) < scenario.hosts /\ opened < scenario.opens
    /\ FreeKfds(kernel) # {}
    /\ LET k == LowestKfd(kernel) IN
         /\ kernel' = Insert(kernel, k, opened + 1)
         /\ host' = Insert(host, k, opened + 1)
    /\ opened' = opened + 1
    /\ UNCHANGED << tables, filerefs, closed, lent, knums >> /\ UNCHANGED schedVars

\* The driver starts a requested process: create_table_with_fds.
CreateProcess(k) ==
    /\ ~aborted /\ current = 0
    /\ next_pid <= scenario.pids
    /\ SharedTerminal \/ host[k] \notin lent
    /\ lent' = lent \cup {host[k]}
    /\ tables' = Insert(tables, next_pid, NewTable(k, k, k))
    /\ live' = live \cup {next_pid}
    /\ next_pid' = next_pid + 1
    /\ UNCHANGED << filerefs, closed, kernel, host, knums, opened, current,
                    swapped, leaving, aborted >>

\* Executor::spawn: a coroutine that has no table until it opens something.
Spawn ==
    /\ ~aborted /\ current = 0 /\ "spawn" \in Calls
    /\ next_pid <= scenario.pids
    /\ live' = live \cup {next_pid}
    /\ next_pid' = next_pid + 1
    /\ UNCHANGED << tables, filerefs, closed, kernel, host, lent, knums, opened,
                    current, swapped, leaving, aborted >>

\* raw_dup3(src[i], i) for i = 0, 1, 2 in turn; equal numbers are a no-op.
Dup3(K, s, i) == IF s = i THEN K ELSE Insert(K, i, K[s])
\* Mutant: fd 2 is forgotten.
InstallTwo(src) == Dup3(Dup3(kernel, src[0], 0), src[1], 1)
Install(src) == Dup3(Dup3(Dup3(kernel, src[0], 0), src[1], 1), src[2], 2)
CanDup3(K, s, i) == s = i \/ s \in DOMAIN K
CanInstall(src) ==
    LET K1 == Dup3(kernel, src[0], 0)
        K2 == Dup3(K1, src[1], 1)
    IN CanDup3(kernel, src[0], 0) /\ CanDup3(K1, src[1], 1) /\ CanDup3(K2, src[2], 2)

\* step_from_driver_with_fd_swap up to the switch.
Resume(p) ==
    /\ ~aborted /\ current = 0 /\ p \in live
    /\ LET swap == p \in DOMAIN tables /\ HasRealFds(tables[p]) IN
         IF swap /\ ~CanInstall(RealFds(p))
         THEN aborted' = TRUE /\ UNCHANGED << kernel, current, swapped >>
         ELSE /\ kernel' = IF swap THEN Install(RealFds(p)) ELSE kernel
              /\ swapped' = swap
              /\ current' = p
              /\ UNCHANGED aborted
    /\ UNCHANGED << tables, filerefs, closed, host, lent, knums, opened, next_pid,
                    live, leaving >>

saved_fds == [i \in 0..2 |-> 3 + i]

\* Mutant: only the Real entries are collected.
ReapedRealFds(p) ==
    {tables[p].fds[fd].id : fd \in {f \in DOMAIN tables[p].fds : tables[p].fds[f].kind = "Real"}}

\* remove_table_and_get_fds: the kernel fds that a reap closes.
ReapedFds(p) ==
    LET t == tables[p]
        ids(kind) == {t.fds[fd].id : fd \in {f \in DOMAIN t.fds : t.fds[f].kind = kind}}
    IN ids("Real") \cup {filerefs[r].real_fd : r \in {x \in ids("File") : StrongCount(tables, x) = 1}}

\* The slice ends: fds 0-2 are restored; if the process has exited
\* (vproc_exit_with_code), reap_done_coroutines removes it and its table.
EndSlice(exits) ==
    /\ ~aborted /\ current # 0
    /\ leaving => exits
    /\ current' = 0 /\ swapped' = FALSE /\ leaving' = FALSE
    /\ IF swapped /\ ~CanInstall(saved_fds)
       THEN aborted' = TRUE /\ UNCHANGED << tables, closed, kernel, knums, live >>
       ELSE LET restored == IF swapped THEN Install(saved_fds) ELSE kernel
                reaps == exits /\ current \in DOMAIN tables
            IN /\ kernel' = Without(restored, IF reaps THEN ReapedFds(current) ELSE {})
               /\ tables' = IF reaps THEN Without(tables, {current}) ELSE tables
               /\ MarkClosed(IF reaps THEN Pipes(tables[current]) ELSE {})
               /\ live' = IF exits THEN live \ {current} ELSE live
               /\ knums' = IF exits THEN [knums EXCEPT ![current] = {}] ELSE knums
               /\ UNCHANGED aborted
    /\ UNCHANGED << filerefs, host, lent, opened, next_pid >>
-----------------------------------------------------------------------------
(***************************************************************************)
(* Calls of the running process.                                           *)
(***************************************************************************)
Running(call) == ~aborted /\ current # 0 /\ ~leaving /\ call \in Calls

\* open, openat and creat: the kernel opens, the table gets a File entry.
Open(cloexec) ==
    /\ Running("open")
    /\ opened < scenario.opens /\ FreeKfds(kernel) # {}
    /\ LET k == LowestKfd(kernel)
           t == GetOrCreate(current)
       IN /\ Room(t)
          /\ kernel' = Insert(kernel, k, opened + 1)
          /\ NewFileRef(k, cloexec, opened + 1)
          /\ tables' = Insert(tables, current, InsertVfd(t, File(NextRef)))
    /\ opened' = opened + 1
    /\ UNCHANGED << closed, host, lent, knums >> /\ UNCHANGED schedVars

\* dup and dup2 find a kernel fd behind old_fd.  (For a process without a
\* table both are the kernel's own calls; programs do not make them here.)
Backs(t, old_fd) == old_fd \in DOMAIN t.fds /\ ~IsPipe(t.fds[old_fd])

\* Mutant: the new FileRef is made over the old kernel fd.
DupSharesFd(old_fd) ==
    /\ Running("dup") /\ current \in DOMAIN tables
    /\ LET t == tables[current] IN
         /\ Room(t) /\ Backs(t, old_fd) /\ RealFd(t.fds[old_fd]) \in DOMAIN kernel
         /\ NewFileRef(RealFd(t.fds[old_fd]), FALSE, kernel[RealFd(t.fds[old_fd])])
         /\ tables' = Insert(tables, current, InsertVfd(t, File(NextRef)))
    /\ UNCHANGED << kernel, closed, host, lent, knums, opened >> /\ UNCHANGED schedVars

\* dup.
Dup(old_fd) ==
    /\ Running("dup") /\ current \in DOMAIN tables
    /\ LET t == tables[current] IN
         /\ Room(t)
         /\ \/ /\ Backs(t, old_fd) /\ RealFd(t.fds[old_fd]) \in DOMAIN kernel
               /\ FreeKfds(kernel) # {}
               /\ LET k == LowestKfd(kernel)
                      d == kernel[RealFd(t.fds[old_fd])]
                  IN /\ kernel' = Insert(kernel, k, d)
                     /\ NewFileRef(k, FALSE, d)
                     /\ tables' = Insert(tables, current, InsertVfd(t, File(NextRef)))
               /\ UNCHANGED closed
            \/ /\ ~Backs(t, old_fd)
               /\ MarkClosed(ClosedBy(AfterAlloc(t), AllocFd(t)))
               /\ tables' = Insert(tables, current, DupFd(t, old_fd))
               /\ UNCHANGED << kernel, filerefs >>
    /\ UNCHANGED << host, lent, knums, opened >> /\ UNCHANGED schedVars

\* dup2: for a Real or File entry the kernel's dup2 runs first, onto the
\* kernel fd that has the same number as new_fd.
Dup2(old_fd, new_fd) ==
    /\ Running("dup2") /\ current \in DOMAIN tables
    /\ LET t == tables[current] IN
         \/ /\ Backs(t, old_fd) /\ RealFd(t.fds[old_fd]) \in DOMAIN kernel
            /\ LET d == kernel[RealFd(t.fds[old_fd])] IN
                 /\ kernel' = Insert(kernel, new_fd, d)
                 /\ NewFileRef(new_fd, FALSE, d)
            /\ MarkClosed(ClosedBy(t, new_fd))
            /\ tables' = Insert(tables, current, InsertAt(t, new_fd, File(NextRef)))
         \/ /\ ~Backs(t, old_fd)
            /\ MarkClosed(ClosedBy(t, new_fd))
            /\ tables' = Insert(tables, current, Dup2Fd(t, old_fd, new_fd))
            /\ UNCHANGED << kernel, filerefs >>
    /\ UNCHANGED << host, lent, knums, opened >> /\ UNCHANGED schedVars

\* vproc_ffi_close, and close for an entry of the table.
CloseEntry(fd) ==
    LET t == tables[current] IN
    /\ tables' = Insert(tables, current, CloseFd(t, fd))
    /\ MarkClosed(ClosedBy(t, fd))
    /\ RealClose(IF IsFile(t.fds[fd])
                 THEN {filerefs[r].real_fd : r \in Unreferenced(t, fd)} ELSE {})
    /\ UNCHANGED knums

InTable(fd) == current \in DOMAIN tables /\ fd \in DOMAIN tables[current].fds

\* close: a number that is not in the table goes to the kernel.
Close(fd) ==
    /\ \/ Running("close") /\ InTable(fd) /\ CloseEntry(fd)
       \/ /\ Running("close") /\ ~InTable(fd) /\ fd \in knums[current]
          /\ RealClose({fd})
          /\ knums' = [knums EXCEPT ![current] = @ \ {fd}]
          /\ UNCHANGED << tables, closed >>
    /\ UNCHANGED << filerefs, host, lent, opened >> /\ UNCHANGED schedVars

\* pipe and pipe2: two kernel fds that no table knows of.
Pipe ==
    /\ Running("pipe")
    /\ opened + 1 < scenario.opens /\ \E j, k \in FreeKfds(kernel) : j # k
    /\ LET r == LowestKfd(kernel)
           K == Insert(kernel, r, opened + 1)
           w == LowestKfd(K)
       IN /\ kernel' = Insert(K, w, opened + 2)
          /\ knums' = [knums EXCEPT ![current] = @ \cup {r, w}]
    /\ opened' = opened + 2
    /\ UNCHANGED << tables, filerefs, closed, host, lent >> /\ UNCHANGED schedVars

\* vproc_ffi_pipe.
FfiPipe ==
    /\ Running("ffi_pipe") /\ Len(closed) < scenario.refs
    /\ Room(GetOrCreate(current)) /\ Room(AfterAlloc(GetOrCreate(current)))
    /\ tables' = Insert(tables, current, CreatePipe(GetOrCreate(current), Len(closed) + 1))
    /\ closed' = Append(closed, FALSE)
    /\ UNCHANGED << filerefs, kernel, host, lent, knums, opened >> /\ UNCHANGED schedVars

\* vproc_ffi_dup.
FfiDup(old_fd) ==
    /\ Running("ffi_dup") /\ current \in DOMAIN tables
    /\ LET t == tables[current] IN
         /\ Room(t)
         /\ MarkClosed(ClosedBy(AfterAlloc(t), AllocFd(t)))
         /\ tables' = Insert(tables, current, DupFd(t, old_fd))
    /\ UNCHANGED << filerefs, kernel, host, lent, knums, opened >> /\ UNCHANGED schedVars

\* vproc_ffi_dup2.
FfiDup2(old_fd, new_fd) ==
    /\ Running("ffi_dup2") /\ current \in DOMAIN tables
    /\ MarkClosed(ClosedBy(tables[current], new_fd))
    /\ tables' = Insert(tables, current, Dup2Fd(tables[current], old_fd, new_fd))
    /\ UNCHANGED << filerefs, kernel, host, lent, knums, opened >> /\ UNCHANGED schedVars

FfiClose(fd) ==
    /\ Running("ffi_close") /\ InTable(fd) /\ CloseEntry(fd)
    /\ UNCHANGED << filerefs, host, lent, opened >> /\ UNCHANGED schedVars

\* fork_fd_table(current, child).
Forked == GetOrCreate(current)

\* vproc_ffi_fork: the child starts with a clone of the table.
FfiFork ==
    /\ Running("ffi_fork") /\ next_pid <= scenario.pids
    /\ tables' = Insert(tables, next_pid, Forked)
    /\ knums' = [knums EXCEPT ![next_pid] = knums[current]]
    /\ live' = live \cup {next_pid}
    /\ next_pid' = next_pid + 1
    /\ UNCHANGED << filerefs, closed, kernel, host, lent, opened, current,
                    swapped, leaving, aborted >>

\* execve through virtual_execve_via_entry: a new coroutine inherits the
\* table, less the entries marked close-on-exec; the caller goes on to exit.
Execve ==
    /\ Running("execve") /\ next_pid <= scenario.pids
    /\ LET R == {r \in Files(Forked) : filerefs[r].cloexec} IN
         /\ tables' = Insert(tables, next_pid, CloseCloexec(Forked, R))
         /\ RealClose({filerefs[r].real_fd : r \in R})
    /\ live' = live \cup {next_pid}
    /\ next_pid' = next_pid + 1
    /\ knums' = [knums EXCEPT ![next_pid] = knums[current]]
    /\ leaving' = TRUE
    /\ UNCHANGED << filerefs, closed, host, lent, opened, current, swapped, aborted >>

Act ==
    \/ HostOpen \/ Spawn
    \/ \E k \in DOMAIN host : CreateProcess(k)
    \/ \E p \in live : Resume(p)
    \/ \E exits \in BOOLEAN : EndSlice(exits)
    \/ \E cloexec \in (IF "execve" \in Calls THEN BOOLEAN ELSE {FALSE}) : Open(cloexec)
    \/ Pipe \/ FfiPipe \/ FfiFork \/ Execve
    \/ \E fd \in FdsInUse : Dup(fd) \/ FfiDup(fd) \/ FfiClose(fd)
    \/ \E fd \in KfdsInUse : Close(fd)
    \/ \E old_fd, new_fd \in FdsInUse :
          Dup2(old_fd, new_fd) \/ FfiDup2(old_fd, new_fd)

Next == Act /\ UNCHANGED scenario

Spec == Init /\ [][Next]_vars
-----------------------------------------------------------------------------
\* What entry v was made for: the host's description behind a terminal it
\* lent, the description of a FileRef.
MadeFor(v) ==
    IF IsFile(v) THEN filerefs[v.id].obj
    ELSE IF v.id \in DOMAIN host THEN host[v.id] ELSE Tty

\* The entry still reaches what it was made for.
Reaches(v) ==
    IsPipe(v) \/ (RealFd(v) \in DOMAIN kernel /\ kernel[RealFd(v)] = MadeFor(v))

Entries(T) == UNION {{<<p, fd>> : fd \in DOMAIN T[p].fds} : p \in DOMAIN T}
Entry(e) == tables[e[1]].fds[e[2]]

\* What a descriptor reaches now: a pipe end, an open description, nothing.
Object(v) ==
    IF IsPipe(v) THEN v
    ELSE [kind |-> "Desc",
          id |-> IF RealFd(v) \in DOMAIN kernel THEN kernel[RealFd(v)] ELSE OpenLimit + 1]

\* Every process has a terminal of its own and a table that only its own
\* calls fill, and nobody names a kernel fd by its number.
OwnFiles == ~SharedTerminal /\ Calls \cap {"spawn", "dup2", "ffi_fork", "execve"} = {}

\* Programs keep to opening, duplicating and closing.
Isolated == OwnFiles /\ Calls \cap {"pipe", "ffi_pipe", "ffi_dup2"} = {}

\* The private maps of PosixFds.
OpenFiles ==
    IF ~Isolated THEN << >>
    ELSE [p \in DOMAIN tables |-> [fd \in DOMAIN tables[p].fds |-> Object(tables[p].fds[fd])]]

Posix == INSTANCE PosixFds WITH
    Processes <- Pids, Descriptors <- Fds,
    Objects <- [kind : {"PipeRead", "PipeWrite"}, id : 1..RefLimit]
                  \cup [kind : {"Desc"}, id : 0..OpenLimit],
    fdmap <- OpenFiles

\* The tables over the shared kernel fds give every process a private map
\* from descriptors to open files, as long as programs keep to open, dup
\* and close and have a terminal of their own.
ImplementsPosix == Posix!Spec

\* Every entry of every table reaches the very file or terminal it was made
\* for, whatever the other processes have opened, closed or left since: a
\* kernel fd is closed only when the last entry for its FileRef goes
\* (vfd.rs:14), and a terminal that the host lent to a process stays open
\* (vfd.rs:409).  Without OwnFiles that is not so: close looks for other
\* entries in one table only, dup2 replaces any kernel fd of the same number,
\* and the reap of a process closes the terminal that others were given too
\* or inherited through exec, and 0-2 themselves after Executor::spawn, whose
\* numbers the kernel then gives to the next file.
EntriesReachable == OwnFiles => \A e \in Entries(tables) : Reaches(Entry(e))

\* Every kernel fd above the driver's own is some table's or the host's:
\* closing the last entry for it closes it, and so does reaping (vfd.rs:403).
\* Not so for fds of pipe(), which no table has, and for an entry that
\* vproc_ffi_dup or vproc_ffi_dup2 has copied within a table or dropped.
NoKernelFdLeaks ==
    Calls \cap {"pipe", "dup2", "ffi_dup", "ffi_dup2"} = {} =>
        \A k \in DOMAIN kernel :
            \/ k <= 5 \/ k \in DOMAIN host
            \/ \E e \in Entries(tables) : ~IsPipe(Entry(e)) /\ RealFd(Entry(e)) = k

\* While a process runs with its fds swapped in, the kernel's 0, 1 and 2 are
\* what its table says they are (executor.rs:443), so that a child of a real
\* fork inherits the right ones.
SliceHasOwnFds ==
    Isolated /\ current # 0 /\ swapped =>
        \A i \in 0..2 \cap DOMAIN tables[current].fds :
            ~IsPipe(tables[current].fds[i]) =>
                i \in DOMAIN kernel /\ kernel[i] = MadeFor(tables[current].fds[i])

GivesUp(p, b) ==
    /\ b \in Pipes(tables[p])
    /\ p \notin DOMAIN tables' \/ b \notin Pipes(tables'[p])

\* A buffer closes exactly when a process gives up the last end it has, by
\* close, dup2 or exit: whoever waits at the other end finds out (vfd.rs:219),
\* and a process that closes one of several dups, or the end it does not use,
\* does not cut itself off.  (After a dup2 of a pipe end onto next_fd the next
\* allocation overwrites that end, and the buffer stays open.)
PipesCloseWhenAbandoned ==
    [][\A b \in DOMAIN closed :
         IF \E p \in DOMAIN tables : GivesUp(p, b)
         THEN closed'[b] \/ Calls \cap {"dup2", "ffi_dup2"} # {}
         ELSE closed'[b] = closed[b]]_vars
=============================================================================
