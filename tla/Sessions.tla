------------------------------ MODULE Sessions ------------------------------
(***************************************************************************)
(* Several sessions in one operating-system process (src/src/ffi.rs).      *)
(* Each has an executor, a mutex and a driver thread of its own; what the  *)
(* drivers share without a lock is the map FD_TABLES of src/src/vfd.rs,    *)
(* whose keys are pids that every executor counts from 1, and the kernel's *)
(* fds 0 to 2, which a driver points to the terminal of the coroutine it   *)
(* resumes and back.                                                       *)
(*                                                                         *)
(* The step of a driver between two accesses to what is shared is one      *)
(* action.  A terminal stands for the three fds the host gives a process,  *)
(* each process one of its own; what processes do to other descriptors,    *)
(* and fork, is in VfdTables.                                              *)
(***************************************************************************)
EXTENDS Integers

CONSTANTS Ids,          \* session ids, in the order of NEXT_SESSION_ID: 1..n
          MaxPid,       \* bound: processes per session
          Overlap,      \* which sessions the host lets overlap, see CreateSession
          None          \* no terminal, no process

Overlaps == {"never", "shutdown", "free"}

\* Ids are counted from 1, and what stands for nothing is none of the rest.
SessionsAssumption ==
    /\ Ids \subseteq Nat \ {0} /\ \A s \in Ids : 1..s \subseteq Ids
    /\ MaxPid \in Nat /\ Overlap \in Overlaps
    /\ None \notin 1..MaxPid

VARIABLES session,   \* per id: "absent", "live", "stopping" or "ended"
          driver,    \* where its driver thread is
          saved,     \* Session::saved_fds: what fds 0-2 were at its start
          next_pid,  \* Executor::next_pid
          procs,     \* the pids in Executor::vprocs
          done,      \* those that have exited and are not reaped
          running,   \* Executor::current, or None
          tables,    \* FD_TABLES: pid -> terminal of the table's fds 0-2
          stdio,     \* what the kernel's fds 0-2 are open on
          open,      \* terminals whose fds are open
          aborted    \* the operating-system process has aborted

vars == <<session, driver, saved, next_pid, procs, done, running, tables, stdio,
          open, aborted>>

Pids == 1..MaxPid

\* The terminal that the host makes for the p-th process of session s, the
\* host's own fds 0-2, and the fds of a table made by VfdTable::new, which are
\* whatever 0-2 are.
Terminal(s, p) == <<s, p>>
Host == <<0, 0>>
Inherited == <<0, 1>>

Init ==
    /\ session = [s \in Ids |-> "absent"]
    /\ driver = [s \in Ids |-> "none"]
    /\ saved = [s \in Ids |-> None]
    /\ next_pid = [s \in Ids |-> 1]
    /\ procs = [s \in Ids |-> {}]
    /\ done = [s \in Ids |-> {}]
    /\ running = [s \in Ids |-> None]
    /\ tables = [p \in {} |-> None]
    /\ stdio = Host
    /\ open = {Host}
    /\ aborted = FALSE

Insert(m, k, v) == [j \in DOMAIN m \cup {k} |-> IF j = k THEN v ELSE m[j]]
Without(m, S) == [j \in DOMAIN m \ S |-> m[j]]

-----------------------------------------------------------------------------
(* The host.                                                               *)

\* vproc_ffi_create_session.  A host that lets no sessions overlap waits for
\* the last driver thread to end, which no call of the library can tell it;
\* one that destroys a session before it creates the next cannot wait for that.
CreateSession(s) ==
    /\ session[s] = "absent"
    /\ \A r \in Ids : r < s => session[r] # "absent"
    /\ Overlap = "never" => \A r \in 1..(s - 1) : session[r] = "ended"
    /\ Overlap = "shutdown" => \A r \in 1..(s - 1) : session[r] # "live"
    /\ session' = [session EXCEPT ![s] = "live"]
    /\ driver' = [driver EXCEPT ![s] = "start"]
    /\ UNCHANGED <<saved, next_pid, procs, done, running, tables, stdio, open, aborted>>

\* vproc_ffi_destroy_session: sets the flag, under the session mutex, which
\* the driver holds from "locked" to "reap", and does not wait for the driver.
DestroySession(s) ==
    /\ session[s] = "live" /\ driver[s] \in {"start", "top"}
    /\ session' = [session EXCEPT ![s] = "stopping"]
    /\ UNCHANGED <<driver, saved, next_pid, procs, done, running, tables, stdio,
                   open, aborted>>

-----------------------------------------------------------------------------
(* run_session_driver.                                                     *)

\* The driver dups fds 0-2.
SaveFds(s) ==
    /\ driver[s] = "start"
    /\ saved' = [saved EXCEPT ![s] = stdio]
    /\ driver' = [driver EXCEPT ![s] = "top"]
    /\ UNCHANGED <<session, next_pid, procs, done, running, tables, stdio, open, aborted>>

\* The top of the loop, without shutdown: lock the session.
Lock(s) ==
    /\ driver[s] = "top" /\ session[s] = "live"
    /\ driver' = [driver EXCEPT ![s] = "locked"]
    /\ UNCHANGED <<session, saved, next_pid, procs, done, running, tables, stdio,
                   open, aborted>>

\* Mutant: the table is made with VfdTable::new.
CreateTableDefault(p, t) == Insert(tables, p, Inherited)

\* create_table_with_fds.
CreateTable(p, t) == Insert(tables, p, t)

\* A drained request: the program is loaded, its pid taken, its table made.
Serve(s) ==
    LET p == next_pid[s]
    IN /\ driver[s] = "locked"
       /\ p \in Pids
       /\ next_pid' = [next_pid EXCEPT ![s] = p + 1]
       /\ procs' = [procs EXCEPT ![s] = @ \cup {p}]
       /\ tables' = CreateTable(p, Terminal(s, p))
       /\ open' = open \cup {Terminal(s, p)}
       /\ UNCHANGED <<session, driver, saved, done, running, stdio, aborted>>

\* The first three raw_dup3; the fds of VfdTable::new are where they belong.
Install(t) == IF t = Inherited THEN UNCHANGED stdio ELSE stdio' = t

\* step_from_driver_with_fd_swap up to the resume: get_real_fds finds the
\* process's table, if there is one, and its fds go to 0-2; a failure aborts.
SwapIn(s, p) ==
    LET found == p \in DOMAIN tables
        closed == found /\ tables[p] \notin open \cup {Inherited}
    IN /\ driver[s] = "locked"
       /\ p \in procs[s] \ done[s]
       /\ aborted' = closed
       /\ running' = [running EXCEPT ![s] = p]
       /\ driver' = [driver EXCEPT ![s] = IF found THEN "swapped" ELSE "slice"]
       /\ IF found /\ ~closed THEN Install(tables[p]) ELSE UNCHANGED stdio
       /\ UNCHANGED <<session, saved, next_pid, procs, done, tables, open>>

\* pick_next finds nothing to run.
NothingToRun(s) ==
    /\ driver[s] = "locked" /\ procs[s] = done[s]
    /\ driver' = [driver EXCEPT ![s] = "reap"]
    /\ UNCHANGED <<session, saved, next_pid, procs, done, running, tables, stdio,
                   open, aborted>>

\* The running coroutine uses its descriptors: get_or_create_table, which
\* makes a missing table with VfdTable::new.
UseTable(s) ==
    /\ running[s] # None
    /\ tables' = IF running[s] \in DOMAIN tables
                 THEN tables ELSE Insert(tables, running[s], Inherited)
    /\ UNCHANGED <<session, driver, saved, next_pid, procs, done, running, stdio,
                   open, aborted>>

\* Mutant: fds 0-2 stay as they are.
RestoreNothing(s) == UNCHANGED stdio

\* The last three raw_dup3, if fds_swapped.
Restore(s) == IF driver[s] = "swapped" THEN stdio' = saved[s] ELSE UNCHANGED stdio

\* The coroutine yields, or exits.
SwapOut(s) ==
    /\ running[s] # None
    /\ driver' = [driver EXCEPT ![s] = "reap"]
    /\ running' = [running EXCEPT ![s] = None]
    /\ Restore(s)
    /\ done' \in {done, [done EXCEPT ![s] = @ \cup {running[s]}]}
    /\ UNCHANGED <<session, saved, next_pid, procs, tables, open, aborted>>

\* reap_done_coroutines: the fds in the tables of the processes that are done
\* are closed, which for the table of VfdTable::new are 0-2 themselves.
Reaped(s) ==
    LET closed == {tables[p] : p \in done[s] \cap DOMAIN tables}
    IN /\ procs' = [procs EXCEPT ![s] = @ \ done[s]]
       /\ done' = [done EXCEPT ![s] = {}]
       /\ open' = open \ closed
       /\ stdio' = IF Inherited \in closed THEN None ELSE stdio

Reap(s) ==
    /\ driver[s] = "reap"
    /\ Reaped(s)
    /\ tables' = Without(tables, done[s])
    /\ driver' = [driver EXCEPT ![s] = "top"]
    /\ UNCHANGED <<session, saved, next_pid, running, aborted>>

\* The top of the loop under shutdown: reap, then vfd::cleanup drops the map.
Shutdown(s) ==
    /\ driver[s] = "top" /\ session[s] = "stopping"
    /\ Reaped(s)
    /\ tables' = [p \in {} |-> None]
    /\ session' = [session EXCEPT ![s] = "ended"]
    /\ driver' = [driver EXCEPT ![s] = "none"]
    /\ UNCHANGED <<saved, next_pid, running, aborted>>

Next ==
    /\ ~aborted
    /\ \E s \in Ids :
          \/ CreateSession(s) \/ DestroySession(s)
          \/ SaveFds(s) \/ Lock(s) \/ Serve(s)
          \/ (\E p \in Pids : SwapIn(s, p)) \/ NothingToRun(s)
          \/ UseTable(s) \/ SwapOut(s) \/ Reap(s) \/ Shutdown(s)

Spec == Init /\ [][Next]_vars

-----------------------------------------------------------------------------
(* Properties.                                                             *)

\* The state has the types of ffi.rs, executor.rs and vfd.rs.
TypeOK ==
    /\ session \in [Ids -> {"absent", "live", "stopping", "ended"}]
    /\ driver \in [Ids -> {"none", "start", "top", "locked", "slice", "swapped", "reap"}]
    /\ next_pid \in [Ids -> 1..(MaxPid + 1)]
    /\ \A s \in Ids :
          /\ done[s] \subseteq procs[s] /\ procs[s] \subseteq 1..(next_pid[s] - 1)
          /\ running[s] \in procs[s] \cup {None}
    /\ DOMAIN tables \subseteq Pids
    /\ aborted \in BOOLEAN

\* Every process of a session that is not being destroyed has the fd table that was
\* made for it, whatever other sessions serve, reap and shut down.
TablesArePrivate ==
    \A s \in Ids : session[s] = "live" =>
        \A p \in procs[s] : p \in DOMAIN tables /\ tables[p] = Terminal(s, p)

\* Fds 0-2 are the terminal of the process that runs, so that a real fork's
\* child inherits it, and the host's own when no driver has a coroutine
\* running; no driver fails to install a terminal, which would abort.
StdioFollowsSlices ==
    /\ ~aborted
    /\ \A s \in Ids : running[s] # None => stdio = Terminal(s, running[s])
    /\ (\A s \in Ids : running[s] = None) => stdio = Host
=============================================================================
