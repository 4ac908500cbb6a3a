------------------------------ MODULE Executor ------------------------------
(***************************************************************************)
(* The cooperative scheduler of vproc (src/src/executor.rs), with the      *)
(* coroutine life cycle of src/src/coroutine.rs and the interception       *)
(* handlers whose whole effect is on scheduler state: spawn, yield, I/O    *)
(* wait, exit, exec, fork, waitpid, kill and raise.                        *)
(*                                                                         *)
(* One OS thread (the session's driver) owns an Executor.  It runs one     *)
(* coroutine at a time; a coroutine gives control back only by a yield,    *)
(* so between two switches only that coroutine acts.  When no coroutine    *)
(* runs, the driver may spawn, resume the next ready coroutine, reap the   *)
(* finished ones, or apply the result of a poll() over the fds that        *)
(* coroutines wait for.  SessionDriver says in which order its loop does   *)
(* that; here every order is allowed.                                      *)
(*                                                                         *)
(* Descriptor tables (VfdTables) and working directories are not part of   *)
(* this module.                                                            *)
(***************************************************************************)
EXTENDS Integers, Sequences, FiniteSets

CONSTANTS
    SpawnLimit, \* bound: spawn and exec hand out pids up to SpawnLimit
    ForkLimit,  \* bound: fork helpers get pids up to ForkLimit
    Codes,      \* the exit codes programs use
    Signals,    \* the signal numbers programs send
    Waits       \* the kinds of I/O wait programs do (see IoWaits)

ASSUME ExecutorAssumption ==
    /\ SpawnLimit \in Nat
    /\ ForkLimit \in Nat
    /\ Codes \subseteq Int
    /\ Signals \subseteq Nat
    /\ Waits \subseteq {"fds", "fds+deadline", "deadline", "neither"}

VARIABLES
    vprocs,         \* Executor.vprocs: pid -> coroutine
    ready_queue,    \* Executor.ready_queue
    next_pid,       \* Executor.next_pid
    current,        \* Executor.current, NoPid for None
    children,       \* Executor.children: pid -> non-empty set of pids
    saved_fork_lr,  \* Executor.saved_fork_lr: whose return address is saved
    exit_codes,     \* Executor.exit_codes: pid -> exit code
    aborted         \* the OS process has aborted

vars == << vprocs, ready_queue, next_pid, current, children, saved_fork_lr,
           exit_codes, aborted >>

NoPid == 0          \* Option::None, and the ppid of a coroutine without parent

SIGKILL == 9
SIGTERM == 15
Fatal == {SIGKILL, SIGTERM}

(***************************************************************************)
(* What a coroutine waits for in yield_for_io: some real fds, a deadline,  *)
(* both, or neither (poll() over virtual pipes only, without a timeout).   *)
(***************************************************************************)
FdWaits == {"fds", "fds+deadline"}
DeadlineWaits == {"deadline", "fds+deadline"}
IoWaits == FdWaits \cup DeadlineWaits \cup {"neither"}

(***************************************************************************)
(* Where a coroutine's code stands: its closure has not been started       *)
(* ("closure", or "helper" for the closure that vproc_ffi_fork spawns), it *)
(* runs program code ("user"), or it is suspended inside the loop of       *)
(* waitpid or after the yield of vproc_ffi_fork.  `arg' is what that place *)
(* closes over: the parent of a helper, the helper of a forking            *)
(* coroutine, the pid waited for.                                          *)
(*                                                                         *)
(* Of State only Done matters: no code tells Ready from Running.  So the   *)
(* store at the end of Coroutine::resume, whose `&mut self' points into    *)
(* the vprocs map across the switch and dangles if a spawn rehashed the    *)
(* map meanwhile, has no effect here whether it arrives or not.            *)
(***************************************************************************)
Places == {"closure", "helper", "user", "fork", "waitpid"}

Coroutine ==
    [done : BOOLEAN, exit_code : Int, ppid : Nat, is_fork_child : BOOLEAN,
     fork_child_pid : Nat, pending_signals : SUBSET Signals,
     io_wait : IoWaits \cup {"none"}, at : Places, arg : Nat]

NewCoroutine(place, arg) ==
    [done |-> FALSE, exit_code |-> 0, ppid |-> NoPid, is_fork_child |-> FALSE,
     fork_child_pid |-> NoPid, pending_signals |-> {}, io_wait |-> "none",
     at |-> place, arg |-> arg]

\* The map m after m.insert(k, v).
Insert(m, k, v) == [j \in DOMAIN m \cup {k} |-> IF j = k THEN v ELSE m[j]]

\* The pids in a queue.
Elems(q) == {q[i] : i \in DOMAIN q}

\* No pid is queued twice.
NoDuplicates(q) == \A i, j \in DOMAIN q : q[i] = q[j] => i = j

\* Every order in which a loop over a HashMap may push the pids of S.
Orders(S) ==
    {s \in [1..Cardinality(S) -> S] : NoDuplicates(s) /\ Elems(s) = S}

IsDone(p) == vprocs[p].done
Live(p) == p \in DOMAIN vprocs /\ ~IsDone(p)
DonePids == {p \in DOMAIN vprocs : IsDone(p)}

\* get_exit_code(p) returns Some.
ExitCodeKnown(p) == p \in DOMAIN exit_codes \/ p \in DonePids

Init ==
    /\ vprocs = << >>
    /\ ready_queue = << >>
    /\ next_pid = 1
    /\ current = NoPid
    /\ children = << >>
    /\ saved_fork_lr = NoPid
    /\ exit_codes = << >>
    /\ aborted = FALSE

-----------------------------------------------------------------------------
\* mco_yield returns into resume on the driver, which clears Executor::current.
BackToDriver == current' = NoPid

\* Mutants of Requeued: the push is forgotten; it goes to the front.
RequeuedNever(q) == q
RequeuedFront(q) == << current >> \o q

\* do_yield pushes the running coroutine before it yields.
Requeued(q) == IF IsDone(current) THEN q ELSE Append(q, current)

\* vproc_exit_with_code: the map m of coroutines after the running one exits.
Exited(m, code) ==
    [m EXCEPT ![current].done = TRUE, ![current].exit_code = code]

\* The map m after the running coroutine has moved to another place.
MovedTo(m, place, arg) ==
    [m EXCEPT ![current].at = place, ![current].arg = arg]

InUser == current # NoPid /\ vprocs[current].at = "user" /\ ~aborted

-----------------------------------------------------------------------------
(* Calls of the running coroutine, or of the driver between two slices. *)

\* Mutant of Spawn: next_pid is not advanced.
SpawnKeepsPid(place) ==
    /\ ~aborted
    /\ current # NoPid => vprocs[current].at = "user"
    /\ next_pid <= SpawnLimit
    /\ vprocs' = Insert(vprocs, next_pid, NewCoroutine(place, NoPid))
    /\ ready_queue' = Append(ready_queue, next_pid)
    /\ UNCHANGED << next_pid, current, children, saved_fork_lr, exit_codes, aborted >>

\* spawn (a closure) and spawn_elf (a loaded program).
Spawn(place) ==
    /\ ~aborted
    /\ current # NoPid => vprocs[current].at = "user"
    /\ next_pid <= SpawnLimit
    /\ vprocs' = Insert(vprocs, next_pid, NewCoroutine(place, NoPid))
    /\ ready_queue' = Append(ready_queue, next_pid)
    /\ next_pid' = next_pid + 1
    /\ UNCHANGED << current, children, saved_fork_lr, exit_codes, aborted >>

\* A virtual execve: the program becomes a new coroutine, started at its entry
\* point ("user") or by a closure that calls its main; the caller exits 0.  If no
\* way of loading works, execve runs the program in a real process, yields until
\* that ends and exits with its code: DoYield and Exit.
Execve(place) ==
    /\ InUser
    /\ next_pid <= SpawnLimit
    /\ vprocs' = Exited(Insert(vprocs, next_pid, NewCoroutine(place, NoPid)), 0)
    /\ ready_queue' = Append(ready_queue, next_pid)
    /\ next_pid' = next_pid + 1
    /\ exit_codes' = Insert(exit_codes, current, 0)
    /\ BackToDriver
    /\ UNCHANGED << children, saved_fork_lr, aborted >>

DoYield ==
    /\ InUser
    /\ ready_queue' = Requeued(ready_queue)
    /\ BackToDriver
    /\ UNCHANGED << vprocs, next_pid, children, saved_fork_lr, exit_codes, aborted >>

\* Mutant of YieldForIo: the coroutine is queued as by do_yield.
YieldForIoQueued(w) ==
    /\ InUser
    /\ ready_queue' = Requeued(ready_queue)
    /\ vprocs' = [vprocs EXCEPT ![current].io_wait = w]
    /\ BackToDriver
    /\ UNCHANGED << next_pid, children, saved_fork_lr, exit_codes, aborted >>

\* yield_for_io: not queued; wake_io_ready will do that.
YieldForIo(w) ==
    /\ InUser
    /\ vprocs' = [vprocs EXCEPT ![current].io_wait = w]
    /\ BackToDriver
    /\ UNCHANGED << ready_queue, next_pid, children, saved_fork_lr, exit_codes,
                    aborted >>

\* exit, _exit, the end or the panic of a closure, and the fatal cases of raise.
Exit(code) ==
    /\ InUser
    /\ vprocs' = Exited(vprocs, code)
    /\ exit_codes' = Insert(exit_codes, current, code)
    /\ BackToDriver
    /\ UNCHANGED << ready_queue, next_pid, children, saved_fork_lr, aborted >>

\* kill of a virtual pid; the pid may be done and not yet reaped.
Kill(p, sig) ==
    /\ InUser
    /\ p \in DOMAIN vprocs
    /\ vprocs' = [vprocs EXCEPT ![p].pending_signals = @ \cup {sig}]
    /\ UNCHANGED << ready_queue, next_pid, current, children, saved_fork_lr,
                    exit_codes, aborted >>

Raise(sig) == IF sig \in Fatal THEN Exit(128 + sig) ELSE Kill(current, sig)

\* waitpid finds that the pid is virtual, and enters its loop.
WaitpidEnter(p) ==
    /\ InUser
    /\ p \in DOMAIN vprocs
    /\ vprocs' = MovedTo(vprocs, "waitpid", p)
    /\ UNCHANGED << ready_queue, next_pid, current, children, saved_fork_lr,
                    exit_codes, aborted >>

AtWaitpid == current # NoPid /\ vprocs[current].at = "waitpid" /\ ~aborted

\* One iteration that returns: the exit code, or -1 for a pid that is gone.
WaitpidReturn ==
    /\ AtWaitpid
    /\ LET p == vprocs[current].arg
       IN  ExitCodeKnown(p) \/ p \notin DOMAIN vprocs
    /\ vprocs' = MovedTo(vprocs, "user", NoPid)
    /\ UNCHANGED << ready_queue, next_pid, current, children, saved_fork_lr,
                    exit_codes, aborted >>

\* One iteration that yields.
WaitpidYield ==
    /\ AtWaitpid
    /\ LET p == vprocs[current].arg
       IN  ~ExitCodeKnown(p) /\ p \in DOMAIN vprocs
    /\ ready_queue' = Requeued(ready_queue)
    /\ BackToDriver
    /\ UNCHANGED << vprocs, next_pid, children, saved_fork_lr, exit_codes, aborted >>

-----------------------------------------------------------------------------
\* Mutant of ForkCall: the caller is requeued before the helper is queued.
ForkCallHelperLast ==
    /\ InUser
    /\ ~vprocs[current].is_fork_child
    /\ next_pid <= ForkLimit
    /\ saved_fork_lr' = current
    /\ vprocs' = Insert(MovedTo(vprocs, "fork", next_pid),
                        next_pid, NewCoroutine("helper", current))
    /\ ready_queue' = Append(Requeued(ready_queue), next_pid)
    /\ next_pid' = next_pid + 1
    /\ BackToDriver
    /\ UNCHANGED << children, exit_codes, aborted >>

(***************************************************************************)
(* vproc_ffi_fork.  The caller saves its return address in the executor,   *)
(* puts a helper closure at the front of the queue and yields; the helper  *)
(* copies the suspended caller; both copies then return from the yield.    *)
(***************************************************************************)
ForkCall ==
    /\ InUser
    /\ ~vprocs[current].is_fork_child
    /\ next_pid <= ForkLimit
    /\ saved_fork_lr' = current
    /\ vprocs' = Insert(MovedTo(vprocs, "fork", next_pid),
                        next_pid, NewCoroutine("helper", current))
    /\ ready_queue' = Requeued(<< next_pid >> \o ready_queue)
    /\ next_pid' = next_pid + 1
    /\ BackToDriver
    /\ UNCHANGED << children, exit_codes, aborted >>

\* Coroutine::fork_from; the child's stack, so its place, copies the parent's.
ForkChild(co, parent) ==
    [co EXCEPT !.done = FALSE, !.exit_code = 0, !.ppid = parent,
               !.is_fork_child = TRUE, !.fork_child_pid = NoPid,
               !.pending_signals = {}, !.io_wait = "none"]

\* Mutant of ForkedFrom: the parent does not learn the pid of its child.
ForkedUnannounced(m, parent, child) == Insert(m, child, ForkChild(m[parent], parent))

\* The coroutines m after spawn_fork_child has inserted the child and stored
\* its pid in the parent.
ForkedFrom(m, parent, child) ==
    [Insert(m, child, ForkChild(m[parent], parent))
       EXCEPT ![parent].fork_child_pid = child]

\* The helper: spawn_fork_child for its parent, then the end of its closure.
HelperRun ==
    /\ current # NoPid /\ vprocs[current].at = "helper" /\ ~aborted
    /\ LET parent == vprocs[current].arg
           siblings == IF parent \in DOMAIN children THEN children[parent] ELSE {}
       IN  /\ parent \in DOMAIN vprocs
           /\ vprocs' = Exited(ForkedFrom(vprocs, parent, next_pid), 0)
           /\ children' = Insert(children, parent, siblings \cup {next_pid})
    /\ ready_queue' = Append(ready_queue, next_pid)
    /\ next_pid' = next_pid + 1
    /\ exit_codes' = Insert(exit_codes, current, 0)
    /\ BackToDriver
    /\ UNCHANGED << saved_fork_lr, aborted >>

\* Back from the yield, in the parent (returns fork_child_pid) or the child (0).
ForkReturn ==
    /\ current # NoPid /\ vprocs[current].at = "fork" /\ ~aborted
    /\ saved_fork_lr' = NoPid
    /\ vprocs' = MovedTo([vprocs EXCEPT ![current].is_fork_child = FALSE],
                         "user", NoPid)
    /\ UNCHANGED << ready_queue, next_pid, current, children, exit_codes,
                    aborted >>

-----------------------------------------------------------------------------
(* The driver thread. *)

\* pick_next: the first entry of the queue that is still live, at index i.
PickNext(i) ==
    /\ i \in DOMAIN ready_queue
    /\ Live(ready_queue[i])
    /\ \A j \in 1..(i - 1) : ~Live(ready_queue[j])

(***************************************************************************)
(* deliver_signals: the pending signals are taken; the first fatal one     *)
(* marks the coroutine Done (set_done) and drops a closure that has not    *)
(* started, the others are discarded.                                      *)
(***************************************************************************)
DeliverSignals(co) ==
    LET taken == [co EXCEPT !.pending_signals = {}]
        fatal == co.pending_signals \cap Fatal
    IN  IF fatal = {} THEN {taken}
        ELSE {[taken EXCEPT !.done = TRUE, !.exit_code = 128 + s] : s \in fatal}

\* Coroutine::resume up to the switch, and the start of a closure.
Resumed(co) ==
    [co EXCEPT !.done = FALSE, !.at = IF @ = "closure" THEN "user" ELSE @]

(***************************************************************************)
(* step_from_driver and step_from_driver_with_fd_swap: what                *)
(* deliver_signals returns is not looked at, so a coroutine it has marked  *)
(* Done is resumed.  The trampoline of a closure that set_done has dropped *)
(* panics in an extern "C" function, which aborts the OS process.          *)
(***************************************************************************)
Step ==
    /\ current = NoPid /\ ~aborted
    /\ \E i \in DOMAIN ready_queue :
         /\ PickNext(i)
         /\ ready_queue' = SubSeq(ready_queue, i + 1, Len(ready_queue))
         /\ current' = ready_queue[i]
         /\ \E co \in DeliverSignals(vprocs[ready_queue[i]]) :
              /\ vprocs' = [vprocs EXCEPT ![ready_queue[i]] = Resumed(co)]
              /\ aborted' = (co.done /\ co.at \in {"closure", "helper"})
    /\ UNCHANGED << next_pid, children, saved_fork_lr, exit_codes >>

\* Mutant of Reap: the exit codes of the finished coroutines are dropped with
\* them.
ReapDropsCodes ==
    /\ current = NoPid /\ ~aborted
    /\ vprocs' = [p \in DOMAIN vprocs \ DonePids |-> vprocs[p]]
    /\ exit_codes' = [p \in DOMAIN exit_codes \ DonePids |-> exit_codes[p]]
    /\ UNCHANGED << ready_queue, next_pid, current, children, saved_fork_lr, aborted >>

\* reap_done_coroutines; `children' is pruned before the coroutines go.
Reap ==
    /\ current = NoPid /\ ~aborted
    /\ LET parents == {p \in DOMAIN children \ DonePids :
                         children[p] \cap DOMAIN vprocs # {}}
       IN  children' = [p \in parents |-> children[p] \cap DOMAIN vprocs]
    /\ vprocs' = [p \in DOMAIN vprocs \ DonePids |-> vprocs[p]]
    /\ UNCHANGED << ready_queue, next_pid, current, saved_fork_lr, exit_codes,
                    aborted >>

\* collect_io_waits: who contributes to pollfds.
FdWaiters == {p \in DOMAIN vprocs : vprocs[p].io_wait \in FdWaits}
DeadlineWaiters == {p \in DOMAIN vprocs : vprocs[p].io_wait \in DeadlineWaits}

\* Mutant of WakeIoReady: io_wait is not cleared.
WakeKeepsIoWait(W) ==
    /\ vprocs' = vprocs
    /\ \E s \in Orders(W \ Elems(ready_queue)) : ready_queue' = ready_queue \o s

\* wake_io_ready for the pids W whose fds are ready or whose deadline is over.
WakeIoReady(W) ==
    /\ vprocs' = [p \in DOMAIN vprocs |->
                    IF p \in W THEN [vprocs[p] EXCEPT !.io_wait = "none"]
                    ELSE vprocs[p]]
    /\ \E s \in Orders(W \ Elems(ready_queue)) : ready_queue' = ready_queue \o s

\* One batch poll(), which happens only if pollfds is not empty.
PollAndWake ==
    /\ current = NoPid /\ ~aborted
    /\ FdWaiters # {}
    /\ \E R \in SUBSET FdWaiters, X \in SUBSET DeadlineWaiters : WakeIoReady(R \cup X)
    /\ UNCHANGED << next_pid, current, children, saved_fork_lr, exit_codes,
                    aborted >>

-----------------------------------------------------------------------------
\* The steps by which a running coroutine gives control back.
SwitchOut ==
    \/ \E place \in {"closure", "user"} : Execve(place)
    \/ DoYield
    \/ \E w \in Waits : YieldForIo(w)
    \/ \E code \in Codes : Exit(code)
    \/ WaitpidYield
    \/ ForkCall
    \/ HelperRun

\* The other steps of a running coroutine.
KeepRunning ==
    \/ \E p \in DOMAIN vprocs, sig \in Signals : Kill(p, sig)
    \/ \E p \in DOMAIN vprocs : WaitpidEnter(p)
    \/ WaitpidReturn
    \/ ForkReturn

Next ==
    \/ \E place \in {"closure", "user"} : Spawn(place)
    \/ SwitchOut
    \/ KeepRunning
    \/ \E sig \in Signals : Raise(sig)
    \/ Step
    \/ Reap
    \/ PollAndWake

Spec == Init /\ [][Next]_vars

(***************************************************************************)
(* Fairness.  The driver loop steps as long as a coroutine is ready.  The  *)
(* scheduler is cooperative, so progress needs programs that cooperate:    *)
(* code that runs goes on (the loops of fork and waitpid included), and a  *)
(* coroutine that runs again and again reaches a call that switches.       *)
(***************************************************************************)
Fairness ==
    /\ WF_vars(Step)
    /\ WF_vars(WaitpidReturn)
    /\ WF_vars(ForkReturn)
    /\ SF_vars(SwitchOut)

FairSpec == Spec /\ Fairness
-----------------------------------------------------------------------------
\* The variables keep the types of the Rust fields; pids are below next_pid.
TypeOK ==
    /\ next_pid \in Nat \ {0}
    /\ DOMAIN vprocs \subseteq 1..(next_pid - 1)
    /\ vprocs \in [DOMAIN vprocs -> Coroutine]
    /\ ready_queue \in Seq(1..(next_pid - 1))
    /\ current \in DOMAIN vprocs \cup {NoPid}
    /\ DOMAIN children \subseteq 1..(next_pid - 1)
    /\ children \in [DOMAIN children -> SUBSET (1..(next_pid - 1))]
    /\ saved_fork_lr \in 0..(next_pid - 1)
    /\ DOMAIN exit_codes \subseteq 1..(next_pid - 1)
    /\ exit_codes \in [DOMAIN exit_codes -> Int]
    /\ aborted \in BOOLEAN

\* Executor::ready_queue holds every coroutine that can run, and nothing else,
\* exactly once: the live ones that neither run nor wait for I/O.  So no
\* coroutine is lost or runs twice per turn, the stale entries that pick_next
\* skips never exist, and the driver's has_ready test says whether the queue
\* has work.
ReadyQueueExact ==
    /\ NoDuplicates(ready_queue)
    /\ Elems(ready_queue) = {p \in DOMAIN vprocs :
                               /\ ~IsDone(p)
                               /\ vprocs[p].io_wait = "none"
                               /\ p # current}

\* The coroutine that runs is live, is not waiting for I/O, and its exit code
\* is not recorded yet: exit happens at most once per pid.
RunningIsLive ==
    current # NoPid => /\ ~IsDone(current)
                       /\ vprocs[current].io_wait = "none"
                       /\ current \notin DOMAIN exit_codes

\* When the helper of vproc_ffi_fork runs spawn_fork_child, the caller of fork
\* is in vprocs, live, and suspended in the yield of that very call: unwrap
\* does not panic and the stack that fork_from copies is the right one.
HelperCopiesSuspendedCaller ==
    (current # NoPid /\ vprocs[current].at = "helper") =>
        LET parent == vprocs[current].arg
        IN  /\ parent \in DOMAIN vprocs \ {current}
            /\ ~IsDone(parent)
            /\ vprocs[parent].at = "fork"
            /\ vprocs[parent].arg = current
            /\ ~vprocs[parent].is_fork_child

\* When vproc_ffi_fork returns in the parent, fork_child_pid is the child that
\* this call made: a pid younger than the call's helper, with the caller as
\* ppid while it exists, and with an exit code once it is gone.
ForkReturnsOwnChild ==
    (current # NoPid /\ vprocs[current].at = "fork"
                     /\ ~vprocs[current].is_fork_child) =>
        LET child == vprocs[current].fork_child_pid
        IN  /\ child > vprocs[current].arg
            /\ child \in DOMAIN vprocs \cup DOMAIN exit_codes
            /\ child \in DOMAIN vprocs => vprocs[child].ppid = current

\* An exit code, once recorded, is final: no later step changes or forgets it,
\* and its pid is never given to a live coroutine again.  (A client that asks
\* late, after the reap, still gets the code.)
ExitCodesAreFinal ==
    [][\A p \in DOMAIN exit_codes :
          /\ p \in DOMAIN exit_codes'
          /\ exit_codes'[p] = exit_codes[p]
          /\ p \in DOMAIN vprocs' => vprocs'[p].done]_vars

\* The pids these bounds allow: a helper's child is one above the helper, or
\* further if the driver spawns in between.
Pids == 1..(SpawnLimit + ForkLimit + 1)

\* Round robin is starvation free: a coroutine in the ready queue gets to run
\* (unless the process aborts).
ReadyCoroutinesRun ==
    \A p \in Pids :
        (p \in Elems(ready_queue)) ~> (current = p \/ aborted)

\* waitpid on a coroutine that exits returns, whoever reaps it and when.
WaitpidReturns ==
    \A p, q \in Pids :
        (/\ p \in DOMAIN vprocs
         /\ vprocs[p].at = "waitpid"
         /\ vprocs[p].arg = q
         /\ q \in DOMAIN exit_codes)
        ~> (aborted \/ (p \in DOMAIN vprocs /\ vprocs[p].at = "user"))

\* README.md: SIGKILL and SIGTERM are delivered before scheduling and end the
\* coroutine at once; so a coroutine with one of them pending is not resumed.
FatalSignalsEndCoroutines ==
    [][\A p \in DOMAIN vprocs :
          current' = p /\ current # p => vprocs[p].pending_signals \cap Fatal = {}]_vars
=============================================================================
