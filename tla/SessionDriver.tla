--------------------------- MODULE SessionDriver ---------------------------
(***************************************************************************)
(* One vproc session (src/src/ffi.rs): the driver thread's loop            *)
(* run_session_driver over an Executor, and the client threads that call   *)
(* vproc_ffi_create_process, vproc_ffi_run_until_exit and                  *)
(* vproc_ffi_destroy_session.  They share the session mutex, the spawn     *)
(* queue with its own lock, the waiters, the shutdown flag and the         *)
(* condition variable Session::wake.                                       *)
(*                                                                         *)
(* The driver holds the session mutex while it drains requests, runs a     *)
(* slice of a coroutine, answers waiters and reaps; it releases it around  *)
(* poll() and while it sleeps on the condition variable.  The executor's   *)
(* variables are those of module Executor, and the driver's steps on them  *)
(* are its actions.                                                        *)
(***************************************************************************)
EXTENDS Executor

CONSTANTS
    Clients,    \* client threads
    None        \* an empty result slot

VARIABLES
    driver,         \* where the driver thread is
    requests,       \* the drained SpawnRequests it still has to serve
    pollfds,        \* the pids whose fds are in the poll() set
    revents,        \* those of them that poll() reported
    fd_ready,       \* pids whose awaited fds the kernel would report
    spawn_queue,    \* Session::spawn_queue: clients whose request waits
    spawn_result,   \* SpawnRequest::result per client, None or a pid (0: error)
    waiters,        \* Session::waiters: <<client, vpid>>
    wait_result,    \* Waiter::result per client, None or an exit code
    shutdown,       \* Session::shutdown
    registered,     \* the session is in SESSIONS
    sessions_lock,  \* a destroy_session call holds the SESSIONS mutex
    client,         \* where each client thread is
    vpid            \* the pid a client has got, or waits for

session_vars == << driver, requests, pollfds, revents, fd_ready, spawn_queue,
                   spawn_result, waiters, wait_result, shutdown, registered,
                   sessions_lock, client, vpid >>
driver_vars == << requests, pollfds, revents >>
client_vars == << spawn_queue, spawn_result, wait_result, client, vpid >>
all_vars == << vars, session_vars >>

DriverPlaces == {"top", "drain", "step", "slice", "poll", "relock", "check",
                 "asleep", "exited"}
ClientPlaces == {"idle", "trylock", "push", "notify", "result", "created",
                 "check", "recheck", "waiting", "destroying", "done"}

\* The session mutex is free: the driver holds it at these places only.
Unlocked == driver \notin {"drain", "step", "slice"}

SessionInit ==
    /\ Init
    /\ driver = "top" /\ requests = << >> /\ pollfds = {} /\ revents = {}
    /\ fd_ready = {}
    /\ spawn_queue = << >>
    /\ spawn_result = [c \in Clients |-> None]
    /\ waiters = {}
    /\ wait_result = [c \in Clients |-> None]
    /\ shutdown = FALSE /\ registered = TRUE /\ sessions_lock = FALSE
    /\ client = [c \in Clients |-> "idle"]
    /\ vpid = [c \in Clients |-> NoPid]

-----------------------------------------------------------------------------
(* The driver thread. *)

\* Top of the loop under shutdown: reap and leave.
DriverExits ==
    /\ driver = "top" /\ shutdown
    /\ Reap
    /\ driver' = "exited"
    /\ UNCHANGED << driver_vars, client_vars, fd_ready, waiters, shutdown,
                    registered, sessions_lock >>

\* Top of the loop: lock the session, drain the spawn queue.
DriverDrains ==
    /\ driver = "top" /\ ~shutdown
    /\ driver' = "drain"
    /\ requests' = spawn_queue
    /\ spawn_queue' = << >>
    /\ UNCHANGED << vars, pollfds, revents, fd_ready, spawn_result, waiters,
                    wait_result, shutdown, registered, sessions_lock, client, vpid >>

Answer(v) ==
    /\ requests' = Tail(requests)
    /\ spawn_result' = [spawn_result EXCEPT ![Head(requests)] = v]
    /\ UNCHANGED << driver, pollfds, revents, fd_ready, spawn_queue, waiters,
                    wait_result, shutdown, registered, sessions_lock, client, vpid >>

\* One drained request: the program is loaded and spawned, or loading fails.
ServeRequest ==
    /\ driver = "drain" /\ requests # << >>
    /\ Spawn("user")
    /\ Answer(next_pid)

RejectRequest ==
    /\ driver = "drain" /\ requests # << >>
    /\ Answer(0)
    /\ UNCHANGED vars

DrainDone ==
    /\ driver = "drain" /\ requests = << >>
    /\ driver' = "step"
    /\ UNCHANGED << vars, driver_vars, client_vars, fd_ready, waiters, shutdown,
                    registered, sessions_lock >>

\* step_from_driver_with_fd_swap resumes a coroutine, or finds none.
DriverSteps ==
    /\ driver = "step"
    /\ driver' = "slice"
    /\ IF \E p \in Elems(ready_queue) : Live(p) THEN Step ELSE UNCHANGED vars
    /\ UNCHANGED << driver_vars, client_vars, fd_ready, waiters, shutdown,
                    registered, sessions_lock >>

\* A step of the running coroutine, on the driver thread, under the mutex.
CoroutineStep ==
    /\ driver = "slice" /\ current # NoPid
    /\ \/ SwitchOut
       \/ KeepRunning
       \/ \E sig \in Signals : Raise(sig)
       \/ \E place \in {"closure", "user"} : Spawn(place)
    /\ UNCHANGED session_vars

\* The waiters that the driver's retain() answers and removes.
Served == {w \in waiters : ExitCodeKnown(w[2])}

\* Mutant of CodeOf: only coroutines that are not reaped yet are looked up.
CodeOfUnreaped(p) == IF p \in DOMAIN vprocs THEN vprocs[p].exit_code ELSE 0

\* get_exit_code, where it returns Some.
CodeOf(p) == IF p \in DOMAIN exit_codes THEN exit_codes[p] ELSE vprocs[p].exit_code

\* Mutant of AfterSlice: reap first, then look for finished coroutines.
AfterSliceReapsFirst ==
    /\ driver = "slice" /\ current = NoPid
    /\ Reap
    /\ LET served == {w \in waiters : w[2] \in DOMAIN vprocs' /\ vprocs'[w[2]].done}
       IN  /\ waiters' = waiters \ served
           /\ wait_result' = [c \in Clients |->
                                IF \E w \in served : w[1] = c THEN 0 ELSE wait_result[c]]
    /\ pollfds' = FdWaiters
    /\ driver' = IF FdWaiters = {} THEN "check" ELSE "poll"
    /\ UNCHANGED << requests, revents, fd_ready, spawn_queue, spawn_result,
                    shutdown, registered, sessions_lock, client, vpid >>

(***************************************************************************)
(* After the slice: answer the waiters whose pid has exited, reap, collect *)
(* the fds to poll, and unlock.                                            *)
(***************************************************************************)
AfterSlice ==
    /\ driver = "slice" /\ current = NoPid
    /\ waiters' = waiters \ Served
    /\ wait_result' = [c \in Clients |->
                         IF \E w \in Served : w[1] = c
                         THEN CodeOf((CHOOSE w \in Served : w[1] = c)[2])
                         ELSE wait_result[c]]
    /\ Reap
    /\ pollfds' = FdWaiters
    /\ driver' = IF FdWaiters = {} THEN "check" ELSE "poll"
    /\ UNCHANGED << requests, revents, fd_ready, spawn_queue, spawn_result,
                    shutdown, registered, sessions_lock, client, vpid >>

\* poll() returns: fds are ready, or 50ms have passed.
PollReturns ==
    /\ driver = "poll"
    /\ driver' = "relock"
    /\ revents' = pollfds \cap fd_ready
    /\ UNCHANGED << vars, requests, pollfds, client_vars, fd_ready, waiters,
                    shutdown, registered, sessions_lock >>

\* poll() fails: nobody is woken.
PollFails ==
    /\ driver = "poll"
    /\ driver' = "check"
    /\ UNCHANGED << vars, driver_vars, client_vars, fd_ready, waiters, shutdown,
                    registered, sessions_lock >>

\* Mutant of DriverWakes: the coroutine is queued but still marked as waiting.
DriverWakesMarked ==
    /\ driver = "relock"
    /\ driver' = "check"
    /\ ready_queue' \in {ready_queue \o s : s \in Orders(revents)}
    /\ fd_ready' = fd_ready \ revents
    /\ revents' = {} /\ pollfds' = {}
    /\ UNCHANGED << vprocs, next_pid, current, children, saved_fork_lr, exit_codes,
                    aborted, requests, client_vars, waiters, shutdown, registered,
                    sessions_lock >>

\* Relock and wake_io_ready; any of the deadlines may be over.
DriverWakes ==
    /\ driver = "relock"
    /\ driver' = "check"
    /\ \E X \in SUBSET DeadlineWaiters :
         /\ WakeIoReady(revents \cup X)
         /\ fd_ready' = fd_ready \ (revents \cup X)
    /\ revents' = {} /\ pollfds' = {}
    /\ UNCHANGED << next_pid, current, children, saved_fork_lr, exit_codes, aborted,
                    requests, client_vars, waiters, shutdown, registered,
                    sessions_lock >>

\* has_ready and has_work of the wait loop.
HasReady == \E p \in DOMAIN vprocs : ~IsDone(p) /\ vprocs[p].io_wait = "none"

\* Mutant of HasWork: the waiters are forgotten.
HasWorkForgetsWaiters == spawn_queue # << >> \/ HasReady

HasWork == spawn_queue # << >> \/ waiters # {} \/ HasReady

\* The wait loop: break, or release the mutex and sleep, in one step.
DriverChecks ==
    /\ driver = "check"
    /\ driver' = IF HasWork \/ shutdown THEN "top" ELSE "asleep"
    /\ UNCHANGED << vars, driver_vars, client_vars, fd_ready, waiters, shutdown,
                    registered, sessions_lock >>

\* Condvar::wait may return without a notification.
SpuriousWakeup ==
    /\ driver = "asleep"
    /\ driver' = "check"
    /\ UNCHANGED << vars, driver_vars, client_vars, fd_ready, waiters, shutdown,
                    registered, sessions_lock >>

\* Session::wake.notify_all, by a client.
NotifyDriver == driver' = IF driver = "asleep" THEN "check" ELSE driver

-----------------------------------------------------------------------------
(* The kernel: the fds a coroutine waits for become ready. *)
FdsBecomeReady(p) ==
    /\ p \in FdWaiters \ fd_ready
    /\ fd_ready' = fd_ready \cup {p}
    /\ UNCHANGED << vars, driver, driver_vars, client_vars, waiters, shutdown,
                    registered, sessions_lock >>

-----------------------------------------------------------------------------
(* A client thread: create_process, then possibly run_until_exit. *)

\* A client goes on, unless an abort has ended the process.
Go(c, place) == ~aborted /\ client' = [client EXCEPT ![c] = place]

\* create_process looks the session up.
CreateLookup(c) ==
    /\ client[c] = "idle" /\ ~sessions_lock
    /\ Go(c, IF registered THEN "trylock" ELSE "done")
    /\ UNCHANGED << vars, driver, driver_vars, fd_ready, spawn_queue, spawn_result,
                    waiters, wait_result, shutdown, registered, sessions_lock, vpid >>

\* try_lock: success gives the queue; 100 failures in a row give up.
CreateTryLock(c) ==
    /\ client[c] = "trylock"
    /\ Go(c, IF Unlocked THEN "push" ELSE "done")
    /\ UNCHANGED << vars, driver, driver_vars, fd_ready, spawn_queue, spawn_result,
                    waiters, wait_result, shutdown, registered, sessions_lock, vpid >>

\* The push needs the queue's own lock only.
CreatePush(c) ==
    /\ client[c] = "push"
    /\ Go(c, "notify")
    /\ spawn_queue' = Append(spawn_queue, c)
    /\ UNCHANGED << vars, driver, driver_vars, fd_ready, spawn_result, waiters,
                    wait_result, shutdown, registered, sessions_lock, vpid >>

\* Mutant of CreateNotify: the queue's own condition variable is notified, which
\* the driver does not wait on.
CreateNotifyQueueOnly(c) ==
    /\ client[c] = "notify" /\ Unlocked
    /\ Go(c, "result")
    /\ UNCHANGED << vars, driver, driver_vars, fd_ready, spawn_queue, spawn_result,
                    waiters, wait_result, shutdown, registered, sessions_lock, vpid >>

\* Lock the session and notify.
CreateNotify(c) ==
    /\ client[c] = "notify" /\ Unlocked
    /\ Go(c, "result")
    /\ NotifyDriver
    /\ UNCHANGED << vars, driver_vars, fd_ready, spawn_queue, spawn_result, waiters,
                    wait_result, shutdown, registered, sessions_lock, vpid >>

\* Poll the result slot: a pid, an error, or (attempts exhausted) a timeout.
CreateResult(c) ==
    /\ client[c] = "result"
    /\ \/ /\ spawn_result[c] # None
          /\ vpid' = [vpid EXCEPT ![c] = spawn_result[c]]
          /\ Go(c, IF spawn_result[c] = 0 THEN "done" ELSE "created")
       \/ /\ spawn_result[c] = None
          /\ Go(c, "done")
          /\ UNCHANGED vpid
    /\ UNCHANGED << vars, driver, driver_vars, fd_ready, spawn_queue, spawn_result,
                    waiters, wait_result, shutdown, registered, sessions_lock >>

\* run_until_exit, for the pid it got or for any other, looks the session up.
WaitLookup(c) ==
    /\ client[c] \in {"idle", "created"} /\ ~sessions_lock
    /\ \E p \in Pids :
         /\ client[c] = "created" => p = vpid[c]
         /\ vpid' = [vpid EXCEPT ![c] = p]
    /\ Go(c, IF registered THEN "check" ELSE "done")
    /\ UNCHANGED << vars, driver, driver_vars, fd_ready, spawn_queue, spawn_result,
                    waiters, wait_result, shutdown, registered, sessions_lock >>

\* First locked section of run_until_exit.
WaitCheck(c) ==
    /\ client[c] = "check" /\ Unlocked
    /\ IF ExitCodeKnown(vpid[c])
       THEN /\ Go(c, "done")
            /\ wait_result' = [wait_result EXCEPT ![c] = CodeOf(vpid[c])]
       ELSE /\ Go(c, "recheck")
            /\ UNCHANGED wait_result
    /\ UNCHANGED << vars, driver, driver_vars, fd_ready, spawn_queue, spawn_result,
                    waiters, shutdown, registered, sessions_lock, vpid >>

\* Mutant of WaitRegister: the driver is not notified.
WaitRegisterQuietly(c) ==
    /\ client[c] = "recheck" /\ Unlocked
    /\ Go(c, "waiting")
    /\ waiters' = waiters \cup {<< c, vpid[c] >>}
    /\ UNCHANGED << vars, driver, driver_vars, fd_ready, spawn_queue, spawn_result,
                    wait_result, shutdown, registered, sessions_lock, vpid >>

\* Second locked section: check again, or register the waiter and notify.
WaitRegister(c) ==
    /\ client[c] = "recheck" /\ Unlocked
    /\ IF ExitCodeKnown(vpid[c])
       THEN /\ Go(c, "done")
            /\ wait_result' = [wait_result EXCEPT ![c] = CodeOf(vpid[c])]
            /\ UNCHANGED << waiters, driver >>
       ELSE /\ Go(c, "waiting")
            /\ waiters' = waiters \cup {<< c, vpid[c] >>}
            /\ NotifyDriver
            /\ UNCHANGED wait_result
    /\ UNCHANGED << vars, driver_vars, fd_ready, spawn_queue, spawn_result, shutdown,
                    registered, sessions_lock, vpid >>

\* Poll the result slot; after 30000 attempts -1 is returned.
WaitResult(c) ==
    /\ client[c] = "waiting"
    /\ Go(c, "done")
    /\ UNCHANGED << vars, driver, driver_vars, fd_ready, spawn_queue, spawn_result,
                    waiters, wait_result, shutdown, registered, sessions_lock, vpid >>

\* destroy_session: lock SESSIONS, remove the session, ...
DestroyRemove(c) ==
    /\ client[c] \in {"idle", "created"} /\ ~sessions_lock
    /\ sessions_lock' = registered
    /\ registered' = FALSE
    /\ Go(c, IF registered THEN "destroying" ELSE "done")
    /\ UNCHANGED << vars, driver, driver_vars, fd_ready, spawn_queue, spawn_result,
                    waiters, wait_result, shutdown, vpid >>

\* ... then, still holding SESSIONS, lock the session and set shutdown.
DestroySignal(c) ==
    /\ client[c] = "destroying" /\ Unlocked
    /\ shutdown' = TRUE
    /\ sessions_lock' = FALSE
    /\ Go(c, "done")
    /\ UNCHANGED << vars, driver, driver_vars, fd_ready, spawn_queue, spawn_result,
                    waiters, wait_result, registered, vpid >>

-----------------------------------------------------------------------------
DriverNext ==
    \/ DriverExits \/ DriverDrains \/ ServeRequest \/ RejectRequest \/ DrainDone
    \/ DriverSteps \/ CoroutineStep \/ AfterSlice \/ PollReturns \/ PollFails
    \/ DriverWakes \/ DriverChecks \/ SpuriousWakeup

ClientNext(c) ==
    \/ CreateLookup(c) \/ CreateTryLock(c) \/ CreatePush(c) \/ CreateNotify(c)
    \/ CreateResult(c)
    \/ WaitLookup(c) \/ WaitCheck(c) \/ WaitRegister(c) \/ WaitResult(c)
    \/ DestroyRemove(c) \/ DestroySignal(c)

SessionNext ==
    \/ DriverNext
    \/ \E c \in Clients : ClientNext(c)
    \/ \E p \in DOMAIN vprocs : FdsBecomeReady(p)

SessionSpec == SessionInit /\ [][SessionNext]_all_vars

(***************************************************************************)
(* Fairness.  The driver thread runs, and poll() does not fail for ever; a *)
(* coroutine that gets the processor again and again reaches a call that   *)
(* switches; a client thread runs, and one that asks for a mutex again and *)
(* again gets it.  Nothing is assumed of spurious wakeups or of the kernel *)
(* making fds ready, nor of a client calling anything.                     *)
(***************************************************************************)
SliceSwitches == driver = "slice" /\ SwitchOut /\ UNCHANGED session_vars
SliceContinues == driver = "slice" /\ (WaitpidReturn \/ ForkReturn) /\ UNCHANGED session_vars

ClientContinues(c) ==
    \/ CreateTryLock(c) \/ CreatePush(c) \/ CreateNotify(c) \/ CreateResult(c)
    \/ WaitCheck(c) \/ WaitRegister(c) \/ WaitResult(c)
    \/ DestroySignal(c)

SessionFairness ==
    /\ WF_all_vars(DriverExits \/ DriverDrains \/ ServeRequest \/ RejectRequest
                   \/ DrainDone \/ DriverSteps \/ AfterSlice \/ DriverWakes
                   \/ DriverChecks \/ PollReturns)
    /\ SF_all_vars(PollReturns)
    /\ SF_all_vars(SliceSwitches)
    /\ WF_all_vars(SliceContinues)
    /\ \A c \in Clients : SF_all_vars(ClientContinues(c))

FairSession == SessionSpec /\ SessionFairness
-----------------------------------------------------------------------------
\* The session's fields keep their types; queued requests and waiters belong to
\* clients, and poll() covers coroutines that wait for fds.
SessionTypeOK ==
    /\ driver \in DriverPlaces
    /\ client \in [Clients -> ClientPlaces]
    /\ Elems(spawn_queue) \cup Elems(requests) \subseteq Clients
    /\ spawn_result \in [Clients -> {None} \cup 0..(next_pid - 1)]
    /\ vpid \in [Clients -> Pids \cup {NoPid}]
    /\ waiters \subseteq Clients \X Pids
    /\ wait_result \in [Clients -> {None} \cup Int]
    /\ revents \subseteq pollfds /\ pollfds \subseteq FdWaiters
    /\ shutdown \in BOOLEAN /\ registered \in BOOLEAN /\ sessions_lock \in BOOLEAN

\* The driver thread's use of its executor is one of the behaviours of module
\* Executor: each section of the loop that works on it does so as one of that
\* module's actions, with the mutex released and retaken around poll().
ImplementsExecutor == Init /\ [][Next]_vars

\* No wakeup is lost.  While the driver sleeps on Session::wake, no coroutine
\* can run, nobody waits in run_until_exit, and a request in the spawn queue
\* (pushed without the session mutex) has its notification still to come.
SleepLosesNothing ==
    driver = "asleep" =>
        /\ ~HasReady
        /\ waiters = {}
        /\ spawn_queue # << >> => \E c \in Clients : client[c] = "notify"

\* What run_until_exit returns is the exit code recorded for the pid it was
\* asked for, whether it comes from the first check, the second or the driver,
\* before or after the coroutine is reaped.
WaitedCodeIsRecorded ==
    \A c \in Clients :
        wait_result[c] # None => /\ vpid[c] \in DOMAIN exit_codes
                                 /\ wait_result[c] = exit_codes[vpid[c]]

\* A request pushed by create_process is answered by the driver, unless the
\* session is being shut down, also if the driver slept when it was pushed.
RequestsServed ==
    \A c \in Clients :
        (c \in Elems(spawn_queue)) ~> (spawn_result[c] # None \/ shutdown)

\* A waiter registered by run_until_exit whose pid exits gets the code, unless
\* the session is being shut down.
WaitersServed ==
    \A c \in Clients, p \in Pids :
        (<< c, p >> \in waiters /\ p \in DOMAIN exit_codes)
        ~> (wait_result[c] # None \/ shutdown)

\* While some client waits in run_until_exit, a coroutine whose fds have become
\* ready is queued again.
AwaitedIoIsServed ==
    \A p \in Pids :
        (p \in FdWaiters \cap fd_ready /\ waiters # {})
        ~> (p \notin FdWaiters \/ waiters = {} \/ shutdown)

\* ffi.rs, destroy_session: "Thread will exit on next loop iteration when
\* shutdown is true."
ShutdownEndsDriver == shutdown ~> (driver = "exited")
=============================================================================
