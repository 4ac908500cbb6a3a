------------------------------- MODULE PollIo -------------------------------
(***************************************************************************)
(* Blocking I/O of coroutines: the loops of read, write, poll and select   *)
(* in src/src/preload.rs, the wait they end in (yield_for_io) and the      *)
(* batch poll of the driver that ends the wait (collect_io_waits,          *)
(* wake_io_ready).                                                         *)
(*                                                                         *)
(* Channels are kernel pipes (Kernel) and virtual pipes (Virtual), each    *)
(* reduced to the number of bytes in it and whether its writers are gone.  *)
(* All coroutines run on one driver thread.  `inside' is the coroutine     *)
(* that is in a kernel call which may block, from the readiness check      *)
(* before it on: while it is there nobody else on this thread runs.        *)
(*                                                                         *)
(* A client waits in run_until_exit throughout, so the driver does not     *)
(* sleep on its condition variable (SessionDriver has that part), and the  *)
(* round robin of the ready queue (Executor) is taken as fairness.         *)
(***************************************************************************)
EXTENDS Integers, FiniteSets

CONSTANTS
    Procs, Kernel, Virtual,
    Capacity,       \* bytes a channel holds
    PipeBuf,        \* PIPE_BUF: free bytes from which the kernel reports POLLOUT
    Sizes,          \* counts of read and write
    IntWidth,       \* bits of a c_int
    Scenarios,      \* what programs do in a behaviour: see IsScenario
    None

Chans == Kernel \cup Virtual
Ends == Chans \X {"in", "out"}

(***************************************************************************)
(* A scenario has the channels in use, the sets of ends that poll and      *)
(* select are called with, the timeouts of poll (in ticks; -1 is none) and *)
(* of select (<< tv_sec, tv_usec >>, or None), and the kernel pipes that   *)
(* other OS processes read.                                                *)
(***************************************************************************)
IsScenario(s) ==
    /\ s.chans \subseteq Chans /\ s.outside \subseteq Kernel
    /\ s.ends \subseteq SUBSET (s.chans \X {"in", "out"})
    /\ s.timeouts \subseteq Int

\* The constants of a machine.
IsMachine ==
    /\ Kernel \cap Virtual = {}
    /\ Capacity \in Nat /\ PipeBuf \in 1..Capacity
    /\ Sizes \subseteq Nat \ {0} /\ IntWidth \in Nat \ {0}
    /\ \A s \in Scenarios : IsScenario(s)
    /\ None \notin Procs

ASSUME PollIoAssumption == IsMachine

VARIABLES
    scenario,   \* the scenario of the behaviour
    level,      \* bytes in each channel
    open,       \* channels that still have a writer
    call,       \* the call each coroutine is in, or None
    status,     \* "user", "ready" or "parked" (io_wait is Some)
    timer,      \* ticks to the deadline of the wait; -1: no deadline
    inside,     \* the coroutine inside a kernel call, or None
    rest        \* bytes the kernel write still has to take

vars == << level, open, call, status, timer, inside, rest >>

\* tv_sec * 1000 + tv_usec / 1000, as a c_int.
AsCInt(n) == ((n + 2^(IntWidth - 1)) % 2^IntWidth) - 2^(IntWidth - 1)
TimeoutMs(tv) == AsCInt(tv[1] * 1000 + tv[2] \div 1000)

CallRecord == [op : {"read", "write", "poll"}, ends : SUBSET Ends,
               size : Sizes \cup {0}, timeout : Int]

IoTypeOK ==
    /\ scenario \in Scenarios
    /\ level \in [Chans -> 0..Capacity]
    /\ open \subseteq Chans
    /\ \A p \in Procs : call[p] = None \/ call[p] \in CallRecord
    /\ status \in [Procs -> {"user", "ready", "parked"}]
    /\ timer \in [Procs -> Nat \cup {-1}]
    /\ inside \in Procs \cup {None}
    /\ rest \in Nat

Init ==
    /\ scenario \in Scenarios
    /\ level = [c \in Chans |-> 0]
    /\ open = Chans
    /\ call = [p \in Procs |-> None]
    /\ status = [p \in Procs |-> "user"]
    /\ timer = [p \in Procs |-> -1]
    /\ inside = None
    /\ rest = 0

Lesser(a, b) == IF a <= b THEN a ELSE b
Free(c) == Capacity - level[c]

\* Mutant: only data counts.
ReadyByData(e) == IF e[2] = "in" THEN level[e[1]] > 0 ELSE Free(e[1]) >= PipeBuf

\* What poll(2) with timeout 0 says of a kernel pipe, and is_empty, is_full
\* and is_closed of a virtual one.
Ready(e) ==
    LET c == e[1] IN
    IF e[2] = "in" THEN level[c] > 0 \/ c \notin open
    ELSE IF c \in Kernel THEN Free(c) >= PipeBuf
    ELSE Free(c) > 0 \/ c \notin open

ReadyEnds(p) == {e \in call[p].ends : Ready(e)}

\* wait_fds: the kernel fds of the call; virtual pipes are left out.
WaitFds(p) == {e \in call[p].ends : e[1] \in Kernel}

-----------------------------------------------------------------------------
(***************************************************************************)
(* Calls.  A coroutine in user code issues one; it is then "ready" until   *)
(* its loop has returned or has parked it.                                 *)
(***************************************************************************)
InUser(p) == inside = None /\ status[p] = "user"

Issue(p, c) ==
    /\ call' = [call EXCEPT ![p] = c]
    /\ status' = [status EXCEPT ![p] = "ready"]
    /\ UNCHANGED << level, open, timer, inside, rest >>

CallRead(p, c, n) ==
    /\ InUser(p)
    /\ Issue(p, [op |-> "read", ends |-> {<<c, "in">>}, size |-> n, timeout |-> -1])

CallWrite(p, c, n) ==
    /\ InUser(p) /\ c \in open
    /\ Issue(p, [op |-> "write", ends |-> {<<c, "out">>}, size |-> n, timeout |-> -1])

CallPoll(p, E, timeout) ==
    /\ InUser(p)
    /\ Issue(p, [op |-> "poll", ends |-> E, size |-> 0, timeout |-> timeout])

\* select builds the pollfds from the fd_sets and calls poll.
CallSelect(p, E, tv) ==
    /\ InUser(p)
    /\ Issue(p, [op |-> "poll", ends |-> E, size |-> 0,
                 timeout |-> IF tv = None THEN -1 ELSE TimeoutMs(tv)])

InCall == {p \in Procs : call[p] # None}

\* The last writer of a channel closes it.
CloseWriter(c) ==
    /\ inside = None /\ c \in open
    /\ ~\E p \in InCall : <<c, "out">> \in call[p].ends
    /\ open' = open \ {c}
    /\ UNCHANGED << level, call, status, timer, inside, rest >>

-----------------------------------------------------------------------------
(***************************************************************************)
(* One turn of the loop of the call of p.                                  *)
(***************************************************************************)
Turn(p, op) ==
    inside = None /\ status[p] = "ready" /\ call[p] # None /\ call[p].op = op

OnKernel(p) == \E e \in call[p].ends : e[1] \in Kernel
Chan(p) == CHOOSE c \in Chans : \E d \in {"in", "out"} : <<c, d>> \in call[p].ends

Returns(p) ==
    /\ call' = [call EXCEPT ![p] = None]
    /\ status' = [status EXCEPT ![p] = "user"]

Deadline(p) == IF call[p].timeout < 0 THEN -1 ELSE call[p].timeout

\* yield_for_io: the coroutine leaves the ready queue with a new deadline.
Park(p) ==
    /\ status' = [status EXCEPT ![p] = "parked"]
    /\ timer' = [timer EXCEPT ![p] = Deadline(p)]
    /\ UNCHANGED << level, open, call, inside, rest >>

\* Mutant: read without a check.
EnterUnchecked(p) ==
    /\ inside' = p
    /\ rest' = call[p].size
    /\ UNCHANGED << level, open, call, status, timer >>

\* read and write on a kernel fd that poll reports ready: into the kernel.
Enter(p) ==
    /\ ReadyEnds(p) # {}
    /\ inside' = p
    /\ rest' = call[p].size
    /\ UNCHANGED << level, open, call, status, timer >>

\* read and write on a kernel fd.
KernelTurn(p) ==
    /\ Turn(p, "read") \/ Turn(p, "write")
    /\ OnKernel(p)
    /\ \/ Enter(p)
       \/ ReadyEnds(p) = {} /\ Park(p)

\* poll(2) fails in read or write: -1.
KernelPollFails(p) ==
    /\ Turn(p, "read") \/ Turn(p, "write")
    /\ OnKernel(p)
    /\ Returns(p)
    /\ UNCHANGED << level, open, timer, inside, rest >>

\* read on a virtual pipe; without data it only yields.
VirtualRead(p) ==
    /\ Turn(p, "read") /\ ~OnKernel(p)
    /\ LET c == Chan(p) IN
         /\ Ready(<<c, "in">>)
         /\ level' = [level EXCEPT ![c] = @ - Lesser(@, call[p].size)]
    /\ Returns(p)
    /\ UNCHANGED << open, timer, inside, rest >>

\* write on a virtual pipe; when it is full it only yields.  (No writer is
\* in a call when its channel closes, so the SIGPIPE exit is PipeRing's.)
VirtualWrite(p) ==
    /\ Turn(p, "write") /\ ~OnKernel(p)
    /\ LET c == Chan(p) IN
         /\ Free(c) > 0
         /\ level' = [level EXCEPT ![c] = @ + Lesser(Free(c), call[p].size)]
    /\ Returns(p)
    /\ UNCHANGED << open, timer, inside, rest >>

\* poll and select: some end is ready, or timeout is 0.
PollReturns(p) ==
    /\ Turn(p, "poll") /\ call[p].ends # {}
    /\ ReadyEnds(p) # {} \/ call[p].timeout = 0
    /\ Returns(p)
    /\ UNCHANGED << level, open, timer, inside, rest >>

PollParks(p) ==
    /\ Turn(p, "poll") /\ call[p].ends # {}
    /\ ReadyEnds(p) = {} /\ call[p].timeout # 0
    /\ Park(p)

\* poll with no fds is the kernel's poll.
PollEmpty(p) ==
    /\ Turn(p, "poll") /\ call[p].ends = {}
    /\ inside' = p
    /\ timer' = [timer EXCEPT ![p] = Deadline(p)]
    /\ UNCHANGED << level, open, call, status, rest >>
-----------------------------------------------------------------------------
(***************************************************************************)
(* The kernel, other OS processes, time.                                   *)
(***************************************************************************)
Leaves(p) == inside' = None /\ Returns(p)

\* The call that the driver thread is in can go on.
CanProceed(p) ==
    CASE call[p].op = "read" -> Ready(<<Chan(p), "in">>)
      [] call[p].op = "write" -> Free(Chan(p)) > 0
      [] OTHER -> timer[p] = 0

KernelReads ==
    \E p \in Procs :
        /\ inside = p /\ call[p].op = "read" /\ CanProceed(p)
        /\ level' = [level EXCEPT ![Chan(p)] = @ - Lesser(@, call[p].size)]
        /\ Leaves(p)
        /\ rest' = 0
        /\ UNCHANGED << open, timer >>

\* write(2) on a blocking pipe takes what fits and waits to take the rest.
KernelWrites ==
    \E p \in Procs :
        /\ inside = p /\ call[p].op = "write" /\ CanProceed(p)
        /\ LET n == Lesser(Free(Chan(p)), rest) IN
             /\ level' = [level EXCEPT ![Chan(p)] = @ + n]
             /\ rest' = rest - n
             /\ IF n = rest THEN Leaves(p) ELSE UNCHANGED << inside, call, status >>
        /\ UNCHANGED << open, timer >>

KernelWakes ==
    \E p \in Procs :
        /\ inside = p /\ call[p].op = "poll" /\ CanProceed(p)
        /\ Leaves(p)
        /\ UNCHANGED << level, open, timer, rest >>

\* Another OS process reads from a shared kernel pipe.
OutsideReads(c) ==
    /\ c \in scenario.outside /\ level[c] > 0
    /\ level' = [level EXCEPT ![c] = @ - 1]
    /\ UNCHANGED << open, call, status, timer, inside, rest >>

Tick ==
    /\ \E p \in Procs : timer[p] > 0
    /\ timer' = [p \in Procs |-> IF timer[p] > 0 THEN timer[p] - 1 ELSE timer[p]]
    /\ UNCHANGED << level, open, call, status, inside, rest >>
-----------------------------------------------------------------------------
(***************************************************************************)
(* The driver.                                                             *)
(***************************************************************************)
Parked == {p \in Procs : status[p] = "parked"}

\* Mutant: deadlines are not looked at.
WokenByFds == {p \in Parked : \E e \in WaitFds(p) : Ready(e)}

\* The coroutines that wake_io_ready puts back: an fd is ready or the
\* deadline has passed.
Woken == {p \in Parked : (\E e \in WaitFds(p) : Ready(e)) \/ timer[p] = 0}

\* collect_io_waits, poll(2) for up to 50 ms, wake_io_ready; nothing happens
\* when no waiting coroutine has an fd.
DriverPolls ==
    /\ inside = None
    /\ \E p \in Parked : WaitFds(p) # {}
    /\ Woken # {}
    /\ status' = [p \in Procs |-> IF p \in Woken THEN "ready" ELSE status[p]]
    /\ timer' = [p \in Procs |-> IF p \in Woken THEN -1 ELSE timer[p]]
    /\ UNCHANGED << level, open, call, inside, rest >>

LoopTurn(p) ==
    KernelTurn(p) \/ VirtualRead(p) \/ VirtualWrite(p) \/ PollReturns(p)
        \/ PollParks(p) \/ PollEmpty(p)

Act ==
    \/ \E p \in Procs : LoopTurn(p) \/ KernelPollFails(p)
    \/ \E p \in Procs, c \in scenario.chans, n \in Sizes :
          CallRead(p, c, n) \/ CallWrite(p, c, n)
    \/ \E p \in Procs, E \in scenario.ends : \E t \in scenario.timeouts : CallPoll(p, E, t)
    \/ \E p \in Procs, E \in scenario.ends : \E tv \in scenario.timevals : CallSelect(p, E, tv)
    \/ \E c \in scenario.chans : CloseWriter(c) \/ OutsideReads(c)
    \/ KernelReads \/ KernelWrites \/ KernelWakes \/ Tick \/ DriverPolls

Next == Act /\ UNCHANGED scenario

Spec == Init /\ [][Next]_<< scenario, vars >>

\* If coroutines reach calls that switch, ready ones get their turn (round
\* robin, see Executor) and the driver loop comes back to its poll: both may
\* be delayed by others' calls again and again, hence SF.  Time passes, and
\* kernel calls that can return do.
Fairness ==
    /\ \A p \in Procs : SF_vars(LoopTurn(p))
    /\ SF_vars(DriverPolls)
    /\ WF_vars(Tick)
    /\ WF_vars(KernelReads \/ KernelWrites \/ KernelWakes)

FairSpec == Spec /\ Fairness
-----------------------------------------------------------------------------
\* The driver thread never waits inside a kernel call made for one coroutine
\* while the others could run: that is what the readiness check before each
\* read and write is for (preload.rs:658).  It cannot help when another OS
\* process takes the data between the check and the read, when a write is
\* longer than PIPE_BUF, and poll without fds makes no check.
DriverNeverBlocks ==
    inside # None =>
        \/ CanProceed(inside)
        \/ call[inside].ends = {} \/ Chan(inside) \in scenario.outside
        \/ call[inside].op = "write" /\ call[inside].size > PipeBuf

DriverStuck == inside # None /\ ~CanProceed(inside)

\* When the last writer of a kernel pipe is gone, everyone who reads it or
\* polls it for input gets an answer, however many others wait or compete,
\* unless the driver thread gets stuck in a kernel call.
HangupIsSeen ==
    \A p \in Procs, c \in Kernel :
        (call[p] # None /\ <<c, "in">> \in call[p].ends /\ c \notin open)
            ~> (call[p] = None \/ DriverStuck)

\* A wait with a deadline comes back to its coroutine, if it is for some fd
\* and the driver thread does not get stuck.
DeadlinesAreChecked ==
    \A p \in Procs :
        (status[p] = "parked" /\ timer[p] >= 0 /\ WaitFds(p) # {})
            ~> (status[p] # "parked" \/ DriverStuck)
=============================================================================
