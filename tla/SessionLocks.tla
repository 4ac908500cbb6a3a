---------------------------- MODULE SessionLocks ----------------------------
(***************************************************************************)
(* The locks of several sessions (src/src/ffi.rs): the mutex of the map    *)
(* SESSIONS and the mutex of each session, taken by client threads in the  *)
(* vproc_ffi_ calls and by the driver threads.  A driver holds its session *)
(* mutex while a coroutine runs; with the C preload library                *)
(* (src/preload/preload.c) that coroutine may call vproc_ffi_vpid_exists,  *)
(* which takes both kinds of mutex.                                        *)
(*                                                                         *)
(* Lock 0 is SESSIONS, lock s the mutex of session s.  The locks of spawn  *)
(* queues and results are held for single operations only, and nothing     *)
(* else is locked meanwhile; they are left out.  What a session's driver   *)
(* and its clients say to each other is in SessionDriver.                  *)
(***************************************************************************)
EXTENDS Integers

CONSTANTS MaxId,        \* bound: sessions created
          Clients,      \* client threads
          Calls,        \* the calls on sessions that they make
          Preload,      \* programs run on the C preload library
          Pids,         \* pids of live processes that programs ask about
          Tries,        \* bound: looks of vproc_ffi_probe at its result (50)
          None          \* no thread, no lock, no call

ASSUME LocksAssumption ==
    /\ MaxId \in Nat /\ Tries \in Nat \ {0} /\ Preload \in BOOLEAN /\ Pids \subseteq Nat
    /\ Calls \subseteq {"destroy", "process", "wait", "exists"}

VARIABLES owner,       \* which thread holds each lock
          registered,  \* the keys of SESSIONS
          next_id,     \* NEXT_SESSION_ID
          shutdown,    \* sessions whose shutdown flag is set
          at,          \* where each thread is
          call,        \* the call it is in, and on which session
          queued,      \* sessions whose spawn queue holds a request
          programs,    \* sessions in which a program was started
          pending      \* clients whose result slot is still empty

vars == <<owner, registered, next_id, shutdown, at, call, queued, programs,
          pending>>
requests == <<queued, programs, pending>>

Ids == 1..MaxId
Locks == 0..MaxId
Client(c) == <<"client", c>>
Driver(s) == <<"driver", s>>
ClientThreads == {Client(c) : c \in Clients}
DriverThreads == {Driver(s) : s \in Ids}
Threads == ClientThreads \cup DriverThreads

ASSUME NoneAssumption == None \notin Threads

NewCall(op, s) == [op |-> op, id |-> s, left |-> Tries]

Init ==
    /\ owner = [l \in Locks |-> None]
    /\ registered = {} /\ next_id = 1 /\ shutdown = {}
    /\ at = [t \in Threads |-> IF t \in ClientThreads THEN "idle" ELSE "none"]
    /\ call = [t \in Threads |-> None]
    /\ pending = {} /\ queued = {} /\ programs = {}

Held(t) == {l \in Locks : owner[l] = t}

\* The lock that thread t waits for, if it waits for one.
Wanted(t) ==
    CASE at[t] = "sessions" -> 0
      [] at[t] \in {"session", "again"} -> call[t].id
      [] at[t] \in {"start", "top"} -> t[2]
      [] OTHER -> None

Goto(t, place) == at' = [at EXCEPT ![t] = place]
Acquire(t, l) == owner[l] = None /\ owner' = [owner EXCEPT ![l] = t]
Release(t, S) == owner' = [l \in Locks |-> IF l \in S THEN None ELSE owner[l]]

\* The call of t returns, a program's to its slice.
Return(t) ==
    /\ Goto(t, IF t \in ClientThreads THEN "idle" ELSE "slice")
    /\ call' = [call EXCEPT ![t] = None]

-----------------------------------------------------------------------------
(* Calls.                                                                  *)

\* vproc_ffi_create_session, and vproc_ffi_probe, which calls it: the driver
\* starts before the session is in the map.
CreateSession(t, op) ==
    /\ at[t] = "idle" /\ next_id \in Ids
    /\ next_id' = next_id + 1
    /\ call' = [call EXCEPT ![t] = NewCall(op, next_id)]
    /\ at' = [at EXCEPT ![t] = "sessions", ![Driver(next_id)] = "start"]
    /\ UNCHANGED <<owner, registered, shutdown, requests>>

\* A client calls destroy_session, create_process, run_until_exit or
\* vpid_exists for a session that was created.
Call(t, op, s) ==
    /\ at[t] = "idle" /\ s < next_id
    /\ call' = [call EXCEPT ![t] = NewCall(op, s)]
    /\ Goto(t, "sessions")
    /\ UNCHANGED <<owner, registered, next_id, shutdown, requests>>

\* A program calls waitpid, kill, getpgid or setpgid of the C preload library
\* on a process of its session.  The library's vpid_exists has one argument,
\* the pid; vproc_ffi_vpid_exists takes that for the session's id.
PreloadCall(s, p) ==
    /\ Preload /\ s \in programs
    /\ at[Driver(s)] = "slice"
    /\ call' = [call EXCEPT ![Driver(s)] = NewCall("exists", p)]
    /\ Goto(Driver(s), "sessions")
    /\ UNCHANGED <<owner, registered, next_id, shutdown, requests>>

LockSessions(t) ==
    /\ at[t] = "sessions" /\ Acquire(t, 0)
    /\ Goto(t, "lookup")
    /\ UNCHANGED <<registered, next_id, shutdown, call, requests>>

\* Under the SESSIONS lock: a session that is not there ends the call ...
NotFound(t) ==
    /\ at[t] = "lookup" /\ call[t].op \notin {"create", "probe"}
    /\ call[t].id \notin registered
    /\ Release(t, {0}) /\ Return(t)
    /\ UNCHANGED <<registered, next_id, shutdown, requests>>

\* ... create_session inserts it, after which probe looks it up ...
Registered(t) ==
    /\ at[t] = "lookup" /\ call[t].op \in {"create", "probe"}
    /\ registered' = registered \cup {call[t].id}
    /\ Release(t, {0})
    /\ \/ call[t].op = "create" /\ Return(t)
       \/ /\ call[t].op = "probe"
          /\ call' = [call EXCEPT ![t].op = "result"]
          /\ Goto(t, "sessions")
    /\ UNCHANGED <<next_id, shutdown, requests>>

\* Mutant: destroy_session leaves the session in the map.
FoundKeepsEntry(t) ==
    /\ at[t] = "lookup" /\ call[t].op \notin {"create", "probe"} /\ call[t].id \in registered
    /\ IF call[t].op \in {"destroy", "exists"} THEN UNCHANGED owner ELSE Release(t, {0})
    /\ Goto(t, "session")
    /\ UNCHANGED <<registered, next_id, shutdown, call, requests>>

\* ... and the others have found it.  destroy_session has removed it, and it
\* and vpid_exists keep the map locked.
Found(t) ==
    /\ at[t] = "lookup" /\ call[t].op \notin {"create", "probe"} /\ call[t].id \in registered
    /\ registered' = IF call[t].op = "destroy" THEN registered \ {call[t].id} ELSE registered
    /\ IF call[t].op \in {"destroy", "exists"} THEN UNCHANGED owner ELSE Release(t, {0})
    /\ Goto(t, "session")
    /\ UNCHANGED <<next_id, shutdown, call, requests>>

LockSession(t) ==
    /\ at[t] = "session" /\ Acquire(t, call[t].id)
    /\ Goto(t, "inside")
    /\ UNCHANGED <<registered, next_id, shutdown, call, requests>>

\* create_process gives up after 100 attempts of try_lock.
TryLockFails(t) ==
    /\ at[t] = "session" /\ call[t].op = "process" /\ owner[call[t].id] # None
    /\ Return(t)
    /\ UNCHANGED <<owner, registered, next_id, shutdown, requests>>

\* Mutant: run_until_exit does not drop its guard before it locks again.
InsideKeepsGuard(t) ==
    /\ at[t] = "inside"
    /\ IF call[t].op = "wait"
       THEN Goto(t, "again") /\ UNCHANGED <<owner, call>>
       ELSE Return(t) /\ Release(t, {0, call[t].id} \cap Held(t))
    /\ UNCHANGED <<registered, next_id, shutdown, requests>>

\* The session mutex is released, and with it the map's if it is held.
\* create_process pushes its request; run_until_exit may have found the exit
\* code; probe looks again until it has a result or has tried often enough.
Inside(t) ==
    LET op == call[t].op
        s == call[t].id
    IN /\ at[t] = "inside"
       /\ Release(t, {0, s} \cap Held(t))
       /\ shutdown' = IF op = "destroy" THEN shutdown \cup {s} ELSE shutdown
       /\ queued' = IF op = "process" THEN queued \cup {s} ELSE queued
       /\ pending' = IF op = "process" THEN pending \cup {t} ELSE pending
       /\ \/ op \in {"process", "wait"} /\ Goto(t, "again") /\ UNCHANGED call
          \/ /\ op = "result" /\ call[t].left > 1 /\ Goto(t, "session")
             /\ call' = [call EXCEPT ![t].left = @ - 1]
          \/ op # "process" /\ Return(t)
       /\ UNCHANGED <<registered, next_id, programs>>

\* create_process locks again to notify, run_until_exit to look once more and
\* to register its waiter.
Again(t) ==
    /\ at[t] = "again" /\ owner[call[t].id] = None
    /\ \/ /\ Goto(t, "poll")
          /\ pending' = IF call[t].op = "wait" THEN pending \cup {t} ELSE pending
          /\ UNCHANGED call
       \/ call[t].op = "wait" /\ Return(t) /\ UNCHANGED pending
    /\ UNCHANGED <<owner, registered, next_id, shutdown, queued, programs>>

\* Mutant: the caller polls until the slot is filled.
PollsForEver(t) ==
    /\ at[t] = "poll" /\ t \notin pending
    /\ Return(t)
    /\ UNCHANGED <<owner, registered, next_id, shutdown, requests>>

\* The result slot is filled, or the caller has polled it often enough.
PollEnds(t) ==
    /\ at[t] = "poll"
    /\ pending' = pending \ {t}
    /\ Return(t)
    /\ UNCHANGED <<owner, registered, next_id, shutdown, queued, programs>>

-----------------------------------------------------------------------------
(* The driver threads.                                                     *)

\* The driver locks its session to store the saved fds, then to store the
\* result of the self-test.
DriverStarts(s) ==
    /\ at[Driver(s)] = "start" /\ owner[s] = None
    /\ Goto(Driver(s), "top")
    /\ UNCHANGED <<owner, registered, next_id, shutdown, call, requests>>

\* The top of the loop.  The queue is drained, which may start a program, and
\* a coroutine is resumed.  Every request is answered, and the waiters of
\* programs that have exited.
DriverLocks(s) ==
    LET mine == {t \in pending : call[t].id = s}
    IN /\ at[Driver(s)] = "top" /\ s \notin shutdown
       /\ Acquire(Driver(s), s)
       /\ Goto(Driver(s), "slice")
       /\ queued' = queued \ {s}
       /\ programs' \in {programs, programs \cup (queued \cap {s})}
       /\ \E S \in SUBSET {t \in mine : call[t].op = "wait"} :
             pending' = pending \ (S \cup {t \in mine : call[t].op = "process"})
       /\ UNCHANGED <<registered, next_id, shutdown, call>>

DriverEnds(s) ==
    /\ at[Driver(s)] = "top" /\ s \in shutdown /\ owner[s] = None
    /\ Goto(Driver(s), "ended")
    /\ UNCHANGED <<owner, registered, next_id, shutdown, call, requests>>

\* The coroutine switches, and the driver unlocks the session to poll or sleep.
SliceEnds(s) ==
    /\ at[Driver(s)] = "slice"
    /\ Release(Driver(s), {s})
    /\ Goto(Driver(s), "rest")
    /\ UNCHANGED <<registered, next_id, shutdown, call, requests>>

\* It has the mutex again and sees work, or the shutdown flag.
DriverReturns(s) ==
    /\ at[Driver(s)] = "rest" /\ owner[s] = None
    /\ Goto(Driver(s), "top")
    /\ UNCHANGED <<owner, registered, next_id, shutdown, call, requests>>

\* The steps of a call that only its thread's progress delays, and those that
\* wait for a lock.
Advance(t) == NotFound(t) \/ Registered(t) \/ Found(t) \/ Inside(t) \/ PollEnds(t)
TakesLock(t) == LockSessions(t) \/ LockSession(t) \/ Again(t)

Next ==
    \/ \E t \in ClientThreads :
          \/ \E op \in {"create", "probe"} : CreateSession(t, op)
          \/ \E op \in Calls, s \in Ids : Call(t, op, s)
          \/ TryLockFails(t)
    \/ \E t \in Threads : Advance(t) \/ TakesLock(t)
    \/ \E s \in Ids :
          \/ DriverStarts(s) \/ DriverLocks(s) \/ DriverEnds(s)
          \/ SliceEnds(s) \/ DriverReturns(s)
          \/ \E p \in Pids : PreloadCall(s, p)

Spec == Init /\ [][Next]_vars

\* Threads keep running, a free mutex is not denied to one waiter for ever,
\* and programs reach a call that switches.
ThreadsRun == \A t \in Threads : WF_vars(Advance(t)) /\ SF_vars(TakesLock(t))
FairSpec == Spec /\ ThreadsRun /\ \A s \in Ids : SF_vars(SliceEnds(s))

-----------------------------------------------------------------------------
(* Properties.                                                             *)

\* The state has the types of ffi.rs, and a lock's owner is where it may hold
\* that lock.
TypeOK ==
    /\ owner \in [Locks -> Threads \cup {None}]
    /\ registered \subseteq 1..(next_id - 1) /\ shutdown \subseteq 1..(next_id - 1)
    /\ \A t \in ClientThreads :
          /\ at[t] \in {"idle", "sessions", "again", "poll"} => Held(t) = {}
          /\ at[t] = "inside" => call[t].id \in Held(t)
    /\ \A s \in Ids :
          at[Driver(s)] \in {"none", "start", "top", "rest", "ended"} => Held(Driver(s)) = {}

\* t waits for a lock that u holds.
WaitsFor(t, u) == Wanted(t) # None /\ owner[Wanted(t)] = u

\* No threads wait for each other in a circle, nor one for a mutex it holds:
\* the order of the locks in the vproc_ffi_ calls and the driver.
NoWaitCycle ==
    \A S \in (SUBSET Threads) \ {{}} : \E t \in S : \A u \in S : ~ WaitsFor(t, u)

\* A session that a client finds in the map has not been told to shut down,
\* and its driver has not ended: destroy_session removes it first.
FoundSessionsRun ==
    \A s \in registered : s \notin shutdown /\ at[Driver(s)] # "ended"

\* Every call of a client returns, on whichever sessions the others call.
CallsReturn == \A t \in ClientThreads : (at[t] # "idle") ~> (at[t] = "idle")
=============================================================================
