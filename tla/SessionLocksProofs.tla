------------------------ MODULE SessionLocksProofs ------------------------
(***************************************************************************)
(* For any number of sessions and client threads, programs that do not use *)
(* the C preload library cause no deadlock on the session mutexes.  The    *)
(* locks have an order: who waits for SESSIONS holds nothing, who waits    *)
(* for a session mutex holds at most SESSIONS, and who holds a session     *)
(* mutex waits for nothing.                                                *)
(***************************************************************************)
EXTENDS SessionLocks, TLAPS

\* A leaf that names no prover is tried by Zenon, by the SMT solver, and by
\* Zenon again for longer.
USE ZenonT(3), SMTT(30), ZenonT(60)

\* Where the threads of clients and drivers can be.
ClientPlaces == {"idle", "sessions", "lookup", "session", "inside", "again", "poll"}
DriverPlaces == {"none", "start", "top", "slice", "rest", "ended"}

\* What a client's thread keeps of the call it is in.
Ops == {"create", "probe", "result", "destroy", "process", "wait", "exists"}
CallRecord == [op : Ops, id : Ids, left : Nat]

\* Which locks a thread may hold where it is.
MayHold(t, l) ==
    \/ t \in ClientThreads /\ at[t] = "lookup" /\ l = 0
    \/ t \in ClientThreads /\ at[t] = "session" /\ call[t].op \in {"destroy", "exists"} /\ l = 0
    \/ t \in ClientThreads /\ at[t] = "inside" /\ l \in {0, call[t].id}
    \/ t \in DriverThreads /\ at[t] = "slice" /\ l = t[2]

\* The inductive invariant.
LockOrder ==
    /\ DOMAIN owner = Locks /\ DOMAIN at = Threads /\ DOMAIN call = Threads
    /\ next_id \in Nat
    /\ \A t \in ClientThreads : at[t] \in ClientPlaces
    /\ \A t \in DriverThreads : at[t] \in DriverPlaces
    /\ \A t \in ClientThreads : at[t] # "idle" => call[t] \in CallRecord
    /\ \A s \in Ids : s >= next_id => at[Driver(s)] = "none"
    /\ \A t \in Threads, l \in Locks : owner[l] = t => MayHold(t, l)

\* Client and driver threads are different threads.
LEMMA TwoKinds ==
    ClientThreads \cap DriverThreads = {}
BY DEF ClientThreads, DriverThreads, Client, Driver

\* Initially nothing is held.
LEMMA LockOrderInit == Init => LockOrder
<1> SUFFICES ASSUME Init PROVE LockOrder
  OBVIOUS
<1>1. DOMAIN owner = Locks /\ DOMAIN at = Threads /\ DOMAIN call = Threads /\ next_id \in Nat
  BY DEF Init
<1>2. \A t \in ClientThreads : at[t] = "idle" /\ at[t] \in ClientPlaces
  BY DEF Init, Threads, ClientPlaces
<1>3. \A t \in DriverThreads : at[t] = "none"
  BY TwoKinds DEF Init, Threads
<1>4. \A s \in Ids : at[Driver(s)] = "none"
  BY <1>3 DEF DriverThreads
<1>5. \A t \in Threads, l \in Locks : owner[l] # t
  BY NoneAssumption DEF Init
<1> QED BY <1>1, <1>2, <1>3, <1>4, <1>5 DEF LockOrder, DriverPlaces

\* A call begins with a record of the call, and keeps one.
LEMMA NewCallRecord ==
    ASSUME NEW op \in Ops, NEW s \in Ids
    PROVE  NewCall(op, s) \in CallRecord
<1>1. Tries \in Nat
  BY LocksAssumption
<1> QED BY <1>1, Zenon DEF NewCall, CallRecord

\* vproc_ffi_probe goes on to look for its result.
LEMMA ResultRecord ==
    ASSUME NEW r \in CallRecord
    PROVE  [r EXCEPT !.op = "result"] \in CallRecord
BY Zenon DEF CallRecord, Ops

\* It looks once more.
LEMMA TriedRecord ==
    ASSUME NEW r \in CallRecord, r.left > 1
    PROVE  [r EXCEPT !.left = @ - 1] \in CallRecord
<1>1. r.left - 1 \in Nat
  BY DEF CallRecord
<1> QED BY <1>1, Zenon DEF CallRecord

\* What a step that touches one thread's place and call needs to preserve.
LEMMA ClientStep ==
    ASSUME LockOrder, NEW t \in ClientThreads, NEW place \in ClientPlaces,
           at' = [at EXCEPT ![t] = place],
           DOMAIN owner' = Locks, DOMAIN call' = Threads,
           next_id' = next_id, place # "idle" => call'[t] \in CallRecord,
           \A u \in Threads \ {t} : call'[u] = call[u],
           \A u \in Threads \ {t}, l \in Locks : owner'[l] = u => owner[l] = u,
           \A l \in Locks : owner'[l] = t => MayHold(t, l)'
    PROVE  LockOrder'
<1> USE TwoKinds DEF LockOrder
<1>1. t \in Threads
  BY DEF Threads
<1>2. DOMAIN at' = Threads /\ at'[t] = place /\ \A u \in Threads \ {t} : at'[u] = at[u]
  BY <1>1
<1>3. \A u \in ClientThreads : at'[u] \in ClientPlaces
  BY <1>2 DEF Threads
<1>7. \A u \in ClientThreads : at'[u] # "idle" => call'[u] \in CallRecord
  BY <1>2 DEF Threads
<1>4. \A u \in DriverThreads : at'[u] = at[u]
  BY <1>2 DEF Threads
<1>5. \A s \in Ids : at'[Driver(s)] = at[Driver(s)]
  BY <1>4 DEF DriverThreads
<1>6. \A u \in Threads, l \in Locks : owner'[l] = u => MayHold(u, l)'
  <2> SUFFICES ASSUME NEW u \in Threads, NEW l \in Locks, owner'[l] = u
               PROVE  MayHold(u, l)'
    OBVIOUS
  <2>1. CASE u = t
    BY <2>1
  <2>2. CASE u # t
    BY <2>2, <1>2 DEF MayHold
  <2> QED BY <2>1, <2>2
<1> QED BY <1>2, <1>3, <1>4, <1>5, <1>6, <1>7

\* The same for a driver.
LEMMA DriverStep ==
    ASSUME LockOrder, NEW s \in Ids, NEW place \in DriverPlaces,
           at[Driver(s)] # "none",
           at' = [at EXCEPT ![Driver(s)] = place],
           DOMAIN owner' = Locks, call' = call,
           next_id' = next_id,
           \A u \in Threads \ {Driver(s)}, l \in Locks : owner'[l] = u => owner[l] = u,
           \A l \in Locks : owner'[l] = Driver(s) => MayHold(Driver(s), l)'
    PROVE  LockOrder'
<1> USE TwoKinds DEF LockOrder
<1>1. Driver(s) \in Threads /\ Driver(s) \in DriverThreads
  BY DEF Threads, DriverThreads
<1>2. DOMAIN at' = Threads /\ at'[Driver(s)] = place
      /\ \A u \in Threads \ {Driver(s)} : at'[u] = at[u]
  BY <1>1
<1>3. \A u \in ClientThreads : at'[u] \in ClientPlaces
  BY <1>1, <1>2 DEF Threads
<1>7. \A u \in ClientThreads : at'[u] # "idle" => call'[u] \in CallRecord
  BY <1>1, <1>2 DEF Threads
<1>4. \A u \in DriverThreads : at'[u] \in DriverPlaces
  BY <1>1, <1>2 DEF Threads
<1>5. \A r \in Ids : r >= next_id => at'[Driver(r)] = "none"
  BY <1>1, <1>2 DEF Threads, DriverThreads
<1>6. \A u \in Threads, l \in Locks : owner'[l] = u => MayHold(u, l)'
  <2> SUFFICES ASSUME NEW u \in Threads, NEW l \in Locks, owner'[l] = u
               PROVE  MayHold(u, l)'
    OBVIOUS
  <2>1. CASE u = Driver(s)
    BY <2>1
  <2>2. CASE u # Driver(s)
    BY <2>2, <1>2 DEF MayHold
  <2> QED BY <2>1, <2>2
<1> QED BY <1>2, <1>3, <1>4, <1>5, <1>6, <1>7

\* Every step preserves the order.
LEMMA LockOrderNext ==
    ASSUME ~ Preload, LockOrder, [Next]_vars
    PROVE  LockOrder'
<1> USE NoneAssumption, TwoKinds
<1>t. \A t \in ClientThreads : t \in Threads
  BY DEF Threads
<1>d. \A s \in Ids : Driver(s) \in DriverThreads /\ Driver(s) \in Threads /\ Driver(s)[2] = s
  BY DEF Threads, DriverThreads, Driver
<1>l. 0 \in Locks /\ \A s \in Ids : s \in Locks
  BY LocksAssumption DEF Locks, Ids
<1>o. DOMAIN owner = Locks /\ DOMAIN at = Threads /\ DOMAIN call = Threads
  BY DEF LockOrder
<1>h. \A t \in Threads, l \in Locks : owner[l] = t => MayHold(t, l)
  BY DEF LockOrder
<1>r. \A t \in ClientThreads : at[t] # "idle" => call[t] \in CallRecord
  BY DEF LockOrder
<1>1. CASE UNCHANGED vars
  BY <1>1 DEF vars, LockOrder, MayHold
<1>2. ASSUME NEW t \in ClientThreads, NEW op \in {"create", "probe"}, CreateSession(t, op)
      PROVE  LockOrder'
  <2> DEFINE d == Driver(next_id)
  <2>1. next_id \in Ids /\ at[t] = "idle" /\ at[d] = "none" /\ next_id \in Nat
    BY <1>2 DEF CreateSession, LockOrder
  <2>2. d \in DriverThreads /\ d \in Threads /\ t \in Threads /\ d # t
    BY <2>1, <1>d, <1>t
  <2>3. /\ at' = [at EXCEPT ![t] = "sessions", ![d] = "start"]
        /\ next_id' = next_id + 1 /\ owner' = owner
        /\ DOMAIN call' = Threads /\ \A u \in Threads \ {t} : call'[u] = call[u]
    BY <1>2, <1>o, <2>2 DEF CreateSession
  <2>n. call'[t] = NewCall(op, next_id)
    BY <1>2, <1>o, <2>2 DEF CreateSession
  <2>r. call'[t] \in CallRecord
    BY <2>n, <2>1, NewCallRecord DEF Ops
  <2> HIDE DEF d
  <2>4. /\ DOMAIN at' = Threads /\ at'[t] = "sessions" /\ at'[d] = "start"
        /\ \A u \in Threads \ {t, d} : at'[u] = at[u]
    BY <2>2, <2>3, <1>o
  <2>5. \A u \in ClientThreads : at'[u] \in ClientPlaces
    BY <2>2, <2>4, <1>t DEF LockOrder, ClientPlaces
  <2>c. \A u \in ClientThreads : at'[u] # "idle" => call'[u] \in CallRecord
    BY <2>2, <2>3, <2>4, <2>r, <1>t DEF LockOrder
  <2>6. \A u \in DriverThreads : at'[u] \in DriverPlaces
    BY <2>2, <2>4 DEF LockOrder, DriverPlaces, Threads
  <2>7. \A s \in Ids : s >= next_id' => at'[Driver(s)] = "none"
    <3> SUFFICES ASSUME NEW s \in Ids, s >= next_id + 1 PROVE at'[Driver(s)] = "none"
      BY <2>3
    <3>1. s # next_id /\ s >= next_id
      BY <2>1 DEF Ids
    <3>2. Driver(s) # d /\ Driver(s) # t /\ Driver(s) \in Threads
      BY <3>1, <1>d, <2>1 DEF d
    <3> QED BY <3>1, <3>2, <2>4 DEF LockOrder
  <2>8. \A u \in Threads, l \in Locks : owner[l] = u => u # t /\ u # d
    BY <1>h, <2>1, <2>2 DEF MayHold, d
  <2>9. \A u \in Threads, l \in Locks : owner'[l] = u => MayHold(u, l)'
    <3> SUFFICES ASSUME NEW u \in Threads, NEW l \in Locks, owner[l] = u
                 PROVE  MayHold(u, l)'
      BY <2>3
    <3>1. u # t /\ u # d /\ MayHold(u, l)
      BY <2>8, <1>h
    <3>2. at'[u] = at[u] /\ call'[u] = call[u]
      BY <3>1, <2>3, <2>4
    <3> QED BY <3>1, <3>2 DEF MayHold
  <2>10. next_id' \in Nat
    BY <2>1, <2>3
  <2> QED BY <2>3, <2>4, <2>5, <2>6, <2>7, <2>9, <2>10, <2>c, <1>o DEF LockOrder
<1>3. ASSUME NEW t \in ClientThreads, NEW op \in Calls, NEW s \in Ids, Call(t, op, s)
      PROVE  LockOrder'
  <2>1. /\ at' = [at EXCEPT ![t] = "sessions"]
        /\ DOMAIN call' = Threads /\ \A u \in Threads \ {t} : call'[u] = call[u]
        /\ DOMAIN owner' = Locks /\ next_id' = next_id
    BY <1>3, <1>o DEF Call, Goto, Acquire, Release, requests
  <2>2. \A u \in Threads \ {t}, l \in Locks : owner'[l] = u => owner[l] = u
    BY <1>3, <1>o DEF Call, Acquire, Release
  <2>3. \A l \in Locks : owner'[l] = t => MayHold(t, l)'
    BY <1>3, <1>o, <1>h, <1>t, <2>1 DEF Call, Acquire, Release, MayHold
  <2>n. call'[t] = NewCall(op, s) /\ op \in Ops
    BY <1>3, <1>o, <1>t, LocksAssumption DEF Call, Ops
  <2>4. call'[t] \in CallRecord
    BY <2>n, NewCallRecord
  <2> QED BY <2>1, <2>2, <2>3, <2>4, ClientStep DEF ClientPlaces
<1>4. ASSUME NEW t \in ClientThreads, LockSessions(t)
      PROVE  LockOrder'
  <2>1. /\ at' = [at EXCEPT ![t] = "lookup"]
        /\ DOMAIN call' = Threads /\ \A u \in Threads \ {t} : call'[u] = call[u]
        /\ DOMAIN owner' = Locks /\ next_id' = next_id
    BY <1>4, <1>o DEF LockSessions, Goto, Acquire, Release, requests
  <2>2. \A u \in Threads \ {t}, l \in Locks : owner'[l] = u => owner[l] = u
    BY <1>4, <1>o DEF LockSessions, Acquire, Release
  <2>3. \A l \in Locks : owner'[l] = t => MayHold(t, l)'
    BY <1>4, <1>o, <1>h, <1>t, <2>1 DEF LockSessions, Acquire, Release, MayHold
  <2>4. call'[t] \in CallRecord
    BY <1>4, <1>r DEF LockSessions
  <2> QED BY <2>1, <2>2, <2>3, <2>4, ClientStep DEF ClientPlaces
<1>5. ASSUME NEW t \in ClientThreads, NotFound(t)
      PROVE  LockOrder'
  <2>1. /\ at' = [at EXCEPT ![t] = "idle"]
        /\ DOMAIN call' = Threads /\ \A u \in Threads \ {t} : call'[u] = call[u]
        /\ DOMAIN owner' = Locks /\ next_id' = next_id
    BY <1>5, <1>o DEF NotFound, Return, Goto, Acquire, Release, requests
  <2>2. \A u \in Threads \ {t}, l \in Locks : owner'[l] = u => owner[l] = u
    BY <1>5, <1>o DEF NotFound, Return, Acquire, Release
  <2>3. \A l \in Locks : owner'[l] = t => MayHold(t, l)'
    BY <1>5, <1>o, <1>h, <1>t, <2>1 DEF NotFound, Return, Acquire, Release, MayHold
  <2> QED BY <2>1, <2>2, <2>3, ClientStep DEF ClientPlaces
<1>6. ASSUME NEW t \in ClientThreads, Registered(t)
      PROVE  LockOrder'
  <2>1. PICK place \in {"idle", "sessions"} : at' = [at EXCEPT ![t] = place]
    BY <1>6 DEF Registered, Return, Goto
  <2>2. /\ DOMAIN call' = Threads /\ \A u \in Threads \ {t} : call'[u] = call[u]
        /\ DOMAIN owner' = Locks /\ next_id' = next_id
    BY <1>6, <1>o DEF Registered, Return, Release
  <2>3. \A u \in Threads \ {t}, l \in Locks : owner'[l] = u => owner[l] = u
    BY <1>6 DEF Registered, Release
  <2>4. \A l \in Locks : owner'[l] # t
    BY <1>6, <1>h, <1>t DEF Registered, Release, MayHold
  <2>5. at'[t] # "idle" => call'[t] \in CallRecord
    <3>1. CASE Return(t)
      BY <3>1, <1>o, <1>t DEF Return, Goto
    <3>2. CASE call' = [call EXCEPT ![t].op = "result"]
      <4>1. call'[t] = [call[t] EXCEPT !.op = "result"]
        BY <3>2, <1>o, <1>t, Zenon
      <4>2. call[t] \in CallRecord
        BY <1>6, <1>r DEF Registered
      <4> QED BY <4>1, <4>2, ResultRecord, Zenon
    <3> QED BY <1>6, <3>1, <3>2 DEF Registered
  <2> QED BY <2>5, <1>o, <1>t, <2>1, <2>2, <2>3, <2>4, ClientStep DEF ClientPlaces
<1>7. ASSUME NEW t \in ClientThreads, Found(t)
      PROVE  LockOrder'
  <2>1. /\ at' = [at EXCEPT ![t] = "session"]
        /\ DOMAIN call' = Threads /\ \A u \in Threads \ {t} : call'[u] = call[u]
        /\ DOMAIN owner' = Locks /\ next_id' = next_id
    BY <1>7, <1>o DEF Found, Goto, Acquire, Release, requests
  <2>2. \A u \in Threads \ {t}, l \in Locks : owner'[l] = u => owner[l] = u
    BY <1>7, <1>o DEF Found, Acquire, Release
  <2>3. \A l \in Locks : owner'[l] = t => MayHold(t, l)'
    BY <1>7, <1>o, <1>h, <1>t, <2>1 DEF Found, Acquire, Release, MayHold
  <2>4. call'[t] \in CallRecord
    BY <1>7, <1>r DEF Found
  <2> QED BY <2>1, <2>2, <2>3, <2>4, ClientStep DEF ClientPlaces
<1>8. ASSUME NEW t \in ClientThreads, LockSession(t)
      PROVE  LockOrder'
  <2>1. /\ at' = [at EXCEPT ![t] = "inside"]
        /\ DOMAIN call' = Threads /\ \A u \in Threads \ {t} : call'[u] = call[u]
        /\ DOMAIN owner' = Locks /\ next_id' = next_id
    BY <1>8, <1>o DEF LockSession, Goto, Acquire, Release, requests
  <2>2. \A u \in Threads \ {t}, l \in Locks : owner'[l] = u => owner[l] = u
    BY <1>8, <1>o DEF LockSession, Acquire, Release
  <2>3. \A l \in Locks : owner'[l] = t => MayHold(t, l)'
    BY <1>8, <1>o, <1>h, <1>t, <2>1 DEF LockSession, Acquire, Release, MayHold
  <2>4. call'[t] \in CallRecord
    BY <1>8, <1>r DEF LockSession
  <2> QED BY <2>1, <2>2, <2>3, <2>4, ClientStep DEF ClientPlaces
<1>9. ASSUME NEW t \in ClientThreads, TryLockFails(t)
      PROVE  LockOrder'
  <2>1. /\ at' = [at EXCEPT ![t] = "idle"]
        /\ DOMAIN call' = Threads /\ \A u \in Threads \ {t} : call'[u] = call[u]
        /\ DOMAIN owner' = Locks /\ next_id' = next_id
    BY <1>9, <1>o DEF TryLockFails, Return, Goto, Acquire, Release, requests
  <2>2. \A u \in Threads \ {t}, l \in Locks : owner'[l] = u => owner[l] = u
    BY <1>9, <1>o DEF TryLockFails, Return, Acquire, Release
  <2>3. \A l \in Locks : owner'[l] = t => MayHold(t, l)'
    BY <1>9, <1>o, <1>h, <1>t, <2>1 DEF TryLockFails, Return, Acquire, Release, MayHold
  <2> QED BY <2>1, <2>2, <2>3, ClientStep DEF ClientPlaces
<1>10. ASSUME NEW t \in ClientThreads, Inside(t)
      PROVE  LockOrder'
  <2>1. PICK place \in ClientPlaces : at' = [at EXCEPT ![t] = place]
    BY <1>10 DEF Inside, Return, Goto, ClientPlaces
  <2>2. /\ DOMAIN call' = Threads /\ \A u \in Threads \ {t} : call'[u] = call[u]
        /\ next_id' = next_id
    BY <1>10, <1>o DEF Inside, Return
  <2>3. owner' = [l \in Locks |-> IF l \in {0, call[t].id} \cap Held(t) THEN None ELSE owner[l]]
    BY <1>10 DEF Inside, Release
  <2>4. \A u \in Threads \ {t}, l \in Locks : owner'[l] = u => owner[l] = u
    BY <2>3
  <2>5. \A l \in Locks : owner'[l] # t
    <3> SUFFICES ASSUME NEW l \in Locks, owner'[l] = t PROVE FALSE
      OBVIOUS
    <3>1. owner[l] = t /\ l \in Held(t)
      BY <2>3, <1>t DEF Held
    <3>2. l \in {0, call[t].id}
      BY <3>1, <1>h, <1>t, <1>10 DEF MayHold, Inside
    <3> QED BY <3>1, <3>2, <2>3, <1>t
  <2>6. at'[t] # "idle" => call'[t] \in CallRecord
    <3>1. call[t] \in CallRecord
      BY <1>10, <1>r DEF Inside
    <3>2. ASSUME Return(t) PROVE at'[t] = "idle"
      BY <3>2, <1>o, <1>t DEF Return, Goto
    <3>3. CASE call' = call
      BY <3>1, <3>3
    <3>4. CASE call[t].left > 1 /\ call' = [call EXCEPT ![t].left = @ - 1]
      <4>1. call'[t] = [call[t] EXCEPT !.left = @ - 1]
        BY <3>4, <1>o, <1>t, Zenon
      <4> QED BY <3>1, <3>4, <4>1, TriedRecord, Zenon
    <3> QED BY <1>10, <3>2, <3>3, <3>4 DEF Inside
  <2> QED BY <2>6, <1>o, <1>t, <2>1, <2>2, <2>3, <2>4, <2>5, ClientStep
<1>11. ASSUME NEW t \in ClientThreads, Again(t)
      PROVE  LockOrder'
  <2>1. PICK place \in {"poll", "idle"} : at' = [at EXCEPT ![t] = place]
    BY <1>11 DEF Again, Return, Goto
  <2>2. /\ DOMAIN call' = Threads /\ \A u \in Threads \ {t} : call'[u] = call[u]
        /\ owner' = owner /\ next_id' = next_id
    BY <1>11, <1>o DEF Again, Return
  <2>3. \A l \in Locks : owner'[l] # t
    BY <1>11, <1>h, <1>t, <2>2 DEF Again, MayHold
  <2>4. at'[t] # "idle" => call'[t] \in CallRecord
    BY <1>11, <1>r, <1>o, <1>t DEF Again, Return, Goto
  <2> QED BY <2>4, <1>o, <1>t, <2>1, <2>2, <2>3, <1>o, ClientStep DEF ClientPlaces
<1>12. ASSUME NEW t \in ClientThreads, PollEnds(t)
      PROVE  LockOrder'
  <2>1. /\ at' = [at EXCEPT ![t] = "idle"]
        /\ DOMAIN call' = Threads /\ \A u \in Threads \ {t} : call'[u] = call[u]
        /\ DOMAIN owner' = Locks /\ next_id' = next_id
    BY <1>12, <1>o DEF PollEnds, Return, Goto, Acquire, Release, requests
  <2>2. \A u \in Threads \ {t}, l \in Locks : owner'[l] = u => owner[l] = u
    BY <1>12, <1>o DEF PollEnds, Return, Acquire, Release
  <2>3. \A l \in Locks : owner'[l] = t => MayHold(t, l)'
    BY <1>12, <1>o, <1>h, <1>t, <2>1 DEF PollEnds, Return, Acquire, Release, MayHold
  <2> QED BY <2>1, <2>2, <2>3, ClientStep DEF ClientPlaces
<1>13. ASSUME NEW s \in Ids, DriverStarts(s)
      PROVE  LockOrder'
  <2>1. /\ at' = [at EXCEPT ![Driver(s)] = "top"] /\ at[Driver(s)] # "none"
        /\ call' = call /\ DOMAIN owner' = Locks /\ next_id' = next_id
    BY <1>13, <1>o DEF DriverStarts, Goto, Acquire, Release
  <2>2. \A u \in Threads \ {Driver(s)}, l \in Locks : owner'[l] = u => owner[l] = u
    BY <1>13, <1>o DEF DriverStarts, Acquire, Release
  <2>3. \A l \in Locks : owner'[l] = Driver(s) => MayHold(Driver(s), l)'
    BY <1>13, <1>o, <1>h, <1>d, <2>1 DEF DriverStarts, Acquire, Release, MayHold
  <2> QED BY <2>1, <2>2, <2>3, DriverStep DEF DriverPlaces
<1>14. ASSUME NEW s \in Ids, DriverLocks(s)
      PROVE  LockOrder'
  <2>1. /\ at' = [at EXCEPT ![Driver(s)] = "slice"] /\ at[Driver(s)] # "none"
        /\ call' = call /\ DOMAIN owner' = Locks /\ next_id' = next_id
    BY <1>14, <1>o DEF DriverLocks, Goto, Acquire, Release
  <2>2. \A u \in Threads \ {Driver(s)}, l \in Locks : owner'[l] = u => owner[l] = u
    BY <1>14, <1>o DEF DriverLocks, Acquire, Release
  <2>3. \A l \in Locks : owner'[l] = Driver(s) => MayHold(Driver(s), l)'
    BY <1>14, <1>o, <1>h, <1>d, <2>1 DEF DriverLocks, Acquire, Release, MayHold
  <2> QED BY <2>1, <2>2, <2>3, DriverStep DEF DriverPlaces
<1>15. ASSUME NEW s \in Ids, DriverEnds(s)
      PROVE  LockOrder'
  <2>1. /\ at' = [at EXCEPT ![Driver(s)] = "ended"] /\ at[Driver(s)] # "none"
        /\ call' = call /\ DOMAIN owner' = Locks /\ next_id' = next_id
    BY <1>15, <1>o DEF DriverEnds, Goto, Acquire, Release
  <2>2. \A u \in Threads \ {Driver(s)}, l \in Locks : owner'[l] = u => owner[l] = u
    BY <1>15, <1>o DEF DriverEnds, Acquire, Release
  <2>3. \A l \in Locks : owner'[l] = Driver(s) => MayHold(Driver(s), l)'
    BY <1>15, <1>o, <1>h, <1>d, <2>1 DEF DriverEnds, Acquire, Release, MayHold
  <2> QED BY <2>1, <2>2, <2>3, DriverStep DEF DriverPlaces
<1>16. ASSUME NEW s \in Ids, SliceEnds(s)
      PROVE  LockOrder'
  <2>1. /\ at' = [at EXCEPT ![Driver(s)] = "rest"] /\ at[Driver(s)] # "none"
        /\ call' = call /\ DOMAIN owner' = Locks /\ next_id' = next_id
    BY <1>16, <1>o DEF SliceEnds, Goto, Acquire, Release
  <2>2. \A u \in Threads \ {Driver(s)}, l \in Locks : owner'[l] = u => owner[l] = u
    BY <1>16, <1>o DEF SliceEnds, Acquire, Release
  <2>3. \A l \in Locks : owner'[l] = Driver(s) => MayHold(Driver(s), l)'
    BY <1>16, <1>o, <1>h, <1>d, <2>1 DEF SliceEnds, Acquire, Release, MayHold
  <2> QED BY <2>1, <2>2, <2>3, DriverStep DEF DriverPlaces
<1>17. ASSUME NEW s \in Ids, DriverReturns(s)
      PROVE  LockOrder'
  <2>1. /\ at' = [at EXCEPT ![Driver(s)] = "top"] /\ at[Driver(s)] # "none"
        /\ call' = call /\ DOMAIN owner' = Locks /\ next_id' = next_id
    BY <1>17, <1>o DEF DriverReturns, Goto, Acquire, Release
  <2>2. \A u \in Threads \ {Driver(s)}, l \in Locks : owner'[l] = u => owner[l] = u
    BY <1>17, <1>o DEF DriverReturns, Acquire, Release
  <2>3. \A l \in Locks : owner'[l] = Driver(s) => MayHold(Driver(s), l)'
    BY <1>17, <1>o, <1>h, <1>d, <2>1 DEF DriverReturns, Acquire, Release, MayHold
  <2> QED BY <2>1, <2>2, <2>3, DriverStep DEF DriverPlaces
<1>18. ASSUME NEW t \in DriverThreads, Advance(t) \/ TakesLock(t)
      PROVE  FALSE
  <2>1. at[t] \in DriverPlaces
    BY DEF LockOrder
  <2> QED BY <1>18, <2>1 DEF DriverPlaces, Advance, TakesLock, NotFound, Registered, Found,
             Inside, PollEnds, LockSessions, LockSession, Again
<1>19. ASSUME NEW t \in Threads, Advance(t) \/ TakesLock(t)
      PROVE  LockOrder'
  BY <1>19, <1>18, <1>4, <1>5, <1>6, <1>7, <1>8, <1>10, <1>11, <1>12
     DEF Threads, Advance, TakesLock
<1>20. ASSUME NEW s \in Ids, NEW p \in Pids, PreloadCall(s, p)
      PROVE  FALSE
  BY <1>20 DEF PreloadCall
<1> QED
  BY <1>1, <1>2, <1>3, <1>9, <1>13, <1>14, <1>15, <1>16, <1>17, <1>19, <1>20 DEF Next

\* The lock order leaves no circle.
LEMMA OrderExcludesCycles == LockOrder => NoWaitCycle
<1> SUFFICES ASSUME LockOrder, NEW S \in (SUBSET Threads) \ {{}},
                    \A t \in S : \E u \in S : WaitsFor(t, u)
             PROVE  FALSE
  BY DEF NoWaitCycle
<1>1. \A t \in S : t \in Threads /\ Wanted(t) # None
  BY DEF WaitsFor
<1>2. ASSUME NEW t \in S
      PROVE  \/ at[t] = "sessions" /\ Wanted(t) = 0
             \/ at[t] # "sessions" /\ Wanted(t) \in Ids
  <2>1. CASE t \in ClientThreads
    <3>1. at[t] \in {"sessions", "session", "again"}
      BY <1>1, <2>1 DEF LockOrder, ClientPlaces, Wanted
    <3>2. at[t] \in {"session", "again"} => call[t].id \in Ids
      BY <2>1 DEF LockOrder, CallRecord
    <3> QED BY <3>1, <3>2 DEF Wanted
  <2>2. CASE t \in DriverThreads
    <3>1. at[t] \in {"start", "top"}
      BY <1>1, <2>2 DEF LockOrder, DriverPlaces, Wanted
    <3>2. t[2] \in Ids
      BY <2>2 DEF DriverThreads, Driver
    <3> QED BY <3>1, <3>2 DEF Wanted
  <2> QED BY <1>1, <2>1, <2>2 DEF Threads
<1>3. ASSUME NEW u \in S, NEW l \in Locks, owner[l] = u
      PROVE  l = 0 /\ at[u] # "sessions"
  <2>1. MayHold(u, l)
    BY <1>1, <1>3 DEF LockOrder
  <2>2. at[u] \notin {"inside", "slice"}
    BY <1>1 DEF Wanted
  <2> QED BY <2>1, <2>2 DEF MayHold
<1>4. PICK t \in S : TRUE
  OBVIOUS
<1>5. PICK u \in S : WaitsFor(t, u)
  OBVIOUS
<1>6. Wanted(t) \in Locks /\ owner[Wanted(t)] = u
  BY <1>2, <1>5, LocksAssumption DEF WaitsFor, Locks, Ids
<1>7. at[u] # "sessions"
  BY <1>3, <1>6
<1>8. PICK w \in S : WaitsFor(u, w)
  OBVIOUS
<1>9. Wanted(u) \in Ids /\ Wanted(u) \in Locks /\ owner[Wanted(u)] = w
  BY <1>2, <1>7, <1>8, LocksAssumption DEF WaitsFor, Locks, Ids
<1>10. Wanted(u) = 0
  BY <1>3, <1>9
<1> QED BY <1>9, <1>10 DEF Ids

\* However many sessions, client threads and calls there are, no threads of the
\* vproc_ffi_ calls and the drivers wait for each other in a circle, as long
\* as no program runs on the C preload library.
THEOREM NoDeadlockWithoutPreload ==
    ASSUME ~ Preload
    PROVE  Spec => []NoWaitCycle
<1>1. LockOrder /\ [Next]_vars => LockOrder'
  BY LockOrderNext
<1> QED
  BY <1>1, LockOrderInit, OrderExcludesCycles, PTL DEF Spec

-----------------------------------------------------------------------------
(* A session in the map is not shut down, with or without the C preload    *)
(* library.  Its id belongs to one thread that creates it, until it is in  *)
(* the map, and to those that destroy it only after it was removed.        *)

\* A thread of either kind is in a call, and in which.
InCall(t) == at[t] \in {"sessions", "lookup", "session", "inside", "again", "poll"}
AnyRecord == [op : Ops, id : Nat, left : Nat]
Creating(t) == at[t] \in {"sessions", "lookup"} /\ call[t].op \in {"create", "probe"}
Destroying(t) == at[t] \in {"session", "inside"} /\ call[t].op = "destroy"
Created == {s \in Ids : s < next_id}

\* The inductive invariant.
SessionOwners ==
    /\ DOMAIN at = Threads /\ DOMAIN call = Threads /\ next_id \in Nat
    /\ \A t \in Threads : InCall(t) => call[t] \in AnyRecord
    /\ registered \subseteq Created /\ registered \cap shutdown = {}
    /\ \A s \in Ids : at[Driver(s)] = "ended" => s \in shutdown
    /\ shutdown \subseteq Created
    /\ \A t \in Threads : Creating(t) => call[t].id \in Created \ (registered \cup shutdown)
    /\ \A t \in Threads : Destroying(t) => call[t].id \in Created \ registered
    /\ \A t, u \in Threads :
          Creating(t) /\ t # u /\ (Creating(u) \/ Destroying(u)) => call[t].id # call[u].id

\* The owners of sessions are right at the start.
LEMMA SessionOwnersInit == Init => SessionOwners
<1> SUFFICES ASSUME Init PROVE SessionOwners
  OBVIOUS
<1>1. DOMAIN at = Threads /\ DOMAIN call = Threads /\ next_id \in Nat
  BY DEF Init
<1>2. \A t \in Threads : at[t] \in {"idle", "none"}
  BY DEF Init
<1>3. \A s \in Ids : at[Driver(s)] # "ended"
  BY <1>2 DEF Threads, DriverThreads
<1>4. registered = {} /\ shutdown = {}
  BY DEF Init
<1> QED BY <1>1, <1>2, <1>3, <1>4 DEF SessionOwners, InCall, Creating, Destroying

\* A step of one thread that is not create_session's first.
LEMMA OwnersStep ==
    ASSUME SessionOwners, NEW t \in Threads, NEW place,
           at' = [at EXCEPT ![t] = place], next_id' = next_id, DOMAIN call' = Threads,
           \A u \in Threads \ {t} : call'[u] = call[u],
           InCall(t)' => call'[t] \in AnyRecord,
           registered' \subseteq Created, registered' \cap shutdown' = {},
           shutdown \subseteq shutdown', shutdown' \subseteq Created,
           place = "ended" => \A s \in Ids : Driver(s) = t => s \in shutdown,
           Creating(t)' => /\ Creating(t) /\ call'[t].id = call[t].id
                           /\ registered' = registered /\ shutdown' = shutdown,
           Destroying(t)' =>
              /\ call'[t].id \in Created \ registered'
              /\ \A u \in Threads : Creating(u) => call[u].id # call'[t].id,
           \A u \in Threads \ {t} : Creating(u) => call[u].id \notin registered' \cup shutdown',
           \A u \in Threads \ {t} : Destroying(u) => call[u].id \notin registered'
    PROVE  SessionOwners'
<1>1. /\ DOMAIN at = Threads /\ DOMAIN at' = Threads /\ at'[t] = place
      /\ \A u \in Threads \ {t} : at'[u] = at[u]
  BY DEF SessionOwners
<1>2. \A u \in Threads \ {t} : /\ Creating(u)' <=> Creating(u)
                               /\ Destroying(u)' <=> Destroying(u)
                               /\ InCall(u)' <=> InCall(u)
  BY <1>1 DEF Creating, Destroying, InCall
<1>3. Created' = Created
  BY DEF Created
<1>4. \A u \in Threads : InCall(u)' => call'[u] \in AnyRecord
  BY <1>2 DEF SessionOwners
<1>5. ASSUME NEW s \in Ids, at'[Driver(s)] = "ended" PROVE s \in shutdown'
  <2>1. Driver(s) \in Threads
    BY DEF Threads, DriverThreads
  <2>2. CASE Driver(s) = t
    BY <1>1, <1>5, <2>2
  <2>3. CASE Driver(s) # t
    BY <1>1, <1>5, <2>1, <2>3 DEF SessionOwners
  <2> QED BY <2>2, <2>3
<1>6. ASSUME NEW u \in Threads, Creating(u)'
      PROVE  call'[u].id \in Created \ (registered' \cup shutdown')
  <2>1. CASE u = t
    BY <1>6, <2>1 DEF SessionOwners
  <2>2. CASE u # t
    BY <1>2, <1>6, <2>2 DEF SessionOwners
  <2> QED BY <2>1, <2>2
<1>7. ASSUME NEW u \in Threads, Destroying(u)'
      PROVE  call'[u].id \in Created \ registered'
  <2>1. CASE u = t
    BY <1>7, <2>1
  <2>2. CASE u # t
    BY <1>2, <1>7, <2>2 DEF SessionOwners
  <2> QED BY <2>1, <2>2
<1>8. ASSUME NEW u \in Threads, NEW w \in Threads, u # w,
             Creating(u)', Creating(w)' \/ Destroying(w)'
      PROVE  call'[u].id # call'[w].id
  <2>1. Creating(u) /\ call'[u].id = call[u].id
    BY <1>2, <1>8
  <2>2. CASE w # t
    BY <1>2, <1>8, <2>1, <2>2 DEF SessionOwners
  <2>3. CASE w = t /\ Creating(t)'
    BY <1>8, <2>1, <2>3 DEF SessionOwners
  <2>4. CASE w = t /\ Destroying(t)'
    BY <2>1, <2>4
  <2> QED BY <1>8, <2>2, <2>3, <2>4
<1> QED BY <1>1, <1>3, <1>4, <1>5, <1>6, <1>7, <1>8 DEF SessionOwners

\* A step that leaves the map and the flags alone, and starts neither kind of
\* call.
LEMMA QuietStep ==
    ASSUME SessionOwners, NEW t \in Threads, NEW place,
           at' = [at EXCEPT ![t] = place], next_id' = next_id, DOMAIN call' = Threads,
           \A u \in Threads \ {t} : call'[u] = call[u],
           InCall(t)' => call'[t] \in AnyRecord,
           registered' = registered, shutdown' = shutdown,
           place = "ended" => \A s \in Ids : Driver(s) = t => s \in shutdown,
           Creating(t)' => Creating(t) /\ call'[t].id = call[t].id,
           Destroying(t)' => Destroying(t) /\ call'[t].id = call[t].id
    PROVE  SessionOwners'
<1>1. \A u \in Threads : Creating(u) => call[u].id \notin registered' \cup shutdown'
  BY DEF SessionOwners
<1>2. \A u \in Threads : Destroying(u) => call[u].id \in Created \ registered'
  BY DEF SessionOwners
<1>3. \A u \in Threads : Creating(u) /\ Destroying(t) => call[u].id # call[t].id
  BY DEF SessionOwners, Creating, Destroying
<1>4. /\ registered' \subseteq Created /\ registered' \cap shutdown' = {}
      /\ shutdown \subseteq shutdown' /\ shutdown' \subseteq Created
  BY DEF SessionOwners
<1> QED BY <1>1, <1>2, <1>3, <1>4, OwnersStep

\* What later steps of vproc_ffi_probe leave of the record of its call.
LEMMA ProbeRecords ==
    ASSUME NEW r \in AnyRecord
    PROVE  /\ [r EXCEPT !.op = "result"] \in AnyRecord /\ [r EXCEPT !.op = "result"].op = "result"
           /\ r.left > 1 => [r EXCEPT !.left = r.left - 1] \in AnyRecord
           /\ [r EXCEPT !.left = r.left - 1].op = r.op
<1>1. [r EXCEPT !.op = "result"] \in AnyRecord /\ [r EXCEPT !.op = "result"].op = "result"
  BY Zenon DEF AnyRecord, Ops
<1>2. r.left > 1 => r.left - 1 \in Nat
  BY DEF AnyRecord
<1>3. r.left > 1 => [r EXCEPT !.left = r.left - 1] \in AnyRecord
  BY <1>2, Zenon DEF AnyRecord
<1>4. [r EXCEPT !.left = r.left - 1].op = r.op
  BY Zenon DEF AnyRecord
<1> QED BY <1>1, <1>3, <1>4

\* A call that returns leaves its thread in none.
LEMMA ReturnStep ==
    ASSUME SessionOwners, NEW t \in Threads, Return(t), next_id' = next_id,
           registered' = registered, shutdown' = shutdown
    PROVE  SessionOwners'
<1>o. DOMAIN at = Threads /\ DOMAIN call = Threads
  BY DEF SessionOwners
<1>1. PICK place \in {"idle", "slice"} : at' = [at EXCEPT ![t] = place]
  BY DEF Return, Goto
<1>2. at'[t] = place /\ DOMAIN call' = Threads /\ \A u \in Threads \ {t} : call'[u] = call[u]
  BY <1>o, <1>1 DEF Return
<1>3. ~ InCall(t)' /\ ~ Creating(t)' /\ ~ Destroying(t)' /\ place # "ended"
  BY <1>2 DEF InCall, Creating, Destroying
<1> QED BY <1>1, <1>2, <1>3, QuietStep

\* A new call of a kind that neither creates nor destroys what others do.
LEMMA NewCallStep ==
    ASSUME SessionOwners, NEW t \in Threads, NEW op \in Ops \ {"create", "probe"}, NEW s \in Nat,
           call' = [call EXCEPT ![t] = NewCall(op, s)], Goto(t, "sessions"),
           next_id' = next_id, registered' = registered, shutdown' = shutdown
    PROVE  SessionOwners'
<1>o. DOMAIN at = Threads /\ DOMAIN call = Threads
  BY DEF SessionOwners
<1>1. /\ at'[t] = "sessions" /\ DOMAIN call' = Threads /\ call'[t] = NewCall(op, s)
      /\ \A u \in Threads \ {t} : call'[u] = call[u]
  BY <1>o DEF Goto
<1>2. Tries \in Nat
  BY LocksAssumption
<1>3. NewCall(op, s) \in AnyRecord /\ NewCall(op, s).op = op
  BY <1>2, Zenon DEF NewCall, AnyRecord
<1>4. ~ Creating(t)' /\ ~ Destroying(t)'
  BY <1>1, <1>3 DEF Creating, Destroying
<1> QED BY <1>1, <1>3, <1>4, QuietStep DEF Goto

\* Every step keeps them right.
LEMMA SessionOwnersNext == SessionOwners /\ [Next]_vars => SessionOwners'
<1> SUFFICES ASSUME SessionOwners, [Next]_vars PROVE SessionOwners'
  OBVIOUS
<1>o. /\ DOMAIN at = Threads /\ DOMAIN call = Threads /\ next_id \in Nat
      /\ \A t \in Threads : InCall(t) => call[t] \in AnyRecord
  BY DEF SessionOwners
<1>d. \A s \in Ids : Driver(s) \in Threads /\ s \in Nat /\ \A r \in Ids : Driver(r) = Driver(s) => r = s
  BY DEF Threads, DriverThreads, Driver, Ids
<1>c. \A t \in ClientThreads : t \in Threads
  BY DEF Threads
<1>1. CASE UNCHANGED vars
  BY <1>1 DEF vars, SessionOwners, InCall, Creating, Destroying, Created
<1>2. ASSUME NEW t \in ClientThreads, NEW op \in {"create", "probe"}, CreateSession(t, op)
      PROVE  SessionOwners'
  <2> DEFINE d == Driver(next_id)
  <2>1. /\ next_id \in Ids /\ t \in Threads /\ d \in Threads /\ t # d /\ at[t] = "idle"
        /\ next_id' = next_id + 1 /\ registered' = registered /\ shutdown' = shutdown
    BY <1>2, <1>c, <1>d, TwoKinds DEF CreateSession, DriverThreads
  <2>2. NewCall(op, next_id) \in AnyRecord /\ NewCall(op, next_id).op = op
        /\ NewCall(op, next_id).id = next_id
    <3>1. Tries \in Nat /\ next_id \in Nat /\ op \in Ops
      BY <1>o, LocksAssumption DEF Ops
    <3> QED BY <3>1, Zenon DEF NewCall, AnyRecord
  <2>3. /\ DOMAIN call' = Threads /\ call'[t] = NewCall(op, next_id)
        /\ \A u \in Threads \ {t} : call'[u] = call[u]
    BY <1>2, <1>o, <2>1 DEF CreateSession
  <2>4. /\ DOMAIN at' = Threads /\ at'[t] = "sessions" /\ at'[d] = "start"
        /\ \A u \in Threads \ {t, d} : at'[u] = at[u]
    BY <1>2, <1>o, <2>1 DEF CreateSession
  <2> HIDE DEF d
  <2>5. \A u \in Threads \ {t} : /\ InCall(u)' => InCall(u)
                                 /\ Creating(u)' => Creating(u)
                                 /\ Destroying(u)' => Destroying(u)
    BY <2>3, <2>4 DEF InCall, Creating, Destroying
  <2>6. ~ Destroying(t)' /\ call'[t].id = next_id /\ call'[t] \in AnyRecord
    BY <2>2, <2>3, <2>4 DEF Destroying
  <2>7. Created \subseteq Created' /\ next_id \in Created' /\ next_id \notin Created
    BY <1>o, <2>1 DEF Created, Ids
  <2>8. \A u \in Threads : InCall(u)' => call'[u] \in AnyRecord
    BY <1>o, <2>3, <2>5, <2>6
  <2>9. ASSUME NEW s \in Ids, at'[Driver(s)] = "ended" PROVE s \in shutdown'
    BY <1>d, <2>1, <2>4, <2>9 DEF SessionOwners
  <2>10. ASSUME NEW u \in Threads, Creating(u)'
         PROVE  call'[u].id \in Created' \ (registered' \cup shutdown')
    BY <2>1, <2>3, <2>5, <2>6, <2>7, <2>10 DEF SessionOwners
  <2>11. ASSUME NEW u \in Threads, Destroying(u)'
         PROVE  call'[u].id \in Created' \ registered'
    BY <2>1, <2>3, <2>5, <2>6, <2>7, <2>11 DEF SessionOwners
  <2>12. ASSUME NEW u \in Threads, NEW w \in Threads, u # w,
                Creating(u)', Creating(w)' \/ Destroying(w)'
         PROVE  call'[u].id # call'[w].id
    <3>1. \A k \in Threads : Creating(k) \/ Destroying(k) => call[k].id \in Created
      BY DEF SessionOwners
    <3>2. CASE u = t
      BY <3>1, <3>2, <2>3, <2>5, <2>6, <2>7, <2>12
    <3>3. CASE w = t
      BY <3>1, <3>3, <2>3, <2>5, <2>6, <2>7, <2>12
    <3>4. CASE u # t /\ w # t
      BY <3>4, <2>3, <2>5, <2>12 DEF SessionOwners
    <3> QED BY <3>2, <3>3, <3>4
  <2>13. next_id' \in Nat
    BY <1>o, <2>1
  <2>14. registered' \subseteq Created' /\ shutdown' \subseteq Created' /\ registered' \cap shutdown' = {}
    BY <2>1, <2>7 DEF SessionOwners
  <2> QED BY <2>3, <2>4, <2>8, <2>9, <2>10, <2>11, <2>12, <2>13, <2>14 DEF SessionOwners
<1>3. ASSUME NEW t \in ClientThreads, NEW op \in Calls, NEW s \in Ids, Call(t, op, s)
      PROVE  SessionOwners'
  <2>1. op \in Ops \ {"create", "probe"}
    BY LocksAssumption DEF Ops
  <2> QED BY <1>3, <1>c, <1>d, <2>1, NewCallStep DEF Call
<1>4. ASSUME NEW s \in Ids, NEW p \in Pids, PreloadCall(s, p)
      PROVE  SessionOwners'
  <2>1. p \in Nat /\ "exists" \in Ops \ {"create", "probe"}
    BY LocksAssumption DEF Ops
  <2> QED BY <1>4, <1>d, <2>1, NewCallStep DEF PreloadCall
<1>5. ASSUME NEW t \in Threads, LockSessions(t)
      PROVE  SessionOwners'
  <2>1. /\ at' = [at EXCEPT ![t] = "lookup"] /\ call' = call
        /\ UNCHANGED <<next_id, registered, shutdown>>
    BY <1>5 DEF LockSessions, Goto
  <2>2. at'[t] = "lookup"
    BY <1>o, <2>1
  <2>3. InCall(t)' => call'[t] \in AnyRecord
    BY <1>5, <1>o, <2>1, <2>2 DEF LockSessions, InCall
  <2>4. (Creating(t)' => Creating(t)) /\ (Destroying(t)' => Destroying(t))
    BY <1>5, <2>1, <2>2 DEF LockSessions, Creating, Destroying
  <2> QED BY <1>o, <2>1, <2>3, <2>4, QuietStep
<1>6. ASSUME NEW t \in Threads, NotFound(t) \/ TryLockFails(t) \/ PollEnds(t)
      PROVE  SessionOwners'
  BY <1>6, ReturnStep DEF NotFound, TryLockFails, PollEnds
<1>7. ASSUME NEW t \in Threads, Registered(t)
      PROVE  SessionOwners'
  <2>1. /\ Creating(t) /\ call[t] \in AnyRecord /\ at[t] = "lookup"
        /\ registered' = registered \cup {call[t].id} /\ UNCHANGED <<next_id, shutdown>>
    BY <1>7, <1>o DEF Registered, Creating, InCall
  <2>2. PICK place \in {"idle", "slice", "sessions"} :
          /\ at' = [at EXCEPT ![t] = place]
          /\ place = "sessions" => call' = [call EXCEPT ![t].op = "result"]
    BY <1>7 DEF Registered, Return, Goto
  <2>3. at'[t] = place /\ DOMAIN call' = Threads /\ \A u \in Threads \ {t} : call'[u] = call[u]
    BY <1>7, <1>o, <2>2 DEF Registered, Return
  <2>4. place = "sessions" => call'[t] \in AnyRecord /\ call'[t].op = "result"
    <3>1. place = "sessions" => call'[t] = [call[t] EXCEPT !.op = "result"]
      BY <1>o, <2>2, Zenon
    <3> QED BY <2>1, <3>1, ProbeRecords, Zenon
  <2>5. ~ Creating(t)' /\ ~ Destroying(t)' /\ (InCall(t)' => call'[t] \in AnyRecord)
    BY <2>3, <2>4 DEF Creating, Destroying, InCall
  <2>6. call[t].id \in Created \ (registered \cup shutdown)
    BY <2>1 DEF SessionOwners
  <2>7. \A u \in Threads \ {t} : Creating(u) => call[u].id \notin registered' \cup shutdown'
    BY <2>1 DEF SessionOwners
  <2>8. \A u \in Threads \ {t} : Destroying(u) => call[u].id \notin registered'
    BY <2>1 DEF SessionOwners
  <2>9. /\ registered' \subseteq Created /\ registered' \cap shutdown' = {}
        /\ shutdown \subseteq shutdown' /\ shutdown' \subseteq Created
    BY <2>1, <2>6 DEF SessionOwners
  <2>10. at' = [at EXCEPT ![t] = place] /\ place # "ended"
    BY <2>2, Zenon
  <2> QED BY <2>1, <2>3, <2>5, <2>7, <2>8, <2>9, <2>10, OwnersStep
<1>8. ASSUME NEW t \in Threads, Found(t)
      PROVE  SessionOwners'
  <2>1. /\ at' = [at EXCEPT ![t] = "session"] /\ call' = call /\ UNCHANGED <<next_id, shutdown>>
        /\ call[t].id \in registered /\ call[t] \in AnyRecord
        /\ registered' = IF call[t].op = "destroy" THEN registered \ {call[t].id} ELSE registered
    BY <1>8, <1>o DEF Found, Goto, InCall
  <2>2. at'[t] = "session" /\ ~ Creating(t)' /\ (Destroying(t)' => call[t].op = "destroy")
    BY <1>o, <2>1 DEF Creating, Destroying
  <2>3. \A u \in Threads : Creating(u) => call[u].id # call[t].id /\ call[u].id \notin registered' \cup shutdown'
    BY <2>1 DEF SessionOwners
  <2>4. \A u \in Threads : Destroying(u) => call[u].id \notin registered'
    BY <2>1 DEF SessionOwners
  <2>5. /\ registered' \subseteq Created /\ registered' \cap shutdown' = {}
        /\ shutdown \subseteq shutdown' /\ shutdown' \subseteq Created
    BY <2>1 DEF SessionOwners
  <2>6. Destroying(t)' => call'[t].id \in Created \ registered'
    BY <2>1, <2>2 DEF SessionOwners
  <2> QED BY <1>o, <2>1, <2>2, <2>3, <2>4, <2>5, <2>6, OwnersStep
<1>9. ASSUME NEW t \in Threads, LockSession(t)
      PROVE  SessionOwners'
  <2>1. /\ at' = [at EXCEPT ![t] = "inside"] /\ call' = call
        /\ UNCHANGED <<next_id, registered, shutdown>>
    BY <1>9 DEF LockSession, Goto
  <2>2. at'[t] = "inside"
    BY <1>o, <2>1
  <2>3. InCall(t)' => call'[t] \in AnyRecord
    BY <1>9, <1>o, <2>1, <2>2 DEF LockSession, InCall
  <2>4. (Creating(t)' => Creating(t)) /\ (Destroying(t)' => Destroying(t))
    BY <1>9, <2>1, <2>2 DEF LockSession, Creating, Destroying
  <2> QED BY <1>o, <2>1, <2>3, <2>4, QuietStep
<1>10. ASSUME NEW t \in Threads, Inside(t)
      PROVE  SessionOwners'
  <2> DEFINE id == call[t].id
  <2>1. /\ at[t] = "inside" /\ call[t] \in AnyRecord /\ UNCHANGED <<next_id, registered>>
        /\ shutdown' = IF call[t].op = "destroy" THEN shutdown \cup {id} ELSE shutdown
    BY <1>10, <1>o DEF Inside, InCall
  <2>2. PICK place \in {"again", "session", "idle", "slice"} :
          /\ at' = [at EXCEPT ![t] = place]
          /\ place = "again" => call' = call
          /\ place = "session" =>
                /\ call[t].op = "result" /\ call[t].left > 1
                /\ call' = [call EXCEPT ![t].left = call[t].left - 1]
    BY <1>10 DEF Inside, Return, Goto
  <2>3. at'[t] = place /\ DOMAIN call' = Threads /\ \A u \in Threads \ {t} : call'[u] = call[u]
    BY <1>10, <1>o, <2>2 DEF Inside, Return
  <2>4. place = "session" => call'[t] \in AnyRecord /\ call'[t].op = "result"
    <3>1. place = "session" => call'[t] = [call[t] EXCEPT !.left = call[t].left - 1]
      BY <1>o, <2>2, Zenon
    <3> QED BY <2>1, <2>2, <3>1, ProbeRecords, Zenon
  <2>5. ~ Creating(t)' /\ ~ Destroying(t)' /\ (InCall(t)' => call'[t] \in AnyRecord)
    BY <2>1, <2>2, <2>3, <2>4 DEF Creating, Destroying, InCall
  <2>6. call[t].op = "destroy" => Destroying(t) /\ ~ Creating(t) /\ id \in Created \ registered
    BY <2>1 DEF SessionOwners, Destroying, Creating
  <2>7. \A u \in Threads \ {t} : Creating(u) => call[u].id \notin registered' \cup shutdown'
    BY <2>1, <2>6 DEF SessionOwners
  <2>8. \A u \in Threads \ {t} : Destroying(u) => call[u].id \notin registered'
    BY <2>1 DEF SessionOwners
  <2>9. /\ registered' \subseteq Created /\ registered' \cap shutdown' = {}
        /\ shutdown \subseteq shutdown' /\ shutdown' \subseteq Created
    BY <2>1, <2>6 DEF SessionOwners
  <2>10. at' = [at EXCEPT ![t] = place] /\ place # "ended"
    BY <2>2, Zenon
  <2> QED BY <2>1, <2>3, <2>5, <2>7, <2>8, <2>9, <2>10, OwnersStep
<1>11. ASSUME NEW t \in Threads, Again(t)
      PROVE  SessionOwners'
  <2>1. CASE Return(t)
    BY <1>11, <2>1, ReturnStep DEF Again
  <2>2. CASE Goto(t, "poll") /\ call' = call
    <3>1. at'[t] = "poll" /\ call[t] \in AnyRecord
      BY <1>11, <1>o, <2>2 DEF Again, Goto, InCall
    <3>2. ~ Creating(t)' /\ ~ Destroying(t)'
      BY <3>1 DEF Creating, Destroying
    <3> QED BY <1>11, <1>o, <2>2, <3>1, <3>2, QuietStep DEF Again, Goto
  <2> QED BY <1>11, <2>1, <2>2 DEF Again
<1>12. ASSUME NEW s \in Ids,
              DriverStarts(s) \/ DriverLocks(s) \/ DriverEnds(s) \/ SliceEnds(s) \/ DriverReturns(s)
      PROVE  SessionOwners'
  <2>1. PICK place \in {"top", "slice", "ended", "rest"} :
          at' = [at EXCEPT ![Driver(s)] = place] /\ (place = "ended" => s \in shutdown)
    BY <1>12 DEF DriverStarts, DriverLocks, DriverEnds, SliceEnds, DriverReturns, Goto
  <2>2. call' = call /\ UNCHANGED <<next_id, registered, shutdown>>
    BY <1>12 DEF DriverStarts, DriverLocks, DriverEnds, SliceEnds, DriverReturns
  <2>3. at'[Driver(s)] = place
    BY <1>o, <1>d, <2>1
  <2>4. ~ InCall(Driver(s))' /\ ~ Creating(Driver(s))' /\ ~ Destroying(Driver(s))'
    BY <2>3 DEF InCall, Creating, Destroying
  <2>5. place = "ended" => \A r \in Ids : Driver(r) = Driver(s) => r \in shutdown
    BY <1>d, <2>1
  <2> QED BY <1>o, <1>d, <2>1, <2>2, <2>4, <2>5, QuietStep
<1>13. ASSUME NEW t \in Threads, Advance(t) \/ TakesLock(t)
      PROVE  SessionOwners'
  BY <1>13, <1>5, <1>6, <1>7, <1>8, <1>9, <1>10, <1>11 DEF Advance, TakesLock
<1> QED
  BY <1>1, <1>2, <1>3, <1>4, <1>6, <1>12, <1>13, <1>c DEF Next

\* Whatever clients create, use and destroy at the same time, and whatever
\* programs ask the C preload library, a session found in the map has not
\* been shut down and still has its driver.
THEOREM FoundSessionsAlwaysRun == Spec => []FoundSessionsRun
<1>1. SessionOwners => FoundSessionsRun
  BY DEF SessionOwners, FoundSessionsRun, Created
<1> QED BY <1>1, SessionOwnersInit, SessionOwnersNext, PTL DEF Spec
=============================================================================
