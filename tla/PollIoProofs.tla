---------------------------- MODULE PollIoProofs ----------------------------
(***************************************************************************)
(* Proofs about PollIo, for every set of coroutines, channels and          *)
(* scenarios: the check before a kernel call still holds when the call is  *)
(* made, because nobody else on the driver thread runs in between.         *)
(***************************************************************************)
EXTENDS PollIo, TLAPS

\* A leaf that names no prover is tried by Zenon, by the SMT solver, and by
\* Zenon again for longer.
USE ZenonT(3), SMTT(30), ZenonT(60)

\* A call in progress; a read and a write are for one end of one channel.
IsCall(r) ==
    /\ r.op \in {"read", "write", "poll"}
    /\ r.op = "read" => \E c \in Chans : r.ends = {<<c, "in">>}
    /\ r.op = "write" => \E c \in Chans : r.ends = {<<c, "out">>}
    /\ r.op # "poll" => r.size \in Nat

\* The types that the argument needs.
CallInv ==
    /\ scenario \in Scenarios
    /\ level \in [Chans -> 0..Capacity] /\ rest \in Nat
    /\ DOMAIN call = Procs /\ \A p \in Procs : call[p] # None => IsCall(call[p])
    /\ inside \in Procs \cup {None}

\* While a coroutine is inside the kernel, what the check before its call saw
\* still holds: data or the end for a read, PIPE_BUF free bytes for a write of
\* at most that many.
InsideInv ==
    inside # None =>
        /\ call[inside] # None
        /\ call[inside].op = "poll" => call[inside].ends = {}
        /\ call[inside].op = "read" =>
              Chan(inside) \in scenario.outside \/ Ready(<<Chan(inside), "in">>)
        /\ call[inside].op = "write" /\ call[inside].size <= PipeBuf =>
              rest = call[inside].size /\ Free(Chan(inside)) >= PipeBuf

\* The inductive invariant.
IoInv == CallInv /\ InsideInv
-----------------------------------------------------------------------------
\* The channel of a read or a write.
LEMMA ChanIs ==
    ASSUME NEW p \in Procs, NEW c \in Chans, NEW d \in {"in", "out"}, call[p].ends = {<<c, d>>}
    PROVE  Chan(p) = c
<1>1. \A b : (\E f \in {"in", "out"} : <<b, f>> \in call[p].ends) <=> b = c
  OBVIOUS
<1> QED BY <1>1 DEF Chan

\* The bounds of the instance, and the channels of a scenario.
LEMMA Bounds ==
    /\ Capacity \in Nat /\ PipeBuf \in Nat /\ PipeBuf > 0 /\ Sizes \subseteq Nat
    /\ \A s \in Scenarios : s.chans \subseteq Chans
    /\ None \notin Procs
BY PollIoAssumption DEF IsMachine, IsScenario

\* The invariant holds before the first call.
LEMMA IoInit ==
    Init => IoInv
BY Bounds DEF Init, IoInv, CallInv, InsideInv

\* The return of one call leaves the others what they are.
LEMMA ReturnsCalls ==
    ASSUME CallInv, NEW p \in Procs, call' = [call EXCEPT ![p] = None]
    PROVE  DOMAIN call' = Procs /\ \A q \in Procs : call'[q] # None => IsCall(call'[q])
BY DEF CallInv

\* What a read or write takes from or adds to its channel.
LEMMA LevelStep ==
    ASSUME CallInv, NEW c \in Chans, NEW n \in Nat
    PROVE  /\ [level EXCEPT ![c] = level[c] - Lesser(level[c], n)] \in [Chans -> 0..Capacity]
           /\ [level EXCEPT ![c] = level[c] + Lesser(Free(c), n)] \in [Chans -> 0..Capacity]
<1>1. level[c] \in 0..Capacity /\ Capacity \in Nat
  BY Bounds DEF CallInv
<1>2. /\ level[c] - Lesser(level[c], n) \in 0..Capacity
      /\ level[c] + Lesser(Capacity - level[c], n) \in 0..Capacity
  BY <1>1 DEF Lesser
<1> QED BY <1>2 DEF CallInv, Free

\* Every step keeps the invariant.
LEMMA IoNext ==
    IoInv /\ [Next]_<<scenario, vars>> => IoInv'
<1> SUFFICES ASSUME CallInv, InsideInv, [Next]_<<scenario, vars>> PROVE CallInv' /\ InsideInv'
  BY DEF IoInv
<1>1. CASE UNCHANGED <<scenario, vars>>
  BY <1>1 DEF vars, CallInv, InsideInv, Chan, Ready, Free
<1>2. ASSUME NEW p \in Procs, UNCHANGED scenario, inside = None, NEW r, Issue(p, r), IsCall(r)
      PROVE  CallInv' /\ InsideInv'
  BY <1>2 DEF Issue, CallInv, InsideInv
<1>3. ASSUME NEW p \in Procs, UNCHANGED scenario, NEW c \in scenario.chans, NEW n \in Sizes,
             CallRead(p, c, n) \/ CallWrite(p, c, n)
      PROVE  CallInv' /\ InsideInv'
  <2>1. c \in Chans /\ n \in Nat
    BY <1>3, Bounds DEF CallInv
  <2>2. CASE CallRead(p, c, n)
    <3> DEFINE r == [op |-> "read", ends |-> {<<c, "in">>}, size |-> n, timeout |-> -1]
    <3>1. IsCall(r)
      BY <2>1 DEF IsCall
    <3>2. inside = None /\ Issue(p, r)
      BY <2>2 DEF CallRead, InUser
    <3> QED BY <1>2, <1>3, <3>1, <3>2
  <2>3. CASE CallWrite(p, c, n)
    <3> DEFINE r == [op |-> "write", ends |-> {<<c, "out">>}, size |-> n, timeout |-> -1]
    <3>1. IsCall(r)
      BY <2>1 DEF IsCall
    <3>2. inside = None /\ Issue(p, r)
      BY <2>3 DEF CallWrite, InUser
    <3> QED BY <1>2, <1>3, <3>1, <3>2
  <2> QED BY <1>3, <2>2, <2>3
<1>4. ASSUME NEW p \in Procs, UNCHANGED scenario, NEW E, NEW t, CallPoll(p, E, t)
      PROVE  CallInv' /\ InsideInv'
  <2> DEFINE r == [op |-> "poll", ends |-> E, size |-> 0, timeout |-> t]
  <2>1. IsCall(r)
    BY DEF IsCall
  <2>2. inside = None /\ Issue(p, r)
    BY <1>4 DEF CallPoll, InUser
  <2> QED BY <1>2, <1>4, <2>1, <2>2
<1>5. ASSUME NEW p \in Procs, UNCHANGED scenario, NEW E, NEW tv, CallSelect(p, E, tv)
      PROVE  CallInv' /\ InsideInv'
  <2> DEFINE r == [op |-> "poll", ends |-> E, size |-> 0,
                   timeout |-> IF tv = None THEN -1 ELSE TimeoutMs(tv)]
  <2>1. IsCall(r)
    BY DEF IsCall
  <2>2. inside = None /\ Issue(p, r)
    BY <1>5 DEF CallSelect, InUser
  <2> HIDE DEF r
  <2> QED BY <1>2, <1>5, <2>1, <2>2
<1>6. ASSUME NEW p \in Procs, UNCHANGED <<scenario, level>>, Enter(p), OnKernel(p),
             Turn(p, "read") \/ Turn(p, "write")
      PROVE  CallInv' /\ InsideInv'
  <2>1. /\ inside' = p /\ rest' = call[p].size /\ UNCHANGED <<level, open, call>>
        /\ call[p] # None /\ call[p].op \in {"read", "write"} /\ IsCall(call[p])
    BY <1>6 DEF Enter, Turn, CallInv
  <2>2. CallInv'
    BY <1>6, <2>1 DEF CallInv, IsCall
  <2>3. PICK e \in call[p].ends : Ready(e)
    BY <1>6 DEF Enter, ReadyEnds
  <2>4. CASE call[p].op = "read"
    <3>1. PICK c \in Chans : call[p].ends = {<<c, "in">>}
      BY <2>1, <2>4 DEF IsCall
    <3>2. Chan(p) = c /\ Ready(<<c, "in">>)
      BY <2>3, <3>1, ChanIs
    <3>3. Chan(p)' = c /\ Ready(<<c, "in">>)'
      BY <2>1, <3>2 DEF Chan, Ready, Free
    <3> QED BY <2>1, <2>2, <2>4, <3>3 DEF InsideInv
  <2>5. CASE call[p].op = "write"
    <3>1. PICK c \in Chans : call[p].ends = {<<c, "out">>}
      BY <2>1, <2>5 DEF IsCall
    <3>2. c \in Kernel
      BY <1>6, <3>1 DEF OnKernel
    <3>3. Chan(p) = c /\ Free(c) >= PipeBuf
      BY <2>3, <3>1, <3>2, ChanIs DEF Ready
    <3>4. Chan(p)' = c /\ Free(c)' >= PipeBuf
      BY <2>1, <3>3 DEF Chan, Free
    <3> QED BY <2>1, <2>2, <2>5, <3>4 DEF InsideInv
  <2> QED BY <2>1, <2>4, <2>5
<1>7. ASSUME UNCHANGED <<scenario, level, call, inside, rest>>, inside = None
      PROVE  CallInv' /\ InsideInv'
  BY <1>7 DEF CallInv, InsideInv
<1>8. ASSUME NEW p \in Procs, UNCHANGED <<scenario, inside, rest>>, inside = None,
             call' = [call EXCEPT ![p] = None], level' \in [Chans -> 0..Capacity]
      PROVE  CallInv' /\ InsideInv'
  BY <1>8, ReturnsCalls DEF CallInv, InsideInv
<1>9. ASSUME NEW p \in Procs, UNCHANGED scenario, LoopTurn(p) \/ KernelPollFails(p)
      PROVE  CallInv' /\ InsideInv'
  <2>1. CASE KernelTurn(p)
    <3>1. CASE Enter(p)
      <4>1. UNCHANGED level
        BY <3>1 DEF Enter
      <4> QED BY <1>6, <1>9, <2>1, <3>1, <4>1 DEF KernelTurn
    <3>2. CASE Park(p)
      <4>1. inside = None
        BY <2>1 DEF KernelTurn, Turn
      <4> QED BY <1>7, <1>9, <3>2, <4>1 DEF Park
    <3> QED BY <2>1, <3>1, <3>2 DEF KernelTurn
  <2>2. CASE KernelPollFails(p)
    <3>1. /\ inside = None /\ UNCHANGED <<inside, rest, level>>
          /\ call' = [call EXCEPT ![p] = None]
      BY <2>2 DEF KernelPollFails, Turn, Returns
    <3> QED BY <1>8, <1>9, <3>1 DEF CallInv
  <2>3. CASE VirtualRead(p) \/ VirtualWrite(p)
    <3>1. /\ inside = None /\ UNCHANGED <<inside, rest>> /\ call' = [call EXCEPT ![p] = None]
          /\ call[p] # None /\ call[p].op \in {"read", "write"}
      BY <2>3 DEF VirtualRead, VirtualWrite, Turn, Returns
    <3>2. PICK c \in Chans : Chan(p) = c
      BY <3>1, ChanIs DEF CallInv, IsCall
    <3>3. call[p].size \in Nat
      BY <3>1 DEF CallInv, IsCall
    <3>4. \/ level' = [level EXCEPT ![c] = level[c] - Lesser(level[c], call[p].size)]
          \/ level' = [level EXCEPT ![c] = level[c] + Lesser(Free(c), call[p].size)]
      BY <2>3, <3>2 DEF VirtualRead, VirtualWrite
    <3>5. level' \in [Chans -> 0..Capacity]
      BY <3>3, <3>4, LevelStep
    <3> QED BY <1>8, <1>9, <3>1, <3>5
  <2>4. CASE PollReturns(p)
    <3>1. /\ inside = None /\ UNCHANGED <<inside, rest, level>>
          /\ call' = [call EXCEPT ![p] = None]
      BY <2>4 DEF PollReturns, Turn, Returns
    <3> QED BY <1>8, <1>9, <3>1 DEF CallInv
  <2>5. CASE PollParks(p)
    BY <1>7, <1>9, <2>5 DEF PollParks, Turn, Park
  <2>6. CASE PollEmpty(p)
    <3>1. /\ inside' = p /\ UNCHANGED <<level, open, call, rest>>
          /\ call[p] # None /\ call[p].op = "poll" /\ call[p].ends = {}
      BY <2>6 DEF PollEmpty, Turn
    <3> QED BY <1>9, <3>1 DEF CallInv, InsideInv
  <2> QED BY <1>9, <2>1, <2>2, <2>3, <2>4, <2>5, <2>6 DEF LoopTurn
<1>10. ASSUME NEW c, UNCHANGED scenario, CloseWriter(c) PROVE CallInv' /\ InsideInv'
  BY <1>7, <1>10 DEF CloseWriter
<1>11. ASSUME NEW c \in Chans, UNCHANGED scenario, OutsideReads(c) PROVE CallInv' /\ InsideInv'
  <2>1. /\ c \in scenario.outside /\ level[c] > 0 /\ level' = [level EXCEPT ![c] = level[c] - 1]
        /\ UNCHANGED <<open, call, inside, rest>>
    BY <1>11 DEF OutsideReads
  <2>2. level' \in [Chans -> 0..Capacity]
    <3>1. level[c] - 1 \in 0..Capacity
      BY <2>1, Bounds DEF CallInv
    <3> QED BY <2>1, <3>1 DEF CallInv
  <2>3. CallInv'
    BY <1>11, <2>1, <2>2 DEF CallInv
  <2>4. ASSUME inside # None PROVE InsideInv'
    <3>1. Chan(inside)' = Chan(inside)
      BY <2>1 DEF Chan
    <3>2. ASSUME call[inside].op = "read", Chan(inside) \notin scenario.outside
          PROVE  Ready(<<Chan(inside), "in">>)'
      <4>1. Ready(<<Chan(inside), "in">>) /\ Chan(inside) # c
        BY <2>1, <2>4, <3>2 DEF InsideInv
      <4> QED BY <2>1, <3>1, <4>1 DEF Ready, CallInv
    <3>3. ASSUME call[inside].op = "write", call[inside].size <= PipeBuf
          PROVE  Free(Chan(inside))' >= PipeBuf
      <4>1. PICK b \in Chans : Chan(inside) = b
        BY <2>4, <3>3, ChanIs DEF InsideInv, CallInv, IsCall
      <4>2. Free(b) >= PipeBuf
        BY <2>4, <3>3, <4>1 DEF InsideInv
      <4>3. level'[b] <= level[b] /\ level'[b] \in Nat /\ level[b] \in Nat
        BY <2>1, <2>2 DEF CallInv
      <4> QED BY <3>1, <4>1, <4>2, <4>3, Bounds DEF Free
    <3> QED BY <1>11, <2>1, <2>4, <3>1, <3>2, <3>3 DEF InsideInv
  <2> QED BY <2>1, <2>3, <2>4 DEF InsideInv
<1>12. ASSUME UNCHANGED scenario, KernelReads PROVE CallInv' /\ InsideInv'
  <2>1. PICK p \in Procs :
           /\ inside = p /\ call[p].op = "read"
           /\ level' = [level EXCEPT ![Chan(p)] = level[Chan(p)] - Lesser(level[Chan(p)], call[p].size)]
           /\ inside' = None /\ call' = [call EXCEPT ![p] = None] /\ rest' = 0
    BY <1>12 DEF KernelReads, Leaves, Returns
  <2>2. call[p] # None
    BY <2>1, Bounds DEF InsideInv
  <2>3. PICK c \in Chans : Chan(p) = c
    BY <2>1, <2>2, ChanIs DEF CallInv, IsCall
  <2>4. level' \in [Chans -> 0..Capacity]
    BY <2>1, <2>2, <2>3, LevelStep DEF CallInv, IsCall
  <2> QED BY <1>12, <2>1, <2>4, ReturnsCalls DEF CallInv, InsideInv
<1>13. ASSUME UNCHANGED scenario, KernelWrites PROVE CallInv' /\ InsideInv'
  <2>1. PICK p \in Procs :
           /\ inside = p /\ call[p].op = "write"
           /\ LET n == Lesser(Free(Chan(p)), rest) IN
                /\ level' = [level EXCEPT ![Chan(p)] = level[Chan(p)] + n]
                /\ rest' = rest - n
                /\ IF n = rest THEN inside' = None /\ call' = [call EXCEPT ![p] = None]
                               ELSE UNCHANGED <<inside, call>>
    BY <1>13 DEF KernelWrites, Leaves, Returns
  <2>2. call[p] # None
    BY <2>1, Bounds DEF InsideInv
  <2>3. PICK c \in Chans : Chan(p) = c
    BY <2>1, <2>2, ChanIs DEF CallInv, IsCall
  <2> DEFINE n == Lesser(Free(c), rest)
  <2>4. level' \in [Chans -> 0..Capacity]
    BY <2>1, <2>3, LevelStep DEF CallInv
  <2>5. /\ Free(c) \in Nat /\ rest \in Nat
    BY Bounds DEF CallInv, Free
  <2>6. rest' \in Nat
    BY <2>1, <2>3, <2>5 DEF Lesser
  <2>7. CASE n = rest
    <3>1. inside' = None /\ call' = [call EXCEPT ![p] = None]
      BY <2>1, <2>3, <2>7
    <3> QED BY <1>13, <2>4, <2>6, <3>1, ReturnsCalls DEF CallInv, InsideInv
  <2>8. CASE n # rest
    <3>1. UNCHANGED <<inside, call>>
      BY <2>1, <2>3, <2>8
    <3>2. ~(call[p].size <= PipeBuf)
      <4>1. ASSUME call[p].size <= PipeBuf PROVE FALSE
        <5>1. rest = call[p].size /\ Free(c) >= PipeBuf
          BY <2>1, <2>3, <4>1, Bounds DEF InsideInv
        <5>2. rest <= Free(c)
          BY <2>5, <4>1, <5>1, Bounds
        <5> QED BY <2>5, <2>8, <5>2 DEF Lesser
      <4> QED BY <4>1
    <3> QED BY <1>13, <2>1, <2>2, <2>4, <2>6, <3>1, <3>2 DEF CallInv, InsideInv
  <2> QED BY <2>7, <2>8
<1>14. ASSUME UNCHANGED scenario, KernelWakes PROVE CallInv' /\ InsideInv'
  <2>1. PICK p \in Procs :
           inside' = None /\ call' = [call EXCEPT ![p] = None] /\ UNCHANGED <<level, rest>>
    BY <1>14 DEF KernelWakes, Leaves, Returns
  <2> QED BY <1>14, <2>1, ReturnsCalls DEF CallInv, InsideInv
<1>15. ASSUME UNCHANGED scenario, Tick PROVE CallInv' /\ InsideInv'
  BY <1>15 DEF Tick, CallInv, InsideInv, Chan, Ready, Free
<1>16. ASSUME UNCHANGED scenario, DriverPolls PROVE CallInv' /\ InsideInv'
  BY <1>7, <1>16 DEF DriverPolls
<1>17. ASSUME Next PROVE CallInv' /\ InsideInv'
  <2>1. scenario.chans \subseteq Chans
    BY Bounds DEF CallInv
  <2> QED BY <1>3, <1>4, <1>5, <1>9, <1>10, <1>11, <1>12, <1>13, <1>14, <1>15, <1>16, <1>17, <2>1
          DEF Next, Act
<1> QED BY <1>1, <1>17

\* DriverNeverBlocks: once a read or write has passed its readiness check, the
\* kernel call does not make the driver thread wait, unless another OS process
\* reads the pipe or a write is longer than PIPE_BUF.
THEOREM DriverIsNotBlocked ==
    Spec => []DriverNeverBlocks
<1>1. ASSUME IoInv PROVE DriverNeverBlocks
  <2> SUFFICES ASSUME inside # None, call[inside].ends # {},
                      Chan(inside) \notin scenario.outside,
                      ~(call[inside].op = "write" /\ call[inside].size > PipeBuf)
               PROVE  CanProceed(inside)
    BY DEF DriverNeverBlocks
  <2>1. call[inside] # None /\ IsCall(call[inside]) /\ call[inside].op \in {"read", "write"}
    BY <1>1 DEF IoInv, CallInv, InsideInv, IsCall
  <2>2. CASE call[inside].op = "read"
    BY <1>1, <2>1, <2>2 DEF IoInv, InsideInv, CanProceed
  <2>3. CASE call[inside].op = "write"
    <3>1. call[inside].size \in Nat /\ call[inside].size <= PipeBuf
      BY <2>1, <2>3, Bounds DEF IsCall
    <3>2. Free(Chan(inside)) >= PipeBuf
      BY <1>1, <2>3, <3>1 DEF IoInv, InsideInv
    <3>3. Free(Chan(inside)) > 0
      <4>1. PICK c \in Chans : Chan(inside) = c
        BY <1>1, <2>1, <2>3, ChanIs DEF IsCall, IoInv, CallInv
      <4>2. Free(c) \in Int
        BY <1>1, Bounds DEF IoInv, CallInv, Free
      <4> QED BY <3>2, <4>1, <4>2, Bounds
    <3> QED BY <2>3, <3>3 DEF CanProceed
  <2> QED BY <2>1, <2>2, <2>3
<1> QED BY <1>1, IoInit, IoNext, PTL DEF Spec
=============================================================================
