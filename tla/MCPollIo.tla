------------------------------ MODULE MCPollIo ------------------------------
(***************************************************************************)
(* PollIo on small instances: two coroutines and pipes of two bytes that   *)
(* report POLLOUT while one is free.                                       *)
(***************************************************************************)
EXTENDS PollIo

CONSTANTS p1, p2, k1, k2, v1

\* A kernel pipe and a virtual one; select with timeouts that are rounded
\* down to 0 ms, that are not, and that overflow a c_int.
OwnPipes ==
    [chans |-> {k1, v1}, outside |-> {},
     ends |-> {{<<k1, "in">>}, {<<k1, "in">>, <<v1, "in">>}, {<<v1, "out">>}},
     timeouts |-> {-1, 1},
     timevals |-> {<<0, 500>>, <<0, 1000>>, <<3, 0>>}]

\* Two kernel pipes, one of which another OS process reads, and polls
\* without fds.
SharedPipe ==
    [chans |-> {k1, k2}, outside |-> {k1},
     ends |-> {{<<k1, "in">>}, {<<k1, "in">>, <<k2, "in">>}, {<<k1, "out">>}, {}},
     timeouts |-> {0, 1}, timevals |-> {None}]

BothScenarios == {OwnPipes, SharedPipe}
=============================================================================
