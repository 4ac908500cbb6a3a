---------------------------- MODULE MCVfdTables ----------------------------
(***************************************************************************)
(* VfdTables on small instances.                                           *)
(***************************************************************************)
EXTENDS VfdTables

\* Two processes with a terminal each; the host opens a third fd between.
Files2 ==
    [calls |-> {"open", "dup", "close", "ffi_dup", "ffi_close"}, shared |-> FALSE,
     fds |-> 5, pids |-> 2, kfds |-> 10, opens |-> 4, hosts |-> 2, refs |-> 2]

\* One process that has files, kernel pipes and virtual pipes, and moves them
\* to any number.
Mixed ==
    [calls |-> {"open", "close", "pipe", "ffi_pipe", "ffi_dup2"}, shared |-> FALSE,
     fds |-> 5, pids |-> 1, kfds |-> 9, opens |-> 3, hosts |-> 1, refs |-> 1]

\* One process and every call that makes no virtual pipe.
Numbers ==
    [calls |-> {"spawn", "open", "dup", "dup2", "close", "pipe"},
     shared |-> TRUE,
     fds |-> 6, pids |-> 1, kfds |-> 8, opens |-> 3, hosts |-> 1, refs |-> 2]

\* Three processes whose tables come from fork and exec.
Family ==
    [calls |-> {"open", "close", "execve", "ffi_fork"}, shared |-> TRUE,
     fds |-> 5, pids |-> 3, kfds |-> 8, opens |-> 2, hosts |-> 1, refs |-> 2]

\* Two processes that share a virtual pipe.
PipesShared ==
    [calls |-> {"ffi_pipe", "ffi_close", "ffi_dup", "ffi_fork"}, shared |-> TRUE,
     fds |-> 7, pids |-> 2, kfds |-> 7, opens |-> 1, hosts |-> 1, refs |-> 1]

\* One process that moves the ends of a virtual pipe to any number.
PipesMoved ==
    [calls |-> {"ffi_pipe", "ffi_close", "ffi_dup2"}, shared |-> TRUE,
     fds |-> 6, pids |-> 1, kfds |-> 7, opens |-> 1, hosts |-> 1, refs |-> 1]

AllScenarios == {Files2, Mixed, Numbers, Family, PipesShared, PipesMoved}
=============================================================================
