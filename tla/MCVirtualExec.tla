--------------------------- MODULE MCVirtualExec ---------------------------
(***************************************************************************)
(* VirtualExec on small instances.                                         *)
(***************************************************************************)
EXTENDS VirtualExec

CONSTANTS sh, ls, tool

\* One session; a dynamic and a static binary, each run by one program and
\* its forks at a time; every step but the hooks may be refused.
Refused ==
    [drivers |-> 1, procs |-> 5, bins |-> {sh, tool}, exports |-> {},
     failing |-> {"read", "dlopen", "base", "stack"}, forks |-> TRUE,
     unloads |-> TRUE, oneAtATime |-> TRUE]

\* One session; two dynamic binaries run by several programs at once.
Mixed ==
    [drivers |-> 1, procs |-> 5, bins |-> {sh, ls}, exports |-> {}, failing |-> {},
     forks |-> FALSE, unloads |-> TRUE, oneAtATime |-> FALSE]

\* Two sessions that run the same binary; it also exports main.
TwoSessions ==
    [drivers |-> 2, procs |-> 4, bins |-> {sh}, exports |-> {sh},
     failing |-> {"read", "hook"}, forks |-> FALSE, unloads |-> FALSE,
     oneAtATime |-> FALSE]

AllScenarios == {Refused, Mixed, TwoSessions}
=============================================================================
