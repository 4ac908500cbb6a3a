----------------------------- MODULE MCExecutor -----------------------------
(***************************************************************************)
(* Executor on small instances.  SpawnLimit bounds the pids programs are   *)
(* spawned with and ForkLimit those of fork helpers.  All calls together   *)
(* have too many behaviours, so that a behaviour keeps to one scenario:    *)
(*                                                                         *)
(*   forks    two programs, forks that nest or overlap, waitpid;           *)
(*   waits    three programs and one fork, I/O waits;                      *)
(*   signals  two programs and one fork, I/O waits with and without fds,   *)
(*            and SIGKILL.                                                 *)
(*                                                                         *)
(* Room leaves every coroutine a step that switches, so the fairness of    *)
(* Executor can be kept.                                                   *)
(***************************************************************************)
EXTENDS Executor

CONSTANT Scenarios

VARIABLE scenario

Helpers == {p \in DOMAIN vprocs : vprocs[p].at = "helper"}
Programs == {p \in DOMAIN vprocs \ Helpers : vprocs[p].ppid = NoPid}
NoSignals == \A p \in DOMAIN vprocs : vprocs[p].pending_signals = {}

Room ==
    \/ /\ scenario = "forks"
       /\ NoSignals /\ \A p \in DOMAIN vprocs : vprocs[p].io_wait = "none"
       /\ Programs \subseteq 1..2
    \/ /\ scenario = "waits"
       /\ NoSignals /\ \A p \in DOMAIN vprocs : vprocs[p].io_wait # "neither"
       /\ Helpers \subseteq 1..2
    \/ /\ scenario = "signals"
       /\ Helpers \subseteq 1..2 /\ Programs \subseteq 1..2

MCInit == Init /\ scenario \in Scenarios
MCNext == Next /\ UNCHANGED scenario /\ Room'
MCSpec == MCInit /\ [][MCNext]_<< vars, scenario >> /\ Fairness
=============================================================================
