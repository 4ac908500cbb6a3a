--------------------------- MODULE MCSessionLocks ---------------------------
(***************************************************************************)
(* SessionLocks with two client threads.  A behaviour keeps to one         *)
(* scenario:                                                               *)
(*                                                                         *)
(*   one      all calls of clients on one session;                         *)
(*   two      two sessions: all calls but create_process and probe;        *)
(*   preload  one session whose programs run on the C preload library,     *)
(*            while clients create processes and wait for them.            *)
(***************************************************************************)
EXTENDS SessionLocks

VARIABLE scenario

\* The sessions and the client calls of a scenario, and whether its programs
\* call vpid_exists.
Room ==
    LET ops == {call[t].op : t \in {u \in ClientThreads : call[u] # None}}
        quiet == \A t \in DriverThreads : call[t] = None
    IN \/ scenario = "one" /\ next_id <= 2 /\ quiet
       \/ scenario = "two" /\ quiet /\ ops \subseteq {"create", "destroy", "exists", "wait"}
       \/ scenario = "preload" /\ next_id <= 2 /\ ops \subseteq {"create", "process", "wait"}

MCInit == Init /\ scenario \in {"one", "two", "preload"}
MCNext == Next /\ UNCHANGED scenario /\ Room'
MCSpec ==
    MCInit /\ [][MCNext]_<< vars, scenario >> /\ ThreadsRun /\ \A s \in Ids : SF_vars(SliceEnds(s))
=============================================================================
