------------------------------ MODULE PosixFds ------------------------------
(***************************************************************************)
(* What the fd tables promise programs: every process has its own map from *)
(* descriptors to open objects; only its own calls change the map, and a   *)
(* new descriptor never takes the place of a live one.                     *)
(***************************************************************************)
CONSTANTS Processes, Descriptors, Objects

VARIABLE fdmap      \* process -> (descriptor -> object)

Init == fdmap = << >>

Others(p) == \A q \in DOMAIN fdmap \ {p} : q \in DOMAIN fdmap' /\ fdmap'[q] = fdmap[q]

\* A process begins with some descriptors.
Start(p) ==
    /\ p \notin DOMAIN fdmap
    /\ DOMAIN fdmap' = DOMAIN fdmap \cup {p} /\ Others(p)

\* p opens an object or duplicates a descriptor: one entry is added.
Gain(p) ==
    /\ p \in DOMAIN fdmap /\ DOMAIN fdmap' = DOMAIN fdmap /\ Others(p)
    /\ \E fd \in Descriptors \ DOMAIN fdmap[p], obj \in Objects :
         fdmap'[p] = [f \in DOMAIN fdmap[p] \cup {fd} |-> IF f = fd THEN obj ELSE fdmap[p][f]]

\* p closes a descriptor.
Close(p) ==
    /\ p \in DOMAIN fdmap /\ DOMAIN fdmap' = DOMAIN fdmap /\ Others(p)
    /\ \E fd \in DOMAIN fdmap[p] :
         fdmap'[p] = [f \in DOMAIN fdmap[p] \ {fd} |-> fdmap[p][f]]

Exit(p) ==
    /\ p \in DOMAIN fdmap
    /\ DOMAIN fdmap' = DOMAIN fdmap \ {p} /\ Others(p)

Next == \E p \in Processes : Start(p) \/ Gain(p) \/ Close(p) \/ Exit(p)

Spec == Init /\ [][Next]_fdmap
=============================================================================
