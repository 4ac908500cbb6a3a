------------------------------ MODULE MCShared ------------------------------
(***************************************************************************)
(* What the virtual processes of one operating-system process have in      *)
(* common, on small instances: its memory (ForkStack), its working         *)
(* directory (Cwd), and its fds 0-2 and FD_TABLES (Sessions).  The three   *)
(* have no variable in common; a behaviour is one of one of them, and the  *)
(* other two stand still.                                                  *)
(***************************************************************************)
EXTENDS SharedProcess, Sequences

CONSTANTS Procs, MaxOpens

\* A tree with two branches, one of them two levels deep, and a file in each
\* directory.
Dirs == {<<>>, <<"a">>, <<"b">>, <<"a", "b">>}
Files == {Append(d, "f") : d \in Dirs}

Absolute(components) == [absolute |-> TRUE, parts |-> components]
Relative(components) == [absolute |-> FALSE, parts |-> components]

\* Absolute paths in normal form; relative ones with "." and "..", up, across
\* and above the root; and names that exist in some directories only.
Paths ==
    {Absolute(<<"a">>), Absolute(<<"a", "b">>)} \cup
    {Relative(r) : r \in {<<"b">>, <<"..">>, <<"..", "..", "b">>, <<".", "f">>}}

\* Two directories, and a file that is in both.
HostPaths == {Absolute(<<"a">>), Absolute(<<"b">>), Relative(<<"f">>)}

VARIABLES part,
          alive, current, cwd, process, kernel, table, home, settled, call

cwdVars == <<alive, current, cwd, process, kernel, table, home, settled, call>>

C == INSTANCE Cwd

ASSUME C!IsTree
ASSUME S!SessionsAssumption

MCInit ==
    /\ part \in {"stacks", "directories", "sessions"}
    /\ Init /\ C!Init /\ S!Init
    /\ part # "directories" => process = <<>>

MCNext ==
    /\ UNCHANGED part
    /\ \/ part = "stacks" /\ Next /\ UNCHANGED <<cwdVars, sessionsVars>>
       \/ part = "directories" /\ C!Next /\ UNCHANGED <<vars, sessionsVars>>
       \/ part = "sessions" /\ S!Next /\ UNCHANGED <<vars, cwdVars>>

MCSpec == MCInit /\ [][MCNext]_<<part, vars, cwdVars, sessionsVars>>

\* Cwd!SettledCallsLand: the chdir, getcwd, open and openat(AT_FDCWD) of a
\* process that has changed to an absolute path, or was forked from one, reach
\* what the kernel finds from the directory that such a process would be in.
SettledCallsLand == C!SettledCallsLand
=============================================================================
