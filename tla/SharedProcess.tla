--------------------------- MODULE SharedProcess ---------------------------
(***************************************************************************)
(* Two things that the virtual processes of one operating-system process   *)
(* share: its memory (ForkStack), and its fds 0-2 and FD_TABLES, which all *)
(* sessions of a host use (Sessions).  The two have no variable in common. *)
(***************************************************************************)
EXTENDS ForkStack

CONSTANTS Ids, MaxPid, Overlap, None

VARIABLES session, driver, saved, next_pid, procs, done, running, tables, stdio, open, aborted

sessionsVars == <<session, driver, saved, next_pid, procs, done, running, tables,
                  stdio, open, aborted>>

S == INSTANCE Sessions

\* Sessions!TablesArePrivate: every process of a session that is not being
\* destroyed has the fd table that was made for it.
TablesArePrivate == S!TablesArePrivate

\* Sessions!StdioFollowsSlices: fds 0-2 are the terminal of the process that
\* runs, and the host's when none does.
StdioFollowsSlices == S!StdioFollowsSlices
=============================================================================
