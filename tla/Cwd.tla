-------------------------------- MODULE Cwd ---------------------------------
(***************************************************************************)
(* The working directory of each virtual process: chdir, getcwd, open,     *)
(* openat and creat of src/src/preload.rs, vproc_ffi_get_cwd, and what     *)
(* virtual and real fork inherit.  A process that has called chdir has a   *)
(* path of its own in Coroutine::cwd; every other one uses the directory   *)
(* of the operating-system process, of which there is one.                 *)
(*                                                                         *)
(* A directory or a file of the (external) file system is the sequence of  *)
(* the names that lead to it from the root; there are no symbolic links.   *)
(* A path is the sequence of its components, "." and ".." among them, with *)
(* a mark if it starts with a slash.  The string in Coroutine::cwd always  *)
(* does, so it is the bare sequence.                                       *)
(*                                                                         *)
(* `home' is a history variable: where each process would be if it were a  *)
(* process of its own.  `settled' are the processes that have changed to   *)
(* an absolute path at least once, and those forked from them.             *)
(***************************************************************************)
EXTENDS Integers, Sequences, SequencesExt

CONSTANTS Procs,        \* virtual processes
          Dirs, Files,  \* the file system
          Paths,        \* paths that programs pass
          HostPaths,    \* paths that the host passes to chdir
          MaxOpens,     \* bound: kernel fds opened
          None          \* no path, no directory: Option::None, -1, NULL

\* Every directory and file but the root is in a directory.
IsTree ==
    /\ <<>> \in Dirs
    /\ \A n \in (Dirs \cup Files) \ {<<>>} : Front(n) \in Dirs
    /\ Dirs \cap Files = {}

VARIABLES alive,    \* processes that exist
          current,  \* the one that runs, or None
          cwd,      \* Coroutine::cwd of each
          process,  \* the directory of the operating-system process
          kernel,   \* what each kernel fd from 3 on is open on
          table,    \* the kernel fd behind each virtual fd from 3 on
          home,     \* history: the directory each process is entitled to
          settled,  \* history: processes that have named their directory
          call      \* the call just made: by whom, what it reached

vars == <<alive, current, cwd, process, kernel, table, home, settled, call>>

Node == Dirs \cup Files

Absolute(components) == [absolute |-> TRUE, parts |-> components]

-----------------------------------------------------------------------------
(* Paths.                                                                  *)

\* One component of a path that the kernel walks from n.
Step(n, c) ==
    IF n = None THEN None
    ELSE IF c = "." THEN n
    ELSE IF c = ".." THEN IF n = <<>> THEN n ELSE Front(n)
    ELSE IF Append(n, c) \in Node THEN Append(n, c) ELSE None

\* What the kernel finds at `path' for a process in directory dir.
Walk(dir, path) == FoldLeft(Step, IF path.absolute THEN <<>> ELSE dir, path.parts)

InDirs(n) == IF n \in Dirs THEN n ELSE None
InFiles(n) == IF n \in Files THEN n ELSE None

\* One component in resolve_path's loop.
Push(parts, c) ==
    IF c = "." THEN parts
    ELSE IF c = ".." THEN IF parts = <<>> THEN parts ELSE Front(parts)
    ELSE Append(parts, c)

\* resolve_path: an absolute path is returned as it is.
resolve_path(base, path) ==
    IF path.absolute THEN path.parts ELSE FoldLeft(Push, base, path.parts)

\* The path that open and openat(AT_FDCWD) hand to the kernel.
OpenPath(p, path) ==
    IF cwd[p] = None \/ path.absolute THEN path
    ELSE Absolute(resolve_path(cwd[p], path))

-----------------------------------------------------------------------------
Init ==
    /\ alive = {}
    /\ current = None
    /\ cwd = [p \in Procs |-> None]
    /\ process \in Dirs
    /\ kernel = <<>>
    /\ table = [p \in Procs |-> <<>>]
    /\ home = [p \in Procs |-> <<>>]
    /\ settled = {}
    /\ call = None

\* What a call by p reached, and what it would reach for a process in home[p].
Made(op, p, got, want) ==
    call' = [op |-> op, settled |-> p \in settled, got |-> got, want |-> want]

\* The host creates a process: Coroutine::new or new_elf, with no cwd.
Spawn(p) ==
    /\ p \notin alive
    /\ alive' = alive \cup {p}
    /\ home' = [home EXCEPT ![p] = process]
    /\ call' = None
    /\ UNCHANGED <<current, cwd, process, kernel, table, settled>>

\* The executor switches to another process.
Run(p) ==
    /\ p \in alive \ {current}
    /\ current' = p
    /\ call' = None
    /\ UNCHANGED <<alive, cwd, process, kernel, table, home, settled>>

\* Coroutine::fork_from: the child's cwd.
ForkCwd(p, c) == cwd[p]

\* Virtual fork by the running process; the fd table is copied.
Fork(c) ==
    /\ current # None
    /\ c \notin alive
    /\ alive' = alive \cup {c}
    /\ cwd' = [cwd EXCEPT ![c] = ForkCwd(current, c)]
    /\ table' = [table EXCEPT ![c] = table[current]]
    /\ home' = [home EXCEPT ![c] = home[current]]
    /\ settled' = IF current \in settled THEN settled \cup {c} ELSE settled
    /\ call' = None
    /\ UNCHANGED <<current, process, kernel>>

\* Real fork by the running process: the child uses the real calls only, and
\* is in the directory of the operating-system process.
RealFork ==
    /\ current # None
    /\ Made("fork", current, process, home[current])
    /\ UNCHANGED <<alive, current, cwd, process, kernel, table, home, settled>>

\* chdir's call of the real chdir, and the path it remembers.
SetCwd(p, resolved) ==
    LET n == InDirs(Walk(<<>>, Absolute(resolved)))
    IN IF n = None
       THEN UNCHANGED <<cwd, process>>
       ELSE cwd' = [cwd EXCEPT ![p] = resolved] /\ process' = n

\* chdir by the running process.
Chdir(path) ==
    LET base == IF cwd[current] = None THEN process ELSE cwd[current]
        resolved == resolve_path(base, path)
        got == InDirs(Walk(<<>>, Absolute(resolved)))
        want == InDirs(Walk(home[current], path))
    IN /\ current # None
       /\ SetCwd(current, resolved)
       /\ home' = IF want = None THEN home ELSE [home EXCEPT ![current] = want]
       /\ settled' = IF path.absolute /\ got # None
                     THEN settled \cup {current} ELSE settled
       /\ Made("chdir", current, got, want)
       /\ UNCHANGED <<alive, current, kernel, table>>

\* chdir called with no current process: the host, or another of its threads.
HostChdir(path) ==
    /\ InDirs(Walk(process, path)) # None
    /\ process' = Walk(process, path)
    /\ call' = None
    /\ UNCHANGED <<alive, current, cwd, kernel, table, home, settled>>

\* getcwd by the running process, with a buffer that is large enough or not.
Getcwd(fits) ==
    /\ current # None
    /\ Made("getcwd", current,
            IF ~fits THEN None ELSE IF cwd[current] = None THEN process ELSE cwd[current],
            IF ~fits THEN None ELSE home[current])
    /\ UNCHANGED <<alive, current, cwd, process, kernel, table, home, settled>>

\* vproc_ffi_get_cwd, on the driver thread, for any process; it fails if that
\* one has no cwd of its own.
FfiGetCwd(p, fits) ==
    /\ p \in alive
    /\ Made("getcwd", p, IF fits THEN cwd[p] ELSE None, IF fits THEN home[p] ELSE None)
    /\ UNCHANGED <<alive, current, cwd, process, kernel, table, home, settled>>

\* A kernel fd is opened on node n and goes into the table of p (insert_file).
Opened(op, p, n, want) ==
    /\ Made(op, p, n, want)
    /\ IF n = None
       THEN UNCHANGED <<kernel, table>>
       ELSE /\ Len(kernel) < MaxOpens
            /\ kernel' = Append(kernel, n)
            /\ table' = [table EXCEPT ![p] = Append(@, Len(kernel) + 1)]
    /\ UNCHANGED <<alive, current, cwd, process, home, settled>>

\* Mutant: the path goes to the kernel as it came.
OpenUnresolved(path) ==
    /\ current # None
    /\ Opened("open", current, Walk(process, path), Walk(home[current], path))

\* open and openat(AT_FDCWD, ...) by the running process.
Open(path) ==
    /\ current # None
    /\ Opened("open", current, Walk(process, OpenPath(current, path)),
              Walk(home[current], path))

\* openat relative to a virtual fd of the running process: the number goes to
\* the kernel as it is.
OpenAt(fd, path) ==
    /\ current # None
    /\ fd \in DOMAIN table[current]
    /\ LET start(f) == IF f \in DOMAIN kernel THEN InDirs(kernel[f]) ELSE None
           reached(f) == IF path.absolute \/ start(f) # None THEN Walk(start(f), path) ELSE None
       IN Opened("openat", current, reached(fd), reached(table[current][fd]))

\* creat by the running process, of a file that is there: its path is not
\* resolved.
Creat(path) ==
    /\ current # None
    /\ Opened("creat", current, InFiles(Walk(process, path)),
              InFiles(Walk(home[current], path)))

Next ==
    \/ \E p \in Procs : Spawn(p) \/ Run(p) \/ Fork(p)
    \/ RealFork
    \/ \E path \in Paths : Chdir(path) \/ Open(path) \/ Creat(path)
    \/ \E path \in HostPaths : HostChdir(path)
    \/ \E fits \in BOOLEAN : Getcwd(fits) \/ \E p \in Procs : FfiGetCwd(p, fits)
    \/ \E fd \in 1..MaxOpens, path \in Paths : OpenAt(fd, path)

Spec == Init /\ [][Next]_vars

-----------------------------------------------------------------------------
(* Properties.                                                             *)

\* The state has the types that preload.rs gives it: a cwd is the path of a
\* directory, and every virtual fd stands for a kernel fd that is open.
TypeOK ==
    /\ alive \subseteq Procs /\ settled \subseteq alive
    /\ current \in alive \cup {None}
    /\ process \in Dirs
    /\ \A p \in Procs :
          /\ cwd[p] = None \/ InDirs(Walk(<<>>, Absolute(cwd[p]))) # None
          /\ home[p] \in Dirs
          /\ \A fd \in DOMAIN table[p] : table[p][fd] \in DOMAIN kernel
    /\ \A k \in DOMAIN kernel : kernel[k] \in Node

\* The chdir, getcwd, open and openat(AT_FDCWD) of a process that has changed
\* to an absolute path, or was forked from one, reach (or fail to reach) what
\* the kernel finds from the directory a process of its own would be in,
\* whatever the others, the host and failed calls do: Coroutine::cwd names its
\* directory, and resolving a path against it changes nothing that the program
\* can see.
SettledCallsLand ==
    (call # None /\ call.op \in {"chdir", "getcwd", "open"} /\ call.settled)
        => call.got = call.want
=============================================================================
