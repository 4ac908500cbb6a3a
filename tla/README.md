# A TLA+ model of vproc

vproc runs many "virtual processes" inside one OS process. Each is a minicoro
coroutine; a per-session *driver thread* schedules them cooperatively, libc calls
are intercepted so that `fork`, `waitpid`, `kill`, `read`, ... act on the virtual
process, and programs are loaded with `dlopen` or with a PIE loader.

This directory holds TLA+ modules translated from the sources under `src/`, TLC
configurations that check them on small instances, and proofs checked by TLAPS.

## The system and its parts

| Part | Source | Model | Proofs |
|---|---|---|---|
| Scheduler: ready queue, pids, exit codes, children, I/O waits | `executor.rs` | `Executor` | `SessionDriverProofs` |
| Coroutine life cycle, fork flags, pending signals | `coroutine.rs` | `Executor` | `SessionDriverProofs` |
| exit, execve, waitpid, kill, raise as intercepted; virtual fork | `preload.rs`, `ffi.rs` | `Executor` | `SessionDriverProofs` |
| One session: driver thread, mutex, spawn queue, waiters, condition variable, client calls | `ffi.rs` | `SessionDriver` (extends `Executor`) | `SessionDriverProofs` |
| Several sessions: the mutexes and who waits for whom; the C preload library's way into them | `ffi.rs`, `preload.c` | `SessionLocks` | `SessionLocksProofs` |
| Several sessions: the fd tables and fds 0-2 they share | `ffi.rs`, `vfd.rs`, `executor.rs` | `Sessions` | `SharedProofs` |
| Virtual pipe buffer and the read/write loops on it | `vfd.rs`, `preload.rs` | `PipeRing`, abstract `PipeChannel` | `PipeRingProofs` |
| Fd tables, and the kernel fds behind them | `vfd.rs`, `preload.rs`, `ffi.rs` | `VfdTable`, `VfdTables`, abstract `PosixFds` | `VfdTablesProofs` |
| read, write, poll and select that wait | `preload.rs`, `executor.rs` | `PollIo` | `PollIoProofs` |
| Working directories | `preload.rs`, `ffi.rs` | `Cwd` | |
| Virtual exec, binary cache, GOT patching, what a coroutine owns | `vexec.rs`, `coroutine.rs` | `VirtualExec` | `VirtualExecProofs` |
| Search for `main` in `_start` | `vexec.rs` | `MainAddr` | `PieLoaderProofs` |
| ELF reader, PIE loader | `elf.rs`, `loader.rs` | `PieLoader` | `PieLoaderProofs` |
| Coroutine stacks and `mco_fork_from` | `minicoro.c` | `ForkStack` | `SharedProofs` |

How the parts interact: clients call `create_process`/`run_until_exit`/
`destroy_session` from any thread. They hand requests to the driver through the
session. The driver owns the executor, resumes one coroutine per iteration,
answers waiters, reaps, polls the fds that coroutines wait for and sleeps on a
condition variable when it sees no work. A coroutine gives control back only by
a yield, so executor state changes under the session mutex only. The fd tables,
fds 0-2, the working directory, the `dlopen`ed images and the binary cache
belong to the OS process: all sessions share them.

## Modules

Each `MC*` module instantiates a module for TLC. Where one instance with every
call is out of reach, a behaviour keeps to one of several *scenarios*, chosen in
its first state and held in the variable `scenario`: the calls that are made and
the limits that go with them. `MCLoader` runs `PieLoader` and `MainAddr`, and
`MCShared` runs `ForkStack`, `Cwd` and `Sessions`, as *parts* that never mix.
`ExecLoader` (`PieLoader` with `MainAddr`) and `SharedProcess` (`ForkStack` with
`Sessions`) put side by side what a run and a proof module have in common.

**Executor.** The variables are the fields of the Rust `Executor` (`vprocs`,
`ready_queue`, `next_pid`, `current`, `children`, `saved_fork_lr`,
`exit_codes`) and `aborted`, set when a panic crosses an `extern "C"` frame. A
coroutine is a record of the fields of `Coroutine` that control depends on, and
of where its code stands (`at`, `arg`): in a closure that has not started, in
program code, in the loop of `waitpid`, or behind the yield of `vproc_ffi_fork`.
There is one action per call (`Spawn`, `DoYield`, `YieldForIo`, `Exit`, `Execve`,
`Kill`, `Raise`, `WaitpidEnter`/`Return`/`Yield`, `ForkCall`, `HelperRun`,
`ForkReturn`) and per driver operation (`Step`, `Reap`, `PollAndWake`). Loops over
a `HashMap` push pids in any order (`Orders`). The executor alone does not fix
the order of driver operations; `SessionDriver` does.

**SessionDriver.** `run_session_driver` cut where it takes or gives up the session
mutex, and the three client calls cut at each lock, at the push that needs only
the queue's lock, and at their polling of a result. The driver holds the mutex
exactly at the places `drain`, `step` and `slice` (`Unlocked`). The waits for a
result are bounded in the code; the model lets them give up at any time.
`FdsBecomeReady` is the kernel and is external.

**SessionLocks.** Threads (clients and drivers) and locks (0 for `SESSIONS`, `s`
for the mutex of session `s`). A call moves through the places `sessions`,
`lookup`, `session`, `inside`, `again`, `poll`; a driver through `start`, `top`,
`slice`, `rest`, `ended`. With `Preload` a program may call
`vproc_ffi_vpid_exists` from its slice, as the C preload library does, with a
pid where the function expects a session id. The locks of spawn queues and
result slots are held for single operations, with nothing locked meanwhile, and
are left out, as are host threads that call the C preload library themselves.

**Sessions.** What drivers share without a lock: `FD_TABLES`, keyed by pids that
every executor counts from 1, and fds 0-2. `Overlap` says how careful the host
is: each session after the driver of the last has ended (`never`), after it was
told to stop (`shutdown`), or at any time (`free`). The run has `never`.

**VfdTable, VfdTables, PosixFds.** `VfdTable` has the methods of one table as
operators. `VfdTables` has the tables of all processes over the kernel's table:
open, dup, dup2, close, pipe, the `vproc_ffi_` fd calls, fork, exec, the swap of
fds 0-2 around a slice and the reap, with the host opening fds in between.
The scenario says which entry points are used. An `Arc` is an identity, and its
count the number of entries that hold it. `lent` is a history variable: what the
host has given to a process already. `PosixFds` is the promise: private maps,
changed by their process only.

**PollIo.** Channels are a number of bytes and whether the writers are gone.
`inside` is the coroutine that is in a kernel call which may block; while it is
there nobody else on that driver thread runs. Deadlines are ticks, and timeouts
are computed with the width of `c_int`.

**Cwd.** `chdir`, `getcwd`, `resolve_path` and the opens, over a tree of names.
`home` is a history variable: where each process would be if it were a process
of its own.

**VirtualExec.** The three ways from a path to a coroutine, cut at each access to
something that driver threads share: `BINARY_CACHE`, the images, the static
`SEARCH_PATH`, the hook flag. The globals of an image are abstracted to who
wrote them last.

**PieLoader.** An address space of words and `load_pie` cut at its system calls;
a file is its LOAD headers, dynamic table and relocation entries.
`ReferenceWord` defines the image a file stands for. **MainAddr** runs the search
for `main` over instruction sequences, and checks it against executing them.

**ForkStack.** Stacks are disjoint ranges of addresses, words hold addresses or
anything else. Coroutines push, pop and store through their register; `Fork`
copies a stack and moves what points into it.

**PipeRing / PipeChannel.** `PipeBuffer` byte by byte, with several readers and
writers whose calls may be partial. `sent`, `got` and `eof` are history
variables: what the calls returned. `PipeChannel` is the abstract specification,
a bounded FIFO stream with an end.

## Runs

| Run | Instance | Shows |
|---|---|---|
| `executor` | scenarios `forks` (two programs, helper pids to 5), `waits` (three programs, a fork, I/O waits for fds and a deadline), `signals` (two programs, a fork, I/O waits of both kinds, SIGKILL) | the ready queue is exact; the running coroutine is live; fork and waitpid are right under nested and overlapping forks; exit codes are final; round robin starves nobody; waitpid returns |
| `session` | two clients, two processes, one kind of I/O wait | no lost wakeup, right exit codes, the driver implements `Executor` |
| `session_live` | two clients, one process | requests, waiters and awaited I/O are served |
| `locks` | two clients; scenarios `one` (one session, every call), `two` (two sessions), `preload` (programs on the C preload library, clients that only create processes and wait) | no circle of waiting threads; a session found in the map has a driver; every call returns |
| `pipe` | capacity 3, two readers, two writers, counts to 4, 6 bytes | the ring is a FIFO channel with an end that comes last; a close drains |
| `fds` | scenarios `Files2` (two processes with a terminal each, every way to open, dup and close, and a host that opens fds), `Mixed` (one process with files, kernel pipes and virtual pipes), `Numbers` (one process, every call without virtual pipes), `Family` (fork, exec, close-on-exec), `PipesShared`, `PipesMoved` (virtual pipes under fork, dup and dup2) | tables implement `PosixFds`; entries reach what they were made for; a slice has its own fds 0-2; the last owner closes each kernel fd; a buffer closes exactly when a process gives up its last end |
| `io` | two coroutines; scenarios `OwnPipes` (a kernel pipe and a virtual one), `SharedPipe` (two kernel pipes, one shared with another OS process) | when the driver thread waits in the kernel; hangups and deadlines end waits |
| `exec` | scenarios `Refused` (a dynamic and a static binary, forks, unloading, every step may fail), `Mixed` (two dynamic binaries, each run by several programs at once), `TwoSessions` (two sessions, the same binary, the fallback to `main`) | clean globals, interception, mapped code, no lost handle |
| `loader` | parts `layouts` (two calls over all layouts of a small image), `calls` (refusals, malformed files, foreign mappings), `main` (all sequences of up to four instructions) | a loaded image is the file; reservations are disjoint, nobody's words are taken; the search for `main` agrees with execution |
| `shared` | parts `stacks` (two stacks of two words), `directories` (two processes and the host), `sessions` (three sessions in succession) | no address of another's stack survives a fork; the calls of a process that has named its directory land where those of a process of its own would; fd tables and fds 0-2 are the running process's, the host gets 0-2 back |

Two runs are expected to fail. Each shows a line of the repository to be untrue;
the line is quoted with its place in `PROJECT.json` (`findings`).

| Run | What happens |
|---|---|
| `executor_kill` | the driver ignores `deliver_signals` and resumes a coroutine with SIGKILL pending |
| `session_shutdown` | a sleeping driver is not notified of the shutdown |

**Conditions the properties carry.** Some properties hold only under a condition,
stated in the property itself, in a scenario or in a constant. The condition is
there because the code guarantees no more. What the conditions leave out is not
covered by the runs or the proofs:

* *Locks.* `NoDeadlockWithoutPreload` assumes programs without the C preload
  library. Under it `vproc_ffi_vpid_exists` is called from a slice, when the
  driver holds its session's mutex, and takes a pid for a session id; `preload`
  therefore has no destroy, and no pid that is also the program's own session.
  `CallsReturn` assumes that slices end: `destroy_session` waits for the mutex
  with the map locked.
* *Driver.* `AwaitedIoIsServed` speaks of times at which a client waits in
  `run_until_exit`: a driver without waiters sleeps, and then does not poll. A
  `create_process` that gave up leaves its request queued, and the process
  starts later.
* *Fork and signals.* `saved_fork_lr` is one slot for all forks in flight. A
  killed closure that has not started is dropped and then called, which aborts.
* *Sessions that overlap* use the same keys in `FD_TABLES`, the same fds 0-2 and
  the same saved copies; `Overlap = "never"` is the host that does not.
* *Fds.* `EntriesReachable` speaks of processes that each have a terminal of their
  own and a table that only their own calls fill, and that name no kernel fd by
  its number (`OwnFiles`: no shared terminal, no `Executor::spawn`, fork, exec or
  dup2). With shared descriptors a close, dup2, exec or reap acts on the kernel fd
  that another entry still names. `ImplementsPosix` and `SliceHasOwnFds` also leave
  out the pipes and `vproc_ffi_dup2` (`Isolated`). `NoKernelFdLeaks` leaves
  out pipe() and copies within a table, which are leaked. `VfdTable::dup2` may take the number that
  `next_fd` gives next, and a number that is not in the table is taken for a
  kernel fd. A buffer closes when one process has no end left, whatever others
  have, and not when all ends of one kind are gone.
* *I/O.* `DriverNeverBlocks` names its exceptions: a write beyond `PIPE_BUF`, a
  reader outside the OS process that was faster, and a poll without fds. A
  finite poll starts over at each deadline, and a poll of virtual pipes alone is
  looked at again at its deadline only.
* *Exec.* `HandlesAreOwned` and `CleanSlate` speak of one session whose binaries
  have no `main` symbol. The fallback to `main` keeps its handle nowhere. Two sessions
  that load a binary for the first time both insert it, and the handle of the
  first is lost; `SEARCH_PATH` is one static for all searches. `CleanSlate` also
  needs one program per binary at a time, since all coroutines of a binary have
  the same globals. `CodeMapped` needs a host that unloads no binary in use,
  and `active_users` does not tell it which are: it only grows.
* *Directories.* `SettledCallsLand` speaks of processes that have named a
  directory; the others are where the last `chdir` of any process left the OS
  process. `creat`, and `openat` with a descriptor, do not resolve their path.
  The paths have no ".." behind a name: `resolve_path` drops both without a look
  whether the name is there, and the kernel looks.
* *Loader.* The files have a first LOAD segment that starts at 0 and is mapped
  where it is in the file; `load_pie` reserves the span but maps at `base + vaddr`,
  and reads DT_RELA as a file offset. `FindsMain` has targets less than 2 GiB
  away, which is what the sign extension in `decode_adrp` reaches.

**Type invariants.** `TypeOK` of `Executor` is checked in `executor` and proved.
`RingTypeOK` is proved, and `StackTypeOK` is part of an inductive invariant. Those
of the other modules say what the variables hold, and no run lists them.

**Bounds.** `SpawnLimit` and `ForkLimit` bound the pids that programs and fork
helpers get. Three coroutines are what the queue properties need (one runs, one
waits, one is queued); a helper pid of 5 allows two complete forks that overlap
or nest. The pipe's counts exceed its capacity and its stream is twice as long,
so both positions wrap with the ring empty, partly full and full. Two clients
are needed for one to destroy or to push while the other waits, and two sessions
for a circle through the map and a session mutex. `session_live` has one
process, and the scenario `two` of `locks` fewer calls, because liveness with
more takes too long. In `VfdTables` the limits on kernel fds, descriptions and
references leave room for each process to hold two descriptors while a number is
freed and taken again by the host. `PollIo` pipes hold two bytes with `PIPE_BUF`
one, so that they are empty, writable, and full. `VirtualExec` has four or five
coroutines: the first, a second exec of the same binary from the cache, and a
fork of each. A page of the loader is two words and a slot two pages: segments
share pages, straddle them and leave gaps. `ForkStack` has two stacks of two
words because more only add copies; the proof covers any number and size.
Symmetry is used for the clients of `session` and the calls of `loader`, both of
which check safety only. `CHECK_DEADLOCK FALSE` stands where the system may
stop: nothing to run, all programs exited, a session destroyed with all clients
done, a limit reached, or programs that wait for each other's pipes.

**Fairness.** The driver loop runs (`WF`). Coroutines are cooperative, so
progress needs programs that cooperate: one that runs again and again reaches a
call that switches (`SF` on `SwitchOut`, `SliceEnds`). A client that asks for a
mutex again and again gets it (`SF`), and poll() does not fail for ever. Nothing
is assumed of spurious wakeups, of fds becoming ready or of clients calling
anything. In `PollIo` a coroutine's turn in its loop comes (`SF`;
`ReadyCoroutinesRun` provides it), the driver polls again and again, time passes,
and kernel calls that can return do. In `PipeRing` a reader repeats its attempts.

## Proofs

All for every value of the constants, under the named assumptions of the
modules, which every run of the module evaluates:

* limits are naturals, capacities and sizes positive, stacks and sessions are
  numbered by positive numbers, scenarios are records of the right type, `None` is
  no thread, coroutine, pid or cache entry;
* `MainAssumption` (`MainAddr`): the adrp instructions reach no further than the
  20 bits that `decode_adrp` keeps;
* `FileAssumption`, `LayoutAssumption` (`PieLoader`): headers hold numbers, a PIE is
  linked at 0, no page belongs to two segments, relocations have targets of
  their own in writable segments, and DT_RELA is also the table's file offset.
  `load_pie` takes these for granted. Both are needed: a file that breaks one is
  loaded wrongly.

Each proof module names its provers once, with `USE`: Zenon for what is first-order
logic and sets, the SMT solver for what needs arithmetic, and Zenon once more with a
longer limit. A leaf names one only where the others would not do.

The scenarios of a module are a constant, so a theorem covers every set of calls
and limits at once. A condition that a property carries (see above) is part of
the theorem.

* `SessionDriverProofs`, on `Executor`: `TypeCorrect`, that is `Spec => []TypeOK`. `TypeOK` is
  inductive. Lemmas about the queue (`PushBack`, `PushFront`, `PushAll`,
  `PopFront`) and about what each operation does to the map of coroutines.
  `QueueIsExact` and `RunningCoroutineIsLive`: neither is inductive alone. The
  step that decides whether a resumed coroutine may be pushed needs to know it
  is live and not queued; that a finished coroutine never comes back needs the
  link between `done` and `exit_codes`. `QueueInv` conjoins these.
  `ExitCodesStayFinal` is an action property and follows from the same
  invariant. `HelperFindsItsCaller` and `ForkAlwaysReturnsOwnChild` need
  `ForkInv`: a live helper is the next coroutine to run, or runs, so there is at
  most one whatever forks nest or overlap; its caller is suspended in that very
  call; and a caller whose helper is gone has its child. `ForkFrame` is the
  common part of all steps that do not touch a fork.
* `SessionDriverProofs`, on `SessionDriver`: `SessionImplementsExecutor`, step by step (`DriverMaps`,
  `StepMaps`). It needs `DriverInv`: between slices no coroutine runs, and what the
  driver hands to `wake_io_ready` after poll(), during which it had given up the
  mutex, still waits. `SessionQueueIsExact` carries `QueueIsExact` over to the
  session. `WaitersGetRecordedCodes` needs `ClientInv` (a waiter is for the pid its
  client still waits for) and that exit codes are final. `NoWakeupIsLost` is
  inductive given `ClientInv`.
* `PipeRingProofs`: `RingTypeCorrect`, `StreamStaysIntact`, `EofStaysFinal` and
  `RingImplementsChannel`, from `RingInv` = `RingTypeOK /\ StreamIntact /\
  PositionsMeet`. `PositionsMeet` (`write_pos` is where the unread bytes end) is
  what makes `StreamIntact` inductive: a write must land behind the last unread
  byte. The arithmetic of wrapping is in `Wrap`, `ReadShift` and `WriteOffset`.
  `ReadDelivers` and `WriteAccepts` turn ring steps into channel steps.
* `PollIoProofs`: `DriverIsNotBlocked`, from `IoInv`. Its part `InsideInv`
  carries what the readiness check saw into the kernel call: a pipe that had data
  or had lost its writers still has data or no writers, since all readers but
  those of other OS processes run on this thread, and a pipe with `PIPE_BUF` free
  bytes takes a write of at most `PIPE_BUF` in one go.
* `SessionLocksProofs`: `NoDeadlockWithoutPreload`, for programs that do not use
  the C preload library. The inductive invariant `LockOrder` says which locks a
  thread may hold where it is: who waits for `SESSIONS` holds nothing, who waits
  for a session mutex holds at most `SESSIONS`, who holds a session mutex waits
  for nothing. `FoundSessionsAlwaysRun` holds with the C preload library too.
  Its invariant `SessionOwners` follows a session's id from the one thread that
  creates it, over the map, to those that destroy it.
* `SharedProofs`, on `ForkStack`: `ForkKeepsStacksApart` and `RunningWritesOwnStack`, from
  `StackInv`: types, `OwnStackOnly`, and that a free stack is empty, without
  which a new coroutine could inherit frames.
* `SharedProofs`, on `Sessions`: `SessionsKeepTheirTables` and
  `SessionsSwapTheirTerminals`, for a host whose sessions do not overlap
  (`Overlap = "never"`; without that both are false). `SessionsInv` says that at most
  one session has a driver (`TurnsInv`), that FD_TABLES has exactly the tables of
  its processes, whose terminals are open (`OwnTablesInv`), and that fds 0-2 are
  swapped exactly while a coroutine runs and were saved as the host's (`StdioInv`).
  The three need each other: what a driver saves and restores is right because no
  other driver has swapped, and reaping closes no terminal that a table still has.
* `PieLoaderProofs`, on `PieLoader`: `SlotsNeverOverlap`, from `SlotOrder`: slots are ordered, and
  `NEXT_BASE` is past them all. `SlotFits` (rounding up never shrinks) is the
  arithmetic it rests on. `MappingsAreNeverReplaced` adds `OwnInv`: from mmap to
  munmap a call owns every word of its reservation, and `SpanCovers` shows that
  all pages of all segments lie in it. `LoadedImagesMatch` adds `ImageInv`: the
  segments mapped so far hold the words of the file, which later segments do
  not touch since they share no page, and the relocations make them the image.
* `PieLoaderProofs`, on `MainAddr`: `SearchFindsMain`, for instruction sequences of any
  length and any scan limit. `PairsAre` shows that the search considers the one ldr
  with every adrp of its register, `SlotIsExecuted` that the nearest adrp and the
  add behind it give the slot which the ldr reads.
* `VirtualExecProofs`: `RunningCodeIsMapped` and `CallsAreIntercepted` from `ExecInv`.
  It counts the handles of each image (the cache's, the guards' of execs in
  progress, and one for each way into `main`), and says for each place of an exec
  and each way into an image what may be relied on: a coroutine entered at
  `_start` keeps the cache entry, and with it the patched GOT. `NoHandleIsLost`
  needs `OneInv`: in one session the guard of an exec and the cache entry exclude
  each other. `ProgramsStartClean` needs `SlateInv`: a snapshot is taken, and an
  image restored, only while nobody else has run there, up to the moment the
  new program does.
* `VfdTablesProofs`: `TableInv` has the types. `AbandonedPipesClose` needs
  `AllocInv`: without dup2, `next_fd` is above all numbers in use, so an allocation
  drops no entry. `KernelFdsDoNotLeak` needs `LeakInv`: no two entries of a table
  hold one `FileRef`, so the entry that goes is the last of the table.
  `EntriesStayReachable` needs `OwnInv`: the kernel fds of the
  tables, those from pipe() and those the host has not lent yet are pairwise
  disjoint, so whoever closes one closes its own. `SlicesHaveOwnFds` adds
  `SliceInv`, which follows fds 0-2 through the swap. `TablesImplementPosix` takes
  all of these but `LeakInv`, and shows for each call that one map changes as POSIX
  says and `OthersKeep` the rest.

Only model-checked:

* all liveness, which needs fairness and `ENABLED`, out of the prover's reach;
* `SettledCallsLand`, where paths are folded over sequences of any length: what a
  fold computes is found by induction over the sequence.

Every other invariant, action property and refinement of a passing run has a
theorem. The library's induction theorems take an operator as a parameter and cannot be
used. Where a proof needs induction over numbers, it takes a least
counterexample (`LeastOf`, `LeastNat`), which suffices for what is finite and first-order.

## Not modelled, and what is abstracted

* Job control (`getpgid`, `setpgid`, `setsid`, `tcsetpgrp`, ...): the functions
  keep no state. Logging: pure output.
* The data of programs: arguments, buffers other than pipe bytes, errno values.
  Branches for a disabled library or inside a real fork child pass the call on
  to the kernel.
* `Coroutine::resume` keeps a `&mut` into the map across the switch. Its store
  after the switch writes `Ready`/`Running`, which no code tells apart, so the
  model has no effect for it; what it may do to freed memory is outside.
* Functions that nothing calls: the executor's `step`, `yield`, `is_child_of`,
  `reap_child`, `remove_exit_code`, and `spawn_main_coroutine`.
* Calls with `count` 0 on a virtual pipe. The bits of `fd_set`s. `fstat` and
  `lseek`, which change no modelled state.
* `Cwd` has no symbolic links, with which a `..` resolved in the stored path
  and one resolved by the kernel differ, no empty path, and no relative path of
  an exec.
* `PieLoader` has no byte layout of headers, no interpreter path and no auxiliary
  vector. The table of intercepted names, the bytes of trampolines, the page
  protections around a GOT and the lifetime of `argv_c` are left out of
  `VirtualExec`.
* minicoro: a return of a coroutine's function, nested resumes and the storage
  of `mco_push`, none of which occurs in vproc; the context switch itself; other
  processors.
* The C preload library's remaining functions only call `vproc_ffi_` functions
  that other modules have.
* Signal masks and names of threads.
