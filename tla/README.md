# A verification project for the C shell and its xv6 kernel

The repository holds two programs: **c-shell**, an interactive POSIX shell with
job control (`src/c-shell`), and **xv6**, the teaching kernel with a multi-level
feedback queue scheduler added (`src/xv6`). This directory models their core
logic in TLA+, checks it with TLC on small instances and proves part of it with
TLAPS. Line numbers refer to the files under `src/`; `PROJECT.json` maps every
definition to its lines.

## 1. Inventory

### Kernel (src/xv6/kernel)

| Component | State | Operations | What makes it correct | Model |
|---|---|---|---|---|
| MLFQ scheduler (`proc.c`, `trap.c`) | process table, four queues of processes linked through `p->next`, `c->proc`, `ticks` | `scheduler`, `yield`, `sleep_prepare`/`sleep`, `wakeup`, `kkill`, `kfork`, `kexit`, `kwait`, tick path, `mlfq_boost` | no process lost, queued twice, or run twice; slices bounded; nobody starves | `MLFQ` |
| Process life cycle (`proc.c`, `sysproc.c`) | slots, pids, parents, `killed`, `wait_lock` | `kfork`, `kexit`, `reparent`, `kwait`, `kkill`, `setkilled`, `sys_pause` | each zombie has somebody who waits for it; a killed process dies; nobody else does | `ProcLife` |
| Write-ahead log (`log.c`) | header and log blocks on disk, `log.lh`, `outstanding`, `committing`, `ncommit` | `begin_op`, `log_write`, `end_op`, `commit`, `sys_sync`, recovery | a transaction survives a crash whole or not at all; sync means durable; nobody waits for good | `Log`, `AtomicDisk` |
| Buffer cache, sleep locks, disk driver (`bio.c`, `sleeplock.c`, `virtio_disk.c`) | LRU list, `refcnt`, `valid`, holders, descriptors, rings | `bget`, `bread`, `bwrite`, `brelse`, `bpin`, `bunpin`, `virtio_disk_rw`, `virtio_disk_intr` | one buffer per block, with its latest contents; counts exact; no lost wakeup | `Bcache` |
| Inodes, directories, calls (`fs.c`, `sysfile.c`) | dinodes, bitmap, entries, inode table, `cwd` | `ialloc`, `iget`, `ilock`, `iput`, `bmap`, `itrunc`, `dirlink`, `namex`, open, create, mkdir, mknod, link, unlink, chdir, read, write, close, `ireclaim` | link counts, blocks and references exact after every call, failed call and crash | `FileSystem` |
| Pipes, file table (`pipe.c`, `file.c`, `sysfile.c`) | `ftable`, `p->ofile`, ring buffers | pipe, dup, close, read, write, with fork, exit, kill | a pipe is a byte stream; counts exact; no lost wakeup | `Pipe`, `ByteStream` |
| Memory (`kalloc.c`, `vm.c`, `exec.c`, `proc.c`) | free list, page tables, `p->sz` | fork, exec, sbrk, page fault, exit, wait | no frame leaked or freed twice; no page outside its process | `Vm` |
| Spin locks, drivers of console and serial port, boot, dispatch of system calls | | | | not modelled |

The components meet in `p->lock`, `sleep`/`wakeup`, and the timer interrupt. What
is hard: several CPUs take one lock at a time, so every chain of two critical
sections is a window for the others; the tick path touches `p->priority` and
`p->ticks_used` with no lock; a path is resolved with one inode locked at a time, so
what was looked up may be gone when it is used; every allocation, of a frame, a
block, a descriptor or a slot, may fail in the middle of a call; a crash may fall
between any two disk writes.

### Shell (src/c-shell/src)

| Component | State | Operations | What makes it correct | Model |
|---|---|---|---|---|
| Job control (`background.c`, `terminal.c`, `resume.c`, `main.c`, `command.c`) | `jobs[]`, notification pipe, signal mask, terminal owner | launches, SIGCHLD handler, foreground waits, `resume`, drain, end of file | no status lost, no live process forgotten, no dead job listed, the prompt comes back | `JobControl` |
| Lexer (`lexer.c`) | list of tokens | `lexing` | quoting protects | `Lexer` |
| Parser, dispatch and command passes (`parser.c`, `main.c`, `sequence.c`, `command.c`) | tokens, stages | `parsing`, the dispatch to built-ins, `sequence_command`, `parse_*` | the passes agree with each other | `CommandLine` |
| Pipeline plumbing (`command.c`, `background.c`) | pipe ends and files of the shell and its children | set-up, pipe, fork, dup2, close, wait, writers, copiers | every reader sees the end of its input; the shell keeps nothing open | `Plumbing` |
| `activities`, `ping` | | | | in `JobControl` |
| `hop`, frecency; `snoop`; `spy`, `reveal`, `peek`, `locate` | | | | not modelled (section 5) |

The shell is one thread and one signal handler. What is hard: the handler runs
between any two instructions where SIGCHLD is not blocked, SIGCHLD does not
queue, two waiters (`waitpid(-1)` in the handler, `waitpid(-pgid)` in the
foreground wait) compete for the same statuses, SIGALRM races with `waitpid`, and every
child inherits whatever the shell has open at the moment of the fork.

`PROJECT.json` lists the hazards at their lines, with the properties aimed at them.

## 2. Modules

| Module | Role |
|---|---|
| `MLFQ` | the scheduler: one step per critical section or unlocked access |
| `ProcLife` | fork, exit, wait, kill and pause, above the scheduler |
| `AtomicDisk` | abstract specification: a disk whose contents become durable in one step |
| `Log` | `log.c`, shown to implement `AtomicDisk` |
| `Bcache` | the buffer cache, sleep locks and the disk driver below the log |
| `FileSystem` | inodes, directories and the calls on them, above the log |
| `ByteStream` | abstract specification: a bounded byte stream with two ends |
| `Pipe` | `pipe.c` and the file table, shown to implement `ByteStream` |
| `Vm` | frames and page tables |
| `JobControl` | the shell's job control |
| `Lexer` | `lexer.c` as a fold over the characters of a line |
| `CommandLine` | on top of `Lexer`: parser, sequences and redirection passes as folds over tokens |
| `Plumbing` | pipe ends, writers, copiers and stages of one command line |
| `MC...` | constants and symmetry for TLC |
| `MLFQProofs`, `ProcLifeProofs`, `LogProofs`, `BcacheProofs`, `PipeProofs`, `VmProofs`, `FileSystemProofs` | theorems about the module each extends |
| `ShellProofs` | theorems about `JobControl` and `Plumbing`; it extends both, so their definitions have different names |

In the component modules a definition named `...Mutant` (or `finishSilent`) is the
next definition with a plausible bug in it. Nothing uses it; replacing the
original by it must break the property `PROJECT.json` names.

`sleep_prepare()` followed by `sleep()` is modelled the same way in every kernel
module: the first sets `chan`, the second sleeps only if `chan` is still set, and a
wakeup in between clears it.

### MLFQ

Variables are the fields of `struct proc`, the queues, and per CPU a program
counter with the registers that live across steps: `hand` (the process
`scheduler()` dequeued and has not locked yet), `rt` and `rq` (values loaded by the
tick path before they are stored or used). `p->lock` is held across steps only
from `sched()` to the scheduler's `release`; `Locked` says so, and every other
acquisition of that lock waits for it. `clockintr()` runs on CPU 0 on top of
whatever CPU 0 was doing (`intr`), one table slot or one queue per step. Every load
of `p->priority` in the tick path may return the value before or after a boost
that runs meanwhile (`\E q \in {rq[c], priority[p]}`).

Abstracted: memory, files, parents and `killed`; any process may reap any zombie,
and `EventWakeup` stands for every caller of `wakeup()` other than the clock, those
in `kexit()` included (wakeup takes `p->lock` slot by slot, so it is a sequence of
steps of its own); it needs a CPU that runs a process or has its interrupts on. The
counters for metrics (`rtime`, `waiting_ticks`, ...) are left out. `ticks` is kept
modulo the boost period; the code's wraps at 2^32, which is not a multiple of 48, so
one boost in 13 years comes early.

### ProcLife

Here RUNNABLE and RUNNING are one state. A step is a section under `wait_lock`,
`tickslock` or one `p->lock`; `kfork()` takes three of them, and `kwait()`'s scan,
its test of `killed` and `sleep_prepare()` are one step under `wait_lock` with
`sleep()` after it. `kkill()` compares pids before states, as the code does, so that
pid 0 meets a free slot. `Fault` is the other way to be marked: `usertrap()` calls `setkilled()`
on a process whose exception nobody handles. `doomed` (the pids that were found by a kill() or faulted) and
`tainted` (the free slots that kill(0) marked) are history. Slot 1 is init, which waits for ever; it is never killed
in the run (kill(1) makes `kexit()` panic "init exiting", by design of the code).

### Log

Block contents are the number of the call that wrote them last. Sections under
`log.lock` are steps; the commit takes a step per block written. `Crash` forgets
memory and keeps the disk; it may happen during recovery. `pending` and `need` are
history: calls that ended and are not durable, and what they were when a
`sys_sync` began.

The refinement mapping to `AtomicDisk`: `durable` is what a recovery would bring
back now (`Recovered`), `view` is the buffer cache, or `Recovered` while the system is
down, `active` are the processes between `begin_op` and `end_op`.

### Bcache

Processes read blocks, change and pin them as `log_write()` does, and write and unpin them
as the commit does. `latest` is history: the last change made to each block. The
contents are two values that a change flips. The virtio device is external: it takes requests in any
order, puts them on the used ring and raises the interrupt; the handler runs a step
per ring entry. `alloc3_desc()` gives back a partial allocation with a wakeup per
descriptor, in one step under `vdisk_lock`. When every buffer is referenced `bget()` panics with
`bcache.lock` held (`BgetPanics`); nobody who needs that lock goes on. A process holds one buffer
at a time; `write_log()` and `install_trans()` hold two (`log.c` 76, 193), which is not in the
model, and neither are the writes of log blocks and of the header, which are not pinned (`log.c` 114, 196).

### FileSystem

An inode has a copy on the disk (`disk`) and one in the inode table (`mem`). A section under
one inode's sleep lock is a step; where a call takes a second lock, or reaches `iput()`,
while it holds the first, others may run in between. A call is a record `pr[p]` that
goes through `namex` element by element, then through the call's own sections, then
through the list of references it has to put. The log is used through its
abstraction (`AtomicDisk`): a crash goes back to the last moment at which no call was in
progress, since that is when `end_op()` commits. Open files and reads and writes are those
of one descriptor per process; the bytes are left out, but the growth of a file by
`bmap()`, the indirect block included, is there, and so is a full disk. A name is a member
of `Names`, `NoName` that of an empty entry. `ilock`,
`bfree`, `iput` and `sys_unlink` have panics, and `NoPanic` says none is reached.

### Pipe

All files are pipe ends. `kexit()` closes its descriptors one after the other, and `fileclose()` gives
the file back before `pipeclose()` takes the pipe's lock, each a step. The loop of `pipewrite()` looks at `killed` before each byte, so a turn of it
is a step, with the pipe's lock held between turns. `nread` and `nwrite` are counted
modulo WORD. `kfree()` fills the page with JUNK, so a pipe used after it was freed
would deliver it. `last` is the delivery of the current step, which the abstract
specification compares; `torn` marks pipes whose writer was killed between two bytes.
The refinement mapping reads the ring buffer from `nread` to `nwrite`.

### Vm

Frames are counted, a page table is the set of its table pages and of the pages it
maps. Sizes are in half pages (PGSIZE = 2) and modulo WORD, so that sizes that are not a multiple of
a page and `sbrk()` arguments that wrap around are in the model. Each page mapped
is a step; between steps the rest of the kernel takes frames and gives them back, so
every allocation may be the one that fails. Inside one operation at a time the steps are
those of the code; what other processes do meanwhile is seen only in the frames they take
(`Take`, `Give`), since page tables are private. Programs are sequences of segments.

### JobControl

The kernel's side (states of children, one unreported change per child, one pending
bit for SIGCHLD, process groups) is modelled from how the shell uses it and marked
external. Code that runs with SIGCHLD blocked and without waiting is one step. The
handler takes one step per `waitpid()`. SIGCHLD may arrive inside the structure copy of
`drain_background_notifications()`, which is therefore made in two parts. A fork may fail for any subset of the stages.

Not in the model: the helper processes that copy redirected data (they are in
`Plumbing`; the handler reaps them and finds no job), the prompt's own SIGINT and
SIGTSTP, and the texts. `ping` is the nondeterminism of the children. Two
observations that need no model: `init_job_control()` installs its handlers with
`signal()`, whose one-shot or interrupting behaviour depends on the C library's
feature macros; an empty line skips the drain (`main.c` 61).

### Plumbing

A command line is the number of input and output files of each stage and whether it runs in the
background. `held` is the set of pipe ends and files each process has open, `filled` the
units of data in each pipe. The shell goes through `run_pipeline()`,
`run_pipeline_background()` or `run_background()`, which are three versions of the same
steps: set-up of the inputs (with the writer process), outputs, pipes, copiers,
stages, closing, waiting. Every fork copies `held`. The bytes play no part.
Programs may stop reading and exit at any time (`GiveUp`).

### Lexer and CommandLine

Both are pure: the state is the line typed so far, and the invariants quantify over
every line up to the bound. A token has a type and a value, as in the code, and a
quoted operator is a word with an operator's value. `CommandLine` extends `Lexer` and
looks at the tokens of the same line, so its properties are about what was typed. `Execute`
is `main()` on a line that passed the syntax check: the text of the first token may hand all of the
tokens to a built-in (`RunBuiltin`), else `sequence_command()` launches the pieces of the line one
after the other and returns at the first foreground command that is not found (`NotFound`). Which names are
built-ins and which lead to no executable file are the constants `Builtins` and `Missing`.

## 3. Runs

Eleven runs pass. The twelfth, `job_ghost`, finds what a document says of the program
violated; it and five configurations of the same kind are at the end of this section.

| Run | Instance | States | What holds |
|---|---|---|---|
| `mlfq_smp` | 2 CPUs, 2 processes, 2 levels, boost every 2 ticks, both kinds of channel | 576,510 | `NoneLost`, `PlacedOnce`, `SliceBound`, `SleeperWakable` |
| `mlfq_live` | 1 CPU, 3 processes, 3 levels of one tick, boost every 2 ticks | 187,278 | `StarvationFree` |
| `proc_life` | 4 slots, 2 more processes than init and shell; kill(0), kill of each but init, faults | 93,334 | `ParentAlive`, `NoZombieOverlooked`, `KilledByPid`, `OrphansReaped`, `KilledDies` |
| `log` | 2 processes, 3 blocks, log of 4, 3 calls, 2 crashes | 1,636,491 | `SleeperHasWaker`, `SyncDurable`, `SpaceReserved`, the refinement `Atomic` |
| `bcache` | 2 processes, 4 blocks, 3 buffers, 5 descriptors, 2 pins | 1,959,003 | `HolderSeesLatest`, `RefsExact`, `DescsExact`, `NoLostWakeup` |
| `file_system` | 2 processes, 5 inodes, 5 blocks, 3 entries a block, 2 calls after one of two set-ups | 477,931 | `NoPanic`, `CacheCoherent`, `LinkCounts`, `BlocksAccounted`, `RefsExact` |
| `pipe` | 2 processes, 2 files, 2 descriptors each, 1 page, 2 bytes, counters modulo 4 | 1,127,573 | `RefsExact`, `NoLostWakeup`, the refinement `IsStream` |
| `vm` | 2 slots, 20 frames, 3 levels of 2 entries, 4 programs | 648,523 | `Conserved`, `NoPanic`, `MappedBelowSize` |
| `job_table` | 3 processes, 2 slots, 2 stages, the drain's copy in two parts | 822,781 | `NoLostStatus`, `FinishReported`, `NeverForgotten`, `ForegroundReturns` |
| `plumbing` | every line of 1 or 2 stages with 0 or 1 input and 0, 1 or 2 output files, foreground and background, 1 failing call | 350,444 | `NoLeak`, `Terminates` |
| `line_plain` | lines of up to 6 of 10 characters; one name is a built-in, one leads to no file | 1,111,111 | `RoundTrip`, `SyntaxCheck`, `FaithfulPlain` |

**Bounds.** Two CPUs are enough for a race between any two parties. With two levels
every queue is either the one boosted to or one boosted from; `mlfq_live` has a third,
which a process reaches between two boosts because the slices are one tick long, and
three processes on one CPU, so that two are waiting. What `mlfq_smp` checks for two
processes the proofs show for any number. In `ProcLife`, four slots hold init, a
parent, its child and a grandchild, so that orphans are adopted while their new parent
scans, and a slot is used again after its first process is gone; each pid is given out once, as
in the code for its first 2^31 forks. In `Log`, a log of 4 with reservations of 2
lets two calls share a transaction and a third one wait; two crashes let the second
fall into the recovery from the first. Three blocks do not fill that log; with four
blocks and one crash (5.6 million states) the properties hold too. In `Bcache`, four
blocks compete for three buffers, two of which may be pinned, so that the buffers also run out, and
five descriptors serve one request and not two, so that the second waits. In `FileSystem`, the set-ups prepare the situations that
need several calls (a directory inside another and a process in it, a file in
it, or the inner one removed under its process); from there two concurrent
calls cover every pair. A block of three entries and five blocks make directories grow and the
disk fill up. In `Pipe`, counters modulo 4 over a buffer of 2 wrap around; one page
and two files make `pipe()` fail at each of its points. In `Vm`, 20 frames suffice for one process and
nearly two. In `JobControl`, a table of two slots can be full, and moves
its last entry. In `Plumbing` a pipe holds one unit and a source has two, so writers
block. Six characters reach two stages with a redirection, a sequence with a
background job, and every nesting of two kinds of quotation.

**Deadlock** is checked except where the system may stop: the shell exits (`job_*`),
`Log` stops at its bound on calls, the processes of `Pipe` may all exit or wait for one another (a process
that reads a pipe only it could write), a command line of `Plumbing` ends, and the lines end
at their maximum length. There, that nobody waits for good is stated as
`SleeperHasWaker`, `NoLostWakeup`, `Terminates` and `ForegroundReturns` instead.

**Fairness.** `MLFQ`: the CPUs and the timer run, the clock handler finishes; the timer
interrupts CPU 0's code again and again, so strong fairness says that a tick leaves
time for other steps. Nothing is assumed of the programs. With two CPUs starvation
freedom would also need the assumption that one CPU is not passed over by the other
for ever between `deque` and `acquire`; this was not checked. `ProcLife`: a process inside the
kernel goes on (which is what `MLFQ` shows), a killed one reaches its next trap, the
clock ticks, and init loops in `wait()` as `init.c` does; no process has to exit
or to wait. `JobControl`: signals are delivered and the shell is scheduled; nothing is
assumed of the children or of the user. `Plumbing`: the shell and each child that
can run do run; a program reads its input to the end or gives up.

**Exceptions stated in properties.** Some properties name a case the code does not
handle. Each was seen to be reachable, and is excluded as narrowly as possible:

- `KilledByPid`, of the slots in `tainted`: kill(0) finds a free slot, whose pid is 0, and `allocproc()` does not
  clear the mark, so the next process born there is killed (`proc.c` 809).
- `KilledDies`: kill() between `kwait()`'s test of `killed` and its sleep leaves the
  victim waiting for its children (`proc.c` 451).
- `NoLostWakeup` of `Pipe`: a writer killed between two bytes returns without waking the
  readers of what it has written (`pipe.c` 84).
- `Terminates`: in the background, the copier of a stage that reads a pipe inherits that pipe's
  write end (`command.c` 1064), so `a | b > x > y &` never ends. In the
  foreground, when `pipe()` fails after two stages with input files were set up, the
  clean-up waits for the first writer while the second holds the other end of its
  pipe (`command.c` 501).
- `NoLeak`: the output files of a stage whose set-up failed stay open in the shell
  (`command.c` 698), as does everything a background pipeline opened before
  `pipe()` failed (`command.c` 1027).

### Where code and documents disagree

These statements of the documents do not hold of the model. Six have a configuration that TLC
ends with a counterexample, found in a second or two (`job_ghost` is `Job_ghost.cfg` of `MCJobControl`; the
others are run in the same way and are not listed in `PROJECT.json`):

| Configuration | Property | Statement | What happens |
|---|---|---|---|
| `MLFQ_demote.cfg` | `DemotedByOne` | `report.md` 93: "A process that consumes its complete time slice is demoted by one queue." | The tick path read the level before a boost on the other CPU and writes it back, plus one, after it. |
| `Job_ghost.cfg` | `NoGhost` | `README` 238: "Exited processes are removed from `activities`." | One stage of a pipeline exits and is collected by the foreground wait; then the other stops. `register_stopped_job()` counts both, so `remaining` never reaches 0 and the job stays listed. (An exit recorded in a slot that the drain is about to drop is lost in the same way.) |
| `Job_eof.cfg` | `StoppedIsStopped` | `README` 213, on Ctrl-D: "With no stopped jobs, tracked jobs receive `SIGHUP` and the shell exits." | One stage of a pipeline stops, so the whole job is marked stopped; the stage is killed, the other runs, and no status ever corrects the table: `handle_eof()` still sees stopped jobs. |
| `Job_timeout.cfg` | `TimeoutHonoured` | `README` 149: "If the timeout expires, `SIGTERM` is sent to the process group" | SIGALRM comes before `waitpid()`; the flag it sets is looked at only after a wait that was interrupted. Under the fairness of `job_table`: the shell runs, nothing is assumed of the job. |
| `Line_quoted.cfg` | `Faithful` | `README` 64: the lexer "supports spaces, tabs, single quotes, double quotes, and backslash escaping." | The redirection passes go by the text of a token; a quoted operator is an operator to them. |
| `Line_sequence.cfg` | `SequenceRuns` | `README` 198-201: "Commands separated by `;` run sequentially", with a line of three built-ins | `main()` gives the whole line to the first built-in; a later one is looked for as a file. |

Two more have no configuration:

1. `report.md` 109: after a boost no runnable process is left in a lower queue. With two
   CPUs, a process that yields on the other CPU behind the drain is left there. Its
   `priority` has been reset, so its next enqueue is right again. (`report.md` 78, "always
   selects from the highest non-empty queue", likewise holds only of the moment at
   which each queue is looked at: the queues are locked one at a time.)
2. `param.h` 9: a call that really writes all of its MAXOPBLOCKS blocks can reach the
   panic "too big a transaction" on a block it has already logged, because the test
   for a full log precedes the search for the block (`~panicked` fails with OpBlocks = 2
   and four blocks). `SpaceReserved` says that a block not yet logged never meets it.
   The file system's calls stay below the limit.

Noticed while modelling, with no document to hold against it: the inode table (NINODE =
50) is smaller than the file table (NFILE = 100), so enough open files reach the panic
"iget: no inodes", which `FileSystem` leaves out by having a table entry for every inode; `mkfs`
pads the root directory's size to a whole block, so its free entries are found by
`dirlink()` before the directory grows; `sbrk()` with a very negative argument wraps
around and returns success with the size unchanged; exec of a program whose first
segment is empty fails, because `uvmalloc()` returning 0 is taken for an error.

## 4. Proofs

| Theorem | Says, for all constants |
|---|---|
| `MLFQProofs!TypeCorrect`, `ConservationCorrect`, `QueueCorrect`, `OwnerCorrect` | `TypeOK`, `NoneLost`, `NoneTwice`, `OneCpu` are invariants |
| `MLFQProofs!PlacementCorrect` | `PlacedOnce`, the last two together, is an invariant |
| `MLFQProofs!SliceCorrect`, `WakableCorrect` | `SliceBound`, `SleeperWakable` are invariants |
| `ProcLifeProofs!ParentAliveCorrect`, `NoZombieOverlookedCorrect`, `KilledByPidCorrect` | `ParentAlive`, `NoZombieOverlooked`, `KilledByPid` are invariants |
| `LogProofs!LogTypeCorrect`, `LogImplementsDisk` | `TypeOK` is an invariant; `Log` implements `AtomicDisk` |
| `LogProofs!SleeperCorrect`, `SyncCorrect`, `SpaceCorrect` | `SleeperHasWaker`, `SyncDurable`, `SpaceReserved` are invariants |
| `BcacheProofs!HolderSeesLatestCorrect`, `RefsExactCorrect`, `DescsExactCorrect`, `NoLostWakeupCorrect` | the four invariants of `Bcache` |
| `PipeProofs!RefsExactCorrect`, `NoLostWakeupCorrect` | `RefsExact`, `NoLostWakeup` are invariants |
| `PipeProofs!IsStreamCorrect` | `Pipe` implements `ByteStream` |
| `VmProofs!ConservedCorrect`, `NoPanicCorrect`, `MappedBelowSizeCorrect` | the three invariants of `Vm` |
| `FileSystemProofs!FsInvariant` | `FsInv`, below, is an invariant |
| `FileSystemProofs!NoPanicCorrect`, `CacheCoherentCorrect`, `LinkCountsCorrect`, `BlocksAccountedCorrect`, `RefsExactCorrect` | the five invariants of `FileSystem` |
| `ShellProofs!StatusCorrect`, `FinishReportedCorrect` | `NoLostStatus`, `FinishReported` are invariants of `JobControl` |
| `ShellProofs!NeverForgottenCorrect` | every step of `JobControl` satisfies `NeverForgotten` |
| `ShellProofs!NoLeakCorrect` | `NoLeak` is an invariant of `Plumbing` |

None of the properties is inductive by itself. Each proof module states the
inductive invariant in named parts and proves that `Init` establishes and each action
preserves it.

**MLFQ.** `NoneLost`, `NoneTwice` and `OneCpu` are inductive only together, and with the
shape of the control state: a dispatch keeps `OneCpu` because a dequeued process is
RUNNABLE (`NoneLost`) and so on no CPU, and a yield keeps `NoneTwice` because a RUNNING
process is in no queue. `IInv` adds `Shape` (who holds a process at which point),
`ForkPrivate` (a slot that is being filled has one parent) and `SwitchState`. Two lemmas,
`EnqueueLinks` and `DequeUnlinks`, say what the queue operations do to "is queued" and
"is queued once"; then there is one step per action. `SliceBound` needs in addition that
the copies in flight (`rt`) are below the longest slice. Assumptions: the numbers are
positive, there are at least two levels, and the slices do not shrink with the level.

**ProcLife.** `LifeInv` joins the two invariants to `ForkOwned` (a slot being filled by
`kfork()` belongs to one forking process, which is alive), `SleepsOn` (who sleeps, sleeps where its
call says), `InitLives`, and `MarkedByPid`. `ParentAlive` needs `ForkOwned` because a
half-made child has no parent yet, and `InitLives` because `reparent()` hands children to
init. `NoZombieOverlooked` is preserved by an exit because the exit's wakeup and
its change of state are inside the same `wait_lock` section. Assumption: two slots at least.

**Log.** `LogInv` is the invariant: a block is logged once; `outstanding` counts the calls,
one process commits and then no call runs; and in each phase of the commit, of a
crash and of the recovery it is known which of cache, log and home blocks agree. With
it every step maps to a step of `AtomicDisk` or to a stutter: `write_head` to `Commit`,
installation and erasure to stutters, since `Recovered` does not change. `SyncInv` adds
who waits for which commit and what is pending. `SpaceReserved` bounds what is logged by a
sum over the calls in progress; the sum is written as the cardinality of a set, and
`OpsLogged` says that what a call has written is in the log, so writing it again uses no space. Assumption: a
reservation fits in the log, and the set of processes is finite.

**Bcache.** `CacheInv` has five parts besides the types. `RefsInv`: counts are exact, and no
block has two buffers. `LockInv`: a sleep lock has one holder, whose control point says so.
`DiskInv`: a descriptor belongs to one request, a request to one buffer in flight, and
the used ring holds each finished request once. `DataInv`: a valid buffer has the
last change of its block, a pinned block's buffer is valid, and the last change of a block that is
not pinned is on the disk, so that evicting its buffer loses nothing. `WaitInv`:
whoever sleeps has its counterpart. Nothing is assumed of the number of buffers: with too few a
`bget()` panics, and the invariants hold before and after. Assumption: three descriptors exist, as one request needs.

**Pipe.** `PipeInv` says that counts are exact and each call uses a file it holds (`RefsInv`), that an end
is open exactly while a file refers to it or a close is on its way to it (`EndsOpen`), and what each
sleeper waits for (`WaitInv`); `RingInv` says that `nwrite - nread` modulo WORD is at most PIPESIZE. For the
refinement, `PipeProofs` proves what reading the ring modulo PIPESIZE at counters modulo WORD
yields when a byte is appended or taken, which needs that PIPESIZE divides WORD; each step
then is a `ByteStream` step or a stutter. Assumptions: those two on WORD, which 512
and 2^32 satisfy.

**Vm.** `VmInv` says for the one process inside an operation at which stage of it it is and which
pages its table has there (`Stage`: below the loop's place mapped, above it not), that any other
table is `Owned` up to its size, and that a free slot owns nothing. `NoPanic` and `MappedBelowSize`
follow. `Conserved` is proved by what each step moves: `TrapFlow`, `TableFlow` and
`ArgFlow` give the change of the three counts, `Balance` adds them up, and lemmas
about sets of pairs (`Pairs`) take a cardinality apart by table. Assumptions: four
frames at least, or `userinit()` could not make the first process; the word is more than
twice the address space; no single `sbrk()` argument exceeds half the word, as an `int`
does not; programs leave room for their stack below the trapframe. The last is stronger than what the code
checks: an ELF file that does not fit is not in the model.

**FileSystem.** The properties speak of moments when no call is in progress, or of one inode that
is not locked; in between a call has half done what it will finish. So the invariant has
to say, for every point at which a call can stand between two locks, what it still owes. `FsInv` has four
parts.

- `TypeOK`.
- `TableInv`: the reference count of an inode is the number of tokens on it, a token being a
  working directory, an open file, a place in a call or an `iput()` that is still to come, each counted
  by the cardinality of a set; a lock is held by exactly the call whose control point says
  so; the inode a call stands on is still what the call found it to be (`ProcOK`); an inode
  without links is used by somebody or waits for `ireclaim()`; `BootOK` says how far that has come.
- `LinkInv`: the link count of an inode is the number of entries of live directories that
  name it, plus the links that a `link()` in progress has counted and not yet entered or an
  `unlink()` has taken out and not yet discounted; a live directory has `.` and `..` first, and
  one entry, in the directory its `..` names, which is why removing an empty one loses
  nothing.
- `BlockInv`: the bitmap is the union of the blocks of the inodes, no two of which share one.

`NoPanic` is then read off `ProcOK`: a call resolves a path without holding locks, but holds a
reference, and an inode with a reference keeps its type. Most actions change one inode or two and one
call; frame lemmas (`WriteTwo`, `WriteCall`, `QuietCall`) say what such a step leaves alone, and each
action has a lemma `...Keeps` that supplies the rest. `bmap()`, `itrunc()` and `dirlink()` have
lemmas of their own about the blocks they take. Assumptions: the set of processes is
finite, a directory block holds two entries at least, so that `mkdir` needs one block, and
the names include `.` and `..`.

**JobControl.** The status invariant with the type of the statuses is inductive: the kernel
raises the bit with each change, and the handler returns only when nothing is left.
`FinishReported` needs `JobInv`: processes belong to one job, but for the two slots the drain
is copying between (`TableOK`, `CopyOK`); a process marked as exited has been collected
(`MarkedOK`); `remaining` is never smaller than the number of processes left, but for a slot
half overwritten (`CountOK`); what is in the notification pipe is there once and is
over (`PipeOK`); and a pipeline in the foreground is not in the table (`LaunchedOK`). It holds for any size of the table and of pipelines.

`NeverForgotten` needs a second invariant on top of it, `KnownInv`. `SlotsOK` describes the table
slot by slot: `proc_count` is the number of processes, but for a slot half overwritten; a job's
processes are in its group; a job number is given out once. `CmdOK` relates what a resume or a launch took down when it began
to the table as it is now: who is waited for is in the group waited for and is not more than is counted,
so that the count is reached only when nothing is left (`WaitsOK`); a resume waits for exactly the processes of its job
that are left, and they are still listed (`ResumeOK`); what a launched pipeline waits for is what a stop will
register (`LaunchOK`); and the alarm is armed only for a resume in the foreground (`AlarmOK`). Each action then has one
lemma for both `KnownInv` and the step property (`Remembers`). While the drain copies, the job that moves is always whole
in one of the two slots, which is all `NeverForgotten` asks for.

**Plumbing.** `OpenAt` says, for each point of the three set-up procedures, which ends and files
the shell has open; `NoLeak` is its instance at the end. It holds for pipelines of
any length and any number of failing calls.

Checked by TLC only:

- liveness (`StarvationFree`, `ForegroundReturns`, `OrphansReaped`, `KilledDies`, `Terminates`),
  which is out of the prover's reach, as is ENABLED;
- `RoundTrip`, `SyntaxCheck` and `FaithfulPlain`, which would need induction over the line.

## 5. Not modelled

- Spin locks: taken as mutual exclusion; the other modules' steps are their critical
  sections. Console, serial port, boot and trap entry: hardware.
- Dispatch of system calls, argument fetching, string and print functions: sequential
  code without shared state. The user programs are tests and utilities (init's loop is in
  `ProcLife`, the root directory `mkfs` makes in `FileSystem`).
- The RR and FIFO builds of the scheduler, which scan the table under `p->lock` and have
  neither the queues nor the boost, and the counters for metrics.
- The kernel's own page table and the permission bits of pages; the ELF format.
- The bytes of files, and files that are devices.
- `hop` and frecency: scores are floating-point numbers over wall-clock time.
- `snoop`: one ptrace loop, whose hazard (the SIGCHLD handler collecting the traced process's
  stop) depends on ptrace semantics outside the repository.
- `spy`, `reveal`, `peek` and `locate` read and print.
- `run_command_with_output()` in `command.c` is never called.
- What built-ins do with their arguments, and the `%` that is taken off a command's name.
- Smaller simplifications of modelled operations: `sys_exec()` takes and frees its argument pages in
  one step (`Vm`, where a program has one argument page); a `copyin()` that fails in the middle of `writei()`, and open with O_CREATE and O_TRUNC
  at once (`FileSystem`); the failures of open, pipe and fork inside `setup_input()` are one outcome,
  after its own clean-up, and a descriptor closed twice (`command.c` 1051 and 1235) is closed
  once, since the ends are sets (`Plumbing`).

## 6. Plan

Done: all modules of section 2 and the theorems of section 4. What is left:

1. Shorter proofs: the lemmas on minima and on sets of pairs occur in several proof modules.
