-------------------------------- MODULE MLFQ --------------------------------
(***************************************************************************)
(* The multi-level feedback queue scheduler of the xv6 kernel: the MLFQ    *)
(* build of kernel/proc.c and kernel/trap.c.                               *)
(*                                                                         *)
(* Grain of atomicity: one step is one spinlock critical section (p->lock  *)
(* or queues[q].lock), or one unlocked access to p->ticks_used or          *)
(* p->priority, the two fields the timer path touches without p->lock.     *)
(* A CPU's program counter pc[c] tells where it is between two such steps: *)
(*   "scan"    scheduler(), about to try deque(scan[c])                    *)
(*   "got"     scheduler(), holding a dequeued process in hand[c]          *)
(*   "run"     executing proc[c], in user mode or interruptible in a       *)
(*             system call                                                 *)
(*   "tick"    mlfq_tick, p->ticks_used already loaded                     *)
(*   "expire"  mlfq_timeslice_expired                                      *)
(*   "ready"   mlfq_highest_priority_ready, about to look at scan[c]       *)
(*   "yield"   about to call yield() from the trap handler                 *)
(*   "swtch"   between sched() and the scheduler's release(&p->lock)       *)
(* CPU 0 also runs clockintr(); intr says how far that handler is, and the *)
(* code it interrupted does not move until it returns.                     *)
(***************************************************************************)
EXTENDS Integers, Sequences

CONSTANTS NPROC,       \* slots of the process table
          NCPU,        \* harts
          NQUEUE,      \* levels of the feedback queue (4 in the code)
          time_slice,  \* ticks a process may use at each level
          BOOST,       \* ticks between two priority boosts (48 in the code)
          Chans        \* the kinds of channel processes sleep on: "ticks"
                       \* for sys_pause(), "event" for everything else

ASSUME NPROCAssumption == NPROC \in Nat \ {0}
ASSUME NCPUAssumption == NCPU \in Nat \ {0}
ASSUME NQUEUEAssumption == NQUEUE \in Nat \ {0, 1}
ASSUME SliceAssumption ==
  /\ time_slice \in [0..(NQUEUE - 1) -> Nat \ {0}]
  /\ \A q, r \in 0..(NQUEUE - 1) : q <= r => time_slice[q] <= time_slice[r]
ASSUME BoostAssumption == BOOST \in Nat \ {0}
ASSUME ChansAssumption == Chans \subseteq {"ticks", "event"}

Procs  == 1..NPROC
CPUs   == 0..(NCPU - 1)
Queues == 0..(NQUEUE - 1)
None   == 0              \* the null struct proc *
initproc == 1            \* userinit() takes the first slot of the table

VARIABLES
  state,       \* p->state
  priority,    \* p->priority
  ticks_used,  \* p->ticks_used
  chan,        \* p->chan, or "none"
  kctx,        \* where p is in the kernel: "none", "prepared" (between
               \* sleep_prepare and sleep) or "fork" (inside kfork)
  child,       \* the slot kfork() is filling for p
  queues,      \* queues[q], head first
  pc,          \* program counter of each CPU
  proc,        \* c->proc
  hand,        \* the process scheduler() dequeued and has not yet locked
  scan,        \* loop variable of the two loops over the queues
  rt,          \* mlfq_tick's register copy of p->ticks_used
  rq,          \* the register copy of p->priority of the tick path
  phase,       \* ticks % BOOST
  intr,        \* how far CPU 0's clockintr() is, "none" when not in it
  idx,         \* loop variable of the handler's loops over the table
  bq,          \* loop variable q of mlfq_boost()
  bhand        \* the process mlfq_boost() dequeued

procVars == <<state, priority, ticks_used, chan, kctx, child>>
cpuVars  == <<pc, proc, hand, scan, rt, rq>>
intrVars == <<phase, intr, idx, bq, bhand>>
vars     == <<procVars, queues, cpuVars, intrVars>>

States == {"UNUSED", "USED", "SLEEPING", "RUNNABLE", "RUNNING", "ZOMBIE"}
PCs    == {"scan", "got", "run", "tick", "expire", "ready", "yield", "swtch"}
Intrs  == {"none", "wakeup", "boost", "breset", "benq", "sweep", "ret"}

(***************************************************************************)
(* userinit() has run: the first process waits in queue 0 and every CPU    *)
(* enters scheduler().                                                     *)
(***************************************************************************)
Init ==
  /\ state      = [p \in Procs |-> IF p = initproc THEN "RUNNABLE" ELSE "UNUSED"]
  /\ priority   = [p \in Procs |-> 0]
  /\ ticks_used = [p \in Procs |-> 0]
  /\ chan       = [p \in Procs |-> "none"]
  /\ kctx       = [p \in Procs |-> "none"]
  /\ child      = [p \in Procs |-> None]
  /\ queues     = [q \in Queues |-> IF q = 0 THEN <<initproc>> ELSE <<>>]
  /\ pc         = [c \in CPUs |-> "scan"]
  /\ proc       = [c \in CPUs |-> None]
  /\ hand       = [c \in CPUs |-> None]
  /\ scan       = [c \in CPUs |-> 0]
  /\ rt         = [c \in CPUs |-> 0]
  /\ rq         = [c \in CPUs |-> 0]
  /\ phase = 0 /\ intr = "none" /\ idx = 1 /\ bq = 0 /\ bhand = None

-----------------------------------------------------------------------------
(***************************************************************************)
(* Helpers.                                                                *)
(***************************************************************************)

\* Mutant: sched() lets go of p->lock before it has switched stacks.
LockedMutant(p) == FALSE

\* p->lock is held across steps only from sched() to the scheduler's release.
Locked(p) == \E c \in CPUs : pc[c] = "swtch" /\ proc[c] = p

\* CPU c executes its own code: clockintr() is not on top of it.
Active(c) == c # 0 \/ intr = "none"

\* Process p executes on CPU c and its kernel path is at kctx k.
Runs(c, p, k) == Active(c) /\ pc[c] = "run" /\ proc[c] = p /\ kctx[p] = k

enqueue(q, p) == queues' = [queues EXCEPT ![q] = Append(@, p)]

\* Mutant: the head is returned but not unlinked.
dequeMutant(q) == UNCHANGED queues

\* deque(q) of a non-empty queue, whose head becomes the caller's.
deque(q) == queues' = [queues EXCEPT ![q] = Tail(@)]

-----------------------------------------------------------------------------
(***************************************************************************)
(* scheduler(): deque_highest_priority_p locks one queue after another.    *)
(***************************************************************************)
Deque(c) ==
  /\ Active(c) /\ pc[c] = "scan"
  /\ IF queues[scan[c]] = <<>>
     THEN /\ scan' = [scan EXCEPT ![c] = (@ + 1) % NQUEUE]
          /\ UNCHANGED <<queues, hand, pc>>
     ELSE /\ hand' = [hand EXCEPT ![c] = Head(queues[scan[c]])]
          /\ deque(scan[c])
          /\ scan' = [scan EXCEPT ![c] = 0]
          /\ pc' = [pc EXCEPT ![c] = "got"]
  /\ UNCHANGED <<procVars, proc, rt, rq, intrVars>>

\* acquire(&p->lock), the state test, and the switch to p, which releases
\* the lock. A process that is not RUNNABLE is dropped from the queues.
Dispatch(c) ==
  LET p == hand[c] IN
  /\ Active(c) /\ pc[c] = "got" /\ ~Locked(p)
  /\ IF state[p] = "RUNNABLE"
     THEN /\ state' = [state EXCEPT ![p] = "RUNNING"]
          /\ proc' = [proc EXCEPT ![c] = p]
          /\ pc' = [pc EXCEPT ![c] = "run"]
     ELSE /\ pc' = [pc EXCEPT ![c] = "scan"]
          /\ UNCHANGED <<state, proc>>
  /\ hand' = [hand EXCEPT ![c] = None]
  /\ UNCHANGED <<priority, ticks_used, chan, kctx, child, queues, scan, rt, rq,
                 intrVars>>

\* Back in scheduler() from swtch: c->proc = 0, release(&p->lock), intr_on.
SwitchBack(c) ==
  /\ Active(c) /\ pc[c] = "swtch"
  /\ proc' = [proc EXCEPT ![c] = None]
  /\ pc' = [pc EXCEPT ![c] = "scan"]
  /\ scan' = [scan EXCEPT ![c] = 0]
  /\ UNCHANGED <<procVars, queues, hand, rt, rq, intrVars>>

\* yield(): the process queues itself at its own level under p->lock, which
\* it keeps until the scheduler has switched away from it.
YieldFrom(c) ==
  LET p == proc[c] IN
  /\ state' = [state EXCEPT ![p] = "RUNNABLE"]
  /\ enqueue(priority[p], p)
  /\ pc' = [pc EXCEPT ![c] = "swtch"]
  /\ UNCHANGED <<priority, ticks_used, chan, kctx, child, proc, hand, scan,
                 rt, rq, intrVars>>

\* sys_yield(): a process gives up the CPU before its slice is used up.
SysYield(c) == \E p \in Procs : Runs(c, p, "none") /\ YieldFrom(c)

\* The trap handler decided to preempt.
Preempt(c) == Active(c) /\ pc[c] = "yield" /\ YieldFrom(c)

-----------------------------------------------------------------------------
(***************************************************************************)
(* What the running process does to itself and to others.                  *)
(***************************************************************************)
SleepPrepare(c) ==
  \E p \in Procs, ch \in Chans :
    /\ Runs(c, p, "none")
    /\ chan' = [chan EXCEPT ![p] = ch]
    /\ kctx' = [kctx EXCEPT ![p] = "prepared"]
    /\ UNCHANGED <<state, priority, ticks_used, child, queues, cpuVars, intrVars>>

\* Mutant: sleep() does not look at p->chan first.
SleepMutant(c) ==
  \E p \in Procs :
    /\ Runs(c, p, "prepared")
    /\ state' = [state EXCEPT ![p] = "SLEEPING"]
    /\ pc' = [pc EXCEPT ![c] = "swtch"]
    /\ kctx' = [kctx EXCEPT ![p] = "none"]
    /\ UNCHANGED <<priority, ticks_used, chan, child, queues, proc, hand, scan,
                   rt, rq, intrVars>>

\* sleep() returns at once when the channel was woken in the meantime.
Sleep(c) ==
  \E p \in Procs :
    /\ Runs(c, p, "prepared")
    /\ IF chan[p] # "none"
       THEN /\ state' = [state EXCEPT ![p] = "SLEEPING"]
            /\ pc' = [pc EXCEPT ![c] = "swtch"]
       ELSE UNCHANGED <<state, pc>>
    /\ kctx' = [kctx EXCEPT ![p] = "none"]
    /\ UNCHANGED <<priority, ticks_used, chan, child, queues, proc, hand, scan,
                   rt, rq, intrVars>>

\* kfork() up to its release(&np->lock): allocproc() takes a free slot.
ForkAlloc(c) ==
  \E p, np \in Procs :
    /\ Runs(c, p, "none")
    /\ state[np] = "UNUSED"
    /\ state' = [state EXCEPT ![np] = "USED"]
    /\ priority' = [priority EXCEPT ![np] = 0]
    /\ ticks_used' = [ticks_used EXCEPT ![np] = 0]
    /\ kctx' = [kctx EXCEPT ![p] = "fork"]
    /\ child' = [child EXCEPT ![p] = np]
    /\ UNCHANGED <<chan, queues, cpuVars, intrVars>>

\* Mutant: the child is made RUNNABLE but not queued.
ForkReadyMutant(c) ==
  \E p \in Procs :
    /\ Runs(c, p, "fork")
    /\ state' = [state EXCEPT ![child[p]] = "RUNNABLE"]
    /\ kctx' = [kctx EXCEPT ![p] = "none"]
    /\ child' = [child EXCEPT ![p] = None]
    /\ UNCHANGED <<priority, ticks_used, chan, queues, cpuVars, intrVars>>

\* kfork()'s last critical section: the child becomes RUNNABLE in queue 0.
ForkReady(c) ==
  \E p \in Procs :
    /\ Runs(c, p, "fork")
    /\ state' = [state EXCEPT ![child[p]] = "RUNNABLE"]
    /\ enqueue(0, child[p])
    /\ kctx' = [kctx EXCEPT ![p] = "none"]
    /\ child' = [child EXCEPT ![p] = None]
    /\ UNCHANGED <<priority, ticks_used, chan, cpuVars, intrVars>>

\* kexit(); its wakeups are EventWakeup steps.
Exit(c) ==
  \E p \in Procs \ {initproc} :
    /\ Runs(c, p, "none")
    /\ state' = [state EXCEPT ![p] = "ZOMBIE"]
    /\ pc' = [pc EXCEPT ![c] = "swtch"]
    /\ UNCHANGED <<priority, ticks_used, chan, kctx, child, queues, proc, hand,
                   scan, rt, rq, intrVars>>

\* kwait() finds a zombie and calls freeproc() on it.
Reap(c) ==
  \E p, pp \in Procs :
    /\ Runs(c, p, "none")
    /\ state[pp] = "ZOMBIE" /\ ~Locked(pp)
    /\ state' = [state EXCEPT ![pp] = "UNUSED"]
    /\ chan' = [chan EXCEPT ![pp] = "none"]
    /\ priority' = [priority EXCEPT ![pp] = 0]
    /\ ticks_used' = [ticks_used EXCEPT ![pp] = 0]
    /\ UNCHANGED <<kctx, child, queues, cpuVars, intrVars>>

\* One iteration of the loop of wakeup(ch), the one that looks at p.
WakeupOne(p, ch) ==
  /\ ~Locked(p)
  /\ IF chan[p] = ch
     THEN /\ chan' = [chan EXCEPT ![p] = "none"]
          /\ IF state[p] = "SLEEPING"
             THEN /\ state' = [state EXCEPT ![p] = "RUNNABLE"]
                  /\ enqueue(priority[p], p)
             ELSE UNCHANGED <<state, queues>>
     ELSE UNCHANGED <<chan, state, queues>>

\* A system call or a device interrupt calls wakeup() on p's channel, on a CPU
\* that runs a process or has its interrupts on.
EventWakeup ==
  \E c \in CPUs, p \in Procs :
    /\ Active(c) /\ pc[c] \in {"scan", "got", "run"}
    /\ chan[p] = "event"
    /\ WakeupOne(p, "event")
    /\ UNCHANGED <<priority, ticks_used, kctx, child, cpuVars, intrVars>>

\* kkill() on a sleeper: RUNNABLE again, with p->chan left as it was.
Kill(c) ==
  \E p, v \in Procs :
    /\ Runs(c, p, "none")
    /\ state[v] = "SLEEPING" /\ ~Locked(v)
    /\ state' = [state EXCEPT ![v] = "RUNNABLE"]
    /\ enqueue(priority[v], v)
    /\ UNCHANGED <<priority, ticks_used, chan, kctx, child, cpuVars, intrVars>>

-----------------------------------------------------------------------------
(***************************************************************************)
(* The tick path of usertrap() and kerneltrap(): no lock protects          *)
(* p->ticks_used and p->priority here, so each load may return what was    *)
(* there before or after a concurrent mlfq_boost().                        *)
(***************************************************************************)

\* The load half of p->ticks_used++ .
LoadTick(c) ==
  /\ pc' = [pc EXCEPT ![c] = "tick"]
  /\ rt' = [rt EXCEPT ![c] = ticks_used[proc[c]]]
  /\ rq' = [rq EXCEPT ![c] = priority[proc[c]]]

\* A timer interrupt on a CPU other than 0, whose clockintr() does nothing.
Timer(c) ==
  /\ c # 0 /\ pc[c] = "run"
  /\ LoadTick(c)
  /\ UNCHANGED <<procVars, queues, proc, hand, scan, intrVars>>

\* The store half, and the comparison with the slice of the level read.
TickStore(c) ==
  LET p == proc[c]
      t == rt[c] + 1
  IN
  /\ Active(c) /\ pc[c] = "tick"
  /\ ticks_used' = [ticks_used EXCEPT ![p] = t]
  /\ \E q \in {rq[c], priority[p]} :
       pc' = [pc EXCEPT ![c] = IF t >= time_slice[q] THEN "expire" ELSE "ready"]
  /\ rq' = [rq EXCEPT ![c] = priority[p]]
  /\ rt' = [rt EXCEPT ![c] = 0]
  /\ UNCHANGED <<state, priority, chan, kctx, child, queues, proc, hand, scan,
                 intrVars>>

\* The level that mlfq_timeslice_expired writes back when it read level q.
Demote(q) == IF q < NQUEUE - 1 THEN q + 1 ELSE q

\* Mutant: the used ticks are not reset.
ExpireMutant(c) ==
  LET p == proc[c] IN
  /\ Active(c) /\ pc[c] = "expire"
  /\ \E q \in {rq[c], priority[p]} :
       priority' = [priority EXCEPT ![p] = IF Demote(q) = q THEN @ ELSE Demote(q)]
  /\ pc' = [pc EXCEPT ![c] = "yield"]
  /\ rq' = [rq EXCEPT ![c] = 0]
  /\ UNCHANGED <<state, ticks_used, chan, kctx, child, queues, proc, hand, scan,
                 rt, intrVars>>

\* mlfq_timeslice_expired: the level read is written back one lower, and not
\* written at all when it is the lowest.
Expire(c) ==
  LET p == proc[c] IN
  /\ Active(c) /\ pc[c] = "expire"
  /\ \E q \in {rq[c], priority[p]} :
       priority' = [priority EXCEPT ![p] = IF Demote(q) = q THEN @ ELSE Demote(q)]
  /\ ticks_used' = [ticks_used EXCEPT ![p] = 0]
  /\ pc' = [pc EXCEPT ![c] = "yield"]
  /\ rq' = [rq EXCEPT ![c] = 0]
  /\ UNCHANGED <<state, chan, kctx, child, queues, proc, hand, scan, rt, intrVars>>

\* mlfq_highest_priority_ready: one queue per step.
Ready(c) ==
  LET p == proc[c] IN
  /\ Active(c) /\ pc[c] = "ready"
  /\ IF scan[c] < priority[p] /\ queues[scan[c]] = <<>>
     THEN /\ scan' = [scan EXCEPT ![c] = @ + 1]
          /\ UNCHANGED pc
     ELSE /\ scan' = [scan EXCEPT ![c] = 0]
          /\ pc' = [pc EXCEPT ![c] =
                      IF scan[c] < priority[p] THEN "yield" ELSE "run"]
  /\ rq' = [rq EXCEPT ![c] = 0]
  /\ UNCHANGED <<procVars, queues, proc, hand, rt, intrVars>>

-----------------------------------------------------------------------------
(***************************************************************************)
(* clockintr() on CPU 0, taken wherever CPU 0 has interrupts enabled.      *)
(***************************************************************************)
ClockIntr ==
  /\ intr = "none" /\ pc[0] \in {"scan", "got", "run"}
  /\ phase' = (phase + 1) % BOOST
  /\ intr' = "wakeup" /\ idx' = 1
  /\ UNCHANGED <<procVars, queues, cpuVars, bq, bhand>>

\* Mutant: the boost is never due.
do_boostMutant == FALSE

\* ticks % 48 == 0
do_boost == phase = 0

\* wakeup(&ticks), one table slot per step, then the decision to boost.
IntrWakeup ==
  /\ intr = "wakeup"
  /\ WakeupOne(idx, "ticks")
  /\ IF idx < NPROC
     THEN idx' = idx + 1 /\ UNCHANGED <<intr, bq>>
     ELSE /\ idx' = 1
          /\ intr' = IF do_boost THEN "boost" ELSE "ret"
          /\ bq' = IF do_boost THEN 1 ELSE bq
  /\ UNCHANGED <<priority, ticks_used, kctx, child, cpuVars, phase, bhand>>

\* The last level mlfq_boost() drains.
LastBoosted == NQUEUE - 1

\* mlfq_boost's while ((p = deque(q)) != 0), for q = 1 .. NQUEUE - 1.
BoostDeque ==
  /\ intr = "boost"
  /\ IF queues[bq] # <<>>
     THEN /\ bhand' = Head(queues[bq])
          /\ deque(bq)
          /\ intr' = "breset" /\ UNCHANGED bq
     ELSE /\ IF bq < LastBoosted
             THEN bq' = bq + 1 /\ UNCHANGED intr
             ELSE bq' = 0 /\ intr' = "sweep"
          /\ UNCHANGED <<queues, bhand>>
  /\ UNCHANGED <<procVars, cpuVars, phase, idx>>

BoostReset ==
  /\ intr = "breset" /\ ~Locked(bhand)
  /\ IF state[bhand] = "RUNNABLE"
     THEN /\ priority' = [priority EXCEPT ![bhand] = 0]
          /\ ticks_used' = [ticks_used EXCEPT ![bhand] = 0]
          /\ intr' = "benq" /\ UNCHANGED bhand
     ELSE /\ intr' = "boost" /\ bhand' = None
          /\ UNCHANGED <<priority, ticks_used>>
  /\ UNCHANGED <<state, chan, kctx, child, queues, cpuVars, phase, idx, bq>>

BoostEnqueue ==
  /\ intr = "benq"
  /\ enqueue(0, bhand)
  /\ bhand' = None /\ intr' = "boost"
  /\ UNCHANGED <<procVars, cpuVars, phase, idx, bq>>

\* mlfq_boost's second loop resets every slot, whatever its state and
\* wherever it is queued.
BoostSweep ==
  /\ intr = "sweep" /\ ~Locked(idx)
  /\ priority' = [priority EXCEPT ![idx] = 0]
  /\ ticks_used' = [ticks_used EXCEPT ![idx] = 0]
  /\ IF idx < NPROC
     THEN idx' = idx + 1 /\ UNCHANGED intr
     ELSE idx' = 1 /\ intr' = "ret"
  /\ UNCHANGED <<state, chan, kctx, child, queues, cpuVars, phase, bq, bhand>>

\* clockintr() returns; usertrap() or kerneltrap() goes on to the tick path
\* when a process was interrupted, and to the scheduler otherwise.
IntrReturn ==
  /\ intr = "ret"
  /\ intr' = "none"
  /\ IF pc[0] = "run" THEN LoadTick(0) ELSE UNCHANGED <<pc, rt, rq>>
  /\ UNCHANGED <<procVars, queues, proc, hand, scan, phase, idx, bq, bhand>>

-----------------------------------------------------------------------------
\* The steps a CPU takes by itself, without the running program's help.
CpuStep(c) ==
  \/ Deque(c) \/ Dispatch(c) \/ SwitchBack(c) \/ Preempt(c)
  \/ TickStore(c) \/ Expire(c) \/ Ready(c)

\* The system calls of the running program.
ProgramStep(c) ==
  \/ SysYield(c) \/ SleepPrepare(c) \/ Sleep(c) \/ ForkAlloc(c) \/ ForkReady(c)
  \/ Exit(c) \/ Reap(c) \/ Kill(c)

\* The rest of the clock handler once it has begun.
IntrStep ==
  \/ IntrWakeup \/ BoostDeque \/ BoostReset \/ BoostEnqueue \/ BoostSweep
  \/ IntrReturn

Next ==
  \/ \E c \in CPUs : CpuStep(c) \/ ProgramStep(c) \/ Timer(c)
  \/ EventWakeup
  \/ ClockIntr
  \/ IntrStep

Spec == Init /\ [][Next]_vars

(***************************************************************************)
(* Fairness. CPUs run and the clock handler advances. Interrupts preempt   *)
(* CPU 0's code again and again but leave it time to move (a tick lasts a  *)
(* tenth of a second), hence strong fairness of CpuStep. A pending timer   *)
(* interrupt stays pending until it is taken, hence strong fairness of the *)
(* two interrupt actions. Programs need not do anything.                   *)
(***************************************************************************)
Fairness ==
  /\ \A c \in CPUs : SF_vars(CpuStep(c))
  /\ \A c \in CPUs : SF_vars(Timer(c))
  /\ SF_vars(ClockIntr)
  /\ WF_vars(IntrStep)

FairSpec == Spec /\ Fairness

-----------------------------------------------------------------------------
(***************************************************************************)
(* Properties.                                                             *)
(***************************************************************************)

\* Every variable keeps its type.
TypeProcs ==
  /\ state \in [Procs -> States]
  /\ priority \in [Procs -> Queues]
  /\ ticks_used \in [Procs -> Nat]
  /\ chan \in [Procs -> {"none", "ticks", "event"}]
  /\ kctx \in [Procs -> {"none", "prepared", "fork"}]
  /\ child \in [Procs -> Procs \cup {None}]

TypeQueues == queues \in [Queues -> Seq(Procs)]

TypeCpus ==
  /\ pc \in [CPUs -> PCs]
  /\ proc \in [CPUs -> Procs \cup {None}]
  /\ hand \in [CPUs -> Procs \cup {None}]
  /\ scan \in [CPUs -> Queues]
  /\ rt \in [CPUs -> Nat]
  /\ rq \in [CPUs -> Queues]

TypeIntr ==
  /\ phase \in 0..(BOOST - 1)
  /\ intr \in Intrs
  /\ idx \in Procs
  /\ bq \in Queues
  /\ bhand \in Procs \cup {None}

TypeOK == TypeProcs /\ TypeQueues /\ TypeCpus /\ TypeIntr

\* p is linked into some queue; p is in the hands of a CPU or of the boost.
Queued(p) == \E q \in Queues : \E i \in DOMAIN queues[q] : queues[q][i] = p
InHand(p) == bhand = p \/ \E c \in CPUs : hand[c] = p

\* No process is lost and no process is queued that cannot run: exactly the
\* RUNNABLE processes are in a queue or on the way out of one, in the hands
\* of scheduler() or of mlfq_boost().
NoneLost == \A p \in Procs : state[p] = "RUNNABLE" <=> Queued(p) \/ InHand(p)

\* No process is linked twice: the queues are intrusive lists over p->next,
\* which a second enqueue() of a queued process would corrupt.
LinkedOnce ==
  \A q, r \in Queues : \A i \in DOMAIN queues[q], j \in DOMAIN queues[r] :
    queues[q][i] = queues[r][j] => q = r /\ i = j

\* A process taken out of a queue is in one hand only: no two CPUs dequeue
\* the same process, and none dequeues the one mlfq_boost() is moving.
HeldOnce ==
  /\ \A p \in Procs : InHand(p) => ~Queued(p)
  /\ \A c, d \in CPUs : hand[c] # None /\ hand[c] = hand[d] => c = d
  /\ \A c \in CPUs : hand[c] # None => hand[c] # bhand

NoneTwice == LinkedOnce /\ HeldOnce

\* A process runs on one CPU at a time, and from the dispatch to sched() it is
\* that CPU's process: no CPU picks a process up from the queues before the
\* CPU that queued it in yield() has left its kernel stack.
OneCpu ==
  /\ \A c, d \in CPUs : proc[c] # None /\ proc[c] = proc[d] => c = d
  /\ \A p \in Procs : state[p] = "RUNNING" <=>
       \E c \in CPUs : proc[c] = p /\ pc[c] # "swtch"

\* A process is in one place: linked once, in one hand, on one CPU, through
\* every race of scheduler(), yield(), wakeup() and the boost.
PlacedOnce == NoneTwice /\ OneCpu

\* Between two ticks nobody has used up the longest slice: an expired counter
\* is reset before the process can be queued, whatever level a concurrent
\* boost makes mlfq_tick() read.
SliceBound ==
  \A p \in Procs :
    \/ ticks_used[p] < time_slice[NQUEUE - 1]
    \/ \E c \in CPUs : proc[c] = p /\ pc[c] = "expire"

\* Where a CPU is tells what it holds: a dequeued process in scheduler(), the
\* current process from the dispatch to the switch back, and nothing else.
ShapeCpus ==
  /\ \A c \in CPUs : hand[c] # None <=> pc[c] = "got"
  /\ \A c \in CPUs : proc[c] # None <=> pc[c] \notin {"scan", "got"}

\* The same for clockintr() and the process mlfq_boost() is moving, and for
\* a parent in kfork() and its child's slot.
ShapeIntr == bhand # None <=> intr \in {"breset", "benq"}
ShapeFork == \A p \in Procs : child[p] # None <=> kctx[p] = "fork"

Shape == ShapeCpus /\ ShapeIntr /\ ShapeFork

\* A slot between allocproc() and the end of kfork() belongs to one parent.
ForkPrivate ==
  /\ \A p \in Procs : child[p] # None => state[child[p]] = "USED"
  /\ \A p, r \in Procs : child[p] # None /\ child[p] = child[r] => p = r

\* A process that is switching away has already left the RUNNING state.
SwitchState ==
  \A c \in CPUs : pc[c] = "swtch" =>
    state[proc[c]] \in {"RUNNABLE", "SLEEPING", "ZOMBIE"}

\* The inductive strengthening of the safety invariants.
IInv ==
  /\ TypeOK /\ Shape /\ ForkPrivate
  /\ NoneLost /\ NoneTwice
  /\ OneCpu /\ SwitchState

\* A process that sleeps is registered on a channel, so a wakeup() can find
\* it: the wakeup between sleep_prepare() and sleep() is not lost.
SleeperWakable == \A p \in Procs : state[p] = "SLEEPING" => chan[p] # "none"

\* report.md: "A process that consumes its complete time slice is demoted by
\* one queue." False with two CPUs: mlfq_timeslice_expired() may write back a
\* level it read before a boost.
DemotedByOne ==
  [][\A c \in CPUs : Expire(c) =>
       priority'[proc[c]] <= priority[proc[c]] + 1]_vars

\* Every RUNNABLE process runs again, whatever the others do: the boost
\* brings it to queue 0, which is first come, first served.
StarvationFree ==
  \A p \in Procs : state[p] = "RUNNABLE" ~> state[p] = "RUNNING"
=============================================================================
