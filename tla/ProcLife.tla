------------------------------- MODULE ProcLife -------------------------------
(***************************************************************************)
(* The life of xv6 processes: fork, exit, wait, kill and pause of          *)
(* kernel/proc.c and kernel/sysproc.c, with the tests of killed() and the  *)
(* faults of usertrap(). Scheduling is the business of MLFQ: RUNNABLE and RUNNING    *)
(* are both "running" here. A step is a section of code under wait_lock,   *)
(* tickslock or one p->lock, or the sleep() after it.                      *)
(***************************************************************************)
EXTENDS Integers, FiniteSets, FiniteSetsExt

CONSTANTS NPROC,      \* slots of the process table; slot 1 is init's
          MaxPid,     \* bound: the last pid that is given out
          KillPids    \* arguments of kill()

ASSUME ProcAssumption ==
  NPROC \in Nat /\ NPROC >= 2 /\ MaxPid \in Nat /\ MaxPid >= 2 /\ KillPids \subseteq Nat

VARIABLES state,      \* p->state
          pid,        \* p->pid
          parent,     \* p->parent, 0 for none
          killed,     \* p->killed
          chan,       \* p->chan
          call,       \* the system call p is in, and the child it is making
          nextpid,    \* nextpid
          doomed,     \* history: the pids that kill() found or that faulted
          tainted     \* history: the slots kill(0) marked and freeproc() has not cleared since

vars == <<state, pid, parent, killed, chan, call, nextpid, doomed, tainted>>

Slots == 1..NPROC
Live == {"running", "sleeping"}
Kids(p) == {c \in Slots : parent[c] = p}
User == [pc |-> "user", np |-> 0]
In(pc) == [pc |-> pc, np |-> 0]
NoChan == <<"none", 0>>
ProcChan(p) == <<"proc", p>>
Ticks == <<"ticks", 0>>

At(p, pc) == state[p] = "running" /\ call[p].pc = pc

\* A process in user space makes a system call; usertrap() sends a killed one to kexit().
Starts(p) == At(p, "user") /\ ~killed[p]

\* wakeup() of the channels C.
wakeup(C) ==
  /\ chan' = [q \in Slots |-> IF chan[q] \in C THEN NoChan ELSE chan[q]]
  /\ state' = [q \in Slots |-> IF chan[q] \in C /\ state[q] = "sleeping" THEN "running" ELSE state[q]]

\* sleep(), after sleep_prepare() and the release of the lock.
sleep(p) ==
  /\ At(p, "wait-zz") \/ At(p, "pause-zz")
  /\ call' = [call EXCEPT ![p] = In(IF @.pc = "wait-zz" THEN "wait" ELSE "pause")]
  /\ state' = [state EXCEPT ![p] = IF chan[p] = NoChan THEN @ ELSE "sleeping"]
  /\ UNCHANGED <<pid, parent, killed, chan, nextpid, doomed, tainted>>

-----------------------------------------------------------------------------
(* fork                                                                     *)

\* kfork() up to the release of np->lock: the child is complete but for its parent.
Fork(p) ==
  /\ Starts(p) /\ p # 1 /\ nextpid <= MaxPid
  /\ \E q \in Slots : state[q] = "unused"
  /\ LET np == Min({q \in Slots : state[q] = "unused"}) IN
       /\ state' = [state EXCEPT ![np] = "used"]
       /\ pid' = [pid EXCEPT ![np] = nextpid]
       /\ call' = [call EXCEPT ![p] = [pc |-> "fork-parent", np |-> np]]
  /\ nextpid' = nextpid + 1
  /\ UNCHANGED <<parent, killed, chan, doomed, tainted>>

\* Under wait_lock the child gets its parent ...
ForkParent(p) ==
  /\ At(p, "fork-parent")
  /\ parent' = [parent EXCEPT ![call[p].np] = p]
  /\ call' = [call EXCEPT ![p].pc = "fork-run"]
  /\ UNCHANGED <<state, pid, killed, chan, nextpid, doomed, tainted>>

\* ... and then it is RUNNABLE.
ForkRun(p) ==
  /\ At(p, "fork-run")
  /\ state' = [state EXCEPT ![call[p].np] = "running"]
  /\ call' = [call EXCEPT ![p] = User]
  /\ UNCHANGED <<pid, parent, killed, chan, nextpid, doomed, tainted>>

-----------------------------------------------------------------------------
(* exit and wait                                                            *)

\* Mutant: only children that still run are given to init.
AbandonedMutant(p) == {c \in Kids(p) : state[c] # "zombie"}

\* The children reparent() gives to init.
Abandoned(p) == Kids(p)

\* Mutant: init is not told about the zombies it is given.
ExitChansMutant(p) == {ProcChan(parent[p])}

\* The channels kexit() wakes: the parent's, and init's if init is given a child.
ExitChans(p) == {ProcChan(parent[p])} \union (IF Abandoned(p) = {} THEN {} ELSE {ProcChan(1)})

\* kexit() from wait_lock on; init does not exit.
kexit(p) ==
  LET C == ExitChans(p) IN
  /\ At(p, "user") /\ p # 1
  /\ parent' = [c \in Slots |-> IF c \in Abandoned(p) THEN 1 ELSE parent[c]]
  /\ chan' = [q \in Slots |-> IF chan[q] \in C THEN NoChan ELSE chan[q]]
  /\ state' = [q \in Slots |-> IF q = p THEN "zombie"
                               ELSE IF chan[q] \in C /\ state[q] = "sleeping" THEN "running" ELSE state[q]]
  /\ UNCHANGED <<pid, killed, call, nextpid, doomed, tainted>>

Zombies(p) == {c \in Kids(p) : state[c] = "zombie"}

\* kwait() holds wait_lock: at the start of the call, or after sleep(). init waits for ever.
Waiting(p) == Starts(p) \/ At(p, "wait")

\* Mutant: the freed slot keeps p->killed.
KilledFreedMutant(c) == killed[c]

\* p->killed in a slot that freeproc() has freed.
KilledFreed(c) == FALSE

\* kwait() finds a zombie: freeproc().
Reap(p) ==
  /\ Waiting(p) /\ Zombies(p) # {}
  /\ LET c == Min(Zombies(p)) IN
       /\ parent' = [parent EXCEPT ![c] = 0] /\ pid' = [pid EXCEPT ![c] = 0]
       /\ state' = [state EXCEPT ![c] = "unused"] /\ chan' = [chan EXCEPT ![c] = NoChan]
       /\ killed' = [killed EXCEPT ![c] = KilledFreed(c)]
       /\ call' = [call EXCEPT ![p] = User, ![c] = User]
       /\ tainted' = tainted \ {c}
  /\ UNCHANGED <<nextpid, doomed>>

\* kwait() gives up: no children, killed, or copyout() of a zombie's status failed
\* (init passes no address).
WaitFails(p) ==
  /\ At(p, "wait")
  /\ IF Zombies(p) # {} THEN p # 1 ELSE Kids(p) = {} \/ killed[p]
  /\ call' = [call EXCEPT ![p] = User]
  /\ UNCHANGED <<state, pid, parent, killed, chan, nextpid, doomed, tainted>>

\* kwait() goes to sleep on its own process.
WaitSleeps(p) ==
  /\ Waiting(p) /\ Zombies(p) = {} /\ Kids(p) # {} /\ ~killed[p]
  /\ chan' = [chan EXCEPT ![p] = ProcChan(p)]
  /\ call' = [call EXCEPT ![p] = In("wait-zz")]
  /\ UNCHANGED <<state, pid, parent, killed, nextpid, doomed, tainted>>

-----------------------------------------------------------------------------
(* kill and pause                                                           *)

\* kkill(n) by some process: the first slot with that pid is marked, and ends its sleep.
kkill(n) ==
  /\ \E p \in Slots : pid[p] = n
  /\ LET v == Min({p \in Slots : pid[p] = n}) IN
       /\ killed' = [killed EXCEPT ![v] = TRUE]
       /\ state' = [state EXCEPT ![v] = IF @ = "sleeping" THEN "running" ELSE @]
       /\ IF n = 0 THEN tainted' = tainted \union {v} /\ UNCHANGED doomed
                   ELSE doomed' = doomed \union {n} /\ UNCHANGED tainted
  /\ UNCHANGED <<pid, parent, chan, call, nextpid>>

\* usertrap(): the program faults, and setkilled() marks it; init's does not. kexit()
\* follows, and what others do in between.
Fault(p) ==
  /\ At(p, "user") /\ p # 1
  /\ killed' = [killed EXCEPT ![p] = TRUE]
  /\ doomed' = doomed \union {pid[p]}
  /\ UNCHANGED <<state, pid, parent, chan, call, nextpid, tainted>>

\* sys_pause() up to tickslock.
Pause(p) ==
  /\ Starts(p) /\ p # 1
  /\ call' = [call EXCEPT ![p] = In("pause")]
  /\ UNCHANGED <<state, pid, parent, killed, chan, nextpid, doomed, tainted>>

\* Mutant: sys_pause() sleeps its time although it is killed.
PauseGivesUpMutant(p) == FALSE

\* The test of killed() in sys_pause().
PauseGivesUp(p) == killed[p]

\* sys_pause() returns: killed, or the time has passed.
PauseEnds(p) ==
  /\ At(p, "pause")
  /\ call' = [call EXCEPT ![p] = User]
  /\ UNCHANGED <<state, pid, parent, killed, chan, nextpid, doomed, tainted>>

PauseSleeps(p) ==
  /\ At(p, "pause") /\ ~PauseGivesUp(p)
  /\ chan' = [chan EXCEPT ![p] = Ticks]
  /\ call' = [call EXCEPT ![p] = In("pause-zz")]
  /\ UNCHANGED <<state, pid, parent, killed, nextpid, doomed, tainted>>

\* clockintr() wakes those who pause.
clockintr ==
  /\ wakeup({Ticks})
  /\ UNCHANGED <<pid, parent, killed, call, nextpid, doomed, tainted>>

\* init has started the shell.
Init ==
  /\ state = [p \in Slots |-> IF p <= 2 THEN "running" ELSE "unused"]
  /\ pid = [p \in Slots |-> IF p <= 2 THEN p ELSE 0]
  /\ parent = [p \in Slots |-> IF p = 2 THEN 1 ELSE 0]
  /\ killed = [p \in Slots |-> FALSE] /\ chan = [p \in Slots |-> NoChan]
  /\ call = [p \in Slots |-> User]
  /\ nextpid = 3 /\ doomed = {} /\ tainted = {}

\* What process p does inside the kernel once it is there.
Step(p) ==
  \/ sleep(p) \/ ForkParent(p) \/ ForkRun(p)
  \/ (call[p].pc = "wait" /\ (Reap(p) \/ WaitFails(p) \/ WaitSleeps(p)))
  \/ PauseSleeps(p) \/ PauseEnds(p)

\* System calls, faults, and kexit() of a process that exits or is killed.
Begin(p) == Fork(p) \/ Pause(p) \/ Fault(p) \/ kexit(p) \/ (call[p].pc = "user" /\ (Reap(p) \/ WaitSleeps(p)))

Next ==
  \/ \E p \in Slots : Step(p) \/ Begin(p)
  \/ \E n \in KillPids : kkill(n)
  \/ clockintr

Spec == Init /\ [][Next]_vars

\* The scheduler runs every process that is in the kernel, and a killed one as far as
\* its next trap (the clock interrupt at the latest); init waits again and again;
\* the clock ticks.
Fairness ==
  /\ \A p \in Slots : WF_vars(Step(p)) /\ WF_vars(killed[p] /\ kexit(p))
  /\ WF_vars(Begin(1)) /\ WF_vars(clockintr)

FairSpec == Spec /\ Fairness

-----------------------------------------------------------------------------
(* Properties.                                                              *)

\* Every process but init, running or zombie, has a parent that can still wait for
\* it, through every order of forks and exits: reparent() leaves no orphan behind.
ParentAlive ==
  \A c \in Slots \ {1} : state[c] \in Live \union {"zombie"} =>
    parent[c] # 0 /\ state[parent[c]] \in Live

\* p sleeps in kwait(), or will unless it is woken first.
AsleepInWait(p) ==
  (call[p].pc = "wait-zz" /\ chan[p] = ProcChan(p)) \/ (call[p].pc = "wait" /\ state[p] = "sleeping")

\* A process waits only while none of its children is a zombie: no exit and no
\* reparent() slips in between the scan of kwait() and its sleep().
NoZombieOverlooked == \A p \in Slots : state[p] \in Live /\ AsleepInWait(p) => Zombies(p) = {}

\* A slot that is marked holds a process that was itself the victim: a kill() found its
\* pid, or it faulted. The mark does not outlive the process in its slot. The exception
\* is the code's, and lasts for one process: kill(0) finds a free slot, whose pid is 0,
\* and allocproc() does not clear the mark for the process born there.
KilledByPid ==
  \A p \in Slots : killed[p] => p \in tainted \/ (state[p] # "unused" /\ pid[p] \in doomed)

\* Zombies that have come to init, as its children or as orphans, are freed.
OrphansReaped == \A c \in Slots : (state[c] = "zombie" /\ parent[c] = 1) ~> state[c] = "unused"

\* A killed process dies, unless it is in kwait() with a child to wait for: kill()
\* between kwait()'s test of killed() and its sleep() does not end the wait.
KilledDies ==
  \A p \in Slots \ {1} :
    (killed[p] /\ state[p] \in Live) ~> (state[p] \in {"zombie", "unused"} \/ (AsleepInWait(p) /\ Kids(p) # {}))
===============================================================================
