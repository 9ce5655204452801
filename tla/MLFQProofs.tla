----------------------------- MODULE MLFQProofs -----------------------------
(***************************************************************************)
(* Safety of the MLFQ scheduler for any number of CPUs, processes, queues  *)
(* and any slices.                                                         *)
(***************************************************************************)
EXTENDS MLFQ, TLAPS

\* Appending a process to a queue keeps the queues well typed and links
\* exactly that process.
LEMMA EnqueueLinks ==
  ASSUME queues \in [Queues -> Seq(Procs)],
         NEW q \in Queues, NEW p \in Procs, enqueue(q, p)
  PROVE  /\ queues' \in [Queues -> Seq(Procs)]
         /\ \A r \in Procs : Queued(r)' <=> Queued(r) \/ r = p
         /\ LinkedOnce /\ ~Queued(p) => LinkedOnce'
<1>1. queues' \in [Queues -> Seq(Procs)]
  BY DEF enqueue
<1>2. /\ queues'[q] = Append(queues[q], p)
      /\ \A r \in Queues : r # q => queues'[r] = queues[r]
      /\ DOMAIN queues'[q] = 1..(Len(queues[q]) + 1)
      /\ DOMAIN queues[q] = 1..Len(queues[q])
      /\ Len(queues[q]) \in Nat
      /\ queues'[q][Len(queues[q]) + 1] = p
      /\ \A i \in 1..Len(queues[q]) : queues'[q][i] = queues[q][i]
  BY DEF enqueue
<1>3. \A r \in Procs : Queued(r)' <=> Queued(r) \/ r = p
  <2> SUFFICES ASSUME NEW r \in Procs
               PROVE  Queued(r)' <=> Queued(r) \/ r = p
    OBVIOUS
  <2>1. ASSUME Queued(r) PROVE Queued(r)'
    <3>1. PICK s \in Queues : \E i \in DOMAIN queues[s] : queues[s][i] = r
      BY <2>1 DEF Queued
    <3>2. PICK i \in DOMAIN queues[s] : queues[s][i] = r
      BY <3>1
    <3>3. i \in DOMAIN queues'[s] /\ queues'[s][i] = r
      BY <3>2, <1>2
    <3> QED BY <3>3 DEF Queued
  <2>2. ASSUME r = p PROVE Queued(r)'
    <3>1. Len(queues[q]) + 1 \in DOMAIN queues'[q]
      BY <1>2
    <3> QED BY <3>1, <1>2, <2>2 DEF Queued
  <2>3. ASSUME Queued(r)', r # p PROVE Queued(r)
    <3>1. PICK s \in Queues : \E i \in DOMAIN queues'[s] : queues'[s][i] = r
      BY <2>3 DEF Queued
    <3>2. PICK i \in DOMAIN queues'[s] : queues'[s][i] = r
      BY <3>1
    <3>3. i \in DOMAIN queues[s] /\ queues[s][i] = r
      BY <3>2, <1>2, <2>3, SMTT(30)
    <3> QED BY <3>3 DEF Queued
  <2> QED BY <2>1, <2>2, <2>3
<1>4. ASSUME LinkedOnce, ~Queued(p) PROVE LinkedOnce'
  <2> SUFFICES ASSUME NEW r \in Queues, NEW s \in Queues,
                      NEW i \in DOMAIN queues'[r], NEW j \in DOMAIN queues'[s],
                      queues'[r][i] = queues'[s][j]
               PROVE  r = s /\ i = j
    BY DEF LinkedOnce
  <2>1. \A t \in Queues : \A k \in DOMAIN queues'[t] :
           \/ k \in DOMAIN queues[t] /\ queues'[t][k] = queues[t][k]
           \/ t = q /\ k = Len(queues[q]) + 1 /\ queues'[t][k] = p
    <3> SUFFICES ASSUME NEW t \in Queues, NEW k \in DOMAIN queues'[t]
                 PROVE  \/ k \in DOMAIN queues[t] /\ queues'[t][k] = queues[t][k]
                        \/ t = q /\ k = Len(queues[q]) + 1 /\ queues'[t][k] = p
      OBVIOUS
    <3>1. CASE t # q
      BY <3>1, <1>2
    <3>2. CASE t = q
      BY <3>2, <1>2
    <3> QED BY <3>1, <3>2
  <2>2. \A t \in Queues : \A k \in DOMAIN queues[t] : queues[t][k] # p
    BY <1>4 DEF Queued
  <2>3. CASE i \in DOMAIN queues[r] /\ queues'[r][i] = queues[r][i]
    <3>1. j \in DOMAIN queues[s] /\ queues'[s][j] = queues[s][j]
      BY <2>1, <2>2, <2>3
    <3> QED BY <3>1, <2>3, <1>4 DEF LinkedOnce
  <2>4. CASE r = q /\ i = Len(queues[q]) + 1 /\ queues'[r][i] = p
    BY <2>1, <2>2, <2>4
  <2> QED BY <2>1, <2>3, <2>4
<1> QED BY <1>1, <1>3, <1>4

\* Taking the head out of a queue unlinks exactly that process.
LEMMA DequeUnlinks ==
  ASSUME queues \in [Queues -> Seq(Procs)], LinkedOnce,
         NEW q \in Queues, queues[q] # <<>>, deque(q)
  PROVE  /\ queues' \in [Queues -> Seq(Procs)]
         /\ Head(queues[q]) \in Procs /\ Queued(Head(queues[q]))
         /\ \A r \in Procs : Queued(r)' <=> Queued(r) /\ r # Head(queues[q])
         /\ LinkedOnce'
<1>1. queues' \in [Queues -> Seq(Procs)]
  BY DEF deque
<1>2. /\ Len(queues[q]) \in Nat \ {0}
      /\ \A r \in Queues : r # q => queues'[r] = queues[r]
      /\ DOMAIN queues'[q] = 1..(Len(queues[q]) - 1)
      /\ DOMAIN queues[q] = 1..Len(queues[q])
      /\ \A i \in 1..(Len(queues[q]) - 1) : queues'[q][i] = queues[q][i + 1]
      /\ Head(queues[q]) = queues[q][1]
      /\ Head(queues[q]) \in Procs
  BY DEF deque
<1>3. Queued(Head(queues[q]))
  BY <1>2 DEF Queued
<1>4. \A t \in Queues : \A k \in DOMAIN queues'[t] :
        LET m == IF t = q THEN k + 1 ELSE k
        IN  m \in DOMAIN queues[t] /\ queues'[t][k] = queues[t][m]
  <2> SUFFICES ASSUME NEW t \in Queues, NEW k \in DOMAIN queues'[t]
               PROVE  LET m == IF t = q THEN k + 1 ELSE k
                      IN  m \in DOMAIN queues[t] /\ queues'[t][k] = queues[t][m]
    OBVIOUS
  <2>1. CASE t = q
    BY <2>1, <1>2
  <2>2. CASE t # q
    BY <2>2, <1>2
  <2> QED BY <2>1, <2>2
<1>5. LinkedOnce'
  <2> SUFFICES ASSUME NEW r \in Queues, NEW s \in Queues,
                      NEW i \in DOMAIN queues'[r], NEW j \in DOMAIN queues'[s],
                      queues'[r][i] = queues'[s][j]
               PROVE  r = s /\ i = j
    BY DEF LinkedOnce
  <2>1. i \in Nat /\ j \in Nat
    BY <1>1
  <2> DEFINE m == IF r = q THEN i + 1 ELSE i
             n == IF s = q THEN j + 1 ELSE j
  <2>2. /\ m \in DOMAIN queues[r] /\ queues'[r][i] = queues[r][m]
        /\ n \in DOMAIN queues[s] /\ queues'[s][j] = queues[s][n]
    BY <1>4
  <2>3. r = s /\ m = n
    <3> HIDE DEF m, n
    <3>1. queues[r][m] = queues[s][n]
      BY <2>2
    <3> QED BY <3>1, <2>2 DEF LinkedOnce
  <2> QED BY <2>1, <2>3
<1>6. ASSUME NEW r \in Procs
      PROVE  Queued(r)' <=> Queued(r) /\ r # Head(queues[q])
  <2>1. ASSUME Queued(r)' PROVE Queued(r) /\ r # Head(queues[q])
    <3>1. PICK t \in Queues : \E k \in DOMAIN queues'[t] : queues'[t][k] = r
      BY <2>1 DEF Queued
    <3>2. PICK k \in DOMAIN queues'[t] : queues'[t][k] = r
      BY <3>1
    <3>3. k \in Nat \ {0}
      BY <1>1
    <3> DEFINE m == IF t = q THEN k + 1 ELSE k
    <3>4. m \in DOMAIN queues[t] /\ queues[t][m] = r /\ (t = q => m # 1)
      BY <3>2, <3>3, <1>4
    <3>5. 1 \in DOMAIN queues[q]
      BY <1>2
    <3>6. r # queues[q][1]
      BY <3>4, <3>5 DEF LinkedOnce
    <3> QED BY <3>4, <3>6, <1>2 DEF Queued
  <2>2. ASSUME Queued(r), r # Head(queues[q]) PROVE Queued(r)'
    <3>0. Queued(r)
      BY <2>2
    <3>1. PICK t \in Queues : \E k \in DOMAIN queues[t] : queues[t][k] = r
      BY <3>0 DEF Queued
    <3>2. PICK k \in DOMAIN queues[t] : queues[t][k] = r
      BY <3>1
    <3>3. CASE t # q
      BY <3>2, <3>3, <1>2 DEF Queued
    <3>4. CASE t = q
      <4>1. k \in 2..Len(queues[q])
        BY <3>2, <3>4, <1>2, <2>2
      <4>2. k - 1 \in DOMAIN queues'[q] /\ queues'[q][k - 1] = r
        BY <4>1, <3>2, <3>4, <1>2
      <4> QED BY <4>2 DEF Queued
    <3> QED BY <3>3, <3>4
  <2> QED BY <2>1, <2>2
<1> QED BY <1>1, <1>2, <1>3, <1>5, <1>6

-----------------------------------------------------------------------------
(***************************************************************************)
(* Types and the shape of the control state.                               *)
(***************************************************************************)
\* What the typing argument carries along: types, and what each CPU, the clock
\* handler and kfork() hold at each point of their code.
Control == TypeOK /\ Shape

\* What the assumptions on the constants say of the index sets.
LEMMA Consts ==
  /\ None \notin Procs /\ initproc \in Procs
  /\ 0 \in CPUs
  /\ 0 \in Queues /\ 1 \in Queues
  /\ \A q \in Queues : q \in Nat /\ (q < NQUEUE - 1 => q + 1 \in Queues)
  /\ \A q, r \in Queues : q < r => q + 1 \in Queues
  /\ \A p \in Procs : p \in Nat /\ (p < NPROC => p + 1 \in Procs)
  /\ 1 \in Procs
  BY NPROCAssumption, NCPUAssumption, NQUEUEAssumption
  DEF None, initproc, Procs, CPUs, Queues

\* The loop over the queues wraps around, the tick counter too.
LEMMA Wrap ==
  /\ \A q \in Queues : (q + 1) % NQUEUE \in Queues
  /\ \A t \in 0..(BOOST - 1) : (t + 1) % BOOST \in 0..(BOOST - 1)
  BY NQUEUEAssumption, BoostAssumption DEF Queues

\* After userinit() everything is well typed and nobody holds a process.
LEMMA InitControl == Init => Control
<1> SUFFICES ASSUME Init PROVE TypeOK /\ Shape
  BY DEF Control
<1> USE Consts DEF Init
<1>1. TypeQueues
  <2>1. <<initproc>> \in Seq(Procs) /\ <<>> \in Seq(Procs)
    OBVIOUS
  <2> QED BY <2>1 DEF TypeQueues
<1>2. TypeIntr
  BY BoostAssumption DEF TypeIntr, Intrs
<1>3. TypeProcs /\ TypeCpus
  BY DEF TypeProcs, TypeCpus, States, PCs
<1>4. Shape
  BY DEF Shape, ShapeCpus, ShapeIntr, ShapeFork
<1> QED BY <1>1, <1>2, <1>3, <1>4 DEF TypeOK

\* Only clockintr() touches its own variables.
LEMMA IntrFrame ==
  ASSUME NEW c \in CPUs,
         CpuStep(c) \/ ProgramStep(c) \/ Timer(c) \/ EventWakeup
  PROVE  UNCHANGED intrVars
BY DEF CpuStep, ProgramStep, Deque, Dispatch, SwitchBack, Preempt, YieldFrom,
       TickStore, Expire, Ready, SysYield, SleepPrepare, Sleep, ForkAlloc,
       ForkReady, Exit, Reap, Kill, Timer, EventWakeup

\* Every step keeps the variables of clockintr() well typed.
LEMMA IntrNext ==
  ASSUME TypeOK, Shape, Next
  PROVE  TypeIntr' /\ ShapeIntr'
<1> USE Consts DEF TypeOK, TypeIntr, Shape, ShapeIntr, Intrs
<1>1. CASE ClockIntr
  BY <1>1, Wrap DEF ClockIntr
<1>2. CASE IntrWakeup
  BY <1>2 DEF IntrWakeup
<1>3. CASE BoostDeque
  <2>1. CASE queues[bq] # <<>>
    <3>1. Head(queues[bq]) \in Procs
      BY <2>1 DEF TypeQueues
    <3> QED BY <1>3, <2>1, <3>1 DEF BoostDeque
  <2>2. CASE queues[bq] = <<>>
    BY <1>3, <2>2 DEF BoostDeque, LastBoosted
  <2> QED BY <2>1, <2>2
<1>4. CASE BoostReset
  BY <1>4 DEF BoostReset
<1>5. CASE BoostEnqueue
  BY <1>5 DEF BoostEnqueue
<1>6. CASE BoostSweep
  BY <1>6 DEF BoostSweep
<1>7. CASE IntrReturn
  BY <1>7 DEF IntrReturn
<1>8. CASE UNCHANGED intrVars
  BY <1>8 DEF intrVars
<1> QED
  BY <1>1, <1>2, <1>3, <1>4, <1>5, <1>6, <1>7, <1>8, IntrFrame
  DEF Next, IntrStep

\* Every step keeps the CPUs' registers well typed and in shape.
LEMMA CpusNext ==
  ASSUME TypeOK, Shape, Next
  PROVE  TypeCpus' /\ ShapeCpus'
<1> USE Consts DEF TypeOK, TypeCpus, Shape, ShapeCpus, PCs
<1>1. ASSUME NEW c \in CPUs, Deque(c) PROVE TypeCpus' /\ ShapeCpus'
  <2>1. CASE queues[scan[c]] # <<>>
    <3>1. Head(queues[scan[c]]) \in Procs
      BY <2>1 DEF TypeQueues
    <3>2. /\ pc' = [pc EXCEPT ![c] = "got"]
          /\ hand' = [hand EXCEPT ![c] = Head(queues[scan[c]])]
          /\ scan' = [scan EXCEPT ![c] = 0]
          /\ pc[c] = "scan"
          /\ UNCHANGED <<proc, rt, rq>>
      BY <1>1, <2>1 DEF Deque
    <3> QED BY <3>1, <3>2
  <2>2. CASE queues[scan[c]] = <<>>
    <3>1. /\ scan' = [scan EXCEPT ![c] = (scan[c] + 1) % NQUEUE]
          /\ UNCHANGED <<pc, hand, proc, rt, rq>>
      BY <1>1, <2>2 DEF Deque
    <3> QED BY <3>1, Wrap
  <2> QED BY <2>1, <2>2
<1>2. ASSUME NEW c \in CPUs, Dispatch(c) PROVE TypeCpus' /\ ShapeCpus'
  <2>1. hand[c] \in Procs
    BY <1>2 DEF Dispatch
  <2> QED BY <1>2, <2>1 DEF Dispatch
<1>3. ASSUME NEW c \in CPUs, SwitchBack(c) PROVE TypeCpus' /\ ShapeCpus'
  BY <1>3 DEF SwitchBack
<1>4. ASSUME NEW c \in CPUs, Preempt(c) PROVE TypeCpus' /\ ShapeCpus'
  BY <1>4 DEF Preempt, YieldFrom
<1>5. ASSUME NEW c \in CPUs, TickStore(c) PROVE TypeCpus' /\ ShapeCpus'
  <2>1. proc[c] \in Procs
    BY <1>5 DEF TickStore
  <2>2. PICK v \in {"expire", "ready"} : pc' = [pc EXCEPT ![c] = v]
    BY <1>5 DEF TickStore
  <2> QED BY <1>5, <2>1, <2>2 DEF TickStore, TypeProcs
<1>6. ASSUME NEW c \in CPUs, Expire(c) PROVE TypeCpus' /\ ShapeCpus'
  BY <1>6 DEF Expire
<1>7. ASSUME NEW c \in CPUs, Ready(c) PROVE TypeCpus' /\ ShapeCpus'
  <2>1. proc[c] \in Procs /\ priority[proc[c]] \in Queues
    BY <1>7 DEF Ready, TypeProcs
  <2>2. CASE scan[c] < priority[proc[c]] /\ queues[scan[c]] = <<>>
    <3>1. scan[c] + 1 \in Queues
      BY <2>1, <2>2
    <3> QED BY <1>7, <2>2, <3>1, SMTT(30) DEF Ready
  <2>3. CASE ~(scan[c] < priority[proc[c]] /\ queues[scan[c]] = <<>>)
    <3>1. PICK v \in {"yield", "run"} : pc' = [pc EXCEPT ![c] = v]
      BY <1>7, <2>3 DEF Ready
    <3>2. /\ scan' = [scan EXCEPT ![c] = 0]
          /\ rq' = [rq EXCEPT ![c] = 0]
          /\ pc[c] = "ready"
          /\ UNCHANGED <<proc, hand, rt>>
      BY <1>7, <2>3 DEF Ready
    <3> QED BY <3>1, <3>2
  <2> QED BY <2>2, <2>3
<1>8. ASSUME NEW c \in CPUs, SysYield(c) PROVE TypeCpus' /\ ShapeCpus'
  BY <1>8 DEF SysYield, YieldFrom, Runs
<1>9. ASSUME NEW c \in CPUs, Sleep(c) PROVE TypeCpus' /\ ShapeCpus'
  BY <1>9 DEF Sleep, Runs
<1>10. ASSUME NEW c \in CPUs, Exit(c) PROVE TypeCpus' /\ ShapeCpus'
  BY <1>10 DEF Exit, Runs
<1>11. ASSUME NEW c \in CPUs, Timer(c) PROVE TypeCpus' /\ ShapeCpus'
  BY <1>11 DEF Timer, LoadTick, TypeProcs
<1>12. ASSUME IntrReturn PROVE TypeCpus' /\ ShapeCpus'
  <2>1. CASE pc[0] = "run"
    BY <1>12, <2>1 DEF IntrReturn, LoadTick, TypeProcs
  <2>2. CASE pc[0] # "run"
    BY <1>12, <2>2 DEF IntrReturn
  <2> QED BY <2>1, <2>2
<1>13. CASE UNCHANGED cpuVars
  BY <1>13 DEF cpuVars
<1>14. ASSUME NEW c \in CPUs, \/ SleepPrepare(c) \/ ForkAlloc(c) \/ ForkReady(c)
                              \/ Reap(c) \/ Kill(c)
       PROVE  UNCHANGED cpuVars
  BY <1>14 DEF SleepPrepare, ForkAlloc, ForkReady, Reap, Kill
<1>15. ASSUME \/ EventWakeup \/ ClockIntr \/ IntrWakeup \/ BoostDeque
              \/ BoostReset \/ BoostEnqueue \/ BoostSweep
       PROVE  UNCHANGED cpuVars
  BY <1>15 DEF EventWakeup, ClockIntr, IntrWakeup, BoostDeque, BoostReset,
               BoostEnqueue, BoostSweep
<1> QED
  BY <1>1, <1>2, <1>3, <1>4, <1>5, <1>6, <1>7, <1>8, <1>9, <1>10, <1>11, <1>12,
     <1>13, <1>14, <1>15
  DEF Next, CpuStep, ProgramStep, IntrStep

\* Every step keeps the process table well typed.
LEMMA ProcsNext ==
  ASSUME TypeOK, Shape, Next
  PROVE  TypeProcs' /\ ShapeFork'
<1> USE Consts DEF TypeOK, TypeProcs, Shape, ShapeFork, States
<1>1. ASSUME NEW c \in CPUs, Dispatch(c) PROVE TypeProcs' /\ ShapeFork'
  BY <1>1 DEF Dispatch
<1>2. ASSUME NEW c \in CPUs, Preempt(c) \/ SysYield(c)
      PROVE  TypeProcs' /\ ShapeFork'
  BY <1>2 DEF Preempt, SysYield, YieldFrom
<1>3. ASSUME NEW c \in CPUs, TickStore(c) PROVE TypeProcs' /\ ShapeFork'
  <2>1. rt[c] + 1 \in Nat
    BY DEF TypeCpus
  <2>2. ticks_used' = [ticks_used EXCEPT ![proc[c]] = rt[c] + 1]
    BY <1>3 DEF TickStore
  <2>3. UNCHANGED <<state, priority, chan, kctx, child>>
    BY <1>3 DEF TickStore
  <2> QED BY <2>1, <2>2, <2>3
<1>4. ASSUME NEW c \in CPUs, Expire(c) PROVE TypeProcs' /\ ShapeFork'
  <2>1. proc[c] \in Procs
    BY <1>4 DEF Expire, TypeCpus, ShapeCpus
  <2>2. PICK q \in {rq[c], priority[proc[c]]} :
          priority' = [priority EXCEPT ![proc[c]] =
                         IF Demote(q) = q THEN @ ELSE Demote(q)]
    BY <1>4 DEF Expire
  <2>3. q \in Queues /\ Demote(q) \in Queues
    BY <2>1, <2>2 DEF TypeCpus, Demote
  <2> QED BY <1>4, <2>2, <2>3 DEF Expire
<1>5. ASSUME NEW c \in CPUs, SleepPrepare(c) PROVE TypeProcs' /\ ShapeFork'
  <2>1. PICK p \in Procs, ch \in Chans :
          /\ kctx[p] = "none"
          /\ chan' = [chan EXCEPT ![p] = ch]
          /\ kctx' = [kctx EXCEPT ![p] = "prepared"]
    BY <1>5 DEF SleepPrepare, Runs
  <2> QED BY <1>5, <2>1, ChansAssumption DEF SleepPrepare
<1>6. ASSUME NEW c \in CPUs, Sleep(c) PROVE TypeProcs' /\ ShapeFork'
  <2>1. PICK p \in Procs :
          /\ kctx[p] = "prepared"
          /\ kctx' = [kctx EXCEPT ![p] = "none"]
          /\ state' = [state EXCEPT ![p] = "SLEEPING"] \/ UNCHANGED state
    BY <1>6 DEF Sleep, Runs
  <2> QED BY <1>6, <2>1 DEF Sleep
<1>7. ASSUME NEW c \in CPUs, ForkAlloc(c) PROVE TypeProcs' /\ ShapeFork'
  <2>1. PICK p \in Procs, np \in Procs :
          /\ state' = [state EXCEPT ![np] = "USED"]
          /\ priority' = [priority EXCEPT ![np] = 0]
          /\ ticks_used' = [ticks_used EXCEPT ![np] = 0]
          /\ kctx' = [kctx EXCEPT ![p] = "fork"]
          /\ child' = [child EXCEPT ![p] = np]
          /\ UNCHANGED chan
    BY <1>7 DEF ForkAlloc
  <2> QED BY <2>1
<1>8. ASSUME NEW c \in CPUs, ForkReady(c) PROVE TypeProcs' /\ ShapeFork'
  <2>1. PICK p \in Procs :
          /\ state' = [state EXCEPT ![child[p]] = "RUNNABLE"]
          /\ kctx' = [kctx EXCEPT ![p] = "none"]
          /\ child' = [child EXCEPT ![p] = None]
          /\ UNCHANGED <<priority, ticks_used, chan>>
    BY <1>8 DEF ForkReady
  <2> QED BY <2>1
<1>9. ASSUME NEW c \in CPUs, Exit(c) PROVE TypeProcs' /\ ShapeFork'
  BY <1>9 DEF Exit
<1>10. ASSUME NEW c \in CPUs, Reap(c) PROVE TypeProcs' /\ ShapeFork'
  <2>1. PICK pp \in Procs :
          /\ state' = [state EXCEPT ![pp] = "UNUSED"]
          /\ chan' = [chan EXCEPT ![pp] = "none"]
          /\ priority' = [priority EXCEPT ![pp] = 0]
          /\ ticks_used' = [ticks_used EXCEPT ![pp] = 0]
          /\ UNCHANGED <<kctx, child>>
    BY <1>10 DEF Reap
  <2> QED BY <2>1
<1>11. ASSUME NEW c \in CPUs, Kill(c) PROVE TypeProcs' /\ ShapeFork'
  BY <1>11 DEF Kill
<1>12. ASSUME EventWakeup \/ IntrWakeup PROVE TypeProcs' /\ ShapeFork'
  BY <1>12 DEF EventWakeup, IntrWakeup, WakeupOne
<1>13. ASSUME BoostReset \/ BoostSweep PROVE TypeProcs' /\ ShapeFork'
  BY <1>13 DEF BoostReset, BoostSweep
<1>14. CASE UNCHANGED procVars
  BY <1>14 DEF procVars
<1>15. ASSUME NEW c \in CPUs, \/ Deque(c) \/ SwitchBack(c) \/ Ready(c) \/ Timer(c)
       PROVE  UNCHANGED procVars
  BY <1>15 DEF Deque, SwitchBack, Ready, Timer
<1>16. ASSUME \/ ClockIntr \/ BoostDeque \/ BoostEnqueue \/ IntrReturn
       PROVE  UNCHANGED procVars
  BY <1>16 DEF ClockIntr, BoostDeque, BoostEnqueue, IntrReturn
<1> QED
  BY <1>1, <1>2, <1>3, <1>4, <1>5, <1>6, <1>7, <1>8, <1>9, <1>10, <1>11, <1>12,
     <1>13, <1>14, <1>15, <1>16
  DEF Next, CpuStep, ProgramStep, IntrStep

\* Every step keeps the queues sequences of processes.
LEMMA QueuesNext ==
  ASSUME TypeOK, Shape, Next
  PROVE  TypeQueues'
<1> USE Consts DEF TypeOK, TypeQueues, Shape
<1>1. ASSUME NEW q \in Queues, NEW p \in Procs, enqueue(q, p) PROVE TypeQueues'
  BY <1>1, EnqueueLinks
<1>2. ASSUME NEW q \in Queues, queues[q] # <<>>, deque(q) PROVE TypeQueues'
  BY <1>2 DEF deque
<1>3. ASSUME NEW c \in CPUs, Deque(c) PROVE TypeQueues'
  BY <1>2, <1>3 DEF Deque, TypeCpus
<1>4. ASSUME NEW c \in CPUs, Preempt(c) \/ SysYield(c) PROVE TypeQueues'
  <2>1. proc[c] \in Procs /\ priority[proc[c]] \in Queues
    BY <1>4 DEF Preempt, SysYield, Runs, TypeCpus, ShapeCpus, TypeProcs
  <2> QED BY <1>1, <1>4, <2>1 DEF Preempt, SysYield, YieldFrom
<1>5. ASSUME NEW c \in CPUs, ForkReady(c) PROVE TypeQueues'
  <2>1. PICK p \in Procs : kctx[p] = "fork" /\ enqueue(0, child[p])
    BY <1>5 DEF ForkReady, Runs
  <2>2. child[p] \in Procs
    BY <2>1 DEF TypeProcs, ShapeFork
  <2> QED BY <1>1, <2>1, <2>2
<1>6. ASSUME NEW c \in CPUs, Kill(c) PROVE TypeQueues'
  BY <1>1, <1>6 DEF Kill, TypeProcs
<1>7. ASSUME EventWakeup \/ IntrWakeup PROVE TypeQueues'
  BY <1>1, <1>7 DEF EventWakeup, IntrWakeup, WakeupOne, TypeProcs, TypeIntr
<1>8. CASE BoostDeque
  BY <1>2, <1>8 DEF BoostDeque, TypeIntr
<1>9. CASE BoostEnqueue
  BY <1>1, <1>9 DEF BoostEnqueue, TypeIntr, ShapeIntr
<1>10. CASE UNCHANGED queues
  BY <1>10
<1>11. ASSUME NEW c \in CPUs,
              \/ Dispatch(c) \/ SwitchBack(c) \/ TickStore(c) \/ Expire(c)
              \/ Ready(c) \/ SleepPrepare(c) \/ Sleep(c) \/ ForkAlloc(c)
              \/ Exit(c) \/ Reap(c) \/ Timer(c)
       PROVE  UNCHANGED queues
  BY <1>11 DEF Dispatch, SwitchBack, TickStore, Expire, Ready, SleepPrepare,
               Sleep, ForkAlloc, Exit, Reap, Timer
<1>12. ASSUME ClockIntr \/ BoostReset \/ BoostSweep \/ IntrReturn
       PROVE  UNCHANGED queues
  BY <1>12 DEF ClockIntr, BoostReset, BoostSweep, IntrReturn
<1> QED
  BY <1>3, <1>4, <1>5, <1>6, <1>7, <1>8, <1>9, <1>10, <1>11, <1>12
  DEF Next, CpuStep, ProgramStep, IntrStep

\* Types and shape together are inductive: a step that dequeues, dispatches or
\* demotes needs the shape to know that its process is not the null pointer.
LEMMA NextControl == Control /\ [Next]_vars => Control'
<1> SUFFICES ASSUME TypeOK, Shape, [Next]_vars PROVE TypeOK' /\ Shape'
  BY DEF Control
<1>1. CASE Next
  BY <1>1, IntrNext, CpusNext, ProcsNext, QueuesNext DEF TypeOK, Shape
<1>2. CASE UNCHANGED vars
  BY <1>2 DEF vars, procVars, cpuVars, intrVars, TypeOK, TypeProcs, TypeQueues,
              TypeCpus, TypeIntr, Shape, ShapeCpus, ShapeIntr, ShapeFork
<1> QED BY <1>1, <1>2

\* The variables keep their types: in particular no step dequeues or enqueues
\* the null process, and no level leaves the range of the queues.
THEOREM TypeCorrect == Spec => []TypeOK
<1>1. Init => Control
  BY InitControl
<1>2. Control /\ [Next]_vars => Control'
  BY NextControl
<1>3. Control => TypeOK
  BY DEF Control
<1> QED BY <1>1, <1>2, <1>3, PTL DEF Spec

-----------------------------------------------------------------------------
(***************************************************************************)
(* Who owns a process: a CPU, a parent in kfork(), or the queues.          *)
(***************************************************************************)

\* The current process of a CPU that is not switching is RUNNING.
LEMMA CurrentRuns ==
  ASSUME TypeOK, Shape, OneCpu, NEW c \in CPUs,
         pc[c] \notin {"scan", "got", "swtch"}
  PROVE  proc[c] \in Procs /\ state[proc[c]] = "RUNNING"
BY Consts DEF TypeOK, TypeCpus, Shape, ShapeCpus, OneCpu

\* A slot that kfork() is filling is touched by nobody else.
LEMMA ForkPrivateNext ==
  ASSUME TypeOK, Shape, ForkPrivate, OneCpu, SwitchState, NoneLost, Next
  PROVE  ForkPrivate'
<1> USE Consts DEF TypeOK, TypeProcs, ForkPrivate
<1>1. ASSUME NEW p \in Procs, NEW v \in States, state[p] # "USED",
             state' = [state EXCEPT ![p] = v], UNCHANGED child
      PROVE  ForkPrivate'
  BY <1>1
<1>2. ASSUME UNCHANGED <<state, child>> PROVE ForkPrivate'
  BY <1>2
<1> USE DEF States
<1>3. ASSUME NEW c \in CPUs, Dispatch(c) PROVE ForkPrivate'
  BY <1>1, <1>2, <1>3 DEF Dispatch, TypeCpus, Shape, ShapeCpus
<1>4. ASSUME NEW c \in CPUs, Preempt(c) \/ SysYield(c) PROVE ForkPrivate'
  <2>1. proc[c] \in Procs /\ state[proc[c]] = "RUNNING"
    BY <1>4 DEF Preempt, SysYield, Runs, TypeCpus, Shape, ShapeCpus, OneCpu
  <2> QED BY <1>1, <1>4, <2>1 DEF Preempt, SysYield, YieldFrom
<1>5. ASSUME NEW c \in CPUs, Sleep(c) \/ Exit(c) PROVE ForkPrivate'
  BY <1>1, <1>2, <1>5 DEF Sleep, Exit, Runs, OneCpu
<1>6. ASSUME NEW c \in CPUs, ForkAlloc(c) PROVE ForkPrivate'
  <2>1. PICK p \in Procs, np \in Procs :
          /\ state[np] = "UNUSED"
          /\ state' = [state EXCEPT ![np] = "USED"]
          /\ child' = [child EXCEPT ![p] = np]
    BY <1>6 DEF ForkAlloc
  <2> QED BY <2>1
<1>7. ASSUME NEW c \in CPUs, ForkReady(c) PROVE ForkPrivate'
  <2>1. PICK p \in Procs :
          /\ kctx[p] = "fork"
          /\ state' = [state EXCEPT ![child[p]] = "RUNNABLE"]
          /\ child' = [child EXCEPT ![p] = None]
    BY <1>7 DEF ForkReady, Runs
  <2>2. child[p] \in Procs
    BY <2>1 DEF Shape, ShapeFork
  <2> QED BY <2>1, <2>2
<1>8. ASSUME NEW c \in CPUs, Reap(c) \/ Kill(c) PROVE ForkPrivate'
  BY <1>1, <1>8 DEF Reap, Kill
<1>9. ASSUME EventWakeup \/ IntrWakeup PROVE ForkPrivate'
  BY <1>1, <1>2, <1>9 DEF EventWakeup, IntrWakeup, WakeupOne, TypeIntr
<1>10. ASSUME NEW c \in CPUs,
              \/ Deque(c) \/ SwitchBack(c) \/ TickStore(c) \/ Expire(c)
              \/ Ready(c) \/ SleepPrepare(c) \/ Timer(c)
       PROVE  UNCHANGED <<state, child>>
  BY <1>10 DEF Deque, SwitchBack, TickStore, Expire, Ready, SleepPrepare, Timer,
               procVars
<1>11. ASSUME \/ ClockIntr \/ BoostDeque \/ BoostReset \/ BoostEnqueue
              \/ BoostSweep \/ IntrReturn
       PROVE  UNCHANGED <<state, child>>
  BY <1>11 DEF ClockIntr, BoostDeque, BoostReset, BoostEnqueue, BoostSweep,
               IntrReturn, procVars
<1> QED
  BY <1>2, <1>3, <1>4, <1>5, <1>6, <1>7, <1>8, <1>9, <1>10, <1>11
  DEF Next, CpuStep, ProgramStep, IntrStep

\* A process stays with the CPU that dispatched it until sched() has switched
\* away from its stack.
LEMMA OwnerNext ==
  ASSUME TypeOK, Shape, ForkPrivate, OneCpu, SwitchState, Next
  PROVE  OneCpu' /\ SwitchState'
<1> USE Consts DEF TypeOK, TypeProcs, TypeCpus, OneCpu, SwitchState
<1>1. ASSUME NEW c \in CPUs, NEW v \in PCs, pc[c] # "swtch", v # "swtch",
             pc' = [pc EXCEPT ![c] = v], UNCHANGED <<state, proc>>
      PROVE  OneCpu' /\ SwitchState'
  BY <1>1
<1>2. ASSUME NEW p \in Procs, NEW v \in States \ {"RUNNING"},
             state[p] # "RUNNING", ~Locked(p),
             state' = [state EXCEPT ![p] = v], UNCHANGED <<pc, proc>>
      PROVE  OneCpu' /\ SwitchState'
  BY <1>2 DEF Locked
<1>3. ASSUME NEW c \in CPUs, pc[c] # "swtch", proc[c] \in Procs,
             NEW v \in {"RUNNABLE", "SLEEPING", "ZOMBIE"},
             state' = [state EXCEPT ![proc[c]] = v],
             pc' = [pc EXCEPT ![c] = "swtch"], UNCHANGED proc
      PROVE  OneCpu' /\ SwitchState'
  BY <1>3
<1>4. ASSUME UNCHANGED <<state, pc, proc>> PROVE OneCpu' /\ SwitchState'
  BY <1>4
<1> USE DEF PCs, States
<1>5. ASSUME NEW c \in CPUs, Dispatch(c) PROVE OneCpu' /\ SwitchState'
  <2>1. hand[c] \in Procs /\ ~Locked(hand[c]) /\ pc[c] = "got" /\ proc[c] = None
    BY <1>5 DEF Dispatch, Shape, ShapeCpus
  <2>2. CASE state[hand[c]] = "RUNNABLE"
    <3>1. /\ state' = [state EXCEPT ![hand[c]] = "RUNNING"]
          /\ proc' = [proc EXCEPT ![c] = hand[c]]
          /\ pc' = [pc EXCEPT ![c] = "run"]
      BY <1>5, <2>2 DEF Dispatch
    <3>2. \A d \in CPUs : proc[d] # hand[c]
      BY <2>1, <2>2 DEF Locked
    <3>3. OneCpu'
      BY <2>1, <3>1, <3>2
    <3>4. SwitchState'
      BY <2>1, <3>1, <3>2
    <3> QED BY <3>3, <3>4
  <2>3. CASE state[hand[c]] # "RUNNABLE"
    BY <1>1, <1>5, <2>1, <2>3 DEF Dispatch
  <2> QED BY <2>2, <2>3
<1>6. ASSUME NEW c \in CPUs, SwitchBack(c) PROVE OneCpu' /\ SwitchState'
  <2>1. /\ proc' = [proc EXCEPT ![c] = None]
        /\ pc' = [pc EXCEPT ![c] = "scan"]
        /\ pc[c] = "swtch" /\ UNCHANGED state
    BY <1>6 DEF SwitchBack, procVars
  <2> QED BY <2>1
<1>7. ASSUME NEW c \in CPUs, Preempt(c) \/ SysYield(c)
      PROVE  OneCpu' /\ SwitchState'
  BY <1>3, <1>7 DEF Preempt, SysYield, Runs, YieldFrom, Shape, ShapeCpus
<1>8. ASSUME NEW c \in CPUs, Deque(c) PROVE OneCpu' /\ SwitchState'
  <2>1. pc[c] = "scan" /\ (pc' = [pc EXCEPT ![c] = "got"] \/ UNCHANGED pc)
    BY <1>8 DEF Deque
  <2>2. UNCHANGED <<state, proc>>
    BY <1>8 DEF Deque, procVars
  <2> QED BY <1>1, <1>4, <2>1, <2>2
<1>9. ASSUME NEW c \in CPUs, TickStore(c) PROVE OneCpu' /\ SwitchState'
  BY <1>1, <1>9 DEF TickStore
<1>10. ASSUME NEW c \in CPUs, Expire(c) PROVE OneCpu' /\ SwitchState'
  BY <1>1, <1>10 DEF Expire
<1>11. ASSUME NEW c \in CPUs, Ready(c) PROVE OneCpu' /\ SwitchState'
  <2>1. /\ pc[c] = "ready"
        /\ \/ UNCHANGED pc
           \/ \E v \in {"yield", "run"} : pc' = [pc EXCEPT ![c] = v]
    BY <1>11 DEF Ready
  <2>2. UNCHANGED <<state, proc>>
    BY <1>11 DEF Ready, procVars
  <2> QED BY <1>1, <1>4, <2>1, <2>2
<1>12. ASSUME NEW c \in CPUs, Sleep(c) \/ Exit(c) PROVE OneCpu' /\ SwitchState'
  BY <1>3, <1>4, <1>12 DEF Sleep, Exit, Runs
<1>13. ASSUME NEW c \in CPUs, ForkAlloc(c) PROVE OneCpu' /\ SwitchState'
  <2>1. PICK np \in Procs : /\ state[np] = "UNUSED"
                            /\ state' = [state EXCEPT ![np] = "USED"]
    BY <1>13 DEF ForkAlloc
  <2>2. ~Locked(np)
    BY <2>1 DEF Locked
  <2> QED BY <1>2, <1>13, <2>1, <2>2 DEF ForkAlloc, cpuVars
<1>14. ASSUME NEW c \in CPUs, ForkReady(c) PROVE OneCpu' /\ SwitchState'
  <2>1. PICK p \in Procs : /\ kctx[p] = "fork"
                           /\ state' = [state EXCEPT ![child[p]] = "RUNNABLE"]
    BY <1>14 DEF ForkReady, Runs
  <2>2. child[p] \in Procs /\ state[child[p]] = "USED"
    BY <2>1 DEF Shape, ShapeFork, ForkPrivate
  <2>3. ~Locked(child[p])
    BY <2>2 DEF Locked
  <2> QED BY <1>2, <1>14, <2>1, <2>2, <2>3 DEF ForkReady, cpuVars
<1>15. ASSUME NEW c \in CPUs, Reap(c) \/ Kill(c) PROVE OneCpu' /\ SwitchState'
  BY <1>2, <1>15 DEF Reap, Kill, cpuVars
<1>16. ASSUME EventWakeup \/ IntrWakeup PROVE OneCpu' /\ SwitchState'
  BY <1>2, <1>4, <1>16 DEF EventWakeup, IntrWakeup, WakeupOne, TypeIntr, cpuVars
<1>17. ASSUME NEW c \in CPUs, Timer(c) PROVE OneCpu' /\ SwitchState'
  BY <1>1, <1>17 DEF Timer, LoadTick, procVars
<1>18. ASSUME IntrReturn PROVE OneCpu' /\ SwitchState'
  BY <1>1, <1>4, <1>18 DEF IntrReturn, LoadTick, procVars
<1>19. ASSUME \/ ClockIntr \/ BoostDeque \/ BoostReset \/ BoostEnqueue
              \/ BoostSweep
       PROVE  UNCHANGED <<state, pc, proc>>
  BY <1>19 DEF ClockIntr, BoostDeque, BoostReset, BoostEnqueue, BoostSweep,
               procVars, cpuVars
<1>20. ASSUME NEW c \in CPUs, SleepPrepare(c) PROVE UNCHANGED <<state, pc, proc>>
  BY <1>20 DEF SleepPrepare, cpuVars
<1> QED
  BY <1>4, <1>5, <1>6, <1>7, <1>8, <1>9, <1>10, <1>11, <1>12, <1>13, <1>14,
     <1>15, <1>16, <1>17, <1>18, <1>19, <1>20
  DEF Next, CpuStep, ProgramStep, IntrStep

\* No step loses a RUNNABLE process, queues one that cannot run, or links one
\* twice.
LEMMA QueuedNext ==
  ASSUME TypeOK, Shape, ForkPrivate, OneCpu, NoneLost, NoneTwice, Next
  PROVE  NoneLost' /\ NoneTwice'
<1> USE Consts DEF TypeOK, TypeProcs, TypeCpus, TypeIntr, TypeQueues, NoneTwice
<1>1. ASSUME NEW q \in Queues, NEW p \in Procs, state[p] # "RUNNABLE",
             enqueue(q, p), state' = [state EXCEPT ![p] = "RUNNABLE"],
             UNCHANGED <<hand, bhand>>
      PROVE  NoneLost' /\ NoneTwice'
  <2>1. ~Queued(p) /\ ~InHand(p)
    BY <1>1 DEF NoneLost
  <2>2. /\ \A r \in Procs : Queued(r)' <=> Queued(r) \/ r = p
        /\ LinkedOnce'
    BY <1>1, <2>1, EnqueueLinks
  <2>3. \A r \in Procs : InHand(r)' <=> InHand(r)
    BY <1>1 DEF InHand
  <2>4. NoneLost'
    BY <1>1, <2>2, <2>3 DEF NoneLost
  <2>5. HeldOnce'
    BY <1>1, <2>1, <2>2, <2>3 DEF HeldOnce
  <2> QED BY <2>2, <2>4, <2>5
<1>2. ASSUME NEW p \in Procs, NEW v \in States \ {"RUNNABLE"},
             state[p] # "RUNNABLE", state' = [state EXCEPT ![p] = v],
             UNCHANGED <<queues, hand, bhand>>
      PROVE  NoneLost' /\ NoneTwice'
  <2>1. \A r \in Procs : (Queued(r)' <=> Queued(r)) /\ (InHand(r)' <=> InHand(r))
    BY <1>2 DEF Queued, InHand
  <2>2. NoneTwice'
    BY <1>2, <2>1 DEF LinkedOnce, HeldOnce
  <2>3. NoneLost'
    BY <1>2, <2>1 DEF NoneLost
  <2> QED BY <2>2, <2>3
<1>3. ASSUME UNCHANGED <<state, queues, hand, bhand>>
      PROVE  NoneLost' /\ NoneTwice'
  BY <1>3 DEF NoneLost, LinkedOnce, HeldOnce, Queued, InHand
<1> USE DEF States
<1>4. ASSUME NEW c \in CPUs, Deque(c) PROVE NoneLost' /\ NoneTwice'
  <2>1. CASE queues[scan[c]] = <<>>
    BY <1>3, <1>4, <2>1 DEF Deque, procVars, intrVars
  <2>2. CASE queues[scan[c]] # <<>>
    <3> DEFINE h == Head(queues[scan[c]])
    <3>1. /\ hand[c] = None /\ hand' = [hand EXCEPT ![c] = h]
          /\ deque(scan[c]) /\ UNCHANGED <<state, bhand>>
      BY <1>4, <2>2 DEF Deque, Shape, ShapeCpus, procVars, intrVars
    <3>2. /\ h \in Procs /\ Queued(h)
          /\ \A r \in Procs : Queued(r)' <=> Queued(r) /\ r # h
          /\ LinkedOnce'
      BY <2>2, <3>1, DequeUnlinks
    <3> HIDE DEF h
    <3>3. ~InHand(h)
      BY <3>2 DEF HeldOnce
    <3>4. \A r \in Procs : InHand(r)' <=> InHand(r) \/ r = h
      BY <3>1, <3>2 DEF InHand
    <3>5. NoneLost'
      BY <3>1, <3>2, <3>4 DEF NoneLost
    <3>6. HeldOnce'
      BY <3>1, <3>2, <3>3, <3>4, ZenonT(30) DEF HeldOnce, InHand
    <3> QED BY <3>2, <3>5, <3>6
  <2> QED BY <2>1, <2>2
<1>5. ASSUME NEW c \in CPUs, Dispatch(c) PROVE NoneLost' /\ NoneTwice'
  <2>1. /\ hand[c] \in Procs /\ InHand(hand[c])
        /\ hand' = [hand EXCEPT ![c] = None] /\ UNCHANGED <<queues, bhand>>
    BY <1>5 DEF Dispatch, Shape, ShapeCpus, InHand, intrVars
  <2>2. state[hand[c]] = "RUNNABLE" /\ ~Queued(hand[c])
    BY <2>1 DEF NoneLost, HeldOnce
  <2>3. state' = [state EXCEPT ![hand[c]] = "RUNNING"]
    BY <1>5, <2>2 DEF Dispatch
  <2>4. \A r \in Procs : Queued(r)' <=> Queued(r)
    BY <2>1 DEF Queued
  <2>5. \A r \in Procs : InHand(r)' <=> InHand(r) /\ r # hand[c]
    <3>1. hand[c] # None /\ hand[c] # bhand /\ \A d \in CPUs \ {c} : hand[d] # hand[c]
      BY <2>1 DEF HeldOnce, None, Procs
    <3>2. hand'[c] = None /\ \A d \in CPUs \ {c} : hand'[d] = hand[d]
      BY <2>1 DEF TypeCpus
    <3>3. \A r \in Procs : r # None
      BY DEF None, Procs
    <3> QED BY <2>1, <3>1, <3>2, <3>3 DEF InHand
  <2>6. NoneLost'
    <3> SUFFICES ASSUME NEW r \in Procs
                 PROVE  state'[r] = "RUNNABLE" <=> Queued(r)' \/ InHand(r)'
      BY DEF NoneLost
    <3>1. CASE r = hand[c]
      BY <2>1, <2>2, <2>3, <2>4, <2>5, <3>1
    <3>2. CASE r # hand[c]
      <4>1. state'[r] = state[r]
        BY <2>3, <3>2
      <4>2. state[r] = "RUNNABLE" <=> Queued(r) \/ InHand(r)
        BY DEF NoneLost
      <4> QED BY <2>4, <2>5, <3>2, <4>1, <4>2
    <3> QED BY <3>1, <3>2
  <2>7. HeldOnce'
    BY <2>1, <2>4, <2>5 DEF HeldOnce
  <2>8. LinkedOnce'
    BY <2>1 DEF LinkedOnce
  <2> QED BY <2>6, <2>7, <2>8
<1>6. ASSUME NEW c \in CPUs, Preempt(c) \/ SysYield(c)
      PROVE  NoneLost' /\ NoneTwice'
  <2>1. proc[c] \in Procs /\ state[proc[c]] = "RUNNING"
    BY <1>6, CurrentRuns DEF Preempt, SysYield, Runs
  <2> QED BY <1>1, <1>6, <2>1 DEF Preempt, SysYield, YieldFrom, intrVars
<1>7. ASSUME NEW c \in CPUs, Sleep(c) \/ Exit(c) PROVE NoneLost' /\ NoneTwice'
  <2>1. proc[c] \in Procs /\ state[proc[c]] = "RUNNING"
    BY <1>7, CurrentRuns DEF Sleep, Exit, Runs
  <2>2. \/ UNCHANGED <<state, queues, hand, bhand>>
        \/ /\ \E v \in {"SLEEPING", "ZOMBIE"} :
                 state' = [state EXCEPT ![proc[c]] = v]
           /\ UNCHANGED <<queues, hand, bhand>>
    BY <1>7 DEF Sleep, Exit, Runs, intrVars
  <2> QED BY <1>2, <1>3, <2>1, <2>2
<1>8. ASSUME NEW c \in CPUs, ForkAlloc(c) \/ Reap(c) PROVE NoneLost' /\ NoneTwice'
  BY <1>2, <1>8 DEF ForkAlloc, Reap, cpuVars, intrVars
<1>9. ASSUME NEW c \in CPUs, ForkReady(c) PROVE NoneLost' /\ NoneTwice'
  <2>1. PICK p \in Procs : /\ kctx[p] = "fork" /\ enqueue(0, child[p])
                           /\ state' = [state EXCEPT ![child[p]] = "RUNNABLE"]
                           /\ UNCHANGED <<hand, bhand>>
    BY <1>9 DEF ForkReady, Runs, cpuVars, intrVars
  <2>2. child[p] \in Procs /\ state[child[p]] = "USED"
    BY <2>1 DEF Shape, ShapeFork, ForkPrivate
  <2> QED BY <1>1, <2>1, <2>2
<1>10. ASSUME NEW c \in CPUs, Kill(c) PROVE NoneLost' /\ NoneTwice'
  BY <1>1, <1>10 DEF Kill, cpuVars, intrVars
<1>11. ASSUME EventWakeup \/ IntrWakeup PROVE NoneLost' /\ NoneTwice'
  BY <1>1, <1>3, <1>11
  DEF EventWakeup, IntrWakeup, WakeupOne, cpuVars, intrVars
<1>12. ASSUME BoostDeque PROVE NoneLost' /\ NoneTwice'
  <2>1. CASE queues[bq] = <<>>
    BY <1>3, <1>12, <2>1 DEF BoostDeque, procVars, cpuVars
  <2>2. CASE queues[bq] # <<>>
    <3> DEFINE h == Head(queues[bq])
    <3>1. /\ bhand = None /\ bhand' = h
          /\ deque(bq) /\ UNCHANGED <<state, hand>>
      BY <1>12, <2>2 DEF BoostDeque, Shape, ShapeIntr, procVars, cpuVars
    <3>2. /\ h \in Procs /\ Queued(h)
          /\ \A r \in Procs : Queued(r)' <=> Queued(r) /\ r # h
          /\ LinkedOnce'
      BY <2>2, <3>1, DequeUnlinks
    <3> HIDE DEF h
    <3>3. ~InHand(h)
      BY <3>2 DEF HeldOnce
    <3>4. \A r \in Procs : InHand(r)' <=> InHand(r) \/ r = h
      BY <3>1, <3>2 DEF InHand
    <3>5. NoneLost'
      BY <3>1, <3>2, <3>4 DEF NoneLost
    <3>6. HeldOnce'
      BY <3>1, <3>2, <3>3, <3>4 DEF HeldOnce, InHand
    <3> QED BY <3>2, <3>5, <3>6
  <2> QED BY <2>1, <2>2
<1>13. ASSUME BoostReset PROVE NoneLost' /\ NoneTwice'
  <2>1. bhand \in Procs /\ InHand(bhand)
    BY <1>13 DEF BoostReset, Shape, ShapeIntr, InHand
  <2>2. state[bhand] = "RUNNABLE"
    BY <2>1 DEF NoneLost
  <2> QED BY <1>3, <1>13, <2>2 DEF BoostReset, cpuVars
<1>14. ASSUME BoostEnqueue PROVE NoneLost' /\ NoneTwice'
  <2>1. /\ bhand \in Procs /\ InHand(bhand) /\ enqueue(0, bhand)
        /\ bhand' = None /\ UNCHANGED <<state, hand>>
    BY <1>14 DEF BoostEnqueue, Shape, ShapeIntr, InHand, procVars, cpuVars
  <2>2. ~Queued(bhand)
    BY <2>1 DEF HeldOnce
  <2>3. /\ \A r \in Procs : Queued(r)' <=> Queued(r) \/ r = bhand
        /\ LinkedOnce'
    BY <2>1, <2>2, EnqueueLinks
  <2>4. \A r \in Procs : InHand(r)' <=> InHand(r) /\ r # bhand
    BY <2>1 DEF InHand, HeldOnce
  <2>5. NoneLost'
    BY <2>1, <2>3, <2>4 DEF NoneLost
  <2>6. HeldOnce'
    BY <2>1, <2>3, <2>4 DEF HeldOnce
  <2> QED BY <2>3, <2>5, <2>6
<1>15. ASSUME NEW c \in CPUs,
              \/ SwitchBack(c) \/ TickStore(c) \/ Expire(c) \/ Ready(c)
              \/ SleepPrepare(c) \/ Timer(c)
       PROVE  UNCHANGED <<state, queues, hand, bhand>>
  BY <1>15 DEF SwitchBack, TickStore, Expire, Ready, SleepPrepare, Timer,
               procVars, cpuVars, intrVars
<1>16. ASSUME ClockIntr \/ BoostSweep \/ IntrReturn
       PROVE  UNCHANGED <<state, queues, hand, bhand>>
  BY <1>16 DEF ClockIntr, BoostSweep, IntrReturn, procVars, cpuVars
<1> QED
  BY <1>3, <1>4, <1>5, <1>6, <1>7, <1>8, <1>9, <1>10, <1>11, <1>12, <1>13,
     <1>14, <1>15, <1>16
  DEF Next, CpuStep, ProgramStep, IntrStep

\* After userinit() the only RUNNABLE process is the only one queued.
LEMMA InitIInv == Init => IInv
<1> SUFFICES ASSUME Init PROVE IInv
  OBVIOUS
<1>1. TypeOK /\ Shape
  BY InitControl DEF Control
<1>2. ForkPrivate /\ OneCpu /\ SwitchState
  BY Consts DEF Init, ForkPrivate, OneCpu, SwitchState
<1>3. \A p \in Procs : Queued(p) <=> p = initproc
  BY Consts DEF Init, Queued
<1>4. NoneLost
  BY <1>3, Consts DEF Init, NoneLost, InHand
<1>5. NoneTwice
  BY <1>3, Consts DEF Init, NoneTwice, LinkedOnce, HeldOnce, InHand
<1> QED BY <1>1, <1>2, <1>4, <1>5 DEF IInv

\* Every step of every CPU, of a program and of clockintr() keeps IInv.
LEMMA NextIInv == IInv /\ [Next]_vars => IInv'
<1> SUFFICES ASSUME IInv, [Next]_vars PROVE IInv'
  OBVIOUS
<1>1. TypeOK' /\ Shape'
  BY NextControl DEF IInv, Control
<1>2. CASE Next
  BY <1>1, <1>2, ForkPrivateNext, OwnerNext, QueuedNext DEF IInv
<1>3. CASE UNCHANGED vars
  BY <1>1, <1>3
  DEF vars, procVars, cpuVars, intrVars, IInv, ForkPrivate, OneCpu, SwitchState,
      NoneLost, NoneTwice, LinkedOnce, HeldOnce, Queued, InHand
<1> QED BY <1>2, <1>3

\* IInv is inductive, for every number of CPUs, processes and queues.
LEMMA Inductive == Spec => []IInv
  BY InitIInv, NextIInv, PTL DEF Spec

\* The RUNNABLE processes are exactly those waiting in a queue or being moved
\* between queues by a scheduler or by the boost: none is lost, and none is
\* queued that cannot run.
THEOREM ConservationCorrect == Spec => []NoneLost
  BY Inductive, PTL DEF IInv

\* No process is linked twice into the intrusive lists.
THEOREM QueueCorrect == Spec => []NoneTwice
  BY Inductive, PTL DEF IInv

\* No process runs on two CPUs.
THEOREM OwnerCorrect == Spec => []OneCpu
  BY Inductive, PTL DEF IInv

\* A process is in one place only: one queue position, one hand, one CPU.
THEOREM PlacementCorrect == Spec => []PlacedOnce
  BY QueueCorrect, OwnerCorrect, PTL DEF PlacedOnce

-----------------------------------------------------------------------------
(***************************************************************************)
(* Time slices and lost wakeups.                                           *)
(***************************************************************************)

\* SliceBound holds of the counters and of the copies loaded by mlfq_tick().
SliceInv ==
  /\ SliceBound
  /\ \A c \in CPUs : pc[c] = "tick" => rt[c] < time_slice[NQUEUE - 1]

\* The slices grow with the level, so the lowest level has the longest.
LEMMA LongestSlice ==
  /\ NQUEUE - 1 \in Queues
  /\ \A q \in Queues : time_slice[q] \in Nat \ {0}
                       /\ time_slice[q] <= time_slice[NQUEUE - 1]
  BY SliceAssumption, NQUEUEAssumption DEF Queues

\* Every step keeps the counters, and the copies mlfq_tick() holds, below the
\* longest slice until mlfq_timeslice_expired() resets them.
LEMMA SliceNext ==
  ASSUME TypeOK, Shape, OneCpu, SliceInv, Next
  PROVE  SliceInv'
<1> DEFINE L == time_slice[NQUEUE - 1]
<1>0. L \in Nat /\ 0 < L
  BY LongestSlice
<1> HIDE DEF L
<1> USE DEF SliceInv, SliceBound
<1>a. \A p \in Procs : \/ ticks_used[p] < L
                       \/ \E c \in CPUs : proc[c] = p /\ pc[c] = "expire"
  BY DEF L
<1>b. \A c \in CPUs : pc[c] = "tick" => rt[c] < L
  BY DEF L
<1>c. ASSUME /\ \A p \in Procs : \/ ticks_used'[p] < L
                                 \/ \E c \in CPUs : proc'[c] = p /\ pc'[c] = "expire"
             /\ \A c \in CPUs : pc'[c] = "tick" => rt'[c] < L
      PROVE  SliceInv'
  BY <1>c DEF L
<1> HIDE DEF SliceInv, SliceBound
<1> USE DEF TypeOK, TypeProcs, TypeCpus
<1>1. ASSUME NEW c \in CPUs, NEW v \in PCs \ {"expire", "tick"},
             pc[c] # "expire", pc' = [pc EXCEPT ![c] = v],
             \A d \in CPUs : d # c => proc'[d] = proc[d],
             UNCHANGED <<ticks_used, rt>>
      PROVE  SliceInv'
  BY <1>1, <1>a, <1>b, <1>c
<1>2. ASSUME NEW p \in Procs, ticks_used' = [ticks_used EXCEPT ![p] = 0],
             UNCHANGED <<pc, proc, rt>>
      PROVE  SliceInv'
  BY <1>0, <1>2, <1>a, <1>b, <1>c
<1>3. ASSUME UNCHANGED <<ticks_used, pc, proc, rt>> PROVE SliceInv'
  BY <1>3, <1>a, <1>b, <1>c
<1>4. ASSUME NEW c \in CPUs, pc[c] = "run", LoadTick(c),
             UNCHANGED <<ticks_used, proc>>
      PROVE  SliceInv'
  <2>1. proc[c] \in Procs
    BY <1>4, CurrentRuns
  <2>2. ticks_used[proc[c]] < L
    BY <1>4, <1>a, <2>1, Consts DEF OneCpu
  <2> QED BY <1>4, <1>a, <1>b, <1>c, <2>1, <2>2 DEF LoadTick
<1>5. ASSUME NEW c \in CPUs, TickStore(c) PROVE SliceInv'
  <2>1. proc[c] \in Procs /\ rq[c] \in Queues /\ priority[proc[c]] \in Queues
    BY <1>5, CurrentRuns DEF TickStore
  <2>2. /\ pc[c] = "tick" /\ ticks_used' = [ticks_used EXCEPT ![proc[c]] = rt[c] + 1]
        /\ rt' = [rt EXCEPT ![c] = 0] /\ UNCHANGED proc
    BY <1>5 DEF TickStore
  <2>3. PICK q \in Queues :
          pc' = [pc EXCEPT ![c] = IF rt[c] + 1 >= time_slice[q] THEN "expire"
                                                                ELSE "ready"]
    BY <1>5, <2>1 DEF TickStore
  <2>4. CASE rt[c] + 1 >= time_slice[q]
    BY <1>a, <1>b, <1>c, <2>1, <2>2, <2>3, <2>4
  <2>5. CASE ~(rt[c] + 1 >= time_slice[q])
    <3>1. rt[c] + 1 < L
      <4>1. time_slice[q] \in Nat /\ time_slice[q] <= L
        BY LongestSlice DEF L
      <4>2. rt[c] \in Nat
        OBVIOUS
      <4> QED BY <1>0, <2>5, <4>1, <4>2
    <3> QED BY <1>a, <1>b, <1>c, <2>1, <2>2, <2>3, <2>5, <3>1
  <2> QED BY <2>4, <2>5
<1>6. ASSUME NEW c \in CPUs, Expire(c) PROVE SliceInv'
  <2>1. proc[c] \in Procs
    BY <1>6, CurrentRuns DEF Expire
  <2>2. /\ ticks_used' = [ticks_used EXCEPT ![proc[c]] = 0]
        /\ pc' = [pc EXCEPT ![c] = "yield"] /\ UNCHANGED <<proc, rt>>
    BY <1>6 DEF Expire
  <2> QED BY <1>0, <1>a, <1>b, <1>c, <2>1, <2>2
<1> USE DEF PCs
<1>7. ASSUME NEW c \in CPUs, Deque(c) PROVE SliceInv'
  <2>1. /\ pc[c] = "scan" /\ (pc' = [pc EXCEPT ![c] = "got"] \/ UNCHANGED pc)
        /\ UNCHANGED <<ticks_used, proc, rt>>
    BY <1>7 DEF Deque, procVars
  <2> QED BY <1>1, <1>3, <2>1
<1>8. ASSUME NEW c \in CPUs, Dispatch(c) \/ SwitchBack(c) PROVE SliceInv'
  <2>1. /\ pc[c] # "expire"
        /\ \E v \in {"run", "scan"} : pc' = [pc EXCEPT ![c] = v]
        /\ \A d \in CPUs : d # c => proc'[d] = proc[d]
        /\ UNCHANGED <<ticks_used, rt>>
    BY <1>8 DEF Dispatch, SwitchBack, procVars
  <2> QED BY <1>1, <2>1
<1>9. ASSUME NEW c \in CPUs, Preempt(c) \/ SysYield(c) PROVE SliceInv'
  BY <1>1, <1>9 DEF Preempt, SysYield, Runs, YieldFrom
<1>10. ASSUME NEW c \in CPUs, Ready(c) PROVE SliceInv'
  <2>1. /\ pc[c] = "ready"
        /\ \/ UNCHANGED pc
           \/ \E v \in {"yield", "run"} : pc' = [pc EXCEPT ![c] = v]
        /\ UNCHANGED <<ticks_used, proc, rt>>
    BY <1>10 DEF Ready, procVars
  <2> QED BY <1>1, <1>3, <2>1
<1>11. ASSUME NEW c \in CPUs, Sleep(c) \/ Exit(c) PROVE SliceInv'
  BY <1>1, <1>3, <1>11 DEF Sleep, Exit, Runs
<1>12. ASSUME NEW c \in CPUs, ForkAlloc(c) \/ Reap(c) PROVE SliceInv'
  BY <1>2, <1>12 DEF ForkAlloc, Reap, cpuVars
<1>13. ASSUME NEW c \in CPUs, SleepPrepare(c) \/ ForkReady(c) \/ Kill(c)
       PROVE  SliceInv'
  BY <1>3, <1>13 DEF SleepPrepare, ForkReady, Kill, cpuVars
<1>14. ASSUME NEW c \in CPUs, Timer(c) PROVE SliceInv'
  BY <1>4, <1>14 DEF Timer, procVars
<1>15. ASSUME IntrReturn PROVE SliceInv'
  BY <1>3, <1>4, <1>15, Consts DEF IntrReturn, procVars
<1>16. ASSUME BoostReset PROVE SliceInv'
  BY <1>2, <1>3, <1>16, Consts
  DEF BoostReset, Shape, ShapeIntr, TypeIntr, cpuVars
<1>17. ASSUME BoostSweep PROVE SliceInv'
  BY <1>2, <1>17 DEF BoostSweep, TypeIntr, cpuVars
<1>18. ASSUME EventWakeup \/ ClockIntr \/ IntrWakeup \/ BoostDeque \/ BoostEnqueue
       PROVE  SliceInv'
  BY <1>3, <1>18 DEF EventWakeup, ClockIntr, IntrWakeup, BoostDeque,
                     BoostEnqueue, procVars, cpuVars
<1> QED
  BY <1>5, <1>6, <1>7, <1>8, <1>9, <1>10, <1>11, <1>12, <1>13, <1>14, <1>15,
     <1>16, <1>17, <1>18
  DEF Next, CpuStep, ProgramStep, IntrStep

\* No counter reaches the longest slice outside the handler that resets it,
\* whatever levels the unlocked reads of the tick path return.
THEOREM SliceCorrect == Spec => []SliceBound
<1>1. Init => SliceInv
  BY LongestSlice DEF Init, SliceInv, SliceBound
<1>2. IInv /\ SliceInv /\ [Next]_vars => SliceInv'
  <2> SUFFICES ASSUME IInv, SliceInv, [Next]_vars PROVE SliceInv'
    OBVIOUS
  <2>1. CASE Next
    BY <2>1, SliceNext DEF IInv
  <2>2. CASE UNCHANGED vars
    BY <2>2 DEF vars, procVars, cpuVars, SliceInv, SliceBound
  <2> QED BY <2>1, <2>2
<1>3. SliceInv => SliceBound
  BY DEF SliceInv
<1> QED BY <1>1, <1>2, <1>3, Inductive, PTL DEF Spec

\* A sleeping process can be found by wakeup(): the check of p->chan in
\* sleep() closes the window that sleep_prepare() opens.
THEOREM WakableCorrect == Spec => []SleeperWakable
<1>1. Init => SleeperWakable
  BY DEF Init, SleeperWakable
<1>2. TypeOK /\ SleeperWakable /\ [Next]_vars => SleeperWakable'
  <2> SUFFICES ASSUME TypeOK, SleeperWakable, [Next]_vars PROVE SleeperWakable'
    OBVIOUS
  <2> USE DEF TypeOK, TypeProcs, SleeperWakable
  <2>1. ASSUME NEW p \in Procs, NEW v \in States \ {"SLEEPING"},
               state' = [state EXCEPT ![p] = v],
               UNCHANGED chan \/ chan' = [chan EXCEPT ![p] = "none"]
        PROVE  SleeperWakable'
    BY <2>1
  <2>2. ASSUME UNCHANGED <<state, chan>> PROVE SleeperWakable'
    BY <2>2
  <2> USE DEF States
  <2>3. ASSUME NEW c \in CPUs, Sleep(c) PROVE SleeperWakable'
    BY <2>3 DEF Sleep
  <2>4. ASSUME NEW c \in CPUs, SleepPrepare(c) PROVE SleeperWakable'
    BY <2>4, ChansAssumption DEF SleepPrepare
  <2>5. ASSUME NEW c \in CPUs, Dispatch(c) PROVE SleeperWakable'
    BY <2>5 DEF Dispatch
  <2>6. ASSUME NEW c \in CPUs, Preempt(c) \/ SysYield(c) PROVE SleeperWakable'
    BY <2>6 DEF Preempt, SysYield, YieldFrom
  <2>7. ASSUME NEW c \in CPUs, \/ ForkAlloc(c) \/ Exit(c) \/ Reap(c) \/ Kill(c)
        PROVE  SleeperWakable'
    BY <2>1, <2>7 DEF ForkAlloc, Exit, Reap, Kill
  <2>8. ASSUME NEW c \in CPUs, ForkReady(c) PROVE SleeperWakable'
    BY <2>8 DEF ForkReady
  <2>9. ASSUME EventWakeup \/ IntrWakeup PROVE SleeperWakable'
    BY <2>9 DEF EventWakeup, IntrWakeup, WakeupOne
  <2>10. ASSUME NEW c \in CPUs, \/ Deque(c) \/ SwitchBack(c) \/ TickStore(c)
                                \/ Expire(c) \/ Ready(c) \/ Timer(c)
         PROVE  UNCHANGED <<state, chan>>
    BY <2>10 DEF Deque, SwitchBack, TickStore, Expire, Ready, Timer, procVars
  <2>11. ASSUME \/ ClockIntr \/ BoostDeque \/ BoostReset \/ BoostEnqueue
                \/ BoostSweep \/ IntrReturn
         PROVE  UNCHANGED <<state, chan>>
    BY <2>11 DEF ClockIntr, BoostDeque, BoostReset, BoostEnqueue, BoostSweep,
                 IntrReturn, procVars
  <2>12. CASE UNCHANGED vars
    BY <2>12 DEF vars, procVars
  <2> QED
    BY <2>2, <2>3, <2>4, <2>5, <2>6, <2>7, <2>8, <2>9, <2>10, <2>11, <2>12
    DEF Next, CpuStep, ProgramStep, IntrStep
<1> QED BY <1>1, <1>2, TypeCorrect, PTL DEF Spec
=============================================================================
