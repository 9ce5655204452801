---------------------------- MODULE ShellProofs -----------------------------
(***************************************************************************)
(* Proofs about the C shell: its job control, for every number of          *)
(* processes, jobs and pipeline stages, and then what it holds open while  *)
(* it builds a pipeline, for pipelines of any length and any number of     *)
(* failing system calls.                                                   *)
(***************************************************************************)
EXTENDS JobControl, Plumbing, FiniteSetTheorems, SequenceTheorems, TLAPS

Reports == {"none", "stop", "cont", "exit"}

(***************************************************************************)
(* NoLostStatus needs only that rep is a function on the pids: a report    *)
(* appears together with the pending bit, the bit goes down only when the  *)
(* handler starts, and the handler ends only when no report is left.       *)
(***************************************************************************)
StatusInv == rep \in [Pids -> Reports] /\ NoLostStatus

\* The shell starts with no child and so with no status.
LEMMA InitStatus == Init => StatusInv
BY DEF Init, StatusInv, NoLostStatus, Reports

\* A step that leaves rep and the two flags alone keeps StatusInv.
LEMMA SameStatus ==
  ASSUME StatusInv, UNCHANGED <<rep, chld, in_handler>>
  PROVE  StatusInv'
BY DEF StatusInv, NoLostStatus

\* Collecting a status of p outside or inside the handler keeps StatusInv.
LEMMA ConsumeStatus ==
  ASSUME StatusInv, NEW p \in Pids, Consume(p), UNCHANGED <<chld, in_handler>>
  PROVE  StatusInv'
BY DEF StatusInv, NoLostStatus, Consume, Reports

\* A child's change comes with SIGCHLD.
LEMMA ChildrenStatus == StatusInv /\ Children => StatusInv'
<1> SUFFICES ASSUME StatusInv, Children PROVE StatusInv'
  OBVIOUS
<1>1. PICK p \in Pids, s \in {"dead", "stop", "run"}, r \in {"exit", "stop", "cont"} :
        Change(p, s, r)
  BY DEF Children, ChildExit, ChildStop, ChildContinue
<1>2. rep' \in [Pids -> Reports] /\ chld'
  BY <1>1 DEF Change, StatusInv, Reports
<1> QED
  BY <1>2 DEF StatusInv, NoLostStatus

\* The handler takes the bit down when it starts and collects every status
\* before it returns.
LEMMA HandlerStatus == StatusInv /\ Handler => StatusInv'
<1> SUFFICES ASSUME StatusInv, Handler PROVE StatusInv'
  OBVIOUS
<1>1. CASE HandlerEnter
  BY <1>1 DEF HandlerEnter, StatusInv, NoLostStatus
<1>2. CASE HandlerReap
  <2>1. PICK p \in Pids : Consume(p) /\ UNCHANGED <<chld, in_handler>>
    BY <1>2 DEF HandlerReap
  <2> QED
    BY <2>1, ConsumeStatus
<1>3. CASE HandlerReturn
  BY <1>3 DEF HandlerReturn, kernelVars, StatusInv, NoLostStatus
<1> QED
  BY <1>1, <1>2, <1>3 DEF Handler

\* The foreground wait may collect statuses; the bit stays up behind it.
LEMMA WaitStatus == StatusInv /\ Wait => StatusInv'
<1> SUFFICES ASSUME StatusInv, Wait PROVE StatusInv'
  OBVIOUS
<1>1. CASE FgReap
  <2>1. PICK p \in Pids : Consume(p)
    BY <1>1 DEF FgReap, Reportable, Group
  <2>2. UNCHANGED <<chld, in_handler>>
    BY <1>1 DEF FgReap
  <2> QED
    BY <2>1, <2>2, ConsumeStatus
<1>2. CASE FgBlock
  BY <1>2, SameStatus DEF FgBlock, kernelVars
<1>3. CASE FgNoChild
  BY <1>3, SameStatus DEF FgNoChild, kernelVars
<1>4. CASE FgDone
  BY <1>4, SameStatus DEF FgDone, Reclaim, kernelVars
<1>5. CASE FgStopped
  BY <1>5, SameStatus DEF FgStopped, Reclaim, kernelVars
<1>6. CASE FgTimedOut
  BY <1>6, SameStatus DEF FgTimedOut, Reclaim, kernelVars
<1> QED
  BY <1>1, <1>2, <1>3, <1>4, <1>5, <1>6 DEF Wait

\* SIGCONT to a group makes new reports and raises the bit for them.
LEMMA ResumeStatus == StatusInv /\ Resume => StatusInv'
<1> SUFFICES ASSUME StatusInv, Resume PROVE StatusInv'
  OBVIOUS
<1>1. CASE ResumeFinished
  BY <1>1, SameStatus DEF ResumeFinished, kernelVars
<1>2. CASE ResumeContinue
  <2>1. Continue(cmd.pgid) /\ in_handler' = in_handler
    BY <1>2 DEF ResumeContinue
  <2> DEFINE woken == {p \in Pids : pgrp[p] = cmd.pgid /\ ks[p] = "stop"}
  <2>2. /\ rep' = [p \in Pids |-> IF p \in woken THEN "cont" ELSE rep[p]]
        /\ chld' = (chld \/ woken # {})
    BY <2>1 DEF Continue
  <2> HIDE DEF woken
  <2>3. rep' \in [Pids -> Reports]
    BY <2>2 DEF StatusInv, Reports
  <2>4. ASSUME NEW p \in Pids, rep'[p] # "none" PROVE chld' \/ in_handler'
    <3>1. CASE p \in woken
      BY <3>1, <2>2
    <3>2. CASE p \notin woken
      BY <3>2, <2>1, <2>2, <2>4 DEF StatusInv, NoLostStatus
    <3> QED
      BY <3>1, <3>2
  <2> QED
    BY <2>3, <2>4 DEF StatusInv, NoLostStatus
<1> QED
  BY <1>1, <1>2 DEF Resume

\* Nothing else touches a status or the bit.
LEMMA RestStatus == StatusInv /\ (Alarm \/ Drain \/ Input) => StatusInv'
<1> SUFFICES ASSUME StatusInv, Alarm \/ Drain \/ Input
             PROVE UNCHANGED <<rep, chld, in_handler>>
  BY SameStatus
<1>1. CASE Alarm
  BY <1>1 DEF Alarm, kernelVars
<1>2. CASE Drain
  BY <1>2 DEF Drain, DrainEnd, DrainOne, DrainCopyFirst, DrainCopyRest,
              DrainShrink, kernelVars
<1>3. CASE LaunchBackground
  BY <1>3 DEF LaunchBackground, Fork
<1>4. CASE LaunchForeground
  BY <1>4 DEF LaunchForeground, Fork
<1>5. CASE ResumeLookup \/ Finish \/ BlankLine \/ Eof
  BY <1>5 DEF ResumeLookup, Finish, BlankLine, Eof, kernelVars
<1> QED
  BY <1>1, <1>2, <1>3, <1>4, <1>5 DEF Input

\* Whatever the children, the handler, the foreground waits, resume and the
\* main loop do in any order, an uncollected status always has a pending
\* SIGCHLD or a running handler behind it.
THEOREM StatusCorrect == Spec => []NoLostStatus
<1>1. StatusInv /\ [Next]_vars => StatusInv'
  <2> SUFFICES ASSUME StatusInv, [Next]_vars PROVE StatusInv'
    OBVIOUS
  <2>1. CASE Next
    BY <2>1, ChildrenStatus, HandlerStatus, WaitStatus, ResumeStatus, RestStatus
    DEF Next
  <2>2. CASE UNCHANGED vars
    BY <2>2, SameStatus DEF vars, kernelVars
  <2> QED
    BY <2>1, <2>2
<1>2. StatusInv => NoLostStatus
  BY DEF StatusInv
<1> QED
  BY InitStatus, <1>1, <1>2, PTL DEF Spec

-----------------------------------------------------------------------------
(***************************************************************************)
(* FinishReported: the inductive invariant, in parts. The exit of a        *)
(* process may be recorded in a slot that the drain is overwriting, and    *)
(* may be collected by a foreground wait without the table knowing: what   *)
(* can be relied on is that remaining never falls below the number of      *)
(* processes not yet collected.                                            *)
(***************************************************************************)

\* The pids of slot i, and where its processes not yet collected are.
PidsOf(i) == [j \in DOMAIN jobs[i].procs |-> jobs[i].procs[j].pid]
Left(i) == {j \in DOMAIN PidsOf(i) : ks[PidsOf(i)[j]] # "gone"}
Over(i) == Left(i) = {}
ExitsOf(i) == {j \in DOMAIN jobs[i].procs : jobs[i].procs[j].exited}

\* A sequence of different pids that have been given out.
Proper(s) ==
  /\ s # <<>> /\ \A j \in DOMAIN s : s[j] \in 1..npid
  /\ \A j, k \in DOMAIN s : s[j] = s[k] => j = k
Apart(s, t) == \A j \in DOMAIN s, k \in DOMAIN t : s[j] # t[k]

\* A report of an exit is of a dead child, and a pid is free until it is given out.
KernelOK == \A p \in Pids : (rep[p] = "exit" => ks[p] = "dead") /\ (p > npid => ks[p] = "free")

\* The drain has copied the pids of the last slot into slot cmd.slot, but not all of the rest.
Copied == pc \in {"copyrest", "shrink"}
Torn(i) == pc = "copyrest" /\ i = cmd.slot /\ i # job_count

\* Processes belong to one job.
TableOK ==
  /\ \A i \in 1..job_count : Proper(PidsOf(i))
  /\ \A i, k \in 1..job_count :
       i # k /\ ~(Copied /\ {i, k} = {cmd.slot, job_count}) => Apart(PidsOf(i), PidsOf(k))

\* A process marked as exited has been collected.
MarkedOK == \A i \in 1..job_count : \A j \in ExitsOf(i) : ks[PidsOf(i)[j]] = "gone"

\* The state of the copy.
CopyOK ==
  /\ pc \in {"copy", "copyrest", "shrink"} => cmd.slot \in 1..job_count
  /\ pc = "copy" => Over(cmd.slot) /\ jobs[cmd.slot].remaining <= 0
  /\ Copied => PidsOf(cmd.slot) = PidsOf(job_count)
  /\ pc = "shrink" => jobs[cmd.slot].count = jobs[job_count].count

\* remaining is never too small, but for a slot half overwritten, which is not announced.
CountOK ==
  \A i \in 1..job_count : IF Torn(i) THEN jobs[i].remaining <= 0
                                     ELSE jobs[i].remaining >= Cardinality(Left(i))

\* What is in the pipe was given out, once, and is over.
PipeOK ==
  /\ \A k \in DOMAIN pipe : pipe[k] \in 1..npid
  /\ \A i, j \in DOMAIN pipe : pipe[i] = pipe[j] => i = j
  /\ \A k \in DOMAIN pipe, i \in 1..job_count : PidsOf(i)[1] = pipe[k] =>
       /\ Over(i)
       /\ jobs[i].remaining <= 0 \/ (pc = "shrink" /\ i = job_count /\ i # cmd.slot)

\* A pipeline in the foreground is not in the table.
LaunchedOK ==
  pc \in {"fgloop", "fgblock", "fgstopped"} /\ ~cmd.fg =>
    /\ Proper(cmd.pids) /\ \A k \in DOMAIN pipe : \A j \in DOMAIN cmd.pids : cmd.pids[j] # pipe[k]
    /\ \A i \in 1..job_count : Apart(cmd.pids, PidsOf(i))

JobInv == TypeOK /\ KernelOK /\ TableOK /\ MarkedOK /\ CopyOK /\ CountOK /\ PipeOK /\ LaunchedOK

-----------------------------------------------------------------------------
(* Types, and what the updates of the table do to what the invariant sees.  *)

LEMMA SlotsInTable == ASSUME TypeOK PROVE 1..job_count \subseteq Slots /\ job_count \in Nat
  BY MaxJobsAssumption DEF TypeOK, Slots

LEMMA ProcsType ==
  ASSUME NEW s \in Seq(Proc)
  PROVE  /\ DOMAIN s = 1..Len(s) /\ Len(s) \in Nat
         /\ \A j \in DOMAIN s : s[j] \in Proc /\ s[j].pid \in Pids
         /\ [j \in DOMAIN s |-> s[j].pid] \in Seq(Pids)
<1>1. DOMAIN s = 1..Len(s) /\ Len(s) \in Nat /\ \A j \in 1..Len(s) : s[j] \in Proc
  BY LenProperties
<1>2. \A j \in 1..Len(s) : s[j].pid \in Pids
  BY <1>1 DEF Proc
<1>3. [j \in 1..Len(s) |-> s[j].pid] \in Seq(Pids)
  BY <1>1, <1>2
<1> QED BY <1>1, <1>2, <1>3

LEMMA SlotType ==
  ASSUME TypeOK, NEW i \in Slots
  PROVE  /\ jobs[i] \in JobRecs /\ jobs[i].procs \in Seq(Proc) /\ jobs[i].remaining \in Int /\ jobs[i].count \in Nat
         /\ jobs[i].num \in Nat /\ jobs[i].pgid \in Pids \cup {Shell}
         /\ PidsOf(i) \in Seq(Pids) /\ DOMAIN PidsOf(i) = DOMAIN jobs[i].procs
         /\ \A j \in DOMAIN PidsOf(i) : PidsOf(i)[j] = jobs[i].procs[j].pid /\ PidsOf(i)[j] \in Pids
<1>1. /\ jobs[i] \in JobRecs /\ jobs[i].procs \in Seq(Proc) /\ jobs[i].remaining \in Int /\ jobs[i].count \in Nat
      /\ jobs[i].num \in Nat /\ jobs[i].pgid \in Pids \cup {Shell}
  BY DEF TypeOK, JobRecs
<1> QED BY <1>1, ProcsType DEF PidsOf

LEMMA LeftFinite ==
  ASSUME TypeOK, NEW i \in Slots
  PROVE  IsFiniteSet(Left(i)) /\ Cardinality(Left(i)) \in Nat
<1>1. DOMAIN PidsOf(i) = 1..Len(jobs[i].procs) /\ Len(jobs[i].procs) \in Nat
  BY SlotType, ProcsType
<1>2. IsFiniteSet(DOMAIN PidsOf(i)) /\ Left(i) \in SUBSET DOMAIN PidsOf(i)
  BY <1>1, FS_Interval DEF Left
<1> QED BY <1>2, FS_Subset, FS_CardinalityType

\* A process that is collected stays collected.
GoneStays == \A p \in Pids : ks[p] = "gone" => ks'[p] = "gone"

\* The invariant sees no change of slot i.
SlotSame(i) ==
  /\ PidsOf(i)' = PidsOf(i) /\ jobs'[i].remaining = jobs[i].remaining /\ jobs'[i].count = jobs[i].count
  /\ ExitsOf(i)' = ExitsOf(i)

LEMMA LeftShrinks ==
  ASSUME TypeOK, TypeOK', NEW i \in Slots, NEW k \in Slots, PidsOf(i)' = PidsOf(k), GoneStays
  PROVE  Left(i)' \subseteq Left(k) /\ Cardinality(Left(i)') <= Cardinality(Left(k)) /\ Cardinality(Left(i)') \in Nat
<1>1. \A j \in DOMAIN PidsOf(k) : PidsOf(k)[j] \in Pids
  BY SlotType
<1>2. PICK L : L = Left(i)'
  OBVIOUS
<1>3. L \in SUBSET Left(k)
  BY <1>1, <1>2 DEF Left, GoneStays
<1> QED BY <1>2, <1>3, LeftFinite, FS_Subset, FS_CardinalityType

LEMMA OverStays ==
  ASSUME TypeOK, TypeOK', NEW i \in Slots, NEW k \in Slots, PidsOf(i)' = PidsOf(k), GoneStays, Over(k)
  PROVE  Over(i)'
  BY LeftShrinks DEF Over

\* One process of a job is marked.
LEMMA MarkedProc ==
  ASSUME NEW s \in Seq(Proc), NEW j \in DOMAIN s, NEW r \in Proc, r.pid = s[j].pid
  PROVE  LET u == [s EXCEPT ![j] = r] IN
         u \in Seq(Proc) /\ DOMAIN u = DOMAIN s /\ [k \in DOMAIN u |-> u[k].pid] = [k \in DOMAIN s |-> s[k].pid]
         /\ u[j] = r /\ \A k \in DOMAIN s \ {j} : u[k] = s[k]
<1> DEFINE u == [s EXCEPT ![j] = r]
<1>1. j \in 1..Len(s)
  BY ProcsType
<1>2. u \in Seq(Proc) /\ DOMAIN u = DOMAIN s
  BY <1>1, ExceptSeq
<1>3. \A k \in DOMAIN s : u[k].pid = s[k].pid
  OBVIOUS
<1> QED BY <1>2, <1>3

\* Slot i is overwritten by y.
LEMMA SlotUpdate ==
  ASSUME TypeOK, NEW i \in Slots, NEW y \in JobRecs, jobs' = [jobs EXCEPT ![i] = y]
  PROVE  /\ jobs' \in [Slots -> JobRecs] /\ \A k \in Slots \ {i} : SlotSame(k) /\ jobs'[k] = jobs[k]
         /\ PidsOf(i)' = [j \in DOMAIN y.procs |-> y.procs[j].pid] /\ jobs'[i] = y
<1>1. jobs' \in [Slots -> JobRecs]
  BY DEF TypeOK
<1>2. \A k \in Slots \ {i} : jobs'[k] = jobs[k]
  BY DEF TypeOK
<1>3. jobs'[i] = y
  BY DEF TypeOK
<1> QED BY <1>1, <1>2, <1>3 DEF SlotSame, PidsOf, ExitsOf

\* The process of r in slot i is replaced by one with the same pid.
LEMMA ProcReplaced ==
  ASSUME TypeOK, NEW i \in Slots, NEW j \in DOMAIN jobs[i].procs, NEW r \in Proc, r.pid = jobs[i].procs[j].pid
  PROVE  LET y == WithProc(jobs[i], j, r) IN
         /\ y \in JobRecs /\ y.procs \in Seq(Proc) /\ [k \in DOMAIN y.procs |-> y.procs[k].pid] = PidsOf(i)
         /\ y.count = jobs[i].count /\ y.remaining = jobs[i].remaining /\ DOMAIN y.procs = DOMAIN jobs[i].procs
         /\ y.procs[j] = r /\ \A k \in DOMAIN jobs[i].procs \ {j} : y.procs[k] = jobs[i].procs[k]
<1> DEFINE s == [jobs[i].procs EXCEPT ![j] = r]
<1>1. jobs[i] \in JobRecs /\ jobs[i].procs \in Seq(Proc)
  BY SlotType
<1>2. /\ s \in Seq(Proc) /\ [k \in DOMAIN s |-> s[k].pid] = PidsOf(i) /\ DOMAIN s = DOMAIN jobs[i].procs
      /\ s[j] = r /\ \A k \in DOMAIN jobs[i].procs \ {j} : s[k] = jobs[i].procs[k]
  BY <1>1, MarkedProc DEF PidsOf
<1> HIDE DEF s
<1>3. WithProc(jobs[i], j, r) = [jobs[i] EXCEPT !.procs = s]
  BY DEF WithProc, s
<1>4. [jobs[i] EXCEPT !.procs = s] \in JobRecs /\ [jobs[i] EXCEPT !.procs = s].procs = s
  BY <1>1, <1>2 DEF JobRecs
<1>5. [jobs[i] EXCEPT !.procs = s].count = jobs[i].count /\ [jobs[i] EXCEPT !.procs = s].remaining = jobs[i].remaining
  BY <1>1, <1>2 DEF JobRecs
<1> QED BY <1>2, <1>3, <1>4, <1>5

LEMMA ExitMarked ==
  ASSUME TypeOK, NEW i \in Slots, NEW j \in DOMAIN jobs[i].procs, NEW n \in Int, NEW t \in BOOLEAN,
         jobs' = [jobs EXCEPT ![i] = [WithProc(jobs[i], j, [jobs[i].procs[j] EXCEPT !.exited = t])
                                        EXCEPT !.remaining = n]]
  PROVE  /\ jobs' \in [Slots -> JobRecs] /\ \A k \in Slots \ {i} : SlotSame(k)
         /\ PidsOf(i)' = PidsOf(i) /\ jobs'[i].remaining = n /\ jobs'[i].count = jobs[i].count
         /\ ExitsOf(i)' \subseteq ExitsOf(i) \cup {j}
<1> DEFINE r == [jobs[i].procs[j] EXCEPT !.exited = t]
           y == WithProc(jobs[i], j, r)
<1>1. jobs[i].procs[j] \in Proc
  BY SlotType, ProcsType
<1>2. r \in Proc /\ r.pid = jobs[i].procs[j].pid
  BY <1>1 DEF Proc
<1> HIDE DEF r
<1>3. /\ y \in JobRecs /\ y.procs \in Seq(Proc) /\ [k \in DOMAIN y.procs |-> y.procs[k].pid] = PidsOf(i)
      /\ y.count = jobs[i].count /\ y.remaining = jobs[i].remaining /\ DOMAIN y.procs = DOMAIN jobs[i].procs
      /\ y.procs[j] = r /\ \A k \in DOMAIN jobs[i].procs \ {j} : y.procs[k] = jobs[i].procs[k]
  BY <1>2, ProcReplaced
<1>4. jobs' = [jobs EXCEPT ![i] = [y EXCEPT !.remaining = n]]
  BY DEF r
<1> HIDE DEF y
<1>5. PICK z : z = [y EXCEPT !.remaining = n]
  OBVIOUS
<1>6. z \in JobRecs /\ z.procs = y.procs /\ z.count = y.count /\ z.remaining = n
  BY <1>3, <1>5 DEF JobRecs
<1>7. jobs' = [jobs EXCEPT ![i] = z]
  BY <1>4, <1>5
<1>8. /\ jobs' \in [Slots -> JobRecs] /\ \A k \in Slots \ {i} : SlotSame(k)
      /\ PidsOf(i)' = [k \in DOMAIN z.procs |-> z.procs[k].pid] /\ jobs'[i] = z
  BY <1>6, <1>7, SlotUpdate, ZenonT(30)
<1>9. ExitsOf(i)' = {k \in DOMAIN y.procs : y.procs[k].exited}
  BY <1>6, <1>8 DEF ExitsOf
<1>10. ExitsOf(i)' \subseteq ExitsOf(i) \cup {j}
  BY <1>3, <1>9 DEF ExitsOf
<1> QED BY <1>3, <1>6, <1>8, <1>10

LEMMA StateMarked ==
  ASSUME TypeOK, NEW i \in Slots, NEW j \in DOMAIN jobs[i].procs, NEW st \in {"run", "stop"},
         jobs' = [jobs EXCEPT ![i] = WithProc(jobs[i], j, [jobs[i].procs[j] EXCEPT !.state = st])]
  PROVE  jobs' \in [Slots -> JobRecs] /\ \A k \in Slots : SlotSame(k)
<1> DEFINE r == [jobs[i].procs[j] EXCEPT !.state = st]
           y == WithProc(jobs[i], j, r)
<1>1. jobs[i].procs[j] \in Proc /\ jobs[i].remaining \in Int
  BY SlotType, ProcsType
<1>2. r \in Proc /\ r.pid = jobs[i].procs[j].pid /\ r.exited = jobs[i].procs[j].exited
  BY <1>1 DEF Proc
<1> HIDE DEF r
<1>3. /\ y \in JobRecs /\ y.procs \in Seq(Proc) /\ [k \in DOMAIN y.procs |-> y.procs[k].pid] = PidsOf(i)
      /\ y.count = jobs[i].count /\ y.remaining = jobs[i].remaining /\ DOMAIN y.procs = DOMAIN jobs[i].procs
      /\ y.procs[j] = r /\ \A k \in DOMAIN jobs[i].procs \ {j} : y.procs[k] = jobs[i].procs[k]
  BY <1>2, ProcReplaced
<1>4. jobs' = [jobs EXCEPT ![i] = y]
  BY DEF r
<1> HIDE DEF y
<1>5. PidsOf(i)' = PidsOf(i) /\ jobs'[i] = y /\ jobs' \in [Slots -> JobRecs] /\ \A k \in Slots \ {i} : SlotSame(k)
  BY <1>3, <1>4, SlotUpdate
<1>6. \A k \in DOMAIN jobs[i].procs : y.procs[k].exited = jobs[i].procs[k].exited
  BY <1>2, <1>3
<1>7. ExitsOf(i)' = ExitsOf(i)
  BY <1>3, <1>5, <1>6 DEF ExitsOf
<1> QED BY <1>3, <1>5, <1>7 DEF SlotSame

LEMMA SmallestSlot ==
  ASSUME NEW S \in SUBSET Nat, S # {}
  PROVE  Min(S) \in S /\ \A y \in S : Min(S) <= y
<1> DEFINE Below(x) == {y \in S : y <= x}
           F == {Below(x) : x \in S}
<1>1. \A x \in S : Below(x) \in FiniteSubsetsOf(Nat)
  BY FS_BoundedSetOfNaturals DEF FiniteSubsetsOf
<1>2. F \subseteq FiniteSubsetsOf(Nat) /\ F # {}
  BY <1>1
<1>3. PICK B \in F : \A C \in F : <<C, B>> \notin StrictSubsetOrdering(Nat)
  BY <1>2, FS_StrictSubsetOrderingWellFounded, WFMin, Zenon
<1>4. PICK x \in S : B = Below(x)
  OBVIOUS
<1>5. ASSUME NEW y \in S, y < x PROVE FALSE
  <2>1. Below(y) \in SUBSET Nat /\ Below(x) \in SUBSET Nat /\ Below(y) \in F
    OBVIOUS
  <2>2. \A z \in S : z <= y => z <= x
    BY <1>5
  <2>3. Below(y) \subseteq Below(x)
    BY <2>2
  <2>4. x \in Below(x) /\ x \notin Below(y)
    BY <1>5
  <2> QED BY <1>3, <1>4, <2>1, <2>3, <2>4 DEF StrictSubsetOrdering
<1>6. \A y \in S : x <= y
  BY <1>5
<1> QED BY <1>6 DEF Min

\* Where the handler records a status of p.
LEMMA RecordPlace ==
  ASSUME TypeOK, NEW p \in Pids, Matching(p) # {}
  PROVE  LET i == Min(Matching(p))
             j == Min(Listed(i, p))
         IN /\ i \in 1..job_count /\ i \in Slots /\ j \in DOMAIN jobs[i].procs /\ j \in DOMAIN PidsOf(i)
            /\ PidsOf(i)[j] = p /\ j \in Listed(i, p) /\ \A k \in Matching(p) : i <= k
<1> DEFINE i == Min(Matching(p))
           j == Min(Listed(i, p))
<1>1. Matching(p) \in SUBSET Nat
  BY SlotsInTable DEF Matching
<1>2. i \in Matching(p) /\ \A k \in Matching(p) : i <= k
  BY <1>1, SmallestSlot
<1>3. i \in 1..job_count /\ i \in Slots /\ Listed(i, p) # {}
  BY <1>2, SlotsInTable DEF Matching
<1> HIDE DEF i
<1>4. Listed(i, p) \in SUBSET Nat
  BY <1>3, SlotType DEF Listed
<1>5. j \in Listed(i, p)
  BY <1>3, <1>4, SmallestSlot
<1> QED BY <1>2, <1>3, <1>5, SlotType DEF Listed, i

\* mark_job_running() and mark_job_stopped().
LEMMA MarkJobEffect ==
  ASSUME TypeOK, NEW num, NEW st \in {"run", "stop"}, MarkJob(num, st)
  PROVE  jobs' \in [Slots -> JobRecs] /\ \A k \in Slots : SlotSame(k)
<1> DEFINE mark(r) == IF r.exited THEN r ELSE [r EXCEPT !.state = st]
           marked(k) == [j \in DOMAIN jobs[k].procs |-> mark(jobs[k].procs[j])]
<1>1. ASSUME NEW r \in Proc PROVE mark(r) \in Proc /\ mark(r).pid = r.pid /\ mark(r).exited = r.exited
  BY DEF Proc
<1>2. ASSUME NEW k \in Slots
      PROVE  marked(k) \in Seq(Proc) /\ DOMAIN marked(k) = DOMAIN jobs[k].procs
             /\ [j \in DOMAIN marked(k) |-> marked(k)[j].pid] = PidsOf(k)
             /\ \A j \in DOMAIN jobs[k].procs : marked(k)[j].exited = jobs[k].procs[j].exited
  <2> DEFINE s == jobs[k].procs
  <2>1. s \in Seq(Proc) /\ DOMAIN s = 1..Len(s) /\ Len(s) \in Nat /\ \A j \in DOMAIN s : s[j] \in Proc
    BY SlotType, ProcsType
  <2> HIDE DEF s
  <2>2. marked(k) = [j \in 1..Len(s) |-> mark(s[j])]
    BY <2>1 DEF s
  <2>3. \A j \in 1..Len(s) : mark(s[j]) \in Proc /\ mark(s[j]).pid = s[j].pid /\ mark(s[j]).exited = s[j].exited
    BY <1>1, <2>1
  <2> HIDE DEF mark, marked
  <2>4. marked(k) \in Seq(Proc) /\ DOMAIN marked(k) = 1..Len(s)
    BY <2>1, <2>2, <2>3
  <2>5. [j \in DOMAIN marked(k) |-> marked(k)[j].pid] = [j \in DOMAIN s |-> s[j].pid]
    BY <2>1, <2>2, <2>3, <2>4
  <2>6. \A j \in 1..Len(s) : marked(k)[j].exited = s[j].exited
    BY <2>2, <2>3
  <2> QED BY <2>1, <2>4, <2>5, <2>6 DEF PidsOf, s
<1>3. jobs' = [k \in Slots |-> IF SlotOf(num) # {} /\ k = Min(SlotOf(num))
                               THEN [jobs[k] EXCEPT !.procs = marked(k)] ELSE jobs[k]]
  BY DEF MarkJob
<1> HIDE DEF marked
<1>4. ASSUME NEW k \in Slots
      PROVE  LET y == [jobs[k] EXCEPT !.procs = marked(k)] IN
             /\ y \in JobRecs /\ y.procs = marked(k) /\ y.remaining = jobs[k].remaining /\ y.count = jobs[k].count
  BY <1>2, SlotType DEF JobRecs
<1>5. ASSUME NEW k \in Slots PROVE jobs'[k] \in JobRecs /\ SlotSame(k)
  <2>1. CASE jobs'[k] = jobs[k]
    BY <2>1, SlotType DEF SlotSame, PidsOf, ExitsOf
  <2>2. CASE jobs'[k] = [jobs[k] EXCEPT !.procs = marked(k)]
    <3>1. /\ jobs'[k] \in JobRecs /\ jobs'[k].procs = marked(k) /\ jobs'[k].remaining = jobs[k].remaining
          /\ jobs'[k].count = jobs[k].count
      BY <1>4, <2>2
    <3> QED BY <1>2, <3>1 DEF SlotSame, PidsOf, ExitsOf
  <2> QED BY <1>3, <2>1, <2>2
<1> QED BY <1>3, <1>5


-----------------------------------------------------------------------------
(***************************************************************************)
(* Steps that leave every slot of the table alone, or take one slot out:   *)
(* slot i afterwards is what slot Src(i, s) was, where s is the slot taken *)
(* out, or 0.                                                              *)
(***************************************************************************)
CopyPcs == {"copy", "copyrest", "shrink"}
Launched == pc \in {"fgloop", "fgblock", "fgstopped"} /\ ~cmd.fg

Src(i, s) == IF i = s THEN job_count ELSE i
SlotFrom(i, k) ==
  /\ PidsOf(i)' = PidsOf(k) /\ jobs'[i].remaining = jobs[k].remaining /\ jobs'[i].count = jobs[k].count
  /\ ExitsOf(i)' = ExitsOf(k)

\* The pipe loses at most its head.
PipeSub == pipe' = pipe \/ (pipe # <<>> /\ pipe' = Tail(pipe))

Frame(s) ==
  /\ GoneStays /\ npid <= npid' /\ PipeSub
  /\ job_count' = (IF s = 0 THEN job_count ELSE job_count - 1)
  /\ \A i \in 1..job_count' : SlotFrom(i, Src(i, s))

\* The main loop does not move within the copy, unless the copy ends here.
Moves(s) ==
  \/ pc' \notin CopyPcs /\ (pc \in CopyPcs => pc = "shrink" /\ s = job_count)
  \/ pc' = pc /\ cmd' = cmd /\ s = 0

LEMMA SrcFacts ==
  ASSUME TypeOK, TypeOK', NEW s \in 0..job_count, Frame(s)
  PROVE  /\ \A i \in 1..job_count' : i \in Slots /\ Src(i, s) \in 1..job_count /\ Src(i, s) \in Slots
         /\ \A i, k \in 1..job_count' : i # k => Src(i, s) # Src(k, s)
         /\ job_count' <= job_count /\ job_count' \in Nat /\ job_count \in Nat
         /\ s = 0 => \A i \in 1..job_count' : Src(i, s) = i
         /\ s = job_count /\ s # 0 => \A i \in 1..job_count' : Src(i, s) = i /\ i # job_count
<1>1. job_count \in 0..MAX_JOBS /\ job_count' \in 0..MAX_JOBS
  BY DEF TypeOK
<1>2. job_count' = (IF s = 0 THEN job_count ELSE job_count - 1)
  BY DEF Frame
<1> QED BY <1>1, <1>2, MaxJobsAssumption DEF Src, Slots

LEMMA PipeSubFacts ==
  ASSUME TypeOK, PipeSub
  PROVE  \E d \in {0, 1} : \A k \in DOMAIN pipe' : k \in Nat /\ k + d \in DOMAIN pipe /\ pipe'[k] = pipe[k + d]
<1>1. pipe \in Seq(Pids) /\ DOMAIN pipe = 1..Len(pipe) /\ Len(pipe) \in Nat
  BY LenProperties DEF TypeOK
<1>2. CASE pipe' = pipe
  <2>1. \A k \in DOMAIN pipe' : k \in Nat /\ k + 0 \in DOMAIN pipe /\ pipe'[k] = pipe[k + 0]
    BY <1>1, <1>2
  <2> QED BY <2>1
<1>3. CASE pipe # <<>> /\ pipe' = Tail(pipe)
  <2>1. DOMAIN pipe' = 1..Len(pipe') /\ Len(pipe') = Len(pipe) - 1 /\ \A k \in 1..Len(pipe') : pipe'[k] = pipe[k + 1]
    BY <1>1, <1>3, HeadTailProperties, LenProperties
  <2>2. \A k \in DOMAIN pipe' : k \in Nat /\ k + 1 \in DOMAIN pipe /\ pipe'[k] = pipe[k + 1]
    BY <1>1, <2>1
  <2> QED BY <2>2
<1> QED BY <1>2, <1>3 DEF PipeSub

LEMMA FrameTable ==
  ASSUME JobInv, TypeOK', NEW s \in 0..job_count, Frame(s), Moves(s)
  PROVE  TableOK' /\ MarkedOK'
<1>0. TypeOK /\ TableOK /\ MarkedOK /\ npid \in Nat /\ npid' \in Nat
  BY NPIDAssumption DEF JobInv, TypeOK
<1>1. /\ \A i \in 1..job_count' : i \in Slots /\ Src(i, s) \in 1..job_count /\ Src(i, s) \in Slots
      /\ \A i, k \in 1..job_count' : i # k => Src(i, s) # Src(k, s)
      /\ s = 0 => \A i \in 1..job_count' : Src(i, s) = i
      /\ s = job_count /\ s # 0 => \A i \in 1..job_count' : Src(i, s) = i /\ i # job_count
  BY <1>0, SrcFacts
<1>2. \A i \in 1..job_count' : PidsOf(i)' = PidsOf(Src(i, s)) /\ ExitsOf(i)' = ExitsOf(Src(i, s))
  BY DEF Frame, SlotFrom
<1>3. npid <= npid' /\ GoneStays
  BY DEF Frame
<1>4. ASSUME NEW i \in 1..job_count' PROVE Proper(PidsOf(i))'
  <2>1. Proper(PidsOf(Src(i, s)))
    BY <1>0, <1>1 DEF TableOK
  <2>2. \A x \in 1..npid : x \in 1..npid'
    BY <1>0, <1>3
  <2> QED BY <1>2, <2>1, <2>2 DEF Proper
<1>5. ASSUME NEW i \in 1..job_count', NEW k \in 1..job_count', i # k,
             ~(Copied' /\ {i, k} = {cmd'.slot, job_count'})
      PROVE  Apart(PidsOf(i), PidsOf(k))'
  <2>1. ~(Copied /\ {Src(i, s), Src(k, s)} = {cmd.slot, job_count})
    <3>1. CASE pc' = pc /\ cmd' = cmd /\ s = 0
      BY <1>1, <1>5, <3>1 DEF Copied, Frame
    <3>2. CASE pc' \notin CopyPcs /\ (pc \in CopyPcs => pc = "shrink" /\ s = job_count)
      <4>1. CASE Copied
        <5>1. s = job_count
          BY <3>2, <4>1 DEF Copied, CopyPcs
        <5>2. CASE s # 0
          BY <1>1, <5>1, <5>2
        <5>3. CASE s = 0
          BY <1>0, <5>1, <5>3, <1>5 DEF Frame, TypeOK
        <5> QED BY <5>2, <5>3
      <4> QED BY <4>1
    <3> QED BY <3>1, <3>2 DEF Moves
  <2>2. Apart(PidsOf(Src(i, s)), PidsOf(Src(k, s)))
    BY <1>0, <1>1, <1>5, <2>1 DEF TableOK
  <2> QED BY <1>2, <2>2 DEF Apart
<1>6. ASSUME NEW i \in 1..job_count', NEW j \in ExitsOf(i)' PROVE ks'[PidsOf(i)'[j]] = "gone"
  <2>1. j \in ExitsOf(Src(i, s)) /\ j \in DOMAIN PidsOf(Src(i, s)) /\ PidsOf(Src(i, s))[j] \in Pids
    BY <1>0, <1>1, <1>2, SlotType DEF ExitsOf
  <2>2. ks[PidsOf(Src(i, s))[j]] = "gone"
    BY <1>0, <1>1, <2>1 DEF MarkedOK
  <2> QED BY <1>2, <1>3, <2>1, <2>2 DEF GoneStays
<1>7. TableOK'
  BY <1>4, <1>5 DEF TableOK
<1>8. MarkedOK'
  BY <1>6 DEF MarkedOK
<1> QED BY <1>7, <1>8


LEMMA FrameCopy ==
  ASSUME JobInv, TypeOK', NEW s \in 0..job_count, Frame(s), Moves(s)
  PROVE  CopyOK'
<1>1. CASE pc' \notin CopyPcs
  BY <1>1 DEF CopyOK, CopyPcs, Copied
<1>2. CASE pc' \in CopyPcs
  <2>1. pc' = pc /\ cmd' = cmd /\ s = 0 /\ job_count' = job_count
    BY <1>2 DEF Moves, Frame
  <2>2. TypeOK /\ CopyOK /\ cmd.slot \in 1..job_count /\ job_count \in 1..job_count
    BY <1>2, <2>1, SlotsInTable DEF JobInv, CopyOK, CopyPcs
  <2>3. \A i \in 1..job_count : i \in Slots /\ SlotFrom(i, i)
    BY <2>1, <2>2, SrcFacts DEF Frame
  <2>4. GoneStays
    BY DEF Frame
  <2>5. ASSUME pc = "copy" PROVE Over(cmd.slot)' /\ jobs'[cmd'.slot].remaining <= 0
    <3>1. PICK k : k = cmd.slot
      OBVIOUS
    <3>2. Over(k) /\ jobs[k].remaining <= 0 /\ k \in Slots /\ SlotFrom(k, k)
      BY <2>2, <2>3, <2>5, <3>1 DEF CopyOK
    <3>3. Over(k)'
      BY <2>2, <2>4, <3>2, OverStays DEF SlotFrom
    <3> QED BY <2>1, <3>1, <3>2, <3>3 DEF SlotFrom, Over, Left, PidsOf
  <2>6. ASSUME Copied PROVE PidsOf(cmd.slot)' = PidsOf(job_count)'
    <3>1. PidsOf(cmd.slot) = PidsOf(job_count)
      BY <2>2, <2>6 DEF CopyOK
    <3>2. PICK k, c : k = cmd.slot /\ c = job_count
      OBVIOUS
    <3>3. PidsOf(k)' = PidsOf(k) /\ PidsOf(c)' = PidsOf(c)
      BY <2>2, <2>3, <3>2 DEF SlotFrom
    <3> QED BY <2>1, <3>1, <3>2, <3>3 DEF PidsOf
  <2>7. ASSUME pc = "shrink" PROVE jobs'[cmd'.slot].count = jobs'[job_count'].count
    BY <2>1, <2>2, <2>3, <2>7 DEF CopyOK, SlotFrom
  <2> QED BY <2>1, <2>2, <2>5, <2>6, <2>7 DEF CopyOK, Copied
<1> QED BY <1>1, <1>2

\* A slot half overwritten stays so, or is not there afterwards.
LEMMA FrameTorn ==
  ASSUME JobInv, TypeOK', NEW s \in 0..job_count, Frame(s), Moves(s), NEW i \in 1..job_count'
  PROVE  /\ Torn(i)' <=> Torn(Src(i, s))
         /\ pc = "shrink" /\ Src(i, s) = job_count /\ Src(i, s) # cmd.slot =>
              pc' = "shrink" /\ i = job_count' /\ i # cmd'.slot
<1>0. TypeOK /\ job_count \in Nat
  BY SlotsInTable DEF JobInv
<1>1. CASE pc' = pc /\ cmd' = cmd /\ s = 0
  BY <1>0, <1>1, SrcFacts DEF Torn, Frame
<1>2. CASE pc' \notin CopyPcs /\ (pc \in CopyPcs => pc = "shrink" /\ s = job_count)
  <2>1. ~Torn(i)' /\ pc # "copyrest"
    BY <1>2 DEF Torn, CopyPcs
  <2>2. ASSUME pc = "shrink" PROVE Src(i, s) # job_count
    <3>1. s = job_count /\ s # 0
      BY <1>0, <1>2, <2>2 DEF CopyPcs, Frame
    <3> QED BY <1>0, <3>1, SrcFacts
  <2> QED BY <2>1, <2>2 DEF Torn
<1> QED BY <1>1, <1>2 DEF Moves

LEMMA FrameCount ==
  ASSUME JobInv, TypeOK', NEW s \in 0..job_count, Frame(s), Moves(s)
  PROVE  CountOK'
<1> SUFFICES ASSUME NEW i \in 1..job_count'
             PROVE  IF Torn(i)' THEN jobs'[i].remaining <= 0 ELSE jobs'[i].remaining >= Cardinality(Left(i)')
  BY DEF CountOK
<1>0. TypeOK /\ GoneStays
  BY DEF JobInv, Frame
<1>1. PICK k : k = Src(i, s)
  OBVIOUS
<1>2. i \in Slots /\ k \in 1..job_count /\ k \in Slots
  BY <1>0, <1>1, SrcFacts
<1>3. PidsOf(i)' = PidsOf(k) /\ jobs'[i].remaining = jobs[k].remaining
  BY <1>1 DEF Frame, SlotFrom
<1>4. Cardinality(Left(i)') <= Cardinality(Left(k)) /\ Cardinality(Left(i)') \in Nat /\ Cardinality(Left(k)) \in Nat
  BY <1>0, <1>2, <1>3, LeftShrinks, LeftFinite
<1>5. Torn(i)' <=> Torn(k)
  BY <1>1, FrameTorn
<1>6. IF Torn(k) THEN jobs[k].remaining <= 0 ELSE jobs[k].remaining >= Cardinality(Left(k))
  BY <1>2 DEF JobInv, CountOK
<1>7. jobs[k].remaining \in Int
  BY <1>0, <1>2, SlotType
<1> QED BY <1>3, <1>4, <1>5, <1>6, <1>7

LEMMA FramePipe ==
  ASSUME JobInv, TypeOK', NEW s \in 0..job_count, Frame(s), Moves(s)
  PROVE  PipeOK'
<1>0. TypeOK /\ PipeOK /\ GoneStays /\ PipeSub /\ npid <= npid' /\ npid \in Nat /\ npid' \in Nat
  BY NPIDAssumption DEF JobInv, Frame, TypeOK
<1>1. PICK d \in {0, 1} : \A k \in DOMAIN pipe' : k \in Nat /\ k + d \in DOMAIN pipe /\ pipe'[k] = pipe[k + d]
  BY <1>0, PipeSubFacts
<1>2. \A k \in DOMAIN pipe' : pipe'[k] \in 1..npid'
  <2>1. \A x \in 1..npid : x \in 1..npid'
    BY <1>0
  <2> QED BY <1>0, <1>1, <2>1 DEF PipeOK
<1>3. \A i, j \in DOMAIN pipe' : pipe'[i] = pipe'[j] => i = j
  <2>1. \A i, j \in DOMAIN pipe' : pipe[i + d] = pipe[j + d] => i + d = j + d
    BY <1>0, <1>1 DEF PipeOK
  <2> QED BY <1>1, <2>1
<1>4. ASSUME NEW q \in DOMAIN pipe', NEW i \in 1..job_count', PidsOf(i)'[1] = pipe'[q]
      PROVE  /\ Over(i)'
             /\ jobs'[i].remaining <= 0 \/ (pc' = "shrink" /\ i = job_count' /\ i # cmd'.slot)
  <2>1. PICK k : k = Src(i, s)
    OBVIOUS
  <2>2. i \in Slots /\ k \in 1..job_count /\ k \in Slots
    BY <1>0, <2>1, SrcFacts
  <2>3. PidsOf(i)' = PidsOf(k) /\ jobs'[i].remaining = jobs[k].remaining
    BY <2>1 DEF Frame, SlotFrom
  <2>4. PidsOf(k)[1] = pipe[q + d] /\ q + d \in DOMAIN pipe
    BY <1>1, <1>4, <2>3
  <2>5. Over(k) /\ (jobs[k].remaining <= 0 \/ (pc = "shrink" /\ k = job_count /\ k # cmd.slot))
    BY <1>0, <2>2, <2>4 DEF PipeOK
  <2>6. Over(i)'
    BY <1>0, <2>2, <2>3, <2>5, OverStays
  <2> QED BY <2>1, <2>3, <2>5, <2>6, FrameTorn
<1> QED BY <1>2, <1>3, <1>4 DEF PipeOK

LEMMA FrameLaunched ==
  ASSUME JobInv, TypeOK', NEW s \in 0..job_count, Frame(s), Launched' => Launched /\ cmd'.pids = cmd.pids
  PROVE  LaunchedOK'
<1> SUFFICES ASSUME Launched'
             PROVE  /\ Proper(cmd.pids)'
                    /\ \A k \in DOMAIN pipe' : \A j \in DOMAIN cmd'.pids : cmd'.pids[j] # pipe'[k]
                    /\ \A i \in 1..job_count' : Apart(cmd.pids, PidsOf(i))'
  BY DEF LaunchedOK, Launched
<1>0. TypeOK /\ PipeSub /\ npid <= npid' /\ npid \in Nat /\ npid' \in Nat
  BY NPIDAssumption DEF JobInv, Frame, TypeOK
<1>1. /\ Proper(cmd.pids) /\ \A k \in DOMAIN pipe : \A j \in DOMAIN cmd.pids : cmd.pids[j] # pipe[k]
      /\ \A i \in 1..job_count : Apart(cmd.pids, PidsOf(i))
  BY DEF JobInv, LaunchedOK, Launched
<1>2. cmd'.pids = cmd.pids
  OBVIOUS
<1>3. Proper(cmd.pids)'
  <2>1. \A x \in 1..npid : x \in 1..npid'
    BY <1>0
  <2> QED BY <1>1, <1>2, <2>1 DEF Proper
<1>4. ASSUME NEW k \in DOMAIN pipe', NEW j \in DOMAIN cmd'.pids PROVE cmd'.pids[j] # pipe'[k]
  BY <1>0, <1>1, <1>2, PipeSubFacts
<1>5. ASSUME NEW i \in 1..job_count' PROVE Apart(cmd.pids, PidsOf(i))'
  <2>1. Src(i, s) \in 1..job_count /\ PidsOf(i)' = PidsOf(Src(i, s))
    BY <1>0, SrcFacts DEF Frame, SlotFrom
  <2> QED BY <1>1, <1>2, <2>1 DEF Apart
<1> QED BY <1>3, <1>4, <1>5

LEMMA FrameInv ==
  ASSUME JobInv, TypeOK', KernelOK', NEW s \in 0..job_count, Frame(s), Moves(s),
         Launched' => Launched /\ cmd'.pids = cmd.pids
  PROVE  JobInv'
  BY FrameTable, FrameCopy, FrameCount, FramePipe, FrameLaunched DEF JobInv


-----------------------------------------------------------------------------
(***************************************************************************)
(* The handler records the exit of p in slot i.                            *)
(***************************************************************************)
ExitRecorded(p, i, j) ==
  /\ i \in 1..job_count /\ j \in Listed(i, p) /\ \A k \in Matching(p) : i <= k
  /\ ks[p] = "dead" /\ ks' = [ks EXCEPT ![p] = "gone"]
  /\ \A k \in Slots \ {i} : SlotSame(k)
  /\ PidsOf(i)' = PidsOf(i) /\ jobs'[i].remaining = jobs[i].remaining - 1 /\ jobs'[i].count = jobs[i].count
  /\ ExitsOf(i)' \subseteq ExitsOf(i) \cup {j}
  /\ pipe' = (IF jobs[i].remaining - 1 = 0 THEN Append(pipe, PidsOf(i)[1]) ELSE pipe)
  /\ UNCHANGED <<npid, job_count, pc, cmd>>

LEMMA RecordedFacts ==
  ASSUME JobInv, TypeOK', NEW p \in Pids, NEW i, NEW j, ExitRecorded(p, i, j)
  PROVE  /\ i \in Slots /\ job_count \in Nat /\ \A k \in 1..job_count : k \in Slots /\ PidsOf(k)' = PidsOf(k)
         /\ j \in DOMAIN PidsOf(i) /\ PidsOf(i)[j] = p /\ j \in Left(i) /\ j \in 1..jobs[i].count
         /\ GoneStays /\ ks'[p] = "gone"
         /\ jobs[i].remaining \in Int /\ jobs[i].count \in Nat
<1>0. TypeOK
  BY DEF JobInv
<1>1. i \in Slots /\ job_count \in Nat /\ \A k \in 1..job_count : k \in Slots
  BY <1>0, SlotsInTable DEF ExitRecorded
<1>2. \A k \in 1..job_count : PidsOf(k)' = PidsOf(k)
  BY <1>1 DEF ExitRecorded, SlotSame
<1>3. j \in DOMAIN PidsOf(i) /\ PidsOf(i)[j] = p /\ j \in 1..jobs[i].count
  BY <1>0, <1>1, SlotType DEF ExitRecorded, Listed
<1>4. j \in Left(i)
  BY <1>3 DEF Left, ExitRecorded
<1>5. GoneStays /\ ks'[p] = "gone"
  BY <1>0 DEF GoneStays, ExitRecorded, TypeOK
<1> QED BY <1>0, <1>1, <1>2, <1>3, <1>4, <1>5, SlotType

LEMMA RecordedTable ==
  ASSUME JobInv, TypeOK', NEW p \in Pids, NEW i, NEW j, ExitRecorded(p, i, j)
  PROVE  TableOK' /\ MarkedOK'
<1>0. TypeOK /\ TableOK /\ MarkedOK /\ UNCHANGED <<npid, job_count, pc, cmd>>
  BY DEF JobInv, ExitRecorded
<1>1. /\ \A k \in 1..job_count : k \in Slots /\ PidsOf(k)' = PidsOf(k)
      /\ GoneStays /\ ks'[p] = "gone" /\ PidsOf(i)[j] = p /\ i \in Slots
  BY RecordedFacts
<1>2. TableOK'
  <2>1. \A k \in 1..job_count : Proper(PidsOf(k))'
    BY <1>0, <1>1 DEF TableOK, Proper
  <2>2. ASSUME NEW k \in 1..job_count, NEW l \in 1..job_count, Apart(PidsOf(k), PidsOf(l)) PROVE Apart(PidsOf(k), PidsOf(l))'
    BY <1>1, <2>2 DEF Apart
  <2> QED BY <1>0, <2>1, <2>2 DEF TableOK, Copied
<1>3. ASSUME NEW k \in 1..job_count, NEW l \in ExitsOf(k)' PROVE ks'[PidsOf(k)'[l]] = "gone"
  <2>1. CASE l \in ExitsOf(k)
    <3>1. l \in DOMAIN PidsOf(k) /\ PidsOf(k)[l] \in Pids /\ ks[PidsOf(k)[l]] = "gone"
      BY <1>0, <1>1, <2>1, SlotType DEF MarkedOK, ExitsOf
    <3> QED BY <1>1, <3>1 DEF GoneStays
  <2>2. CASE k = i /\ l = j
    BY <1>1, <2>2
  <2> QED BY <1>1, <1>3, <2>1, <2>2 DEF ExitRecorded, SlotSame
<1> QED BY <1>0, <1>2, <1>3 DEF MarkedOK

\* The slot being overwritten held a job that was over, so it is not slot i.
LEMMA RecordedCopy ==
  ASSUME JobInv, TypeOK', NEW p \in Pids, NEW i, NEW j, ExitRecorded(p, i, j)
  PROVE  CopyOK'
<1>0. TypeOK /\ CopyOK /\ UNCHANGED <<npid, job_count, pc, cmd>>
  BY DEF JobInv, ExitRecorded
<1>1. /\ \A k \in 1..job_count : k \in Slots /\ PidsOf(k)' = PidsOf(k)
      /\ GoneStays /\ j \in Left(i) /\ i \in Slots /\ job_count \in Nat
  BY RecordedFacts
<1>2. \A k \in 1..job_count : jobs'[k].count = jobs[k].count
  BY <1>1 DEF ExitRecorded, SlotSame
<1>3. ASSUME pc \in CopyPcs PROVE cmd.slot \in 1..job_count /\ job_count \in 1..job_count
  BY <1>0, <1>1, <1>3 DEF CopyOK, CopyPcs
<1>4. ASSUME pc = "copy" PROVE Over(cmd.slot)' /\ jobs'[cmd'.slot].remaining <= 0
  <2>1. PICK k : k = cmd.slot
    OBVIOUS
  <2>2. k \in 1..job_count /\ Over(k) /\ jobs[k].remaining <= 0
    BY <1>0, <1>3, <1>4, <2>1 DEF CopyOK, CopyPcs
  <2>3. k # i
    BY <1>1, <2>2 DEF Over
  <2>4. jobs'[k].remaining <= 0 /\ Over(k)'
    BY <1>0, <1>1, <2>2, <2>3, OverStays DEF ExitRecorded, SlotSame
  <2> QED BY <1>0, <2>1, <2>4 DEF Over, Left, PidsOf
<1>5. ASSUME Copied PROVE PidsOf(cmd.slot)' = PidsOf(job_count)'
  <2>1. PICK k, c : k = cmd.slot /\ c = job_count
    OBVIOUS
  <2>2. PidsOf(k)' = PidsOf(k) /\ PidsOf(c)' = PidsOf(c) /\ PidsOf(k) = PidsOf(c)
    BY <1>0, <1>1, <1>3, <1>5, <2>1 DEF CopyOK, Copied, CopyPcs
  <2> QED BY <1>0, <2>1, <2>2 DEF PidsOf
<1>6. ASSUME pc = "shrink" PROVE jobs'[cmd'.slot].count = jobs'[job_count'].count
  BY <1>0, <1>2, <1>3, <1>6 DEF CopyOK, CopyPcs
<1> QED BY <1>0, <1>3, <1>4, <1>5, <1>6 DEF CopyOK, Copied, CopyPcs

\* The process leaves the set of those not collected as it leaves the count.
LEMMA RecordedCount ==
  ASSUME JobInv, TypeOK', NEW p \in Pids, NEW i, NEW j, ExitRecorded(p, i, j)
  PROVE  CountOK' /\ (~Torn(i) => Cardinality(Left(i)') <= jobs[i].remaining - 1 /\ Cardinality(Left(i)') \in Nat)
<1>0. TypeOK /\ CountOK /\ i \in 1..job_count /\ UNCHANGED <<npid, job_count, pc, cmd>>
  BY DEF JobInv, ExitRecorded
<1>1. /\ \A k \in 1..job_count : k \in Slots /\ PidsOf(k)' = PidsOf(k)
      /\ GoneStays /\ j \in Left(i) /\ i \in Slots /\ PidsOf(i)[j] = p /\ ks'[p] = "gone"
      /\ jobs[i].remaining \in Int
  BY RecordedFacts
<1>2. \A k \in 1..job_count : Torn(k)' <=> Torn(k)
  BY <1>0 DEF Torn
<1>3. ASSUME NEW k \in 1..job_count, k # i
      PROVE  IF Torn(k) THEN jobs'[k].remaining <= 0 ELSE jobs'[k].remaining >= Cardinality(Left(k)')
  <2>1. jobs'[k].remaining = jobs[k].remaining /\ jobs[k].remaining \in Int
    BY <1>0, <1>1, <1>3, SlotType DEF ExitRecorded, SlotSame
  <2>2. Cardinality(Left(k)') <= Cardinality(Left(k)) /\ Cardinality(Left(k)') \in Nat /\ Cardinality(Left(k)) \in Nat
    BY <1>0, <1>1, LeftShrinks, LeftFinite
  <2>3. IF Torn(k) THEN jobs[k].remaining <= 0 ELSE jobs[k].remaining >= Cardinality(Left(k))
    BY <1>0 DEF CountOK
  <2> QED BY <2>1, <2>2, <2>3
<1>4. Cardinality(Left(i)') <= Cardinality(Left(i)) - 1 /\ Cardinality(Left(i)') \in Nat /\ Cardinality(Left(i)) \in Nat
  <2>1. PICK L : L = Left(i)'
    OBVIOUS
  <2>2. L \subseteq Left(i)
    BY <1>0, <1>1, <2>1, LeftShrinks
  <2>3. j \notin L
    BY <1>0, <1>1, <2>1 DEF Left
  <2>4. L \in SUBSET (Left(i) \ {j})
    BY <2>2, <2>3
  <2>5. IsFiniteSet(Left(i)) /\ Cardinality(Left(i)) \in Nat
    BY <1>0, <1>1, LeftFinite
  <2>6. IsFiniteSet(Left(i) \ {j}) /\ Cardinality(Left(i) \ {j}) = Cardinality(Left(i)) - 1
    BY <1>1, <2>5, FS_RemoveElement
  <2>7. Cardinality(L) <= Cardinality(Left(i) \ {j}) /\ Cardinality(L) \in Nat
    BY <2>4, <2>6, FS_Subset, FS_CardinalityType
  <2> QED BY <2>1, <2>5, <2>6, <2>7
<1>5. IF Torn(i) THEN jobs[i].remaining <= 0 ELSE jobs[i].remaining >= Cardinality(Left(i))
  BY <1>0, <1>1 DEF CountOK
<1>6. jobs'[i].remaining = jobs[i].remaining - 1
  BY DEF ExitRecorded
<1>7. IF Torn(i) THEN jobs'[i].remaining <= 0
                 ELSE jobs'[i].remaining >= Cardinality(Left(i)') /\ Cardinality(Left(i)') <= jobs[i].remaining - 1
  BY <1>1, <1>4, <1>5, <1>6
<1>8. ASSUME NEW k \in 1..job_count'
      PROVE  IF Torn(k)' THEN jobs'[k].remaining <= 0 ELSE jobs'[k].remaining >= Cardinality(Left(k)')
  <2>1. k \in 1..job_count
    BY <1>0
  <2>2. CASE k = i
    BY <1>2, <1>7, <2>1, <2>2
  <2> QED BY <1>2, <1>3, <2>1, <2>2
<1>9. CountOK'
  BY <1>8 DEF CountOK
<1> QED BY <1>4, <1>7, <1>9


\* In the last stage of the copy the slot written comes first, so the exit is
\* not recorded in the slot that is about to be dropped.
LEMMA RecordedNotLast ==
  ASSUME JobInv, TypeOK', NEW p \in Pids, NEW i, NEW j, ExitRecorded(p, i, j), pc = "shrink", cmd.slot # job_count
  PROVE  i # job_count
<1> SUFFICES ASSUME i = job_count PROVE FALSE
  OBVIOUS
<1>0. TypeOK /\ CopyOK /\ MarkedOK /\ \A k \in Matching(p) : i <= k
  BY DEF JobInv, ExitRecorded
<1>1. j \in Left(i) /\ PidsOf(i)[j] = p /\ j \in 1..jobs[i].count /\ job_count \in Nat
  BY RecordedFacts
<1>2. PICK k : k = cmd.slot
  OBVIOUS
<1>3. k \in 1..job_count /\ PidsOf(k) = PidsOf(i) /\ jobs[k].count = jobs[i].count /\ k \in Slots
  BY <1>0, <1>2, SlotsInTable DEF CopyOK, Copied
<1>4. j \in Left(k) /\ j \in DOMAIN jobs[k].procs /\ jobs[k].procs[j].pid = p
  BY <1>0, <1>1, <1>3, SlotType DEF Left
<1>5. ~jobs[k].procs[j].exited
  BY <1>0, <1>3, <1>4 DEF MarkedOK, ExitsOf, Left
<1>6. k \in Matching(p)
  BY <1>1, <1>3, <1>4, <1>5 DEF Matching, Listed
<1> QED BY <1>0, <1>1, <1>2, <1>3, <1>6

\* Another slot with the leader of slot i is its copy.
LEMMA RecordedTwin ==
  ASSUME JobInv, TypeOK', NEW p \in Pids, NEW i, NEW j, ExitRecorded(p, i, j), NEW k \in 1..job_count, k # i,
         PidsOf(k)[1] = PidsOf(i)[1], ~Torn(i)
  PROVE  /\ PidsOf(k) = PidsOf(i)
         /\ jobs[k].remaining <= 0 \/ (pc = "shrink" /\ k = job_count /\ k # cmd.slot)
<1>0. TypeOK /\ TableOK /\ CopyOK /\ CountOK /\ i \in 1..job_count
  BY DEF JobInv, ExitRecorded
<1>1. k \in Slots /\ i \in Slots
  BY <1>0, SlotsInTable
<1>2. 1 \in DOMAIN PidsOf(k) /\ 1 \in DOMAIN PidsOf(i)
  <2>1. \A l \in 1..job_count : l \in Slots => 1 \in DOMAIN PidsOf(l)
    <3>1. SUFFICES ASSUME NEW l \in 1..job_count, l \in Slots PROVE 1 \in DOMAIN PidsOf(l)
      OBVIOUS
    <3>2. PidsOf(l) \in Seq(Pids) /\ PidsOf(l) # <<>>
      BY <1>0, <3>1, SlotType DEF TableOK, Proper
    <3> QED BY <3>2, EmptySeq, LenProperties
  <2> QED BY <1>0, <1>1, <2>1
<1>3. Copied /\ {i, k} = {cmd.slot, job_count}
  BY <1>0, <1>2 DEF TableOK, Apart
<1>4. PidsOf(k) = PidsOf(i)
  BY <1>0, <1>3 DEF CopyOK
<1>5. CASE pc = "copyrest"
  <2>1. Torn(k)
    BY <1>3, <1>5 DEF Torn
  <2> QED BY <1>0, <1>4, <2>1 DEF CountOK
<1>6. CASE pc = "shrink"
  <2>1. i # job_count
    BY <1>3, <1>6, RecordedNotLast
  <2> QED BY <1>3, <1>4, <1>6, <2>1
<1> QED BY <1>3, <1>5, <1>6 DEF Copied

LEMMA RecordedPipe ==
  ASSUME JobInv, TypeOK', NEW p \in Pids, NEW i, NEW j, ExitRecorded(p, i, j)
  PROVE  PipeOK'
<1>0. /\ TypeOK /\ TableOK /\ PipeOK /\ CountOK /\ i \in 1..job_count /\ UNCHANGED <<npid, job_count, pc, cmd>>
      /\ \A k \in Slots \ {i} : SlotSame(k)
  BY DEF JobInv, ExitRecorded
<1>1. /\ \A k \in 1..job_count : k \in Slots /\ PidsOf(k)' = PidsOf(k)
      /\ GoneStays /\ j \in Left(i) /\ i \in Slots /\ jobs[i].remaining \in Int
  BY RecordedFacts
<1>2. \A q \in DOMAIN pipe : PidsOf(i)[1] # pipe[q]
  BY <1>0, <1>1 DEF PipeOK, Over
<1>3. ASSUME NEW q \in DOMAIN pipe, NEW k \in 1..job_count, PidsOf(k)[1] = pipe[q]
      PROVE  Over(k)' /\ (jobs'[k].remaining <= 0 \/ (pc = "shrink" /\ k = job_count /\ k # cmd.slot))
  <2>1. k # i /\ k \in Slots
    BY <1>1, <1>2, <1>3
  <2>2. Over(k) /\ (jobs[k].remaining <= 0 \/ (pc = "shrink" /\ k = job_count /\ k # cmd.slot))
    BY <1>0, <1>3 DEF PipeOK
  <2>3. Over(k)'
    BY <1>0, <1>1, <2>1, <2>2, OverStays
  <2> QED BY <1>0, <2>1, <2>2, <2>3 DEF SlotSame
<1>4. CASE jobs[i].remaining - 1 # 0
  <2>1. pipe' = pipe
    BY <1>4 DEF ExitRecorded
  <2> QED BY <1>0, <1>1, <1>3, <2>1 DEF PipeOK
<1>5. CASE jobs[i].remaining - 1 = 0
  <2> DEFINE x == PidsOf(i)[1]
             n == Len(pipe) + 1
  <2>1. pipe' = Append(pipe, x)
    BY <1>5 DEF ExitRecorded
  <2>2. x \in 1..npid
    <3>1. PidsOf(i) \in Seq(Pids) /\ Proper(PidsOf(i))
      BY <1>0, <1>1, SlotType DEF TableOK
    <3>2. 1 \in DOMAIN PidsOf(i)
      BY <3>1, EmptySeq, LenProperties DEF Proper
    <3> QED BY <3>1, <3>2 DEF Proper
  <2>3. ~Torn(i)
    BY <1>0, <1>1, <1>5 DEF CountOK
  <2>4. Over(i)' /\ jobs'[i].remaining <= 0
    <3>1. Cardinality(Left(i)') <= 0 /\ Cardinality(Left(i)') \in Nat
      BY <1>1, <1>5, <2>3, RecordedCount
    <3>2. IsFiniteSet(Left(i)')
      <4>1. Left(i)' \in SUBSET Left(i)
        BY <1>0, <1>1, LeftShrinks
      <4> QED BY <1>0, <1>1, <4>1, LeftFinite, FS_Subset
    <3>3. jobs'[i].remaining = 0
      BY <1>5 DEF ExitRecorded
    <3> QED BY <3>1, <3>2, <3>3, FS_EmptySet DEF Over
  <2> HIDE DEF x
  <2>5. /\ DOMAIN pipe' = 1..n /\ DOMAIN pipe = 1..(n - 1) /\ n \in Nat /\ n >= 1
        /\ \A q \in DOMAIN pipe : pipe'[q] = pipe[q] /\ q # n
        /\ pipe'[n] = x
    <3>1. pipe \in Seq(Pids) /\ DOMAIN pipe = 1..Len(pipe) /\ Len(pipe) \in Nat
      BY <1>0, LenProperties DEF TypeOK
    <3> QED BY <2>1, <3>1
  <2> HIDE DEF n
  <2>6. \A q \in DOMAIN pipe' : q \in DOMAIN pipe \/ q = n
    BY <2>5
  <2>7. \A q \in DOMAIN pipe' : pipe'[q] \in 1..npid
    BY <1>0, <2>2, <2>5, <2>6 DEF PipeOK
  <2>8. \A q, r \in DOMAIN pipe' : pipe'[q] = pipe'[r] => q = r
    BY <1>0, <1>2, <2>5, <2>6 DEF PipeOK, x
  <2>9. ASSUME NEW k \in 1..job_count, PidsOf(k)[1] = x
        PROVE  Over(k)' /\ (jobs'[k].remaining <= 0 \/ (pc = "shrink" /\ k = job_count /\ k # cmd.slot))
    <3>1. CASE k = i
      BY <2>4, <3>1
    <3>2. CASE k # i
      <4>1. PidsOf(k) = PidsOf(i) /\ (jobs[k].remaining <= 0 \/ (pc = "shrink" /\ k = job_count /\ k # cmd.slot))
        BY <2>3, <2>9, <3>2, RecordedTwin DEF x
      <4>2. PidsOf(k)' = PidsOf(i)'
        BY <1>0, <1>1, <4>1
      <4>3. Over(k)'
        BY <2>4, <4>2 DEF Over, Left
      <4> QED BY <1>0, <1>1, <3>2, <4>1, <4>3 DEF SlotSame
    <3> QED BY <3>1, <3>2
  <2>10. ASSUME NEW q \in DOMAIN pipe', NEW k \in 1..job_count, PidsOf(k)[1] = pipe'[q]
         PROVE  Over(k)' /\ (jobs'[k].remaining <= 0 \/ (pc = "shrink" /\ k = job_count /\ k # cmd.slot))
    <3>1. CASE q \in DOMAIN pipe
      BY <1>3, <2>5, <2>10, <3>1
    <3>2. CASE q = n
      BY <2>5, <2>9, <2>10, <3>2
    <3> QED BY <2>6, <3>1, <3>2
  <2> QED BY <1>0, <1>1, <2>7, <2>8, <2>10 DEF PipeOK
<1> QED BY <1>4, <1>5

LEMMA RecordedInv ==
  ASSUME JobInv, TypeOK', KernelOK', NEW p \in Pids, NEW i, NEW j, ExitRecorded(p, i, j)
  PROVE  JobInv'
<1>1. LaunchedOK'
  <2>0. TypeOK /\ TableOK /\ LaunchedOK /\ i \in 1..job_count /\ UNCHANGED <<npid, job_count, pc, cmd>>
    BY DEF JobInv, ExitRecorded
  <2>1. i \in Slots /\ \A k \in 1..job_count : PidsOf(k)' = PidsOf(k)
    BY RecordedFacts
  <2> SUFFICES ASSUME Launched
               PROVE  /\ Proper(cmd.pids)'
                      /\ \A k \in DOMAIN pipe' : \A l \in DOMAIN cmd.pids : cmd.pids[l] # pipe'[k]
                      /\ \A k \in 1..job_count : Apart(cmd.pids, PidsOf(k))'
    BY <2>0 DEF LaunchedOK, Launched
  <2>2. /\ Proper(cmd.pids) /\ \A k \in DOMAIN pipe : \A l \in DOMAIN cmd.pids : cmd.pids[l] # pipe[k]
        /\ \A k \in 1..job_count : Apart(cmd.pids, PidsOf(k))
    BY <2>0 DEF LaunchedOK, Launched
  <2>3. 1 \in DOMAIN PidsOf(i)
    BY <2>0, <2>1, SlotType, EmptySeq, LenProperties DEF TableOK, Proper
  <2>4. \A l \in DOMAIN cmd.pids : cmd.pids[l] # PidsOf(i)[1]
    BY <2>0, <2>2, <2>3 DEF Apart
  <2>5. \A k \in DOMAIN pipe' : (k \in DOMAIN pipe /\ pipe'[k] = pipe[k]) \/ pipe'[k] = PidsOf(i)[1]
    <3>1. pipe \in Seq(Pids) /\ DOMAIN pipe = 1..Len(pipe) /\ Len(pipe) \in Nat
      BY <2>0, LenProperties DEF TypeOK
    <3> QED BY <3>1 DEF ExitRecorded
  <2>6. Proper(cmd.pids)' /\ \A k \in 1..job_count : Apart(cmd.pids, PidsOf(k))'
    BY <2>0, <2>1, <2>2 DEF Proper, Apart
  <2> QED BY <2>2, <2>4, <2>5, <2>6
<1> QED BY <1>1, RecordedTable, RecordedCopy, RecordedCount, RecordedPipe DEF JobInv


-----------------------------------------------------------------------------
(***************************************************************************)
(* A job is added as slot n.                                               *)
(***************************************************************************)
Added(n, pids) ==
  /\ n = job_count + 1 /\ job_count' = n /\ pids \in Seq(Pids)
  /\ PidsOf(n)' = pids /\ jobs'[n].remaining = Len(pids) /\ ExitsOf(n)' = {}
  /\ \A k \in 1..job_count : SlotSame(k)
  /\ GoneStays /\ npid <= npid' /\ pipe' = pipe
  /\ pc \notin CopyPcs /\ pc' \notin CopyPcs /\ ~Launched'

\* Its processes are new to the table and to the pipe.
Fresh(pids) ==
  /\ pids # <<>> /\ \A j \in DOMAIN pids : pids[j] \in 1..npid'
  /\ \A j, k \in DOMAIN pids : pids[j] = pids[k] => j = k
  /\ \A k \in 1..job_count : Apart(pids, PidsOf(k))
  /\ \A q \in DOMAIN pipe : \A j \in DOMAIN pids : pids[j] # pipe[q]

LEMMA AddedInv ==
  ASSUME JobInv, TypeOK', KernelOK', NEW n, NEW pids, Added(n, pids), Fresh(pids)
  PROVE  JobInv'
<1>0. /\ TypeOK /\ TableOK /\ MarkedOK /\ CountOK /\ PipeOK /\ GoneStays
      /\ npid <= npid' /\ npid \in Nat /\ npid' \in Nat
      /\ pids \in Seq(Pids) /\ DOMAIN pids = 1..Len(pids) /\ Len(pids) \in Nat /\ pids # <<>>
  BY NPIDAssumption, LenProperties DEF JobInv, TypeOK, Added, Fresh
<1>1. /\ n = job_count + 1 /\ job_count' = n /\ job_count \in Nat /\ n \in 1..job_count' /\ n \in Slots
      /\ \A k \in 1..job_count' : k \in Slots /\ (k \in 1..job_count \/ k = n)
      /\ \A k \in 1..job_count : k # n /\ k \in 1..job_count' /\ k \in Slots
  <2>1. n = job_count + 1 /\ job_count' = n /\ job_count \in 0..MAX_JOBS /\ job_count' \in 0..MAX_JOBS
    BY <1>0 DEF Added, TypeOK
  <2> QED BY <2>1, MaxJobsAssumption DEF Slots
<1>2. /\ PidsOf(n)' = pids /\ jobs'[n].remaining = Len(pids) /\ ExitsOf(n)' = {}
      /\ \A k \in 1..job_count : /\ PidsOf(k)' = PidsOf(k) /\ jobs'[k].remaining = jobs[k].remaining
                                 /\ ExitsOf(k)' = ExitsOf(k)
      /\ pipe' = pipe
  BY DEF Added, SlotSame
<1>3. pc \notin CopyPcs /\ pc' \notin CopyPcs /\ ~Copied /\ ~Copied' /\ \A k : ~Torn(k) /\ ~Torn(k)'
  BY DEF Added, CopyPcs, Copied, Torn
<1>4. \A x \in 1..npid : x \in 1..npid'
  BY <1>0
<1>5. \A k \in 1..job_count' : Proper(PidsOf(k))'
  <2>1. Proper(PidsOf(n))'
    BY <1>2 DEF Fresh, Proper
  <2>2. ASSUME NEW k \in 1..job_count PROVE Proper(PidsOf(k))'
    BY <1>0, <1>2, <1>4 DEF TableOK, Proper
  <2> QED BY <1>1, <2>1, <2>2
<1>6. ASSUME NEW i \in 1..job_count', NEW k \in 1..job_count', i # k PROVE Apart(PidsOf(i), PidsOf(k))'
  <2>1. ASSUME NEW a \in 1..job_count PROVE Apart(PidsOf(n), PidsOf(a))' /\ Apart(PidsOf(a), PidsOf(n))'
    BY <1>2, <2>1 DEF Fresh, Apart
  <2>2. ASSUME NEW a \in 1..job_count, NEW b \in 1..job_count, a # b PROVE Apart(PidsOf(a), PidsOf(b))'
    <3>1. Apart(PidsOf(a), PidsOf(b))
      BY <1>0, <1>3, <2>2 DEF TableOK
    <3> QED BY <1>2, <3>1 DEF Apart
  <2> QED BY <1>1, <1>6, <2>1, <2>2
<1>7. TableOK'
  BY <1>5, <1>6 DEF TableOK
<1>8. MarkedOK'
  <2>1. ASSUME NEW k \in 1..job_count, NEW j \in ExitsOf(k)' PROVE ks'[PidsOf(k)'[j]] = "gone"
    <3>1. j \in DOMAIN PidsOf(k) /\ PidsOf(k)[j] \in Pids /\ ks[PidsOf(k)[j]] = "gone"
      BY <1>0, <1>1, <1>2, <2>1, SlotType DEF MarkedOK, ExitsOf
    <3> QED BY <1>0, <1>2, <3>1 DEF GoneStays
  <2> QED BY <1>1, <1>2, <2>1 DEF MarkedOK
<1>9. CopyOK'
  BY <1>3 DEF CopyOK, CopyPcs
<1>10. CountOK'
  <2>1. jobs'[n].remaining >= Cardinality(Left(n)')
    <3>1. Left(n)' \in SUBSET (1..Len(pids))
      <4>1. Left(n)' \subseteq DOMAIN PidsOf(n)'
        BY DEF Left
      <4> QED BY <1>0, <1>2, <4>1
    <3>2. IsFiniteSet(1..Len(pids)) /\ Cardinality(1..Len(pids)) = Len(pids)
      <4>1. PICK m \in Nat : m = Len(pids)
        BY <1>0
      <4>2. IsFiniteSet(1..m) /\ Cardinality(1..m) = (IF 1 > m THEN 0 ELSE m - 1 + 1)
        BY FS_Interval
      <4> QED BY <4>1, <4>2
    <3> QED BY <1>2, <3>1, <3>2, FS_Subset
  <2>2. ASSUME NEW k \in 1..job_count PROVE jobs'[k].remaining >= Cardinality(Left(k)')
    <3>1. Cardinality(Left(k)') <= Cardinality(Left(k)) /\ Cardinality(Left(k)') \in Nat /\ Cardinality(Left(k)) \in Nat
      BY <1>0, <1>1, <1>2, LeftShrinks, LeftFinite
    <3>2. jobs[k].remaining >= Cardinality(Left(k)) /\ jobs[k].remaining \in Int
      BY <1>0, <1>1, <1>3, SlotType DEF CountOK
    <3> QED BY <1>2, <3>1, <3>2
  <2> QED BY <1>1, <1>3, <2>1, <2>2 DEF CountOK
<1>11. PipeOK'
  <2>1. 1 \in DOMAIN pids
    BY <1>0, EmptySeq
  <2>2. \A q \in DOMAIN pipe : PidsOf(n)'[1] # pipe[q]
    BY <1>2, <2>1 DEF Fresh
  <2>3. ASSUME NEW q \in DOMAIN pipe, NEW k \in 1..job_count, PidsOf(k)'[1] = pipe[q]
        PROVE  Over(k)' /\ jobs'[k].remaining <= 0
    <3>1. Over(k) /\ jobs[k].remaining <= 0
      BY <1>0, <1>2, <1>3, <2>3 DEF PipeOK, CopyPcs
    <3> QED BY <1>0, <1>1, <1>2, <3>1, OverStays
  <2>4. \A q \in DOMAIN pipe : pipe[q] \in 1..npid'
    BY <1>0, <1>4 DEF PipeOK
  <2>5. \A i, j \in DOMAIN pipe : pipe[i] = pipe[j] => i = j
    BY <1>0 DEF PipeOK
  <2> QED BY <1>1, <1>2, <2>2, <2>3, <2>4, <2>5 DEF PipeOK
<1>12. LaunchedOK'
  BY DEF Added, Launched, LaunchedOK
<1> QED BY <1>7, <1>8, <1>9, <1>10, <1>11, <1>12 DEF JobInv


-----------------------------------------------------------------------------
(***************************************************************************)
(* The structure copy of the drain, interrupted between its two halves.    *)
(***************************************************************************)
LEMMA JoinedSlot ==
  ASSUME TypeOK, NEW i \in Slots, NEW a \in Slots, NEW b \in Slots, jobs' = [jobs EXCEPT ![i] = Joined(jobs[a], jobs[b])]
  PROVE  /\ jobs' \in [Slots -> JobRecs] /\ \A k \in Slots \ {i} : SlotSame(k)
         /\ PidsOf(i)' = PidsOf(a) /\ ExitsOf(i)' = ExitsOf(a)
         /\ jobs'[i].remaining = jobs[b].remaining /\ jobs'[i].count = jobs[b].count
<1>0. jobs[a] \in JobRecs /\ jobs[b] \in JobRecs
  BY SlotType
<1>1. PICK y : y = Joined(jobs[a], jobs[b])
  OBVIOUS
<1>2. y \in JobRecs /\ y.procs = jobs[a].procs /\ y.count = jobs[b].count /\ y.remaining = jobs[b].remaining
  BY <1>0, <1>1 DEF JobRecs, Joined
<1>3. jobs' = [jobs EXCEPT ![i] = y]
  BY <1>1
<1>4. /\ jobs' \in [Slots -> JobRecs] /\ \A k \in Slots \ {i} : SlotSame(k)
      /\ PidsOf(i)' = [k \in DOMAIN y.procs |-> y.procs[k].pid] /\ jobs'[i] = y
  BY <1>2, <1>3, SlotUpdate
<1> QED BY <1>2, <1>4 DEF PidsOf, ExitsOf

LEMMA CopyFirstInv ==
  ASSUME JobInv, DrainCopyFirst
  PROVE  JobInv'
<1>0. /\ TypeOK /\ KernelOK /\ TableOK /\ MarkedOK /\ CopyOK /\ CountOK /\ PipeOK
      /\ pc = "copy" /\ pc' = "copyrest" /\ UNCHANGED <<cmd, job_count, pipe, npid, ks, rep>>
  BY DEF JobInv, DrainCopyFirst, kernelVars
<1>1. PICK s, c : s = cmd.slot /\ c = job_count
  OBVIOUS
<1>2. /\ s \in 1..job_count /\ c \in 1..job_count /\ c \in Nat /\ \A k \in 1..job_count : k \in Slots
      /\ Over(s) /\ jobs[s].remaining <= 0
  BY <1>0, <1>1, SlotsInTable DEF CopyOK
<1>3. /\ jobs' \in [Slots -> JobRecs] /\ \A k \in Slots \ {s} : SlotSame(k)
      /\ PidsOf(s)' = PidsOf(c) /\ ExitsOf(s)' = ExitsOf(c)
      /\ jobs'[s].remaining = jobs[s].remaining /\ jobs'[s].count = jobs[s].count
  <2>1. jobs' = [jobs EXCEPT ![s] = Joined(jobs[c], jobs[s])]
    BY <1>1 DEF DrainCopyFirst
  <2> QED BY <1>0, <1>2, <2>1, JoinedSlot
<1>4. TypeOK' /\ KernelOK'
  BY <1>0, <1>3 DEF TypeOK, KernelOK, DrainCopyFirst, kernelVars, PcNames
<1>5. \A k \in 1..job_count : k # s => PidsOf(k)' = PidsOf(k) /\ jobs'[k].remaining = jobs[k].remaining /\ ExitsOf(k)' = ExitsOf(k)
  BY <1>2, <1>3 DEF SlotSame
<1>6. ~Copied /\ Copied' /\ \A k : ~Torn(k) /\ (Torn(k)' <=> k = s /\ k # c)
  BY <1>0, <1>1 DEF Copied, Torn
<1>7. TableOK'
  <2>1. ASSUME NEW k \in 1..job_count PROVE Proper(PidsOf(k))'
    <3>1. Proper(PidsOf(k)) /\ Proper(PidsOf(c))
      BY <1>0, <1>2 DEF TableOK
    <3> QED BY <1>0, <1>3, <1>5, <3>1 DEF Proper
  <2>2. ASSUME NEW i \in 1..job_count, NEW k \in 1..job_count, i # k, {i, k} # {s, c} PROVE Apart(PidsOf(i), PidsOf(k))'
    <3>1. \A a, b \in 1..job_count : a # b => Apart(PidsOf(a), PidsOf(b))
      BY <1>0, <1>6 DEF TableOK
    <3>2. CASE i # s /\ k # s
      BY <1>5, <2>2, <3>1, <3>2 DEF Apart
    <3>3. CASE i = s
      BY <1>2, <1>3, <1>5, <2>2, <3>1, <3>3 DEF Apart
    <3>4. CASE k = s
      BY <1>2, <1>3, <1>5, <2>2, <3>1, <3>4 DEF Apart
    <3> QED BY <3>2, <3>3, <3>4
  <2> QED BY <1>0, <1>1, <1>6, <2>1, <2>2 DEF TableOK
<1>8. MarkedOK'
  BY <1>0, <1>2, <1>3, <1>5 DEF MarkedOK
<1>9. CopyOK'
  <2>1. PidsOf(s)' = PidsOf(c)'
    BY <1>2, <1>3, <1>5
  <2>2. PidsOf(cmd.slot)' = PidsOf(job_count)'
    BY <1>0, <1>1, <2>1 DEF PidsOf
  <2> QED BY <1>0, <1>1, <1>2, <2>2 DEF CopyOK
<1>10. \A k \in 1..job_count : k # s => Left(k)' = Left(k)
  BY <1>0, <1>5 DEF Left
<1>11. Left(s)' = Left(c)
  BY <1>0, <1>3 DEF Left
<1>12. CountOK'
  <2>1. ASSUME NEW k \in 1..job_count, k # s PROVE jobs'[k].remaining >= Cardinality(Left(k)')
    BY <1>0, <1>5, <1>6, <1>10, <2>1 DEF CountOK
  <2>2. CASE s # c
    BY <1>0, <1>2, <1>3, <1>6, <2>1, <2>2 DEF CountOK
  <2>3. CASE s = c
    <3>1. jobs'[s].remaining >= Cardinality(Left(s)')
      BY <1>0, <1>2, <1>3, <1>6, <1>11, <2>3 DEF CountOK
    <3> QED BY <1>0, <1>6, <2>1, <2>3, <3>1 DEF CountOK
  <2> QED BY <2>2, <2>3
<1>13. PipeOK'
  <2>1. ASSUME NEW q \in DOMAIN pipe, NEW k \in 1..job_count, PidsOf(k)'[1] = pipe[q]
        PROVE  Over(k)' /\ jobs'[k].remaining <= 0
    <3>1. CASE k # s
      BY <1>0, <1>5, <1>10, <2>1, <3>1 DEF PipeOK, Over
    <3>2. CASE k = s
      BY <1>0, <1>2, <1>3, <1>11, <2>1, <3>2 DEF PipeOK, Over
    <3> QED BY <3>1, <3>2
  <2> QED BY <1>0, <2>1 DEF PipeOK
<1>14. LaunchedOK'
  BY <1>0 DEF LaunchedOK
<1> QED BY <1>4, <1>7, <1>8, <1>9, <1>12, <1>13, <1>14 DEF JobInv

LEMMA CopyRestInv ==
  ASSUME JobInv, DrainCopyRest
  PROVE  JobInv'
<1>0. /\ TypeOK /\ KernelOK /\ TableOK /\ MarkedOK /\ CopyOK /\ CountOK /\ PipeOK
      /\ pc = "copyrest" /\ pc' = "shrink" /\ UNCHANGED <<cmd, job_count, pipe, npid, ks, rep>>
  BY DEF JobInv, DrainCopyRest, kernelVars
<1>1. PICK s, c : s = cmd.slot /\ c = job_count
  OBVIOUS
<1>2. /\ s \in 1..job_count /\ c \in 1..job_count /\ c \in Nat /\ \A k \in 1..job_count : k \in Slots
      /\ PidsOf(s) = PidsOf(c)
  BY <1>0, <1>1, SlotsInTable DEF CopyOK, Copied
<1>3. /\ jobs' \in [Slots -> JobRecs] /\ \A k \in Slots \ {s} : SlotSame(k)
      /\ PidsOf(s)' = PidsOf(s) /\ ExitsOf(s)' = ExitsOf(s)
      /\ jobs'[s].remaining = jobs[c].remaining /\ jobs'[s].count = jobs[c].count
  <2>1. jobs' = [jobs EXCEPT ![s] = Joined(jobs[s], jobs[c])]
    BY <1>1 DEF DrainCopyRest
  <2> QED BY <1>0, <1>2, <2>1, JoinedSlot
<1>4. TypeOK' /\ KernelOK'
  BY <1>0, <1>3 DEF TypeOK, KernelOK, DrainCopyRest, kernelVars, PcNames
<1>5. /\ \A k \in 1..job_count : PidsOf(k)' = PidsOf(k) /\ ExitsOf(k)' = ExitsOf(k)
      /\ \A k \in 1..job_count : k # s => jobs'[k].remaining = jobs[k].remaining /\ jobs'[k].count = jobs[k].count
  BY <1>2, <1>3 DEF SlotSame
<1>6. Copied /\ Copied' /\ \A k : ~Torn(k)' /\ (Torn(k) <=> k = s /\ k # c)
  BY <1>0, <1>1 DEF Copied, Torn
<1>7. TableOK'
  <2>1. ASSUME NEW k \in 1..job_count PROVE Proper(PidsOf(k))'
    BY <1>0, <1>5 DEF TableOK, Proper
  <2>2. ASSUME NEW i \in 1..job_count, NEW k \in 1..job_count, i # k, {i, k} # {s, c} PROVE Apart(PidsOf(i), PidsOf(k))'
    <3>1. Apart(PidsOf(i), PidsOf(k))
      BY <1>0, <1>1, <2>2 DEF TableOK
    <3> QED BY <1>5, <3>1 DEF Apart
  <2> QED BY <1>0, <1>1, <1>6, <2>1, <2>2 DEF TableOK
<1>8. MarkedOK'
  BY <1>0, <1>5 DEF MarkedOK
<1>9. CopyOK'
  <2>1. PidsOf(s)' = PidsOf(c)' /\ jobs'[s].count = jobs'[c].count
    BY <1>2, <1>3, <1>5
  <2>2. PidsOf(cmd.slot)' = PidsOf(job_count)'
    BY <1>0, <1>1, <2>1 DEF PidsOf
  <2> QED BY <1>0, <1>1, <1>2, <2>1, <2>2 DEF CopyOK
<1>10. \A k \in 1..job_count : Left(k)' = Left(k)
  BY <1>0, <1>5 DEF Left
<1>11. Left(s) = Left(c)
  BY <1>2 DEF Left
<1>12. CountOK'
  <2>1. ASSUME NEW k \in 1..job_count, k # s PROVE jobs'[k].remaining >= Cardinality(Left(k)')
    BY <1>0, <1>5, <1>6, <1>10, <2>1 DEF CountOK
  <2>2. jobs'[s].remaining >= Cardinality(Left(s)')
    <3>1. jobs[c].remaining >= Cardinality(Left(c))
      BY <1>0, <1>2, <1>6 DEF CountOK
    <3> QED BY <1>2, <1>3, <1>10, <1>11, <3>1
  <2> QED BY <1>0, <1>6, <2>1, <2>2 DEF CountOK
<1>13. PipeOK'
  <2>1. ASSUME NEW q \in DOMAIN pipe, NEW k \in 1..job_count, PidsOf(k)'[1] = pipe[q]
        PROVE  Over(k)' /\ jobs'[k].remaining <= 0
    <3>1. Over(k) /\ jobs[k].remaining <= 0
      BY <1>0, <1>5, <2>1 DEF PipeOK
    <3>2. Over(k)'
      BY <1>10, <3>1 DEF Over
    <3>3. CASE k = s
      <4>1. PidsOf(c)[1] = pipe[q]
        BY <1>2, <1>5, <2>1, <3>3
      <4>2. jobs[c].remaining <= 0
        BY <1>0, <1>2, <4>1 DEF PipeOK
      <4> QED BY <1>3, <3>2, <3>3, <4>2
    <3> QED BY <1>5, <3>1, <3>2, <3>3
  <2> QED BY <1>0, <2>1 DEF PipeOK
<1>14. LaunchedOK'
  BY <1>0 DEF LaunchedOK
<1> QED BY <1>4, <1>7, <1>8, <1>9, <1>12, <1>13, <1>14 DEF JobInv


-----------------------------------------------------------------------------
(* The table under the steps that leave it alone or take a job out.         *)

LEMMA NothingTypes ==
  /\ NoSlot \in JobRecs /\ NoCmd \in Cmds /\ NoCmd.fg = FALSE
  /\ \A k \in 0..MAX_JOBS : [NoCmd EXCEPT !.slot = k] \in Cmds /\ [NoCmd EXCEPT !.slot = k].slot = k
<1>1. <<>> \in Seq(Proc) /\ <<>> \in Seq(Pids) /\ 0 \in 0..MAX_JOBS /\ FALSE \in BOOLEAN
  BY MaxJobsAssumption
<1>2. NoSlot \in JobRecs
  BY <1>1 DEF NoSlot, JobRecs, Shell
<1>3. NoCmd \in Cmds /\ NoCmd.fg = FALSE
  BY <1>1, Zenon DEF NoCmd, Cmds, Shell
<1>4. ASSUME NEW k \in 0..MAX_JOBS PROVE [NoCmd EXCEPT !.slot = k] \in Cmds /\ [NoCmd EXCEPT !.slot = k].slot = k
  BY <1>3 DEF Cmds
<1> QED BY <1>2, <1>3, <1>4

LEMMA SameTable ==
  ASSUME jobs' = jobs
  PROVE  \A k : SlotSame(k)
  BY DEF SlotSame, PidsOf, ExitsOf

LEMMA SameFrame ==
  ASSUME JobInv, \A k \in Slots : SlotSame(k), job_count' = job_count, GoneStays, npid <= npid', PipeSub
  PROVE  Frame(0) /\ 0 \in 0..job_count
<1>1. job_count \in Nat /\ \A k \in 1..job_count : k \in Slots
  BY SlotsInTable DEF JobInv
<1>2. \A k \in 1..job_count : SlotFrom(k, Src(k, 0))
  BY <1>1 DEF Src, SlotSame, SlotFrom
<1> QED BY <1>1, <1>2 DEF Frame

\* A step of the main loop, a child or the handler that leaves the table alone.
LEMMA QuietInv ==
  ASSUME JobInv, TypeOK', KernelOK', \A k \in Slots : SlotSame(k), UNCHANGED <<job_count, npid, pipe>>, GoneStays,
         Launched' => Launched /\ cmd'.pids = cmd.pids,
         (pc' \notin CopyPcs /\ pc \notin CopyPcs) \/ (pc' = pc /\ cmd' = cmd)
  PROVE  JobInv'
<1>1. npid <= npid' /\ PipeSub
  BY NPIDAssumption DEF JobInv, TypeOK, PipeSub
<1>2. Frame(0) /\ 0 \in 0..job_count
  BY <1>1, SameFrame
<1>3. Moves(0)
  BY DEF Moves
<1> QED BY <1>2, <1>3, FrameInv

LEMMA TakenOut ==
  ASSUME TypeOK, NEW s \in 1..job_count, jobs' = WithoutSlot(s)
  PROVE  /\ jobs' \in [Slots -> JobRecs]
         /\ \A i \in 1..(job_count - 1) : SlotFrom(i, Src(i, s))
<1>1. job_count \in Slots /\ s \in Slots /\ job_count \in Nat /\ \A i \in 1..(job_count - 1) : i \in Slots /\ i # job_count
  BY MaxJobsAssumption DEF TypeOK, Slots
<1>2. jobs \in [Slots -> JobRecs]
  BY DEF TypeOK
<1>3. \A i \in Slots : jobs'[i] = IF i = job_count THEN NoSlot ELSE IF i = s THEN jobs[job_count] ELSE jobs[i]
  BY <1>1, <1>2 DEF WithoutSlot
<1>4. DOMAIN jobs' = Slots /\ jobs' = [i \in Slots |-> jobs'[i]]
  BY <1>2 DEF WithoutSlot
<1>5. \A i \in Slots : jobs'[i] \in JobRecs
  BY <1>1, <1>2, <1>3, NothingTypes
<1>6. \A i \in 1..(job_count - 1) : jobs'[i] = jobs[Src(i, s)]
  BY <1>1, <1>3 DEF Src
<1>7. \A i \in 1..(job_count - 1) : SlotFrom(i, Src(i, s))
  <2> SUFFICES ASSUME NEW i \in 1..(job_count - 1) PROVE SlotFrom(i, Src(i, s))
    OBVIOUS
  <2>1. PICK k : k = Src(i, s)
    OBVIOUS
  <2>2. jobs'[i] = jobs[k]
    BY <1>6, <2>1
  <2>3. SlotFrom(i, k)
    BY <2>2 DEF SlotFrom, PidsOf, ExitsOf
  <2> QED BY <2>1, <2>3
<1> QED BY <1>4, <1>5, <1>7

\* remove_job_by_number(), or the drain, takes one job out of the table at most.
LEMMA RemovedInv ==
  ASSUME JobInv, TypeOK', KernelOK', NEW s \in 1..job_count, jobs' = WithoutSlot(s), job_count' = job_count - 1,
         UNCHANGED <<npid, ks>>, PipeSub, pc \notin CopyPcs, pc' \notin CopyPcs, ~Launched'
  PROVE  JobInv'
<1>1. TypeOK /\ job_count \in Nat /\ npid <= npid'
  BY NPIDAssumption, MaxJobsAssumption DEF JobInv, TypeOK
<1>2. \A i \in 1..(job_count - 1) : SlotFrom(i, Src(i, s))
  BY <1>1, TakenOut
<1>3. GoneStays
  BY DEF GoneStays
<1>4. s \in 0..job_count /\ s # 0
  BY <1>1
<1>5. Frame(s)
  BY <1>1, <1>2, <1>3, <1>4 DEF Frame
<1>6. Moves(s)
  BY DEF Moves
<1> QED BY <1>4, <1>5, <1>6, FrameInv

LEMMA RemoveJobEffect ==
  ASSUME TypeOK, NEW num, RemoveJob(num)
  PROVE  \/ UNCHANGED <<jobs, job_count>>
         \/ \E s \in 1..job_count : jobs' = WithoutSlot(s) /\ job_count' = job_count - 1
<1>1. SlotOf(num) \in SUBSET Nat
  BY SlotsInTable DEF SlotOf
<1>2. CASE SlotOf(num) # {}
  <2>1. Min(SlotOf(num)) \in SlotOf(num)
    BY <1>1, <1>2, SmallestSlot
  <2>2. Min(SlotOf(num)) \in 1..job_count
    BY <2>1 DEF SlotOf
  <2> QED BY <1>2, <2>2 DEF RemoveJob
<1> QED BY <1>2 DEF RemoveJob

LEMMA RemovalTypes ==
  ASSUME TypeOK, UNCHANGED <<jobs, job_count>> \/ \E s \in 1..job_count : jobs' = WithoutSlot(s) /\ job_count' = job_count - 1
  PROVE  jobs' \in [Slots -> JobRecs] /\ job_count' \in 0..MAX_JOBS
<1>1. CASE UNCHANGED <<jobs, job_count>>
  BY <1>1 DEF TypeOK
<1>2. ASSUME NEW s \in 1..job_count, jobs' = WithoutSlot(s), job_count' = job_count - 1
      PROVE  jobs' \in [Slots -> JobRecs] /\ job_count' \in 0..MAX_JOBS
  <2>1. job_count' \in 0..MAX_JOBS
    BY <1>2, MaxJobsAssumption DEF TypeOK
  <2> QED BY <1>2, <2>1, TakenOut
<1> QED BY <1>1, <1>2

LEMMA RemoveInv ==
  ASSUME JobInv, TypeOK', KernelOK',
         UNCHANGED <<jobs, job_count>> \/ \E s \in 1..job_count : jobs' = WithoutSlot(s) /\ job_count' = job_count - 1,
         UNCHANGED <<npid, ks, pipe>>, pc \notin CopyPcs, pc' \notin CopyPcs, ~Launched'
  PROVE  JobInv'
<1>1. GoneStays /\ PipeSub
  BY DEF GoneStays, PipeSub
<1>2. CASE UNCHANGED <<jobs, job_count>>
  BY <1>1, <1>2, SameTable, QuietInv
<1>3. ASSUME NEW s \in 1..job_count, jobs' = WithoutSlot(s), job_count' = job_count - 1 PROVE JobInv'
  BY <1>1, <1>3, RemovedInv
<1> QED BY <1>2, <1>3


-----------------------------------------------------------------------------
(* The steps, one by one.                                                   *)

LEMMA InitJob == Init => JobInv
<1> SUFFICES ASSUME Init PROVE JobInv
  OBVIOUS
<1>1. TypeOK
  <2>1. jobs \in [Slots -> JobRecs] /\ cmd \in Cmds
    BY NothingTypes DEF Init
  <2>2. {chld, masked, in_handler, alarm, previous_eof} \subseteq BOOLEAN
    BY DEF Init
  <2>3. npid \in 0..NPID /\ job_count \in 0..MAX_JOBS /\ pipe \in Seq(Pids)
    BY NPIDAssumption, MaxJobsAssumption DEF Init
  <2> QED BY <2>1, <2>2, <2>3 DEF Init, TypeOK, PcNames
<1>2. KernelOK
  BY DEF Init, KernelOK
<1>3. 1..job_count = {} /\ DOMAIN pipe = {}
  BY DEF Init
<1>4. pc = "prompt"
  BY DEF Init
<1> QED BY <1>1, <1>2, <1>3, <1>4 DEF JobInv, TableOK, MarkedOK, CopyOK, Copied, CountOK, PipeOK, LaunchedOK

LEMMA ChildrenJob == JobInv /\ Children => JobInv'
<1> SUFFICES ASSUME JobInv, Children PROVE JobInv'
  OBVIOUS
<1>1. PICK p \in Pids, s \in {"dead", "stop", "run"}, r \in {"exit", "stop", "cont"} :
        Change(p, s, r) /\ Alive(p) /\ (r = "exit" => s = "dead")
  BY DEF Children, ChildExit, ChildStop, ChildContinue, Alive
<1>2. TypeOK /\ KernelOK
  BY DEF JobInv
<1>3. ks' = [ks EXCEPT ![p] = s] /\ rep' = [rep EXCEPT ![p] = r] /\ chld' = TRUE
  BY <1>1 DEF Change
<1>4. /\ UNCHANGED <<pgrp, npid, masked, in_handler, tty, alarm, pc, cmd, previous_eof>>
      /\ UNCHANGED <<jobs, job_count, next_job_number, pipe>>
  BY <1>1 DEF Change, tableVars
<1>5. TypeOK'
  <2>1. ks' \in [Pids -> {"free", "run", "stop", "dead", "gone"}] /\ rep' \in [Pids -> {"none", "stop", "cont", "exit"}]
    BY <1>2, <1>3 DEF TypeOK
  <2>2. {chld, masked, in_handler, alarm, previous_eof}' \subseteq BOOLEAN
    BY <1>2, <1>3, <1>4 DEF TypeOK
  <2> QED BY <1>2, <1>4, <2>1, <2>2 DEF TypeOK
<1>6. KernelOK' /\ GoneStays
  BY <1>1, <1>2, <1>3, <1>4 DEF TypeOK, KernelOK, GoneStays, Alive
<1> QED BY <1>4, <1>5, <1>6, SameTable, QuietInv DEF Launched

\* waitpid() collects a report of p.
LEMMA ConsumeFacts ==
  ASSUME TypeOK, KernelOK, NEW p \in Pids, Consume(p), npid' = npid
  PROVE  /\ ks' \in [Pids -> {"free", "run", "stop", "dead", "gone"}]
         /\ rep' \in [Pids -> {"none", "stop", "cont", "exit"}]
         /\ KernelOK' /\ GoneStays
         /\ rep[p] = "exit" => ks[p] = "dead" /\ ks' = [ks EXCEPT ![p] = "gone"]
  BY DEF TypeOK, KernelOK, Consume, GoneStays

LEMMA RecordJob ==
  ASSUME JobInv, NEW p \in Pids, Consume(p), Record(p, rep[p]),
         UNCHANGED <<pgrp, npid, chld, masked, in_handler, tty, alarm, job_count, next_job_number, pc, cmd, previous_eof>>
  PROVE  JobInv'
<1>0. TypeOK /\ KernelOK /\ TableOK
  BY DEF JobInv
<1>1. /\ ks' \in [Pids -> {"free", "run", "stop", "dead", "gone"}]
      /\ rep' \in [Pids -> {"none", "stop", "cont", "exit"}]
      /\ KernelOK' /\ GoneStays
      /\ rep[p] = "exit" => ks[p] = "dead" /\ ks' = [ks EXCEPT ![p] = "gone"]
  BY <1>0, ConsumeFacts
<1>2. ASSUME jobs' \in [Slots -> JobRecs], pipe' \in Seq(Pids) PROVE TypeOK'
  BY <1>0, <1>1, <1>2 DEF TypeOK
<1>3. ASSUME jobs' \in [Slots -> JobRecs], pipe' = pipe, \A k \in Slots : SlotSame(k) PROVE JobInv'
  <2>1. TypeOK'
    BY <1>0, <1>2, <1>3 DEF TypeOK
  <2> QED BY <1>1, <1>3, <2>1, QuietInv DEF Launched
<1>4. CASE Matching(p) = {}
  <2>1. UNCHANGED <<jobs, pipe>>
    BY <1>4 DEF Record
  <2> QED BY <1>0, <1>3, <2>1, SameTable DEF TypeOK
<1>5. CASE Matching(p) # {}
  <2>1. PICK i, j : i = Min(Matching(p)) /\ j = Min(Listed(i, p))
    OBVIOUS
  <2>2. /\ i \in 1..job_count /\ i \in Slots /\ j \in DOMAIN jobs[i].procs /\ j \in DOMAIN PidsOf(i)
        /\ PidsOf(i)[j] = p /\ j \in Listed(i, p) /\ \A k \in Matching(p) : i <= k
    BY <1>0, <1>5, <2>1, RecordPlace
  <2>3. CASE rep[p] # "exit"
    <3>1. PICK st \in {"run", "stop"} : st = IF rep[p] = "stop" THEN "stop" ELSE "run"
      OBVIOUS
    <3>2. jobs' = [jobs EXCEPT ![i] = WithProc(jobs[i], j, [jobs[i].procs[j] EXCEPT !.state = st])] /\ pipe' = pipe
      BY <1>5, <2>1, <2>3, <3>1 DEF Record
    <3> QED BY <1>0, <1>3, <2>2, <3>2, StateMarked
  <2>4. CASE rep[p] = "exit"
    <3>0. PICK t \in BOOLEAN : t = TRUE
      BY Zenon
    <3>1. PICK n \in Int : n = jobs[i].remaining - 1
      BY <1>0, <2>2, SlotType
    <3>2. jobs' = [jobs EXCEPT ![i] = [WithProc(jobs[i], j, [jobs[i].procs[j] EXCEPT !.exited = t]) EXCEPT !.remaining = n]]
      BY <1>5, <2>1, <2>4, <3>0, <3>1 DEF Record
    <3>3. pipe' = IF n = 0 THEN Append(pipe, jobs[i].procs[1].pid) ELSE pipe
      BY <1>5, <2>1, <2>4, <3>1 DEF Record
    <3>4. /\ jobs' \in [Slots -> JobRecs] /\ \A k \in Slots \ {i} : SlotSame(k)
          /\ PidsOf(i)' = PidsOf(i) /\ jobs'[i].remaining = n /\ jobs'[i].count = jobs[i].count
          /\ ExitsOf(i)' \subseteq ExitsOf(i) \cup {j}
      BY <1>0, <2>2, <3>2, ExitMarked
    <3>5. jobs[i].procs[1].pid = PidsOf(i)[1] /\ PidsOf(i)[1] \in Pids
      <4>1. PidsOf(i) \in Seq(Pids) /\ PidsOf(i) # <<>>
        BY <1>0, <2>2, SlotType DEF TableOK, Proper
      <4>2. 1 \in DOMAIN PidsOf(i)
        BY <4>1, EmptySeq, LenProperties
      <4> QED BY <1>0, <2>2, <4>2, SlotType
    <3>6. pipe' \in Seq(Pids)
      BY <1>0, <3>3, <3>5, AppendProperties DEF TypeOK
    <3>7. pipe' = (IF jobs[i].remaining - 1 = 0 THEN Append(pipe, PidsOf(i)[1]) ELSE pipe)
      BY <3>1, <3>3, <3>5
    <3>8. ExitRecorded(p, i, j)
      BY <1>1, <2>2, <2>4, <3>1, <3>4, <3>7 DEF ExitRecorded
    <3> QED BY <1>1, <1>2, <3>4, <3>6, <3>8, RecordedInv
  <2> QED BY <2>3, <2>4
<1> QED BY <1>4, <1>5

LEMMA HandlerJob == JobInv /\ Handler => JobInv'
<1> SUFFICES ASSUME JobInv, Handler PROVE JobInv'
  OBVIOUS
<1>0. TypeOK /\ KernelOK
  BY DEF JobInv
<1>1. CASE HandlerEnter \/ HandlerReturn
  <2>1. /\ UNCHANGED <<ks, rep, pgrp, npid, masked, tty, alarm, pc, cmd, previous_eof>>
        /\ UNCHANGED <<jobs, job_count, next_job_number, pipe>>
    BY <1>1 DEF HandlerEnter, HandlerReturn, tableVars, kernelVars
  <2>2. chld' \in BOOLEAN /\ in_handler' \in BOOLEAN
    BY <1>0, <1>1 DEF HandlerEnter, HandlerReturn, kernelVars, TypeOK
  <2>3. TypeOK' /\ KernelOK' /\ GoneStays
    BY <1>0, <2>1, <2>2 DEF TypeOK, KernelOK, GoneStays
  <2> QED BY <2>1, <2>3, SameTable, QuietInv DEF Launched
<1>2. CASE HandlerReap
  BY <1>2, RecordJob DEF HandlerReap
<1> QED BY <1>1, <1>2 DEF Handler


\* register_background_job() and register_stopped_job(): a full table stays as it is.
LEMMA RegisterEffect ==
  ASSUME TypeOK, NEW pgid \in Pids \cup {Shell}, NEW pids \in Seq(Pids), NEW st \in {"run", "stop"}, Register(pgid, pids, st)
  PROVE  /\ jobs' \in [Slots -> JobRecs] /\ job_count' \in 0..MAX_JOBS /\ next_job_number' \in Nat
         /\ \/ UNCHANGED <<jobs, job_count>>
            \/ \E n : /\ n = job_count + 1 /\ job_count' = n
                      /\ PidsOf(n)' = pids /\ jobs'[n].remaining = Len(pids) /\ ExitsOf(n)' = {}
                      /\ \A k \in 1..job_count : SlotSame(k)
<1>1. CASE job_count >= MAX_JOBS
  BY <1>1 DEF Register, TypeOK
<1>2. CASE ~(job_count >= MAX_JOBS)
  <2>0. PICK f \in BOOLEAN : f = FALSE
    BY Zenon
  <2>1. PICK n : n = job_count + 1
    OBVIOUS
  <2>2. n \in Slots /\ job_count' = n /\ n \in 0..MAX_JOBS /\ next_job_number' \in Nat
    BY <1>2, <2>1, MaxJobsAssumption DEF Register, TypeOK, Slots
  <2> DEFINE s == [j \in DOMAIN pids |-> [pid |-> pids[j], state |-> st, exited |-> f]]
  <2>3. DOMAIN pids = 1..Len(pids) /\ Len(pids) \in Nat /\ \A j \in 1..Len(pids) : pids[j] \in Pids
    BY LenProperties
  <2>4. /\ s \in Seq(Proc) /\ DOMAIN s = DOMAIN pids
        /\ \A j \in DOMAIN s : s[j].pid = pids[j] /\ s[j].exited = f
    <3>1. \A j \in 1..Len(pids) : [pid |-> pids[j], state |-> st, exited |-> f] \in Proc
      BY <2>3 DEF Proc
    <3>2. s = [j \in 1..Len(pids) |-> [pid |-> pids[j], state |-> st, exited |-> f]]
      BY <2>3
    <3> QED BY <2>3, <3>1, <3>2
  <2>5. PICK y : y = [num |-> next_job_number, pgid |-> pgid, procs |-> s, count |-> Len(pids), remaining |-> Len(pids)]
    OBVIOUS
  <2>6. jobs' = [jobs EXCEPT ![n] = y]
    BY <1>2, <2>0, <2>1, <2>5 DEF Register
  <2> HIDE DEF s
  <2>7. y \in JobRecs /\ y.procs = s /\ y.remaining = Len(pids)
    BY <2>3, <2>4, <2>5 DEF JobRecs, TypeOK
  <2>8. /\ jobs' \in [Slots -> JobRecs] /\ \A k \in Slots \ {n} : SlotSame(k)
        /\ PidsOf(n)' = [j \in DOMAIN y.procs |-> y.procs[j].pid] /\ jobs'[n] = y
    BY <2>2, <2>6, <2>7, SlotUpdate
  <2>9. PidsOf(n)' = pids
    <3>1. PidsOf(n)' = [j \in DOMAIN pids |-> pids[j]]
      BY <2>4, <2>7, <2>8
    <3> QED BY <2>3, <3>1
  <2>10. ExitsOf(n)' = {}
    <3>1. ExitsOf(n)' = {j \in DOMAIN s : s[j].exited}
      BY <2>7, <2>8 DEF ExitsOf
    <3> QED BY <2>0, <2>4, <3>1, Zenon
  <2>11. \A k \in 1..job_count : SlotSame(k)
    <3>1. \A k \in 1..job_count : k \in Slots \ {n}
      BY <2>1, MaxJobsAssumption DEF TypeOK, Slots
    <3> QED BY <2>8, <3>1
  <2> QED BY <2>1, <2>2, <2>7, <2>8, <2>9, <2>10, <2>11
<1> QED BY <1>1, <1>2

\* What follows a foreground wait, apart from the table.
LEMMA ReclaimFacts ==
  ASSUME TypeOK, KernelOK, Reclaim,
         jobs' \in [Slots -> JobRecs], job_count' \in 0..MAX_JOBS, next_job_number' \in Nat
  PROVE  /\ TypeOK' /\ KernelOK' /\ GoneStays /\ UNCHANGED <<npid, ks, pipe>>
         /\ pc' \notin CopyPcs /\ ~Launched'
<1>1. pc' \in {"drain", "seq"}
  BY DEF Reclaim
<1>2. masked' \in BOOLEAN /\ alarm' \in BOOLEAN /\ in_handler' \in BOOLEAN /\ chld' \in BOOLEAN /\ previous_eof' \in BOOLEAN
  BY DEF Reclaim, TypeOK, kernelVars
<1>3. cmd' \in Cmds /\ tty' = Shell /\ UNCHANGED <<ks, rep, pgrp, npid, chld, pipe>>
  BY NothingTypes DEF Reclaim, kernelVars
<1>4. TypeOK'
  BY <1>1, <1>2, <1>3 DEF TypeOK, PcNames
<1>5. KernelOK' /\ GoneStays
  BY <1>3 DEF KernelOK, GoneStays
<1> QED BY <1>1, <1>3, <1>4, <1>5 DEF CopyPcs, Launched

LEMMA WaitJob == JobInv /\ Wait => JobInv'
<1> SUFFICES ASSUME JobInv, Wait PROVE JobInv'
  OBVIOUS
<1>0. TypeOK /\ KernelOK
  BY DEF JobInv
<1>1. CASE FgBlock \/ FgNoChild
  <2>1. /\ UNCHANGED <<ks, rep, pgrp, npid, chld, masked, in_handler, tty, alarm, cmd, previous_eof>>
        /\ UNCHANGED <<jobs, job_count, next_job_number, pipe>>
        /\ pc = "fgloop" /\ pc' \in {"fgblock", "fgdone"}
    BY <1>1 DEF FgBlock, FgNoChild, tableVars, kernelVars
  <2>2. TypeOK' /\ KernelOK' /\ GoneStays
    BY <1>0, <2>1 DEF TypeOK, KernelOK, GoneStays, PcNames
  <2> QED BY <2>1, <2>2, SameTable, QuietInv DEF Launched, CopyPcs
<1>2. CASE FgReap
  <2>1. PICK p \in Reportable :
          /\ Consume(p)
          /\ IF rep[p] = "stop"
             THEN pc' = "fgstopped" /\ UNCHANGED cmd
             ELSE /\ cmd' = [cmd EXCEPT !.done = cmd.done \cup ({p} \cap cmd.waits)]
                  /\ pc' \in {"fgdone", "fgloop"}
    BY <1>2 DEF FgReap
  <2>2. /\ UNCHANGED <<pgrp, npid, chld, masked, in_handler, tty, alarm, previous_eof>>
        /\ UNCHANGED <<jobs, job_count, next_job_number, pipe>>
        /\ pc \in {"fgloop", "fgblock"}
    BY <1>2 DEF FgReap, tableVars
  <2>3. p \in Pids
    BY DEF Reportable, Group
  <2>4. /\ ks' \in [Pids -> {"free", "run", "stop", "dead", "gone"}]
        /\ rep' \in [Pids -> {"none", "stop", "cont", "exit"}]
        /\ KernelOK' /\ GoneStays
    BY <1>0, <2>1, <2>2, <2>3, ConsumeFacts
  <2>5. cmd \in Cmds
    BY <1>0 DEF TypeOK
  <2>6. cmd' \in Cmds /\ cmd'.pids = cmd.pids /\ cmd'.fg = cmd.fg
    <3>1. CASE cmd' = cmd
      BY <2>5, <3>1
    <3>2. CASE cmd' = [cmd EXCEPT !.done = cmd.done \cup ({p} \cap cmd.waits)]
      <4>1. PICK d \in SUBSET Pids : d = cmd.done \cup ({p} \cap cmd.waits)
        BY <2>3, <2>5 DEF Cmds
      <4>2. cmd' = [cmd EXCEPT !.done = d]
        BY <3>2, <4>1
      <4> QED BY <2>5, <4>2 DEF Cmds
    <3> QED BY <2>1, <3>1, <3>2
  <2>7. pc' \in {"fgstopped", "fgdone", "fgloop"}
    BY <2>1
  <2>8. TypeOK'
    BY <1>0, <2>2, <2>4, <2>6, <2>7 DEF TypeOK, PcNames
  <2>9. Launched' => Launched
    BY <2>2, <2>6 DEF Launched
  <2> QED BY <2>2, <2>4, <2>6, <2>7, <2>8, <2>9, SameTable, QuietInv DEF CopyPcs
<1>3. CASE FgDone \/ FgTimedOut
  <2>1. UNCHANGED <<jobs, job_count>> \/ RemoveJob(cmd.num)
    BY <1>3 DEF FgDone, FgTimedOut
  <2>2. UNCHANGED <<jobs, job_count>> \/ \E s \in 1..job_count : jobs' = WithoutSlot(s) /\ job_count' = job_count - 1
    BY <1>0, <2>1, RemoveJobEffect
  <2>3. Reclaim /\ next_job_number' = next_job_number /\ pc \notin CopyPcs
    BY <1>3 DEF FgDone, FgTimedOut, CopyPcs
  <2>4. jobs' \in [Slots -> JobRecs] /\ job_count' \in 0..MAX_JOBS /\ next_job_number' \in Nat
    BY <1>0, <2>2, <2>3, RemovalTypes DEF TypeOK
  <2>5. TypeOK' /\ KernelOK' /\ UNCHANGED <<npid, ks, pipe>> /\ pc' \notin CopyPcs /\ ~Launched'
    BY <1>0, <2>3, <2>4, ReclaimFacts
  <2> QED BY <2>2, <2>3, <2>5, RemoveInv
<1>4. CASE FgStopped /\ cmd.fg
  <2>1. MarkJob(cmd.num, "stop") /\ UNCHANGED <<job_count, next_job_number>> /\ Reclaim /\ pc \notin CopyPcs
    BY <1>4 DEF FgStopped, CopyPcs
  <2>2. jobs' \in [Slots -> JobRecs] /\ \A k \in Slots : SlotSame(k)
    BY <1>0, <2>1, MarkJobEffect
  <2>3. TypeOK' /\ KernelOK' /\ GoneStays /\ UNCHANGED <<npid, ks, pipe>> /\ pc' \notin CopyPcs /\ ~Launched'
    <3>1. job_count' \in 0..MAX_JOBS /\ next_job_number' \in Nat
      BY <1>0, <2>1 DEF TypeOK
    <3> QED BY <1>0, <2>1, <2>2, <3>1, ReclaimFacts
  <2> QED BY <2>1, <2>2, <2>3, QuietInv
<1>5. CASE FgStopped /\ ~cmd.fg
  <2>1. Register(cmd.pgid, cmd.pids, "stop") /\ Reclaim /\ pc \notin CopyPcs /\ Launched
    BY <1>5 DEF FgStopped, CopyPcs, Launched
  <2>2. cmd.pgid \in Pids \cup {Shell} /\ cmd.pids \in Seq(Pids)
    BY <1>0 DEF TypeOK, Cmds
  <2>3. PICK pids : pids = cmd.pids
    OBVIOUS
  <2>4. /\ jobs' \in [Slots -> JobRecs] /\ job_count' \in 0..MAX_JOBS /\ next_job_number' \in Nat
        /\ \/ UNCHANGED <<jobs, job_count>>
           \/ \E n : /\ n = job_count + 1 /\ job_count' = n
                     /\ PidsOf(n)' = pids /\ jobs'[n].remaining = Len(pids) /\ ExitsOf(n)' = {}
                     /\ \A k \in 1..job_count : SlotSame(k)
    BY <1>0, <2>1, <2>2, <2>3, RegisterEffect
  <2>5. TypeOK' /\ KernelOK' /\ GoneStays /\ UNCHANGED <<npid, ks, pipe>> /\ pc' \notin CopyPcs /\ ~Launched'
    BY <1>0, <2>1, <2>4, ReclaimFacts
  <2>6. CASE UNCHANGED <<jobs, job_count>>
    BY <2>1, <2>5, <2>6, SameTable, QuietInv
  <2>7. ASSUME NEW n, n = job_count + 1, job_count' = n,
               PidsOf(n)' = pids, jobs'[n].remaining = Len(pids), ExitsOf(n)' = {},
               \A k \in 1..job_count : SlotSame(k)
        PROVE  JobInv'
    <3>1. Fresh(pids)
      BY <2>1, <2>3, <2>5 DEF JobInv, LaunchedOK, Launched, Fresh, Proper
    <3>2. npid <= npid'
      BY <1>0, <2>5, NPIDAssumption DEF TypeOK
    <3>3. Added(n, pids)
      BY <2>1, <2>2, <2>3, <2>5, <2>7, <3>2 DEF Added
    <3> QED BY <2>5, <3>1, <3>3, AddedInv
  <2> QED BY <2>4, <2>6, <2>7
<1> QED BY <1>1, <1>2, <1>3, <1>4, <1>5 DEF Wait


LEMMA AlarmJob == JobInv /\ Alarm => JobInv'
<1> SUFFICES ASSUME JobInv, Alarm PROVE JobInv'
  OBVIOUS
<1>0. TypeOK /\ KernelOK
  BY DEF JobInv
<1>1. /\ UNCHANGED <<ks, rep, pgrp, npid, chld, masked, in_handler, tty, cmd, previous_eof>>
      /\ UNCHANGED <<jobs, job_count, next_job_number, pipe>>
      /\ pc' = IF pc = "fgblock" THEN "timedout" ELSE pc
  BY DEF Alarm, tableVars, kernelVars
<1>2. alarm' \in BOOLEAN
  BY DEF Alarm
<1>3. TypeOK' /\ KernelOK' /\ GoneStays
  BY <1>0, <1>1, <1>2 DEF TypeOK, KernelOK, GoneStays, PcNames
<1> QED BY <1>1, <1>3, SameTable, QuietInv DEF Launched, CopyPcs

LEMMA ResumeJob == JobInv /\ Resume => JobInv'
<1> SUFFICES ASSUME JobInv, Resume PROVE JobInv'
  OBVIOUS
<1>0. TypeOK /\ KernelOK
  BY DEF JobInv
<1>1. CASE ResumeFinished
  <2>1. /\ UNCHANGED <<ks, rep, pgrp, npid, chld, masked, in_handler, tty, alarm, next_job_number, pipe, previous_eof>>
        /\ pc = "resume" /\ pc' = "drain" /\ cmd' = NoCmd /\ RemoveJob(cmd.num)
    BY <1>1 DEF ResumeFinished, kernelVars
  <2>2. UNCHANGED <<jobs, job_count>> \/ \E s \in 1..job_count : jobs' = WithoutSlot(s) /\ job_count' = job_count - 1
    BY <1>0, <2>1, RemoveJobEffect
  <2>3. jobs' \in [Slots -> JobRecs] /\ job_count' \in 0..MAX_JOBS
    BY <1>0, <2>2, RemovalTypes
  <2>4. TypeOK' /\ KernelOK'
    BY <1>0, <2>1, <2>3, NothingTypes DEF TypeOK, KernelOK, PcNames
  <2>5. pc \notin CopyPcs /\ pc' \notin CopyPcs /\ ~Launched'
    BY <2>1 DEF CopyPcs, Launched
  <2> QED BY <2>1, <2>2, <2>4, <2>5, RemoveInv
<1>2. CASE ResumeContinue
  <2>1. /\ UNCHANGED <<in_handler, job_count, next_job_number, pipe, previous_eof>>
        /\ Continue(cmd.pgid) /\ MarkJob(cmd.num, "run") /\ pc = "resume"
    BY <1>2 DEF ResumeContinue
  <2>2. jobs' \in [Slots -> JobRecs] /\ \A k \in Slots : SlotSame(k)
    BY <1>0, <2>1, MarkJobEffect
  <2>3. /\ ks' \in [Pids -> {"free", "run", "stop", "dead", "gone"}]
        /\ rep' \in [Pids -> {"none", "stop", "cont", "exit"}]
        /\ chld' \in BOOLEAN /\ UNCHANGED <<pgrp, npid>>
    <3> DEFINE woken == {p \in Pids : pgrp[p] = cmd.pgid /\ ks[p] = "stop"}
    <3>1. /\ ks' = [p \in Pids |-> IF p \in woken THEN "run" ELSE ks[p]]
          /\ rep' = [p \in Pids |-> IF p \in woken THEN "cont" ELSE rep[p]]
          /\ chld' = (chld \/ woken # {}) /\ UNCHANGED <<pgrp, npid>>
      BY <2>1 DEF Continue
    <3> HIDE DEF woken
    <3>2. chld' \in BOOLEAN
      BY <3>1
    <3> QED BY <1>0, <3>1, <3>2 DEF TypeOK
  <2>4. KernelOK' /\ GoneStays
    BY <1>0, <2>1, <2>3 DEF TypeOK, KernelOK, GoneStays, Continue
  <2>5. /\ cmd' \in Cmds /\ tty' \in Pids \cup {Shell} /\ masked' \in BOOLEAN /\ alarm' \in BOOLEAN
        /\ pc' \in {"fgloop", "drain"} /\ (pc' = "fgloop" => cmd'.fg)
    <3>1. cmd \in Cmds /\ cmd.pgid \in Pids \cup {Shell} /\ cmd.timeout \in BOOLEAN
      BY <1>0 DEF TypeOK, Cmds
    <3>2. CASE cmd.fg
      BY <1>2, <3>1, <3>2 DEF ResumeContinue
    <3>3. CASE ~cmd.fg
      BY <1>0, <1>2, <3>1, <3>3, NothingTypes DEF ResumeContinue, TypeOK
    <3> QED BY <3>2, <3>3
  <2>6. TypeOK'
    BY <1>0, <2>1, <2>2, <2>3, <2>5 DEF TypeOK, PcNames
  <2> QED BY <2>1, <2>2, <2>3, <2>4, <2>5, <2>6, QuietInv DEF Launched, CopyPcs
<1> QED BY <1>1, <1>2 DEF Resume

LEMMA DrainJob == JobInv /\ Drain => JobInv'
<1> SUFFICES ASSUME JobInv, Drain PROVE JobInv'
  OBVIOUS
<1>0. TypeOK /\ KernelOK /\ TableOK /\ PipeOK /\ job_count \in Nat /\ \A k \in 1..job_count : k \in Slots
  BY SlotsInTable DEF JobInv
<1>1. CASE DrainEnd
  <2>1. /\ UNCHANGED <<ks, rep, pgrp, npid, chld, masked, in_handler, tty, alarm, cmd, previous_eof>>
        /\ UNCHANGED <<jobs, job_count, next_job_number, pipe>>
        /\ pc = "drain" /\ pc' = "prompt"
    BY <1>1 DEF DrainEnd, tableVars, kernelVars
  <2>2. TypeOK' /\ KernelOK' /\ GoneStays
    BY <1>0, <2>1 DEF TypeOK, KernelOK, GoneStays, PcNames
  <2> QED BY <2>1, <2>2, SameTable, QuietInv DEF Launched, CopyPcs
<1>2. CASE DrainOne
  <2>1. /\ UNCHANGED <<ks, rep, pgrp, npid, chld, masked, in_handler, tty, alarm, next_job_number, previous_eof>>
        /\ pipe # <<>> /\ pipe' = Tail(pipe) /\ pc = "drain"
    BY <1>2 DEF DrainOne, kernelVars
  <2>2. pipe \in Seq(Pids) /\ pipe' \in Seq(Pids) /\ 1 \in DOMAIN pipe /\ Head(pipe) = pipe[1]
    BY <1>0, <2>1, EmptySeq, HeadTailProperties, LenProperties DEF TypeOK
  <2>3. GoneStays /\ PipeSub /\ npid <= npid' /\ KernelOK'
    BY <1>0, <2>1, NPIDAssumption DEF GoneStays, PipeSub, TypeOK, KernelOK
  <2>4. ASSUME LedBy(Head(pipe)) # {}
        PROVE  /\ Min(LedBy(Head(pipe))) \in 1..job_count
               /\ PidsOf(Min(LedBy(Head(pipe))))[1] = pipe[1]
    <3>1. PICK i : i = Min(LedBy(Head(pipe)))
      OBVIOUS
    <3>2. LedBy(Head(pipe)) \in SUBSET Nat
      BY <1>0 DEF LedBy
    <3>3. i \in LedBy(Head(pipe))
      BY <2>4, <3>1, <3>2, SmallestSlot
    <3>4. i \in 1..job_count /\ jobs[i].procs[1].pid = pipe[1]
      BY <2>2, <3>3 DEF LedBy
    <3>5. PidsOf(i) \in Seq(Pids) /\ PidsOf(i) # <<>>
      BY <1>0, <3>4, SlotType DEF TableOK, Proper
    <3>6. 1 \in DOMAIN PidsOf(i)
      BY <3>5, EmptySeq, LenProperties
    <3>7. PidsOf(i)[1] = pipe[1]
      BY <1>0, <3>4, <3>6, SlotType
    <3> QED BY <3>1, <3>4, <3>7
  <2>5. CASE UNCHANGED <<jobs, job_count, pc, cmd>>
    <3>1. TypeOK'
      BY <1>0, <2>1, <2>2, <2>5 DEF TypeOK
    <3>2. Frame(0) /\ 0 \in 0..job_count
      BY <2>3, <2>5, SameTable, SameFrame
    <3>3. Moves(0) /\ (Launched' => Launched /\ cmd'.pids = cmd.pids)
      BY <2>5 DEF Moves, Launched
    <3> QED BY <2>3, <3>1, <3>2, <3>3, FrameInv
  <2>6. CASE /\ LedBy(Head(pipe)) # {}
             /\ pc' = "copy" /\ cmd' = [NoCmd EXCEPT !.slot = Min(LedBy(Head(pipe)))]
             /\ UNCHANGED <<jobs, job_count>>
    <3>1. PICK s \in 1..job_count : s = Min(LedBy(Head(pipe))) /\ PidsOf(s)[1] = pipe[1]
      BY <2>4, <2>6
    <3>2. s \in 0..MAX_JOBS
      BY <1>0, MaxJobsAssumption DEF Slots
    <3>3. cmd' \in Cmds /\ cmd'.slot = s
      BY <2>6, <3>1, <3>2, NothingTypes
    <3>4. TypeOK'
      BY <1>0, <2>1, <2>2, <2>6, <3>3 DEF TypeOK, PcNames
    <3>5. Over(s) /\ jobs[s].remaining <= 0
      BY <1>0, <2>1, <2>2, <3>1 DEF PipeOK
    <3>6. Frame(0) /\ 0 \in 0..job_count
      BY <2>3, <2>6, SameTable, SameFrame
    <3>7. CopyOK'
      BY <2>1, <2>6, <3>1, <3>3, <3>5 DEF CopyOK, Copied, Over, Left, PidsOf
    <3>8. LaunchedOK'
      BY <2>6 DEF LaunchedOK
    <3>9. TableOK' /\ MarkedOK' /\ CountOK' /\ PipeOK'
      <4>1. /\ \A k : Torn(k)' <=> Torn(k)
            /\ ~Copied /\ ~Copied'
            /\ \A k : SlotSame(k)
        BY <2>1, <2>6, SameTable DEF Torn, Copied
      <4>2. TableOK'
        BY <1>0, <2>1, <2>6, <4>1 DEF TableOK, SlotSame, Proper, Apart
      <4>3. MarkedOK'
        BY <2>1, <2>6, <4>1 DEF JobInv, MarkedOK, SlotSame
      <4>4. CountOK'
        <5>1. \A k \in 1..job_count : Left(k)' = Left(k)
          BY <2>1, <4>1 DEF Left, SlotSame
        <5> QED BY <2>6, <4>1, <5>1 DEF JobInv, CountOK
      <4>5. PipeOK'
        <5>1. PICK d \in {0, 1} : \A k \in DOMAIN pipe' : k \in Nat /\ k + d \in DOMAIN pipe /\ pipe'[k] = pipe[k + d]
          BY <1>0, <2>3, PipeSubFacts
        <5>2. \A k \in DOMAIN pipe' : pipe'[k] \in 1..npid'
          BY <1>0, <2>1, <5>1 DEF PipeOK
        <5>3. \A i, j \in DOMAIN pipe' : pipe'[i] = pipe'[j] => i = j
          <6>1. \A i, j \in DOMAIN pipe' : pipe[i + d] = pipe[j + d] => i + d = j + d
            BY <1>0, <5>1 DEF PipeOK
          <6> QED BY <5>1, <6>1
        <5>4. ASSUME NEW q \in DOMAIN pipe', NEW i \in 1..job_count', PidsOf(i)'[1] = pipe'[q]
              PROVE  Over(i)' /\ jobs'[i].remaining <= 0
          <6>1. PidsOf(i)[1] = pipe[q + d] /\ q + d \in DOMAIN pipe /\ i \in 1..job_count
            BY <2>6, <4>1, <5>1, <5>4 DEF SlotSame
          <6>2. Over(i) /\ jobs[i].remaining <= 0
            BY <1>0, <2>1, <6>1 DEF PipeOK
          <6> QED BY <2>1, <2>6, <4>1, <6>2 DEF Over, Left, SlotSame
        <5> QED BY <5>2, <5>3, <5>4 DEF PipeOK
      <4> QED BY <4>2, <4>3, <4>4, <4>5
    <3> QED BY <2>3, <3>4, <3>7, <3>8, <3>9 DEF JobInv
  <2> QED BY <1>2, <2>5, <2>6 DEF DrainOne
<1>3. CASE DrainCopyFirst
  BY <1>3, CopyFirstInv
<1>4. CASE DrainCopyRest
  BY <1>4, CopyRestInv
<1>5. CASE DrainShrink
  <2>1. /\ UNCHANGED <<ks, rep, pgrp, npid, chld, masked, in_handler, tty, alarm, next_job_number, pipe, previous_eof>>
        /\ pc = "shrink" /\ pc' = "drain" /\ cmd' = NoCmd /\ job_count' = job_count - 1
        /\ jobs' = [jobs EXCEPT ![job_count] = NoSlot]
    BY <1>5 DEF DrainShrink, kernelVars
  <2>2. PICK c : c = job_count
    OBVIOUS
  <2>3. c \in 1..job_count /\ c \in Slots /\ c \in Nat /\ c # 0 /\ c \in 0..job_count
    BY <1>0, <2>1, <2>2 DEF JobInv, CopyOK
  <2>4. jobs' \in [Slots -> JobRecs] /\ \A k \in Slots \ {c} : SlotSame(k)
    BY <1>0, <2>1, <2>2, <2>3, SlotUpdate, NothingTypes
  <2>5. TypeOK' /\ KernelOK' /\ GoneStays
    <3>1. job_count' \in 0..MAX_JOBS
      BY <1>0, <2>1, <2>2, <2>3, MaxJobsAssumption DEF TypeOK
    <3> QED BY <1>0, <2>1, <2>4, <3>1, NothingTypes DEF TypeOK, KernelOK, GoneStays, PcNames
  <2>6. \A i \in 1..job_count' : SlotFrom(i, Src(i, c))
    <3>1. \A i \in 1..job_count' : i \in Slots \ {c} /\ Src(i, c) = i
      BY <1>0, <2>1, <2>2, <2>3 DEF Src
    <3> QED BY <2>4, <3>1 DEF SlotSame, SlotFrom
  <2>7. Frame(c)
    <3>1. npid <= npid' /\ PipeSub
      BY <1>0, <2>1, NPIDAssumption DEF TypeOK, PipeSub
    <3> QED BY <2>1, <2>2, <2>3, <2>5, <2>6, <3>1 DEF Frame
  <2>8. Moves(c) /\ ~Launched'
    BY <2>1, <2>2 DEF Moves, CopyPcs, Launched
  <2> QED BY <2>3, <2>5, <2>7, <2>8, FrameInv
<1> QED BY <1>1, <1>2, <1>3, <1>4, <1>5 DEF Drain


\* The stages that were forked get pids nobody has had.
LEMMA ForkFacts ==
  ASSUME JobInv, NEW n \in 1..MaxStages, NEW F \in Forks(n), Fork(F)
  PROVE  /\ ks' \in [Pids -> {"free", "run", "stop", "dead", "gone"}] /\ pgrp' \in [Pids -> Pids \cup {Shell}]
         /\ npid' \in 0..NPID /\ npid <= npid' /\ UNCHANGED <<rep, chld>> /\ KernelOK' /\ GoneStays
         /\ Forked(F) \in Seq(Pids) /\ PidsForked(F) \in SUBSET Pids
         /\ 1 \in F => npid + 1 \in Pids /\ Fresh(Forked(F))
<1>0. TypeOK /\ KernelOK /\ TableOK /\ PipeOK /\ npid \in 0..NPID /\ NPID \in Nat
  BY NPIDAssumption DEF JobInv, TypeOK
<1>1. PICK c : c = Cardinality(F)
  OBVIOUS
<1>2. c \in Nat /\ npid + c <= NPID /\ (1 \in F => c >= 1)
  <2>1. n \in Int /\ 1 \in Int /\ F \in SUBSET (1..n) /\ npid + c <= NPID
    BY <1>1, MaxStagesAssumption DEF Forks
  <2>2. IsFiniteSet(1..n)
    BY <2>1, FS_Interval
  <2>3. IsFiniteSet(F)
    BY <2>1, <2>2, FS_Subset
  <2>4. c \in Nat
    BY <1>1, <2>3, FS_CardinalityType
  <2>5. 1 \in F => c # 0
    BY <1>1, <2>3, FS_EmptySet
  <2> QED BY <2>1, <2>4, <2>5
<1>3. /\ Forked(F) = [j \in 1..c |-> npid + j] /\ PidsForked(F) = (npid + 1)..(npid + c)
      /\ npid' = npid + c /\ UNCHANGED <<rep, chld>>
  BY <1>1 DEF Forked, PidsForked, Fork
<1>4. PICK leader : leader = IF 1 \in F THEN npid + 1 ELSE Shell
  OBVIOUS
<1>5. PICK new : new = (npid + 1)..(npid + c)
  OBVIOUS
<1>6. /\ ks' = [p \in Pids |-> IF p \in new THEN "run" ELSE ks[p]]
      /\ pgrp' = [p \in Pids |-> IF p \in new THEN leader ELSE pgrp[p]]
  BY <1>3, <1>4, <1>5 DEF Fork
<1>7. 1 \in F => npid + 1 \in Pids
  BY <1>0, <1>2 DEF Pids
<1>8. leader \in Pids \cup {Shell}
  BY <1>4, <1>7
<1>9. ks' \in [Pids -> {"free", "run", "stop", "dead", "gone"}] /\ pgrp' \in [Pids -> Pids \cup {Shell}]
  BY <1>0, <1>6, <1>8 DEF TypeOK
<1>10. npid' \in 0..NPID /\ npid <= npid'
  BY <1>0, <1>2, <1>3
<1>11. \A p \in Pids : p \in new => p > npid /\ p <= npid'
  BY <1>0, <1>2, <1>3, <1>5 DEF Pids
<1>12. \A p \in Pids : p \in new => ks[p] = "free"
  BY <1>0, <1>11 DEF KernelOK
<1>13. GoneStays
  BY <1>6, <1>12 DEF GoneStays
<1>14. KernelOK'
  <2>1. \A p \in Pids : p > npid' => p > npid /\ p \notin new
    BY <1>0, <1>10, <1>11 DEF Pids
  <2> QED BY <1>0, <1>3, <1>6, <1>12, <2>1 DEF KernelOK
<1>15. \A j \in 1..c : npid + j \in Pids
  BY <1>0, <1>2 DEF Pids
<1>16. Forked(F) \in Seq(Pids)
  BY <1>2, <1>3, <1>15
<1>17. PidsForked(F) \in SUBSET Pids
  BY <1>0, <1>2, <1>3 DEF Pids
<1>18. ASSUME 1 \in F PROVE Fresh(Forked(F))
  <2>1. PICK s : s = Forked(F)
    OBVIOUS
  <2>2. s = [j \in 1..c |-> npid + j] /\ s \in Seq(Pids) /\ c >= 1
    BY <1>2, <1>3, <1>16, <1>18, <2>1
  <2>3. DOMAIN s = 1..c /\ \A j \in 1..c : s[j] = npid + j
    BY <2>2
  <2>4. s # <<>>
    BY <1>2, <2>2, <2>3
  <2>5. \A j \in DOMAIN s : s[j] \in 1..npid' /\ s[j] > npid
    BY <1>0, <1>2, <1>3, <2>3
  <2>6. \A j, k \in DOMAIN s : s[j] = s[k] => j = k
    BY <1>0, <2>3
  <2>7. \A k \in 1..job_count : Apart(s, PidsOf(k))
    <3> SUFFICES ASSUME NEW k \in 1..job_count, NEW j \in DOMAIN s, NEW l \in DOMAIN PidsOf(k) PROVE s[j] # PidsOf(k)[l]
      BY DEF Apart
    <3>1. PidsOf(k)[l] \in 1..npid
      BY <1>0 DEF TableOK, Proper
    <3> QED BY <1>0, <2>5, <3>1
  <2>8. \A q \in DOMAIN pipe : \A j \in DOMAIN s : s[j] # pipe[q]
    <3>1. \A q \in DOMAIN pipe : pipe[q] \in 1..npid
      BY <1>0 DEF PipeOK
    <3> QED BY <1>0, <2>5, <3>1
  <2>9. Fresh(s)
    BY <2>4, <2>5, <2>6, <2>7, <2>8 DEF Fresh
  <2> QED BY <2>1, <2>9
<1> QED BY <1>3, <1>7, <1>9, <1>10, <1>13, <1>14, <1>16, <1>17, <1>18

LEMMA BackgroundJob == JobInv /\ LaunchBackground => JobInv'
<1> SUFFICES ASSUME JobInv, LaunchBackground PROVE JobInv'
  OBVIOUS
<1>0. TypeOK
  BY DEF JobInv
<1>1. /\ UNCHANGED <<masked, in_handler, tty, alarm, pipe, cmd>>
      /\ pc \in {"prompt", "seq"} /\ pc' = "seq" /\ previous_eof' \in BOOLEAN
  BY DEF LaunchBackground, AtCommand
<1>2. PICK n \in 1..MaxStages : \E F \in Forks(n) :
        /\ Fork(F)
        /\ IF 1 \in F THEN Register(npid + 1, Forked(F), "run") ELSE UNCHANGED <<jobs, job_count, next_job_number>>
  BY DEF LaunchBackground
<1>3. PICK F \in Forks(n) :
        /\ Fork(F)
        /\ IF 1 \in F THEN Register(npid + 1, Forked(F), "run") ELSE UNCHANGED <<jobs, job_count, next_job_number>>
  BY <1>2
<1>4. /\ ks' \in [Pids -> {"free", "run", "stop", "dead", "gone"}] /\ pgrp' \in [Pids -> Pids \cup {Shell}]
      /\ npid' \in 0..NPID /\ npid <= npid' /\ UNCHANGED <<rep, chld>> /\ KernelOK' /\ GoneStays
      /\ Forked(F) \in Seq(Pids)
      /\ 1 \in F => npid + 1 \in Pids /\ Fresh(Forked(F))
  BY <1>3, ForkFacts
<1>5. PICK s : s = Forked(F)
  OBVIOUS
<1>6. \/ UNCHANGED <<jobs, job_count, next_job_number>>
      \/ 1 \in F /\ Register(npid + 1, Forked(F), "run")
  BY <1>3
<1>7. /\ jobs' \in [Slots -> JobRecs] /\ job_count' \in 0..MAX_JOBS /\ next_job_number' \in Nat
      /\ \/ UNCHANGED <<jobs, job_count>>
         \/ 1 \in F /\ \E k : /\ k = job_count + 1 /\ job_count' = k
                              /\ PidsOf(k)' = s /\ jobs'[k].remaining = Len(s) /\ ExitsOf(k)' = {}
                              /\ \A l \in 1..job_count : SlotSame(l)
  <2>1. CASE UNCHANGED <<jobs, job_count, next_job_number>>
    BY <1>0, <2>1 DEF TypeOK
  <2>2. CASE 1 \in F /\ Register(npid + 1, Forked(F), "run")
    <3>1. PICK g \in Pids \cup {Shell} : g = npid + 1
      BY <1>4, <2>2
    <3> QED BY <1>0, <1>4, <1>5, <2>2, <3>1, RegisterEffect
  <2> QED BY <1>6, <2>1, <2>2
<1>8. TypeOK'
  BY <1>0, <1>1, <1>4, <1>7 DEF TypeOK, PcNames
<1>9. pc \notin CopyPcs /\ pc' \notin CopyPcs /\ ~Launched' /\ PipeSub
  BY <1>1 DEF CopyPcs, Launched, PipeSub
<1>10. CASE UNCHANGED <<jobs, job_count>>
  <2>1. Frame(0) /\ 0 \in 0..job_count
    BY <1>4, <1>9, <1>10, SameTable, SameFrame
  <2>2. Moves(0)
    BY <1>9 DEF Moves
  <2> QED BY <1>4, <1>8, <1>9, <2>1, <2>2, FrameInv
<1>11. ASSUME 1 \in F, NEW k, k = job_count + 1, job_count' = k,
              PidsOf(k)' = s, jobs'[k].remaining = Len(s), ExitsOf(k)' = {}, \A l \in 1..job_count : SlotSame(l)
       PROVE  JobInv'
  <2>1. Fresh(s) /\ s \in Seq(Pids)
    BY <1>4, <1>5, <1>11
  <2>2. Added(k, s)
    BY <1>1, <1>4, <1>9, <1>11, <2>1 DEF Added
  <2> QED BY <1>4, <1>8, <2>1, <2>2, AddedInv
<1> QED BY <1>7, <1>10, <1>11

LEMMA ForegroundJob == JobInv /\ LaunchForeground => JobInv'
<1> SUFFICES ASSUME JobInv, LaunchForeground PROVE JobInv'
  OBVIOUS
<1>0. TypeOK
  BY DEF JobInv
<1>1. /\ UNCHANGED <<in_handler, alarm>> /\ UNCHANGED <<jobs, job_count, next_job_number, pipe>>
      /\ pc \in {"prompt", "seq"} /\ previous_eof' \in BOOLEAN
  BY DEF LaunchForeground, AtCommand, tableVars
<1>2. PICK n \in 1..MaxStages : \E F \in Forks(n) :
        /\ Fork(F)
        /\ IF 1 \in F
           THEN /\ tty' = npid + 1 /\ masked' = TRUE /\ pc' = "fgloop"
                /\ cmd' = [NoCmd EXCEPT !.pgid = npid + 1, !.pids = Forked(F), !.waits = PidsForked(F), !.count = n]
           ELSE pc' = "seq" /\ UNCHANGED <<tty, masked, cmd>>
  BY DEF LaunchForeground
<1>3. PICK F \in Forks(n) :
        /\ Fork(F)
        /\ IF 1 \in F
           THEN /\ tty' = npid + 1 /\ masked' = TRUE /\ pc' = "fgloop"
                /\ cmd' = [NoCmd EXCEPT !.pgid = npid + 1, !.pids = Forked(F), !.waits = PidsForked(F), !.count = n]
           ELSE pc' = "seq" /\ UNCHANGED <<tty, masked, cmd>>
  BY <1>2
<1>4. /\ ks' \in [Pids -> {"free", "run", "stop", "dead", "gone"}] /\ pgrp' \in [Pids -> Pids \cup {Shell}]
      /\ npid' \in 0..NPID /\ npid <= npid' /\ UNCHANGED <<rep, chld>> /\ KernelOK' /\ GoneStays
      /\ Forked(F) \in Seq(Pids) /\ PidsForked(F) \in SUBSET Pids
      /\ 1 \in F => npid + 1 \in Pids /\ Fresh(Forked(F))
  BY <1>3, ForkFacts
<1>5. PipeSub
  BY <1>1 DEF PipeSub
<1>6. Frame(0) /\ 0 \in 0..job_count
  BY <1>1, <1>4, <1>5, SameTable, SameFrame
<1>7. CASE 1 \notin F
  <2>1. TypeOK'
    BY <1>0, <1>1, <1>3, <1>4, <1>7 DEF TypeOK, PcNames
  <2>2. Moves(0) /\ ~Launched'
    BY <1>1, <1>3, <1>7 DEF Moves, CopyPcs, Launched
  <2> QED BY <1>4, <1>6, <2>1, <2>2, FrameInv
<1>8. CASE 1 \in F
  <2>1. PICK g \in Pids, s \in Seq(Pids), w \in SUBSET Pids, c \in Nat : g = npid + 1 /\ s = Forked(F) /\ w = PidsForked(F) /\ c = n
    BY <1>4, <1>8, MaxStagesAssumption
  <2>2. cmd' = [NoCmd EXCEPT !.pgid = g, !.pids = s, !.waits = w, !.count = c] /\ tty' = g /\ pc' = "fgloop"
    BY <1>3, <1>8, <2>1
  <2>3. masked' \in BOOLEAN
    BY <1>3, <1>8
  <2>4. cmd' \in Cmds /\ cmd'.pids = s
    <3>1. PICK a : a = [NoCmd EXCEPT !.pgid = g]
      OBVIOUS
    <3>2. PICK b : b = [a EXCEPT !.pids = s]
      OBVIOUS
    <3>3. PICK d : d = [b EXCEPT !.waits = w]
      OBVIOUS
    <3>4. a \in Cmds
      BY <3>1, NothingTypes DEF Cmds
    <3>5. b \in Cmds /\ b.pids = s
      BY <3>2, <3>4 DEF Cmds
    <3>6. d \in Cmds /\ d.pids = s
      BY <3>3, <3>5 DEF Cmds
    <3>7. cmd' = [d EXCEPT !.count = c]
      BY <2>2, <3>1, <3>2, <3>3
    <3> QED BY <3>6, <3>7 DEF Cmds
  <2>5. TypeOK'
    BY <1>0, <1>1, <1>4, <2>2, <2>3, <2>4 DEF TypeOK, PcNames
  <2>6. Moves(0)
    BY <1>1, <2>2 DEF Moves, CopyPcs
  <2>7. TableOK' /\ MarkedOK' /\ CopyOK' /\ CountOK' /\ PipeOK'
    BY <1>6, <2>5, <2>6, FrameTable, FrameCopy, FrameCount, FramePipe
  <2>8. LaunchedOK'
    <3>1. Fresh(s)
      BY <1>4, <1>8, <2>1
    <3>2. Proper(cmd.pids)'
      BY <2>4, <3>1 DEF Fresh, Proper
    <3>3. \A k \in DOMAIN pipe' : \A j \in DOMAIN cmd'.pids : cmd'.pids[j] # pipe'[k]
      BY <1>1, <2>4, <3>1 DEF Fresh
    <3>4. \A i \in 1..job_count' : Apart(cmd.pids, PidsOf(i))'
      BY <1>1, <2>4, <3>1 DEF Fresh, Apart, PidsOf
    <3> QED BY <3>2, <3>3, <3>4 DEF LaunchedOK
  <2> QED BY <1>4, <2>5, <2>7, <2>8 DEF JobInv
<1> QED BY <1>7, <1>8

LEMMA InputJob == JobInv /\ Input => JobInv'
<1> SUFFICES ASSUME JobInv, Input PROVE JobInv'
  OBVIOUS
<1>0. TypeOK /\ KernelOK
  BY DEF JobInv
<1>1. CASE Finish \/ BlankLine \/ Eof
  <2>1. /\ UNCHANGED <<ks, rep, pgrp, npid, chld, masked, in_handler, tty, alarm, cmd>>
        /\ UNCHANGED <<jobs, job_count, next_job_number, pipe>>
        /\ pc \in {"prompt", "seq"} /\ pc' \in {"drain", "prompt", "exited"}
    BY <1>1 DEF Finish, BlankLine, Eof, AtCommand, tableVars, kernelVars
  <2>2. previous_eof' \in BOOLEAN
    BY <1>0, <1>1 DEF Finish, BlankLine, Eof, TypeOK
  <2>3. TypeOK' /\ KernelOK' /\ GoneStays
    BY <1>0, <2>1, <2>2 DEF TypeOK, KernelOK, GoneStays, PcNames
  <2> QED BY <2>1, <2>3, SameTable, QuietInv DEF Launched, CopyPcs
<1>2. CASE ResumeLookup
  <2>1. /\ UNCHANGED <<ks, rep, pgrp, npid, chld, masked, in_handler, tty, alarm>>
        /\ UNCHANGED <<jobs, job_count, next_job_number, pipe>>
        /\ pc = "prompt" /\ pc' = "resume" /\ previous_eof' \in BOOLEAN
    BY <1>2 DEF ResumeLookup, tableVars, kernelVars
  <2>2. PICK i \in 1..job_count, fg \in BOOLEAN, timeout \in BOOLEAN :
          cmd' = [NoCmd EXCEPT !.pgid = jobs[i].pgid, !.num = jobs[i].num,
                    !.waits = {jobs[i].procs[j].pid : j \in Unexited(i)},
                    !.count = Cardinality(Unexited(i)), !.fg = fg, !.timeout = timeout]
    BY <1>2 DEF ResumeLookup
  <2>3. i \in Slots
    BY <1>0, SlotsInTable
  <2>4. PICK g \in Pids \cup {Shell}, m \in Nat : g = jobs[i].pgid /\ m = jobs[i].num
    BY <1>0, <2>3, SlotType
  <2>5. DOMAIN jobs[i].procs = 1..Len(jobs[i].procs) /\ Len(jobs[i].procs) \in Nat
        /\ \A j \in DOMAIN jobs[i].procs : jobs[i].procs[j].pid \in Pids
    BY <1>0, <2>3, SlotType, ProcsType
  <2>6. PICK w \in SUBSET Pids : w = {jobs[i].procs[j].pid : j \in Unexited(i)}
    BY <2>5 DEF Unexited
  <2>7. PICK c \in Nat : c = Cardinality(Unexited(i))
    <3>1. Unexited(i) \in SUBSET (1..Len(jobs[i].procs))
      BY <2>5 DEF Unexited
    <3>2. IsFiniteSet(1..Len(jobs[i].procs))
      BY <2>5, FS_Interval
    <3> QED BY <3>1, <3>2, FS_Subset, FS_CardinalityType
  <2>8. cmd' = [NoCmd EXCEPT !.pgid = g, !.num = m, !.waits = w, !.count = c, !.fg = fg, !.timeout = timeout]
    BY <2>2, <2>4, <2>6, <2>7
  <2>9. cmd' \in Cmds
    <3>1. PICK a : a = [NoCmd EXCEPT !.pgid = g]
      OBVIOUS
    <3>2. PICK b : b = [a EXCEPT !.num = m]
      OBVIOUS
    <3>3. PICK d : d = [b EXCEPT !.waits = w]
      OBVIOUS
    <3>4. PICK e : e = [d EXCEPT !.count = c]
      OBVIOUS
    <3>5. PICK f : f = [e EXCEPT !.fg = fg]
      OBVIOUS
    <3>6. a \in Cmds
      BY <3>1, NothingTypes DEF Cmds
    <3>7. b \in Cmds
      BY <3>2, <3>6 DEF Cmds
    <3>8. d \in Cmds
      BY <3>3, <3>7 DEF Cmds
    <3>9. e \in Cmds
      BY <3>4, <3>8 DEF Cmds
    <3>10. f \in Cmds
      BY <3>5, <3>9 DEF Cmds
    <3>11. cmd' = [f EXCEPT !.timeout = timeout]
      BY <2>8, <3>1, <3>2, <3>3, <3>4, <3>5
    <3> QED BY <3>10, <3>11 DEF Cmds
  <2>10. TypeOK' /\ KernelOK' /\ GoneStays
    BY <1>0, <2>1, <2>9 DEF TypeOK, KernelOK, GoneStays, PcNames
  <2> QED BY <2>1, <2>10, SameTable, QuietInv DEF Launched, CopyPcs
<1> QED BY <1>1, <1>2, BackgroundJob, ForegroundJob DEF Input

\* The job table, the notification pipe and the kernel agree in every
\* reachable state: the types, no process in two jobs but for the slot being
\* copied, remaining never too small, and nothing in the pipe but finished jobs.
THEOREM JobInvariant == Spec => []JobInv
<1>1. JobInv /\ [Next]_vars => JobInv'
  <2> SUFFICES ASSUME JobInv, [Next]_vars PROVE JobInv'
    OBVIOUS
  <2>1. CASE Next
    BY <2>1, ChildrenJob, HandlerJob, WaitJob, AlarmJob, DrainJob, ResumeJob, InputJob DEF Next
  <2>2. CASE UNCHANGED vars
    <3>1. /\ UNCHANGED <<ks, rep, pgrp, npid, chld, masked, in_handler, tty, alarm, pc, cmd, previous_eof>>
          /\ UNCHANGED <<jobs, job_count, next_job_number, pipe>>
      BY <2>2 DEF vars, kernelVars, tableVars
    <3>2. TypeOK' /\ KernelOK' /\ GoneStays
      BY <3>1 DEF JobInv, TypeOK, KernelOK, GoneStays
    <3> QED BY <3>1, <3>2, SameTable, QuietInv DEF Launched
  <2> QED BY <2>1, <2>2
<1> QED BY InitJob, <1>1, PTL DEF Spec

\* A completion is written to the notification pipe at most once, and only for
\* a job all of whose processes have been collected, whatever the children, the
\* handler, the foreground waits, resume and an interrupted drain do.
THEOREM FinishReportedCorrect == Spec => []FinishReported
<1>1. JobInv => FinishReported
  <2> SUFFICES ASSUME JobInv PROVE FinishReported
    OBVIOUS
  <2>0. TypeOK /\ TableOK /\ PipeOK /\ \A i \in 1..job_count : i \in Slots
    BY SlotsInTable DEF JobInv
  <2>1. \A i, j \in DOMAIN pipe : pipe[i] = pipe[j] => i = j
    BY <2>0 DEF PipeOK
  <2>2. ASSUME NEW k \in DOMAIN pipe, NEW i \in 1..job_count, jobs[i].procs[1].pid = pipe[k],
               NEW j \in DOMAIN jobs[i].procs
        PROVE  ks[jobs[i].procs[j].pid] = "gone"
    <3>1. PidsOf(i) \in Seq(Pids) /\ PidsOf(i) # <<>>
      BY <2>0, SlotType DEF TableOK, Proper
    <3>2. 1 \in DOMAIN PidsOf(i)
      BY <3>1, EmptySeq, LenProperties
    <3>3. PidsOf(i)[1] = pipe[k]
      BY <2>0, <2>2, <3>2, SlotType
    <3>4. Over(i)
      BY <2>0, <3>3 DEF PipeOK
    <3> QED BY <2>0, <3>4, SlotType DEF Over, Left
  <2> QED BY <2>1, <2>2 DEF FinishReported
<1> QED BY JobInvariant, <1>1, PTL

-----------------------------------------------------------------------------
(***************************************************************************)
(* NeverForgotten: a second invariant on top of the first. The table is    *)
(* described slot by slot, what a foreground wait or a resume took down    *)
(* when it began (cmd) is related to the table as it is now.               *)
(***************************************************************************)

\* Slot i lists process p, whatever it says of its state; some slot does.
Lists(i, p) == \E j \in DOMAIN PidsOf(i) : PidsOf(i)[j] = p
Known(p) == \E i \in 1..job_count : Lists(i, p)

\* proc_count is the number of processes, but for a slot half overwritten.
LenOK == \A i \in 1..job_count : ~Torn(i) => jobs[i].count = Len(PidsOf(i))

\* The processes of a job are in its group.
GroupOK == \A i \in 1..job_count : \A j \in DOMAIN PidsOf(i) : pgrp[PidsOf(i)[j]] = jobs[i].pgid

\* Job numbers are given out once.
NumOK ==
  /\ \A i \in 1..job_count : jobs[i].num < next_job_number
  /\ \A i, k \in 1..job_count :
       i # k /\ ~(Copied /\ {i, k} = {cmd.slot, job_count}) => jobs[i].num # jobs[k].num

\* The drain copies the last slot onto itself only when that job is over.
LastOK == Copied /\ cmd.slot = job_count => Over(job_count)

SlotsOK == LenOK /\ GroupOK /\ NumOK /\ LastOK

FgPcs == {"fgloop", "fgblock", "fgstopped"}
Waiting == pc \in FgPcs \cup {"resume", "fgdone", "timedout"}
Resuming == Waiting /\ (pc = "resume" \/ cmd.fg)

\* What is waited for is in the group waited for, and is not more than is counted;
\* what is done is gone, and the wait ends when nothing is left.
WaitsOK ==
  Waiting => /\ \A p \in cmd.waits : p \in 1..npid /\ pgrp[p] = cmd.pgid
             /\ Cardinality(cmd.waits) <= cmd.count
             /\ cmd.done \subseteq cmd.waits /\ \A p \in cmd.done : ks[p] = "gone"
             /\ pc = "fgdone" => \A p \in cmd.waits : ~Alive(p)

\* A resume waits for exactly the processes of its job that are left.
ResumeOK ==
  Resuming => /\ \A i \in 1..job_count : jobs[i].num = cmd.num =>
                   \A p \in Pids : Lists(i, p) /\ Alive(p) => p \in cmd.waits
              /\ \A p \in cmd.waits : Alive(p) => Known(p)

\* What a launched pipeline waits for is what a stop will register.
LaunchOK == Waiting /\ ~Resuming => cmd.waits = {cmd.pids[j] : j \in DOMAIN cmd.pids}

\* Only a resume in the foreground has the alarm armed.
AlarmOK == alarm => Waiting /\ pc # "resume" /\ cmd.fg

CmdOK == WaitsOK /\ ResumeOK /\ LaunchOK /\ AlarmOK

KnownInv == SlotsOK /\ CmdOK

\* The step of NeverForgotten.
Remembers ==
  \A p \in Pids :
    /\ Alive(p)' /\ pgrp'[p] # Shell
    /\ ks[p] = "free" \/ Owned(p)
    => \/ Owned(p)'
       \/ pc = "timedout"
       \/ job_count = MAX_JOBS /\ (ks[p] = "free" \/ pc = "fgstopped")

\* For a live process, listed anywhere is listed where the handler will find it.
LEMMA KnownTracked ==
  ASSUME JobInv, LenOK, NEW p \in Pids, Alive(p)
  PROVE  Tracked(p) <=> Known(p)
<1>0. TypeOK /\ MarkedOK /\ CopyOK /\ job_count \in Nat /\ \A i \in 1..job_count : i \in Slots
  BY SlotsInTable DEF JobInv
<1>1. ASSUME Tracked(p) PROVE Known(p)
  <2>1. PICK i \in 1..job_count : Listed(i, p) # {}
    BY <1>1 DEF Tracked, Matching
  <2>2. PICK j : j \in DOMAIN jobs[i].procs /\ jobs[i].procs[j].pid = p
    BY <2>1 DEF Listed
  <2>3. j \in DOMAIN PidsOf(i) /\ PidsOf(i)[j] = p
    BY <1>0, <2>2, SlotType
  <2> QED BY <2>3 DEF Known, Lists
<1>2. ASSUME NEW i \in 1..job_count, ~Torn(i), Lists(i, p) PROVE Tracked(p)
  <2>1. PICK j \in DOMAIN PidsOf(i) : PidsOf(i)[j] = p
    BY <1>2 DEF Lists
  <2>2. /\ DOMAIN PidsOf(i) = 1..Len(PidsOf(i)) /\ j \in DOMAIN jobs[i].procs /\ jobs[i].procs[j].pid = p
    BY <1>0, <2>1, SlotType, LenProperties
  <2>3. j \in 1..jobs[i].count
    BY <1>2, <2>1, <2>2 DEF LenOK
  <2>4. ~jobs[i].procs[j].exited
    <3>1. j \notin ExitsOf(i)
      BY <1>0, <2>1 DEF MarkedOK, Alive
    <3> QED BY <2>2, <3>1, Zenon DEF ExitsOf
  <2>5. j \in Listed(i, p)
    BY <2>2, <2>3, <2>4, Zenon DEF Listed
  <2> QED BY <2>5 DEF Tracked, Matching
<1>3. ASSUME Known(p) PROVE Tracked(p)
  <2>1. PICK i \in 1..job_count : Lists(i, p)
    BY <1>3 DEF Known
  <2>2. CASE Torn(i)
    <3>1. PidsOf(i) = PidsOf(job_count) /\ job_count \in 1..job_count
      BY <1>0, <2>1, <2>2 DEF Torn, Copied, CopyOK
    <3>2. Lists(job_count, p) /\ ~Torn(job_count)
      BY <2>1, <3>1 DEF Lists, Torn
    <3> QED BY <1>2, <3>1, <3>2
  <2> QED BY <1>2, <2>1, <2>2
<1> QED BY <1>1, <1>3

-----------------------------------------------------------------------------
(* Steps that leave every slot alone, or take one out, as in Frame.         *)

JobFrom(i, k) ==
  /\ PidsOf(i)' = PidsOf(k) /\ jobs'[i].num = jobs[k].num /\ jobs'[i].pgid = jobs[k].pgid
  /\ jobs'[i].count = jobs[k].count

\* Processes stay in their groups, and what is over stays over.
Ages ==
  \A p \in 1..npid : /\ pgrp'[p] = pgrp[p] /\ (Alive(p)' => Alive(p))
                     /\ ks[p] = "gone" => ks'[p] = "gone"

JobFrame(s) ==
  /\ Ages /\ npid <= npid' /\ next_job_number <= next_job_number'
  /\ job_count' = (IF s = 0 THEN job_count ELSE job_count - 1)
  /\ \A i \in 1..job_count' : JobFrom(i, Src(i, s))

LEMMA ListedGiven ==
  ASSUME JobInv, NEW i \in 1..job_count, NEW p, Lists(i, p)
  PROVE  p \in 1..npid /\ p \in Pids
<1>1. TypeOK /\ Proper(PidsOf(i)) /\ i \in Slots
  BY SlotsInTable DEF JobInv, TableOK
<1> QED BY <1>1, SlotType DEF Proper, Lists

LEMMA JobSrc ==
  ASSUME JobInv, JobInv', NEW s \in 0..job_count, JobFrame(s)
  PROVE  /\ \A i \in 1..job_count' : Src(i, s) \in 1..job_count
         /\ \A i, k \in 1..job_count' : i # k => Src(i, s) # Src(k, s)
         /\ job_count' <= job_count /\ job_count' \in Nat /\ job_count \in Nat
         /\ s = 0 => \A i \in 1..job_count' : Src(i, s) = i
         /\ s = job_count /\ s # 0 => \A i \in 1..job_count' : Src(i, s) = i /\ i # job_count
         /\ \A k \in 1..job_count : s = 0 \/ k # s => \E i \in 1..job_count' : Src(i, s) = k
<1>1. job_count \in Nat /\ job_count' \in Nat
  BY SlotsInTable DEF JobInv, TypeOK
<1>2. job_count' = (IF s = 0 THEN job_count ELSE job_count - 1)
  BY DEF JobFrame
<1>3. ASSUME NEW k \in 1..job_count, s = 0 \/ k # s PROVE \E i \in 1..job_count' : Src(i, s) = k
  <2>1. CASE k = job_count /\ s # 0
    <3>1. s \in 1..job_count' /\ Src(s, s) = k
      BY <1>1, <1>2, <1>3, <2>1 DEF Src
    <3> QED BY <3>1
  <2>2. CASE ~(k = job_count /\ s # 0)
    <3>1. k \in 1..job_count' /\ Src(k, s) = k
      BY <1>1, <1>2, <1>3, <2>2 DEF Src
    <3> QED BY <3>1
  <2> QED BY <2>1, <2>2
<1> QED BY <1>1, <1>2, <1>3 DEF Src

LEMMA FrameSlots ==
  ASSUME JobInv, JobInv', SlotsOK, NEW s \in 0..job_count, JobFrame(s), Moves(s)
  PROVE  SlotsOK'
<1>0. TypeOK /\ TypeOK' /\ next_job_number \in Nat /\ next_job_number' \in Nat
  BY DEF JobInv, TypeOK
<1>1. /\ \A i \in 1..job_count' : Src(i, s) \in 1..job_count /\ JobFrom(i, Src(i, s))
      /\ \A i, k \in 1..job_count' : i # k => Src(i, s) # Src(k, s)
      /\ s = 0 => \A i \in 1..job_count' : Src(i, s) = i
      /\ s = job_count /\ s # 0 => \A i \in 1..job_count' : Src(i, s) = i /\ i # job_count
      /\ s = 0 => job_count' = job_count
  BY JobSrc DEF JobFrame
<1>2. LenOK'
  <2> SUFFICES ASSUME NEW i \in 1..job_count', ~Torn(i)' PROVE jobs'[i].count = Len(PidsOf(i)')
    BY DEF LenOK
  <2>1. ~Torn(Src(i, s))
    BY <1>1 DEF Moves, Torn, CopyPcs
  <2> QED BY <1>1, <2>1 DEF JobFrom, SlotsOK, LenOK
<1>3. GroupOK'
  <2> SUFFICES ASSUME NEW i \in 1..job_count', NEW j \in DOMAIN PidsOf(i)' PROVE pgrp'[PidsOf(i)'[j]] = jobs'[i].pgid
    BY DEF GroupOK
  <2>1. PICK k \in 1..job_count : k = Src(i, s) /\ JobFrom(i, k)
    BY <1>1
  <2>2. j \in DOMAIN PidsOf(k) /\ PidsOf(i)'[j] = PidsOf(k)[j] /\ jobs'[i].pgid = jobs[k].pgid
    BY <2>1 DEF JobFrom
  <2>3. PidsOf(k)[j] \in 1..npid
    BY <2>2 DEF JobInv, TableOK, Proper
  <2>4. pgrp[PidsOf(k)[j]] = jobs[k].pgid
    BY <2>2 DEF SlotsOK, GroupOK
  <2> QED BY <2>2, <2>3, <2>4 DEF JobFrame, Ages
<1>4. NumOK'
  <2>1. ASSUME NEW i \in 1..job_count' PROVE jobs'[i].num < next_job_number'
    <3>1. PICK k \in 1..job_count : k = Src(i, s) /\ jobs'[i].num = jobs[k].num
      BY <1>1 DEF JobFrom
    <3>2. k \in Slots
      BY <1>0, SlotsInTable
    <3>3. jobs[k].num \in Nat /\ jobs[k].num < next_job_number
      BY <1>0, <3>2, SlotType DEF SlotsOK, NumOK
    <3> QED BY <1>0, <3>1, <3>3 DEF JobFrame
  <2>2. ASSUME NEW i \in 1..job_count', NEW k \in 1..job_count', i # k, ~(Copied' /\ {i, k} = {cmd'.slot, job_count'})
        PROVE  jobs'[i].num # jobs'[k].num
    <3>1. PICK a \in 1..job_count, b \in 1..job_count :
            a = Src(i, s) /\ b = Src(k, s) /\ a # b /\ jobs'[i].num = jobs[a].num /\ jobs'[k].num = jobs[b].num
      BY <1>1, <2>2 DEF JobFrom
    <3>2. ~(Copied /\ {a, b} = {cmd.slot, job_count})
      <4>1. CASE pc' = pc /\ cmd' = cmd /\ s = 0
        BY <1>1, <2>2, <3>1, <4>1 DEF Copied
      <4>2. CASE pc \in CopyPcs /\ s = job_count /\ s # 0
        BY <1>1, <3>1, <4>2
      <4>3. CASE pc \notin CopyPcs
        BY <4>3 DEF Copied, CopyPcs
      <4>4. pc = "shrink" => job_count # 0
        BY DEF JobInv, CopyOK
      <4> QED BY <4>1, <4>2, <4>3, <4>4 DEF Moves
    <3> QED BY <3>1, <3>2 DEF SlotsOK, NumOK
  <2> QED BY <2>1, <2>2 DEF NumOK
<1>5. LastOK'
  <2> SUFFICES ASSUME Copied', cmd'.slot = job_count' PROVE Over(job_count)'
    BY DEF LastOK
  <2>1. pc' = pc /\ cmd' = cmd /\ s = 0 /\ job_count' = job_count
    BY <1>1 DEF Moves, Copied, CopyPcs
  <2>2. job_count \in 1..job_count
    BY <2>1 DEF Copied, JobInv, CopyOK
  <2>3. Over(job_count) /\ PidsOf(job_count)' = PidsOf(job_count)
    <3>1. JobFrom(job_count, job_count)
      BY <1>1, <2>1, <2>2
    <3> QED BY <2>1, <3>1 DEF SlotsOK, LastOK, Copied, JobFrom, PidsOf
  <2>4. \A j \in DOMAIN PidsOf(job_count) : PidsOf(job_count)[j] \in 1..npid
    BY <2>2 DEF JobInv, TableOK, Proper
  <2> QED BY <2>3, <2>4 DEF Over, Left, JobFrame, Ages
<1> QED BY <1>2, <1>3, <1>4, <1>5 DEF SlotsOK


\* No live process is lost from the table but one that was in the slot taken out only.
LEMMA FrameKnown ==
  ASSUME JobInv, JobInv', NEW s \in 0..job_count, JobFrame(s), NEW p, Known(p),
         s # 0 /\ Lists(s, p) => \E k \in 1..job_count : k # s /\ Lists(k, p)
  PROVE  Known(p)'
<1>1. PICK k \in 1..job_count : Lists(k, p) /\ (s = 0 \/ k # s)
  BY DEF Known
<1>2. PICK i \in 1..job_count' : Src(i, s) = k
  BY <1>1, JobSrc
<1>3. PidsOf(i)' = PidsOf(k)
  BY <1>2 DEF JobFrame, JobFrom
<1> QED BY <1>1, <1>3 DEF Known, Lists

\* The command goes on, or goes on to its next stage.
LEMMA CmdGoesOn ==
  ASSUME JobInv, JobInv', CmdOK, JobFrame(0), Waiting, Waiting', Resuming' <=> Resuming,
         cmd'.waits = cmd.waits, cmd'.pgid = cmd.pgid, cmd'.num = cmd.num, cmd'.count = cmd.count, cmd'.pids = cmd.pids,
         cmd'.fg = cmd.fg, cmd'.done \subseteq cmd.waits, \A p \in cmd'.done : ks'[p] = "gone",
         pc' = "fgdone" => \A p \in cmd.waits : ~Alive(p)', alarm' => pc' # "resume" /\ cmd.fg
  PROVE  CmdOK'
<1>0. 0 \in 0..job_count /\ job_count' = job_count /\ npid <= npid' /\ npid \in Nat /\ npid' \in Nat
  BY SlotsInTable, NPIDAssumption DEF JobInv, TypeOK, JobFrame
<1>1. \A i \in 1..job_count : JobFrom(i, i)
  BY <1>0 DEF JobFrame, Src
<1>2. \A p \in cmd.waits : p \in 1..npid /\ pgrp[p] = cmd.pgid
  BY DEF CmdOK, WaitsOK
<1>3. WaitsOK'
  <2>1. \A p \in cmd.waits : p \in 1..npid' /\ pgrp'[p] = cmd.pgid
    BY <1>0, <1>2 DEF JobFrame, Ages
  <2>2. Cardinality(cmd.waits) <= cmd.count
    BY DEF CmdOK, WaitsOK
  <2> QED BY <2>1, <2>2 DEF WaitsOK
<1>4. ResumeOK'
  <2> SUFFICES ASSUME Resuming' PROVE ResumeOK!2'
    BY DEF ResumeOK
  <2>1. ASSUME NEW i \in 1..job_count', jobs'[i].num = cmd'.num, NEW p \in Pids, Lists(i, p)', Alive(p)' PROVE p \in cmd'.waits
    <3>1. i \in 1..job_count /\ Lists(i, p) /\ jobs[i].num = cmd.num
      BY <1>0, <1>1, <2>1 DEF Lists, JobFrom
    <3>2. Alive(p)
      BY <2>1, <3>1, ListedGiven DEF JobFrame, Ages
    <3> QED BY <3>1, <3>2 DEF CmdOK, ResumeOK
  <2>2. ASSUME NEW p \in cmd'.waits, Alive(p)' PROVE Known(p)'
    <3>1. p \in cmd.waits /\ Alive(p)
      BY <1>2, <2>2 DEF JobFrame, Ages
    <3>2. Known(p)
      BY <3>1 DEF CmdOK, ResumeOK
    <3> QED BY <1>0, <3>2, FrameKnown
  <2> QED BY <2>1, <2>2
<1>5. LaunchOK'
  BY DEF CmdOK, LaunchOK
<1>6. AlarmOK'
  BY DEF AlarmOK
<1> QED BY <1>3, <1>4, <1>5, <1>6 DEF CmdOK

\* No command is waited for.
LEMMA NoWait ==
  ASSUME ~Waiting', ~alarm'
  PROVE  CmdOK'
  BY DEF CmdOK, WaitsOK, ResumeOK, LaunchOK, AlarmOK, Resuming

\* A step of somebody else.
LEMMA CmdStays ==
  ASSUME JobInv, JobInv', CmdOK, JobFrame(0), UNCHANGED <<pc, cmd, alarm>>
  PROVE  CmdOK'
<1>1. CASE Waiting
  <2>1. Waiting' /\ (Resuming' <=> Resuming)
    BY <1>1 DEF Waiting, Resuming
  <2>2. cmd.waits \subseteq 1..npid /\ cmd.done \subseteq cmd.waits
    BY <1>1 DEF CmdOK, WaitsOK
  <2>3. \A p \in cmd.done : ks'[p] = "gone"
    BY <1>1, <2>2 DEF CmdOK, WaitsOK, JobFrame, Ages
  <2>4. pc = "fgdone" => \A p \in cmd.waits : ~Alive(p)'
    BY <1>1, <2>2 DEF CmdOK, WaitsOK, JobFrame, Ages
  <2>5. alarm' => pc' # "resume" /\ cmd.fg
    BY DEF CmdOK, AlarmOK
  <2> QED BY <1>1, <2>1, <2>2, <2>3, <2>4, <2>5, CmdGoesOn
<1>2. CASE ~Waiting
  <2>1. ~Waiting' /\ ~alarm'
    BY <1>2 DEF Waiting, CmdOK, AlarmOK
  <2> QED BY <2>1, NoWait
<1> QED BY <1>1, <1>2

\* A step that makes no process: whoever was listed still is, and whoever was
\* waited for still is, or is listed.
LEMMA StepRemembers ==
  ASSUME JobInv, JobInv', SlotsOK, SlotsOK', \A p \in Pids : Alive(p)' => Alive(p),
         \A p \in Pids : Alive(p)' /\ Known(p) => Known(p)',
         \A p \in cmd.waits : pc \in FgPcs /\ Alive(p)' => Known(p)' \/ (pc' \in FgPcs /\ p \in cmd'.waits)
  PROVE  Remembers
<1> SUFFICES ASSUME NEW p \in Pids, Alive(p)', ks[p] = "free" \/ Owned(p) PROVE Owned(p)'
  BY DEF Remembers
<1>1. Alive(p) /\ Owned(p)
  BY DEF Alive
<1>2. (Tracked(p) <=> Known(p)) /\ (Tracked(p)' <=> Known(p)')
  <2>1. Tracked(p) <=> Known(p)
    BY <1>1, KnownTracked DEF SlotsOK
  <2>2. Tracked(p)' <=> Known(p)'
    BY KnownTracked, PTL DEF SlotsOK
  <2> QED BY <2>1, <2>2
<1> QED BY <1>1, <1>2 DEF Owned, FgPcs

\* A step that leaves the table and the main loop alone.
LEMMA QuietStep ==
  ASSUME JobInv, JobInv', KnownInv, JobFrame(0), UNCHANGED <<pc, cmd, alarm>>, \A p \in Pids : Alive(p)' => Alive(p)
  PROVE  KnownInv' /\ Remembers
<1>0. 0 \in 0..job_count
  BY SlotsInTable DEF JobInv
<1>1. SlotsOK'
  <2>1. Moves(0)
    BY DEF Moves
  <2> QED BY <1>0, <2>1, FrameSlots DEF KnownInv
<1>2. CmdOK'
  BY CmdStays DEF KnownInv
<1>3. \A p \in Pids : Known(p) => Known(p)'
  BY <1>0, FrameKnown
<1> QED BY <1>1, <1>2, <1>3, StepRemembers DEF KnownInv

-----------------------------------------------------------------------------
(* What the updates of the table keep of a job.                             *)

LEMMA SameJobs ==
  ASSUME jobs' = jobs
  PROVE  \A k : JobFrom(k, k)
  BY DEF JobFrom, PidsOf

LEMMA MarkJobKeeps ==
  ASSUME TypeOK, NEW num, NEW st \in {"run", "stop"}, MarkJob(num, st)
  PROVE  \A k \in Slots : JobFrom(k, k)
<1> SUFFICES ASSUME NEW k \in Slots PROVE JobFrom(k, k)
  OBVIOUS
<1>1. PidsOf(k)' = PidsOf(k) /\ jobs'[k].count = jobs[k].count
  BY MarkJobEffect DEF SlotSame
<1>2. PICK s : jobs'[k] = jobs[k] \/ jobs'[k] = [jobs[k] EXCEPT !.procs = s]
  BY DEF MarkJob
<1>3. jobs'[k].num = jobs[k].num /\ jobs'[k].pgid = jobs[k].pgid
  BY <1>2, SlotType DEF JobRecs
<1> QED BY <1>1, <1>3 DEF JobFrom

LEMMA RecordKeeps ==
  ASSUME TypeOK, NEW p \in Pids, NEW r, Record(p, r)
  PROVE  \A k \in Slots : JobFrom(k, k)
<1>1. CASE Matching(p) = {}
  BY <1>1, SameJobs DEF Record
<1>2. CASE Matching(p) # {}
  <2>1. PICK i, j : i = Min(Matching(p)) /\ j = Min(Listed(i, p))
    OBVIOUS
  <2>2. i \in Slots /\ j \in DOMAIN jobs[i].procs /\ jobs[i] \in JobRecs
    BY <1>2, <2>1, RecordPlace, SlotType
  <2>3. CASE r # "exit"
    <3>1. PICK st \in {"run", "stop"} : st = IF r = "stop" THEN "stop" ELSE "run"
      OBVIOUS
    <3>2. jobs' = [jobs EXCEPT ![i] = WithProc(jobs[i], j, [jobs[i].procs[j] EXCEPT !.state = st])]
      BY <1>2, <2>1, <2>3, <3>1 DEF Record
    <3>3. \A k \in Slots : SlotSame(k)
      BY <2>2, <3>2, StateMarked
    <3>4. PICK y : y = WithProc(jobs[i], j, [jobs[i].procs[j] EXCEPT !.state = st])
      OBVIOUS
    <3>5. y.num = jobs[i].num /\ y.pgid = jobs[i].pgid
      BY <2>2, <3>4 DEF WithProc, JobRecs
    <3>6. \A k \in Slots : jobs'[k] = IF k = i THEN y ELSE jobs[k]
      BY <3>2, <3>4 DEF TypeOK
    <3> QED BY <3>3, <3>5, <3>6 DEF JobFrom, SlotSame
  <2>4. CASE r = "exit"
    <3>0. PICK t \in BOOLEAN : t = TRUE
      BY Zenon
    <3>1. PICK n \in Int : n = jobs[i].remaining - 1
      BY <2>2, SlotType
    <3>2. jobs' = [jobs EXCEPT ![i] = [WithProc(jobs[i], j, [jobs[i].procs[j] EXCEPT !.exited = t]) EXCEPT !.remaining = n]]
      BY <1>2, <2>1, <2>4, <3>0, <3>1 DEF Record
    <3>3. /\ \A k \in Slots \ {i} : SlotSame(k)
          /\ PidsOf(i)' = PidsOf(i) /\ jobs'[i].count = jobs[i].count
      BY <2>2, <3>2, ExitMarked
    <3>4. PICK y : y = [WithProc(jobs[i], j, [jobs[i].procs[j] EXCEPT !.exited = t]) EXCEPT !.remaining = n]
      OBVIOUS
    <3>5. y.num = jobs[i].num /\ y.pgid = jobs[i].pgid
      BY <2>2, <3>4 DEF WithProc, JobRecs
    <3>6. \A k \in Slots : jobs'[k] = IF k = i THEN y ELSE jobs[k]
      BY <3>2, <3>4 DEF TypeOK
    <3> QED BY <3>3, <3>5, <3>6 DEF JobFrom, SlotSame
  <2> QED BY <2>3, <2>4
<1> QED BY <1>1, <1>2

LEMMA TakenJobs ==
  ASSUME TypeOK, NEW s \in 1..job_count, jobs' = WithoutSlot(s)
  PROVE  \A i \in 1..(job_count - 1) : JobFrom(i, Src(i, s))
<1>1. job_count \in Slots /\ s \in Slots /\ job_count \in Nat /\ \A i \in 1..(job_count - 1) : i \in Slots /\ i # job_count
  BY MaxJobsAssumption DEF TypeOK, Slots
<1>2. \A i \in Slots : jobs'[i] = IF i = job_count THEN NoSlot ELSE IF i = s THEN jobs[job_count] ELSE jobs[i]
  BY <1>1 DEF WithoutSlot, TypeOK
<1> SUFFICES ASSUME NEW i \in 1..(job_count - 1) PROVE JobFrom(i, Src(i, s))
  OBVIOUS
<1>3. PICK k : k = Src(i, s)
  OBVIOUS
<1>4. jobs'[i] = jobs[k]
  BY <1>1, <1>2, <1>3 DEF Src
<1>5. JobFrom(i, k)
  BY <1>4 DEF JobFrom, PidsOf
<1> QED BY <1>3, <1>5

\* remove_job_by_number() takes out the job with that number, if there is one.
LEMMA RemoveJobOf ==
  ASSUME TypeOK, NEW num, RemoveJob(num)
  PROVE  \/ UNCHANGED <<jobs, job_count>>
         \/ \E s \in 1..job_count : jobs' = WithoutSlot(s) /\ job_count' = job_count - 1 /\ jobs[s].num = num
<1>1. SlotOf(num) \in SUBSET Nat
  BY SlotsInTable DEF SlotOf
<1>2. CASE SlotOf(num) # {}
  <2>1. Min(SlotOf(num)) \in SlotOf(num)
    BY <1>1, <1>2, SmallestSlot
  <2> QED BY <1>2, <2>1 DEF RemoveJob, SlotOf
<1> QED BY <1>2 DEF RemoveJob

-----------------------------------------------------------------------------
(* The frame of the steps of the main loop.                                 *)

LEMMA KeptFrame ==
  ASSUME JobInv, JobInv', \A k \in Slots : JobFrom(k, k), UNCHANGED <<job_count, next_job_number>>, Ages, npid <= npid'
  PROVE  JobFrame(0) /\ 0 \in 0..job_count
<1>1. job_count \in Nat /\ next_job_number \in Nat /\ \A k \in 1..job_count : k \in Slots /\ Src(k, 0) = k
  BY SlotsInTable DEF JobInv, TypeOK, Src
<1> QED BY <1>1 DEF JobFrame

LEMMA OutFrame ==
  ASSUME JobInv, NEW s \in 1..job_count, jobs' = WithoutSlot(s), job_count' = job_count - 1,
         UNCHANGED <<ks, pgrp, npid, next_job_number>>
  PROVE  JobFrame(s) /\ s \in 0..job_count
<1>1. TypeOK /\ job_count \in Nat /\ next_job_number \in Nat /\ npid \in Nat
  BY SlotsInTable, NPIDAssumption DEF JobInv, TypeOK
<1>2. \A i \in 1..(job_count - 1) : JobFrom(i, Src(i, s))
  BY <1>1, TakenJobs
<1> QED BY <1>1, <1>2 DEF JobFrame, Ages, Alive

\* No process appears but by fork().
LEMMA NoBirth ==
  ASSUME JobInv', npid' = npid, Ages
  PROVE  \A p \in Pids : Alive(p)' => Alive(p)
<1>1. npid' \in Nat
  BY NPIDAssumption DEF JobInv, TypeOK
<1> QED BY <1>1 DEF JobInv, KernelOK, Ages, Alive, Pids

\* A step that takes out at most one job, with no live process of its own.
LEMMA FrameStep ==
  ASSUME JobInv, JobInv', KnownInv, NEW s \in 0..job_count, JobFrame(s), Moves(s), npid' = npid, CmdOK',
         \A p \in Pids : s # 0 /\ Lists(s, p) /\ Alive(p) => \E k \in 1..job_count : k # s /\ Lists(k, p),
         \A p \in cmd.waits : pc \in FgPcs /\ Alive(p)' => Known(p)' \/ (pc' \in FgPcs /\ p \in cmd'.waits)
  PROVE  KnownInv' /\ Remembers
<1>1. SlotsOK /\ SlotsOK'
  BY FrameSlots DEF KnownInv
<1>2. \A p \in Pids : Alive(p)' => Alive(p)
  BY NoBirth DEF JobFrame
<1>3. ASSUME NEW p \in Pids, Alive(p)', Known(p) PROVE Known(p)'
  BY <1>2, <1>3, FrameKnown
<1> QED BY <1>1, <1>2, <1>3, StepRemembers DEF KnownInv

-----------------------------------------------------------------------------
(* The steps, one by one.                                                   *)

LEMMA InitKnown == Init => KnownInv
<1> SUFFICES ASSUME Init PROVE KnownInv
  OBVIOUS
<1>1. 1..job_count = {} /\ pc = "prompt" /\ alarm = FALSE
  BY DEF Init
<1>2. SlotsOK
  BY <1>1 DEF SlotsOK, LenOK, GroupOK, NumOK, LastOK, Copied
<1>3. ~Waiting
  BY <1>1 DEF Waiting, FgPcs
<1> QED BY <1>1, <1>2, <1>3 DEF KnownInv, CmdOK, WaitsOK, ResumeOK, LaunchOK, AlarmOK, Resuming

LEMMA ChildrenKnown == ASSUME JobInv, JobInv', KnownInv, Children PROVE KnownInv' /\ Remembers
<1>1. PICK p \in Pids, s \in {"dead", "stop", "run"}, r \in {"exit", "stop", "cont"} : Change(p, s, r) /\ Alive(p)
  BY DEF Children, ChildExit, ChildStop, ChildContinue, Alive
<1>2. ks' = [ks EXCEPT ![p] = s] /\ UNCHANGED <<pgrp, npid, alarm, pc, cmd, jobs, job_count, next_job_number>>
  BY <1>1 DEF Change, tableVars
<1>3. Ages /\ npid <= npid'
  BY <1>1, <1>2, NPIDAssumption DEF JobInv, TypeOK, Ages, Alive, Pids
<1>4. JobFrame(0)
  BY <1>2, <1>3, SameJobs, KeptFrame
<1> QED BY <1>2, <1>3, <1>4, NoBirth, QuietStep

LEMMA HandlerKnown == ASSUME JobInv, JobInv', KnownInv, Handler PROVE KnownInv' /\ Remembers
<1>1. CASE HandlerEnter \/ HandlerReturn
  <2>1. UNCHANGED <<ks, pgrp, npid, alarm, pc, cmd, jobs, job_count, next_job_number>>
    BY <1>1 DEF HandlerEnter, HandlerReturn, tableVars, kernelVars
  <2>2. Ages /\ npid <= npid'
    BY <2>1, NPIDAssumption DEF JobInv, TypeOK, Ages, Alive
  <2>3. JobFrame(0)
    BY <2>1, <2>2, SameJobs, KeptFrame
  <2> QED BY <2>1, <2>2, <2>3, NoBirth, QuietStep
<1>2. CASE HandlerReap
  <2>1. PICK p \in Pids : Consume(p) /\ Record(p, rep[p])
    BY <1>2 DEF HandlerReap
  <2>2. UNCHANGED <<pgrp, npid, alarm, pc, cmd, job_count, next_job_number>>
    BY <1>2 DEF HandlerReap
  <2>3. Ages /\ npid <= npid'
    BY <2>1, <2>2, NPIDAssumption DEF JobInv, TypeOK, Consume, Ages, Alive, Pids
  <2>4. JobFrame(0)
    BY <2>1, <2>2, <2>3, RecordKeeps, KeptFrame DEF JobInv
  <2> QED BY <2>2, <2>3, <2>4, NoBirth, QuietStep
<1> QED BY <1>1, <1>2 DEF Handler

\* The alarm ends only the wait of a resume, whose processes are in the table.
LEMMA AlarmKnown == ASSUME JobInv, JobInv', KnownInv, Alarm PROVE KnownInv' /\ Remembers
<1>1. /\ UNCHANGED <<ks, pgrp, npid, cmd, jobs, job_count, next_job_number>> /\ alarm /\ alarm' = FALSE
      /\ pc' = IF pc = "fgblock" THEN "timedout" ELSE pc
  BY DEF Alarm, tableVars, kernelVars
<1>2. Ages /\ npid <= npid'
  BY <1>1, NPIDAssumption DEF JobInv, TypeOK, Ages, Alive
<1>3. JobFrame(0) /\ 0 \in 0..job_count
  BY <1>1, <1>2, SameJobs, KeptFrame
<1>4. Waiting /\ pc # "resume" /\ cmd.fg /\ Waiting' /\ Resuming /\ Resuming'
  BY <1>1 DEF KnownInv, CmdOK, AlarmOK, Waiting, Resuming, FgPcs
<1>5. CmdOK'
  <2>1. cmd.done \subseteq cmd.waits /\ \A p \in cmd.done : ks'[p] = "gone"
    BY <1>1, <1>4 DEF KnownInv, CmdOK, WaitsOK
  <2>2. pc' = "fgdone" => \A p \in cmd.waits : ~Alive(p)'
    BY <1>1, <1>4 DEF KnownInv, CmdOK, WaitsOK, Alive
  <2> QED BY <1>1, <1>3, <1>4, <2>1, <2>2, CmdGoesOn DEF KnownInv
<1>6. \A p \in cmd.waits : Alive(p)' => Known(p)'
  BY <1>1, <1>4, <1>5 DEF CmdOK, ResumeOK
<1>7. Moves(0)
  BY <1>1 DEF Moves, CopyPcs
<1> QED BY <1>1, <1>3, <1>5, <1>6, <1>7, FrameStep

\* A job is added as slot n.
JobAdded(n, g, pids) ==
  /\ n = job_count + 1 /\ job_count' = n /\ next_job_number' = next_job_number + 1
  /\ PidsOf(n)' = pids /\ jobs'[n].num = next_job_number /\ jobs'[n].pgid = g /\ jobs'[n].count = Len(pids)
  /\ \A k \in 1..job_count : JobFrom(k, k)

LEMMA RegisterAdds ==
  ASSUME TypeOK, NEW g \in Pids \cup {Shell}, NEW pids \in Seq(Pids), NEW st \in {"run", "stop"}, Register(g, pids, st)
  PROVE  \/ job_count = MAX_JOBS /\ UNCHANGED <<jobs, job_count, next_job_number>>
         \/ \E n : JobAdded(n, g, pids)
<1>0. job_count \in 0..MAX_JOBS /\ MAX_JOBS \in Nat
  BY MaxJobsAssumption DEF TypeOK
<1>1. CASE job_count >= MAX_JOBS
  BY <1>0, <1>1 DEF Register
<1>2. CASE ~(job_count >= MAX_JOBS)
  <2>1. PICK n : n = job_count + 1
    OBVIOUS
  <2>2. n \in Slots /\ job_count' = n /\ next_job_number' = next_job_number + 1 /\ \A k \in 1..job_count : k \in Slots /\ k # n
    BY <1>0, <1>2, <2>1 DEF Register, Slots
  <2>3. PidsOf(n)' = pids /\ \A k \in 1..job_count : SlotSame(k)
    BY <1>0, <2>1, <2>2, RegisterEffect
  <2>4. PICK y : /\ y.num = next_job_number /\ y.pgid = g /\ y.count = Len(pids)
                 /\ jobs' = [jobs EXCEPT ![n] = y]
    BY <1>2, <2>1 DEF Register
  <2>5. jobs'[n] = y /\ \A k \in 1..job_count : jobs'[k] = jobs[k]
    BY <2>2, <2>4 DEF TypeOK
  <2>6. \A k \in 1..job_count : JobFrom(k, k)
    BY <2>3, <2>5 DEF SlotSame, JobFrom
  <2>7. JobAdded(n, g, pids)
    BY <2>1, <2>2, <2>3, <2>4, <2>5, <2>6 DEF JobAdded
  <2> QED BY <2>7
<1> QED BY <1>1, <1>2

LEMMA AddedSlots ==
  ASSUME JobInv, JobInv', SlotsOK, NEW n, NEW g, NEW pids, JobAdded(n, g, pids), Ages,
         \A j \in DOMAIN pids : pgrp'[pids[j]] = g, pc \notin CopyPcs, pc' \notin CopyPcs
  PROVE  SlotsOK' /\ (\A p : Known(p) => Known(p)') /\ \A j \in DOMAIN pids : Known(pids[j])'
<1>0. /\ TypeOK /\ job_count \in Nat /\ next_job_number \in Nat /\ n = job_count + 1 /\ job_count' = n /\ next_job_number' = next_job_number + 1
      /\ n \in 1..job_count' /\ \A k \in 1..job_count' : k = n \/ k \in 1..job_count
      /\ \A k \in 1..job_count : k \in 1..job_count' /\ k # n /\ k \in Slots
  BY SlotsInTable DEF JobInv, TypeOK, JobAdded
<1>1. /\ PidsOf(n)' = pids /\ jobs'[n].num = next_job_number /\ jobs'[n].pgid = g /\ jobs'[n].count = Len(pids)
      /\ \A k \in 1..job_count : JobFrom(k, k)
  BY DEF JobAdded
<1>2. ~Copied /\ ~Copied' /\ \A k : ~Torn(k) /\ ~Torn(k)'
  BY DEF Copied, Torn, CopyPcs
<1>3. LenOK'
  <2>1. \A k \in 1..job_count : jobs'[k].count = Len(PidsOf(k)')
    BY <1>1, <1>2 DEF SlotsOK, LenOK, JobFrom
  <2> QED BY <1>0, <1>1, <2>1 DEF LenOK
<1>4. GroupOK'
  <2>1. ASSUME NEW k \in 1..job_count, NEW j \in DOMAIN PidsOf(k)' PROVE pgrp'[PidsOf(k)'[j]] = jobs'[k].pgid
    <3>1. j \in DOMAIN PidsOf(k) /\ PidsOf(k)'[j] = PidsOf(k)[j] /\ jobs'[k].pgid = jobs[k].pgid
      BY <1>1, <2>1 DEF JobFrom
    <3>2. PidsOf(k)[j] \in 1..npid
      BY <3>1 DEF JobInv, TableOK, Proper
    <3> QED BY <3>1, <3>2 DEF SlotsOK, GroupOK, Ages
  <2> QED BY <1>0, <1>1, <2>1 DEF GroupOK
<1>5. NumOK'
  <2>1. \A k \in 1..job_count : jobs'[k].num = jobs[k].num /\ jobs[k].num \in Nat /\ jobs[k].num < next_job_number
    BY <1>0, <1>1, SlotType DEF JobFrom, SlotsOK, NumOK
  <2>2. \A i, k \in 1..job_count : i # k => jobs[i].num # jobs[k].num
    BY <1>2 DEF SlotsOK, NumOK
  <2>3. \A k \in 1..job_count' : jobs'[k].num < next_job_number'
    BY <1>0, <1>1, <2>1
  <2>4. \A i, k \in 1..job_count' : i # k => jobs'[i].num # jobs'[k].num
    BY <1>0, <1>1, <2>1, <2>2
  <2> QED BY <2>3, <2>4 DEF NumOK
<1>6. LastOK'
  BY <1>2 DEF LastOK
<1>7. ASSUME NEW p, Known(p) PROVE Known(p)'
  BY <1>0, <1>1, <1>7 DEF Known, Lists, JobFrom
<1>8. \A j \in DOMAIN pids : Known(pids[j])'
  BY <1>0, <1>1 DEF Known, Lists
<1> QED BY <1>3, <1>4, <1>5, <1>6, <1>7, <1>8 DEF SlotsOK

\* The wait: what is counted as done is gone, and the wait is over only when
\* nothing that was waited for is left.
LEMMA FgWaitKnown == ASSUME JobInv, JobInv', KnownInv, FgBlock \/ FgNoChild \/ FgReap PROVE KnownInv' /\ Remembers
<1>0. TypeOK /\ KernelOK /\ CmdOK /\ npid \in 0..NPID /\ NPID \in Nat
  BY NPIDAssumption DEF JobInv, TypeOK, KnownInv
<1>1. UNCHANGED <<pgrp, npid, alarm, jobs, job_count, next_job_number>> /\ pc \in {"fgloop", "fgblock"}
  BY DEF FgBlock, FgNoChild, FgReap, tableVars, kernelVars
<1>2. Waiting /\ pc \in FgPcs /\ pc # "resume"
  BY <1>1 DEF Waiting, FgPcs
<1>3. /\ \A p \in cmd.waits : p \in Pids /\ p \in 1..npid /\ pgrp[p] = cmd.pgid
      /\ Cardinality(cmd.waits) <= cmd.count /\ cmd.done \subseteq cmd.waits /\ \A p \in cmd.done : ks[p] = "gone"
      /\ alarm => cmd.fg
  BY <1>0, <1>2 DEF CmdOK, WaitsOK, AlarmOK, Pids
<1>4. ASSUME Ages, pc' \in {"fgblock", "fgdone", "fgloop", "fgstopped"},
             cmd'.waits = cmd.waits, cmd'.pgid = cmd.pgid, cmd'.num = cmd.num, cmd'.count = cmd.count, cmd'.pids = cmd.pids,
             cmd'.fg = cmd.fg, cmd'.done \subseteq cmd.waits, \A p \in cmd'.done : ks'[p] = "gone",
             pc' = "fgdone" => \A p \in cmd.waits : ~Alive(p)'
      PROVE  KnownInv' /\ Remembers
  <2>1. JobFrame(0) /\ 0 \in 0..job_count
    <3>1. npid <= npid'
      BY <1>0, <1>1
    <3> QED BY <1>1, <1>4, <3>1, SameJobs, KeptFrame
  <2>2. Waiting' /\ (Resuming' <=> Resuming)
    BY <1>2, <1>4 DEF Waiting, Resuming, FgPcs
  <2>3. CmdOK'
    BY <1>0, <1>1, <1>2, <1>3, <1>4, <2>1, <2>2, CmdGoesOn
  <2>4. Moves(0)
    BY <1>1, <1>4 DEF Moves, CopyPcs
  <2>5. \A p \in cmd.waits : Alive(p)' => pc' \in FgPcs /\ p \in cmd'.waits
    BY <1>4 DEF FgPcs
  <2> QED BY <1>1, <2>1, <2>3, <2>4, <2>5, FrameStep
<1>5. CASE FgBlock \/ FgNoChild
  <2>1. UNCHANGED <<ks, cmd>> /\ pc' \in {"fgblock", "fgdone"} /\ (pc' = "fgdone" => Group = {})
    BY <1>5 DEF FgBlock, FgNoChild, kernelVars
  <2>2. Ages
    BY <1>1, <2>1 DEF Ages, Alive
  <2>3. pc' = "fgdone" => \A p \in cmd.waits : ~Alive(p)'
    BY <1>3, <2>1 DEF Group, Alive
  <2> QED BY <1>3, <1>4, <2>1, <2>2, <2>3
<1>6. CASE FgReap
  <2>1. PICK p \in Reportable :
          /\ Consume(p)
          /\ IF rep[p] = "stop"
             THEN pc' = "fgstopped" /\ UNCHANGED cmd
             ELSE /\ cmd' = [cmd EXCEPT !.done = cmd.done \cup ({p} \cap cmd.waits)]
                  /\ pc' = IF Cardinality(cmd.done \cup ({p} \cap cmd.waits)) = cmd.count THEN "fgdone" ELSE "fgloop"
    BY <1>6 DEF FgReap
  <2>2. p \in Pids /\ rep[p] \in {"stop", "exit"}
    BY DEF Reportable, Group
  <2>3. Ages /\ (rep[p] = "exit" => ks'[p] = "gone") /\ \A q \in Pids : ks[q] = "gone" => ks'[q] = "gone"
    BY <1>0, <1>1, <2>1, <2>2 DEF TypeOK, Consume, Ages, Alive, Pids
  <2>4. CASE rep[p] = "stop"
    <3>1. pc' = "fgstopped" /\ cmd' = cmd
      BY <2>1, <2>4
    <3> QED BY <1>3, <1>4, <2>3, <3>1
  <2>5. CASE rep[p] = "exit"
    <3>1. PICK d : d = cmd.done \cup ({p} \cap cmd.waits)
      OBVIOUS
    <3>2. d \in SUBSET cmd.waits /\ \A q \in d : ks'[q] = "gone"
      BY <1>3, <2>3, <2>5, <3>1
    <3>3. cmd' = [cmd EXCEPT !.done = d] /\ pc' = IF Cardinality(d) = cmd.count THEN "fgdone" ELSE "fgloop"
      BY <2>1, <2>5, <3>1
    <3>4. /\ cmd'.waits = cmd.waits /\ cmd'.pgid = cmd.pgid /\ cmd'.num = cmd.num /\ cmd'.count = cmd.count
          /\ cmd'.pids = cmd.pids /\ cmd'.fg = cmd.fg /\ cmd'.done = d
      BY <1>0, <3>3 DEF TypeOK, Cmds
    <3>5. ASSUME Cardinality(d) = cmd.count PROVE \A q \in cmd.waits : ~Alive(q)'
      <4>1. IsFiniteSet(Pids) /\ cmd.waits \in SUBSET Pids /\ cmd.count \in Nat
        BY <1>0, FS_Interval DEF Pids, TypeOK, Cmds
      <4>2. IsFiniteSet(cmd.waits)
        BY <4>1, FS_Subset
      <4>3. /\ Cardinality(d) <= Cardinality(cmd.waits) /\ Cardinality(cmd.waits) \in Nat
            /\ Cardinality(cmd.waits) = Cardinality(d) => cmd.waits = d
        BY <3>2, <4>2, FS_Subset, FS_CardinalityType
      <4>4. cmd.waits = d
        BY <1>3, <3>5, <4>1, <4>3
      <4> QED BY <3>2, <4>4 DEF Alive
    <3> QED BY <1>4, <2>3, <3>2, <3>3, <3>4, <3>5
  <2> QED BY <2>2, <2>4, <2>5
<1> QED BY <1>5, <1>6

\* After the wait nothing is waited for.
LEMMA ReclaimEnds ==
  ASSUME JobInv, Reclaim
  PROVE  /\ CmdOK' /\ UNCHANGED <<ks, pgrp, npid>> /\ Ages /\ npid <= npid' /\ pc' \notin CopyPcs
<1>1. pc' \in {"drain", "seq"} /\ ~alarm' /\ UNCHANGED <<ks, pgrp, npid>>
  BY DEF Reclaim, kernelVars
<1>2. Ages /\ npid <= npid'
  BY <1>1, NPIDAssumption DEF JobInv, TypeOK, Ages, Alive
<1> QED BY <1>1, <1>2, NoWait DEF Waiting, FgPcs, CopyPcs

LEMMA FgEndKnown ==
  ASSUME JobInv, JobInv', KnownInv, FgDone \/ FgTimedOut \/ FgStopped
  PROVE  KnownInv' /\ Remembers
<1>0. TypeOK /\ CmdOK /\ SlotsOK /\ job_count \in Nat
  BY SlotsInTable DEF JobInv, KnownInv
<1>1. Reclaim /\ pc \in {"fgdone", "timedout", "fgstopped"}
  BY DEF FgDone, FgTimedOut, FgStopped
<1>2. CmdOK' /\ UNCHANGED <<ks, pgrp, npid>> /\ Ages /\ npid <= npid' /\ pc \notin CopyPcs /\ pc' \notin CopyPcs /\ Waiting
  BY <1>1, ReclaimEnds DEF CopyPcs, Waiting, FgPcs
<1>3. \A s : Moves(s)
  BY <1>2 DEF Moves
<1>4. CASE FgDone
  <2>1. pc = "fgdone" /\ pc \notin FgPcs /\ next_job_number' = next_job_number
    BY <1>4 DEF FgDone, FgPcs
  <2>2. CASE UNCHANGED <<jobs, job_count>>
    <3>1. JobFrame(0) /\ 0 \in 0..job_count
      BY <1>2, <2>1, <2>2, SameJobs, KeptFrame
    <3> QED BY <1>2, <1>3, <2>1, <3>1, FrameStep
  <2>3. ASSUME cmd.fg, NEW s \in 1..job_count, jobs' = WithoutSlot(s), job_count' = job_count - 1, jobs[s].num = cmd.num
        PROVE  KnownInv' /\ Remembers
    <3>1. JobFrame(s) /\ s \in 0..job_count
      BY <1>2, <2>1, <2>3, OutFrame
    <3>2. \A p \in Pids : ~(Lists(s, p) /\ Alive(p))
      <4>1. Resuming
        BY <1>2, <2>3 DEF Resuming
      <4> QED BY <1>0, <1>2, <2>1, <2>3, <4>1 DEF CmdOK, ResumeOK, WaitsOK
    <3> QED BY <1>2, <1>3, <2>1, <3>1, <3>2, FrameStep
  <2>4. UNCHANGED <<jobs, job_count>> \/ (cmd.fg /\ RemoveJob(cmd.num))
    BY <1>4 DEF FgDone
  <2> QED BY <1>0, <2>2, <2>3, <2>4, RemoveJobOf
<1>5. CASE FgTimedOut
  <2>1. pc = "timedout" /\ RemoveJob(cmd.num) /\ next_job_number' = next_job_number
    BY <1>5 DEF FgTimedOut
  <2>2. SlotsOK'
    <3>1. CASE UNCHANGED <<jobs, job_count>>
      <4>1. JobFrame(0) /\ 0 \in 0..job_count
        BY <1>2, <2>1, <3>1, SameJobs, KeptFrame
      <4> QED BY <1>0, <1>3, <4>1, FrameSlots
    <3>2. ASSUME NEW s \in 1..job_count, jobs' = WithoutSlot(s), job_count' = job_count - 1 PROVE SlotsOK'
      <4>1. JobFrame(s) /\ s \in 0..job_count
        BY <1>2, <2>1, <3>2, OutFrame
      <4> QED BY <1>0, <1>3, <4>1, FrameSlots
    <3> QED BY <1>0, <2>1, <3>1, <3>2, RemoveJobOf
  <2>3. Remembers
    BY <2>1 DEF Remembers
  <2> QED BY <1>2, <2>2, <2>3 DEF KnownInv
<1>6. CASE FgStopped /\ cmd.fg
  <2>1. MarkJob(cmd.num, "stop") /\ UNCHANGED <<job_count, next_job_number>>
    BY <1>6 DEF FgStopped
  <2>2. JobFrame(0) /\ 0 \in 0..job_count
    BY <1>0, <1>2, <2>1, MarkJobKeeps, KeptFrame
  <2>3. \A p \in cmd.waits : Alive(p)' => Known(p)'
    <3>1. \A p \in cmd.waits : Alive(p) => Known(p)
      BY <1>0, <1>2, <1>6 DEF CmdOK, ResumeOK, Resuming
    <3>2. \A p \in cmd.waits : Alive(p)' => Alive(p)
      BY <1>2 DEF Alive
    <3> QED BY <2>2, <3>1, <3>2, FrameKnown
  <2> QED BY <1>2, <1>3, <2>2, <2>3, FrameStep
<1>7. CASE FgStopped /\ ~cmd.fg
  <2>1. Register(cmd.pgid, cmd.pids, "stop") /\ pc = "fgstopped"
    BY <1>7 DEF FgStopped
  <2>2. cmd.pgid \in Pids \cup {Shell} /\ cmd.pids \in Seq(Pids)
    BY <1>0 DEF TypeOK, Cmds
  <2>3. CASE job_count = MAX_JOBS /\ UNCHANGED <<jobs, job_count, next_job_number>>
    <3>1. JobFrame(0) /\ 0 \in 0..job_count
      BY <1>2, <2>3, SameJobs, KeptFrame
    <3>2. SlotsOK'
      BY <1>0, <1>3, <3>1, FrameSlots
    <3>3. Remembers
      BY <2>1, <2>3 DEF Remembers
    <3> QED BY <1>2, <3>2, <3>3 DEF KnownInv
  <2>4. ASSUME NEW n, JobAdded(n, cmd.pgid, cmd.pids) PROVE KnownInv' /\ Remembers
    <3>0. PICK g, pids : g = cmd.pgid /\ pids = cmd.pids
      OBVIOUS
    <3>1. cmd.waits = {pids[j] : j \in DOMAIN pids} /\ \A p \in cmd.waits : pgrp[p] = g
      BY <1>0, <1>2, <1>7, <2>1, <3>0 DEF CmdOK, LaunchOK, WaitsOK, Resuming
    <3>2. \A j \in DOMAIN pids : pgrp'[pids[j]] = g
      BY <1>2, <3>1
    <3>3. SlotsOK' /\ (\A p : Known(p) => Known(p)') /\ \A j \in DOMAIN pids : Known(pids[j])'
      BY <1>0, <1>2, <2>4, <3>0, <3>2, AddedSlots
    <3>4. \A p \in cmd.waits : Known(p)'
      BY <3>1, <3>3
    <3>5. \A p \in Pids : Alive(p)' => Alive(p)
      BY <1>2 DEF Alive
    <3>6. Remembers
      BY <1>0, <3>3, <3>4, <3>5, StepRemembers
    <3> QED BY <1>2, <3>3, <3>6 DEF KnownInv
  <2> QED BY <1>0, <2>1, <2>2, <2>3, <2>4, RegisterAdds
<1> QED BY <1>4, <1>5, <1>6, <1>7

\* A resume removes a job only when it found nothing left of it.
LEMMA ResumeKnown == ASSUME JobInv, JobInv', KnownInv, Resume PROVE KnownInv' /\ Remembers
<1>0. TypeOK /\ CmdOK /\ SlotsOK /\ job_count \in Nat /\ npid \in Nat
  BY SlotsInTable, NPIDAssumption DEF JobInv, KnownInv, TypeOK
<1>1. pc = "resume" /\ next_job_number' = next_job_number /\ pc \notin FgPcs /\ pc \notin CopyPcs /\ Waiting /\ Resuming /\ ~alarm
  BY <1>0 DEF Resume, ResumeFinished, ResumeContinue, FgPcs, CopyPcs, Waiting, Resuming, CmdOK, AlarmOK
<1>2. CASE ResumeFinished
  <2>1. /\ UNCHANGED <<ks, pgrp, npid, alarm, next_job_number>> /\ cmd.count = 0
        /\ pc' = "drain" /\ RemoveJob(cmd.num)
    BY <1>2 DEF ResumeFinished, kernelVars
  <2>2. Ages /\ npid <= npid' /\ CmdOK' /\ \A s : Moves(s)
    BY <1>0, <1>1, <2>1, NoWait DEF Ages, Alive, Waiting, FgPcs, Moves, CopyPcs
  <2>3. CASE UNCHANGED <<jobs, job_count>>
    <3>1. JobFrame(0) /\ 0 \in 0..job_count
      BY <2>1, <2>2, <2>3, SameJobs, KeptFrame
    <3> QED BY <1>1, <2>1, <2>2, <3>1, FrameStep
  <2>4. ASSUME NEW s \in 1..job_count, jobs' = WithoutSlot(s), job_count' = job_count - 1, jobs[s].num = cmd.num
        PROVE  KnownInv' /\ Remembers
    <3>1. JobFrame(s) /\ s \in 0..job_count
      BY <2>1, <2>4, OutFrame
    <3>2. cmd.waits = {}
      <4>1. IsFiniteSet(Pids) /\ cmd.waits \in SUBSET Pids
        BY <1>0, NPIDAssumption, FS_Interval DEF Pids, TypeOK, Cmds
      <4>2. IsFiniteSet(cmd.waits) /\ Cardinality(cmd.waits) \in Nat
        BY <4>1, FS_Subset, FS_CardinalityType
      <4>3. Cardinality(cmd.waits) = 0
        BY <1>0, <1>1, <2>1, <4>2 DEF CmdOK, WaitsOK
      <4> QED BY <4>2, <4>3, FS_EmptySet
    <3>3. \A p \in Pids : ~(Lists(s, p) /\ Alive(p))
      BY <1>0, <1>1, <2>4, <3>2 DEF CmdOK, ResumeOK
    <3> QED BY <1>1, <2>1, <2>2, <3>1, <3>3, FrameStep
  <2> QED BY <1>0, <2>1, <2>3, <2>4, RemoveJobOf
<1>3. CASE ResumeContinue
  <2>1. UNCHANGED <<pgrp, npid, job_count, next_job_number>> /\ Continue(cmd.pgid) /\ MarkJob(cmd.num, "run")
    BY <1>3 DEF ResumeContinue, Continue
  <2>2. Ages /\ npid <= npid' /\ \A p \in Pids : ks[p] = "gone" => ks'[p] = "gone"
    BY <1>0, <2>1, NPIDAssumption DEF TypeOK, Continue, Ages, Alive, Pids
  <2>3. JobFrame(0) /\ 0 \in 0..job_count
    BY <1>0, <2>1, <2>2, MarkJobKeeps, KeptFrame
  <2>4. CmdOK' /\ Moves(0)
    <3>1. CASE cmd.fg
      <4>1. pc' = "fgloop" /\ cmd' = cmd
        BY <1>3, <3>1 DEF ResumeContinue
      <4>2. Waiting' /\ Resuming' /\ Moves(0)
        BY <1>1, <3>1, <4>1 DEF Waiting, Resuming, FgPcs, Moves, CopyPcs
      <4>3. cmd.done \subseteq cmd.waits /\ cmd.waits \subseteq Pids /\ \A p \in cmd.done : ks[p] = "gone"
        BY <1>0, <1>1 DEF CmdOK, WaitsOK, TypeOK, Cmds
      <4> QED BY <1>0, <1>1, <2>2, <2>3, <3>1, <4>1, <4>2, <4>3, CmdGoesOn
    <3>2. CASE ~cmd.fg
      <4>1. pc' = "drain" /\ alarm' = alarm
        BY <1>3, <3>2 DEF ResumeContinue
      <4> QED BY <1>1, <4>1, NoWait DEF Waiting, FgPcs, Moves, CopyPcs
    <3> QED BY <3>1, <3>2
  <2> QED BY <1>1, <2>1, <2>3, <2>4, FrameStep
<1> QED BY <1>2, <1>3 DEF Resume

\* The drain removes jobs that are over. While it copies a job over another,
\* the processes of the job that moves are always in one of the two slots.
LEMMA DrainOneKnown == ASSUME JobInv, JobInv', KnownInv, DrainEnd \/ DrainOne PROVE KnownInv' /\ Remembers
<1>0. TypeOK /\ CmdOK /\ SlotsOK /\ TableOK /\ PipeOK /\ job_count \in Nat /\ npid \in Nat /\ \A k \in 1..job_count : k \in Slots
  BY SlotsInTable, NPIDAssumption DEF JobInv, KnownInv, TypeOK
<1>1. /\ pc = "drain" /\ UNCHANGED <<ks, pgrp, npid, alarm, next_job_number>> /\ pc' \in {"drain", "prompt", "copy"}
      /\ pc \notin FgPcs /\ pc \notin CopyPcs
  BY DEF DrainEnd, DrainOne, kernelVars, tableVars, FgPcs, CopyPcs
<1>2. ~alarm' /\ ~Waiting' /\ Ages /\ npid <= npid'
  BY <1>0, <1>1 DEF CmdOK, AlarmOK, Waiting, FgPcs, Ages, Alive
<1>3. CmdOK'
  BY <1>2, NoWait
<1>4. UNCHANGED <<jobs, job_count>>
  BY DEF DrainEnd, DrainOne, tableVars
<1>5. JobFrame(0) /\ 0 \in 0..job_count
  BY <1>1, <1>2, <1>4, SameJobs, KeptFrame
<1>6. SlotsOK'
  <2>1. ~Copied /\ ~Copied' /\ \A k : ~Torn(k) /\ ~Torn(k)' /\ JobFrom(k, k)
    BY <1>1, <1>4, SameJobs DEF Copied, Torn
  <2> QED BY <1>0, <1>1, <1>4, <2>1 DEF SlotsOK, LenOK, GroupOK, NumOK, LastOK, JobFrom
<1>7. \A p \in Pids : (Alive(p)' => Alive(p)) /\ (Known(p) => Known(p)')
  BY <1>1, <1>5, FrameKnown DEF Alive
<1>8. Remembers
  BY <1>0, <1>1, <1>6, <1>7, StepRemembers
<1> QED BY <1>3, <1>6, <1>8 DEF KnownInv

LEMMA CopyKnown == ASSUME JobInv, JobInv', KnownInv, DrainCopyFirst \/ DrainCopyRest PROVE KnownInv' /\ Remembers
<1>0. TypeOK /\ CmdOK /\ SlotsOK /\ CopyOK /\ job_count \in Nat /\ \A k \in 1..job_count : k \in Slots
  BY SlotsInTable DEF JobInv, KnownInv
<1>1. /\ pc \in {"copy", "copyrest"} /\ pc' \in {"copyrest", "shrink"}
      /\ UNCHANGED <<ks, pgrp, npid, alarm, next_job_number, job_count, cmd>> /\ pc \notin FgPcs
  BY DEF DrainCopyFirst, DrainCopyRest, kernelVars, FgPcs
<1>2. CmdOK'
  BY <1>0, <1>1, NoWait DEF CmdOK, AlarmOK, Waiting, FgPcs
<1>3. PICK s, c : s = cmd.slot /\ c = job_count
  OBVIOUS
<1>4. s \in 1..job_count /\ c \in 1..job_count /\ jobs[s] \in JobRecs /\ jobs[c] \in JobRecs
  BY <1>0, <1>1, <1>3, SlotType DEF CopyOK
<1>5. ASSUME NEW a \in 1..job_count, NEW b \in 1..job_count, jobs' = [jobs EXCEPT ![s] = Joined(jobs[a], jobs[b])]
      PROVE  /\ PidsOf(s)' = PidsOf(a) /\ jobs'[s].num = jobs[a].num /\ jobs'[s].pgid = jobs[a].pgid /\ jobs'[s].count = jobs[b].count
             /\ \A k \in 1..job_count : k # s => JobFrom(k, k)
  <2>1. PidsOf(s)' = PidsOf(a) /\ jobs'[s].count = jobs[b].count
    BY <1>0, <1>4, <1>5, JoinedSlot
  <2>2. jobs'[s] = Joined(jobs[a], jobs[b]) /\ \A k \in 1..job_count : k # s => jobs'[k] = jobs[k]
    BY <1>0, <1>4, <1>5 DEF TypeOK
  <2>3. jobs'[s].num = jobs[a].num /\ jobs'[s].pgid = jobs[a].pgid
    BY <2>2 DEF Joined
  <2>4. \A k \in 1..job_count : k # s => JobFrom(k, k)
    BY <2>2 DEF JobFrom, PidsOf
  <2> QED BY <2>1, <2>3, <2>4
<1>6. ASSUME SlotsOK', \A p \in Pids : Alive(p) /\ Known(p) => Known(p)' PROVE KnownInv' /\ Remembers
  <2>1. \A p \in Pids : (Alive(p)' => Alive(p)) /\ (Alive(p)' /\ Known(p) => Known(p)')
    BY <1>1, <1>6 DEF Alive
  <2>2. Remembers
    BY <1>0, <1>1, <1>6, <2>1, StepRemembers
  <2> QED BY <1>2, <1>6, <2>2 DEF KnownInv
<1>7. Copied' /\ cmd'.slot = s /\ job_count' = c
  BY <1>1, <1>3 DEF Copied
<1>8. CASE DrainCopyFirst
  <2>1. pc = "copy" /\ pc' = "copyrest" /\ jobs' = [jobs EXCEPT ![s] = Joined(jobs[c], jobs[s])]
    BY <1>3, <1>8 DEF DrainCopyFirst
  <2>2. /\ PidsOf(s)' = PidsOf(c) /\ jobs'[s].num = jobs[c].num /\ jobs'[s].pgid = jobs[c].pgid /\ jobs'[s].count = jobs[s].count
        /\ \A k \in 1..job_count : k # s => JobFrom(k, k)
    BY <1>4, <1>5, <2>1
  <2>3. ~Copied /\ \A k : ~Torn(k) /\ (Torn(k)' <=> k = s /\ k # c)
    BY <1>1, <1>3, <2>1 DEF Copied, Torn
  <2>4. Over(s)
    BY <1>0, <1>3, <2>1 DEF CopyOK
  <2>5. LenOK'
    BY <1>0, <1>4, <1>7, <2>2, <2>3, <1>3 DEF SlotsOK, LenOK, JobFrom
  <2>6. GroupOK'
    BY <1>0, <1>1, <1>4, <2>2 DEF SlotsOK, GroupOK, JobFrom
  <2>7. NumOK'
    <3>1. \A k \in 1..job_count : k # s => jobs'[k].num = jobs[k].num
      BY <2>2 DEF JobFrom
    <3>2. \A i, k \in 1..job_count : i # k => jobs[i].num # jobs[k].num
      BY <1>0, <2>3 DEF SlotsOK, NumOK
    <3>3. \A k \in 1..job_count : jobs'[k].num < next_job_number
      BY <1>0, <1>4, <2>2, <3>1 DEF SlotsOK, NumOK
    <3>4. \A i, k \in 1..job_count : i # k /\ {i, k} # {s, c} => jobs'[i].num # jobs'[k].num
      BY <1>4, <2>2, <3>1, <3>2
    <3> QED BY <1>1, <1>7, <3>3, <3>4 DEF NumOK
  <2>8. LastOK'
    <3> SUFFICES ASSUME s = c PROVE Over(job_count)'
      BY <1>7 DEF LastOK
    <3>1. Left(s)' = Left(s)
      BY <1>1, <2>2 DEF Left
    <3>2. Over(s)'
      BY <2>4, <3>1 DEF Over
    <3> QED BY <1>7, <3>2 DEF Over, Left, PidsOf
  <2>9. ASSUME NEW p \in Pids, Alive(p), Known(p) PROVE Known(p)'
    <3>1. PICK k \in 1..job_count : Lists(k, p)
      BY <2>9 DEF Known
    <3>2. k # s
      BY <2>4, <2>9, <3>1 DEF Over, Left, Lists, Alive
    <3>3. Lists(k, p)'
      BY <2>2, <3>1, <3>2 DEF Lists, JobFrom
    <3> QED BY <1>1, <3>3 DEF Known
  <2> QED BY <1>6, <2>5, <2>6, <2>7, <2>8, <2>9 DEF SlotsOK
<1>9. CASE DrainCopyRest
  <2>1. pc = "copyrest" /\ pc' = "shrink" /\ jobs' = [jobs EXCEPT ![s] = Joined(jobs[s], jobs[c])]
    BY <1>3, <1>9 DEF DrainCopyRest
  <2>2. /\ PidsOf(s)' = PidsOf(s) /\ jobs'[s].num = jobs[s].num /\ jobs'[s].pgid = jobs[s].pgid /\ jobs'[s].count = jobs[c].count
        /\ \A k \in 1..job_count : k # s => JobFrom(k, k)
    BY <1>4, <1>5, <2>1
  <2>3. Copied /\ \A k : ~Torn(k)' /\ (Torn(k) <=> k = s /\ k # c)
    BY <1>1, <1>3, <2>1 DEF Copied, Torn
  <2>4. \A k \in 1..job_count : PidsOf(k)' = PidsOf(k) /\ jobs'[k].num = jobs[k].num /\ jobs'[k].pgid = jobs[k].pgid
    BY <2>2 DEF JobFrom
  <2>5. LenOK'
    <3>1. jobs[c].count = Len(PidsOf(c)) /\ PidsOf(s) = PidsOf(c)
      BY <1>0, <1>3, <1>4, <2>3 DEF SlotsOK, LenOK, CopyOK
    <3> QED BY <1>0, <1>1, <2>2, <2>3, <3>1 DEF SlotsOK, LenOK, JobFrom
  <2>6. GroupOK'
    BY <1>0, <1>1, <2>4 DEF SlotsOK, GroupOK
  <2>7. NumOK'
    BY <1>0, <1>1, <1>3, <1>7, <2>3, <2>4 DEF SlotsOK, NumOK
  <2>8. LastOK'
    <3> SUFFICES ASSUME s = c PROVE Over(job_count)'
      BY <1>7 DEF LastOK
    <3>1. Left(s)' = Left(s) /\ Left(s) = {}
      BY <1>0, <1>1, <1>3, <2>2, <2>3 DEF Left, SlotsOK, LastOK, Over
    <3> QED BY <1>7, <3>1 DEF Over, Left, PidsOf
  <2>9. \A p \in Pids : Known(p) => Known(p)'
    BY <1>1, <2>4 DEF Known, Lists
  <2> QED BY <1>6, <2>5, <2>6, <2>7, <2>8, <2>9 DEF SlotsOK
<1> QED BY <1>8, <1>9

LEMMA ShrinkKnown == ASSUME JobInv, JobInv', KnownInv, DrainShrink PROVE KnownInv' /\ Remembers
<1>0. TypeOK /\ CmdOK /\ SlotsOK /\ CopyOK /\ job_count \in Nat /\ npid \in Nat /\ next_job_number \in Nat
  BY SlotsInTable, NPIDAssumption DEF JobInv, KnownInv, TypeOK
<1>1. /\ UNCHANGED <<ks, pgrp, npid, alarm, next_job_number>> /\ pc = "shrink" /\ pc' = "drain" /\ job_count' = job_count - 1
      /\ jobs' = [jobs EXCEPT ![job_count] = NoSlot] /\ pc \notin FgPcs
  BY DEF DrainShrink, kernelVars, FgPcs
<1>2. CmdOK'
  BY <1>0, <1>1, NoWait DEF CmdOK, AlarmOK, Waiting, FgPcs
<1>3. PICK c : c = job_count
  OBVIOUS
<1>4. c \in 1..job_count /\ c # 0 /\ c \in 0..job_count /\ cmd.slot \in 1..job_count /\ PidsOf(cmd.slot) = PidsOf(c)
  BY <1>0, <1>1, <1>3 DEF CopyOK, Copied
<1>5. \A i \in 1..job_count' : jobs'[i] = jobs[i] /\ Src(i, c) = i
  <2>1. \A i \in 1..job_count' : i \in Slots /\ i # c
    BY <1>0, <1>1, <1>3, SlotsInTable
  <2> QED BY <1>0, <1>1, <1>3, <2>1 DEF TypeOK, Src
<1>6. \A i \in 1..job_count' : JobFrom(i, i)
  BY <1>5 DEF JobFrom, PidsOf
<1>7. JobFrame(c) /\ Moves(c)
  BY <1>0, <1>1, <1>3, <1>4, <1>5, <1>6 DEF JobFrame, Ages, Alive, Moves, CopyPcs
<1>8. ASSUME NEW p \in Pids, Lists(c, p), Alive(p) PROVE \E k \in 1..job_count : k # c /\ Lists(k, p)
  <2>1. ~Over(c)
    BY <1>8 DEF Over, Left, Lists, Alive
  <2>2. cmd.slot # c
    BY <1>0, <1>1, <1>3, <2>1 DEF SlotsOK, LastOK, Copied
  <2> QED BY <1>4, <1>8, <2>2 DEF Lists
<1> QED BY <1>1, <1>2, <1>4, <1>7, <1>8, FrameStep

\* fork(): the new processes are in the group of the first, if it was forked.
LEMMA ForkedAre ==
  ASSUME JobInv, JobInv', NEW n \in 1..MaxStages, NEW F \in Forks(n), Fork(F)
  PROVE  /\ Ages /\ npid <= npid' /\ PidsForked(F) = {Forked(F)[j] : j \in DOMAIN Forked(F)}
         /\ Cardinality(PidsForked(F)) <= n
         /\ \A p \in PidsForked(F) : p \in Pids /\ p \in 1..npid' /\ pgrp'[p] = (IF 1 \in F THEN npid + 1 ELSE Shell)
         /\ \A p \in Pids \ PidsForked(F) : Alive(p)' => Alive(p)
<1>0. TypeOK /\ KernelOK /\ npid \in 0..NPID /\ NPID \in Nat /\ n \in Nat
  BY NPIDAssumption, MaxStagesAssumption DEF JobInv, TypeOK
<1>1. PICK c : c = Cardinality(F)
  OBVIOUS
<1>2. c \in Nat /\ npid + c <= NPID /\ c <= n
  <2>1. 1 \in Int /\ n \in Int /\ F \in SUBSET (1..n) /\ npid + c <= NPID
    BY <1>0, <1>1 DEF Forks
  <2>2. IsFiniteSet(1..n) /\ Cardinality(1..n) = n
    BY <1>0, <2>1, FS_Interval
  <2> QED BY <1>1, <2>1, <2>2, FS_Subset, FS_CardinalityType
<1>3. PICK new : new = (npid + 1)..(npid + c)
  OBVIOUS
<1>4. PICK leader : leader = IF 1 \in F THEN npid + 1 ELSE Shell
  OBVIOUS
<1>5. /\ Forked(F) = [j \in 1..c |-> npid + j] /\ PidsForked(F) = new /\ npid' = npid + c
      /\ ks' = [p \in Pids |-> IF p \in new THEN "run" ELSE ks[p]]
      /\ pgrp' = [p \in Pids |-> IF p \in new THEN leader ELSE pgrp[p]]
  BY <1>1, <1>3, <1>4 DEF Forked, PidsForked, Fork
<1>6. \A p \in new : p \in Pids /\ p \in 1..npid' /\ p \notin 1..npid
  BY <1>0, <1>2, <1>3, <1>5 DEF Pids
<1>7. \A p \in 1..npid : p \in Pids /\ p \notin new
  BY <1>0, <1>6 DEF Pids
<1>8. Ages /\ npid <= npid'
  BY <1>0, <1>2, <1>5, <1>7 DEF Ages, Alive
<1>9. new = {Forked(F)[j] : j \in DOMAIN Forked(F)}
  <2>1. DOMAIN Forked(F) = 1..c /\ \A j \in 1..c : Forked(F)[j] = npid + j
    BY <1>5
  <2>2. \A p \in new : p - npid \in 1..c /\ npid + (p - npid) = p
    BY <1>0, <1>2, <1>3
  <2>3. \A j \in 1..c : npid + j \in new
    BY <1>0, <1>2, <1>3
  <2> QED BY <2>1, <2>2, <2>3
<1>10. Cardinality(new) <= n
  <2>1. PICK a \in Int, b \in Int : a = npid + 1 /\ b = npid + c
    BY <1>0, <1>2
  <2>2. Cardinality(a..b) = (IF a > b THEN 0 ELSE b - a + 1)
    BY FS_Interval
  <2> QED BY <1>0, <1>2, <1>3, <2>1, <2>2
<1>11. \A p \in Pids \ new : Alive(p)' => Alive(p)
  BY <1>5 DEF Alive
<1> QED BY <1>4, <1>5, <1>6, <1>8, <1>9, <1>10, <1>11

\* A launch: whoever is new is registered or waited for, unless the table is
\* full or there is no group.
LEMMA LaunchRemembers ==
  ASSUME JobInv, JobInv', SlotsOK, SlotsOK', pc \notin FgPcs, NEW new,
         \A p \in Pids \ new : Alive(p)' => Alive(p), \A p \in Pids : Known(p) => Known(p)',
         \A p \in new : p \in Pids /\ p \in 1..npid'
           /\ (pgrp'[p] # Shell => Known(p)' \/ (pc' \in FgPcs /\ p \in cmd'.waits) \/ job_count = MAX_JOBS),
         \A p \in new : ks[p] = "free"
  PROVE  Remembers
<1> SUFFICES ASSUME NEW p \in Pids, Alive(p)', pgrp'[p] # Shell, ks[p] = "free" \/ Owned(p)
             PROVE  Owned(p)' \/ (job_count = MAX_JOBS /\ ks[p] = "free")
  BY DEF Remembers
<1>1. Tracked(p)' <=> Known(p)'
  BY KnownTracked, PTL DEF SlotsOK
<1>2. CASE p \in new
  BY <1>1, <1>2 DEF Owned, FgPcs
<1>3. CASE p \notin new
  <2>1. Alive(p) /\ Owned(p)
    BY <1>3 DEF Alive
  <2>2. Known(p)
    BY <2>1, KnownTracked DEF SlotsOK, Owned, FgPcs
  <2> QED BY <1>1, <2>2 DEF Owned
<1> QED BY <1>2, <1>3

LEMMA BackgroundKnown == ASSUME JobInv, JobInv', KnownInv, LaunchBackground PROVE KnownInv' /\ Remembers
<1>0. TypeOK /\ KernelOK /\ CmdOK /\ SlotsOK /\ npid \in Nat
  BY NPIDAssumption DEF JobInv, KnownInv, TypeOK
<1>1. UNCHANGED <<alarm, cmd>> /\ pc \in {"prompt", "seq"} /\ pc' = "seq"
  BY DEF LaunchBackground, AtCommand
<1>2. PICK n \in 1..MaxStages : \E F \in Forks(n) :
        /\ Fork(F)
        /\ IF 1 \in F THEN Register(npid + 1, Forked(F), "run") ELSE UNCHANGED <<jobs, job_count, next_job_number>>
  BY DEF LaunchBackground
<1>3. PICK F \in Forks(n) :
        /\ Fork(F)
        /\ IF 1 \in F THEN Register(npid + 1, Forked(F), "run") ELSE UNCHANGED <<jobs, job_count, next_job_number>>
  BY <1>2
<1>4. PICK new, s : new = PidsForked(F) /\ s = Forked(F)
  OBVIOUS
<1>5. /\ Ages /\ npid <= npid' /\ new = {s[j] : j \in DOMAIN s}
      /\ \A p \in new : p \in Pids /\ p \in 1..npid' /\ pgrp'[p] = (IF 1 \in F THEN npid + 1 ELSE Shell)
      /\ \A p \in Pids \ new : Alive(p)' => Alive(p)
  BY <1>3, <1>4, ForkedAre
<1>6. \A p \in new : ks[p] = "free"
  <2>1. new = (npid + 1)..(npid + Cardinality(F))
    BY <1>4 DEF PidsForked
  <2>2. \A p \in new : p \in Nat /\ p > npid
    BY <1>0, <1>5, <2>1 DEF Pids
  <2> QED BY <1>0, <1>5, <2>2 DEF KernelOK
<1>7. CmdOK' /\ pc \notin FgPcs /\ pc \notin CopyPcs /\ pc' \notin CopyPcs /\ Moves(0)
  BY <1>0, <1>1, NoWait DEF CmdOK, AlarmOK, Waiting, FgPcs, CopyPcs, Moves
<1>8. ASSUME UNCHANGED <<jobs, job_count, next_job_number>>, 1 \notin F \/ job_count = MAX_JOBS
      PROVE  KnownInv' /\ Remembers
  <2>1. JobFrame(0) /\ 0 \in 0..job_count
    BY <1>5, <1>8, SameJobs, KeptFrame
  <2>2. SlotsOK'
    BY <1>0, <1>7, <2>1, FrameSlots
  <2>3. \A p \in Pids : Known(p) => Known(p)'
    BY <2>1, FrameKnown
  <2>4. \A p \in new : p \in Pids /\ p \in 1..npid' /\ (pgrp'[p] # Shell => job_count = MAX_JOBS)
    BY <1>5, <1>8
  <2>5. Remembers
    BY <1>0, <1>5, <1>6, <1>7, <2>2, <2>3, <2>4, LaunchRemembers
  <2> QED BY <1>7, <2>2, <2>5 DEF KnownInv
<1>9. ASSUME 1 \in F, NEW k, JobAdded(k, npid + 1, s) PROVE KnownInv' /\ Remembers
  <2>1. PICK g : g = npid + 1
    OBVIOUS
  <2>2. JobAdded(k, g, s) /\ \A j \in DOMAIN s : pgrp'[s[j]] = g
    BY <1>5, <1>9, <2>1
  <2>3. SlotsOK' /\ (\A p : Known(p) => Known(p)') /\ \A j \in DOMAIN s : Known(s[j])'
    BY <1>0, <1>5, <1>7, <2>2, AddedSlots
  <2>4. \A p \in new : p \in Pids /\ p \in 1..npid' /\ Known(p)'
    BY <1>5, <2>3
  <2>5. Remembers
    BY <1>0, <1>5, <1>6, <1>7, <2>3, <2>4, LaunchRemembers
  <2> QED BY <1>7, <2>3, <2>5 DEF KnownInv
<1>10. CASE 1 \in F
  <2>1. Register(npid + 1, s, "run") /\ npid + 1 \in Pids /\ s \in Seq(Pids)
    BY <1>3, <1>4, <1>10, ForkFacts
  <2>2. PICK g \in Pids \cup {Shell} : g = npid + 1
    BY <2>1
  <2>3. \/ job_count = MAX_JOBS /\ UNCHANGED <<jobs, job_count, next_job_number>>
        \/ \E k : JobAdded(k, g, s)
    BY <1>0, <2>1, <2>2, RegisterAdds
  <2> QED BY <1>8, <1>9, <1>10, <2>2, <2>3
<1> QED BY <1>3, <1>8, <1>10

LEMMA ForegroundKnown == ASSUME JobInv, JobInv', KnownInv, LaunchForeground PROVE KnownInv' /\ Remembers
<1>0. TypeOK /\ KernelOK /\ CmdOK /\ SlotsOK /\ npid \in Nat
  BY NPIDAssumption DEF JobInv, KnownInv, TypeOK
<1>1. UNCHANGED <<alarm, jobs, job_count, next_job_number>> /\ pc \in {"prompt", "seq"}
  BY DEF LaunchForeground, AtCommand, tableVars
<1>2. PICK n \in 1..MaxStages : \E F \in Forks(n) :
        /\ Fork(F)
        /\ IF 1 \in F
           THEN /\ pc' = "fgloop"
                /\ cmd' = [NoCmd EXCEPT !.pgid = npid + 1, !.pids = Forked(F), !.waits = PidsForked(F), !.count = n]
           ELSE pc' = "seq"
  BY DEF LaunchForeground
<1>3. PICK F \in Forks(n) :
        /\ Fork(F)
        /\ IF 1 \in F
           THEN /\ pc' = "fgloop"
                /\ cmd' = [NoCmd EXCEPT !.pgid = npid + 1, !.pids = Forked(F), !.waits = PidsForked(F), !.count = n]
           ELSE pc' = "seq"
  BY <1>2
<1>4. PICK new, s : new = PidsForked(F) /\ s = Forked(F)
  OBVIOUS
<1>5. /\ Ages /\ npid <= npid' /\ new = {s[j] : j \in DOMAIN s} /\ Cardinality(new) <= n
      /\ \A p \in new : p \in Pids /\ p \in 1..npid' /\ pgrp'[p] = (IF 1 \in F THEN npid + 1 ELSE Shell)
      /\ \A p \in Pids \ new : Alive(p)' => Alive(p)
  BY <1>3, <1>4, ForkedAre
<1>6. \A p \in new : ks[p] = "free"
  <2>1. new = (npid + 1)..(npid + Cardinality(F))
    BY <1>4 DEF PidsForked
  <2>2. \A p \in new : p \in Nat /\ p > npid
    BY <1>0, <1>5, <2>1 DEF Pids
  <2> QED BY <1>0, <1>5, <2>2 DEF KernelOK
<1>7. ~alarm' /\ pc \notin FgPcs /\ Moves(0)
  BY <1>0, <1>1, <1>3 DEF CmdOK, AlarmOK, Waiting, FgPcs, CopyPcs, Moves
<1>8. JobFrame(0) /\ 0 \in 0..job_count
  BY <1>1, <1>5, SameJobs, KeptFrame
<1>9. SlotsOK' /\ \A p \in Pids : Known(p) => Known(p)'
  BY <1>0, <1>7, <1>8, FrameSlots, FrameKnown
<1>10. CASE 1 \notin F
  <2>1. CmdOK'
    BY <1>3, <1>7, <1>10, NoWait DEF Waiting, FgPcs
  <2>2. \A p \in new : p \in Pids /\ p \in 1..npid' /\ ~(pgrp'[p] # Shell)
    BY <1>5, <1>10
  <2>3. Remembers
    BY <1>0, <1>5, <1>6, <1>7, <1>9, <2>2, LaunchRemembers
  <2> QED BY <1>9, <2>1, <2>3 DEF KnownInv
<1>11. CASE 1 \in F
  <2>1. PICK g : g = npid + 1
    OBVIOUS
  <2>2. pc' = "fgloop" /\ cmd' = [NoCmd EXCEPT !.pgid = g, !.pids = s, !.waits = new, !.count = n]
    BY <1>3, <1>4, <1>11, <2>1
  <2>3. cmd'.pgid = g /\ cmd'.pids = s /\ cmd'.waits = new /\ cmd'.count = n /\ cmd'.done = {} /\ cmd'.fg = FALSE
    BY <2>2 DEF NoCmd
  <2>4. WaitsOK'
    BY <1>5, <1>11, <2>1, <2>2, <2>3 DEF WaitsOK
  <2>5. Waiting' /\ ~Resuming'
    BY <2>2, <2>3 DEF Waiting, Resuming, FgPcs
  <2>6. CmdOK'
    BY <1>5, <1>7, <2>3, <2>4, <2>5 DEF CmdOK, ResumeOK, LaunchOK, AlarmOK
  <2>7. \A p \in new : p \in Pids /\ p \in 1..npid' /\ pc' \in FgPcs /\ p \in cmd'.waits
    BY <1>5, <2>2, <2>3 DEF FgPcs
  <2>8. Remembers
    BY <1>0, <1>5, <1>6, <1>7, <1>9, <2>7, LaunchRemembers
  <2> QED BY <1>9, <2>6, <2>8 DEF KnownInv
<1> QED BY <1>10, <1>11

\* A resume takes down the processes of its job that are not known to be over.
LEMMA LookupKnown == ASSUME JobInv, JobInv', KnownInv, ResumeLookup PROVE KnownInv' /\ Remembers
<1>0. TypeOK /\ MarkedOK /\ CmdOK /\ SlotsOK /\ npid \in Nat
  BY NPIDAssumption DEF JobInv, KnownInv, TypeOK
<1>1. UNCHANGED <<ks, pgrp, npid, alarm, jobs, job_count, next_job_number>> /\ pc = "prompt" /\ pc' = "resume" /\ pc \notin FgPcs
  BY DEF ResumeLookup, tableVars, kernelVars, FgPcs
<1>2. PICK i \in 1..job_count : \E fg, timeout \in BOOLEAN :
          cmd' = [NoCmd EXCEPT !.pgid = jobs[i].pgid, !.num = jobs[i].num,
                    !.waits = {jobs[i].procs[j].pid : j \in Unexited(i)},
                    !.count = Cardinality(Unexited(i)), !.fg = fg, !.timeout = timeout]
  BY DEF ResumeLookup
<1>3. PICK left, wanted : left = Unexited(i) /\ wanted = {jobs[i].procs[j].pid : j \in Unexited(i)}
  OBVIOUS
<1>4. cmd'.pgid = jobs[i].pgid /\ cmd'.num = jobs[i].num /\ cmd'.waits = wanted /\ cmd'.count = Cardinality(left) /\ cmd'.done = {}
  BY <1>2, <1>3 DEF NoCmd
<1>5. i \in Slots /\ ~Copied /\ \A k : ~Torn(k)
  BY <1>0, <1>1, SlotsInTable DEF Copied, Torn
<1>6. /\ DOMAIN PidsOf(i) = DOMAIN jobs[i].procs /\ DOMAIN jobs[i].procs = 1..Len(jobs[i].procs) /\ Len(jobs[i].procs) \in Nat
      /\ \A j \in DOMAIN PidsOf(i) : PidsOf(i)[j] = jobs[i].procs[j].pid /\ PidsOf(i)[j] \in Pids /\ PidsOf(i)[j] \in 1..npid
  BY <1>0, <1>5, SlotType, ProcsType DEF JobInv, TableOK, Proper
<1>7. left \subseteq DOMAIN PidsOf(i) /\ wanted = {PidsOf(i)[j] : j \in left}
  BY <1>3, <1>6 DEF Unexited
<1>8. Cardinality(wanted) <= Cardinality(left)
  <2>1. PICK m \in Nat : DOMAIN PidsOf(i) = 1..m
    BY <1>6
  <2>2. IsFiniteSet(1..m)
    BY FS_Interval
  <2>3. left \in SUBSET (1..m)
    BY <1>7, <2>1
  <2>4. IsFiniteSet(left)
    BY <2>2, <2>3, FS_Subset
  <2>5. PICK f : f = [j \in left |-> PidsOf(i)[j]]
    OBVIOUS
  <2>6. f \in Surjection(left, wanted)
    BY <1>7, <2>5 DEF Surjection
  <2> QED BY <2>4, <2>6, FS_Surjection
<1>9. Ages /\ npid <= npid' /\ Moves(0)
  BY <1>0, <1>1 DEF Ages, Alive, Moves, CopyPcs
<1>10. JobFrame(0) /\ 0 \in 0..job_count
  BY <1>1, <1>9, SameJobs, KeptFrame
<1>11. WaitsOK'
  <2>1. \A p \in wanted : p \in 1..npid /\ pgrp[p] = jobs[i].pgid
    BY <1>0, <1>6, <1>7 DEF SlotsOK, GroupOK
  <2> QED BY <1>1, <1>4, <1>8, <2>1 DEF WaitsOK
<1>12. ResumeOK'
  <2>1. \A k \in 1..job_count : jobs[k].num = jobs[i].num => k = i
    BY <1>0, <1>5 DEF SlotsOK, NumOK
  <2>2. ASSUME NEW p \in Pids, Lists(i, p), Alive(p) PROVE p \in wanted
    <3>1. PICK j \in DOMAIN PidsOf(i) : PidsOf(i)[j] = p
      BY <2>2 DEF Lists
    <3>2. j \notin ExitsOf(i)
      BY <1>0, <2>2, <3>1 DEF MarkedOK, Alive
    <3>3. j \in left
      BY <1>3, <1>6, <3>1, <3>2, Zenon DEF ExitsOf, Unexited
    <3> QED BY <1>7, <3>1, <3>3
  <2>3. \A p \in wanted : Known(p)
    BY <1>7 DEF Known, Lists
  <2>4. \A k \in 1..job_count : JobFrom(k, k)
    BY <1>1, SameJobs
  <2>5. \A p : (Alive(p)' <=> Alive(p)) /\ (Known(p) => Known(p)') /\ \A k \in 1..job_count : Lists(k, p)' <=> Lists(k, p)
    BY <1>1, <2>4 DEF Alive, Known, Lists, JobFrom
  <2> QED BY <1>1, <1>4, <2>1, <2>2, <2>3, <2>5 DEF ResumeOK
<1>13. CmdOK'
  <2>1. Resuming' /\ ~alarm'
    BY <1>0, <1>1 DEF Resuming, Waiting, FgPcs, CmdOK, AlarmOK
  <2> QED BY <1>11, <1>12, <2>1 DEF CmdOK, LaunchOK, AlarmOK
<1> QED BY <1>1, <1>9, <1>10, <1>13, FrameStep

LEMMA InputKnown == ASSUME JobInv, JobInv', KnownInv, Input PROVE KnownInv' /\ Remembers
<1>1. CASE Finish \/ BlankLine \/ Eof
  <2>1. /\ UNCHANGED <<ks, pgrp, npid, alarm, jobs, job_count, next_job_number>>
        /\ pc \in {"prompt", "seq"} /\ pc' \in {"drain", "prompt", "exited"}
    BY <1>1 DEF Finish, BlankLine, Eof, AtCommand, tableVars, kernelVars
  <2>2. Ages /\ npid <= npid' /\ Moves(0) /\ pc \notin FgPcs
    BY <2>1, NPIDAssumption DEF JobInv, TypeOK, Ages, Alive, Moves, CopyPcs, FgPcs
  <2>3. CmdOK'
    BY <2>1, NoWait DEF KnownInv, CmdOK, AlarmOK, Waiting, FgPcs
  <2>4. JobFrame(0) /\ 0 \in 0..job_count
    BY <2>1, <2>2, SameJobs, KeptFrame
  <2> QED BY <2>1, <2>2, <2>3, <2>4, FrameStep
<1> QED BY <1>1, LookupKnown, BackgroundKnown, ForegroundKnown DEF Input

LEMMA NextKnown == ASSUME JobInv, JobInv', KnownInv, [Next]_vars PROVE KnownInv' /\ Remembers
<1>1. CASE Next
  BY <1>1, ChildrenKnown, HandlerKnown, FgWaitKnown, FgEndKnown, AlarmKnown, DrainOneKnown, CopyKnown, ShrinkKnown,
     ResumeKnown, InputKnown DEF Next, Wait, Drain
<1>2. CASE UNCHANGED vars
  <2>1. UNCHANGED <<ks, pgrp, npid, alarm, pc, cmd, jobs, job_count, next_job_number>>
    BY <1>2 DEF vars, kernelVars, tableVars
  <2>2. Ages /\ npid <= npid'
    BY <2>1, NPIDAssumption DEF JobInv, TypeOK, Ages, Alive
  <2>3. JobFrame(0)
    BY <2>1, <2>2, SameJobs, KeptFrame
  <2> QED BY <2>1, <2>2, <2>3, NoBirth, QuietStep
<1> QED BY <1>1, <1>2

\* No launch, stop, resume, drain, removal or foreground wait loses a live
\* process of a job's group, whatever the children and the handler do in
\* between and wherever they interrupt the drain's copy: it stays listed where
\* the handler finds it, or waited for, but for a resume that timed out and for
\* a table that was full.
THEOREM NeverForgottenCorrect == Spec => NeverForgotten
<1>1. ASSUME JobInv, JobInv', KnownInv, [Next]_vars PROVE KnownInv' /\ [Remembers]_vars
  BY <1>1, NextKnown
<1>2. [][Remembers]_vars => NeverForgotten
  BY PTL DEF NeverForgotten, Remembers
<1> QED BY JobInvariant, InitKnown, <1>1, <1>2, PTL DEF Spec

-----------------------------------------------------------------------------
(***************************************************************************)
(* The plumbing of a pipeline, a specification with a state of its own.    *)
(***************************************************************************)

(* The inductive invariant.                                                 *)

InsOf(S) == {R(In(j)) : j \in S}
FilesOf(S) == {Files(j) : j \in S}
FilesFailed == FilesOf({j \in Stages : failed[j]})
Outs == UNION {Both(Out(j)) : j \in Stages}
Loops == {"input", "output", "pipe", "copier", "stage", "cleanup", "waitpid"}

\* A table with an entry for the shell and each process it may fork.
IsTable(h) == h = [p \in ChildIds \union {ShellId} |-> h[p]]

PlumbingTypes ==
  /\ line \in Pipelines
  /\ where \in [at : Loops \union {"close", "wait", "prompt", "aborted"}, i : Nat]
  /\ failed \in [Stages -> BOOLEAN]
  /\ IsTable(held)

\* What the shell may have open at each place of the code: what the loop it is in has
\* opened so far, or has not closed yet.
OpenAt ==
  /\ where.at = "input" => held[ShellId] \subseteq InsOf(1 .. where.i - 1) \union FilesOf(1 .. where.i - 1)
  /\ where.at = "output" => held[ShellId] \subseteq InsOf(1 .. where.i) \union FilesOf(1 .. where.i - 1)
  /\ where.at = "pipe" => held[ShellId] \subseteq InsOf(1 .. N) \union FilesOf(1 .. N) \union Mids
  /\ where.at \in {"copier", "stage", "close"} =>
       held[ShellId] \subseteq InsOf(1 .. N) \union FilesOf(1 .. N) \union Mids \union Outs
  /\ where.at = "cleanup" => held[ShellId] \subseteq InsOf(where.i .. N) \union FilesOf(where.i .. N) \union FilesFailed
  /\ where.at = "waitpid" => held[ShellId] \subseteq InsOf(where.i + 1 .. N) \union FilesOf(where.i .. N) \union FilesFailed
  /\ where.at \in {"wait", "prompt"} => held[ShellId] \subseteq FilesFailed

OpenInv == PlumbingTypes /\ OpenAt

-----------------------------------------------------------------------------
(* The number of stages, and the table of what is open.                     *)

LEMMA Length == ASSUME PlumbingTypes PROVE N \in Nat /\ N >= 1 /\ 1 .. N \subseteq Stages
  BY PlumbingAssumption DEF PlumbingTypes, N, Stages

\* What the shell holds after an update of the table, its own entry or a child's.
LEMMA HeldByShell ==
  ASSUME PlumbingTypes
  PROVE  /\ \A X : IsTable([held EXCEPT ![ShellId] = X]) /\ [held EXCEPT ![ShellId] = X][ShellId] = X
         /\ \A p \in ChildIds : \A Y : /\ IsTable([held EXCEPT ![p] = Y])
                                       /\ [held EXCEPT ![p] = Y][ShellId] = held[ShellId]
         /\ \A p \in ChildIds : \A X, Y : /\ IsTable([held EXCEPT ![p] = Y, ![ShellId] = X])
                                          /\ [held EXCEPT ![p] = Y, ![ShellId] = X][ShellId] = X
<1>1. \A p \in ChildIds : p # ShellId
  BY DEF ChildIds, ShellId
<1> QED BY <1>1 DEF PlumbingTypes, IsTable

LEMMA OpenInit == ASSUME PlumbingInit PROVE OpenInv
<1>1. PlumbingTypes
  BY DEF PlumbingInit, PlumbingTypes, IsTable, Loops
<1>2. held[ShellId] = {} /\ where.at = "input"
  BY DEF PlumbingInit
<1> QED BY <1>1, <1>2 DEF OpenInv, OpenAt

-----------------------------------------------------------------------------
(* The steps.                                                               *)

LEMMA SetupInputStep == ASSUME OpenInv, NEW i \in 1 .. N, SetupInput(i) PROVE OpenInv'
<1> USE DEF OpenInv
<1>0. i \in Nat /\ <<"writer", i>> \in ChildIds
  BY Length DEF ChildIds
<1>1. where.at = "input" /\ where.i = i /\ line' = line
  BY DEF SetupInput, At
<1>2. held[ShellId] \subseteq InsOf(1 .. i - 1) \union FilesOf(1 .. i - 1)
  BY <1>1 DEF OpenAt
<1> DEFINE H == [held EXCEPT ![<<"writer", i>>] = held[ShellId] \union Both(In(i)),
                             ![ShellId] = held[ShellId] \union {R(In(i))}]
<1>h. \/ where' = [at |-> "output", i |-> i] /\ held' = held
      \/ /\ where' = [at |-> "output", i |-> i]
         /\ held' = H
      \/ where' = [at |-> "prompt", i |-> 0] /\ held' = [held EXCEPT ![ShellId] = {}]
  BY DEF SetupInput, Goto, BackOut
<1>j. IsTable(H) /\ H[ShellId] = held[ShellId] \union {R(In(i))}
  <2>1. <<"writer", i>> # ShellId
    BY DEF ShellId
  <2>2. IsTable(held)
    BY DEF PlumbingTypes
  <2> QED BY <1>0, <2>1, <2>2 DEF IsTable
<1> HIDE DEF H
<1>3. PlumbingTypes'
  <2>1. failed' \in [Stages -> BOOLEAN] /\ line' \in Pipelines
    BY <1>0, <1>1 DEF PlumbingTypes, SetupInput, Goto, BackOut
  <2>2. where' \in [at : Loops \union {"close", "wait", "prompt", "aborted"}, i : Nat]
    BY <1>0, <1>1 DEF PlumbingTypes, SetupInput, Goto, BackOut, Loops
  <2>3. IsTable(held')
    BY <1>0, <1>h, <1>j, HeldByShell DEF PlumbingTypes
  <2> QED BY <2>1, <2>2, <2>3 DEF PlumbingTypes
<1>4. \/ where' = [at |-> "output", i |-> i] /\ held'[ShellId] \subseteq held[ShellId] \union {R(In(i))}
      \/ where' = [at |-> "prompt", i |-> 0] /\ held'[ShellId] = {}
  BY <1>0, <1>h, <1>j, HeldByShell
<1>5. CASE where' = [at |-> "output", i |-> i] /\ held'[ShellId] \subseteq held[ShellId] \union {R(In(i))}
  <2>1. held'[ShellId] \subseteq InsOf(1 .. i) \union FilesOf(1 .. i - 1)
    BY <1>0, <1>2, <1>5 DEF InsOf
  <2> QED BY <1>3, <1>5, <2>1 DEF OpenAt
<1>6. CASE where' = [at |-> "prompt", i |-> 0] /\ held'[ShellId] = {}
  BY <1>3, <1>6 DEF OpenAt
<1> QED BY <1>4, <1>5, <1>6

LEMMA OpenOutputStep == ASSUME OpenInv, NEW i \in 1 .. N, OpenOutput(i) PROVE OpenInv'
<1> USE DEF OpenInv
<1>0. i \in Nat /\ N \in Nat /\ N' = N
  BY Length DEF OpenOutput, N
<1>1. where.at = "output" /\ where.i = i /\ line' = line
  BY DEF OpenOutput, At
<1>2. held[ShellId] \subseteq InsOf(1 .. i) \union FilesOf(1 .. i - 1)
  BY <1>1 DEF OpenAt
<1>h. \/ Opened(i) /\ held' = held
      \/ Opened(i) /\ held' = [held EXCEPT ![ShellId] = held[ShellId] \union {Files(i)}]
      \/ where' = [at |-> "prompt", i |-> 0] /\ held' = [held EXCEPT ![ShellId] = {}]
  BY DEF OpenOutput, Goto, BackOut
<1>3. PlumbingTypes'
  <2>1. failed' \in [Stages -> BOOLEAN] /\ line' \in Pipelines
    BY <1>0, <1>1 DEF PlumbingTypes, OpenOutput, Opened, Goto, BackOut
  <2>2. where' \in [at : Loops \union {"close", "wait", "prompt", "aborted"}, i : Nat]
    BY <1>0, <1>1 DEF PlumbingTypes, OpenOutput, Opened, Goto, BackOut, Loops
  <2>3. IsTable(held')
    BY <1>h, HeldByShell DEF PlumbingTypes
  <2> QED BY <2>1, <2>2, <2>3 DEF PlumbingTypes
<1>4. \/ Opened(i) /\ held'[ShellId] \subseteq held[ShellId] \union {Files(i)}
      \/ where' = [at |-> "prompt", i |-> 0] /\ held'[ShellId] = {}
  BY <1>h, HeldByShell
<1>5. CASE Opened(i) /\ held'[ShellId] \subseteq held[ShellId] \union {Files(i)}
  <2>1. held'[ShellId] \subseteq InsOf(1 .. i) \union FilesOf(1 .. i)
    BY <1>0, <1>2, <1>5 DEF FilesOf
  <2>2. CASE i < N
    <3>1. where' = [at |-> "input", i |-> i + 1] /\ (i + 1) - 1 = i
      BY <1>0, <1>5, <2>2 DEF Opened, Goto
    <3> QED BY <1>3, <2>1, <3>1 DEF OpenAt
  <2>3. CASE ~(i < N)
    <3>1. i = N /\ where'.at \in {"pipe", "copier"}
      BY <1>0, <1>5, <2>3 DEF Opened, Goto
    <3> QED BY <1>0, <1>3, <2>1, <3>1 DEF OpenAt
  <2> QED BY <2>2, <2>3
<1>6. CASE where' = [at |-> "prompt", i |-> 0] /\ held'[ShellId] = {}
  BY <1>3, <1>6 DEF OpenAt
<1> QED BY <1>4, <1>5, <1>6

LEMMA PipeStep ==
  ASSUME OpenInv, NEW i \in 1 .. N, MakePipe(i) \/ PipeFails(i) \/ PipeFailsBackground(i) PROVE OpenInv'
<1> USE DEF OpenInv
<1>0. i \in Stages /\ N \in Nat /\ N' = N
  BY Length DEF MakePipe, PipeFails, PipeFailsBackground, N
<1>2. held[ShellId] \subseteq InsOf(1 .. N) \union FilesOf(1 .. N) \union Mids
  BY DEF OpenAt, MakePipe, PipeFails, PipeFailsBackground, At
<1>3. PlumbingTypes'
  <2>1. failed' \in [Stages -> BOOLEAN] /\ line' \in Pipelines
    BY <1>0 DEF PlumbingTypes, MakePipe, PipeFails, PipeFailsBackground, Past, Goto
  <2>2. where' \in [at : Loops \union {"close", "wait", "prompt", "aborted"}, i : Nat]
    BY <1>0 DEF PlumbingTypes, MakePipe, PipeFails, PipeFailsBackground, Past, Goto, Loops
  <2>3. IsTable(held')
    BY <1>0, HeldByShell DEF PlumbingTypes, MakePipe, PipeFails, PipeFailsBackground, Past, Goto
  <2> QED BY <2>1, <2>2, <2>3 DEF PlumbingTypes
<1>4. CASE MakePipe(i)
  <2>1. held'[ShellId] = held[ShellId] \union Both(Mid(i)) /\ where'.at \in {"pipe", "copier"}
    BY <1>4, HeldByShell DEF MakePipe, Past, Goto
  <2>2. Both(Mid(i)) \subseteq Mids
    BY <1>0 DEF Mids
  <2> QED BY <1>0, <1>2, <1>3, <2>1, <2>2 DEF OpenAt
<1>5. CASE PipeFails(i)
  <2>1. held'[ShellId] = held[ShellId] \ Mids /\ where'.at = "cleanup" /\ where'.i = 1
    BY <1>5, HeldByShell DEF PipeFails, Goto
  <2> QED BY <1>0, <1>2, <1>3, <2>1 DEF OpenAt
<1>6. CASE PipeFailsBackground(i)
  BY <1>3, <1>6 DEF PipeFailsBackground, Goto, OpenAt
<1> QED BY <1>4, <1>5, <1>6

LEMMA CleanupStep == ASSUME OpenInv, NEW i \in 1 .. N, Cleanup(i) PROVE OpenInv'
<1> USE DEF OpenInv
<1>0. i \in Nat /\ N \in Nat /\ N' = N /\ FilesFailed' = FilesFailed
  BY Length DEF Cleanup, N, FilesFailed
<1>2. held[ShellId] \subseteq InsOf(i .. N) \union FilesOf(i .. N) \union FilesFailed
  BY DEF OpenAt, Cleanup, At
<1>3. PlumbingTypes'
  <2>1. failed' \in [Stages -> BOOLEAN] /\ line' \in Pipelines
    BY <1>0 DEF PlumbingTypes, Cleanup, Goto
  <2>2. where' \in [at : Loops \union {"close", "wait", "prompt", "aborted"}, i : Nat]
    BY <1>0 DEF PlumbingTypes, Cleanup, Goto, Loops
  <2>3. IsTable(held')
    BY <1>0, HeldByShell DEF PlumbingTypes, Cleanup, Goto
  <2> QED BY <2>1, <2>2, <2>3 DEF PlumbingTypes
<1>4. held'[ShellId] = held[ShellId] \ {R(In(i))} /\ where'.at = "waitpid" /\ where'.i = i
  BY HeldByShell DEF Cleanup, Goto
<1>5. InsOf(i .. N) \ {R(In(i))} \subseteq InsOf(i + 1 .. N)
  BY <1>0 DEF InsOf
<1> QED BY <1>0, <1>2, <1>3, <1>4, <1>5 DEF OpenAt

LEMMA CleanupWaitStep == ASSUME OpenInv, NEW i \in 1 .. N, CleanupWait(i) PROVE OpenInv'
<1> USE DEF OpenInv
<1>0. i \in Stages /\ i \in Nat /\ N \in Nat /\ N' = N /\ FilesFailed' = FilesFailed
  BY Length DEF CleanupWait, N, FilesFailed
<1>2. held[ShellId] \subseteq InsOf(i + 1 .. N) \union FilesOf(i .. N) \union FilesFailed
  BY DEF OpenAt, CleanupWait, At
<1>3. PlumbingTypes'
  <2>1. failed' \in [Stages -> BOOLEAN] /\ line' \in Pipelines
    BY <1>0 DEF PlumbingTypes, CleanupWait, Goto
  <2>2. where' \in [at : Loops \union {"close", "wait", "prompt", "aborted"}, i : Nat]
    BY <1>0 DEF PlumbingTypes, CleanupWait, Goto, Loops
  <2>3. IsTable(held')
    BY <1>0, HeldByShell DEF PlumbingTypes, CleanupWait, Goto
  <2> QED BY <2>1, <2>2, <2>3 DEF PlumbingTypes
<1>4. held'[ShellId] = IF failed[i] THEN held[ShellId] ELSE held[ShellId] \ {Files(i)}
  BY HeldByShell DEF CleanupWait
<1>5. FilesOf(i .. N) \subseteq FilesOf(i + 1 .. N) \union {Files(i)}
  BY <1>0 DEF FilesOf
<1>6. failed[i] => Files(i) \in FilesFailed
  BY <1>0 DEF FilesFailed, FilesOf
<1>7. held'[ShellId] \subseteq InsOf(i + 1 .. N) \union FilesOf(i + 1 .. N) \union FilesFailed
  BY <1>2, <1>4, <1>5, <1>6
<1>8. CASE i < N
  <2>1. where'.at = "cleanup" /\ where'.i = i + 1
    BY <1>8 DEF CleanupWait, Goto
  <2> QED BY <1>0, <1>3, <1>7, <2>1 DEF OpenAt
<1>9. CASE ~(i < N)
  <2>1. where'.at = "prompt" /\ InsOf(i + 1 .. N) = {} /\ FilesOf(i + 1 .. N) = {}
    BY <1>0, <1>9 DEF CleanupWait, Goto, InsOf, FilesOf
  <2> QED BY <1>0, <1>3, <1>7, <2>1 DEF OpenAt
<1> QED BY <1>8, <1>9

LEMMA CopierStep == ASSUME OpenInv, NEW i \in 1 .. N, StartCopier(i) \/ CopierFails(i) PROVE OpenInv'
<1> USE DEF OpenInv
<1>0. i \in Stages /\ N \in Nat /\ N' = N /\ <<"copier", i>> \in ChildIds
  BY Length DEF StartCopier, CopierFails, N, ChildIds
<1>2. held[ShellId] \subseteq InsOf(1 .. N) \union FilesOf(1 .. N) \union Mids \union Outs
  BY DEF OpenAt, StartCopier, CopierFails, At
<1> DEFINE H == [held EXCEPT ![<<"copier", i>>] = held[ShellId] \union Both(Out(i)),
                             ![ShellId] = held[ShellId] \union Both(Out(i))]
<1>h. \/ where'.at \in {"copier", "stage"} /\ held' = held
      \/ /\ where'.at \in {"copier", "stage"}
         /\ held' = H
      \/ /\ where'.at \in {"copier", "stage"}
         /\ held' = [held EXCEPT ![ShellId] = IF line.bg THEN held[ShellId] ELSE held[ShellId] \ {Files(i)}]
      \/ where'.at = "prompt" /\ held' = [held EXCEPT ![ShellId] = {}]
  BY DEF StartCopier, CopierFails, Past, Goto, ForkChild, BackOut
<1>j. IsTable(H) /\ H[ShellId] = held[ShellId] \union Both(Out(i))
  <2>1. <<"copier", i>> # ShellId
    BY DEF ShellId
  <2>2. IsTable(held)
    BY DEF PlumbingTypes
  <2> QED BY <1>0, <2>1, <2>2 DEF IsTable
<1> HIDE DEF H
<1>3. PlumbingTypes'
  <2>1. failed' \in [Stages -> BOOLEAN] /\ line' \in Pipelines
    BY <1>0 DEF PlumbingTypes, StartCopier, CopierFails, Past, Goto, ForkChild, BackOut
  <2>2. where' \in [at : Loops \union {"close", "wait", "prompt", "aborted"}, i : Nat]
    BY <1>0 DEF PlumbingTypes, StartCopier, CopierFails, Past, Goto, ForkChild, BackOut, Loops
  <2>3. IsTable(held')
    BY <1>0, <1>h, <1>j, HeldByShell DEF PlumbingTypes
  <2> QED BY <2>1, <2>2, <2>3 DEF PlumbingTypes
<1>4. \/ where'.at \in {"copier", "stage"} /\ held'[ShellId] \subseteq held[ShellId] \union Both(Out(i))
      \/ where'.at = "prompt" /\ held'[ShellId] = {}
  BY <1>0, <1>h, <1>j, HeldByShell
<1>5. Both(Out(i)) \subseteq Outs
  BY <1>0 DEF Outs
<1> QED BY <1>0, <1>2, <1>3, <1>4, <1>5 DEF OpenAt

LEMMA ForkStageStep == ASSUME OpenInv, NEW i \in 1 .. N, ForkStage(i) PROVE OpenInv'
<1> USE DEF OpenInv
<1>0. i \in Stages /\ N \in Nat /\ N' = N /\ <<"stage", i>> \in ChildIds
  BY Length DEF ForkStage, N, ChildIds
<1>2. held[ShellId] \subseteq InsOf(1 .. N) \union FilesOf(1 .. N) \union Mids \union Outs
  BY DEF OpenAt, ForkStage, At
<1>h. \/ where'.at \in {"stage", "close"} /\ held' = held
      \/ /\ where'.at \in {"stage", "close"}
         /\ held' = [held EXCEPT ![<<"stage", i>>] = held[ShellId] \union {}, ![ShellId] = held[ShellId] \union {}]
      \/ where'.at = "prompt" /\ held' = [held EXCEPT ![ShellId] = {}]
  BY DEF ForkStage, Past, Goto, ForkChild, BackOut
<1>3. PlumbingTypes'
  <2>1. failed' \in [Stages -> BOOLEAN] /\ line' \in Pipelines
    BY <1>0 DEF PlumbingTypes, ForkStage, Past, Goto, ForkChild, BackOut
  <2>2. where' \in [at : Loops \union {"close", "wait", "prompt", "aborted"}, i : Nat]
    BY <1>0 DEF PlumbingTypes, ForkStage, Past, Goto, ForkChild, BackOut, Loops
  <2>3. IsTable(held')
    BY <1>0, <1>h, HeldByShell DEF PlumbingTypes
  <2> QED BY <2>1, <2>2, <2>3 DEF PlumbingTypes
<1>4. \/ where'.at \in {"stage", "close"} /\ held'[ShellId] = held[ShellId]
      \/ where'.at = "prompt" /\ held'[ShellId] = {}
  BY <1>0, <1>h, HeldByShell
<1> QED BY <1>0, <1>2, <1>3, <1>4 DEF OpenAt

LEMMA CloseStep == ASSUME OpenInv, CloseAll PROVE OpenInv'
<1> USE DEF OpenInv
<1>0. N \in Nat /\ 1 .. N \subseteq Stages /\ FilesFailed' = FilesFailed
  BY Length DEF CloseAll, FilesFailed
<1>2. held[ShellId] \subseteq InsOf(1 .. N) \union FilesOf(1 .. N) \union Mids \union Outs
  BY DEF OpenAt, CloseAll
<1>3. PlumbingTypes'
  <2>1. failed' \in [Stages -> BOOLEAN] /\ line' \in Pipelines
    BY DEF PlumbingTypes, CloseAll, Goto
  <2>2. where' \in [at : Loops \union {"close", "wait", "prompt", "aborted"}, i : Nat]
    BY DEF PlumbingTypes, CloseAll, Goto, Loops
  <2>3. IsTable(held')
    BY HeldByShell DEF PlumbingTypes, CloseAll, Goto
  <2> QED BY <2>1, <2>2, <2>3 DEF PlumbingTypes
<1>4. held'[ShellId] = held[ShellId] \ ShellCloses /\ where'.at \in {"prompt", "wait"}
  BY HeldByShell DEF CloseAll, Goto
<1>5. InsOf(1 .. N) \union Mids \union Outs \subseteq ShellCloses
  BY <1>0 DEF InsOf, ShellCloses, Ins, Outs
<1>6. FilesOf(1 .. N) \subseteq FilesFailed \union ShellCloses
  BY <1>0 DEF FilesOf, FilesFailed, ShellCloses, FilesOpen
<1> QED BY <1>0, <1>2, <1>3, <1>4, <1>5, <1>6 DEF OpenAt

\* NotFound comes before anything is open; WaitGroup closes nothing.
LEMMA ReturnStep == ASSUME OpenInv, NotFound \/ WaitGroup PROVE OpenInv'
<1> USE DEF OpenInv
<1>1. PlumbingTypes'
  <2>1. failed' \in [Stages -> BOOLEAN] /\ line' \in Pipelines
    BY DEF PlumbingTypes, NotFound, WaitGroup, Goto
  <2>2. where' \in [at : Loops \union {"close", "wait", "prompt", "aborted"}, i : Nat]
    BY DEF PlumbingTypes, NotFound, WaitGroup, Goto, Loops
  <2>3. IsTable(held')
    BY HeldByShell DEF PlumbingTypes, NotFound, WaitGroup, Goto
  <2> QED BY <2>1, <2>2, <2>3 DEF PlumbingTypes
<1>2. held' = held /\ FilesFailed' = FilesFailed /\ where'.at = "prompt"
  BY DEF NotFound, WaitGroup, FilesFailed, FilesOf, Goto
<1>3. CASE NotFound
  <2>1. 1 .. where.i - 1 = {} /\ where.at = "input"
    BY <1>3 DEF NotFound, At
  <2>2. held[ShellId] = {}
    BY <2>1 DEF OpenAt, InsOf, FilesOf
  <2> QED BY <1>1, <1>2, <2>2 DEF OpenAt
<1>4. CASE WaitGroup
  BY <1>1, <1>2, <1>4 DEF OpenAt, WaitGroup
<1> QED BY <1>3, <1>4

LEMMA ChildStepStep == ASSUME OpenInv, NEW p \in ChildIds, ChildStep(p) \/ GiveUp(p) PROVE OpenInv'
<1> USE DEF OpenInv
<1>1. UNCHANGED <<line, where, failed>> /\ (held' = held \/ \E Y : held' = [held EXCEPT ![p] = Y])
  BY DEF ChildStep, GiveUp, Start, Read, Write, EndOfInput, Broken, Exit
<1>2. held'[ShellId] = held[ShellId] /\ PlumbingTypes'
  BY <1>1, HeldByShell DEF PlumbingTypes
<1> QED BY <1>1, <1>2 DEF OpenAt, N, FilesFailed

LEMMA OpenNext == ASSUME OpenInv, [PlumbingNext]_plumbingVars PROVE OpenInv'
<1>1. CASE ShellStep
  BY <1>1, SetupInputStep, OpenOutputStep, PipeStep, CleanupStep, CleanupWaitStep, CopierStep,
     ForkStageStep, CloseStep, ReturnStep DEF ShellStep
<1>2. CASE UNCHANGED plumbingVars
  BY <1>2 DEF plumbingVars, OpenInv, PlumbingTypes, OpenAt, N, FilesFailed
<1> QED BY <1>1, <1>2, ChildStepStep DEF PlumbingNext

-----------------------------------------------------------------------------
(* Theorem.                                                                 *)

\* However many stages a command line has and whichever calls fail while it is set up,
\* the shell is back at its prompt with nothing open but files of stages that failed.
THEOREM NoLeakCorrect == PlumbingSpec => []NoLeak
<1>1. PlumbingInit => OpenInv
  BY OpenInit
<1>2. OpenInv /\ [PlumbingNext]_plumbingVars => OpenInv'
  BY OpenNext
<1>3. OpenInv => NoLeak
  BY DEF OpenInv, OpenAt, NoLeak, FilesFailed, FilesOf
<1> QED BY <1>1, <1>2, <1>3, PTL DEF PlumbingSpec
=============================================================================
