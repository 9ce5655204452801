----------------------------- MODULE JobControl -----------------------------
(***************************************************************************)
(* Job control of the C shell: the job table of background.c, the SIGCHLD  *)
(* handler that updates it, the foreground waits of terminal.c, the        *)
(* launches of command.c and background.c, resume.c and the end-of-file    *)
(* rule of handle_eof().                                                   *)
(*                                                                         *)
(* Three kinds of actor interleave. The child processes stop, continue and *)
(* exit when they like. The main loop (pc) executes commands; a section it *)
(* runs with SIGCHLD blocked and without waiting is one step, since nobody *)
(* can see it half done. The handler (in_handler) runs on top of the main  *)
(* loop wherever SIGCHLD is pending and not blocked, one waitpid() per     *)
(* step, and the main loop stands still meanwhile.                         *)
(*                                                                         *)
(* The kernel's side of waitpid(), kill() and SIGCHLD is modelled from how *)
(* the shell uses it: a child has at most one unreported change (rep), a   *)
(* later change replaces it, and SIGCHLD is one pending bit (chld) however *)
(* many children changed.                                                  *)
(***************************************************************************)
EXTENDS Integers, Sequences, FiniteSetsExt

CONSTANTS NPID,          \* processes forked before fork() fails for good
          MAX_JOBS,      \* slots of jobs[] (100 in the code)
          MaxStages      \* stages of a pipeline

ASSUME NPIDAssumption == NPID \in Nat \ {0}
ASSUME MaxJobsAssumption == MAX_JOBS \in Nat \ {0}
ASSUME MaxStagesAssumption == MaxStages \in Nat \ {0}

Pids  == 1..NPID
Slots == 1..MAX_JOBS
Shell == 0    \* the shell's own process group

VARIABLES
  ks,          \* kernel state of a pid: "free", "run", "stop", "dead", "gone"
  rep,         \* its unreported change: "none", "stop", "cont", "exit"
  pgrp,        \* its process group
  npid,        \* pids used so far
  chld,        \* SIGCHLD is pending
  masked,      \* the main loop has SIGCHLD blocked
  in_handler,  \* sigchld_handler() is running
  tty,         \* foreground process group of the terminal
  alarm,       \* alarm() is armed
  jobs,        \* jobs[]
  job_count,
  next_job_number,
  pipe,        \* leader pids in the notification pipe
  pc,          \* main loop
  cmd,         \* locals of the command in progress
  previous_eof

kernelVars == <<ks, rep, pgrp, npid, chld>>
tableVars  == <<jobs, job_count, next_job_number, pipe>>
vars == <<kernelVars, masked, in_handler, tty, alarm, tableVars, pc, cmd,
          previous_eof>>

NoCmd   == [pgid |-> Shell, pids |-> <<>>, waits |-> {}, count |-> 0,
            done |-> {}, num |-> 0, fg |-> FALSE, timeout |-> FALSE, slot |-> 0]
NoSlot  == [num |-> 0, pgid |-> Shell, procs |-> <<>>, count |-> 0,
            remaining |-> 0]

Init ==
  /\ ks   = [p \in Pids |-> "free"]
  /\ rep  = [p \in Pids |-> "none"]
  /\ pgrp = [p \in Pids |-> Shell]
  /\ npid = 0 /\ chld = FALSE /\ masked = FALSE /\ in_handler = FALSE
  /\ tty = Shell /\ alarm = FALSE
  /\ jobs = [s \in Slots |-> NoSlot] /\ job_count = 0 /\ next_job_number = 1
  /\ pipe = <<>> /\ pc = "prompt" /\ cmd = NoCmd /\ previous_eof = FALSE

-----------------------------------------------------------------------------
(***************************************************************************)
(* The children, as the kernel shows them to the shell.                    *)
(***************************************************************************)
Alive(p) == ks[p] \in {"run", "stop"}

\* Child p changes to state s, reported as r.
Change(p, s, r) ==
  /\ ks' = [ks EXCEPT ![p] = s]
  /\ rep' = [rep EXCEPT ![p] = r]
  /\ chld' = TRUE
  /\ UNCHANGED <<pgrp, npid, masked, in_handler, tty, alarm, tableVars, pc, cmd,
                 previous_eof>>

\* A child ends by itself or by a signal, stops (Ctrl-Z, SIGTTIN, ping), or
\* is continued from outside the shell.
ChildExit     == \E p \in Pids : Alive(p) /\ Change(p, "dead", "exit")
ChildStop     == \E p \in Pids : ks[p] = "run" /\ Change(p, "stop", "stop")
ChildContinue == \E p \in Pids : ks[p] = "stop" /\ Change(p, "run", "cont")

-----------------------------------------------------------------------------
(***************************************************************************)
(* The job table.                                                          *)
(***************************************************************************)

\* Plausible bug: the table is shortened but the last job is not moved.
WithoutSlotMutant(i) == [jobs EXCEPT ![job_count] = NoSlot]

\* The table with slot i overwritten by the last one and shortened. A slot
\* beyond job_count is never read before it is overwritten.
WithoutSlot(i) == [jobs EXCEPT ![i] = jobs[job_count], ![job_count] = NoSlot]

SlotOf(num) == {i \in 1..job_count : jobs[i].num = num}

\* remove_job_by_number
RemoveJob(num) ==
  IF SlotOf(num) = {} THEN UNCHANGED <<jobs, job_count>>
  ELSE /\ jobs' = WithoutSlot(Min(SlotOf(num)))
       /\ job_count' = job_count - 1

\* mark_job_running and mark_job_stopped: every process not known to have
\* exited gets state st.
MarkJob(num, st) ==
  LET mark(r) == IF r.exited THEN r ELSE [r EXCEPT !.state = st] IN
  jobs' = [i \in Slots |->
             IF SlotOf(num) # {} /\ i = Min(SlotOf(num))
             THEN [jobs[i] EXCEPT !.procs =
                     [j \in DOMAIN jobs[i].procs |-> mark(jobs[i].procs[j])]]
             ELSE jobs[i]]

\* register_background_job and register_stopped_job: a new last slot, unless
\* the table is full.
Register(pgid, pids, st) ==
  IF job_count >= MAX_JOBS THEN UNCHANGED <<jobs, job_count, next_job_number>>
  ELSE /\ jobs' = [jobs EXCEPT ![job_count + 1] =
                     [num |-> next_job_number, pgid |-> pgid,
                      procs |-> [j \in DOMAIN pids |->
                                   [pid |-> pids[j], state |-> st, exited |-> FALSE]],
                      count |-> Len(pids), remaining |-> Len(pids)]]
       /\ job_count' = job_count + 1
       /\ next_job_number' = next_job_number + 1

-----------------------------------------------------------------------------
(***************************************************************************)
(* sigchld_handler().                                                      *)
(***************************************************************************)
HandlerEnter ==
  /\ chld /\ ~masked /\ ~in_handler /\ pc # "exited"
  /\ in_handler' = TRUE /\ chld' = FALSE
  /\ UNCHANGED <<ks, rep, pgrp, npid, masked, tty, alarm, tableVars, pc, cmd,
                 previous_eof>>

\* Where the handler finds pid p: the first slot that lists it unexited.
Listed(i, p) == {j \in 1..jobs[i].count : /\ j \in DOMAIN jobs[i].procs
                                          /\ jobs[i].procs[j].pid = p
                                          /\ ~jobs[i].procs[j].exited}
Matching(p) == {i \in 1..job_count : Listed(i, p) # {}}

\* Plausible bug: the completion of the first process is announced as the
\* completion of the job.
RecordMutant(p, r) ==
  IF Matching(p) = {} THEN UNCHANGED <<jobs, pipe>>
  ELSE LET i == Min(Matching(p))
           j == Min(Listed(i, p))
       IN  IF r = "exit"
           THEN /\ jobs' = [jobs EXCEPT ![i].procs[j].exited = TRUE,
                                        ![i].remaining = @ - 1]
                /\ pipe' = Append(pipe, jobs[i].procs[1].pid)
           ELSE /\ jobs' = [jobs EXCEPT ![i].procs[j].state =
                              IF r = "stop" THEN "stop" ELSE "run"]
                /\ UNCHANGED pipe

\* Slot x with r for its process j.
WithProc(x, j, r) == [x EXCEPT !.procs = [x.procs EXCEPT ![j] = r]]

\* What one status does to the table and to the pipe.
Record(p, r) ==
  IF Matching(p) = {} THEN UNCHANGED <<jobs, pipe>>
  ELSE LET i == Min(Matching(p))
           j == Min(Listed(i, p))
           proc == jobs[i].procs[j]
           left == jobs[i].remaining - 1
       IN  IF r = "exit"
           THEN /\ jobs' = [jobs EXCEPT ![i] =
                             [WithProc(jobs[i], j, [proc EXCEPT !.exited = TRUE])
                                EXCEPT !.remaining = left]]
                /\ pipe' = IF left = 0 THEN Append(pipe, jobs[i].procs[1].pid)
                                       ELSE pipe
           ELSE /\ jobs' = [jobs EXCEPT ![i] = WithProc(jobs[i], j,
                     [proc EXCEPT !.state = IF r = "stop" THEN "stop" ELSE "run"])]
                /\ UNCHANGED pipe

\* waitpid() consumes p's report; a dead child is gone for good.
Consume(p) ==
  /\ rep' = [rep EXCEPT ![p] = "none"]
  /\ ks' = [ks EXCEPT ![p] = IF rep[p] = "exit" THEN "gone" ELSE @]

HandlerReap ==
  \E p \in Pids :
    /\ in_handler /\ rep[p] # "none"
    /\ Consume(p) /\ Record(p, rep[p])
    /\ UNCHANGED <<pgrp, npid, chld, masked, in_handler, tty, alarm, job_count,
                   next_job_number, pc, cmd, previous_eof>>

\* Plausible bug: one waitpid() per signal, as if SIGCHLD were queued.
HandlerReturnMutant ==
  /\ in_handler
  /\ in_handler' = FALSE
  /\ UNCHANGED <<kernelVars, masked, tty, alarm, tableVars, pc, cmd, previous_eof>>

HandlerReturn ==
  /\ in_handler /\ \A p \in Pids : rep[p] = "none"
  /\ in_handler' = FALSE
  /\ UNCHANGED <<kernelVars, masked, tty, alarm, tableVars, pc, cmd, previous_eof>>

-----------------------------------------------------------------------------
(***************************************************************************)
(* Launching commands. fork() of any stage may fail; stages that were      *)
(* forked get consecutive pids. Without stage 1 there is no group: the     *)
(* others stay in the shell's group and are not tracked.                   *)
(***************************************************************************)
AtCommand == ~in_handler /\ pc \in {"prompt", "seq"}

\* Stages of a pipeline of n whose fork() succeeds.
Forks(n) == {F \in SUBSET (1..n) : npid + Cardinality(F) <= NPID}

Forked(F) == [j \in 1..Cardinality(F) |-> npid + j]

PidsForked(F) == (npid + 1)..(npid + Cardinality(F))

Fork(F) ==
  LET new == PidsForked(F)
      leader == IF 1 \in F THEN npid + 1 ELSE Shell
  IN  /\ ks' = [p \in Pids |-> IF p \in new THEN "run" ELSE ks[p]]
      /\ pgrp' = [p \in Pids |-> IF p \in new THEN leader ELSE pgrp[p]]
      /\ npid' = npid + Cardinality(F)
      /\ UNCHANGED <<rep, chld>>

\* run_background and run_pipeline_background.
LaunchBackground ==
  /\ AtCommand
  /\ \E n \in 1..MaxStages : \E F \in Forks(n) :
       /\ Fork(F)
       /\ IF 1 \in F THEN Register(npid + 1, Forked(F), "run")
                     ELSE UNCHANGED <<jobs, job_count, next_job_number>>
  /\ pc' = "seq" /\ previous_eof' = FALSE
  /\ UNCHANGED <<masked, in_handler, tty, alarm, pipe, cmd>>

\* run_pipeline up to give_terminal_to(), which leaves SIGCHLD blocked.
LaunchForeground ==
  /\ AtCommand
  /\ \E n \in 1..MaxStages : \E F \in Forks(n) :
       /\ Fork(F)
       /\ IF 1 \in F
          THEN /\ tty' = npid + 1 /\ masked' = TRUE /\ pc' = "fgloop"
               /\ cmd' = [NoCmd EXCEPT !.pgid = npid + 1, !.pids = Forked(F),
                                       !.waits = PidsForked(F), !.count = n]
          ELSE pc' = "seq" /\ UNCHANGED <<tty, masked, cmd>>
  /\ previous_eof' = FALSE
  /\ UNCHANGED <<in_handler, alarm, tableVars>>

-----------------------------------------------------------------------------
(***************************************************************************)
(* wait_foreground_group and wait_foreground_group_timeout: pc is "fgloop" *)
(* before waitpid() and "fgblock" inside it.                               *)
(***************************************************************************)
Group == {p \in Pids : pgrp[p] = cmd.pgid /\ ks[p] \notin {"free", "gone"}}
Reportable == {p \in Group : rep[p] \in {"stop", "exit"}}

FgBlock ==
  /\ pc = "fgloop" /\ Group # {} /\ Reportable = {}
  /\ pc' = "fgblock"
  /\ UNCHANGED <<kernelVars, masked, in_handler, tty, alarm, tableVars, cmd,
                 previous_eof>>

FgReap ==
  /\ pc \in {"fgloop", "fgblock"}
  /\ \E p \in Reportable :
       LET done == cmd.done \cup ({p} \cap cmd.waits)
       IN  /\ Consume(p)
           /\ IF rep[p] = "stop"
              THEN pc' = "fgstopped" /\ UNCHANGED cmd
              ELSE /\ cmd' = [cmd EXCEPT !.done = done]
                   /\ pc' = IF Cardinality(done) = cmd.count THEN "fgdone"
                                                             ELSE "fgloop"
  /\ UNCHANGED <<pgrp, npid, chld, masked, in_handler, tty, alarm, tableVars,
                 previous_eof>>

\* Plausible bug: every error of waitpid() is taken for an interruption.
FgNoChildMutant ==
  /\ pc = "fgloop" /\ Group = {}
  /\ UNCHANGED vars

\* waitpid() fails with ECHILD: somebody else reaped the rest, or a stage was
\* never forked.
FgNoChild ==
  /\ pc = "fgloop" /\ Group = {}
  /\ pc' = "fgdone"
  /\ UNCHANGED <<kernelVars, masked, in_handler, tty, alarm, tableVars, cmd,
                 previous_eof>>

\* SIGALRM: inside waitpid() it ends the wait; outside, the handler only sets
\* a flag that the loop does not look at before it calls waitpid().
Alarm ==
  /\ alarm /\ alarm' = FALSE
  /\ pc' = IF pc = "fgblock" THEN "timedout" ELSE pc
  /\ UNCHANGED <<kernelVars, masked, in_handler, tty, tableVars, cmd, previous_eof>>

\* What run_pipeline and exec_resume do after the wait: reclaim_terminal(), the
\* job table, restore_sigchld(). A pipeline may have successors on its line, a
\* resume has none.
Reclaim ==
  /\ tty' = Shell /\ masked' = FALSE /\ alarm' = FALSE
  /\ pc' = IF cmd.fg THEN "drain" ELSE "seq"
  /\ cmd' = NoCmd
  /\ UNCHANGED <<kernelVars, in_handler, pipe, previous_eof>>

FgDone ==
  /\ pc = "fgdone"
  /\ IF cmd.fg THEN RemoveJob(cmd.num) ELSE UNCHANGED <<jobs, job_count>>
  /\ UNCHANGED next_job_number
  /\ Reclaim

FgStopped ==
  /\ pc = "fgstopped"
  /\ IF cmd.fg
     THEN MarkJob(cmd.num, "stop") /\ UNCHANGED <<job_count, next_job_number>>
     ELSE Register(cmd.pgid, cmd.pids, "stop")
  /\ Reclaim

\* kill(-pgid, SIGTERM) leaves it to the processes whether they exit.
FgTimedOut ==
  /\ pc = "timedout"
  /\ RemoveJob(cmd.num)
  /\ UNCHANGED next_job_number
  /\ Reclaim

-----------------------------------------------------------------------------
(***************************************************************************)
(* exec_resume(): the job is looked up with get_activities() first, and    *)
(* SIGCHLD is blocked only after that.                                     *)
(***************************************************************************)
Unexited(i) == {j \in DOMAIN jobs[i].procs : ~jobs[i].procs[j].exited}

ResumeLookup ==
  /\ ~in_handler /\ pc = "prompt"
  /\ \E i \in 1..job_count, fg, timeout \in BOOLEAN :
       /\ timeout => fg
       /\ cmd' = [NoCmd EXCEPT !.pgid = jobs[i].pgid, !.num = jobs[i].num,
                    !.waits = {jobs[i].procs[j].pid : j \in Unexited(i)},
                    !.count = Cardinality(Unexited(i)), !.fg = fg,
                    !.timeout = timeout]
  /\ pc' = "resume" /\ previous_eof' = FALSE
  /\ UNCHANGED <<kernelVars, masked, in_handler, tty, alarm, tableVars>>

\* kill(-pgid, SIGCONT) continues the stopped members of the group.
Continue(pgid) ==
  LET woken == {p \in Pids : pgrp[p] = pgid /\ ks[p] = "stop"}
  IN  /\ ks' = [p \in Pids |-> IF p \in woken THEN "run" ELSE ks[p]]
      /\ rep' = [p \in Pids |-> IF p \in woken THEN "cont" ELSE rep[p]]
      /\ chld' = (chld \/ woken # {})
      /\ UNCHANGED <<pgrp, npid>>

\* The snapshot held no process: the job is removed.
ResumeFinished ==
  /\ ~in_handler /\ pc = "resume" /\ cmd.count = 0
  /\ RemoveJob(cmd.num)
  /\ pc' = "drain" /\ cmd' = NoCmd
  /\ UNCHANGED <<kernelVars, masked, in_handler, tty, alarm, next_job_number,
                 pipe, previous_eof>>

ResumeContinue ==
  /\ ~in_handler /\ pc = "resume" /\ cmd.count > 0
  /\ Continue(cmd.pgid)
  /\ MarkJob(cmd.num, "run")
  /\ IF cmd.fg
     THEN /\ tty' = cmd.pgid /\ masked' = TRUE /\ alarm' = cmd.timeout
          /\ pc' = "fgloop" /\ UNCHANGED cmd
     ELSE /\ pc' = "drain" /\ cmd' = NoCmd
          /\ UNCHANGED <<tty, masked, alarm>>
  /\ UNCHANGED <<in_handler, job_count, next_job_number, pipe, previous_eof>>

-----------------------------------------------------------------------------
(***************************************************************************)
(* The main loop: the rest of the commands, the drain, end of file.        *)
(***************************************************************************)

\* The sequence is over, or a command that touches no job was run.
Finish ==
  /\ AtCommand
  /\ pc' = "drain" /\ previous_eof' = FALSE
  /\ UNCHANGED <<kernelVars, masked, in_handler, tty, alarm, tableVars, cmd>>

\* An empty line goes straight back to the prompt.
BlankLine ==
  /\ ~in_handler /\ pc = "prompt" /\ previous_eof
  /\ previous_eof' = FALSE
  /\ UNCHANGED <<kernelVars, masked, in_handler, tty, alarm, tableVars, pc, cmd>>

\* drain_background_notifications() runs with SIGCHLD unblocked.
DrainEnd ==
  /\ ~in_handler /\ pc = "drain" /\ pipe = <<>>
  /\ pc' = "prompt"
  /\ UNCHANGED <<kernelVars, masked, in_handler, tty, alarm, tableVars, cmd,
                 previous_eof>>

LedBy(pid) == {i \in 1..job_count : jobs[i].procs[1].pid = pid}

DrainOne ==
  /\ ~in_handler /\ pc = "drain" /\ pipe # <<>>
  /\ pipe' = Tail(pipe)
  /\ LET found == LedBy(Head(pipe)) IN
     \/ found = {} /\ UNCHANGED <<pc, cmd>>
     \/ /\ found # {}
        /\ pc' = "copy" /\ cmd' = [NoCmd EXCEPT !.slot = Min(found)]
  /\ UNCHANGED <<kernelVars, masked, in_handler, tty, alarm, jobs, job_count,
                 next_job_number, previous_eof>>

\* jobs[i] = jobs[job_count - 1] in address order: job_number, pgid and
\* procs[], here of x, then proc_count and remaining, here of y.
Joined(x, y) == [num |-> x.num, pgid |-> x.pgid, procs |-> x.procs,
                 count |-> y.count, remaining |-> y.remaining]

DrainCopyFirst ==
  LET i == cmd.slot IN
  /\ ~in_handler /\ pc = "copy"
  /\ jobs' = [jobs EXCEPT ![i] = Joined(jobs[job_count], jobs[i])]
  /\ pc' = "copyrest"
  /\ UNCHANGED <<kernelVars, masked, in_handler, tty, alarm, job_count,
                 next_job_number, pipe, cmd, previous_eof>>

DrainCopyRest ==
  LET i == cmd.slot IN
  /\ ~in_handler /\ pc = "copyrest"
  /\ jobs' = [jobs EXCEPT ![i] = Joined(jobs[i], jobs[job_count])]
  /\ pc' = "shrink"
  /\ UNCHANGED <<kernelVars, masked, in_handler, tty, alarm, job_count,
                 next_job_number, pipe, cmd, previous_eof>>

DrainShrink ==
  /\ ~in_handler /\ pc = "shrink"
  /\ jobs' = [jobs EXCEPT ![job_count] = NoSlot]
  /\ job_count' = job_count - 1
  /\ pc' = "drain" /\ cmd' = NoCmd
  /\ UNCHANGED <<kernelVars, masked, in_handler, tty, alarm, next_job_number,
                 pipe, previous_eof>>

\* handle_eof(): with stopped jobs only the second of two end-of-files in a
\* row ends the shell.
SomeStopped ==
  \E i \in 1..job_count : \E j \in DOMAIN jobs[i].procs :
    ~jobs[i].procs[j].exited /\ jobs[i].procs[j].state = "stop"

Eof ==
  /\ ~in_handler /\ pc = "prompt"
  /\ IF SomeStopped /\ ~previous_eof
     THEN previous_eof' = TRUE /\ UNCHANGED pc
     ELSE pc' = "exited" /\ UNCHANGED previous_eof
  /\ UNCHANGED <<kernelVars, masked, in_handler, tty, alarm, tableVars, cmd>>

-----------------------------------------------------------------------------
Children == ChildExit \/ ChildStop \/ ChildContinue
Handler  == HandlerEnter \/ HandlerReap \/ HandlerReturn
Wait     == FgBlock \/ FgReap \/ FgNoChild \/ FgDone \/ FgStopped \/ FgTimedOut
Drain    == \/ DrainEnd \/ DrainOne \/ DrainCopyFirst \/ DrainCopyRest
            \/ DrainShrink
Resume   == ResumeFinished \/ ResumeContinue
Input    == \/ LaunchBackground \/ LaunchForeground \/ ResumeLookup \/ Finish
            \/ BlankLine \/ Eof

Next == Children \/ Handler \/ Wait \/ Alarm \/ Drain \/ Resume \/ Input

Spec == Init /\ [][Next]_vars

\* What the shell itself does without waiting for anybody: the kernel delivers
\* the pending signal and the alarm, and the process is scheduled. Nothing is
\* assumed of the children or of the user.
Fairness == /\ WF_vars(Handler) /\ WF_vars(Wait) /\ WF_vars(Resume)
            /\ WF_vars(Alarm)

FairSpec == Spec /\ Fairness

-----------------------------------------------------------------------------
(***************************************************************************)
(* Properties.                                                             *)
(***************************************************************************)

Proc == [pid : Pids, state : {"run", "stop"}, exited : BOOLEAN]
JobRecs == [num : Nat, pgid : Pids \cup {Shell}, procs : Seq(Proc), count : Nat,
            remaining : Int]
Cmds == [pgid : Pids \cup {Shell}, pids : Seq(Pids), waits : SUBSET Pids,
         count : Nat, done : SUBSET Pids, num : Nat, fg : BOOLEAN,
         timeout : BOOLEAN, slot : 0..MAX_JOBS]
PcNames == {"prompt", "seq", "fgloop", "fgblock", "fgdone", "fgstopped",
            "timedout", "resume", "drain", "copy", "copyrest", "shrink", "exited"}

\* Types of the state of the job table, the kernel's view and the main loop.
TypeOK ==
  /\ ks \in [Pids -> {"free", "run", "stop", "dead", "gone"}]
  /\ rep \in [Pids -> {"none", "stop", "cont", "exit"}]
  /\ pgrp \in [Pids -> Pids \cup {Shell}]
  /\ npid \in 0..NPID /\ {chld, masked, in_handler, alarm, previous_eof} \subseteq BOOLEAN
  /\ tty \in Pids \cup {Shell}
  /\ job_count \in 0..MAX_JOBS /\ next_job_number \in Nat
  /\ jobs \in [Slots -> JobRecs] /\ pipe \in Seq(Pids)
  /\ pc \in PcNames /\ cmd \in Cmds

Tracked(p) == Matching(p) # {}

\* Every process the table or the running foreground command knows of.
Owned(p) == \/ Tracked(p)
            \/ /\ pc \in {"fgloop", "fgblock", "fgstopped"}
               /\ p \in cmd.waits

\* Signals coalesce, so one SIGCHLD may stand for many children: a status that
\* nobody has collected is always covered by a pending signal or by a handler
\* that is still looping on waitpid() (background.c, the while of the handler).
NoLostStatus == \A p \in Pids : rep[p] # "none" => chld \/ in_handler

\* A completion is announced at most once, and only for a job none of whose
\* processes is left: what the drain removes from the table is really over,
\* however exits, stops, resumes and foreground waits interleave.
FinishReported ==
  /\ \A i, j \in DOMAIN pipe : pipe[i] = pipe[j] => i = j
  /\ \A k \in DOMAIN pipe, i \in 1..job_count :
       jobs[i].procs[1].pid = pipe[k] =>
         \A j \in DOMAIN jobs[i].procs : ks[jobs[i].procs[j].pid] = "gone"

\* The shell forgets a live process only when a resume times out (it gets
\* SIGTERM) or when a new job finds the table full: every launch, stop, resume,
\* drain and removal keeps every other process of a job's group known to the
\* table or to the foreground wait, so "Stopped jobs remain available".
NeverForgotten ==
  [][\A p \in Pids :
       /\ Alive(p)' /\ pgrp'[p] # Shell
       /\ ks[p] = "free" \/ Owned(p)
       => \/ Owned(p)'
          \/ pc = "timedout"
          \/ job_count = MAX_JOBS /\ (ks[p] = "free" \/ pc = "fgstopped")]_vars

Settled == pc = "prompt" /\ ~in_handler /\ \A p \in Pids : rep[p] = "none"

\* README: "Exited processes are removed from `activities`." At the prompt, with
\* every status collected, a listed job all of whose processes are gone has its
\* completion waiting in the pipe for the next drain. False: the foreground wait
\* collects the end of a stage that register_stopped_job() then lists as stopped.
NoGhost ==
  Settled =>
    \A i \in 1..job_count :
      (\A j \in DOMAIN jobs[i].procs : ks[jobs[i].procs[j].pid] = "gone") =>
        \E k \in DOMAIN pipe : pipe[k] = jobs[i].procs[1].pid

\* README, on Ctrl-D: "With no stopped jobs, tracked jobs receive SIGHUP and the
\* shell exits." What handle_eof() takes for a stopped job is one: at the prompt,
\* with every status collected, a process of a listed job is stopped. False:
\* mark_job_stopped() and register_stopped_job() mark the whole job.
StoppedIsStopped ==
  Settled /\ SomeStopped =>
    \E i \in 1..job_count : \E j \in DOMAIN jobs[i].procs :
      ks[jobs[i].procs[j].pid] = "stop"

\* The shell comes back: once every process of the foreground job is dead, the
\* wait ends, although statuses may have been collected elsewhere (the handler
\* between the lookup of resume and its block_sigchld) and a stage may never
\* have been forked.
ForegroundReturns ==
  (pc \in {"fgloop", "fgblock"} /\ \A p \in Group : ks[p] = "dead")
    ~> (pc \in {"seq", "drain"})

\* README: "If the timeout expires, `SIGTERM` is sent": a resume with --timeout
\* does not wait for ever. False: an alarm outside waitpid() only sets a flag.
TimeoutHonoured ==
  (pc \in {"fgloop", "fgblock"} /\ cmd.timeout) ~> (pc \notin {"fgloop", "fgblock"})
=============================================================================
