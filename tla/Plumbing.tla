------------------------------ MODULE Plumbing ------------------------------
(***************************************************************************)
(* The plumbing of a command line in the shell: run_pipeline() and         *)
(* run_pipeline_background() of command.c and run_background() of          *)
(* background.c.  The shell opens the redirections, creates the pipes,     *)
(* forks one "writer" for each stage that has input files, one "copier"    *)
(* for each stage that has several output files and one process for each   *)
(* stage, closes its own ends and, in the foreground, waits.               *)
(*                                                                         *)
(* Every fork hands the child a copy of all the ends the shell holds at    *)
(* that moment; a reader sees the end of its input only when no process    *)
(* holds the other end any more.  The model keeps who holds what, and how  *)
(* much each pipe contains; the bytes themselves play no part.             *)
(***************************************************************************)
EXTENDS Integers, Sequences, FiniteSets

CONSTANTS Pipelines,  \* the command lines, records [bg, ins, outs]
          NSTAGE,     \* the longest of them
          Cap,        \* capacity of a pipe, in units of data
          Units,      \* units of data that a source produces
          MaxFails    \* bound on the number of system calls that fail

ASSUME PlumbingAssumption ==
  /\ NSTAGE \in Nat \ {0} /\ Cap \in Nat \ {0} /\ Units \in Nat /\ MaxFails \in Nat
  /\ \A l \in Pipelines :
       /\ l.bg \in BOOLEAN
       /\ Len(l.ins) \in 1 .. NSTAGE /\ Len(l.outs) = Len(l.ins)

VARIABLES line,    \* the command line: ins[i], outs[i] files of stage i
          where,   \* where the shell is
          failed,  \* stages[i].setup_failed
          held,    \* what each process has open
          child,   \* the forked processes
          filled,  \* units of data in each pipe
          fails    \* system calls that failed so far

plumbingVars == <<line, where, failed, held, child, filled, fails>>

Stages == 1 .. NSTAGE
ChildIds == {"writer", "copier", "stage"} \X Stages
Pipes == {"in", "mid", "out"} \X Stages
NoPipe == <<"none", 0>>
ShellId == <<"shell", 0>>

R(x) == <<x, "r">>
W(x) == <<x, "w">>
Both(x) == {R(x), W(x)}
In(i) == <<"in", i>>
Mid(i) == <<"mid", i>>
Out(i) == <<"out", i>>
Files(i) == <<<<"files", i>>, "w">>     \* output_fds of a stage, all of them

(* How many stages there are, and whether run_background() runs the line.  *)
N == Len(line.ins)
Single == line.bg /\ N = 1

Unborn == [st |-> "none", src |-> NoPipe, dst |-> NoPipe, keep |-> {}, ok |-> TRUE, left |-> 0, carry |-> 0]

PlumbingInit ==
  /\ line \in Pipelines
  /\ where = [at |-> "input", i |-> 1]
  /\ failed = [i \in Stages |-> FALSE]
  /\ held = [p \in ChildIds \cup {ShellId} |-> {}]
  /\ child = [p \in ChildIds |-> Unborn]
  /\ filled = [x \in Pipes |-> 0]
  /\ fails = 0

At(at, i) == where.at = at /\ where.i = i
Goto(at, i) == where' = [at |-> at, i |-> i]

(* The end of a loop over the stages, or over the pipes between them.      *)
Past(at, i, last, next) == IF i < last THEN Goto(at, i + 1) ELSE Goto(next, 1)

(* A system call fails.                                                    *)
Fail == fails < MaxFails /\ fails' = fails + 1

(* fork(): the child starts with everything that the shell has open and    *)
(* the ends "more"; it will keep "keep", read src and write dst.           *)
ForkChild(p, more, keep, src, dst, ok) ==
  /\ child' = [child EXCEPT ![p] = [st |-> "forked", src |-> src, dst |-> dst, keep |-> keep, ok |-> ok,
                                    left |-> IF src = NoPipe THEN Units ELSE 0, carry |-> 0]]
  /\ held' = [held EXCEPT ![p] = held[ShellId] \cup more, ![ShellId] = @ \cup more]

(* run_background() closes everything and returns when a step fails.       *)
BackOut == held' = [held EXCEPT ![ShellId] = {}] /\ Goto("prompt", 0)

(***************************************************************************)
(* The redirections of stage i: setup_input() and open_output_files().     *)
(***************************************************************************)
(* A command of one stage is looked up before anything is opened.          *)
NotFound ==
  /\ At("input", 1) /\ N = 1
  /\ Goto("prompt", 0)
  /\ UNCHANGED <<line, failed, held, child, filled, fails>>

SetupInput(i) ==
  /\ At("input", i)
  /\ \/ /\ line.ins[i] = 0
        /\ Goto("output", i)
        /\ UNCHANGED <<failed, held, child, fails>>
     \/ /\ line.ins[i] > 0
        /\ child' = [child EXCEPT ![<<"writer", i>>] =
                       [Unborn EXCEPT !.st = "forked", !.dst = In(i), !.left = Units,
                                      !.keep = held[ShellId] \cup {W(In(i))}]]
        /\ held' = [held EXCEPT ![<<"writer", i>>] = held[ShellId] \cup Both(In(i)),
                                ![ShellId] = @ \cup {R(In(i))}]
        /\ Goto("output", i)
        /\ UNCHANGED <<failed, fails>>
     \/ /\ line.ins[i] > 0 /\ Fail
        /\ failed' = [failed EXCEPT ![i] = TRUE]
        /\ IF Single THEN BackOut ELSE Goto("output", i) /\ UNCHANGED held
        /\ UNCHANGED child
  /\ UNCHANGED <<line, filled>>

Opened(i) == IF i < N THEN Goto("input", i + 1) ELSE IF N > 1 THEN Goto("pipe", 1) ELSE Goto("copier", 1)

OpenOutput(i) ==
  /\ At("output", i)
  /\ \/ /\ line.outs[i] = 0
        /\ Opened(i)
        /\ UNCHANGED <<failed, held, fails>>
     \/ /\ line.outs[i] > 0
        /\ held' = [held EXCEPT ![ShellId] = @ \cup {Files(i)}]
        /\ Opened(i)
        /\ UNCHANGED <<failed, fails>>
     \/ /\ line.outs[i] > 0 /\ Fail
        /\ failed' = [failed EXCEPT ![i] = TRUE]
        /\ IF Single THEN BackOut ELSE Opened(i) /\ UNCHANGED held
  /\ UNCHANGED <<line, child, filled>>

(***************************************************************************)
(* The pipes between the stages.  When one cannot be created the           *)
(* foreground closes and waits, stage by stage; the background closes the  *)
(* inputs and returns.                                                     *)
(***************************************************************************)
Mids == UNION {Both(Mid(i)) : i \in Stages}
Ins == {R(In(i)) : i \in Stages}

MakePipe(i) ==
  /\ At("pipe", i)
  /\ held' = [held EXCEPT ![ShellId] = @ \cup Both(Mid(i))]
  /\ Past("pipe", i, N - 1, "copier")
  /\ UNCHANGED <<line, failed, child, filled, fails>>

PipeFails(i) ==
  /\ At("pipe", i) /\ ~line.bg /\ Fail
  /\ held' = [held EXCEPT ![ShellId] = @ \ Mids]
  /\ Goto("cleanup", 1)
  /\ UNCHANGED <<line, failed, child, filled>>

PipeFailsBackground(i) ==
  /\ At("pipe", i) /\ line.bg /\ Fail
  /\ held' = [held EXCEPT ![ShellId] = @ \ Ins]
  /\ Goto("aborted", 0)
  /\ UNCHANGED <<line, failed, child, filled>>

Cleanup(i) ==
  /\ At("cleanup", i)
  /\ held' = [held EXCEPT ![ShellId] = @ \ {R(In(i))}]
  /\ Goto("waitpid", i)
  /\ UNCHANGED <<line, failed, child, filled, fails>>

CleanupWait(i) ==
  /\ At("waitpid", i)
  /\ child[<<"writer", i>>].st \in {"none", "gone"}
  /\ held' = [held EXCEPT ![ShellId] = IF failed[i] THEN @ ELSE @ \ {Files(i)}]
  /\ IF i < N THEN Goto("cleanup", i + 1) ELSE Goto("prompt", 0)
  /\ UNCHANGED <<line, failed, child, filled, fails>>

(***************************************************************************)
(* The copier of a stage with several output files.  The one of a          *)
(* foreground line closes the pipes, the inputs and the files of the other *)
(* stages; the one of a background line only the end it would write to.    *)
(***************************************************************************)
FilesOpen == {Files(j) : j \in {k \in Stages : ~failed[k]}}

(* Mutant: the copier keeps the pipes between the stages.                  *)
CopierClosesMutant(i) == {W(Out(i))} \cup Ins \cup (FilesOpen \ {Files(i)})

CopierCloses(i) == {W(Out(i))} \cup Mids \cup Ins \cup (FilesOpen \ {Files(i)})

CopierClosesBackground(i) == {W(Out(i))}

HasCopier(i) == line.outs[i] > 1 /\ ~failed[i]

StartCopier(i) ==
  /\ At("copier", i)
  /\ IF HasCopier(i)
     THEN ForkChild(<<"copier", i>>, Both(Out(i)),
                    (held[ShellId] \cup Both(Out(i)))
                      \ (IF line.bg THEN CopierClosesBackground(i) ELSE CopierCloses(i)),
                    Out(i), NoPipe, TRUE)
     ELSE UNCHANGED <<held, child>>
  /\ Past("copier", i, N, "stage")
  /\ UNCHANGED <<line, failed, filled, fails>>

(* No copier: the stage fails, and the foreground closes its files.        *)
CopierFails(i) ==
  /\ At("copier", i) /\ HasCopier(i) /\ Fail
  /\ failed' = [failed EXCEPT ![i] = TRUE]
  /\ IF Single THEN BackOut
     ELSE /\ held' = [held EXCEPT ![ShellId] = IF line.bg THEN @ ELSE @ \ {Files(i)}]
          /\ Past("copier", i, N, "stage")
  /\ UNCHANGED <<line, child, filled>>

(***************************************************************************)
(* The process of stage i: where its standard input and output lead, and   *)
(* what it still has open when it executes the program.                    *)
(***************************************************************************)
Stdin(i) == IF line.ins[i] > 0 THEN In(i) ELSE IF i > 1 THEN Mid(i - 1) ELSE NoPipe
Stdout(i) == CASE line.outs[i] > 1 -> Out(i)
               [] line.outs[i] = 0 /\ i < N -> Mid(i)
               [] OTHER -> NoPipe

OutsOpen == UNION {Both(Out(j)) : j \in {k \in 1 .. N : line.outs[k] > 1 /\ ~failed[k]}}

StageKeeps(i) ==
  (held[ShellId] \ (Mids \cup Ins \cup FilesOpen \cup OutsOpen))
    \cup ({R(Stdin(i)), W(Stdout(i))} \ Both(NoPipe))

ForkStage(i) ==
  /\ At("stage", i)
  /\ \/ /\ ForkChild(<<"stage", i>>, {}, StageKeeps(i), Stdin(i), Stdout(i), ~failed[i])
        /\ Past("stage", i, N, "close")
        /\ UNCHANGED fails
     \/ /\ Fail
        /\ IF Single THEN BackOut ELSE Past("stage", i, N, "close") /\ UNCHANGED held
        /\ UNCHANGED child
  /\ UNCHANGED <<line, failed, filled>>

(* Mutant: the pipes of the copiers stay open.                             *)
ShellClosesMutant == Mids \cup Ins \cup FilesOpen

(* Whatever the shell closes once all the stages are forked.               *)
ShellCloses == Mids \cup Ins \cup FilesOpen \cup UNION {Both(Out(j)) : j \in Stages}

CloseAll ==
  /\ where.at = "close"
  /\ held' = [held EXCEPT ![ShellId] = @ \ ShellCloses]
  /\ IF line.bg \/ child[<<"stage", 1>>].st = "none" THEN Goto("prompt", 0) ELSE Goto("wait", 0)
  /\ UNCHANGED <<line, failed, child, filled, fails>>

(* wait_foreground_group(), for a group that is not stopped.               *)
WaitGroup ==
  /\ where.at = "wait"
  /\ \A i \in Stages : child[<<"stage", i>>].st \in {"none", "gone"}
  /\ Goto("prompt", 0)
  /\ UNCHANGED <<line, failed, held, child, filled, fails>>

(***************************************************************************)
(* The forked processes.  A writer copies its files to a pipe, a copier    *)
(* its pipe to files, and a stage is taken to be a filter: it reads until  *)
(* the end of its input, or stops early.                                   *)
(***************************************************************************)
Holders(e) == {p \in DOMAIN held : e \in held[p]}

Exit(p) ==
  /\ child' = [child EXCEPT ![p] = [Unborn EXCEPT !.st = "gone"]]
  /\ held' = [held EXCEPT ![p] = {}]

Start(p) ==
  /\ child[p].st = "forked"
  /\ IF child[p].ok
     THEN /\ child' = [child EXCEPT ![p].st = "run", ![p].keep = {}]
          /\ held' = [held EXCEPT ![p] = child[p].keep]
     ELSE Exit(p)
  /\ UNCHANGED <<line, where, failed, filled, fails>>

Read(p) ==
  /\ child[p].st = "run" /\ child[p].carry = 0
  /\ \/ /\ child[p].src = NoPipe /\ child[p].left > 0
        /\ child' = [child EXCEPT ![p].left = @ - 1, ![p].carry = 1]
        /\ UNCHANGED filled
     \/ /\ child[p].src # NoPipe
        /\ filled[child[p].src] > 0
        /\ filled' = [filled EXCEPT ![child[p].src] = @ - 1]
        /\ child' = [child EXCEPT ![p].carry = 1]
  /\ UNCHANGED <<line, where, failed, held, fails>>

Write(p) ==
  /\ child[p].st = "run" /\ child[p].carry = 1
  /\ \/ /\ child[p].dst = NoPipe
        /\ UNCHANGED filled
     \/ /\ child[p].dst # NoPipe
        /\ filled[child[p].dst] < Cap
        /\ Holders(R(child[p].dst)) # {}
        /\ filled' = [filled EXCEPT ![child[p].dst] = @ + 1]
  /\ child' = [child EXCEPT ![p].carry = 0]
  /\ UNCHANGED <<line, where, failed, held, fails>>

(* The end of the input, or of what there is to write.                     *)
AtEnd(c) ==
  IF c.src = NoPipe THEN c.left = 0 ELSE filled[c.src] = 0 /\ Holders(W(c.src)) = {}

EndOfInput(p) ==
  /\ child[p].st = "run" /\ child[p].carry = 0
  /\ AtEnd(child[p])
  /\ Exit(p)
  /\ UNCHANGED <<line, where, failed, filled, fails>>

(* Writing to a pipe that nobody can read ends the process.                *)
Broken(p) ==
  /\ child[p].st = "run" /\ child[p].carry = 1
  /\ child[p].dst # NoPipe /\ Holders(R(child[p].dst)) = {}
  /\ Exit(p)
  /\ UNCHANGED <<line, where, failed, filled, fails>>

(* A command that is not found or ends early, a copier that cannot write.  *)
GiveUp(p) ==
  /\ \/ p[1] = "stage" /\ child[p].st \in {"forked", "run"}
     \/ p[1] = "copier" /\ child[p].st = "run" /\ child[p].carry = 1
  /\ Exit(p)
  /\ UNCHANGED <<line, where, failed, filled, fails>>

ShellStep ==
  \/ \E i \in 1 .. N : \/ SetupInput(i) \/ OpenOutput(i)
                       \/ MakePipe(i) \/ PipeFails(i) \/ PipeFailsBackground(i)
                       \/ Cleanup(i) \/ CleanupWait(i)
                       \/ StartCopier(i) \/ CopierFails(i) \/ ForkStage(i)
  \/ NotFound \/ CloseAll \/ WaitGroup

ChildStep(p) == Start(p) \/ Read(p) \/ Write(p) \/ EndOfInput(p) \/ Broken(p)

PlumbingNext == ShellStep \/ \E p \in ChildIds : ChildStep(p) \/ GiveUp(p)

(* The kernel runs every process that can run; a program need not give up. *)
PlumbingFairness == WF_plumbingVars(ShellStep) /\ \A p \in ChildIds : WF_plumbingVars(ChildStep(p))

PlumbingSpec == PlumbingInit /\ [][PlumbingNext]_plumbingVars /\ PlumbingFairness

(***************************************************************************)
(* Properties                                                              *)
(***************************************************************************)
Returned == where.at \in {"prompt", "aborted"}
AllDone == Returned /\ \A p \in ChildIds : child[p].st \in {"none", "gone"}

(* Two ways to hang that the code has: a copier in the background holds    *)
(* the write end of the pipe its own stage reads (command.c:1064), and the *)
(* clean-up of the foreground waits for a writer whose pipe can still be   *)
(* read by the writer of a later stage (command.c:501).                    *)
CopierHoldsInput ==
  /\ line.bg
  /\ \E i \in 2 .. N : /\ line.ins[i] = 0
                       /\ child[<<"copier", i>>].st = "run"
                       /\ child[<<"stage", i>>].st = "run"
                       /\ W(Stdin(i)) \in held[<<"copier", i>>]

WriterHoldsInput ==
  /\ where.at = "waitpid"
  /\ \E j \in Stages : /\ j > where.i
                       /\ child[<<"writer", j>>].st = "run"
                       /\ R(In(where.i)) \in held[<<"writer", j>>]

(* Every command line comes to an end: the shell shows its prompt again    *)
(* and no writer, copier or stage is left waiting on a pipe, whichever     *)
(* calls fail and whichever program stops early; except in exactly the two *)
(* situations above.                                                       *)
Terminates == <>[](AllDone \/ CopierHoldsInput \/ WriterHoldsInput)

(* The shell keeps no end of a pipe and no file when it is back at its     *)
(* prompt, but for the output files of a stage whose set-up failed (the    *)
(* code tests setup_failed before it closes them, command.c:698).  The     *)
(* line that a background pipeline gives up because of pipe() is the       *)
(* exception (command.c:1027: it returns with its files open).             *)
NoLeak ==
  where.at = "prompt" => held[ShellId] \subseteq {Files(i) : i \in {j \in Stages : failed[j]}}
=============================================================================
