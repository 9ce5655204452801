--------------------------------- MODULE Pipe ---------------------------------
(***************************************************************************)
(* Pipes and the open-file table of xv6: kernel/pipe.c, kernel/file.c and  *)
(* the system calls pipe, dup, read, write and close of kernel/sysfile.c,  *)
(* with what fork and exit do to open files and what kill does to a        *)
(* process that sleeps in a pipe.                                          *)
(*                                                                         *)
(* Every file is an end of a pipe. A step is a section of code under       *)
(* ftable.lock or under the pipe's lock, or the sleep() after it; the loop *)
(* of pipewrite() looks at killed() before each byte, so that a turn of it *)
(* is a step and the lock stays held between turns.                        *)
(***************************************************************************)
EXTENDS Integers, Sequences, FiniteSets, FiniteSetsExt

CONSTANTS NPROC,     \* processes
          NFILE,     \* slots of ftable
          NOFILE,    \* descriptors of a process
          NPages,    \* pages kalloc() has for pipes
          PIPESIZE,  \* bytes in a pipe
          WORD,      \* nread and nwrite are counted modulo WORD
          Bytes,     \* the values of a byte
          JUNK,      \* the one kfree() fills pages with
          Source,    \* the buffer each process writes from, of length MaxN
          MaxN       \* bound: length of a read() or write()

ASSUME PipeAssumption ==
  /\ NPROC \in Nat \ {0} /\ NFILE \in Nat /\ NOFILE \in Nat /\ NPages \in Nat /\ MaxN \in Nat \ {0}
  /\ PIPESIZE \in Nat \ {0} /\ WORD \in Nat /\ WORD > PIPESIZE /\ WORD % PIPESIZE = 0
  /\ JUNK \in Bytes /\ Source \in [1..NPROC -> [1..MaxN -> Bytes]]

VARIABLES file,      \* ftable.file
          ofile,     \* p->ofile
          pipe,      \* the pages of pipes
          st,        \* p->state
          chan,      \* p->chan
          killed,    \* p->killed
          call,      \* the system call each process is in
          last,      \* the bytes copied out by this step
          torn       \* pipes a killed writer left without its wakeup()

vars == <<file, ofile, pipe, st, chan, killed, call, last, torn>>
procVars == <<st, chan, killed>>

Procs == 1..NPROC
Files == 1..NFILE
Fds == 1..NOFILE
Pipes == 1..NPages

\* rf and wf are files the call has that are in no descriptor.
NoCall == [pc |-> "user", pi |-> 0, i |-> 0, rf |-> 0, wf |-> 0, w |-> FALSE, exiting |-> FALSE]
NoChan == <<"none", 0>>
NoFile == [ref |-> 0, type |-> "none", writable |-> FALSE, pipe |-> 0]

\* A free page: kfree() has filled it, and pipealloc() resets the counters.
NoPipe == [alloc |-> FALSE, nread |-> 0, nwrite |-> 0, readopen |-> FALSE, writeopen |-> FALSE,
           data |-> [k \in 0..(PIPESIZE - 1) |-> JUNK]]

RChan(pi) == <<"nread", pi>>
WChan(pi) == <<"nwrite", pi>>

At(p, pc) == st[p] = "running" /\ call[p].pc = pc

\* p makes a system call; usertrap() lets a killed process make none but exit.
Starts(p) == At(p, "user") /\ ~killed[p]

\* acquire(&pi->lock): no writer is in its loop under the pipe's lock.
LockFree(pi) == \A p \in Procs : ~(call[p].pi = pi /\ call[p].pc = "write")

\* wakeup(): waiters are marked woken, and made runnable if they sleep already.
wakeup(c) ==
  /\ chan' = [p \in Procs |-> IF chan[p] = c THEN NoChan ELSE chan[p]]
  /\ st' = [p \in Procs |-> IF chan[p] = c /\ st[p] = "sleeping" THEN "running" ELSE st[p]]
  /\ UNCHANGED killed

\* The free files and descriptors; both are taken from the bottom.
FreeFiles == {f \in Files : file[f].ref = 0}
FreeFds(p) == {fd \in Fds : ofile[p][fd] = 0}

Return(p) == call' = [call EXCEPT ![p] = NoCall]

\* The call c goes on after a close: with its other file, if it has one, with the next
\* descriptor in kexit(), or back to the user.
Closing(c) ==
  [pc |-> IF c.rf # 0 \/ c.wf # 0 THEN "close" ELSE IF c.exiting THEN "exit" ELSE "user",
   pi |-> 0, i |-> 0, rf |-> c.rf, wf |-> c.wf, w |-> FALSE, exiting |-> c.exiting]

-----------------------------------------------------------------------------
(* The file table.                                                          *)

\* filealloc() of the read end in pipealloc(); without a file pipe() fails at once.
SysPipe(p) ==
  /\ Starts(p) /\ FreeFiles # {}
  /\ LET f == Min(FreeFiles) IN
       /\ file' = [file EXCEPT ![f].ref = 1]
       /\ call' = [call EXCEPT ![p].pc = "pipe", ![p].rf = f]
  /\ UNCHANGED <<ofile, pipe, procVars, torn>>

\* filealloc() of the write end, or "bad:".
PipeFile(p) ==
  /\ At(p, "pipe") /\ call[p].wf = 0
  /\ \/ /\ FreeFiles # {}
        /\ LET f == Min(FreeFiles) IN
             /\ file' = [file EXCEPT ![f].ref = 1]
             /\ call' = [call EXCEPT ![p].wf = f]
     \/ /\ FreeFiles = {}
        /\ call' = [call EXCEPT ![p].pc = "close"]
        /\ UNCHANGED file
  /\ UNCHANGED <<ofile, pipe, procVars, torn>>

\* The rest of pipealloc() and of sys_pipe(): kalloc() of the pipe (which may fail at
\* any time, the free pages being shared with the rest of the kernel), two
\* descriptors, and the copyout() of their numbers; or all is taken back.
PipeFds(p) ==
  LET c == call[p]
      fd0 == Min(FreeFds(p))
      fd1 == Min(FreeFds(p) \ {fd0})
      end(f, w, pi) == [ref |-> file[f].ref, type |-> "pipe", writable |-> w, pipe |-> pi]
      closeBoth == call' = [call EXCEPT ![p].pc = "close"]
  IN
  /\ At(p, "pipe") /\ c.wf # 0
  /\ \/ \E pi \in Pipes :
          /\ ~pipe[pi].alloc
          /\ pipe' = [pipe EXCEPT ![pi] = [@ EXCEPT !.alloc = TRUE, !.readopen = TRUE, !.writeopen = TRUE]]
          /\ file' = [file EXCEPT ![c.rf] = end(c.rf, FALSE, pi), ![c.wf] = end(c.wf, TRUE, pi)]
          /\ \/ /\ Cardinality(FreeFds(p)) >= 2
                /\ ofile' = [ofile EXCEPT ![p][fd0] = c.rf, ![p][fd1] = c.wf]
                /\ Return(p)
             \/ closeBoth /\ UNCHANGED ofile
     \/ closeBoth /\ UNCHANGED <<pipe, file, ofile>>
  /\ UNCHANGED <<procVars, torn>>

\* Mutant: dup() hands out the descriptor without filedup().
filedupMutant(f, k) == [f EXCEPT !.ref = @ + k - 1]

\* filedup(), k times.
filedup(f, k) == [f EXCEPT !.ref = @ + k]

sys_dup(p, fd) ==
  /\ Starts(p) /\ ofile[p][fd] # 0 /\ FreeFds(p) # {}
  /\ file' = [file EXCEPT ![ofile[p][fd]] = filedup(@, 1)]
  /\ ofile' = [ofile EXCEPT ![p][Min(FreeFds(p))] = ofile[p][fd]]
  /\ UNCHANGED <<pipe, procVars, call, torn>>

\* kfork(): the child has all of the parent's descriptors.
kfork(p, c) ==
  LET uses(f) == Cardinality({fd \in Fds : ofile[p][fd] = f}) IN
  /\ Starts(p) /\ st[c] = "unused"
  /\ file' = [f \in Files |-> IF uses(f) = 0 THEN file[f] ELSE filedup(file[f], uses(f))]
  /\ ofile' = [ofile EXCEPT ![c] = ofile[p]]
  /\ st' = [st EXCEPT ![c] = "running"]
  /\ UNCHANGED <<pipe, chan, killed, call, torn>>

\* sys_close() takes the file out of its descriptor; fileclose() follows.
sys_close(p, fd) ==
  /\ Starts(p) /\ ofile[p][fd] # 0
  /\ ofile' = [ofile EXCEPT ![p][fd] = 0]
  /\ call' = [call EXCEPT ![p].pc = "close", ![p].rf = ofile[p][fd]]
  /\ UNCHANGED <<file, pipe, procVars, torn>>

\* kexit() of any process but init ...
kexit(p) ==
  /\ At(p, "user") /\ p # 1
  /\ call' = [call EXCEPT ![p].pc = "exit", ![p].exiting = TRUE]
  /\ UNCHANGED <<file, ofile, pipe, procVars, torn>>

\* ... closes every descriptor, from the bottom; nobody else looks at p->ofile, so that it
\* may be cleared before fileclose().
ExitClose(p) ==
  LET fd == Min(Fds \ FreeFds(p)) IN
  /\ At(p, "exit") /\ FreeFds(p) # Fds
  /\ ofile' = [ofile EXCEPT ![p][fd] = 0]
  /\ call' = [call EXCEPT ![p].pc = "close", ![p].rf = ofile[p][fd]]
  /\ UNCHANGED <<file, pipe, procVars, torn>>

\* fileclose() drops a reference of f. With the last one the type becomes FD_NONE, and
\* what the other fields say no longer matters.
Closed(f) == IF f.ref > 1 THEN [f EXCEPT !.ref = f.ref - 1] ELSE NoFile

\* fileclose() under ftable.lock: pipeclose() follows the last reference. Of two files
\* the read end is closed first.
fileclose(p) ==
  LET isRf == call[p].rf # 0
      f == IF isRf THEN call[p].rf ELSE call[p].wf
      c == [call[p] EXCEPT !.rf = 0, !.wf = IF isRf THEN @ ELSE 0]
  IN
  /\ At(p, "close") /\ file[f].ref >= 1
  /\ \/ /\ file[f].ref > 1 \/ file[f].type = "none"
        /\ call' = [call EXCEPT ![p] = Closing(c)]
     \/ /\ file[f].ref = 1 /\ file[f].type = "pipe"
        /\ call' = [call EXCEPT ![p] = [c EXCEPT !.pc = "pipeclose", !.pi = file[f].pipe, !.w = file[f].writable]]
  /\ file' = [file EXCEPT ![f] = Closed(@)]
  /\ UNCHANGED <<ofile, pipe, procVars, torn>>

\* The end of kexit(): with its files closed the process goes, and is reaped.
Exited(p) ==
  /\ At(p, "exit") /\ FreeFds(p) = Fds
  /\ Return(p)
  /\ st' = [st EXCEPT ![p] = "unused"] /\ killed' = [killed EXCEPT ![p] = FALSE]
  /\ chan' = [chan EXCEPT ![p] = NoChan]
  /\ UNCHANGED <<file, ofile, pipe, torn>>

-----------------------------------------------------------------------------
(* Pipes.                                                                   *)

\* pipeclose() wakes those who wait for the other end.
EndChan(pi, w) == IF w THEN RChan(pi) ELSE WChan(pi)

EndClosed(x, w) == IF w THEN [x EXCEPT !.writeopen = FALSE] ELSE [x EXCEPT !.readopen = FALSE]

\* pipeclose(): the page is freed with the second end.
pipeclose(p) ==
  LET pi == call[p].pi
      w == call[p].w
      rest == IF w THEN pipe[pi].readopen ELSE pipe[pi].writeopen
  IN
  /\ At(p, "pipeclose") /\ LockFree(pi)
  /\ pipe' = [pipe EXCEPT ![pi] = IF rest THEN EndClosed(@, w) ELSE NoPipe]
  /\ wakeup(EndChan(pi, w))
  /\ call' = [call EXCEPT ![p] = Closing(@)]
  /\ torn' = IF w \/ ~rest THEN torn \ {pi} ELSE torn
  /\ UNCHANGED <<file, ofile>>

\* sys_read() and sys_write() up to the pipe's lock: fileread() and filewrite() refuse
\* the wrong end.
Transfer(p, fd) ==
  LET f == file[ofile[p][fd]] IN
  /\ Starts(p) /\ ofile[p][fd] # 0
  /\ call' = [call EXCEPT ![p] = [NoCall EXCEPT !.pc = IF f.writable THEN "write-acq" ELSE "read-acq",
                                                !.pi = f.pipe]]
  /\ UNCHANGED <<file, ofile, pipe, procVars, torn>>

\* The slot of byte number k.
Slot(k) == k % PIPESIZE

\* Mutant: the counters are compared without regard to wrapping around.
FullMutant(x) == x.nwrite >= x.nread + PIPESIZE

Full(x) == x.nwrite = (x.nread + PIPESIZE) % WORD
Empty(x) == x.nread = x.nwrite

\* pipewrite() gives up: no reader, or killed. Nobody is woken.
WriteFails(p) ==
  LET pi == call[p].pi IN
  /\ At(p, "write") /\ call[p].i < MaxN /\ (~pipe[pi].readopen \/ killed[p])
  /\ torn' = IF call[p].i > 0 THEN torn \union {pi} ELSE torn
  /\ Return(p)
  /\ UNCHANGED <<file, ofile, pipe, procVars>>

\* pipewrite() goes on: the loop's conditions.
Writing(p) == At(p, "write") /\ call[p].i < MaxN /\ pipe[call[p].pi].readopen /\ ~killed[p]

\* The pipe is full: readers are woken, the writer prepares to sleep.
WriteFull(p) ==
  LET pi == call[p].pi IN
  /\ Writing(p) /\ Full(pipe[pi])
  /\ st' = [q \in Procs |-> IF chan[q] = RChan(pi) /\ st[q] = "sleeping" THEN "running" ELSE st[q]]
  /\ chan' = [q \in Procs |-> IF q = p THEN WChan(pi) ELSE IF chan[q] = RChan(pi) THEN NoChan ELSE chan[q]]
  /\ call' = [call EXCEPT ![p].pc = "write-zz"]
  /\ torn' = torn \ {pi}
  /\ UNCHANGED <<file, ofile, pipe, killed>>

WriteByte(p) ==
  LET pi == call[p].pi IN
  /\ Writing(p) /\ ~Full(pipe[pi])
  /\ pipe' = [pipe EXCEPT ![pi].data = [@ EXCEPT ![Slot(pipe[pi].nwrite)] = Source[p][call[p].i + 1]],
                          ![pi].nwrite = (@ + 1) % WORD]
  /\ call' = [call EXCEPT ![p].i = @ + 1]
  /\ UNCHANGED <<file, ofile, procVars, torn>>

\* All is written, or copyin() failed: the readers are woken.
WriteEnd(p) ==
  /\ At(p, "write") /\ (call[p].i = MaxN \/ (Writing(p) /\ ~Full(pipe[call[p].pi])))
  /\ wakeup(RChan(call[p].pi))
  /\ torn' = torn \ {call[p].pi}
  /\ Return(p)
  /\ UNCHANGED <<file, ofile, pipe>>

\* piperead() waits: the pipe is empty and may be written to; a killed reader leaves.
ReadEmpty(p) ==
  LET pi == call[p].pi IN
  /\ At(p, "read-acq") /\ LockFree(pi) /\ Empty(pipe[pi]) /\ pipe[pi].writeopen
  /\ \/ killed[p] /\ Return(p) /\ UNCHANGED chan
     \/ ~killed[p] /\ call' = [call EXCEPT ![p].pc = "read-zz"] /\ chan' = [chan EXCEPT ![p] = RChan(pi)]
  /\ UNCHANGED <<file, ofile, pipe, st, killed, torn>>

\* piperead() copies k bytes: what there is, or less if copyout() fails. No bytes mean
\* the end of the file or an error. The writers are woken.
ReadCopy(p, k) ==
  LET pi == call[p].pi
      x == pipe[pi]
  IN
  /\ At(p, "read-acq") /\ LockFree(pi) /\ ~(Empty(x) /\ x.writeopen)
  /\ k <= (x.nwrite - x.nread) % WORD /\ k <= MaxN
  /\ last' = [j \in 1..k |-> x.data[Slot(x.nread + j - 1)]]
  /\ pipe' = [pipe EXCEPT ![pi].nread = (@ + k) % WORD]
  /\ wakeup(WChan(pi))
  /\ Return(p)
  /\ UNCHANGED <<file, ofile, torn>>

\* Mutant: sleep() goes to sleep although it was woken in the meantime.
StaysAwakeMutant(p) == FALSE

\* sleep() returns at once if wakeup() came after sleep_prepare().
StaysAwake(p) == chan[p] = NoChan

sleep(p) ==
  /\ At(p, "write-zz") \/ At(p, "read-zz")
  /\ call' = [call EXCEPT ![p].pc = IF @ = "write-zz" THEN "write-acq" ELSE "read-acq"]
  /\ st' = [st EXCEPT ![p] = IF StaysAwake(p) THEN @ ELSE "sleeping"]
  /\ UNCHANGED <<file, ofile, pipe, chan, killed, torn>>

\* acquire(&pi->lock) in pipewrite(), at the start and after each sleep().
Acquire(p) ==
  /\ LockFree(call[p].pi)
  /\ At(p, "write-acq")
  /\ call' = [call EXCEPT ![p].pc = "write"]
  /\ UNCHANGED <<file, ofile, pipe, procVars, torn>>

\* kkill() by another process: the channel stays registered.
kkill(p) ==
  /\ st[p] # "unused" /\ ~killed[p] /\ p # 1
  /\ killed' = [killed EXCEPT ![p] = TRUE]
  /\ st' = [st EXCEPT ![p] = "running"]
  /\ UNCHANGED <<file, ofile, pipe, chan, call, torn>>

Init ==
  /\ file = [f \in Files |-> NoFile]
  /\ ofile = [p \in Procs |-> [fd \in Fds |-> 0]]
  /\ pipe = [pi \in Pipes |-> NoPipe] /\ last = <<>>
  /\ st = [p \in Procs |-> IF p = 1 THEN "running" ELSE "unused"]
  /\ chan = [p \in Procs |-> NoChan] /\ killed = [p \in Procs |-> FALSE]
  /\ call = [p \in Procs |-> NoCall] /\ torn = {}

\* A step of the call process p is in.
Step(p) ==
  \/ PipeFile(p) \/ PipeFds(p) \/ fileclose(p) \/ ExitClose(p) \/ Exited(p) \/ pipeclose(p)
  \/ WriteFails(p) \/ WriteFull(p) \/ WriteByte(p) \/ WriteEnd(p)
  \/ ReadEmpty(p) \/ sleep(p) \/ Acquire(p)

Next ==
  \E p \in Procs :
    \/ \E k \in 0..PIPESIZE : ReadCopy(p, k)
    \/ /\ last' = <<>>
       /\ \/ Step(p) \/ SysPipe(p) \/ kexit(p) \/ kkill(p)
          \/ \E c \in Procs : kfork(p, c)
          \/ \E fd \in Fds : sys_dup(p, fd) \/ sys_close(p, fd) \/ Transfer(p, fd)

Spec == Init /\ [][Next]_vars

-----------------------------------------------------------------------------
(* Properties.                                                              *)

\* What p holds at place k: in descriptor k, or in the call it is in.
Places == 0..(NOFILE + 1)
Held(p, k) == IF k = 0 THEN call[p].rf ELSE IF k = NOFILE + 1 THEN call[p].wf ELSE ofile[p][k]

\* A file's count is the number of descriptors and calls that refer to it.
FileRefs == \A f \in Files : file[f].ref = Cardinality({x \in Procs \X Places : Held(x[1], x[2]) = f})

\* An end of a pipe is open exactly while one file stands for it, or the last
\* close of that file is on its way to pipeclose(); the page is free exactly when
\* both are closed.
EndsOpen ==
  \A pi \in Pipes : \A w \in BOOLEAN :
    LET isOpen == IF w THEN pipe[pi].writeopen ELSE pipe[pi].readopen
        ends == {f \in Files : file[f].type = "pipe" /\ file[f].pipe = pi /\ file[f].writable = w}
        closing == {p \in Procs : call[p].pc = "pipeclose" /\ call[p].pi = pi /\ call[p].w = w}
    IN /\ Cardinality(ends) + Cardinality(closing) = (IF isOpen THEN 1 ELSE 0)
       /\ isOpen => pipe[pi].alloc
       /\ pipe[pi].alloc => pipe[pi].readopen \/ pipe[pi].writeopen

\* Both hold through every failure of pipe(), fork, dup, close and exit: no file is
\* freed while in use (which would also reach the panics of filedup() and
\* fileclose()) or kept for ever, no page is freed twice or used after it was freed.
RefsExact == FileRefs /\ EndsOpen

\* p sleeps before acq, or will from zz on unless channel c is woken first.
Waits(p, zz, acq, pi, c) ==
  /\ call[p].pi = pi
  /\ (call[p].pc = zz /\ chan[p] = c) \/ (call[p].pc = acq /\ st[p] = "sleeping")

\* No lost wakeup, in the window between sleep_prepare() and sleep() too: whenever
\* the pipe's lock is free, a reader waits only on an empty pipe that can still
\* be written to and a writer only on a full pipe that can still be read. The
\* exception is the code's: a writer killed in the middle of a write wakes nobody.
NoLostWakeup ==
  \A p \in Procs, pi \in Pipes : LockFree(pi) =>
    /\ Waits(p, "read-zz", "read-acq", pi, RChan(pi)) => pipe[pi].writeopen /\ (Empty(pipe[pi]) \/ pi \in torn)
    /\ Waits(p, "write-zz", "write-acq", pi, WChan(pi)) => pipe[pi].readopen /\ Full(pipe[pi])

\* The bytes in the ring buffer, oldest first, and the open ends.
Contents(x) ==
  IF ~x.alloc THEN <<>>
  ELSE [k \in 1..((x.nwrite - x.nread) % WORD) |-> x.data[Slot(x.nread + k - 1)]]
OpenEnds(x) == {e \in {"r", "w"} : IF e = "r" THEN x.readopen ELSE x.writeopen}

Stream == INSTANCE ByteStream
            WITH Streams <- Pipes, Capacity <- PIPESIZE, q <- [pi \in Pipes |-> Contents(pipe[pi])],
                 open <- [pi \in Pipes |-> OpenEnds(pipe[pi])]

\* Readers get the bytes of all writers once each and in order, across the wrapping
\* of the counters and of the buffer: a pipe is a byte stream.
IsStream == Stream!Spec
===============================================================================
