------------------------------ MODULE PipeProofs ------------------------------
(***************************************************************************)
(* Safety of the pipes and the file table, and that a pipe is a byte       *)
(* stream, for any number of processes, files, descriptors and pages, any  *)
(* size of the ring and any width of its counters.                         *)
(***************************************************************************)
EXTENDS Pipe, FiniteSetTheorems, SequenceTheorems, TLAPS

-----------------------------------------------------------------------------
(* The inductive invariant, in parts.                                       *)

Reading == {"read-acq", "read-zz"}
Sending == {"write-acq", "write", "write-zz"}
PCs == {"user", "pipe", "close", "exit", "pipeclose"} \union Reading \union Sending
FileRecs == [ref : Nat, type : {"none", "pipe"}, writable : BOOLEAN, pipe : Pipes \union {0}]
PipeRecs == [alloc : BOOLEAN, nread : 0..(WORD - 1), nwrite : 0..(WORD - 1), readopen : BOOLEAN,
             writeopen : BOOLEAN, data : [0..(PIPESIZE - 1) -> Bytes]]
Calls == [pc : PCs, pi : Pipes \union {0}, i : 0..MaxN, rf : Files \union {0}, wf : Files \union {0},
          w : BOOLEAN, exiting : BOOLEAN]
Chans == {NoChan} \union ({"nread", "nwrite"} \X (Pipes \union {0}))

TypeOK ==
  /\ file \in [Files -> FileRecs] /\ ofile \in [Procs -> [Fds -> Files \union {0}]]
  /\ pipe \in [Pipes -> PipeRecs] /\ torn \in SUBSET Pipes
  /\ st \in [Procs -> {"running", "sleeping", "unused"}]
  /\ chan \in [Procs -> Chans] /\ killed \in [Procs -> BOOLEAN] /\ call \in [Procs -> Calls]

\* A free file is of no type, and what is in a descriptor is an end of a pipe.
FileShape ==
  /\ \A f \in Files : /\ file[f].ref = 0 => file[f].type = "none"
                      /\ file[f].type = "pipe" => file[f].pipe \in Pipes
  /\ \A p \in Procs, fd \in Fds : ofile[p][fd] # 0 => file[ofile[p][fd]].type = "pipe"

\* A file that filealloc() has just given out.
Fresh(f) == file[f].ref = 1 /\ file[f].type = "none"

\* Which files a call has, by where it is.
CallShape(p) ==
  /\ call[p].rf # 0 => call[p].pc \in {"pipe", "close"}
  /\ call[p].wf # 0 => call[p].pc \in {"pipe", "close", "pipeclose"}
  /\ call[p].pc = "pipe" => call[p].rf # 0 /\ Fresh(call[p].rf) /\ (call[p].wf # 0 => Fresh(call[p].wf))
  /\ call[p].pc = "close" => call[p].rf # 0 \/ call[p].wf # 0
  /\ call[p].pc = "pipeclose" => call[p].pi \in Pipes
  /\ st[p] = "unused" => call[p].pc = "user" /\ \A fd \in Fds : ofile[p][fd] = 0

\* p has an end of the pipe its call is about in a descriptor.
HasEnd(p, w) ==
  /\ call[p].pi \in Pipes
  /\ \E fd \in Fds : /\ ofile[p][fd] # 0 /\ file[ofile[p][fd]].pipe = call[p].pi
                     /\ file[ofile[p][fd]].writable = w

UsesEnd(p) == (call[p].pc \in Reading => HasEnd(p, FALSE)) /\ (call[p].pc \in Sending => HasEnd(p, TRUE))

RefsInv == FileRefs /\ FileShape /\ \A p \in Procs : CallShape(p) /\ UsesEnd(p)

\* What a process on its way to sleep, or asleep, waits for, and that it has not come yet
\* or will be announced by the writer in its loop.
SleepsOn(p) ==
  /\ call[p].pc = "read-zz" => chan[p] \in {NoChan, RChan(call[p].pi)}
  /\ call[p].pc = "write-zz" => chan[p] \in {NoChan, WChan(call[p].pi)}
  /\ st[p] = "sleeping" => \/ call[p].pc = "read-acq" /\ chan[p] = RChan(call[p].pi)
                           \/ call[p].pc = "write-acq" /\ chan[p] = WChan(call[p].pi)

\* A writer in its loop that may have put a byte into pi.
HasPut(p, pi) == call[p].pc = "write" /\ call[p].pi = pi /\ call[p].i > 0

ReaderWaits(p, pi) ==
  Waits(p, "read-zz", "read-acq", pi, RChan(pi)) =>
    pipe[pi].writeopen /\ (Empty(pipe[pi]) \/ pi \in torn \/ \E q \in Procs : HasPut(q, pi))
WriterWaits(p, pi) ==
  Waits(p, "write-zz", "write-acq", pi, WChan(pi)) => pipe[pi].readopen /\ Full(pipe[pi])

WaitInv == \A p \in Procs : SleepsOn(p) /\ \A pi \in Pipes : ReaderWaits(p, pi) /\ WriterWaits(p, pi)

\* The number of bytes in the ring is at most its size, and a free page has equal counters.
Amount(x) == (x.nwrite - x.nread) % WORD
RingOK(x) == Amount(x) <= PIPESIZE /\ (~x.alloc => Empty(x))
RingInv == \A pi \in Pipes : RingOK(pipe[pi])

PipeInv == TypeOK /\ RefsInv /\ EndsOpen /\ WaitInv

-----------------------------------------------------------------------------
(* Numbers, and what a search from the bottom finds.                        *)

LEMMA Sizes ==
  /\ NPROC \in Nat /\ NFILE \in Nat /\ NOFILE \in Nat /\ NPages \in Nat /\ MaxN \in Nat \ {0}
  /\ PIPESIZE \in Nat \ {0} /\ WORD \in Nat /\ WORD > PIPESIZE /\ WORD > 1
  /\ 0 \notin Procs /\ 0 \notin Files /\ 0 \notin Fds /\ 0 \notin Pipes
  /\ Fds \subseteq Places /\ 0 \in Places /\ NOFILE + 1 \in Places /\ NOFILE + 1 \notin Fds
  /\ \A k \in Places : k = 0 \/ k = NOFILE + 1 \/ k \in Fds
  BY PipeAssumption DEF Procs, Files, Fds, Pipes, Places

LEMMA SmallestExists ==
  ASSUME NEW S \in SUBSET Nat, S # {}
  PROVE  \E x \in S : \A y \in S : x <= y
<1> DEFINE Below(x) == {y \in S : y <= x}
           F == {Below(x) : x \in S}
<1>1. \A x \in S : Below(x) \in FiniteSubsetsOf(Nat)
  BY FS_BoundedSetOfNaturals DEF FiniteSubsetsOf
<1>2. F \subseteq FiniteSubsetsOf(Nat) /\ F # {}
  BY <1>1
<1>3. PICK B \in F : \A C \in F : <<C, B>> \notin StrictSubsetOrdering(Nat)
  BY <1>2, FS_StrictSubsetOrderingWellFounded, WFMin, Zenon
<1>4. PICK x \in S : B = Below(x)
  OBVIOUS
<1>5. ASSUME NEW y \in S, y < x PROVE FALSE
  <2>1. Below(y) \in SUBSET Nat /\ Below(x) \in SUBSET Nat /\ Below(y) \in F
    OBVIOUS
  <2>2. \A z \in S : z <= y => z <= x
    BY <1>5
  <2>3. Below(y) \subseteq Below(x)
    BY <2>2
  <2>4. x \in Below(x) /\ x \notin Below(y)
    BY <1>5
  <2> QED BY <1>3, <1>4, <2>1, <2>3, <2>4 DEF StrictSubsetOrdering
<1>6. \A y \in S : x <= y
  BY <1>5
<1> QED BY <1>6

LEMMA MinIsMember ==
  ASSUME NEW S \in SUBSET Nat, S # {}
  PROVE  Min(S) \in S
  BY SmallestExists DEF Min

LEMMA FreeFilePicked == ASSUME FreeFiles # {} PROVE Min(FreeFiles) \in Files /\ file[Min(FreeFiles)].ref = 0
<1>1. FreeFiles \in SUBSET Nat
  BY DEF FreeFiles, Files
<1>2. Min(FreeFiles) \in FreeFiles
  BY <1>1, MinIsMember
<1> QED BY <1>2 DEF FreeFiles

LEMMA FreeFdPicked ==
  ASSUME NEW p, NEW S, FreeFds(p) \ S # {}
  PROVE  Min(FreeFds(p) \ S) \in Fds \ S /\ ofile[p][Min(FreeFds(p) \ S)] = 0
<1>1. FreeFds(p) \ S \in SUBSET Nat
  BY DEF FreeFds, Fds
<1>2. Min(FreeFds(p) \ S) \in FreeFds(p) \ S
  BY <1>1, MinIsMember
<1> QED BY <1>2 DEF FreeFds

LEMMA FreeFdFirst ==
  ASSUME NEW p, FreeFds(p) # {}
  PROVE  Min(FreeFds(p)) \in Fds /\ ofile[p][Min(FreeFds(p))] = 0
<1>1. FreeFds(p) \in SUBSET Nat
  BY DEF FreeFds, Fds
<1>2. Min(FreeFds(p)) \in FreeFds(p)
  BY <1>1, MinIsMember
<1> QED BY <1>2 DEF FreeFds

LEMMA UsedFdFirst ==
  ASSUME NEW p, FreeFds(p) # Fds
  PROVE  Min(Fds \ FreeFds(p)) \in Fds /\ ofile[p][Min(Fds \ FreeFds(p))] # 0
<1>1. Fds \ FreeFds(p) \in SUBSET Nat /\ Fds \ FreeFds(p) # {}
  BY DEF FreeFds, Fds
<1>2. Min(Fds \ FreeFds(p)) \in Fds \ FreeFds(p)
  BY <1>1, MinIsMember
<1> QED BY <1>2 DEF FreeFds

\* With two free descriptors, the two that sys_pipe() takes are different.
LEMMA TwoFds ==
  ASSUME NEW p, Cardinality(FreeFds(p)) >= 2
  PROVE  LET fd0 == Min(FreeFds(p))
             fd1 == Min(FreeFds(p) \ {fd0})
         IN fd0 \in Fds /\ fd1 \in Fds /\ fd0 # fd1 /\ ofile[p][fd0] = 0 /\ ofile[p][fd1] = 0
<1> DEFINE fd0 == Min(FreeFds(p))
<1>1. FreeFds(p) # {}
  BY FS_EmptySet
<1>2. fd0 \in Fds /\ ofile[p][fd0] = 0
  BY <1>1, FreeFdFirst
<1> HIDE DEF fd0
<1>3. FreeFds(p) \ {fd0} # {}
  <2>1. Cardinality({fd0}) = 1
    BY FS_Singleton
  <2>2. FreeFds(p) # {fd0}
    BY <2>1
  <2> QED BY <1>1, <2>2
<1>4. Min(FreeFds(p) \ {fd0}) \in Fds \ {fd0} /\ ofile[p][Min(FreeFds(p) \ {fd0})] = 0
  BY <1>3, FreeFdPicked
<1> QED BY <1>2, <1>4 DEF fd0

-----------------------------------------------------------------------------
(* What a step does to the calls.                                           *)

\* p's call is where it was, but for the fields c gives.
Becomes(p, c) == call'[p] = c /\ \A q \in Procs \ {p} : call'[q] = call[q]

LEMMA NoCallFields ==
  NoCall \in Calls /\ NoCall.pc = "user" /\ NoCall.pi = 0 /\ NoCall.i = 0 /\ NoCall.rf = 0 /\ NoCall.wf = 0
  BY Sizes DEF NoCall, Calls, PCs

LEMMA ReturnEffect ==
  ASSUME TypeOK, NEW p \in Procs, Return(p)
  PROVE  Becomes(p, NoCall) /\ call' \in [Procs -> Calls]
  BY NoCallFields DEF TypeOK, Return, Becomes

LEMMA GotoEffect ==
  ASSUME TypeOK, NEW p \in Procs, NEW a \in PCs, call' = [call EXCEPT ![p].pc = a]
  PROVE  /\ call' \in [Procs -> Calls] /\ \A q \in Procs \ {p} : call'[q] = call[q]
         /\ call'[p].pc = a /\ call'[p].pi = call[p].pi /\ call'[p].i = call[p].i
         /\ call'[p].rf = call[p].rf /\ call'[p].wf = call[p].wf /\ call'[p].w = call[p].w
  BY DEF TypeOK, Calls

LEMMA ClosingFields ==
  ASSUME NEW c \in Calls
  PROVE  /\ Closing(c) \in Calls /\ Closing(c).rf = c.rf /\ Closing(c).wf = c.wf /\ Closing(c).i = 0
         /\ Closing(c).pc \in {"close", "exit", "user"}
         /\ Closing(c).pc = "close" <=> c.rf # 0 \/ c.wf # 0
<1> DEFINE a == IF c.rf # 0 \/ c.wf # 0 THEN "close" ELSE IF c.exiting THEN "exit" ELSE "user"
<1>2. a \in {"close", "exit", "user"} /\ (a = "close" <=> c.rf # 0 \/ c.wf # 0)
  OBVIOUS
<1> HIDE DEF a
<1>3. Closing(c) = [pc |-> a, pi |-> 0, i |-> 0, rf |-> c.rf, wf |-> c.wf, w |-> FALSE, exiting |-> c.exiting]
  BY DEF Closing, a
<1>4. Closing(c) \in Calls
  BY <1>2, <1>3, Sizes DEF Calls, PCs
<1>5. Closing(c).rf = c.rf /\ Closing(c).wf = c.wf /\ Closing(c).i = 0 /\ Closing(c).pc = a
  BY <1>3
<1> QED BY <1>2, <1>4, <1>5

LEMMA SetField ==
  ASSUME NEW c \in [Procs -> Calls], NEW d, NEW p \in Procs
  PROVE  /\ \A f \in Files \union {0} : d = [c EXCEPT ![p].rf = f] => d \in [Procs -> Calls]
         /\ \A f \in Files \union {0} : d = [c EXCEPT ![p].wf = f] => d \in [Procs -> Calls]
         /\ \A t \in BOOLEAN : d = [c EXCEPT ![p].exiting = t] => d \in [Procs -> Calls]
  BY DEF Calls

\* p goes on at a with the file f.
Takes(p, a, f) == call' = [call EXCEPT ![p].pc = a, ![p].rf = f]

LEMMA WfEffect ==
  ASSUME TypeOK, NEW p \in Procs, NEW f \in Files, call' = [call EXCEPT ![p].wf = f]
  PROVE  /\ call' \in [Procs -> Calls] /\ \A q \in Procs \ {p} : call'[q] = call[q]
         /\ call'[p].pc = call[p].pc /\ call'[p].rf = call[p].rf /\ call'[p].wf = f
  BY SMTT(30), ZenonT(30) DEF TypeOK, Calls

LEMMA TakeEffect ==
  ASSUME TypeOK, NEW p \in Procs, NEW a \in PCs, NEW f \in Files, Takes(p, a, f)
  PROVE  /\ call' \in [Procs -> Calls] /\ \A q \in Procs \ {p} : call'[q] = call[q]
         /\ call'[p].pc = a /\ call'[p].pi = call[p].pi /\ call'[p].i = call[p].i
         /\ call'[p].rf = f /\ call'[p].wf = call[p].wf
<1> DEFINE c1 == [call EXCEPT ![p].pc = a]
<1>1. c1 \in [Procs -> Calls]
  BY DEF TypeOK, Calls
<1>2. /\ \A q \in Procs \ {p} : c1[q] = call[q]
      /\ c1[p].pc = a /\ c1[p].pi = call[p].pi /\ c1[p].i = call[p].i /\ c1[p].wf = call[p].wf
  BY DEF TypeOK, Calls
<1>3. call' = [c1 EXCEPT ![p].rf = f]
  BY DEF Takes
<1> HIDE DEF c1
<1>4. call' \in [Procs -> Calls]
  BY <1>1, <1>3, SetField
<1>5. \A q \in Procs \ {p} : call'[q] = c1[q]
  BY <1>1, <1>3
<1>6. /\ call'[p].pc = c1[p].pc /\ call'[p].pi = c1[p].pi /\ call'[p].i = c1[p].i
      /\ call'[p].rf = f /\ call'[p].wf = c1[p].wf
  BY <1>1, <1>3 DEF Calls
<1> QED BY <1>2, <1>4, <1>5, <1>6

LEMMA ExitEffect ==
  ASSUME TypeOK, NEW p \in Procs, NEW a \in PCs, NEW t \in BOOLEAN,
         call' = [call EXCEPT ![p].pc = a, ![p].exiting = t]
  PROVE  /\ call' \in [Procs -> Calls] /\ \A q \in Procs \ {p} : call'[q] = call[q]
         /\ call'[p].pc = a /\ call'[p].rf = call[p].rf /\ call'[p].wf = call[p].wf
<1> DEFINE c1 == [call EXCEPT ![p].pc = a]
<1>1. c1 \in [Procs -> Calls]
  BY DEF TypeOK, Calls
<1>2. /\ \A q \in Procs \ {p} : c1[q] = call[q]
      /\ c1[p].pc = a /\ c1[p].rf = call[p].rf /\ c1[p].wf = call[p].wf
  BY DEF TypeOK, Calls
<1>3. call' = [c1 EXCEPT ![p].exiting = t]
  OBVIOUS
<1> HIDE DEF c1
<1>4. call' \in [Procs -> Calls]
  BY <1>1, <1>3, SetField
<1>5. \A q \in Procs \ {p} : call'[q] = c1[q]
  BY <1>1, <1>3
<1>6. call'[p].pc = c1[p].pc /\ call'[p].rf = c1[p].rf /\ call'[p].wf = c1[p].wf
  BY <1>1, <1>3 DEF Calls
<1> QED BY <1>2, <1>4, <1>5, <1>6

\* filealloc(): the file found gets its first reference.
LEMMA FileAllocEffect ==
  ASSUME TypeOK, NEW f \in Files, NEW n \in Nat, file' = [file EXCEPT ![f].ref = n]
  PROVE  /\ file' \in [Files -> FileRecs] /\ \A g \in Files \ {f} : file'[g] = file[g]
         /\ file'[f].ref = n /\ file'[f].type = file[f].type /\ file'[f].pipe = file[f].pipe
         /\ file'[f].writable = file[f].writable
  BY DEF TypeOK, FileRecs

-----------------------------------------------------------------------------
(* Counting references.                                                     *)

\* The places of all processes that refer to f.
Uses(f) == {x \in Procs \X Places : Held(x[1], x[2]) = f}

LEMMA UsesFinite ==
  ASSUME NEW f
  PROVE  IsFiniteSet(Uses(f)) /\ Cardinality(Uses(f)) \in Nat
<1>1. IsFiniteSet(Procs) /\ IsFiniteSet(Places)
  BY PipeAssumption, FS_Interval DEF Procs, Places
<1>2. IsFiniteSet(Procs \X Places)
  BY <1>1, FS_Product
<1>3. Uses(f) \subseteq Procs \X Places
  BY DEF Uses
<1> QED BY <1>2, <1>3, FS_Subset, FS_CardinalityType

LEMMA UsesMember ==
  ASSUME NEW f, NEW p \in Procs, NEW k \in Places
  PROVE  <<p, k>> \in Uses(f) <=> Held(p, k) = f
  BY DEF Uses

LEMMA HeldIsCounted ==
  ASSUME FileRefs, NEW p \in Procs, NEW k \in Places, Held(p, k) \in Files
  PROVE  file[Held(p, k)].ref >= 1
<1> DEFINE f == Held(p, k)
<1>1. f \in Files /\ <<p, k>> \in Uses(f)
  BY UsesMember
<1> HIDE DEF f
<1>2. file[f].ref = Cardinality(Uses(f))
  BY <1>1 DEF FileRefs, Uses
<1>3. Uses(f) # {}
  BY <1>1
<1>4. Cardinality(Uses(f)) # 0
  BY <1>3, UsesFinite, FS_EmptySet
<1> QED BY <1>2, <1>4, UsesFinite DEF f

\* Whoever has the only reference to a file is alone with it.
LEMMA OnlyHolder ==
  ASSUME FileRefs, NEW p \in Procs, NEW k \in Places, NEW q \in Procs, NEW m \in Places,
         Held(p, k) \in Files, Held(q, m) = Held(p, k), file[Held(p, k)].ref = 1
  PROVE  p = q /\ k = m
<1> DEFINE f == Held(p, k)
<1>1. f \in Files /\ <<p, k>> \in Uses(f) /\ <<q, m>> \in Uses(f)
  BY UsesMember
<1>2. file[f].ref = 1
  OBVIOUS
<1> HIDE DEF f
<1>3. Cardinality(Uses(f)) = 1
  BY <1>1, <1>2 DEF FileRefs, Uses
<1>4. PICK x : Uses(f) = {x}
  BY <1>3, UsesFinite, FS_Singleton
<1> QED BY <1>1, <1>4

LEMMA UsesSame ==
  ASSUME NEW f, \A p \in Procs, k \in Places : (Held(p, k) = f)' <=> Held(p, k) = f
  PROVE  Uses(f)' = Uses(f)
<1>1. \A x \in Procs \X Places : (Held(x[1], x[2]) = f)' <=> Held(x[1], x[2]) = f
  OBVIOUS
<1> QED BY <1>1 DEF Uses

LEMMA UsesPut ==
  ASSUME NEW f, NEW p \in Procs, NEW k \in Places, Held(p, k) # f, Held(p, k)' = f,
         \A q \in Procs, m \in Places : <<q, m>> # <<p, k>> => Held(q, m)' = Held(q, m)
  PROVE  Cardinality(Uses(f)') = Cardinality(Uses(f)) + 1
<1>1. <<p, k>> \notin Uses(f)
  BY UsesMember
<1>2. Uses(f)' = Uses(f) \union {<<p, k>>}
  BY DEF Uses
<1> QED BY <1>1, <1>2, UsesFinite, FS_AddElement

LEMMA UsesDrop ==
  ASSUME NEW f, NEW p \in Procs, NEW k \in Places, Held(p, k) = f, Held(p, k)' # f,
         \A q \in Procs, m \in Places : <<q, m>> # <<p, k>> => Held(q, m)' = Held(q, m)
  PROVE  Cardinality(Uses(f)') = Cardinality(Uses(f)) - 1
<1>1. <<p, k>> \in Uses(f)
  BY UsesMember
<1>2. Uses(f)' = Uses(f) \ {<<p, k>>}
  BY DEF Uses
<1> QED BY <1>1, <1>2, UsesFinite, FS_RemoveElement

LEMMA UsesMove ==
  ASSUME NEW f, NEW p \in Procs, NEW k \in Places, NEW m \in Places, k # m,
         Held(p, k) = f, Held(p, m) # f, Held(p, k)' # f, Held(p, m)' = f,
         \A q \in Procs, j \in Places : (q # p \/ j \notin {k, m}) => ((Held(q, j) = f)' <=> Held(q, j) = f)
  PROVE  Cardinality(Uses(f)') = Cardinality(Uses(f))
<1>1. <<p, k>> \in Uses(f) /\ <<p, m>> \notin Uses(f)
  BY UsesMember
<1>2. Uses(f)' = (Uses(f) \ {<<p, k>>}) \union {<<p, m>>}
  BY DEF Uses
<1>3. /\ IsFiniteSet(Uses(f) \ {<<p, k>>})
      /\ Cardinality(Uses(f) \ {<<p, k>>}) = Cardinality(Uses(f)) - 1
  BY <1>1, UsesFinite, FS_RemoveElement
<1>4. <<p, m>> \notin Uses(f) \ {<<p, k>>}
  BY <1>1
<1>5. Cardinality(Uses(f)') = Cardinality(Uses(f)) - 1 + 1
  BY <1>2, <1>3, <1>4, FS_AddElement
<1> QED BY <1>5, UsesFinite

\* A process c that had nothing gets what p has in its descriptors.
LEMMA UsesFork ==
  ASSUME NEW f, NEW p \in Procs, NEW c \in Procs, \A k \in Places : Held(c, k) # f,
         \A fd \in Fds : (Held(c, fd) = f)' <=> ofile[p][fd] = f,
         Held(c, 0)' # f, Held(c, NOFILE + 1)' # f,
         \A q \in Procs \ {c}, k \in Places : (Held(q, k) = f)' <=> Held(q, k) = f
  PROVE  Cardinality(Uses(f)') = Cardinality(Uses(f)) + Cardinality({fd \in Fds : ofile[p][fd] = f})
<1> DEFINE S == {fd \in Fds : ofile[p][fd] = f}
           T == {c} \X S
<1>1. IsFiniteSet(S) /\ Cardinality(S) \in Nat
  <2>1. IsFiniteSet(Fds)
    BY PipeAssumption, FS_Interval DEF Fds
  <2> QED BY <2>1, FS_Subset, FS_CardinalityType
<1>2. IsFiniteSet({c}) /\ Cardinality({c}) = 1
  BY FS_Singleton
<1>3. S \subseteq Fds
  OBVIOUS
<1>4. \A q \in Procs, k \in Places : (Held(q, k) = f)' <=> (Held(q, k) = f \/ (q = c /\ k \in S))
  BY <1>3, Sizes
<1>5. Uses(f)' = Uses(f) \union T
  BY <1>3, <1>4, Sizes DEF Uses
<1>6. Uses(f) \cap T = {}
  BY <1>3, Sizes DEF Uses
<1> HIDE DEF S
<1>7. IsFiniteSet(T) /\ Cardinality(T) = Cardinality(S)
  BY <1>1, <1>2, FS_Product
<1> HIDE DEF T
<1>8. Cardinality(Uses(f) \union T) = Cardinality(Uses(f)) + Cardinality(T) - Cardinality(Uses(f) \cap T)
  BY <1>7, UsesFinite, FS_Union
<1>9. Cardinality(Uses(f) \cap T) = 0
  BY <1>6, FS_EmptySet
<1> QED BY <1>1, <1>5, <1>7, <1>8, <1>9, UsesFinite DEF S

LEMMA PlaceHeld ==
  ASSUME NEW p
  PROVE  /\ Held(p, 0) = call[p].rf /\ Held(p, NOFILE + 1) = call[p].wf
         /\ \A fd \in Fds : Held(p, fd) = ofile[p][fd]
  BY Sizes DEF Held

LEMMA PlaceHeldNext ==
  ASSUME NEW p
  PROVE  /\ Held(p, 0)' = call'[p].rf /\ Held(p, NOFILE + 1)' = call'[p].wf
         /\ \A fd \in Fds : Held(p, fd)' = ofile'[p][fd]
  BY Sizes DEF Held

\* What p holds is in p's call and descriptors, so that others keep what they hold.
LEMMA HeldSame ==
  ASSUME NEW q, call'[q].rf = call[q].rf, call'[q].wf = call[q].wf, ofile'[q] = ofile[q]
  PROVE  \A k \in Places : Held(q, k)' = Held(q, k)
  BY DEF Held

LEMMA RefsSame ==
  ASSUME FileRefs, \A p \in Procs, k \in Places : Held(p, k)' = Held(p, k),
         \A f \in Files : file'[f].ref = file[f].ref
  PROVE  FileRefs'
<1>1. \A f \in Files : Uses(f)' = Uses(f)
  BY UsesSame
<1> QED BY <1>1 DEF FileRefs, Uses

LEMMA RefsPut ==
  ASSUME FileRefs, NEW f \in Files, NEW p \in Procs, NEW k \in Places, Held(p, k) = 0, Held(p, k)' = f,
         \A q \in Procs, m \in Places : <<q, m>> # <<p, k>> => Held(q, m)' = Held(q, m),
         file'[f].ref = file[f].ref + 1, \A g \in Files \ {f} : file'[g] = file[g]
  PROVE  FileRefs'
<1>1. Cardinality(Uses(f)') = Cardinality(Uses(f)) + 1
  BY UsesPut, Sizes
<1>2. \A g \in Files \ {f} : Uses(g)' = Uses(g)
  BY UsesSame, Sizes
<1>3. \A g \in Files : file'[g].ref = Cardinality(Uses(g)')
  <2> TAKE g \in Files
  <2>1. CASE g = f
    BY <1>1, <2>1 DEF FileRefs, Uses
  <2>2. CASE g # f
    BY <1>2, <2>2 DEF FileRefs, Uses
  <2> QED BY <2>1, <2>2
<1> QED BY <1>3 DEF FileRefs, Uses

LEMMA RefsDrop ==
  ASSUME FileRefs, NEW f \in Files, NEW p \in Procs, NEW k \in Places, Held(p, k) = f, Held(p, k)' = 0,
         \A q \in Procs, m \in Places : <<q, m>> # <<p, k>> => Held(q, m)' = Held(q, m),
         file'[f].ref = file[f].ref - 1, \A g \in Files \ {f} : file'[g] = file[g]
  PROVE  FileRefs'
<1>1. Cardinality(Uses(f)') = Cardinality(Uses(f)) - 1
  BY UsesDrop, Sizes
<1>2. \A g \in Files \ {f} : Uses(g)' = Uses(g)
  BY UsesSame, Sizes
<1> QED BY <1>1, <1>2 DEF FileRefs, Uses

-----------------------------------------------------------------------------
(* Types, reference counts and the shape of calls.                          *)

LEMMA Typed ==
  ASSUME TypeOK, NEW p \in Procs
  PROVE  /\ call[p] \in Calls /\ call[p].pc \in PCs /\ call[p].pi \in Pipes \union {0} /\ call[p].i \in 0..MaxN
         /\ call[p].rf \in Files \union {0} /\ call[p].wf \in Files \union {0} /\ call[p].w \in BOOLEAN
         /\ st[p] \in {"running", "sleeping", "unused"} /\ ofile[p] \in [Fds -> Files \union {0}]
         /\ killed[p] \in BOOLEAN /\ chan[p] \in Chans
         /\ \A fd \in Fds : ofile[p][fd] \in Files \union {0}
  BY DEF TypeOK, Calls

LEMMA TypedFile ==
  ASSUME TypeOK, NEW f \in Files
  PROVE  /\ file[f] \in FileRecs /\ file[f].ref \in Nat /\ file[f].type \in {"none", "pipe"}
         /\ file[f].writable \in BOOLEAN /\ file[f].pipe \in Pipes \union {0}
  BY DEF TypeOK, FileRecs

\* A call that is nowhere in pipe() or close() has no files.
LEMMA NoFiles ==
  ASSUME RefsInv, NEW p \in Procs, call[p].pc \notin {"pipe", "close", "pipeclose"}
  PROVE  call[p].rf = 0 /\ call[p].wf = 0
  BY DEF RefsInv, CallShape

LEMMA CallShapeFrame ==
  ASSUME NEW q, CallShape(q), call'[q] = call[q], ofile'[q] = ofile[q], st'[q] = "unused" => st[q] = "unused",
         call[q].pc = "pipe" =>
           \A f \in {call[q].rf, call[q].wf} : f # 0 /\ Fresh(f) => file'[f].ref = 1 /\ file'[f].type = "none"
  PROVE  CallShape(q)'
  BY DEF CallShape, Fresh

LEMMA UsesEndFrame ==
  ASSUME NEW q, UsesEnd(q), call'[q] = call[q], ofile'[q] = ofile[q],
         \A fd \in Fds : ofile[q][fd] # 0 => /\ file'[ofile[q][fd]].pipe = file[ofile[q][fd]].pipe
                                             /\ file'[ofile[q][fd]].writable = file[ofile[q][fd]].writable
  PROVE  UsesEnd(q)'
<1>1. ASSUME NEW w, HasEnd(q, w) PROVE HasEnd(q, w)'
  BY <1>1 DEF HasEnd
<1> QED BY <1>1 DEF UsesEnd

LEMMA PlainCall ==
  ASSUME NEW p, call'[p].rf = 0, call'[p].wf = 0, call'[p].pc \notin {"pipe", "close", "pipeclose"},
         st'[p] = "unused" => call'[p].pc = "user" /\ \A fd \in Fds : ofile'[p][fd] = 0
  PROVE  CallShape(p)'
  BY DEF CallShape

LEMMA NotInPipe ==
  ASSUME NEW p, call'[p].pc \notin Reading \union Sending
  PROVE  UsesEnd(p)'
  BY DEF UsesEnd

LEMMA StillInPipe ==
  ASSUME NEW p, UsesEnd(p), UNCHANGED <<file, ofile>>, call'[p].pi = call[p].pi,
         call'[p].pc \in Reading => call[p].pc \in Reading, call'[p].pc \in Sending => call[p].pc \in Sending
  PROVE  UsesEnd(p)'
<1>1. ASSUME NEW w, HasEnd(p, w) PROVE HasEnd(p, w)'
  BY <1>1 DEF HasEnd
<1> QED BY <1>1 DEF UsesEnd

\* Steps that leave the files and who refers to them alone.
LEMMA QuietRefs ==
  ASSUME TypeOK, RefsInv, NEW p \in Procs, UNCHANGED <<file, ofile>>,
         \A q \in Procs \ {p} : call'[q] = call[q] /\ (st'[q] = "unused" => st[q] = "unused"),
         call'[p].rf = call[p].rf, call'[p].wf = call[p].wf, CallShape(p)', UsesEnd(p)'
  PROVE  RefsInv'
<1>1. FileRefs'
  <2>1. \A q \in Procs, k \in Places : Held(q, k)' = Held(q, k)
    BY HeldSame
  <2> QED BY <2>1, RefsSame DEF RefsInv
<1>2. FileShape'
  BY DEF RefsInv, FileShape
<1>3. ASSUME NEW q \in Procs \ {p} PROVE CallShape(q)' /\ UsesEnd(q)'
  BY CallShapeFrame, UsesEndFrame DEF RefsInv, Fresh
<1> QED BY <1>1, <1>2, <1>3 DEF RefsInv

LEMMA WakeupEffect ==
  ASSUME TypeOK, NEW c, wakeup(c)
  PROVE  /\ chan' \in [Procs -> Chans] /\ killed' \in [Procs -> BOOLEAN]
         /\ st' \in [Procs -> {"running", "sleeping", "unused"}]
         /\ \A q \in Procs : /\ chan'[q] = IF chan[q] = c THEN NoChan ELSE chan[q]
                             /\ st'[q] = IF chan[q] = c /\ st[q] = "sleeping" THEN "running" ELSE st[q]
                             /\ st'[q] = "unused" <=> st[q] = "unused"
  BY DEF wakeup, TypeOK, Chans

\* A process that stands somewhere in its call is not an unused slot.
LEMMA AtRunning ==
  ASSUME NEW p, NEW pc, At(p, pc)
  PROVE  st[p] = "running" /\ call[p].pc = pc
  BY DEF At

LEMMA kexitRefs == ASSUME TypeOK, RefsInv, NEW p \in Procs, kexit(p) PROVE TypeOK' /\ RefsInv'
<1>1. At(p, "user") /\ call' = [call EXCEPT ![p].pc = "exit", ![p].exiting = TRUE]
  BY DEF kexit
<1>2. UNCHANGED <<file, ofile, pipe, st, chan, killed, torn>>
  BY DEF kexit, procVars
<1>3. /\ call' \in [Procs -> Calls] /\ \A q \in Procs \ {p} : call'[q] = call[q]
      /\ call'[p].pc = "exit" /\ call'[p].rf = call[p].rf /\ call'[p].wf = call[p].wf
  BY <1>1, ExitEffect DEF PCs
<1>4. call[p].rf = 0 /\ call[p].wf = 0 /\ st[p] = "running"
  BY <1>1, AtRunning, NoFiles
<1>5. CallShape(p)' /\ UsesEnd(p)'
  BY <1>2, <1>3, <1>4, PlainCall, NotInPipe DEF Reading, Sending
<1>6. RefsInv'
  BY <1>2, <1>3, <1>5, QuietRefs
<1> QED BY <1>2, <1>3, <1>6 DEF TypeOK

LEMMA kkillRefs == ASSUME TypeOK, RefsInv, NEW p \in Procs, kkill(p) PROVE TypeOK' /\ RefsInv'
<1>1. UNCHANGED <<file, ofile, pipe, chan, call, torn>> /\ st[p] # "unused"
  BY DEF kkill
<1>2. /\ st' \in [Procs -> {"running", "sleeping", "unused"}] /\ killed' \in [Procs -> BOOLEAN]
      /\ st'[p] = "running" /\ \A q \in Procs \ {p} : st'[q] = st[q]
  BY DEF kkill, TypeOK
<1>3. CallShape(p)' /\ UsesEnd(p)'
  BY <1>1, <1>2, CallShapeFrame, UsesEndFrame DEF RefsInv, Fresh
<1>4. RefsInv'
  BY <1>1, <1>2, <1>3, QuietRefs
<1> QED BY <1>1, <1>2, <1>4 DEF TypeOK

\* A call that ends: the process is back in user mode.
LEMMA ReturnRefs ==
  ASSUME TypeOK, RefsInv, NEW p \in Procs, Return(p), UNCHANGED <<file, ofile>>,
         call[p].pc \notin {"pipe", "close", "pipeclose"},
         \A q \in Procs \ {p} : st'[q] = "unused" => st[q] = "unused",
         st'[p] = "unused" => \A fd \in Fds : ofile[p][fd] = 0
  PROVE  RefsInv' /\ call' \in [Procs -> Calls]
<1>1. Becomes(p, NoCall) /\ call' \in [Procs -> Calls]
  BY ReturnEffect
<1>2. call[p].rf = 0 /\ call[p].wf = 0
  BY NoFiles
<1>3. CallShape(p)' /\ UsesEnd(p)'
  BY <1>1, <1>2, PlainCall, NotInPipe, NoCallFields DEF Becomes, Reading, Sending
<1> QED BY <1>1, <1>2, <1>3, QuietRefs, NoCallFields DEF Becomes

\* A call that goes on in a pipe.
LEMMA GoOnRefs ==
  ASSUME TypeOK, RefsInv, NEW p \in Procs, NEW a \in PCs, call' = [call EXCEPT ![p].pc = a],
         UNCHANGED <<file, ofile>>,
         (a \in Reading /\ call[p].pc \in Reading) \/ (a \in Sending /\ call[p].pc \in Sending),
         \A q \in Procs \ {p} : st'[q] = "unused" => st[q] = "unused", st'[p] # "unused"
  PROVE  RefsInv' /\ call' \in [Procs -> Calls]
<1>1. /\ call' \in [Procs -> Calls] /\ \A q \in Procs \ {p} : call'[q] = call[q]
      /\ call'[p].pc = a /\ call'[p].pi = call[p].pi
      /\ call'[p].rf = call[p].rf /\ call'[p].wf = call[p].wf
  BY GotoEffect
<1>2. call[p].rf = 0 /\ call[p].wf = 0 /\ a \notin {"pipe", "close", "pipeclose"}
  BY NoFiles DEF Reading, Sending
<1>3. CallShape(p)'
  BY <1>1, <1>2, PlainCall
<1>4. UsesEnd(p)'
  BY <1>1, StillInPipe DEF RefsInv, Reading, Sending
<1> QED BY <1>1, <1>3, <1>4, QuietRefs

LEMMA ExitedRefs == ASSUME TypeOK, RefsInv, NEW p \in Procs, Exited(p) PROVE TypeOK' /\ RefsInv'
<1>1. At(p, "exit") /\ Return(p) /\ UNCHANGED <<file, ofile, pipe, torn>> /\ \A fd \in Fds : ofile[p][fd] = 0
  BY DEF Exited, FreeFds
<1>2. /\ st' \in [Procs -> {"running", "sleeping", "unused"}] /\ killed' \in [Procs -> BOOLEAN]
      /\ chan' \in [Procs -> Chans] /\ \A q \in Procs \ {p} : st'[q] = st[q]
  BY DEF Exited, TypeOK, Chans
<1>3. RefsInv' /\ call' \in [Procs -> Calls]
  BY <1>1, <1>2, AtRunning, ReturnRefs
<1> QED BY <1>1, <1>2, <1>3 DEF TypeOK

LEMMA WriteFailsRefs == ASSUME TypeOK, RefsInv, NEW p \in Procs, WriteFails(p) PROVE TypeOK' /\ RefsInv'
<1>1. At(p, "write") /\ Return(p) /\ UNCHANGED <<file, ofile, pipe, st, chan, killed>>
  BY DEF WriteFails, procVars
<1>2. call[p].pi \in Pipes
  BY <1>1, AtRunning DEF RefsInv, UsesEnd, HasEnd, Sending
<1>3. torn' \in SUBSET Pipes
  BY <1>2 DEF WriteFails, TypeOK
<1>4. RefsInv' /\ call' \in [Procs -> Calls]
  BY <1>1, AtRunning, ReturnRefs
<1> QED BY <1>1, <1>3, <1>4 DEF TypeOK

LEMMA WriteFullRefs == ASSUME TypeOK, RefsInv, NEW p \in Procs, WriteFull(p) PROVE TypeOK' /\ RefsInv'
<1>1. At(p, "write") /\ UNCHANGED <<file, ofile, pipe, killed>> /\ call' = [call EXCEPT ![p].pc = "write-zz"]
  BY DEF WriteFull, Writing
<1>2. torn' \in SUBSET Pipes
  BY DEF WriteFull, TypeOK
<1>3. chan' \in [Procs -> Chans]
  BY DEF WriteFull, TypeOK, Chans, WChan, Calls
<1>4. /\ st' \in [Procs -> {"running", "sleeping", "unused"}]
      /\ \A q \in Procs : st'[q] = "unused" <=> st[q] = "unused"
  BY DEF WriteFull, TypeOK
<1>5. RefsInv' /\ call' \in [Procs -> Calls]
  BY <1>1, <1>4, AtRunning, GoOnRefs DEF PCs, Sending
<1> QED BY <1>1, <1>2, <1>3, <1>4, <1>5 DEF TypeOK

LEMMA WriteEndRefs == ASSUME TypeOK, RefsInv, NEW p \in Procs, WriteEnd(p) PROVE TypeOK' /\ RefsInv'
<1>1. At(p, "write") /\ Return(p) /\ UNCHANGED <<file, ofile, pipe>> /\ wakeup(RChan(call[p].pi))
  BY DEF WriteEnd
<1>2. torn' \in SUBSET Pipes
  BY DEF WriteEnd, TypeOK
<1>3. RefsInv' /\ call' \in [Procs -> Calls]
  BY <1>1, AtRunning, ReturnRefs, WakeupEffect
<1> QED BY <1>1, <1>2, <1>3, WakeupEffect DEF TypeOK

LEMMA ReadEmptyRefs == ASSUME TypeOK, RefsInv, NEW p \in Procs, ReadEmpty(p) PROVE TypeOK' /\ RefsInv'
<1>1. At(p, "read-acq") /\ UNCHANGED <<file, ofile, pipe, st, killed, torn>>
  BY DEF ReadEmpty
<1>2. chan' \in [Procs -> Chans]
  BY DEF ReadEmpty, TypeOK, Chans, RChan, Calls
<1>3. CASE Return(p)
  <2>1. RefsInv' /\ call' \in [Procs -> Calls]
    BY <1>1, <1>3, AtRunning, ReturnRefs
  <2> QED BY <1>1, <1>2, <2>1 DEF TypeOK
<1>4. CASE call' = [call EXCEPT ![p].pc = "read-zz"]
  <2>1. RefsInv' /\ call' \in [Procs -> Calls]
    BY <1>1, <1>4, AtRunning, GoOnRefs DEF PCs, Reading
  <2> QED BY <1>1, <1>2, <2>1 DEF TypeOK
<1> QED BY <1>3, <1>4 DEF ReadEmpty

LEMMA sleepRefs == ASSUME TypeOK, RefsInv, NEW p \in Procs, sleep(p) PROVE TypeOK' /\ RefsInv'
<1>1. UNCHANGED <<file, ofile, pipe, chan, killed, torn>>
  BY DEF sleep
<1>2. /\ st' \in [Procs -> {"running", "sleeping", "unused"}]
      /\ \A q \in Procs : st'[q] = "unused" <=> st[q] = "unused"
  BY DEF sleep, TypeOK, At
<1>3. PICK a \in PCs : /\ call' = [call EXCEPT ![p].pc = a]
                       /\ (a \in Reading /\ call[p].pc \in Reading) \/ (a \in Sending /\ call[p].pc \in Sending)
  BY DEF sleep, At, PCs, Reading, Sending
<1>4. RefsInv' /\ call' \in [Procs -> Calls]
  BY <1>1, <1>2, <1>3, GoOnRefs DEF sleep, At
<1> QED BY <1>1, <1>2, <1>4 DEF TypeOK

LEMMA AcquireRefs == ASSUME TypeOK, RefsInv, NEW p \in Procs, Acquire(p) PROVE TypeOK' /\ RefsInv'
<1>1. /\ At(p, "write-acq") /\ UNCHANGED <<file, ofile, pipe, st, chan, killed, torn>>
      /\ call' = [call EXCEPT ![p].pc = "write"]
  BY DEF Acquire, procVars
<1>2. RefsInv' /\ call' \in [Procs -> Calls]
  BY <1>1, AtRunning, GoOnRefs DEF PCs, Sending
<1> QED BY <1>1, <1>2 DEF TypeOK

LEMMA ModRange ==
  /\ \A x \in Int : x % WORD \in 0..(WORD - 1)
  /\ \A x \in Int : Slot(x) \in 0..(PIPESIZE - 1)
  BY Sizes DEF Slot

LEMMA TypedPipe ==
  ASSUME TypeOK, NEW pi \in Pipes
  PROVE  /\ pipe[pi] \in PipeRecs /\ pipe[pi].nread \in 0..(WORD - 1) /\ pipe[pi].nwrite \in 0..(WORD - 1)
         /\ pipe[pi].data \in [0..(PIPESIZE - 1) -> Bytes]
         /\ pipe[pi].alloc \in BOOLEAN /\ pipe[pi].readopen \in BOOLEAN /\ pipe[pi].writeopen \in BOOLEAN
  BY DEF TypeOK, PipeRecs

\* What a writer in its loop does to its pipe and its call.
LEMMA WriteByteEffect ==
  ASSUME TypeOK, RefsInv, NEW p \in Procs, WriteByte(p)
  PROVE  LET pi == call[p].pi
             x == pipe[pi]
         IN /\ pi \in Pipes /\ pipe' \in [Pipes -> PipeRecs] /\ \A pj \in Pipes \ {pi} : pipe'[pj] = pipe[pj]
            /\ pipe'[pi].data = [x.data EXCEPT ![Slot(x.nwrite)] = Source[p][call[p].i + 1]]
            /\ Source[p][call[p].i + 1] \in Bytes
            /\ pipe'[pi].nwrite = (x.nwrite + 1) % WORD /\ pipe'[pi].nread = x.nread
            /\ pipe'[pi].alloc = x.alloc /\ pipe'[pi].readopen = x.readopen /\ pipe'[pi].writeopen = x.writeopen
            /\ call' \in [Procs -> Calls] /\ \A q \in Procs \ {p} : call'[q] = call[q]
            /\ call'[p].pc = "write" /\ call'[p].pi = pi /\ call'[p].i = call[p].i + 1
            /\ call'[p].rf = call[p].rf /\ call'[p].wf = call[p].wf
<1> DEFINE pi == call[p].pi
           x == pipe[pi]
           b == Source[p][call[p].i + 1]
           D == [x.data EXCEPT ![Slot(x.nwrite)] = b]
           n == (x.nwrite + 1) % WORD
<1>1. At(p, "write") /\ call[p].i < MaxN
  BY DEF WriteByte, Writing
<1>2. pi \in Pipes
  BY <1>1, AtRunning DEF RefsInv, UsesEnd, HasEnd, Sending
<1>3. call[p].i \in 0..MaxN /\ call[p].i + 1 \in 1..MaxN
  BY <1>1, Typed, Sizes
<1>4. b \in Bytes
  BY <1>3, PipeAssumption DEF Procs
<1>5. n \in 0..(WORD - 1) /\ D \in [0..(PIPESIZE - 1) -> Bytes]
  <2>1. x.nwrite \in Int /\ x.nwrite + 1 \in Int
    BY <1>2, TypedPipe, Sizes
  <2>2. n \in 0..(WORD - 1) /\ Slot(x.nwrite) \in 0..(PIPESIZE - 1)
    BY <2>1, ModRange
  <2> QED BY <1>2, <1>4, <2>2, TypedPipe
<1>6. pipe' = [pipe EXCEPT ![pi].data = D, ![pi].nwrite = n]
  BY <1>2 DEF WriteByte, TypeOK
<1> DEFINE j == call[p].i + 1
<1>7. call' = [call EXCEPT ![p].i = j] /\ j \in 0..MaxN
  BY <1>3 DEF WriteByte
<1> HIDE DEF j
<1>8. /\ call' \in [Procs -> Calls] /\ \A q \in Procs \ {p} : call'[q] = call[q]
      /\ call'[p].pc = call[p].pc /\ call'[p].pi = pi /\ call'[p].i = j
      /\ call'[p].rf = call[p].rf /\ call'[p].wf = call[p].wf
  BY <1>7 DEF TypeOK, Calls
<1> HIDE DEF D, n
<1>9. /\ pipe' \in [Pipes -> PipeRecs] /\ \A pj \in Pipes \ {pi} : pipe'[pj] = pipe[pj]
      /\ pipe'[pi].data = D /\ pipe'[pi].nwrite = n /\ pipe'[pi].nread = x.nread
      /\ pipe'[pi].alloc = x.alloc /\ pipe'[pi].readopen = x.readopen /\ pipe'[pi].writeopen = x.writeopen
  <2> DEFINE p1 == [pipe EXCEPT ![pi].data = D]
  <2>1. p1 \in [Pipes -> PipeRecs]
    BY <1>2, <1>5 DEF TypeOK, PipeRecs
  <2>2. /\ \A pj \in Pipes \ {pi} : p1[pj] = pipe[pj]
        /\ p1[pi].data = D /\ p1[pi].nread = x.nread
        /\ p1[pi].alloc = x.alloc /\ p1[pi].readopen = x.readopen /\ p1[pi].writeopen = x.writeopen
    BY <1>2 DEF TypeOK, PipeRecs
  <2>3. pipe' = [p1 EXCEPT ![pi].nwrite = n]
    BY <1>6
  <2> HIDE DEF p1
  <2>4. pipe' \in [Pipes -> PipeRecs]
    BY <1>2, <1>5, <2>1, <2>3 DEF PipeRecs
  <2>5. /\ \A pj \in Pipes \ {pi} : pipe'[pj] = p1[pj]
        /\ pipe'[pi].data = p1[pi].data /\ pipe'[pi].nwrite = n /\ pipe'[pi].nread = p1[pi].nread
        /\ pipe'[pi].alloc = p1[pi].alloc /\ pipe'[pi].readopen = p1[pi].readopen
        /\ pipe'[pi].writeopen = p1[pi].writeopen
    BY <1>2, <1>5, <2>1, <2>3 DEF PipeRecs
  <2> QED BY <2>2, <2>4, <2>5
<1> QED BY <1>1, <1>2, <1>4, <1>8, <1>9, AtRunning DEF D, n, j

LEMMA WriteByteRefs == ASSUME TypeOK, RefsInv, NEW p \in Procs, WriteByte(p) PROVE TypeOK' /\ RefsInv'
<1>1. UNCHANGED <<file, ofile, st, chan, killed, torn>> /\ At(p, "write")
  BY DEF WriteByte, procVars, Writing
<1>2. /\ pipe' \in [Pipes -> PipeRecs] /\ call' \in [Procs -> Calls] /\ \A q \in Procs \ {p} : call'[q] = call[q]
      /\ call'[p].pc = "write" /\ call'[p].pi = call[p].pi
      /\ call'[p].rf = call[p].rf /\ call'[p].wf = call[p].wf
  BY WriteByteEffect
<1>3. call[p].rf = 0 /\ call[p].wf = 0 /\ st[p] = "running" /\ call[p].pc = "write"
  BY <1>1, AtRunning, NoFiles
<1>4. CallShape(p)'
  BY <1>1, <1>2, <1>3, PlainCall
<1>5. UsesEnd(p)'
  BY <1>1, <1>2, <1>3, StillInPipe DEF RefsInv, Reading, Sending
<1>6. RefsInv'
  BY <1>1, <1>2, <1>4, <1>5, QuietRefs
<1> QED BY <1>1, <1>2, <1>6 DEF TypeOK

LEMMA ReadCopyEffect ==
  ASSUME TypeOK, RefsInv, NEW p \in Procs, NEW k \in 0..PIPESIZE, ReadCopy(p, k)
  PROVE  LET pi == call[p].pi
             x == pipe[pi]
         IN /\ pi \in Pipes /\ pipe' \in [Pipes -> PipeRecs] /\ \A pj \in Pipes \ {pi} : pipe'[pj] = pipe[pj]
            /\ pipe'[pi].nread = (x.nread + k) % WORD
            /\ pipe'[pi].data = x.data /\ pipe'[pi].nwrite = x.nwrite
            /\ pipe'[pi].alloc = x.alloc /\ pipe'[pi].readopen = x.readopen /\ pipe'[pi].writeopen = x.writeopen
<1>1. At(p, "read-acq")
  BY DEF ReadCopy
<1>2. call[p].pi \in Pipes
  BY <1>1, AtRunning DEF RefsInv, UsesEnd, HasEnd, Reading
<1> DEFINE pi == call[p].pi
           n == (pipe[pi].nread + k) % WORD
<1>3. n \in 0..(WORD - 1)
  <2>1. pipe[pi].nread + k \in Int
    BY <1>2, TypedPipe, Sizes
  <2> QED BY <2>1, ModRange
<1>4. pipe' = [pipe EXCEPT ![pi].nread = n]
  BY <1>2 DEF ReadCopy, TypeOK
<1> HIDE DEF n
<1>5. /\ pipe' \in [Pipes -> PipeRecs] /\ \A pj \in Pipes \ {pi} : pipe'[pj] = pipe[pj]
      /\ pipe'[pi].nread = n /\ pipe'[pi].data = pipe[pi].data /\ pipe'[pi].nwrite = pipe[pi].nwrite
      /\ pipe'[pi].alloc = pipe[pi].alloc /\ pipe'[pi].readopen = pipe[pi].readopen
      /\ pipe'[pi].writeopen = pipe[pi].writeopen
  BY <1>2, <1>3, <1>4 DEF TypeOK, PipeRecs
<1> QED BY <1>2, <1>5 DEF n

LEMMA ReadCopyRefs ==
  ASSUME TypeOK, RefsInv, NEW p \in Procs, NEW k \in 0..PIPESIZE, ReadCopy(p, k)
  PROVE  TypeOK' /\ RefsInv'
<1>1. At(p, "read-acq") /\ Return(p) /\ UNCHANGED <<file, ofile, torn>> /\ wakeup(WChan(call[p].pi))
  BY DEF ReadCopy
<1>2. pipe' \in [Pipes -> PipeRecs]
  BY ReadCopyEffect
<1>3. RefsInv' /\ call' \in [Procs -> Calls]
  BY <1>1, AtRunning, ReturnRefs, WakeupEffect
<1> QED BY <1>1, <1>2, <1>3, WakeupEffect DEF TypeOK

\* read() and write() start with the right end of the pipe in a descriptor.
LEMMA TransferEffect ==
  ASSUME TypeOK, RefsInv, NEW p \in Procs, NEW fd \in Fds, Transfer(p, fd)
  PROVE  /\ st[p] = "running" /\ call[p].pc = "user" /\ call' \in [Procs -> Calls]
         /\ \A q \in Procs \ {p} : call'[q] = call[q]
         /\ call'[p].pc \in {"write-acq", "read-acq"} /\ call'[p].i = 0 /\ call'[p].rf = 0 /\ call'[p].wf = 0
         /\ ofile[p][fd] \in Files /\ file[ofile[p][fd]].pipe \in Pipes /\ call'[p].pi = file[ofile[p][fd]].pipe
         /\ call'[p].pc = "write-acq" <=> file[ofile[p][fd]].writable = TRUE
<1> DEFINE f == file[ofile[p][fd]]
           a == IF f.writable THEN "write-acq" ELSE "read-acq"
           y == f.pipe
           d == [NoCall EXCEPT !.pc = a, !.pi = y]
<1>1. At(p, "user") /\ ofile[p][fd] # 0
  BY DEF Transfer, Starts
<1>2. ofile[p][fd] \in Files /\ f.pipe \in Pipes /\ f.writable \in BOOLEAN
  BY <1>1, Typed, TypedFile DEF RefsInv, FileShape
<1>3. a \in PCs /\ a \in {"write-acq", "read-acq"} /\ (a = "write-acq" <=> f.writable = TRUE)
  BY <1>2 DEF PCs, Reading, Sending
<1>4. call' = [call EXCEPT ![p] = d]
  BY DEF Transfer
<1> HIDE DEF a, y
<1>5. d \in Calls /\ d.pc = a /\ d.pi = y /\ d.i = NoCall.i /\ d.rf = NoCall.rf /\ d.wf = NoCall.wf
  <2> DEFINE c1 == [NoCall EXCEPT !.pc = a]
  <2>1. c1 \in Calls /\ c1.pc = a /\ c1.i = NoCall.i /\ c1.rf = NoCall.rf /\ c1.wf = NoCall.wf
    BY <1>3, NoCallFields DEF Calls
  <2>2. d = [c1 EXCEPT !.pi = y]
    OBVIOUS
  <2> HIDE DEF c1, d
  <2>3. y \in Pipes \union {0}
    BY <1>2 DEF y
  <2> QED BY <2>1, <2>2, <2>3 DEF Calls
<1> HIDE DEF d
<1>6. call' \in [Procs -> Calls] /\ call'[p] = d /\ \A q \in Procs \ {p} : call'[q] = call[q]
  BY <1>4, <1>5 DEF TypeOK
<1> QED BY <1>1, <1>2, <1>3, <1>5, <1>6, NoCallFields, AtRunning DEF y

LEMMA TransferRefs ==
  ASSUME TypeOK, RefsInv, NEW p \in Procs, NEW fd \in Fds, Transfer(p, fd)
  PROVE  TypeOK' /\ RefsInv'
<1>1. UNCHANGED <<file, ofile, pipe, st, chan, killed, torn>>
  BY DEF Transfer, procVars
<1> DEFINE f == file[ofile[p][fd]]
<1>2. /\ st[p] = "running" /\ call[p].pc = "user" /\ call' \in [Procs -> Calls]
      /\ \A q \in Procs \ {p} : call'[q] = call[q]
      /\ call'[p].pc \in {"write-acq", "read-acq"} /\ call'[p].rf = 0 /\ call'[p].wf = 0
      /\ ofile[p][fd] \in Files /\ f.pipe \in Pipes /\ call'[p].pi = f.pipe
      /\ call'[p].pc = "write-acq" <=> f.writable = TRUE
  BY TransferEffect
<1>3. call[p].rf = 0 /\ call[p].wf = 0
  BY <1>2, NoFiles
<1>4. CallShape(p)'
  BY <1>1, <1>2, PlainCall
<1>5. f.writable \in BOOLEAN /\ ofile[p][fd] # 0
  BY <1>2, TypedFile, Sizes
<1>6. UsesEnd(p)'
  <2>1. CASE f.writable = TRUE
    <3>1. HasEnd(p, TRUE)' /\ call'[p].pc \notin Reading
      BY <1>1, <1>2, <1>5, <2>1 DEF HasEnd, Reading
    <3> QED BY <3>1 DEF UsesEnd
  <2>2. CASE f.writable = FALSE
    <3>1. HasEnd(p, FALSE)' /\ call'[p].pc \notin Sending
      BY <1>1, <1>2, <1>5, <2>2 DEF HasEnd, Sending
    <3> QED BY <3>1 DEF UsesEnd
  <2> QED BY <1>5, <2>1, <2>2
<1>7. RefsInv'
  BY <1>1, <1>2, <1>3, <1>4, <1>6, QuietRefs
<1> QED BY <1>1, <1>2, <1>7 DEF TypeOK

LEMMA EndClosedFields ==
  ASSUME NEW x \in PipeRecs, NEW w \in BOOLEAN
  PROVE  /\ EndClosed(x, w) \in PipeRecs
         /\ EndClosed(x, w).writeopen = (x.writeopen /\ ~w) /\ EndClosed(x, w).readopen = (x.readopen /\ w)
         /\ EndClosed(x, w).alloc = x.alloc /\ EndClosed(x, w).nread = x.nread
         /\ EndClosed(x, w).nwrite = x.nwrite /\ EndClosed(x, w).data = x.data
<1>1. ASSUME NEW t \in BOOLEAN
      PROVE  LET y == [x EXCEPT !.writeopen = t] IN
             /\ y \in PipeRecs /\ y.writeopen = t /\ y.readopen = x.readopen
             /\ y.alloc = x.alloc /\ y.nread = x.nread /\ y.nwrite = x.nwrite /\ y.data = x.data
  BY DEF PipeRecs
<1>2. ASSUME NEW t \in BOOLEAN
      PROVE  LET y == [x EXCEPT !.readopen = t] IN
             /\ y \in PipeRecs /\ y.readopen = t /\ y.writeopen = x.writeopen
             /\ y.alloc = x.alloc /\ y.nread = x.nread /\ y.nwrite = x.nwrite /\ y.data = x.data
  BY DEF PipeRecs
<1>3. x.writeopen \in BOOLEAN /\ x.readopen \in BOOLEAN
  BY DEF PipeRecs
<1>4. CASE w = TRUE
  BY <1>1, <1>3, <1>4 DEF EndClosed
<1>5. CASE w = FALSE
  BY <1>2, <1>3, <1>5 DEF EndClosed
<1> QED BY <1>4, <1>5

LEMMA NoPipeFields ==
  /\ NoPipe \in PipeRecs /\ NoPipe.nread = 0 /\ NoPipe.nwrite = 0
  /\ NoPipe.alloc = FALSE /\ NoPipe.readopen = FALSE /\ NoPipe.writeopen = FALSE
<1>1. [k \in 0..(PIPESIZE - 1) |-> JUNK] \in [0..(PIPESIZE - 1) -> Bytes] /\ 0 \in 0..(WORD - 1)
  BY PipeAssumption
<1> QED BY <1>1 DEF NoPipe, PipeRecs

LEMMA pipecloseEffect ==
  ASSUME TypeOK, RefsInv, NEW p \in Procs, pipeclose(p)
  PROVE  LET pi == call[p].pi
             w == call[p].w
             rest == IF w THEN pipe[pi].readopen ELSE pipe[pi].writeopen
         IN /\ pi \in Pipes /\ w \in BOOLEAN /\ rest \in BOOLEAN /\ st[p] = "running" /\ call[p].pc = "pipeclose"
            /\ pipe' \in [Pipes -> PipeRecs] /\ \A pj \in Pipes \ {pi} : pipe'[pj] = pipe[pj]
            /\ ~rest => pipe'[pi] = NoPipe
            /\ rest => /\ pipe'[pi].writeopen = (pipe[pi].writeopen /\ ~w)
                       /\ pipe'[pi].readopen = (pipe[pi].readopen /\ w)
                       /\ pipe'[pi].alloc = pipe[pi].alloc /\ pipe'[pi].nread = pipe[pi].nread
                       /\ pipe'[pi].nwrite = pipe[pi].nwrite /\ pipe'[pi].data = pipe[pi].data
            /\ call' \in [Procs -> Calls] /\ \A q \in Procs \ {p} : call'[q] = call[q]
            /\ call'[p] = Closing(call[p]) /\ torn' \in SUBSET Pipes
<1> DEFINE pi == call[p].pi
           w == call[p].w
           rest == IF w THEN pipe[pi].readopen ELSE pipe[pi].writeopen
           x == pipe[pi]
           y == EndClosed(x, w)
<1>1. At(p, "pipeclose")
  BY DEF pipeclose
<1>2. pi \in Pipes /\ w \in BOOLEAN
  BY <1>1, AtRunning, Typed DEF RefsInv, CallShape
<1>3. x \in PipeRecs /\ rest \in BOOLEAN
  BY <1>2, TypedPipe
<1>4. pipe' = [pipe EXCEPT ![pi] = IF rest THEN y ELSE NoPipe]
  BY <1>2 DEF pipeclose, TypeOK
<1>5. call' = [call EXCEPT ![p] = Closing(call[p])] /\ torn' \in SUBSET Pipes
  BY DEF pipeclose, TypeOK
<1>6. Closing(call[p]) \in Calls
  BY ClosingFields, Typed
<1>7. /\ call' \in [Procs -> Calls] /\ \A q \in Procs \ {p} : call'[q] = call[q]
      /\ call'[p] = Closing(call[p])
  BY <1>5, <1>6 DEF TypeOK
<1>8. /\ y \in PipeRecs /\ y.writeopen = (x.writeopen /\ ~w) /\ y.readopen = (x.readopen /\ w)
      /\ y.alloc = x.alloc /\ y.nread = x.nread /\ y.nwrite = x.nwrite /\ y.data = x.data
  BY <1>2, <1>3, EndClosedFields
<1> HIDE DEF y, rest
<1>9. /\ pipe' \in [Pipes -> PipeRecs] /\ \A pj \in Pipes \ {pi} : pipe'[pj] = pipe[pj]
      /\ pipe'[pi] = IF rest THEN y ELSE NoPipe
  BY <1>2, <1>4, <1>8, NoPipeFields DEF TypeOK
<1> QED BY <1>1, <1>2, <1>3, <1>5, <1>7, <1>8, <1>9, AtRunning DEF rest

LEMMA pipecloseRefs == ASSUME TypeOK, RefsInv, NEW p \in Procs, pipeclose(p) PROVE TypeOK' /\ RefsInv'
<1>1. UNCHANGED <<file, ofile>> /\ wakeup(EndChan(call[p].pi, call[p].w))
  BY DEF pipeclose
<1>2. /\ st[p] = "running" /\ call[p].pc = "pipeclose"
      /\ pipe' \in [Pipes -> PipeRecs] /\ torn' \in SUBSET Pipes
      /\ call' \in [Procs -> Calls] /\ \A q \in Procs \ {p} : call'[q] = call[q]
      /\ call'[p] = Closing(call[p])
  BY pipecloseEffect
<1>3. /\ call'[p].rf = call[p].rf /\ call'[p].wf = call[p].wf
      /\ call'[p].pc \in {"close", "exit", "user"} /\ (call'[p].pc = "close" <=> call[p].rf # 0 \/ call[p].wf # 0)
  BY <1>2, Typed, ClosingFields
<1>4. st'[p] # "unused" /\ \A q \in Procs : st'[q] = "unused" <=> st[q] = "unused"
  BY <1>1, <1>2, WakeupEffect
<1>5. CallShape(p)'
  BY <1>3, <1>4 DEF CallShape
<1>6. UsesEnd(p)'
  BY <1>3, NotInPipe DEF Reading, Sending
<1>7. RefsInv'
  BY <1>1, <1>2, <1>3, <1>4, <1>5, <1>6, QuietRefs
<1> QED BY <1>1, <1>2, <1>7, WakeupEffect DEF TypeOK

\* Steps that change files, but not what others hold.
LEMMA FilesRefs ==
  ASSUME TypeOK, RefsInv, NEW p \in Procs, FileRefs', FileShape', CallShape(p)', UsesEnd(p)',
         \A q \in Procs \ {p} : /\ call'[q] = call[q] /\ ofile'[q] = ofile[q]
                                /\ st'[q] = "unused" => st[q] = "unused",
         \A q \in Procs \ {p} : call[q].pc = "pipe" =>
           \A f \in {call[q].rf, call[q].wf} : f # 0 /\ Fresh(f) => file'[f].ref = 1 /\ file'[f].type = "none",
         \A q \in Procs \ {p} : \A fd \in Fds : ofile[q][fd] # 0 =>
           /\ file'[ofile[q][fd]].pipe = file[ofile[q][fd]].pipe
           /\ file'[ofile[q][fd]].writable = file[ofile[q][fd]].writable
  PROVE  RefsInv'
<1>1. ASSUME NEW q \in Procs \ {p} PROVE CallShape(q)' /\ UsesEnd(q)'
  <2>1. CallShape(q)'
    BY CallShapeFrame DEF RefsInv
  <2>2. UsesEnd(q)'
    BY UsesEndFrame DEF RefsInv
  <2> QED BY <2>1, <2>2
<1> QED BY <1>1 DEF RefsInv

LEMMA SysPipeEffect ==
  ASSUME TypeOK, RefsInv, NEW p \in Procs, SysPipe(p)
  PROVE  \E f \in Files :
           /\ file[f].ref = 0 /\ file' = [file EXCEPT ![f].ref = 1]
           /\ st[p] = "running" /\ call[p].pc = "user" /\ call[p].rf = 0 /\ call[p].wf = 0
           /\ call' \in [Procs -> Calls] /\ \A q \in Procs \ {p} : call'[q] = call[q]
           /\ call'[p].pc = "pipe" /\ call'[p].rf = f /\ call'[p].wf = 0
           /\ UNCHANGED <<ofile, pipe, st, chan, killed, torn>>
<1> DEFINE f == Min(FreeFiles)
<1>1. At(p, "user") /\ FreeFiles # {} /\ UNCHANGED <<ofile, pipe, st, chan, killed, torn>>
  BY DEF SysPipe, Starts, procVars
<1>2. f \in Files /\ file[f].ref = 0
  BY <1>1, FreeFilePicked
<1>3. file' = [file EXCEPT ![f].ref = 1] /\ Takes(p, "pipe", f)
  BY DEF SysPipe, Takes
<1> HIDE DEF f
<1>4. st[p] = "running" /\ call[p].pc = "user" /\ call[p].rf = 0 /\ call[p].wf = 0
  BY <1>1, AtRunning, NoFiles
<1>5. /\ call' \in [Procs -> Calls] /\ \A q \in Procs \ {p} : call'[q] = call[q]
      /\ call'[p].pc = "pipe" /\ call'[p].rf = f /\ call'[p].wf = call[p].wf
  BY <1>2, <1>3, TakeEffect DEF PCs
<1> QED BY <1>1, <1>2, <1>3, <1>4, <1>5

\* A fresh file changes no other file; nobody has it.
LEMMA FreshOther ==
  ASSUME TypeOK, RefsInv, NEW f \in Files, file[f].ref = 0, file' = [file EXCEPT ![f].ref = 1], ofile' = ofile
  PROVE  /\ file' \in [Files -> FileRecs] /\ \A g \in Files \ {f} : file'[g] = file[g]
         /\ file'[f].ref = 1 /\ file'[f].type = "none"
         /\ \A g \in Files : file'[g].type = file[g].type /\ file'[g].pipe = file[g].pipe
                             /\ file'[g].writable = file[g].writable
         /\ FileShape'
         /\ \A g : g # 0 /\ g \in Files /\ Fresh(g) => file'[g].ref = 1 /\ file'[g].type = "none"
<1>1. file[f].type = "none"
  BY DEF RefsInv, FileShape
<1>2. /\ file' \in [Files -> FileRecs] /\ \A g \in Files \ {f} : file'[g] = file[g]
      /\ file'[f].ref = 1 /\ file'[f].type = file[f].type /\ file'[f].pipe = file[f].pipe
      /\ file'[f].writable = file[f].writable
  BY FileAllocEffect
<1>3. \A g \in Files : file'[g].type = file[g].type /\ file'[g].pipe = file[g].pipe
                       /\ file'[g].writable = file[g].writable
  BY <1>2
<1>4. \A g \in Files : g = f \/ file'[g].ref = file[g].ref
  BY <1>2
<1>5. FileShape'
  <2>1. \A g \in Files : /\ file'[g].ref = 0 => file'[g].type = "none"
                         /\ file'[g].type = "pipe" => file'[g].pipe \in Pipes
    BY <1>2, <1>3, <1>4 DEF RefsInv, FileShape
  <2>2. ASSUME NEW q \in Procs, NEW fd \in Fds, ofile'[q][fd] # 0
        PROVE  file'[ofile'[q][fd]].type = "pipe"
    <3>1. ofile[q][fd] \in Files /\ file[ofile[q][fd]].type = "pipe"
      BY <2>2, Typed DEF RefsInv, FileShape
    <3> QED BY <1>3, <3>1
  <2> QED BY <2>1, <2>2 DEF FileShape
<1>6. \A g : g # 0 /\ g \in Files /\ Fresh(g) => file'[g].ref = 1 /\ file'[g].type = "none"
  BY <1>1, <1>2, <1>4, <1>3 DEF Fresh
<1> QED BY <1>1, <1>2, <1>3, <1>5, <1>6

LEMMA FreshFileRefs ==
  ASSUME TypeOK, RefsInv, NEW p \in Procs, NEW f \in Files, NEW k \in {0, NOFILE + 1},
         file[f].ref = 0, file' = [file EXCEPT ![f].ref = 1],
         call' \in [Procs -> Calls], \A q \in Procs \ {p} : call'[q] = call[q],
         call'[p].pc = "pipe", Held(p, k) = 0, Held(p, k)' = f, \A m \in Places \ {k} : Held(p, m)' = Held(p, m),
         call'[p].rf # 0, call'[p].rf # f => Fresh(call'[p].rf), call'[p].wf # f => call'[p].wf = 0,
         st[p] = "running", UNCHANGED <<ofile, st>>
  PROVE  RefsInv'
<1>1. /\ file' \in [Files -> FileRecs] /\ \A g \in Files \ {f} : file'[g] = file[g]
      /\ file'[f].ref = 1 /\ file'[f].type = "none" /\ FileShape'
      /\ \A g \in Files : file'[g].pipe = file[g].pipe /\ file'[g].writable = file[g].writable
      /\ \A g : g # 0 /\ g \in Files /\ Fresh(g) => file'[g].ref = 1 /\ file'[g].type = "none"
  BY FreshOther
<1>2. \A q \in Procs \ {p}, m \in Places : Held(q, m)' = Held(q, m)
  BY HeldSame
<1>3. \A q \in Procs, m \in Places : <<q, m>> # <<p, k>> => Held(q, m)' = Held(q, m)
  BY <1>2
<1>4. FileRefs'
  BY <1>1, <1>3, RefsPut, Sizes DEF RefsInv
<1>5. call'[p].rf \in Files /\ call'[p].wf \in Files \union {0}
  BY DEF Calls
<1>6. CallShape(p)'
  BY <1>1, <1>5 DEF CallShape, Fresh
<1>7. UsesEnd(p)'
  BY NotInPipe DEF Reading, Sending
<1>8. \A q \in Procs \ {p} : call[q].pc = "pipe" =>
        \A g \in {call[q].rf, call[q].wf} : g # 0 /\ Fresh(g) => file'[g].ref = 1 /\ file'[g].type = "none"
  BY <1>1, Typed
<1>9. \A q \in Procs \ {p} : \A fd \in Fds : ofile[q][fd] # 0 =>
           /\ file'[ofile[q][fd]].pipe = file[ofile[q][fd]].pipe
           /\ file'[ofile[q][fd]].writable = file[ofile[q][fd]].writable
  BY <1>1, Typed
<1> QED BY <1>1, <1>4, <1>6, <1>7, <1>8, <1>9, FilesRefs

LEMMA SysPipeRefs == ASSUME TypeOK, RefsInv, NEW p \in Procs, SysPipe(p) PROVE TypeOK' /\ RefsInv'
<1>1. PICK f \in Files :
           /\ file[f].ref = 0 /\ file' = [file EXCEPT ![f].ref = 1]
           /\ st[p] = "running" /\ call[p].pc = "user" /\ call[p].rf = 0 /\ call[p].wf = 0
           /\ call' \in [Procs -> Calls] /\ \A q \in Procs \ {p} : call'[q] = call[q]
           /\ call'[p].pc = "pipe" /\ call'[p].rf = f /\ call'[p].wf = 0
           /\ UNCHANGED <<ofile, pipe, st, chan, killed, torn>>
  BY SysPipeEffect
<1>2. Held(p, 0) = 0 /\ Held(p, 0)' = f /\ \A m \in Places \ {0} : Held(p, m)' = Held(p, m)
  BY <1>1, Sizes DEF Held
<1>3. f # 0
  BY Sizes
<1>4. RefsInv'
  BY <1>1, <1>2, <1>3, FreshFileRefs, Sizes
<1>5. file' \in [Files -> FileRecs]
  BY <1>1, FreshOther
<1> QED BY <1>1, <1>4, <1>5 DEF TypeOK

LEMMA PipeFileEffect ==
  ASSUME TypeOK, RefsInv, NEW p \in Procs, PipeFile(p)
  PROVE  /\ st[p] = "running" /\ call[p].pc = "pipe" /\ call[p].wf = 0
         /\ call' \in [Procs -> Calls] /\ \A q \in Procs \ {p} : call'[q] = call[q]
         /\ call'[p].rf = call[p].rf /\ UNCHANGED <<ofile, pipe, st, chan, killed, torn>>
         /\ \/ \E f \in Files : /\ file[f].ref = 0 /\ file' = [file EXCEPT ![f].ref = 1]
                                /\ call'[p].pc = "pipe" /\ call'[p].wf = f
            \/ file' = file /\ call'[p].pc = "close" /\ call'[p].wf = 0
<1>1. At(p, "pipe") /\ call[p].wf = 0 /\ UNCHANGED <<ofile, pipe, st, chan, killed, torn>>
  BY DEF PipeFile, procVars
<1>2. CASE FreeFiles # {}
  <2> DEFINE f == Min(FreeFiles)
  <2>1. f \in Files /\ file[f].ref = 0
    BY <1>2, FreeFilePicked
  <2>2. file' = [file EXCEPT ![f].ref = 1] /\ call' = [call EXCEPT ![p].wf = f]
    BY <1>2 DEF PipeFile
  <2> HIDE DEF f
  <2>3. /\ call' \in [Procs -> Calls] /\ \A q \in Procs \ {p} : call'[q] = call[q]
        /\ call'[p].pc = call[p].pc /\ call'[p].rf = call[p].rf /\ call'[p].wf = f
    BY <2>1, <2>2, WfEffect
  <2> QED BY <1>1, <2>1, <2>2, <2>3, AtRunning, ZenonT(30)
<1>3. CASE FreeFiles = {}
  <2>1. file' = file /\ call' = [call EXCEPT ![p].pc = "close"]
    BY <1>3 DEF PipeFile
  <2>2. /\ call' \in [Procs -> Calls] /\ \A q \in Procs \ {p} : call'[q] = call[q]
        /\ call'[p].pc = "close" /\ call'[p].rf = call[p].rf /\ call'[p].wf = call[p].wf
    BY <2>1, GotoEffect DEF PCs
  <2> QED BY <1>1, <2>1, <2>2, AtRunning
<1> QED BY <1>2, <1>3

LEMMA PipeFileRefs == ASSUME TypeOK, RefsInv, NEW p \in Procs, PipeFile(p) PROVE TypeOK' /\ RefsInv'
<1>1. /\ st[p] = "running" /\ call[p].pc = "pipe" /\ call[p].wf = 0
      /\ call' \in [Procs -> Calls] /\ \A q \in Procs \ {p} : call'[q] = call[q]
      /\ call'[p].rf = call[p].rf /\ UNCHANGED <<ofile, pipe, st, chan, killed, torn>>
  BY PipeFileEffect
<1>2. call[p].rf # 0 /\ Fresh(call[p].rf)
  BY <1>1 DEF RefsInv, CallShape
<1>3. CASE file' = file /\ call'[p].pc = "close" /\ call'[p].wf = 0
  <2>1. CallShape(p)' /\ UsesEnd(p)'
    BY <1>1, <1>2, <1>3, NotInPipe DEF CallShape, Reading, Sending
  <2>2. RefsInv'
    BY <1>1, <1>3, <2>1, QuietRefs
  <2> QED BY <1>1, <1>3, <2>2 DEF TypeOK
<1>4. ASSUME NEW f \in Files, file[f].ref = 0, file' = [file EXCEPT ![f].ref = 1],
             call'[p].pc = "pipe", call'[p].wf = f
      PROVE  TypeOK' /\ RefsInv'
  <2>1. Held(p, NOFILE + 1) = 0 /\ Held(p, NOFILE + 1)' = f
        /\ \A m \in Places \ {NOFILE + 1} : Held(p, m)' = Held(p, m)
    BY <1>1, <1>4, Sizes DEF Held
  <2>2. RefsInv'
    BY <1>1, <1>2, <1>4, <2>1, FreshFileRefs
  <2>3. file' \in [Files -> FileRecs]
    BY <1>1, <1>4, FreshOther
  <2> QED BY <1>1, <2>2, <2>3 DEF TypeOK
<1> QED BY <1>3, <1>4, PipeFileEffect

Empties(p, fd) == ofile' = [ofile EXCEPT ![p][fd] = 0]

\* A file leaves descriptor fd for the call that closes it.
LEMMA CloseRefs ==
  ASSUME TypeOK, RefsInv, NEW p \in Procs, NEW fd \in Fds, ofile[p][fd] # 0,
         st[p] = "running", call[p].pc \notin {"pipe", "close", "pipeclose"},
         Empties(p, fd), Takes(p, "close", ofile[p][fd]),
         UNCHANGED <<file, pipe, st, chan, killed, torn>>
  PROVE  TypeOK' /\ RefsInv'
<1> DEFINE f == ofile[p][fd]
<1>1. f \in Files /\ f # 0
  BY Typed
<1>2. call[p].rf = 0 /\ call[p].wf = 0
  BY NoFiles
<1>3. /\ call' \in [Procs -> Calls] /\ \A q \in Procs \ {p} : call'[q] = call[q]
      /\ call'[p].pc = "close" /\ call'[p].rf = f /\ call'[p].wf = call[p].wf
  BY <1>1, TakeEffect DEF PCs
<1>4. /\ ofile' \in [Procs -> [Fds -> Files \union {0}]] /\ \A q \in Procs \ {p} : ofile'[q] = ofile[q]
      /\ ofile'[p][fd] = 0 /\ \A m \in Fds \ {fd} : ofile'[p][m] = ofile[p][m]
  BY DEF TypeOK, Empties
<1>5. fd \in Places /\ 0 \in Places /\ fd # 0 /\ Held(p, fd) = f /\ Held(p, 0) = 0
      /\ Held(p, fd)' = 0 /\ Held(p, 0)' = f
  BY <1>2, <1>3, <1>4, PlaceHeld, PlaceHeldNext, Sizes
<1>6. \A q \in Procs, m \in Places : (q # p \/ m \notin {fd, 0}) => Held(q, m)' = Held(q, m)
  <2>1. \A q \in Procs \ {p}, m \in Places : Held(q, m)' = Held(q, m)
    BY <1>3, <1>4, HeldSame
  <2>2. \A m \in Places \ {fd, 0} : Held(p, m)' = Held(p, m)
    BY <1>3, <1>4, PlaceHeld, PlaceHeldNext, Sizes
  <2> QED BY <2>1, <2>2
<1> HIDE DEF f
<1>7. ASSUME NEW g \in Files PROVE Cardinality(Uses(g)') = Cardinality(Uses(g))
  <2>1. CASE g = f
    BY <1>1, <1>5, <1>6, <2>1, UsesMove
  <2>2. CASE g # f
    <3>1. \A q \in Procs, m \in Places : (Held(q, m) = g)' <=> Held(q, m) = g
      BY <1>5, <1>6, <2>2, Sizes
    <3> QED BY <3>1, UsesSame
  <2> QED BY <2>1, <2>2
<1>8. FileRefs'
  BY <1>7 DEF RefsInv, FileRefs, Uses
<1>9. FileShape'
  <2>1. \A q \in Procs, m \in Fds : ofile'[q][m] = 0 \/ ofile'[q][m] = ofile[q][m]
    BY <1>4
  <2> QED BY <2>1 DEF RefsInv, FileShape
<1>10. CallShape(p)' /\ UsesEnd(p)'
  BY <1>1, <1>2, <1>3, NotInPipe DEF CallShape, Reading, Sending
<1>11. RefsInv'
  BY <1>3, <1>4, <1>8, <1>9, <1>10, FilesRefs DEF Fresh
<1> QED BY <1>3, <1>4, <1>11 DEF TypeOK

LEMMA sys_closeRefs ==
  ASSUME TypeOK, RefsInv, NEW p \in Procs, NEW fd \in Fds, sys_close(p, fd)
  PROVE  TypeOK' /\ RefsInv'
<1>1. At(p, "user") /\ ofile[p][fd] # 0 /\ UNCHANGED <<file, pipe, st, chan, killed, torn>>
  BY DEF sys_close, Starts, procVars
<1>2. Empties(p, fd) /\ Takes(p, "close", ofile[p][fd])
  BY DEF sys_close, Empties, Takes
<1> QED BY <1>1, <1>2, CloseRefs, AtRunning

LEMMA ExitCloseRefs == ASSUME TypeOK, RefsInv, NEW p \in Procs, ExitClose(p) PROVE TypeOK' /\ RefsInv'
<1> DEFINE fd == Min(Fds \ FreeFds(p))
<1>1. fd \in Fds /\ ofile[p][fd] # 0
  BY UsedFdFirst DEF ExitClose
<1>2. /\ At(p, "exit") /\ Empties(p, fd) /\ Takes(p, "close", ofile[p][fd])
      /\ UNCHANGED <<file, pipe, st, chan, killed, torn>>
  BY DEF ExitClose, Takes, Empties, procVars
<1> HIDE DEF fd
<1> QED BY <1>1, <1>2, CloseRefs, AtRunning

LEMMA filedupFields ==
  ASSUME NEW x \in FileRecs, NEW k \in Nat
  PROVE  /\ filedup(x, k) \in FileRecs /\ filedup(x, k).ref = x.ref + k /\ filedup(x, k).type = x.type
         /\ filedup(x, k).pipe = x.pipe /\ filedup(x, k).writable = x.writable
<1> DEFINE n == x.ref + k
<1>1. filedup(x, k) = [x EXCEPT !.ref = n] /\ n \in Nat
  BY DEF filedup, FileRecs
<1> HIDE DEF n
<1>2. [x EXCEPT !.ref = n] \in FileRecs
  BY <1>1 DEF FileRecs
<1>3. LET y == [x EXCEPT !.ref = n] IN y.ref = n /\ y.type = x.type /\ y.pipe = x.pipe /\ y.writable = x.writable
  BY <1>1 DEF FileRecs
<1> QED BY <1>1, <1>2, <1>3 DEF n

\* Descriptor m of p gets another reference to f.
Dups(p, f, m) == file' = [file EXCEPT ![f] = filedup(file[f], 1)] /\ ofile' = [ofile EXCEPT ![p][m] = f]

LEMMA sys_dupRefs ==
  ASSUME TypeOK, RefsInv, NEW p \in Procs, NEW fd \in Fds, sys_dup(p, fd)
  PROVE  /\ TypeOK' /\ RefsInv'
         /\ \A g \in Files : /\ file'[g].type = file[g].type /\ file'[g].pipe = file[g].pipe
                             /\ file'[g].writable = file[g].writable
<1>1. /\ At(p, "user") /\ ofile[p][fd] # 0 /\ FreeFds(p) # {}
      /\ UNCHANGED <<pipe, st, chan, killed, call, torn>>
  BY DEF sys_dup, Starts, procVars
<1>2. PICK m \in Fds, f \in Files : Dups(p, f, m) /\ ofile[p][m] = 0 /\ file[f].type = "pipe"
  <2>1. Min(FreeFds(p)) \in Fds /\ ofile[p][Min(FreeFds(p))] = 0
    BY <1>1, FreeFdFirst
  <2>2. ofile[p][fd] \in Files /\ file[ofile[p][fd]].type = "pipe"
    BY <1>1, Typed DEF RefsInv, FileShape
  <2>3. Dups(p, ofile[p][fd], Min(FreeFds(p)))
    BY DEF sys_dup, Dups
  <2> QED BY <2>1, <2>2, <2>3
<1>3. file' = [file EXCEPT ![f] = filedup(file[f], 1)] /\ ofile' = [ofile EXCEPT ![p][m] = f]
  BY <1>2 DEF Dups
<1>5. /\ filedup(file[f], 1) \in FileRecs /\ filedup(file[f], 1).ref = file[f].ref + 1
      /\ filedup(file[f], 1).type = file[f].type
      /\ filedup(file[f], 1).pipe = file[f].pipe /\ filedup(file[f], 1).writable = file[f].writable
  BY <1>2, filedupFields, TypedFile
<1>6. /\ ofile' \in [Procs -> [Fds -> Files \union {0}]] /\ \A q \in Procs \ {p} : ofile'[q] = ofile[q]
      /\ ofile'[p][m] = f /\ \A j \in Fds \ {m} : ofile'[p][j] = ofile[p][j]
  BY <1>2, <1>3 DEF TypeOK
<1>7. file' \in [Files -> FileRecs] /\ \A g \in Files \ {f} : file'[g] = file[g] /\ file'[f] = filedup(file[f], 1)
  BY <1>2, <1>3, <1>5 DEF TypeOK
<1>8. \A g \in Files : /\ file'[g].type = file[g].type /\ file'[g].pipe = file[g].pipe
                       /\ file'[g].writable = file[g].writable
  BY <1>2, <1>3, <1>5, <1>7 DEF TypeOK
<1>9. file'[f].ref = file[f].ref + 1
  BY <1>2, <1>3, <1>5 DEF TypeOK
<1>10. FileRefs'
  <2>1. m \in Places /\ Held(p, m) = 0 /\ Held(p, m)' = f
    BY <1>2, <1>6, PlaceHeld, PlaceHeldNext, Sizes
  <2>2. \A q \in Procs \ {p}, j \in Places : Held(q, j)' = Held(q, j)
    BY <1>1, <1>6, HeldSame
  <2>3. \A j \in Places \ {m} : Held(p, j)' = Held(p, j)
    BY <1>1, <1>6, PlaceHeld, PlaceHeldNext, Sizes
  <2>4. \A q \in Procs, j \in Places : <<q, j>> # <<p, m>> => Held(q, j)' = Held(q, j)
    BY <2>2, <2>3
  <2> QED BY <1>2, <1>7, <1>9, <2>1, <2>4, RefsPut DEF RefsInv
<1>11. FileShape'
  <2>1. \A g \in Files : g = f \/ file'[g].ref = file[g].ref
    BY <1>7
  <2>2. \A g \in Files : /\ file'[g].ref = 0 => file'[g].type = "none"
                         /\ file'[g].type = "pipe" => file'[g].pipe \in Pipes
    BY <1>2, <1>8, <1>9, <2>1, TypedFile DEF RefsInv, FileShape
  <2>3. ASSUME NEW q \in Procs, NEW j \in Fds, ofile'[q][j] # 0
        PROVE  file'[ofile'[q][j]].type = "pipe"
    <3>1. CASE q = p /\ j = m
      BY <1>2, <1>6, <1>8, <3>1
    <3>2. CASE ~(q = p /\ j = m)
      <4>1. ofile'[q][j] = ofile[q][j]
        BY <1>6, <3>2
      <4>2. ofile[q][j] \in Files /\ file[ofile[q][j]].type = "pipe"
        BY <2>3, <4>1, Typed DEF RefsInv, FileShape
      <4> QED BY <1>8, <4>1, <4>2
    <3> QED BY <3>1, <3>2
  <2> QED BY <2>2, <2>3 DEF FileShape
<1>12. CallShape(p)' /\ UsesEnd(p)'
  BY <1>1, AtRunning, NoFiles, PlainCall, NotInPipe DEF Reading, Sending
<1>13. \A q \in Procs \ {p} : call[q].pc = "pipe" =>
         \A g \in {call[q].rf, call[q].wf} : g # 0 /\ Fresh(g) => file'[g].ref = 1 /\ file'[g].type = "none"
  <2>1. \A g \in Files : Fresh(g) => file'[g].ref = 1 /\ file'[g].type = "none"
    BY <1>2, <1>7 DEF Fresh
  <2> QED BY <2>1, Typed
<1>14. \A q \in Procs \ {p} : \A j \in Fds : ofile[q][j] # 0 =>
           /\ file'[ofile[q][j]].pipe = file[ofile[q][j]].pipe
           /\ file'[ofile[q][j]].writable = file[ofile[q][j]].writable
  BY <1>8, Typed
<1>15. RefsInv'
  BY <1>1, <1>6, <1>10, <1>11, <1>12, <1>13, <1>14, FilesRefs
<1> QED BY <1>1, <1>6, <1>7, <1>8, <1>15 DEF TypeOK

LEMMA kforkRefs ==
  ASSUME TypeOK, RefsInv, NEW p \in Procs, NEW c \in Procs, kfork(p, c)
  PROVE  /\ TypeOK' /\ RefsInv'
         /\ \A g \in Files : /\ file'[g].type = file[g].type /\ file'[g].pipe = file[g].pipe
                             /\ file'[g].writable = file[g].writable
<1> DEFINE uses(f) == Cardinality({fd \in Fds : ofile[p][fd] = f})
<1>1. At(p, "user") /\ st[c] = "unused" /\ UNCHANGED <<pipe, chan, killed, call, torn>>
  BY DEF kfork, Starts
<1>2. p # c /\ call[c].pc = "user" /\ \A fd \in Fds : ofile[c][fd] = 0
  BY <1>1 DEF At, RefsInv, CallShape
<1>3. call[c].rf = 0 /\ call[c].wf = 0
  BY <1>2, NoFiles
<1>4. \A f \in Files : uses(f) \in Nat
  <2>1. IsFiniteSet(Fds)
    BY PipeAssumption, FS_Interval DEF Fds
  <2> QED BY <2>1, FS_Subset, FS_CardinalityType
<1>5. file' = [f \in Files |-> IF uses(f) = 0 THEN file[f] ELSE filedup(file[f], uses(f))]
  BY DEF kfork
<1>6. ofile' = [ofile EXCEPT ![c] = ofile[p]] /\ st' = [st EXCEPT ![c] = "running"]
  BY DEF kfork
<1> HIDE DEF uses
<1>7. ASSUME NEW f \in Files
      PROVE  /\ file'[f] \in FileRecs /\ file'[f].ref = file[f].ref + uses(f) /\ file'[f].type = file[f].type
             /\ file'[f].pipe = file[f].pipe /\ file'[f].writable = file[f].writable
  <2>1. CASE uses(f) = 0
    BY <1>5, <2>1, TypedFile
  <2>2. CASE uses(f) # 0
    <3>1. PICK n \in Nat : n = uses(f)
      BY <1>4
    <3>2. file'[f] = filedup(file[f], n)
      BY <1>5, <2>2, <3>1
    <3>3. PICK x \in FileRecs : x = file[f]
      BY TypedFile
    <3>4. filedup(x, n) \in FileRecs /\ filedup(x, n).ref = x.ref + n /\ filedup(x, n).type = x.type
      BY filedupFields
    <3>5. filedup(x, n).pipe = x.pipe /\ filedup(x, n).writable = x.writable
      BY filedupFields
    <3>6. file'[f] = filedup(x, n)
      BY <3>2, <3>3
    <3> QED BY <3>1, <3>3, <3>4, <3>5, <3>6
  <2> QED BY <2>1, <2>2
<1>8. file' \in [Files -> FileRecs]
  <2>1. \A f \in Files : file'[f] \in FileRecs
    BY <1>7
  <2>2. file' = [f \in Files |-> file'[f]]
    BY <1>5
  <2> QED BY <2>1, <2>2
<1>9. /\ ofile' \in [Procs -> [Fds -> Files \union {0}]] /\ \A q \in Procs \ {c} : ofile'[q] = ofile[q]
      /\ ofile'[c] = ofile[p]
      /\ st' \in [Procs -> {"running", "sleeping", "unused"}] /\ st'[c] = "running"
      /\ \A q \in Procs \ {c} : st'[q] = st[q]
  BY <1>6 DEF TypeOK
<1>10. FileRefs'
  <2>1. ASSUME NEW f \in Files PROVE Cardinality(Uses(f)') = Cardinality(Uses(f)) + uses(f)
    <3>1. \A k \in Places : Held(c, k) # f
      BY <1>2, <1>3, PlaceHeld, Sizes
    <3>2. \A fd \in Fds : (Held(c, fd) = f)' <=> ofile[p][fd] = f
      BY <1>9, PlaceHeldNext
    <3>3. Held(c, 0)' # f /\ Held(c, NOFILE + 1)' # f
      BY <1>1, <1>3, PlaceHeldNext, Sizes
    <3>4. \A q \in Procs \ {c}, k \in Places : (Held(q, k) = f)' <=> Held(q, k) = f
      BY <1>1, <1>9, HeldSame
    <3> QED BY <3>1, <3>2, <3>3, <3>4, UsesFork DEF uses
  <2>2. \A f \in Files : file'[f].ref = Cardinality(Uses(f)')
    BY <1>7, <2>1 DEF RefsInv, FileRefs, Uses
  <2> QED BY <2>2 DEF FileRefs, Uses
<1>11. FileShape'
  <2>1. \A g \in Files : /\ file'[g].ref = 0 => file'[g].type = "none"
                         /\ file'[g].type = "pipe" => file'[g].pipe \in Pipes
    BY <1>4, <1>7, TypedFile DEF RefsInv, FileShape
  <2>2. ASSUME NEW q \in Procs, NEW j \in Fds, ofile'[q][j] # 0
        PROVE  file'[ofile'[q][j]].type = "pipe"
    <3>1. PICK r \in Procs : ofile'[q] = ofile[r]
      BY <1>9
    <3>2. ofile[r][j] \in Files /\ file[ofile[r][j]].type = "pipe"
      BY <2>2, <3>1, Typed DEF RefsInv, FileShape
    <3> QED BY <1>7, <3>1, <3>2
  <2> QED BY <2>1, <2>2 DEF FileShape
<1>12. CallShape(c)' /\ UsesEnd(c)'
  BY <1>1, <1>2, <1>3, <1>9, PlainCall, NotInPipe DEF Reading, Sending
<1>13. \A q \in Procs \ {c} : call[q].pc = "pipe" =>
         \A g \in {call[q].rf, call[q].wf} : g # 0 /\ Fresh(g) => file'[g].ref = 1 /\ file'[g].type = "none"
  <2>1. ASSUME NEW g \in Files, Fresh(g) PROVE file'[g].ref = 1 /\ file'[g].type = "none"
    <3>1. \A fd \in Fds : ofile[p][fd] # g
      BY <2>1, Sizes DEF Fresh, RefsInv, FileShape
    <3>2. uses(g) = 0
      BY <3>1, FS_EmptySet DEF uses
    <3> QED BY <1>7, <2>1, <3>2 DEF Fresh
  <2> QED BY <2>1, Typed
<1>14. \A q \in Procs \ {c} : \A j \in Fds : ofile[q][j] # 0 =>
           /\ file'[ofile[q][j]].pipe = file[ofile[q][j]].pipe
           /\ file'[ofile[q][j]].writable = file[ofile[q][j]].writable
  BY <1>7, Typed
<1>15. RefsInv'
  BY <1>1, <1>9, <1>10, <1>11, <1>12, <1>13, <1>14, FilesRefs
<1> QED BY <1>1, <1>7, <1>8, <1>9, <1>15 DEF TypeOK

\* The call of fileclose() without the file it closes, and on its way to pipeclose().
Without(c, isRf) == [c EXCEPT !.rf = 0, !.wf = IF isRf THEN c.wf ELSE 0]
ToPipeclose(c, x) == [c EXCEPT !.pc = "pipeclose", !.pi = x.pipe, !.w = x.writable]

LEMMA WithoutFields ==
  ASSUME NEW c \in Calls, NEW r
  PROVE  Without(c, r) \in Calls /\ Without(c, r).rf = 0 /\ Without(c, r).wf = IF r THEN c.wf ELSE 0
<1> DEFINE d == [c EXCEPT !.rf = 0]
           v == IF r THEN c.wf ELSE 0
<1>1. d \in Calls /\ d.rf = 0 /\ d.wf = c.wf
  BY DEF Calls
<1>2. v \in Files \union {0}
  BY DEF Calls
<1>3. Without(c, r) = [d EXCEPT !.wf = v]
  BY DEF Without
<1> HIDE DEF d, v
<1>4. [d EXCEPT !.wf = v] \in Calls /\ [d EXCEPT !.wf = v].rf = d.rf /\ [d EXCEPT !.wf = v].wf = v
  BY <1>1, <1>2 DEF Calls
<1> QED BY <1>1, <1>3, <1>4 DEF v

LEMMA ToPipecloseFields ==
  ASSUME NEW c \in Calls, NEW x \in FileRecs
  PROVE  LET d == ToPipeclose(c, x) IN
         d \in Calls /\ d.rf = c.rf /\ d.wf = c.wf /\ d.pc = "pipeclose" /\ d.pi = x.pipe /\ d.w = x.writable
<1> DEFINE d1 == [c EXCEPT !.pc = "pipeclose"]
           y == x.pipe
           d2 == [d1 EXCEPT !.pi = y]
           t == x.writable
           d3 == [d2 EXCEPT !.w = t]
<1>1. d1 \in Calls /\ d1.pc = "pipeclose" /\ d1.rf = c.rf /\ d1.wf = c.wf
  BY DEF Calls, PCs
<1>2. y \in Pipes \union {0} /\ t \in BOOLEAN
  BY DEF FileRecs
<1>3. ToPipeclose(c, x) = d3
  BY DEF ToPipeclose
<1> HIDE DEF d1, y, t
<1>4. d2 \in Calls /\ d2.pc = d1.pc /\ d2.rf = d1.rf /\ d2.wf = d1.wf /\ d2.pi = y
  BY <1>1, <1>2 DEF Calls
<1> HIDE DEF d2
<1>5. d3 \in Calls /\ d3.pc = d2.pc /\ d3.rf = d2.rf /\ d3.wf = d2.wf /\ d3.pi = d2.pi /\ d3.w = t
  BY <1>2, <1>4 DEF Calls
<1> HIDE DEF d3
<1> QED BY <1>1, <1>3, <1>4, <1>5 DEF y, t

LEMMA ClosedFields ==
  ASSUME NEW x \in FileRecs, x.ref >= 1
  PROVE  /\ Closed(x) \in FileRecs /\ Closed(x).ref = x.ref - 1
         /\ x.ref > 1 => Closed(x).type = x.type /\ Closed(x).pipe = x.pipe /\ Closed(x).writable = x.writable
         /\ x.ref = 1 => Closed(x).type = "none"
<1>1. CASE x.ref > 1
  <2> DEFINE n == x.ref - 1
  <2>1. n \in Nat /\ Closed(x) = [x EXCEPT !.ref = n]
    BY <1>1 DEF Closed, FileRecs
  <2> HIDE DEF n
  <2>2. /\ Closed(x) \in FileRecs /\ Closed(x).ref = n
        /\ Closed(x).type = x.type /\ Closed(x).pipe = x.pipe /\ Closed(x).writable = x.writable
    BY <2>1 DEF FileRecs
  <2> QED BY <1>1, <2>2 DEF n
<1>2. CASE x.ref = 1
  <2>1. Closed(x) = NoFile
    BY <1>2 DEF Closed
  <2>2. NoFile \in FileRecs /\ NoFile.ref = 0 /\ NoFile.type = "none"
    BY DEF NoFile, FileRecs
  <2> QED BY <1>2, <2>1, <2>2
<1>3. x.ref \in Nat
  BY DEF FileRecs
<1> QED BY <1>1, <1>2, <1>3

\* The file f that p's call has at k loses a reference; with the last one of an end of a
\* pipe pipeclose() follows.
Drops(p, f, k) ==
  /\ f \in Files /\ k \in {0, NOFILE + 1} /\ Held(p, k) = f /\ st[p] = "running" /\ call[p].pc = "close"
  /\ file[f].ref >= 1 /\ file' = [file EXCEPT ![f] = Closed(file[f])]
  /\ call' \in [Procs -> Calls] /\ \A q \in Procs \ {p} : call'[q] = call[q]
  /\ call'[p].rf = 0 /\ call'[p].wf = (IF k = 0 THEN call[p].wf ELSE 0) /\ (k # 0 => call[p].rf = 0)
  /\ \/ /\ file[f].ref > 1 \/ file[f].type = "none"
        /\ call'[p].pc \in {"close", "exit", "user"} /\ (call'[p].pc = "close" <=> call'[p].wf # 0)
     \/ /\ file[f].ref = 1 /\ file[f].type = "pipe"
        /\ call'[p].pc = "pipeclose" /\ call'[p].pi = file[f].pipe /\ call'[p].w = file[f].writable

LEMMA filecloseEffect ==
  ASSUME TypeOK, RefsInv, NEW p \in Procs, fileclose(p)
  PROVE  /\ UNCHANGED <<ofile, pipe, st, chan, killed, torn>>
         /\ \E f \in Files, k \in {0, NOFILE + 1} : Drops(p, f, k)
<1> DEFINE r == call[p].rf # 0
           f == IF r THEN call[p].rf ELSE call[p].wf
           k == IF r THEN 0 ELSE NOFILE + 1
           c == Without(call[p], r)
<1>1. UNCHANGED <<ofile, pipe, st, chan, killed, torn>> /\ At(p, "close") /\ file[f].ref >= 1
  BY DEF fileclose, procVars
<1>2. st[p] = "running" /\ call[p].pc = "close"
  BY <1>1, AtRunning
<1>3. f \in Files /\ k \in {0, NOFILE + 1} /\ Held(p, k) = f /\ (k # 0 => call[p].rf = 0) /\ (k = 0 <=> r)
  BY <1>2, Typed, PlaceHeld, Sizes DEF RefsInv, CallShape
<1>4. c \in Calls /\ c.rf = 0 /\ c.wf = IF k = 0 THEN call[p].wf ELSE 0
  BY <1>3, WithoutFields, Typed
<1>5. /\ file' = [file EXCEPT ![f] = Closed(file[f])]
      /\ \/ /\ file[f].ref > 1 \/ file[f].type = "none"
            /\ call' = [call EXCEPT ![p] = Closing(c)]
         \/ /\ file[f].ref = 1 /\ file[f].type = "pipe"
            /\ call' = [call EXCEPT ![p] = ToPipeclose(c, file[f])]
  BY DEF fileclose, Without, ToPipeclose
<1> HIDE DEF r, f, k, c
<1>6. CASE (file[f].ref > 1 \/ file[f].type = "none") /\ call' = [call EXCEPT ![p] = Closing(c)]
  <2>1. /\ Closing(c) \in Calls /\ Closing(c).rf = c.rf /\ Closing(c).wf = c.wf
        /\ Closing(c).pc \in {"close", "exit", "user"} /\ (Closing(c).pc = "close" <=> c.rf # 0 \/ c.wf # 0)
    BY <1>4, ClosingFields
  <2>2. call' \in [Procs -> Calls] /\ call'[p] = Closing(c) /\ \A q \in Procs \ {p} : call'[q] = call[q]
    BY <1>6, <2>1 DEF TypeOK
  <2>3. Drops(p, f, k)
    BY <1>1, <1>2, <1>3, <1>4, <1>5, <1>6, <2>1, <2>2 DEF Drops
  <2> QED BY <1>1, <1>3, <2>3
<1>7. CASE file[f].ref = 1 /\ file[f].type = "pipe" /\ call' = [call EXCEPT ![p] = ToPipeclose(c, file[f])]
  <2> DEFINE d == ToPipeclose(c, file[f])
  <2>1. /\ d \in Calls /\ d.rf = c.rf /\ d.wf = c.wf /\ d.pc = "pipeclose"
        /\ d.pi = file[f].pipe /\ d.w = file[f].writable
    BY <1>3, <1>4, ToPipecloseFields, TypedFile
  <2> HIDE DEF d
  <2>2. call' \in [Procs -> Calls] /\ call'[p] = d /\ \A q \in Procs \ {p} : call'[q] = call[q]
    BY <1>7, <2>1 DEF TypeOK, d
  <2>3. Drops(p, f, k)
    BY <1>1, <1>2, <1>3, <1>4, <1>5, <1>7, <2>1, <2>2 DEF Drops
  <2> QED BY <1>1, <1>3, <2>3
<1> QED BY <1>5, <1>6, <1>7

LEMMA filecloseRefs == ASSUME TypeOK, RefsInv, NEW p \in Procs, fileclose(p) PROVE TypeOK' /\ RefsInv'
<1>1. UNCHANGED <<ofile, pipe, st, chan, killed, torn>>
  BY filecloseEffect
<1>2. PICK f \in Files, k \in {0, NOFILE + 1} : Drops(p, f, k)
  BY filecloseEffect
<1>3. /\ Held(p, k) = f /\ st[p] = "running" /\ call[p].pc = "close" /\ file[f].ref >= 1
      /\ file' = [file EXCEPT ![f] = Closed(file[f])]
      /\ call' \in [Procs -> Calls] /\ \A q \in Procs \ {p} : call'[q] = call[q]
      /\ call'[p].rf = 0 /\ call'[p].wf = (IF k = 0 THEN call[p].wf ELSE 0) /\ (k # 0 => call[p].rf = 0)
  BY <1>2 DEF Drops
<1>4. /\ Closed(file[f]) \in FileRecs /\ Closed(file[f]).ref = file[f].ref - 1
      /\ file[f].ref > 1 => /\ Closed(file[f]).type = file[f].type /\ Closed(file[f]).pipe = file[f].pipe
                            /\ Closed(file[f]).writable = file[f].writable
      /\ file[f].ref = 1 => Closed(file[f]).type = "none"
  BY <1>3, ClosedFields, TypedFile
<1>5. /\ file' \in [Files -> FileRecs] /\ file'[f] = Closed(file[f])
      /\ \A g \in Files \ {f} : file'[g] = file[g]
  BY <1>3, <1>4 DEF TypeOK
<1>6. k \in Places /\ f # 0
  BY Sizes
<1>7. FileRefs'
  <2>1. Held(p, k)' = 0 /\ \A m \in Places \ {k} : Held(p, m)' = Held(p, m)
    BY <1>1, <1>3, PlaceHeld, PlaceHeldNext, Sizes
  <2>2. \A q \in Procs \ {p}, m \in Places : Held(q, m)' = Held(q, m)
    BY <1>1, <1>3, HeldSame
  <2>3. \A q \in Procs, m \in Places : <<q, m>> # <<p, k>> => Held(q, m)' = Held(q, m)
    BY <2>1, <2>2
  <2> QED BY <1>3, <1>4, <1>5, <1>6, <2>1, <2>3, RefsDrop DEF RefsInv
\* With the last reference nobody else has the file.
<1>8. ASSUME file[f].ref = 1, NEW q \in Procs, NEW m \in Places, Held(q, m) = f PROVE q = p /\ m = k
  BY <1>3, <1>6, <1>8, OnlyHolder DEF RefsInv
<1>9. \A q \in Procs, j \in Fds : ofile[q][j] = f => file[f].ref > 1
  <2>1. \A q \in Procs, j \in Fds : Held(q, j) = ofile[q][j] /\ j \in Places /\ j # k
    BY PlaceHeld, Sizes
  <2> QED BY <1>3, <1>8, <2>1, TypedFile
<1>10. \A q \in Procs, j \in Fds : ofile[q][j] # 0 =>
         /\ file'[ofile[q][j]].pipe = file[ofile[q][j]].pipe
         /\ file'[ofile[q][j]].writable = file[ofile[q][j]].writable
         /\ file'[ofile[q][j]].type = file[ofile[q][j]].type
  BY <1>4, <1>5, <1>9, Typed
<1>11. FileShape'
  <2>1. \A g \in Files : /\ file'[g].ref = 0 => file'[g].type = "none"
                         /\ file'[g].type = "pipe" => file'[g].pipe \in Pipes
    <3> TAKE g \in Files
    <3>1. CASE g # f
      BY <1>5, <3>1 DEF RefsInv, FileShape
    <3>2. CASE g = f /\ file[f].ref > 1
      BY <1>4, <1>5, <3>2, TypedFile DEF RefsInv, FileShape
    <3>3. CASE g = f /\ file[f].ref = 1
      BY <1>4, <1>5, <3>3
    <3> QED BY <1>3, <3>1, <3>2, <3>3, TypedFile
  <2>2. \A q \in Procs, j \in Fds : ofile'[q][j] # 0 => file'[ofile'[q][j]].type = "pipe"
    BY <1>1, <1>10 DEF RefsInv, FileShape
  <2> QED BY <2>1, <2>2 DEF FileShape
<1>12. UsesEnd(p)'
  BY <1>2, NotInPipe DEF Drops, Reading, Sending
<1>13. CallShape(p)'
  <2>1. call'[p].pc \in {"close", "exit", "user", "pipeclose"}
    BY <1>2 DEF Drops
  <2>2. call'[p].pc = "pipeclose" => call'[p].pi \in Pipes
    BY <1>2 DEF Drops, RefsInv, FileShape
  <2>3. call'[p].wf # 0 => call'[p].pc \in {"close", "pipeclose"}
    BY <1>2 DEF Drops
  <2>4. call'[p].pc = "close" => call'[p].wf # 0
    BY <1>2 DEF Drops
  <2> QED BY <1>1, <1>3, <2>1, <2>2, <2>3, <2>4 DEF CallShape
<1>14. \A q \in Procs \ {p} : call[q].pc = "pipe" =>
         \A g \in {call[q].rf, call[q].wf} : g # 0 /\ Fresh(g) => file'[g].ref = 1 /\ file'[g].type = "none"
  <2>1. \A q \in Procs \ {p} : file[f].ref = 1 => call[q].rf # f /\ call[q].wf # f
    BY <1>8, PlaceHeld, Sizes
  <2>2. \A g \in Files \ {f} : Fresh(g) => file'[g].ref = 1 /\ file'[g].type = "none"
    BY <1>5 DEF Fresh
  <2> QED BY <2>1, <2>2, Typed DEF Fresh
<1>15. RefsInv'
  BY <1>1, <1>3, <1>7, <1>10, <1>11, <1>12, <1>13, <1>14, FilesRefs
<1> QED BY <1>1, <1>3, <1>5, <1>15 DEF TypeOK

\* pipealloc() has a page: both ends of the pipe are open.
Opened(x) == [x EXCEPT !.alloc = TRUE, !.readopen = TRUE, !.writeopen = TRUE]

LEMMA OpenedFields ==
  ASSUME NEW x \in PipeRecs
  PROVE  /\ Opened(x) \in PipeRecs
         /\ Opened(x).alloc = TRUE /\ Opened(x).readopen = TRUE /\ Opened(x).writeopen = TRUE
         /\ Opened(x).nread = x.nread /\ Opened(x).nwrite = x.nwrite /\ Opened(x).data = x.data
<1>1. ASSUME NEW t \in BOOLEAN
      PROVE  LET y == [x EXCEPT !.alloc = t, !.readopen = t, !.writeopen = t] IN
             /\ y \in PipeRecs /\ y.alloc = t /\ y.readopen = t /\ y.writeopen = t
             /\ y.nread = x.nread /\ y.nwrite = x.nwrite /\ y.data = x.data
  <2> DEFINE y1 == [x EXCEPT !.alloc = t]
             y2 == [y1 EXCEPT !.readopen = t]
             y3 == [y2 EXCEPT !.writeopen = t]
  <2>1. /\ y1 \in PipeRecs /\ y1.alloc = t
        /\ y1.nread = x.nread /\ y1.nwrite = x.nwrite /\ y1.data = x.data
    BY DEF PipeRecs
  <2> HIDE DEF y1
  <2>2. /\ y2 \in PipeRecs /\ y2.alloc = y1.alloc /\ y2.readopen = t
        /\ y2.nread = y1.nread /\ y2.nwrite = y1.nwrite /\ y2.data = y1.data
    BY <2>1 DEF PipeRecs
  <2> HIDE DEF y2
  <2>3. /\ y3 \in PipeRecs /\ y3.alloc = y2.alloc /\ y3.readopen = y2.readopen /\ y3.writeopen = t
        /\ y3.nread = y2.nread /\ y3.nwrite = y2.nwrite /\ y3.data = y2.data
    BY <2>2 DEF PipeRecs
  <2>4. y3 = [x EXCEPT !.alloc = t, !.readopen = t, !.writeopen = t]
    BY DEF y2, y1
  <2> HIDE DEF y3
  <2> QED BY <2>1, <2>2, <2>3, <2>4
<1> QED BY <1>1 DEF Opened

\* The file f becomes an end of pipe pi.
EndOf(f, w, pi) == [ref |-> file[f].ref, type |-> "pipe", writable |-> w, pipe |-> pi]

\* The pipe pi and its ends are there.
Builds(p, pi) ==
  /\ pi \in Pipes /\ ~pipe[pi].alloc
  /\ pipe' \in [Pipes -> PipeRecs] /\ pipe'[pi] = Opened(pipe[pi])
  /\ \A pj \in Pipes \ {pi} : pipe'[pj] = pipe[pj]
  /\ file' \in [Files -> FileRecs]
  /\ file'[call[p].rf] = EndOf(call[p].rf, FALSE, pi) /\ file'[call[p].wf] = EndOf(call[p].wf, TRUE, pi)
  /\ \A g \in Files \ {call[p].rf, call[p].wf} : file'[g] = file[g]

GivesUp(p) == ofile' = ofile /\ call' = [call EXCEPT ![p].pc = "close"]

\* They get two descriptors.
Installs(p) ==
  /\ Return(p)
  /\ \E m \in Fds, n \in Fds :
       /\ m # n /\ ofile[p][m] = 0 /\ ofile[p][n] = 0
       /\ ofile' \in [Procs -> [Fds -> Files \union {0}]] /\ \A q \in Procs \ {p} : ofile'[q] = ofile[q]
       /\ ofile'[p][m] = call[p].rf /\ ofile'[p][n] = call[p].wf
       /\ \A j \in Fds \ {m, n} : ofile'[p][j] = ofile[p][j]

LEMMA PipeFdsEffect ==
  ASSUME TypeOK, RefsInv, NEW p \in Procs, PipeFds(p)
  PROVE  /\ st[p] = "running" /\ call[p].pc = "pipe" /\ call[p].rf # call[p].wf
         /\ call[p].rf \in Files /\ call[p].wf \in Files /\ Fresh(call[p].rf) /\ Fresh(call[p].wf)
         /\ UNCHANGED <<st, chan, killed, torn>>
         /\ \/ UNCHANGED <<pipe, file>> /\ GivesUp(p)
            \/ \E pi \in Pipes : Builds(p, pi) /\ (GivesUp(p) \/ Installs(p))
<1> DEFINE rf == call[p].rf
           wf == call[p].wf
           m == Min(FreeFds(p))
           n == Min(FreeFds(p) \ {m})
<1>1. st[p] = "running" /\ call[p].pc = "pipe" /\ wf # 0 /\ UNCHANGED <<st, chan, killed, torn>>
  BY DEF PipeFds, At, procVars
<1>2. rf \in Files /\ wf \in Files /\ Fresh(rf) /\ Fresh(wf)
  BY <1>1, Typed DEF RefsInv, CallShape
<1>3. rf # wf
  <2>1. Held(p, 0) = rf /\ Held(p, NOFILE + 1) = wf /\ 0 \in Places /\ NOFILE + 1 \in Places /\ NOFILE + 1 # 0
    BY PlaceHeld, Sizes
  <2> QED BY <1>2, <2>1, OnlyHolder DEF Fresh, RefsInv
<1>4. CASE UNCHANGED <<pipe, file>> /\ GivesUp(p)
  BY <1>1, <1>2, <1>3, <1>4
<1>5. ASSUME NEW pi \in Pipes, ~pipe[pi].alloc, pipe' = [pipe EXCEPT ![pi] = Opened(pipe[pi])],
             file' = [file EXCEPT ![rf] = EndOf(rf, FALSE, pi), ![wf] = EndOf(wf, TRUE, pi)]
      PROVE  Builds(p, pi)
  <2>1. /\ pipe' \in [Pipes -> PipeRecs] /\ pipe'[pi] = Opened(pipe[pi])
        /\ \A pj \in Pipes \ {pi} : pipe'[pj] = pipe[pj]
    BY <1>5, OpenedFields, TypedPipe, ZenonT(30) DEF TypeOK
  <2>2. \A g \in Files, w \in BOOLEAN : EndOf(g, w, pi) \in FileRecs
    BY TypedFile DEF EndOf, FileRecs
  <2> DEFINE A == EndOf(rf, FALSE, pi)
             B == EndOf(wf, TRUE, pi)
  <2>3. A \in FileRecs /\ B \in FileRecs
    BY <1>2, <2>2
  <2>4. file' = [file EXCEPT ![rf] = A, ![wf] = B]
    BY <1>5
  <2> HIDE DEF A, B, rf, wf
  <2>5. /\ file' \in [Files -> FileRecs] /\ file'[rf] = A /\ file'[wf] = B
        /\ \A g \in Files \ {rf, wf} : file'[g] = file[g]
    BY <1>2, <1>3, <2>3, <2>4 DEF TypeOK
  <2> QED BY <1>5, <2>1, <2>5 DEF Builds, A, B, rf, wf
<1>6. ASSUME Cardinality(FreeFds(p)) >= 2, ofile' = [ofile EXCEPT ![p][m] = rf, ![p][n] = wf], Return(p)
      PROVE  Installs(p)
  <2>1. m \in Fds /\ n \in Fds /\ m # n /\ ofile[p][m] = 0 /\ ofile[p][n] = 0
    BY <1>6, TwoFds
  <2> HIDE DEF m, n, rf, wf
  <2>2. /\ ofile' \in [Procs -> [Fds -> Files \union {0}]] /\ \A q \in Procs \ {p} : ofile'[q] = ofile[q]
        /\ ofile'[p][m] = rf /\ ofile'[p][n] = wf
        /\ \A j \in Fds \ {m, n} : ofile'[p][j] = ofile[p][j]
    BY <1>2, <1>6, <2>1 DEF TypeOK
  <2> QED BY <1>6, <2>1, <2>2 DEF Installs, rf, wf
<1>7. \/ UNCHANGED <<pipe, file>> /\ GivesUp(p)
      \/ \E pi \in Pipes :
          /\ ~pipe[pi].alloc /\ pipe' = [pipe EXCEPT ![pi] = Opened(pipe[pi])]
          /\ file' = [file EXCEPT ![rf] = EndOf(rf, FALSE, pi), ![wf] = EndOf(wf, TRUE, pi)]
          /\ \/ /\ Cardinality(FreeFds(p)) >= 2
                /\ ofile' = [ofile EXCEPT ![p][m] = rf, ![p][n] = wf] /\ Return(p)
             \/ GivesUp(p)
  BY DEF PipeFds, GivesUp, Opened, EndOf
<1> QED BY <1>1, <1>2, <1>3, <1>4, <1>5, <1>6, <1>7

\* The files of a call in pipe() are known to nobody else.
LEMMA FreshUnknown ==
  ASSUME TypeOK, RefsInv, NEW p \in Procs, NEW k \in {0, NOFILE + 1}, Held(p, k) \in Files, Fresh(Held(p, k))
  PROVE  /\ \A q \in Procs, j \in Fds : ofile[q][j] # Held(p, k)
         /\ \A q \in Procs \ {p} : call[q].rf # Held(p, k) /\ call[q].wf # Held(p, k)
<1>1. k \in Places /\ k \notin Fds
  BY Sizes
<1>2. \A q \in Procs, m \in Places : Held(q, m) = Held(p, k) => q = p /\ m = k
  BY <1>1, OnlyHolder DEF RefsInv, Fresh
<1>3. \A q \in Procs, j \in Fds : Held(q, j) = ofile[q][j] /\ j \in Places
  BY PlaceHeld, Sizes
<1>4. \A q \in Procs : Held(q, 0) = call[q].rf /\ Held(q, NOFILE + 1) = call[q].wf
  BY PlaceHeld
<1> QED BY <1>1, <1>2, <1>3, <1>4, Sizes

LEMMA PipeFdsRefs == ASSUME TypeOK, RefsInv, NEW p \in Procs, PipeFds(p) PROVE TypeOK' /\ RefsInv'
<1>1. /\ st[p] = "running" /\ call[p].pc = "pipe" /\ call[p].rf # call[p].wf
      /\ call[p].rf \in Files /\ call[p].wf \in Files /\ Fresh(call[p].rf) /\ Fresh(call[p].wf)
      /\ UNCHANGED <<st, chan, killed, torn>>
  BY PipeFdsEffect
<1>2. ASSUME GivesUp(p)
      PROVE  /\ ofile' = ofile /\ call' \in [Procs -> Calls] /\ \A q \in Procs \ {p} : call'[q] = call[q]
             /\ call'[p].pc = "close" /\ call'[p].rf = call[p].rf /\ call'[p].wf = call[p].wf
             /\ CallShape(p)' /\ UsesEnd(p)'
  <2>1. /\ ofile' = ofile /\ call' \in [Procs -> Calls] /\ \A q \in Procs \ {p} : call'[q] = call[q]
        /\ call'[p].pc = "close" /\ call'[p].rf = call[p].rf /\ call'[p].wf = call[p].wf
    BY <1>2, GotoEffect DEF GivesUp, PCs
  <2>2. CallShape(p)' /\ UsesEnd(p)'
    BY <1>1, <2>1, NotInPipe, Sizes DEF CallShape, Reading, Sending
  <2> QED BY <2>1, <2>2
<1>3. CASE UNCHANGED <<pipe, file>> /\ GivesUp(p)
  <2>1. RefsInv'
    BY <1>1, <1>2, <1>3, QuietRefs
  <2> QED BY <1>1, <1>2, <1>3, <2>1 DEF TypeOK
<1>4. ASSUME NEW pi \in Pipes, Builds(p, pi), GivesUp(p) \/ Installs(p)
      PROVE  TypeOK' /\ RefsInv'
  <2>1. PICK rf \in Files, wf \in Files : rf = call[p].rf /\ wf = call[p].wf
    BY <1>1
  <2>2. rf # wf /\ Fresh(rf) /\ Fresh(wf) /\ rf # 0 /\ wf # 0
    BY <1>1, <2>1, Sizes
  <2>3. /\ pipe' \in [Pipes -> PipeRecs] /\ file' \in [Files -> FileRecs]
        /\ file'[rf].ref = file[rf].ref /\ file'[rf].type = "pipe" /\ file'[rf].pipe = pi
        /\ file'[wf].ref = file[wf].ref /\ file'[wf].type = "pipe" /\ file'[wf].pipe = pi
        /\ \A g \in Files \ {rf, wf} : file'[g] = file[g]
    BY <1>4, <2>1 DEF Builds, EndOf
  <2>4. /\ \A q \in Procs, j \in Fds : ofile[q][j] \notin {rf, wf}
        /\ \A q \in Procs \ {p} : call[q].rf \notin {rf, wf} /\ call[q].wf \notin {rf, wf}
    <3>1. Held(p, 0) = rf /\ Held(p, NOFILE + 1) = wf
      BY <2>1, PlaceHeld
    <3>2. /\ \A q \in Procs, j \in Fds : ofile[q][j] # rf
          /\ \A q \in Procs \ {p} : call[q].rf # rf /\ call[q].wf # rf
      BY <2>2, <3>1, FreshUnknown
    <3>3. /\ \A q \in Procs, j \in Fds : ofile[q][j] # wf
          /\ \A q \in Procs \ {p} : call[q].rf # wf /\ call[q].wf # wf
      BY <2>2, <3>1, FreshUnknown
    <3> QED BY <3>2, <3>3
  <2>5. \A g \in Files : file'[g].ref = file[g].ref
    BY <2>3
  <2>6. \A g \in Files : /\ file'[g].ref = 0 => file'[g].type = "none"
                         /\ file'[g].type = "pipe" => file'[g].pipe \in Pipes
    <3> TAKE g \in Files
    <3>1. CASE g \in {rf, wf}
      BY <2>2, <2>3, <3>1 DEF Fresh
    <3>2. CASE g \notin {rf, wf}
      BY <2>3, <3>2 DEF RefsInv, FileShape
    <3> QED BY <3>1, <3>2
  <2>7. \A q \in Procs, j \in Fds : ofile[q][j] # 0 =>
          /\ file'[ofile[q][j]].type = "pipe" /\ file'[ofile[q][j]].pipe = file[ofile[q][j]].pipe
          /\ file'[ofile[q][j]].writable = file[ofile[q][j]].writable
    BY <2>3, <2>4, Typed DEF RefsInv, FileShape
  <2>8. \A q \in Procs \ {p} : call[q].pc = "pipe" =>
          \A g \in {call[q].rf, call[q].wf} : g # 0 /\ Fresh(g) => file'[g].ref = 1 /\ file'[g].type = "none"
    BY <2>3, <2>4, Typed DEF Fresh
  <2>9. CASE GivesUp(p)
    <3>1. \A q \in Procs, k \in Places : Held(q, k)' = Held(q, k)
      BY <1>2, <2>9, HeldSame
    <3>2. FileRefs'
      BY <2>5, <3>1, RefsSame DEF RefsInv
    <3>3. FileShape'
      BY <1>2, <2>6, <2>7, <2>9 DEF FileShape
    <3>4. RefsInv'
      BY <1>1, <1>2, <2>7, <2>8, <2>9, <3>2, <3>3, FilesRefs
    <3> QED BY <1>1, <1>2, <2>3, <2>9, <3>4 DEF TypeOK
  <2>10. CASE Installs(p)
    <3>1. PICK m \in Fds, n \in Fds :
             /\ m # n /\ ofile[p][m] = 0 /\ ofile[p][n] = 0
             /\ ofile' \in [Procs -> [Fds -> Files \union {0}]] /\ \A q \in Procs \ {p} : ofile'[q] = ofile[q]
             /\ ofile'[p][m] = call[p].rf /\ ofile'[p][n] = call[p].wf
             /\ \A j \in Fds \ {m, n} : ofile'[p][j] = ofile[p][j]
      BY <2>10 DEF Installs
    <3>2. /\ call' \in [Procs -> Calls] /\ \A q \in Procs \ {p} : call'[q] = call[q]
          /\ call'[p].pc = "user" /\ call'[p].rf = 0 /\ call'[p].wf = 0
      BY <2>10, ReturnEffect, NoCallFields DEF Installs, Becomes
    <3>3. /\ m \in Places /\ n \in Places /\ 0 \in Places /\ NOFILE + 1 \in Places
          /\ m # 0 /\ n # 0 /\ m # NOFILE + 1 /\ n # NOFILE + 1
          /\ Held(p, 0) = rf /\ Held(p, NOFILE + 1) = wf /\ Held(p, m) = 0 /\ Held(p, n) = 0
          /\ Held(p, 0)' = 0 /\ Held(p, NOFILE + 1)' = 0 /\ Held(p, m)' = rf /\ Held(p, n)' = wf
      BY <2>1, <3>1, <3>2, PlaceHeld, PlaceHeldNext, Sizes
    <3>4. \A q \in Procs, k \in Places : (q # p \/ k \notin {0, NOFILE + 1, m, n}) => Held(q, k)' = Held(q, k)
      <4>1. \A q \in Procs \ {p}, k \in Places : Held(q, k)' = Held(q, k)
        BY <3>1, <3>2, HeldSame
      <4>2. \A k \in Places \ {0, NOFILE + 1, m, n} : Held(p, k)' = Held(p, k)
        BY <3>1, <3>2, PlaceHeld, PlaceHeldNext, Sizes
      <4> QED BY <4>1, <4>2
    <3>5. ASSUME NEW g \in Files PROVE Cardinality(Uses(g)') = Cardinality(Uses(g))
      <4>1. CASE g = rf
        <5>1. \A q \in Procs, j \in Places : (q # p \/ j \notin {0, m}) => ((Held(q, j) = g)' <=> Held(q, j) = g)
          BY <2>2, <3>3, <3>4, <4>1
        <5> QED BY <2>2, <3>1, <3>3, <4>1, <5>1, UsesMove
      <4>2. CASE g = wf
        <5>1. \A q \in Procs, j \in Places :
                (q # p \/ j \notin {NOFILE + 1, n}) => ((Held(q, j) = g)' <=> Held(q, j) = g)
          BY <2>2, <3>3, <3>4, <4>2
        <5> QED BY <2>2, <3>1, <3>3, <4>2, <5>1, UsesMove
      <4>3. CASE g \notin {rf, wf}
        <5>1. \A q \in Procs, j \in Places : (Held(q, j) = g)' <=> Held(q, j) = g
          BY <3>3, <3>4, <4>3, Sizes
        <5> QED BY <5>1, UsesSame
      <4> QED BY <4>1, <4>2, <4>3
    <3>6. FileRefs'
      BY <2>5, <3>5 DEF RefsInv, FileRefs, Uses
    <3>7. FileShape'
      <4>1. \A q \in Procs, j \in Fds : ofile'[q][j] \in {rf, wf} \/ ofile'[q][j] = ofile[q][j]
        BY <2>1, <3>1
      <4> QED BY <2>3, <2>6, <2>7, <4>1 DEF FileShape
    <3>8. CallShape(p)' /\ UsesEnd(p)'
      BY <1>1, <3>2, PlainCall, NotInPipe DEF Reading, Sending
    <3>9. RefsInv'
      BY <1>1, <2>7, <2>8, <3>1, <3>2, <3>6, <3>7, <3>8, FilesRefs
    <3> QED BY <1>1, <2>3, <3>1, <3>2, <3>9 DEF TypeOK
  <2> QED BY <1>4, <2>9, <2>10
<1> QED BY <1>3, <1>4, PipeFdsEffect

-----------------------------------------------------------------------------
(* The open ends of a pipe.                                                 *)

IsOpen(pi, w) == IF w THEN pipe[pi].writeopen ELSE pipe[pi].readopen
Ends(pi, w) == {f \in Files : file[f].type = "pipe" /\ file[f].pipe = pi /\ file[f].writable = w}
Closers(pi, w) == {p \in Procs : call[p].pc = "pipeclose" /\ call[p].pi = pi /\ call[p].w = w}
EndOpen(pi, w) ==
  /\ Cardinality(Ends(pi, w)) + Cardinality(Closers(pi, w)) = (IF IsOpen(pi, w) THEN 1 ELSE 0)
  /\ IsOpen(pi, w) => pipe[pi].alloc
  /\ pipe[pi].alloc => pipe[pi].readopen \/ pipe[pi].writeopen

LEMMA EndsOpenParts == EndsOpen <=> \A pi \in Pipes : \A w \in BOOLEAN : EndOpen(pi, w)
  BY DEF EndsOpen, EndOpen, IsOpen, Ends, Closers

LEMMA EndsOpenPartsNext == EndsOpen' <=> \A pi \in Pipes : \A w \in BOOLEAN : EndOpen(pi, w)'
  BY DEF EndsOpen, EndOpen, IsOpen, Ends, Closers

LEMMA EndsFinite ==
  ASSUME NEW pi, NEW w
  PROVE  /\ IsFiniteSet(Ends(pi, w)) /\ Cardinality(Ends(pi, w)) \in Nat
         /\ IsFiniteSet(Closers(pi, w)) /\ Cardinality(Closers(pi, w)) \in Nat
<1>1. IsFiniteSet(Files) /\ IsFiniteSet(Procs)
  BY PipeAssumption, FS_Interval DEF Files, Procs
<1>2. Ends(pi, w) \subseteq Files /\ Closers(pi, w) \subseteq Procs
  BY DEF Ends, Closers
<1> QED BY <1>1, <1>2, FS_Subset, FS_CardinalityType

LEMMA EndOpenFrame ==
  ASSUME NEW pi, NEW w, EndOpen(pi, w), Ends(pi, w)' = Ends(pi, w), Closers(pi, w)' = Closers(pi, w),
         pipe'[pi].alloc = pipe[pi].alloc, pipe'[pi].readopen = pipe[pi].readopen,
         pipe'[pi].writeopen = pipe[pi].writeopen
  PROVE  EndOpen(pi, w)'
  BY DEF EndOpen, IsOpen

\* Steps that open and close nothing.
LEMMA EndsQuiet ==
  ASSUME TypeOK, EndsOpen, NEW p \in Procs, \A q \in Procs \ {p} : call'[q] = call[q],
         call[p].pc # "pipeclose", call'[p].pc # "pipeclose",
         \A f \in Files : /\ file'[f].type = "pipe" <=> file[f].type = "pipe"
                          /\ file[f].type = "pipe" => /\ file'[f].pipe = file[f].pipe
                                                      /\ file'[f].writable = file[f].writable,
         \A pi \in Pipes : /\ pipe'[pi].alloc = pipe[pi].alloc /\ pipe'[pi].readopen = pipe[pi].readopen
                           /\ pipe'[pi].writeopen = pipe[pi].writeopen
  PROVE  EndsOpen'
<1>1. ASSUME NEW pi \in Pipes, NEW w \in BOOLEAN PROVE EndOpen(pi, w)'
  <2>1. Ends(pi, w)' = Ends(pi, w)
    BY DEF Ends
  <2>2. Closers(pi, w)' = Closers(pi, w)
    BY DEF Closers
  <2>3. EndOpen(pi, w)
    BY EndsOpenParts
  <2> QED BY <2>1, <2>2, <2>3, EndOpenFrame
<1> QED BY <1>1, EndsOpenPartsNext

\* A file that was the last reference to an end, and the call that closes the end now.
LEMMA LastReference ==
  ASSUME TypeOK, RefsInv, EndsOpen, NEW p \in Procs, NEW f \in Files, NEW k \in {0, NOFILE + 1}, Drops(p, f, k),
         file[f].ref = 1, file[f].type = "pipe", UNCHANGED pipe
  PROVE  EndsOpen'
<1> DEFINE fp == file[f].pipe
           fw == file[f].writable
<1>1. /\ file' = [file EXCEPT ![f] = Closed(file[f])] /\ \A q \in Procs \ {p} : call'[q] = call[q]
      /\ call[p].pc = "close" /\ call'[p].pc = "pipeclose" /\ call'[p].pi = fp /\ call'[p].w = fw
  BY DEF Drops
<1>2. file[f] \in FileRecs /\ fw \in BOOLEAN /\ fp \in Pipes
  BY TypedFile DEF RefsInv, FileShape
<1>3. file'[f].type = "none" /\ \A g \in Files \ {f} : file'[g] = file[g]
  BY <1>1, <1>2, ClosedFields DEF TypeOK
<1>4. ASSUME NEW pi \in Pipes, NEW w \in BOOLEAN PROVE EndOpen(pi, w)'
  <2>1. EndOpen(pi, w)
    BY EndsOpenParts
  <2>2. CASE pi = fp /\ w = fw
    <3>1. f \in Ends(pi, w) /\ Ends(pi, w)' = Ends(pi, w) \ {f}
      BY <1>3, <2>2 DEF Ends
    <3>2. p \notin Closers(pi, w) /\ Closers(pi, w)' = Closers(pi, w) \union {p}
      BY <1>1, <2>2 DEF Closers
    <3>3. Cardinality(Ends(pi, w)') = Cardinality(Ends(pi, w)) - 1
      BY <3>1, EndsFinite, FS_RemoveElement, ZenonT(30)
    <3>4. Cardinality(Closers(pi, w)') = Cardinality(Closers(pi, w)) + 1
      BY <3>2, EndsFinite, FS_AddElement
    <3>5. IsOpen(pi, w)' = IsOpen(pi, w)
      BY DEF IsOpen
    <3>6. Cardinality(Ends(pi, w)') + Cardinality(Closers(pi, w)')
            = Cardinality(Ends(pi, w)) + Cardinality(Closers(pi, w))
      BY <3>3, <3>4, EndsFinite
    <3> QED BY <2>1, <3>5, <3>6 DEF EndOpen
  <2>3. CASE ~(pi = fp /\ w = fw)
    <3>1. Ends(pi, w)' = Ends(pi, w)
      BY <1>3, <2>3 DEF Ends
    <3>2. Closers(pi, w)' = Closers(pi, w)
      BY <1>1, <2>3 DEF Closers
    <3> QED BY <2>1, <3>1, <3>2, EndOpenFrame
  <2> QED BY <2>2, <2>3
<1> QED BY <1>4, EndsOpenPartsNext

LEMMA filecloseEnds ==
  ASSUME TypeOK, RefsInv, EndsOpen, NEW p \in Procs, fileclose(p)
  PROVE  EndsOpen'
<1>1. UNCHANGED <<ofile, pipe, st, chan, killed, torn>>
  BY filecloseEffect
<1>2. PICK f \in Files, k \in {0, NOFILE + 1} : Drops(p, f, k)
  BY filecloseEffect
<1>3. CASE file[f].ref = 1 /\ file[f].type = "pipe"
  BY <1>1, <1>2, <1>3, LastReference
<1>4. CASE ~(file[f].ref = 1 /\ file[f].type = "pipe")
  <2>1. /\ file' = [file EXCEPT ![f] = Closed(file[f])] /\ \A q \in Procs \ {p} : call'[q] = call[q]
        /\ call[p].pc # "pipeclose" /\ call'[p].pc # "pipeclose" /\ file[f].ref >= 1
        /\ file[f].ref > 1 \/ file[f].type = "none"
    BY <1>2, <1>4 DEF Drops
  <2>2. /\ Closed(file[f]).type = file[f].type
        /\ file[f].type = "pipe" => /\ Closed(file[f]).pipe = file[f].pipe
                                    /\ Closed(file[f]).writable = file[f].writable
    BY <1>4, <2>1, ClosedFields, TypedFile
  <2>3. file'[f] = Closed(file[f]) /\ \A g \in Files \ {f} : file'[g] = file[g]
    BY <2>1 DEF TypeOK
  <2>4. \A g \in Files : /\ file'[g].type = "pipe" <=> file[g].type = "pipe"
                         /\ file[g].type = "pipe" => /\ file'[g].pipe = file[g].pipe
                                                     /\ file'[g].writable = file[g].writable
    BY <2>2, <2>3
  <2> QED BY <1>1, <2>1, <2>4, EndsQuiet
<1> QED BY <1>3, <1>4

LEMMA PipeFdsEnds == ASSUME TypeOK, RefsInv, EndsOpen, NEW p \in Procs, PipeFds(p) PROVE EndsOpen'
<1>1. /\ call[p].pc = "pipe" /\ call[p].rf # call[p].wf
      /\ call[p].rf \in Files /\ call[p].wf \in Files /\ Fresh(call[p].rf) /\ Fresh(call[p].wf)
  BY PipeFdsEffect
<1>2. ASSUME GivesUp(p) \/ Installs(p)
      PROVE  call'[p].pc # "pipeclose" /\ \A q \in Procs \ {p} : call'[q] = call[q]
  <2>1. CASE GivesUp(p)
    <3>1. call' = [call EXCEPT ![p].pc = "close"] /\ "close" \in PCs
      BY <2>1 DEF GivesUp, PCs
    <3>2. call'[p].pc = "close" /\ \A q \in Procs \ {p} : call'[q] = call[q]
      BY <3>1, GotoEffect
    <3> QED BY <3>2
  <2>2. CASE Installs(p)
    BY <2>2, ReturnEffect, NoCallFields DEF Installs, Becomes
  <2> QED BY <1>2, <2>1, <2>2
<1>3. CASE UNCHANGED <<pipe, file>> /\ GivesUp(p)
  BY <1>1, <1>2, <1>3, EndsQuiet
<1>4. ASSUME NEW pi \in Pipes, Builds(p, pi), GivesUp(p) \/ Installs(p) PROVE EndsOpen'
  <2>1. PICK rf \in Files, wf \in Files : rf = call[p].rf /\ wf = call[p].wf
    BY <1>1
  <2>2. /\ rf # wf /\ file[rf].type = "none" /\ file[wf].type = "none"
        /\ file'[rf].type = "pipe" /\ file'[rf].pipe = pi /\ file'[rf].writable = FALSE
        /\ file'[wf].type = "pipe" /\ file'[wf].pipe = pi /\ file'[wf].writable = TRUE
        /\ \A g \in Files \ {rf, wf} : file'[g] = file[g]
    BY <1>1, <1>4, <2>1 DEF Builds, EndOf, Fresh
  <2>3. /\ ~pipe[pi].alloc /\ pipe'[pi].alloc = TRUE /\ pipe'[pi].readopen = TRUE /\ pipe'[pi].writeopen = TRUE
        /\ \A pj \in Pipes \ {pi} : pipe'[pj] = pipe[pj]
    BY <1>4, OpenedFields, TypedPipe DEF Builds
  <2>4. ASSUME NEW w \in BOOLEAN PROVE EndOpen(pi, w)'
    <3>1. ~IsOpen(pi, w) /\ EndOpen(pi, w)
      BY <2>3, EndsOpenParts DEF EndOpen
    <3>2. Cardinality(Ends(pi, w)) = 0 /\ Cardinality(Closers(pi, w)) = 0
      BY <3>1, EndsFinite DEF EndOpen
    <3>3. Ends(pi, w) = {} /\ Closers(pi, w) = {}
      BY <3>2, EndsFinite, FS_EmptySet
    <3>4. Closers(pi, w)' = {}
      BY <1>2, <1>4, <3>3 DEF Closers
    <3>5. \A g \in Files : (file'[g].type = "pipe" /\ file'[g].pipe = pi /\ file'[g].writable = w)
                             <=> (g \in {rf, wf} /\ (g = wf <=> w = TRUE))
      <4> TAKE g \in Files
      <4>1. g \notin Ends(pi, w)
        BY <3>3
      <4>2. CASE g \in {rf, wf}
        BY <2>2, <4>2
      <4>3. CASE g \notin {rf, wf}
        BY <2>2, <4>1, <4>3 DEF Ends
      <4> QED BY <4>2, <4>3
    <3>6. \E g : Ends(pi, w)' = {g}
      <4>1. CASE w = TRUE
        <5>1. Ends(pi, w)' = {wf}
          BY <2>2, <3>5, <4>1 DEF Ends
        <5> QED BY <5>1
      <4>2. CASE w = FALSE
        <5>1. Ends(pi, w)' = {rf}
          BY <2>2, <3>5, <4>2 DEF Ends
        <5> QED BY <5>1
      <4> QED BY <4>1, <4>2
    <3>8. Cardinality(Ends(pi, w)') = 1
      BY <3>6, FS_Singleton
    <3>7. Cardinality(Closers(pi, w)') = 0
      BY <3>4, FS_EmptySet
    <3> QED BY <2>3, <3>7, <3>8 DEF EndOpen, IsOpen
  <2>5. ASSUME NEW pj \in Pipes \ {pi}, NEW w \in BOOLEAN PROVE EndOpen(pj, w)'
    <3>1. EndOpen(pj, w)
      BY EndsOpenParts
    <3>2. Ends(pj, w)' = Ends(pj, w)
      BY <2>2 DEF Ends
    <3>3. Closers(pj, w)' = Closers(pj, w)
      BY <1>1, <1>2, <1>4 DEF Closers
    <3> QED BY <2>3, <3>1, <3>2, <3>3, EndOpenFrame
  <2> QED BY <2>4, <2>5, EndsOpenPartsNext
<1> QED BY <1>3, <1>4, PipeFdsEffect

\* The end that pipeclose() closes is open, and has no file any more.
LEMMA ClosesOpen ==
  ASSUME TypeOK, EndsOpen, NEW p \in Procs, call[p].pc = "pipeclose", call[p].pi \in Pipes
  PROVE  LET pi == call[p].pi
             w == call[p].w
         IN IsOpen(pi, w) /\ pipe[pi].alloc /\ Ends(pi, w) = {} /\ Closers(pi, w) = {p}
<1> DEFINE pi == call[p].pi
           w == call[p].w
<1>1. w \in BOOLEAN /\ pi \in Pipes /\ EndOpen(pi, w) /\ p \in Closers(pi, w)
  BY Typed, EndsOpenParts DEF Closers
<1> HIDE DEF pi, w
<1>2. Cardinality(Closers(pi, w)) # 0
  BY <1>1, EndsFinite, FS_EmptySet
<1>3. IsOpen(pi, w) /\ Cardinality(Ends(pi, w)) = 0 /\ Cardinality(Closers(pi, w)) = 1
  BY <1>1, <1>2, EndsFinite DEF EndOpen
<1>4. Ends(pi, w) = {}
  BY <1>3, EndsFinite, FS_EmptySet
<1>5. PICK x : Closers(pi, w) = {x}
  BY <1>3, EndsFinite, FS_Singleton
<1> QED BY <1>1, <1>3, <1>4, <1>5 DEF pi, w, EndOpen

LEMMA pipecloseEnds == ASSUME TypeOK, RefsInv, EndsOpen, NEW p \in Procs, pipeclose(p) PROVE EndsOpen'
<1>1. PICK pi \in Pipes, w \in BOOLEAN : pi = call[p].pi /\ w = call[p].w
  BY pipecloseEffect
<1> DEFINE rest == IF w THEN pipe[pi].readopen ELSE pipe[pi].writeopen
<1>2. /\ call[p].pc = "pipeclose" /\ rest \in BOOLEAN
      /\ \A pj \in Pipes \ {pi} : pipe'[pj] = pipe[pj]
      /\ ~rest => pipe'[pi] = NoPipe
      /\ rest => /\ pipe'[pi].writeopen = (pipe[pi].writeopen /\ ~w)
                 /\ pipe'[pi].readopen = (pipe[pi].readopen /\ w)
                 /\ pipe'[pi].alloc = pipe[pi].alloc
      /\ \A q \in Procs \ {p} : call'[q] = call[q]
      /\ call'[p] = Closing(call[p])
  BY <1>1, pipecloseEffect
<1>3. call'[p].pc # "pipeclose"
  BY <1>2, Typed, ClosingFields
<1>4. IsOpen(pi, w) /\ pipe[pi].alloc /\ Ends(pi, w) = {} /\ Closers(pi, w) = {p}
  BY <1>1, <1>2, ClosesOpen
<1>5. UNCHANGED file
  BY DEF pipeclose
<1>6. \A pj \in Pipes, v \in BOOLEAN : Ends(pj, v)' = Ends(pj, v)
  BY <1>5 DEF Ends
<1>7. EndOpen(pi, w)'
  <2>1. Closers(pi, w)' = {}
    BY <1>2, <1>3, <1>4 DEF Closers
  <2>2. Cardinality(Closers(pi, w)') = 0 /\ Cardinality(Ends(pi, w)') = 0
    BY <1>4, <1>6, <2>1, FS_EmptySet
  <2>3. ~IsOpen(pi, w)'
    BY <1>2, <1>4, NoPipeFields DEF IsOpen
  <2>4. pipe'[pi].alloc => pipe'[pi].readopen \/ pipe'[pi].writeopen
    BY <1>2, <1>4, NoPipeFields
  <2> QED BY <2>2, <2>3, <2>4 DEF EndOpen
<1>8. ASSUME NEW pj \in Pipes, NEW v \in BOOLEAN, pj # pi \/ v # w PROVE EndOpen(pj, v)'
  <2>1. EndOpen(pj, v)
    BY EndsOpenParts
  <2>2. Closers(pj, v)' = Closers(pj, v)
    BY <1>1, <1>2, <1>3, <1>8 DEF Closers
  <2>3. CASE pj # pi
    BY <1>2, <1>6, <2>1, <2>2, <2>3, EndOpenFrame
  <2>4. CASE pj = pi /\ rest
    <3>1. IsOpen(pj, v)' = IsOpen(pj, v)
      BY <1>2, <1>8, <2>4, TypedPipe DEF IsOpen
    <3>2. pipe'[pi].alloc = pipe[pi].alloc /\ (pipe'[pi].readopen \/ pipe'[pi].writeopen)
      BY <1>2, <2>4
    <3> QED BY <1>6, <2>1, <2>2, <2>4, <3>1, <3>2 DEF EndOpen
  <2>5. CASE pj = pi /\ ~rest
    <3>1. ~IsOpen(pj, v)' /\ ~IsOpen(pj, v)
      BY <1>2, <1>8, <2>5, NoPipeFields DEF IsOpen
    <3>2. ~pipe'[pi].alloc
      BY <1>2, <2>5, NoPipeFields
    <3> QED BY <1>6, <2>1, <2>2, <2>5, <3>1, <3>2 DEF EndOpen
  <2> QED BY <2>3, <2>4, <2>5
<1> QED BY <1>7, <1>8, EndsOpenPartsNext

-----------------------------------------------------------------------------
(* Waiting.                                                                 *)

\* Why a reader, or a writer, may sleep.
ReaderGround(pi) == pipe[pi].writeopen /\ (Empty(pipe[pi]) \/ pi \in torn \/ \E q \in Procs : HasPut(q, pi))
WriterGround(pi) == pipe[pi].readopen /\ Full(pipe[pi])

\* Nobody but perhaps p is on channel c after the step.
Woken(p, c) == \A q \in Procs \ {p} : chan'[q] # c

\* q stays where it is, and is at most woken.
StaysPut(q) ==
  /\ call'[q] = call[q] /\ chan'[q] \in {chan[q], NoChan}
  /\ st'[q] = "sleeping" => st[q] = "sleeping" /\ chan'[q] = chan[q]

Waiting(p) == SleepsOn(p) /\ \A pi \in Pipes : ReaderWaits(p, pi) /\ WriterWaits(p, pi)

LEMMA ChannelsDiffer ==
  /\ \A pi \in Pipes : NoChan # RChan(pi) /\ NoChan # WChan(pi)
  /\ \A pi \in Pipes, pj \in Pipes : RChan(pi) # WChan(pj)
  /\ \A pi \in Pipes, pj \in Pipes : pi # pj => RChan(pi) # RChan(pj) /\ WChan(pi) # WChan(pj)
  BY Sizes DEF NoChan, RChan, WChan

LEMMA StaysAsleep ==
  ASSUME NEW q, SleepsOn(q), StaysPut(q)
  PROVE  SleepsOn(q)'
  BY DEF SleepsOn, StaysPut, RChan, WChan

LEMMA StillWaits ==
  ASSUME NEW q, NEW pi \in Pipes, StaysPut(q), SleepsOn(q)
  PROVE  /\ Waits(q, "read-zz", "read-acq", pi, RChan(pi))' =>
              Waits(q, "read-zz", "read-acq", pi, RChan(pi)) /\ chan'[q] = RChan(pi)
         /\ Waits(q, "write-zz", "write-acq", pi, WChan(pi))' =>
              Waits(q, "write-zz", "write-acq", pi, WChan(pi)) /\ chan'[q] = WChan(pi)
  BY ChannelsDiffer DEF Waits, StaysPut, SleepsOn, RChan, WChan

\* The others wait for good reason after a step of p if the reason is still good, or
\* they were woken.
LEMMA WaitFrame ==
  ASSUME WaitInv, NEW p \in Procs, \A q \in Procs \ {p} : StaysPut(q),
         \A pi \in Pipes : ReaderGround(pi) => ReaderGround(pi)' \/ Woken(p, RChan(pi)),
         \A pi \in Pipes : WriterGround(pi) => WriterGround(pi)' \/ Woken(p, WChan(pi)),
         Waiting(p)'
  PROVE  WaitInv'
<1>1. ASSUME NEW q \in Procs \ {p} PROVE Waiting(q)'
  <2>1. SleepsOn(q) /\ StaysPut(q)
    BY DEF WaitInv
  <2>2. SleepsOn(q)'
    BY <2>1, StaysAsleep
  <2>3. ASSUME NEW pi \in Pipes PROVE ReaderWaits(q, pi)'
    <3> SUFFICES ASSUME Waits(q, "read-zz", "read-acq", pi, RChan(pi))' PROVE ReaderGround(pi)'
      BY DEF ReaderWaits, ReaderGround
    <3>1. Waits(q, "read-zz", "read-acq", pi, RChan(pi)) /\ chan'[q] = RChan(pi)
      BY <2>1, StillWaits
    <3>2. ReaderGround(pi)
      BY <3>1 DEF WaitInv, ReaderWaits, ReaderGround
    <3>3. ~Woken(p, RChan(pi))
      BY <3>1 DEF Woken
    <3> QED BY <3>2, <3>3
  <2>4. ASSUME NEW pi \in Pipes PROVE WriterWaits(q, pi)'
    <3> SUFFICES ASSUME Waits(q, "write-zz", "write-acq", pi, WChan(pi))' PROVE WriterGround(pi)'
      BY DEF WriterWaits, WriterGround
    <3>1. Waits(q, "write-zz", "write-acq", pi, WChan(pi)) /\ chan'[q] = WChan(pi)
      BY <2>1, StillWaits
    <3>2. WriterGround(pi)
      BY <3>1 DEF WaitInv, WriterWaits, WriterGround
    <3>3. ~Woken(p, WChan(pi))
      BY <3>1 DEF Woken
    <3> QED BY <3>2, <3>3
  <2> QED BY <2>2, <2>3, <2>4 DEF Waiting
<1> QED BY <1>1 DEF WaitInv, Waiting

\* A process that is awake, and about to go to sleep nowhere, waits for nothing.
LEMMA Awake ==
  ASSUME NEW p, call'[p].pc \notin {"read-zz", "write-zz"}, st'[p] # "sleeping"
  PROVE  Waiting(p)'
  BY DEF Waiting, SleepsOn, ReaderWaits, WriterWaits, Waits

\* The reasons stand while the pipes do and nobody leaves the loop of pipewrite().
LEMMA GroundsKept ==
  ASSUME NEW p \in Procs, \A q \in Procs \ {p} : call'[q] = call[q], call[p].pc # "write", torn' = torn,
         NEW pi, pipe'[pi].nread = pipe[pi].nread, pipe'[pi].nwrite = pipe[pi].nwrite
  PROVE  /\ ReaderGround(pi) /\ pipe'[pi].writeopen => ReaderGround(pi)'
         /\ WriterGround(pi) /\ pipe'[pi].readopen => WriterGround(pi)'
<1>1. \A q \in Procs : HasPut(q, pi) => HasPut(q, pi)'
  BY DEF HasPut
<1> QED BY <1>1 DEF ReaderGround, WriterGround, Empty, Full

\* Steps that touch no pipe and send nobody to sleep.
LEMMA QuietWaits ==
  ASSUME WaitInv, NEW p \in Procs, \A q \in Procs \ {p} : call'[q] = call[q], call[p].pc # "write",
         UNCHANGED <<pipe, chan, torn>>, \A q \in Procs \ {p} : st'[q] = "sleeping" => st[q] = "sleeping",
         Waiting(p)'
  PROVE  WaitInv'
<1>1. \A pi \in Pipes : (ReaderGround(pi) => ReaderGround(pi)') /\ (WriterGround(pi) => WriterGround(pi)')
  BY GroundsKept DEF ReaderGround, WriterGround
<1>2. \A q \in Procs \ {p} : StaysPut(q)
  BY DEF StaysPut
<1> QED BY <1>1, <1>2, WaitFrame

-----------------------------------------------------------------------------
(* Open ends and waiting, action by action.                                 *)

\* A call that has returned, or gone on, opens and closes no end.
LEMMA SameFilesEnds ==
  ASSUME TypeOK, EndsOpen, NEW p \in Procs, \A q \in Procs \ {p} : call'[q] = call[q],
         call[p].pc # "pipeclose", call'[p].pc # "pipeclose", UNCHANGED file,
         \A pi \in Pipes : /\ pipe'[pi].alloc = pipe[pi].alloc /\ pipe'[pi].readopen = pipe[pi].readopen
                           /\ pipe'[pi].writeopen = pipe[pi].writeopen
  PROVE  EndsOpen'
  BY EndsQuiet

LEMMA kexitWaits == ASSUME TypeOK, RefsInv, EndsOpen, WaitInv, NEW p \in Procs, kexit(p) PROVE EndsOpen' /\ WaitInv'
<1>1. At(p, "user")
  BY DEF kexit
<1>2. UNCHANGED <<file, ofile, pipe, st, chan, killed, torn>>
  BY DEF kexit, procVars
<1>3. (\A q \in Procs \ {p} : call'[q] = call[q]) /\ call'[p].pc = "exit"
  BY ExitEffect DEF kexit, PCs
<1>4. EndsOpen'
  BY <1>1, <1>2, <1>3, AtRunning, SameFilesEnds
<1>5. Waiting(p)'
  BY <1>1, <1>2, <1>3, AtRunning, Awake
<1> QED BY <1>1, <1>2, <1>3, <1>4, <1>5, AtRunning, QuietWaits

LEMMA kkillWaits == ASSUME TypeOK, RefsInv, EndsOpen, WaitInv, NEW p \in Procs, kkill(p) PROVE EndsOpen' /\ WaitInv'
<1>1. UNCHANGED <<file, ofile, pipe, chan, call, torn>>
  BY DEF kkill
<1>2. st'[p] = "running" /\ \A q \in Procs \ {p} : st'[q] = st[q]
  BY DEF kkill, TypeOK
<1>3. EndsOpen'
  <2>1. \A pi \in Pipes, w \in BOOLEAN : Ends(pi, w)' = Ends(pi, w) /\ Closers(pi, w)' = Closers(pi, w)
    BY <1>1 DEF Ends, Closers
  <2> QED BY <1>1, <2>1, EndOpenFrame, EndsOpenParts, EndsOpenPartsNext
<1>4. \A q \in Procs : StaysPut(q)
  BY <1>1, <1>2 DEF StaysPut
<1>5. \A pi \in Pipes : (ReaderGround(pi) => ReaderGround(pi)') /\ (WriterGround(pi) => WriterGround(pi)')
  BY <1>1 DEF ReaderGround, WriterGround, Empty, Full, HasPut
<1>6. Waiting(p)'
  <2>1. SleepsOn(p)'
    BY <1>4, StaysAsleep DEF WaitInv
  <2>2. \A pi \in Pipes : ReaderWaits(p, pi)' /\ WriterWaits(p, pi)'
    BY <1>4, <1>5, StillWaits DEF WaitInv, ReaderWaits, WriterWaits, ReaderGround, WriterGround
  <2> QED BY <2>1, <2>2 DEF Waiting
<1> QED BY <1>3, <1>4, <1>5, <1>6, WaitFrame

LEMMA ExitedWaits ==
  ASSUME TypeOK, RefsInv, EndsOpen, WaitInv, NEW p \in Procs, Exited(p)
  PROVE  EndsOpen' /\ WaitInv'
<1>1. At(p, "exit") /\ Return(p) /\ UNCHANGED <<file, ofile, pipe, torn>>
  BY DEF Exited
<1>2. call'[p].pc = "user" /\ \A q \in Procs \ {p} : call'[q] = call[q]
  BY <1>1, ReturnEffect, NoCallFields DEF Becomes
<1>3. st'[p] = "unused" /\ \A q \in Procs \ {p} : st'[q] = st[q] /\ chan'[q] = chan[q]
  BY DEF Exited, TypeOK
<1>4. EndsOpen'
  BY <1>1, <1>2, AtRunning, SameFilesEnds
<1>5. Waiting(p)'
  BY <1>2, <1>3, Awake
<1>6. \A q \in Procs \ {p} : StaysPut(q)
  BY <1>2, <1>3 DEF StaysPut
<1>7. \A pi \in Pipes : (ReaderGround(pi) => ReaderGround(pi)') /\ (WriterGround(pi) => WriterGround(pi)')
  BY <1>1, <1>2, AtRunning, GroundsKept DEF ReaderGround, WriterGround
<1> QED BY <1>4, <1>5, <1>6, <1>7, WaitFrame

LEMMA WriteFailsWaits ==
  ASSUME TypeOK, RefsInv, EndsOpen, WaitInv, NEW p \in Procs, WriteFails(p)
  PROVE  EndsOpen' /\ WaitInv'
<1>1. /\ At(p, "write") /\ Return(p) /\ UNCHANGED <<file, ofile, pipe, st, chan, killed>>
      /\ torn' = IF call[p].i > 0 THEN torn \union {call[p].pi} ELSE torn
  BY DEF WriteFails, procVars
<1>2. call'[p].pc = "user" /\ \A q \in Procs \ {p} : call'[q] = call[q]
  BY <1>1, ReturnEffect, NoCallFields DEF Becomes
<1>3. EndsOpen'
  BY <1>1, <1>2, AtRunning, SameFilesEnds
<1>4. Waiting(p)'
  BY <1>1, <1>2, AtRunning, Awake
<1>5. \A q \in Procs \ {p} : StaysPut(q)
  BY <1>1, <1>2 DEF StaysPut
<1>6. \A pi \in Pipes : WriterGround(pi) => WriterGround(pi)'
  BY <1>1 DEF WriterGround, Full
<1>7. \A pi \in Pipes : ReaderGround(pi) => ReaderGround(pi)'
  <2>1. \A pi \in Pipes : torn \subseteq torn' /\ (HasPut(p, pi) => pi \in torn')
    BY <1>1 DEF HasPut
  <2>2. \A pi \in Pipes, q \in Procs \ {p} : HasPut(q, pi) => HasPut(q, pi)'
    BY <1>2 DEF HasPut
  <2> QED BY <1>1, <2>1, <2>2 DEF ReaderGround, Empty
<1> QED BY <1>3, <1>4, <1>5, <1>6, <1>7, WaitFrame

\* A pipe another one than the step is about.
LEMMA GroundsElsewhere ==
  ASSUME NEW p \in Procs, \A q \in Procs \ {p} : call'[q] = call[q], NEW pi, pi # call[p].pi,
         pipe'[pi] = pipe[pi], pi \in torn <=> pi \in torn'
  PROVE  (ReaderGround(pi) => ReaderGround(pi)') /\ (WriterGround(pi) => WriterGround(pi)')
<1>1. \A q \in Procs : HasPut(q, pi) => HasPut(q, pi)'
  BY DEF HasPut
<1> QED BY <1>1 DEF ReaderGround, WriterGround, Empty, Full

LEMMA WriteFullWaits ==
  ASSUME TypeOK, RefsInv, EndsOpen, WaitInv, NEW p \in Procs, WriteFull(p)
  PROVE  EndsOpen' /\ WaitInv'
<1>1. /\ At(p, "write") /\ UNCHANGED <<file, ofile, pipe, killed>> /\ call' = [call EXCEPT ![p].pc = "write-zz"]
      /\ pipe[call[p].pi].readopen /\ Full(pipe[call[p].pi]) /\ torn' = torn \ {call[p].pi}
  BY DEF WriteFull, Writing
<1>2. PICK pi \in Pipes : pi = call[p].pi
  BY <1>1, AtRunning DEF RefsInv, UsesEnd, HasEnd, Sending
<1>3. (\A q \in Procs \ {p} : call'[q] = call[q]) /\ call'[p].pc = "write-zz" /\ call'[p].pi = pi
  BY <1>1, <1>2, GotoEffect DEF PCs, Sending
<1>4. /\ chan'[p] = WChan(pi)
      /\ \A q \in Procs : st'[q] = IF chan[q] = RChan(pi) /\ st[q] = "sleeping" THEN "running" ELSE st[q]
      /\ \A q \in Procs \ {p} : chan'[q] = IF chan[q] = RChan(pi) THEN NoChan ELSE chan[q]
  BY <1>2 DEF WriteFull
<1>5. EndsOpen'
  BY <1>1, <1>3, AtRunning, SameFilesEnds
<1>6. WriterGround(pi)'
  BY <1>1, <1>2 DEF WriterGround, Full
<1>7. Waiting(p)'
  <2>1. st'[p] = "running"
    BY <1>1, <1>4, AtRunning
  <2>2. SleepsOn(p)'
    BY <1>3, <1>4, <2>1 DEF SleepsOn, WChan
  <2>3. ASSUME NEW pj \in Pipes PROVE ReaderWaits(p, pj)' /\ WriterWaits(p, pj)'
    <3>1. ReaderWaits(p, pj)'
      BY <1>3, <2>1 DEF ReaderWaits, Waits
    <3>2. CASE pj = pi
      BY <1>6, <3>1, <3>2 DEF WriterWaits, WriterGround
    <3>3. CASE pj # pi
      BY <1>3, <3>1, <3>3 DEF WriterWaits, Waits
    <3> QED BY <3>2, <3>3
  <2> QED BY <2>2, <2>3 DEF Waiting
<1>8. \A q \in Procs \ {p} : StaysPut(q)
  BY <1>3, <1>4 DEF StaysPut
<1>9. Woken(p, RChan(pi))
  BY <1>4, ChannelsDiffer DEF Woken
<1>10. \A pj \in Pipes \ {pi} : (ReaderGround(pj) => ReaderGround(pj)') /\ (WriterGround(pj) => WriterGround(pj)')
  BY <1>1, <1>2, <1>3, GroundsElsewhere
<1> QED BY <1>5, <1>6, <1>7, <1>8, <1>9, <1>10, WaitFrame

LEMMA WriteByteWaits ==
  ASSUME TypeOK, RefsInv, EndsOpen, WaitInv, NEW p \in Procs, WriteByte(p)
  PROVE  EndsOpen' /\ WaitInv'
<1>1. At(p, "write") /\ UNCHANGED <<file, ofile, st, chan, killed, torn>> /\ ~Full(pipe[call[p].pi])
  BY DEF WriteByte, Writing, procVars
<1>2. PICK pi \in Pipes : pi = call[p].pi
  BY <1>1, AtRunning DEF RefsInv, UsesEnd, HasEnd, Sending
<1>3. /\ \A pj \in Pipes \ {pi} : pipe'[pj] = pipe[pj]
      /\ pipe'[pi].alloc = pipe[pi].alloc /\ pipe'[pi].readopen = pipe[pi].readopen
      /\ pipe'[pi].writeopen = pipe[pi].writeopen
      /\ \A q \in Procs \ {p} : call'[q] = call[q]
      /\ call'[p].pc = "write" /\ call'[p].pi = pi /\ call'[p].i = call[p].i + 1
  BY <1>2, WriteByteEffect
<1>4. EndsOpen'
  BY <1>1, <1>3, AtRunning, SameFilesEnds
<1>5. Waiting(p)'
  BY <1>1, <1>3, AtRunning, Awake
<1>6. \A q \in Procs \ {p} : StaysPut(q)
  BY <1>1, <1>3 DEF StaysPut
<1>7. ReaderGround(pi) => ReaderGround(pi)'
  <2>1. HasPut(p, pi)'
    BY <1>3, Typed DEF HasPut
  <2> QED BY <1>3, <2>1 DEF ReaderGround
<1>8. ~WriterGround(pi)
  BY <1>1, <1>2 DEF WriterGround
<1>9. \A pj \in Pipes \ {pi} : (ReaderGround(pj) => ReaderGround(pj)') /\ (WriterGround(pj) => WriterGround(pj)')
  BY <1>1, <1>2, <1>3, GroundsElsewhere
<1> QED BY <1>4, <1>5, <1>6, <1>7, <1>8, <1>9, WaitFrame

LEMMA WakeupStays ==
  ASSUME TypeOK, NEW p, NEW c, c # NoChan, wakeup(c), \A q \in Procs \ {p} : call'[q] = call[q]
  PROVE  (\A q \in Procs \ {p} : StaysPut(q)) /\ Woken(p, c) /\ (st[p] = "running" /\ p \in Procs => st'[p] = "running")
<1>1. \A q \in Procs : /\ chan'[q] = IF chan[q] = c THEN NoChan ELSE chan[q]
                       /\ st'[q] = IF chan[q] = c /\ st[q] = "sleeping" THEN "running" ELSE st[q]
  BY WakeupEffect
<1> QED BY <1>1 DEF StaysPut, Woken

LEMMA WriteEndWaits ==
  ASSUME TypeOK, RefsInv, EndsOpen, WaitInv, NEW p \in Procs, WriteEnd(p)
  PROVE  EndsOpen' /\ WaitInv'
<1>1. /\ At(p, "write") /\ Return(p) /\ UNCHANGED <<file, ofile, pipe>> /\ wakeup(RChan(call[p].pi))
      /\ torn' = torn \ {call[p].pi}
  BY DEF WriteEnd
<1>2. PICK pi \in Pipes : pi = call[p].pi
  BY <1>1, AtRunning DEF RefsInv, UsesEnd, HasEnd, Sending
<1>3. call'[p].pc = "user" /\ \A q \in Procs \ {p} : call'[q] = call[q]
  BY <1>1, ReturnEffect, NoCallFields DEF Becomes
<1>4. EndsOpen'
  BY <1>1, <1>3, AtRunning, SameFilesEnds
<1>5. (\A q \in Procs \ {p} : StaysPut(q)) /\ Woken(p, RChan(pi)) /\ st'[p] = "running"
  BY <1>1, <1>2, <1>3, AtRunning, WakeupStays, ChannelsDiffer
<1>6. Waiting(p)'
  BY <1>3, <1>5, Awake
<1>7. WriterGround(pi) => WriterGround(pi)'
  BY <1>1 DEF WriterGround, Full
<1>8. \A pj \in Pipes \ {pi} : (ReaderGround(pj) => ReaderGround(pj)') /\ (WriterGround(pj) => WriterGround(pj)')
  BY <1>1, <1>2, <1>3, GroundsElsewhere
<1> QED BY <1>4, <1>5, <1>6, <1>7, <1>8, WaitFrame

LEMMA ReadEmptyWaits ==
  ASSUME TypeOK, RefsInv, EndsOpen, WaitInv, NEW p \in Procs, ReadEmpty(p)
  PROVE  EndsOpen' /\ WaitInv'
<1>1. /\ At(p, "read-acq") /\ UNCHANGED <<file, ofile, pipe, st, killed, torn>>
      /\ Empty(pipe[call[p].pi]) /\ pipe[call[p].pi].writeopen
  BY DEF ReadEmpty
<1>2. PICK pi \in Pipes : pi = call[p].pi
  BY <1>1, AtRunning DEF RefsInv, UsesEnd, HasEnd, Reading
<1>3. CASE Return(p) /\ UNCHANGED chan
  <2>1. call'[p].pc = "user" /\ \A q \in Procs \ {p} : call'[q] = call[q]
    BY <1>3, ReturnEffect, NoCallFields DEF Becomes
  <2>2. EndsOpen'
    BY <1>1, <2>1, AtRunning, SameFilesEnds
  <2>3. Waiting(p)'
    BY <1>1, <2>1, AtRunning, Awake
  <2> QED BY <1>1, <1>3, <2>1, <2>2, <2>3, AtRunning, QuietWaits
<1>4. CASE call' = [call EXCEPT ![p].pc = "read-zz"] /\ chan' = [chan EXCEPT ![p] = RChan(call[p].pi)]
  <2>1. (\A q \in Procs \ {p} : call'[q] = call[q]) /\ call'[p].pc = "read-zz" /\ call'[p].pi = pi
    BY <1>2, <1>4, GotoEffect DEF PCs, Reading
  <2>2. chan'[p] = RChan(pi) /\ \A q \in Procs \ {p} : chan'[q] = chan[q]
    BY <1>2, <1>4 DEF TypeOK
  <2>3. EndsOpen'
    BY <1>1, <2>1, AtRunning, SameFilesEnds
  <2>4. ReaderGround(pi)'
    BY <1>1, <1>2 DEF ReaderGround, Empty
  <2>5. Waiting(p)'
    <3>1. st'[p] = "running"
      BY <1>1, AtRunning
    <3>2. SleepsOn(p)'
      BY <2>1, <2>2, <3>1 DEF SleepsOn, RChan
    <3>3. ASSUME NEW pj \in Pipes PROVE ReaderWaits(p, pj)' /\ WriterWaits(p, pj)'
      <4>1. WriterWaits(p, pj)'
        BY <2>1, <3>1 DEF WriterWaits, Waits
      <4>2. CASE pj = pi
        BY <2>4, <4>1, <4>2 DEF ReaderWaits, ReaderGround
      <4>3. CASE pj # pi
        BY <2>1, <4>1, <4>3 DEF ReaderWaits, Waits
      <4> QED BY <4>2, <4>3
    <3> QED BY <3>2, <3>3 DEF Waiting
  <2>6. \A q \in Procs \ {p} : StaysPut(q)
    BY <1>1, <2>1, <2>2 DEF StaysPut
  <2>7. \A pj \in Pipes : (ReaderGround(pj) => ReaderGround(pj)') /\ (WriterGround(pj) => WriterGround(pj)')
    BY <1>1, <2>1, AtRunning, GroundsKept DEF ReaderGround, WriterGround
  <2> QED BY <2>3, <2>5, <2>6, <2>7, WaitFrame
<1> QED BY <1>3, <1>4 DEF ReadEmpty

LEMMA ReadCopyWaits ==
  ASSUME TypeOK, RefsInv, EndsOpen, WaitInv, NEW p \in Procs, NEW k \in 0..PIPESIZE, ReadCopy(p, k)
  PROVE  EndsOpen' /\ WaitInv'
<1>1. /\ At(p, "read-acq") /\ Return(p) /\ UNCHANGED <<file, ofile, torn>> /\ wakeup(WChan(call[p].pi))
      /\ LockFree(call[p].pi) /\ ~(Empty(pipe[call[p].pi]) /\ pipe[call[p].pi].writeopen)
  BY DEF ReadCopy
<1>2. PICK pi \in Pipes : pi = call[p].pi
  BY <1>1, AtRunning DEF RefsInv, UsesEnd, HasEnd, Reading
<1>3. call'[p].pc = "user" /\ \A q \in Procs \ {p} : call'[q] = call[q]
  BY <1>1, ReturnEffect, NoCallFields DEF Becomes
<1>4. /\ \A pj \in Pipes \ {pi} : pipe'[pj] = pipe[pj]
      /\ pipe'[pi].alloc = pipe[pi].alloc /\ pipe'[pi].readopen = pipe[pi].readopen
      /\ pipe'[pi].writeopen = pipe[pi].writeopen
  BY <1>2, ReadCopyEffect
<1>5. EndsOpen'
  BY <1>1, <1>3, <1>4, AtRunning, SameFilesEnds
<1>6. (\A q \in Procs \ {p} : StaysPut(q)) /\ Woken(p, WChan(pi)) /\ st'[p] = "running"
  BY <1>1, <1>2, <1>3, AtRunning, WakeupStays, ChannelsDiffer
<1>7. Waiting(p)'
  BY <1>3, <1>6, Awake
\* A reader that waits beside bytes does so because their writer was killed.
<1>8. ReaderGround(pi) => ReaderGround(pi)'
  <2>1. \A q \in Procs : ~HasPut(q, pi)
    BY <1>1, <1>2 DEF LockFree, HasPut
  <2> QED BY <1>1, <1>2, <1>4, <2>1 DEF ReaderGround
<1>9. \A pj \in Pipes \ {pi} : (ReaderGround(pj) => ReaderGround(pj)') /\ (WriterGround(pj) => WriterGround(pj)')
  BY <1>1, <1>2, <1>3, <1>4, GroundsElsewhere
<1> QED BY <1>5, <1>6, <1>7, <1>8, <1>9, WaitFrame

LEMMA sleepWaits == ASSUME TypeOK, RefsInv, EndsOpen, WaitInv, NEW p \in Procs, sleep(p) PROVE EndsOpen' /\ WaitInv'
<1>1. UNCHANGED <<file, ofile, pipe, chan, killed, torn>> /\ st[p] = "running"
  BY DEF sleep, At
<1>2. /\ \A q \in Procs \ {p} : st'[q] = st[q]
      /\ st'[p] = "sleeping" => chan[p] # NoChan
  BY <1>1 DEF sleep, TypeOK, StaysAwake
<1>3. /\ \A q \in Procs \ {p} : call'[q] = call[q]
      /\ call'[p].pi = call[p].pi
      /\ \/ call[p].pc = "write-zz" /\ call'[p].pc = "write-acq"
         \/ call[p].pc = "read-zz" /\ call'[p].pc = "read-acq"
  <2>1. CASE call[p].pc = "write-zz"
    <3>1. call' = [call EXCEPT ![p].pc = "write-acq"]
      BY <2>1 DEF sleep
    <3> QED BY <2>1, <3>1, GotoEffect DEF PCs, Sending
  <2>2. CASE call[p].pc = "read-zz"
    <3>1. call' = [call EXCEPT ![p].pc = "read-acq"]
      BY <2>2 DEF sleep
    <3> QED BY <2>2, <3>1, GotoEffect DEF PCs, Reading
  <2> QED BY <2>1, <2>2 DEF sleep, At
<1>4. EndsOpen'
  BY <1>1, <1>3, SameFilesEnds
<1>5. \A pi \in Pipes : (ReaderGround(pi) => ReaderGround(pi)') /\ (WriterGround(pi) => WriterGround(pi)')
  BY <1>1, <1>3, GroundsKept DEF ReaderGround, WriterGround
<1>6. Waiting(p)'
  <2>1. SleepsOn(p)'
    BY <1>1, <1>2, <1>3 DEF WaitInv, SleepsOn, RChan, WChan
  <2>2. ASSUME NEW pi \in Pipes PROVE ReaderWaits(p, pi)'
    <3> SUFFICES ASSUME Waits(p, "read-zz", "read-acq", pi, RChan(pi))' PROVE ReaderGround(pi)'
      BY DEF ReaderWaits, ReaderGround
    <3>1. Waits(p, "read-zz", "read-acq", pi, RChan(pi))
      BY <1>1, <1>2, <1>3 DEF Waits, WaitInv, SleepsOn
    <3> QED BY <1>5, <3>1 DEF WaitInv, ReaderWaits, ReaderGround
  <2>3. ASSUME NEW pi \in Pipes PROVE WriterWaits(p, pi)'
    <3> SUFFICES ASSUME Waits(p, "write-zz", "write-acq", pi, WChan(pi))' PROVE WriterGround(pi)'
      BY DEF WriterWaits, WriterGround
    <3>1. Waits(p, "write-zz", "write-acq", pi, WChan(pi))
      BY <1>1, <1>2, <1>3 DEF Waits, WaitInv, SleepsOn
    <3> QED BY <1>5, <3>1 DEF WaitInv, WriterWaits, WriterGround
  <2> QED BY <2>1, <2>2, <2>3 DEF Waiting
<1>7. \A q \in Procs \ {p} : StaysPut(q)
  BY <1>1, <1>2, <1>3 DEF StaysPut
<1> QED BY <1>4, <1>5, <1>6, <1>7, WaitFrame

LEMMA AcquireWaits ==
  ASSUME TypeOK, RefsInv, EndsOpen, WaitInv, NEW p \in Procs, Acquire(p)
  PROVE  EndsOpen' /\ WaitInv'
<1>1. /\ At(p, "write-acq") /\ UNCHANGED <<file, ofile, pipe, st, chan, killed, torn>>
      /\ call' = [call EXCEPT ![p].pc = "write"]
  BY DEF Acquire, procVars
<1>2. call'[p].pc = "write" /\ \A q \in Procs \ {p} : call'[q] = call[q]
  BY <1>1, GotoEffect DEF PCs, Sending
<1>3. EndsOpen'
  BY <1>1, <1>2, AtRunning, SameFilesEnds
<1>4. Waiting(p)'
  BY <1>1, <1>2, AtRunning, Awake
<1> QED BY <1>1, <1>2, <1>3, <1>4, AtRunning, QuietWaits

LEMMA TransferWaits ==
  ASSUME TypeOK, RefsInv, EndsOpen, WaitInv, NEW p \in Procs, NEW fd \in Fds, Transfer(p, fd)
  PROVE  EndsOpen' /\ WaitInv'
<1>1. UNCHANGED <<file, ofile, pipe, st, chan, killed, torn>>
  BY DEF Transfer, procVars
<1>2. /\ st[p] = "running" /\ call[p].pc = "user" /\ \A q \in Procs \ {p} : call'[q] = call[q]
      /\ call'[p].pc \in {"write-acq", "read-acq"}
  BY TransferEffect
<1>3. EndsOpen'
  BY <1>1, <1>2, SameFilesEnds
<1>4. Waiting(p)'
  BY <1>1, <1>2, Awake
<1> QED BY <1>1, <1>2, <1>3, <1>4, QuietWaits

LEMMA SysPipeWaits ==
  ASSUME TypeOK, RefsInv, EndsOpen, WaitInv, NEW p \in Procs, SysPipe(p)
  PROVE  EndsOpen' /\ WaitInv'
<1>1. PICK f \in Files :
           /\ file[f].ref = 0 /\ file' = [file EXCEPT ![f].ref = 1]
           /\ st[p] = "running" /\ call[p].pc = "user" /\ call[p].rf = 0 /\ call[p].wf = 0
           /\ call' \in [Procs -> Calls] /\ \A q \in Procs \ {p} : call'[q] = call[q]
           /\ call'[p].pc = "pipe" /\ call'[p].rf = f /\ call'[p].wf = 0
           /\ UNCHANGED <<ofile, pipe, st, chan, killed, torn>>
  BY SysPipeEffect
<1>2. \A g \in Files : file'[g].type = file[g].type /\ file'[g].pipe = file[g].pipe
                       /\ file'[g].writable = file[g].writable
  BY <1>1, FreshOther
<1>3. EndsOpen'
  BY <1>1, <1>2, EndsQuiet
<1>4. Waiting(p)'
  BY <1>1, Awake
<1> QED BY <1>1, <1>3, <1>4, QuietWaits

LEMMA PipeFileWaits ==
  ASSUME TypeOK, RefsInv, EndsOpen, WaitInv, NEW p \in Procs, PipeFile(p)
  PROVE  EndsOpen' /\ WaitInv'
<1>1. /\ st[p] = "running" /\ call[p].pc = "pipe" /\ \A q \in Procs \ {p} : call'[q] = call[q]
      /\ UNCHANGED <<ofile, pipe, st, chan, killed, torn>> /\ call'[p].pc \in {"pipe", "close"}
  BY PipeFileEffect
<1>2. \A g \in Files : file'[g].type = file[g].type /\ file'[g].pipe = file[g].pipe
                       /\ file'[g].writable = file[g].writable
  BY <1>1, FreshOther, PipeFileEffect
<1>3. EndsOpen'
  BY <1>1, <1>2, EndsQuiet
<1>4. Waiting(p)'
  BY <1>1, Awake
<1> QED BY <1>1, <1>3, <1>4, QuietWaits

LEMMA CloseWaits ==
  ASSUME TypeOK, RefsInv, EndsOpen, WaitInv, NEW p \in Procs, st[p] = "running", call[p].pc \in {"user", "exit"},
         NEW f \in Files, Takes(p, "close", f), UNCHANGED <<file, pipe, st, chan, killed, torn>>
  PROVE  EndsOpen' /\ WaitInv'
<1>1. call'[p].pc = "close" /\ \A q \in Procs \ {p} : call'[q] = call[q]
  BY TakeEffect DEF PCs
<1>2. EndsOpen'
  BY <1>1, SameFilesEnds
<1>3. Waiting(p)'
  BY <1>1, Awake
<1> QED BY <1>1, <1>2, <1>3, QuietWaits

LEMMA sys_closeWaits ==
  ASSUME TypeOK, RefsInv, EndsOpen, WaitInv, NEW p \in Procs, NEW fd \in Fds, sys_close(p, fd)
  PROVE  EndsOpen' /\ WaitInv'
<1>1. At(p, "user") /\ ofile[p][fd] # 0 /\ UNCHANGED <<file, pipe, st, chan, killed, torn>>
  BY DEF sys_close, Starts, procVars
<1>2. Takes(p, "close", ofile[p][fd])
  BY DEF sys_close, Takes
<1>3. ofile[p][fd] \in Files
  BY <1>1, Typed
<1> QED BY <1>1, <1>2, <1>3, CloseWaits, AtRunning

LEMMA ExitCloseWaits ==
  ASSUME TypeOK, RefsInv, EndsOpen, WaitInv, NEW p \in Procs, ExitClose(p)
  PROVE  EndsOpen' /\ WaitInv'
<1> DEFINE fd == Min(Fds \ FreeFds(p))
<1>1. fd \in Fds /\ ofile[p][fd] # 0
  BY UsedFdFirst DEF ExitClose
<1>2. /\ At(p, "exit") /\ Takes(p, "close", ofile[p][fd])
      /\ UNCHANGED <<file, pipe, st, chan, killed, torn>>
  BY DEF ExitClose, Takes, procVars
<1> HIDE DEF fd
<1>3. ofile[p][fd] \in Files
  BY <1>1, Typed
<1> QED BY <1>2, <1>3, CloseWaits, AtRunning

LEMMA sys_dupWaits ==
  ASSUME TypeOK, RefsInv, EndsOpen, WaitInv, NEW p \in Procs, NEW fd \in Fds, sys_dup(p, fd)
  PROVE  EndsOpen' /\ WaitInv'
<1>1. At(p, "user") /\ UNCHANGED <<pipe, st, chan, killed, call, torn>>
  BY DEF sys_dup, Starts, procVars
<1>2. EndsOpen'
  BY <1>1, AtRunning, EndsQuiet, sys_dupRefs
<1>3. Waiting(p)'
  BY <1>1, AtRunning, Awake
<1> QED BY <1>1, <1>2, <1>3, AtRunning, QuietWaits

LEMMA kforkWaits ==
  ASSUME TypeOK, RefsInv, EndsOpen, WaitInv, NEW p \in Procs, NEW c \in Procs, kfork(p, c)
  PROVE  EndsOpen' /\ WaitInv'
<1>1. At(p, "user") /\ st[c] = "unused" /\ UNCHANGED <<pipe, chan, killed, call, torn>>
  BY DEF kfork, Starts
<1>2. st'[c] = "running" /\ \A q \in Procs \ {c} : st'[q] = st[q]
  BY DEF kfork, TypeOK
<1>3. call[c].pc = "user"
  BY <1>1 DEF RefsInv, CallShape
<1>4. EndsOpen'
  BY <1>1, <1>3, EndsQuiet, kforkRefs
<1>5. Waiting(c)'
  BY <1>1, <1>2, <1>3, Awake
<1> QED BY <1>1, <1>2, <1>3, <1>4, <1>5, QuietWaits

LEMMA filecloseWaits ==
  ASSUME TypeOK, RefsInv, EndsOpen, WaitInv, NEW p \in Procs, fileclose(p)
  PROVE  EndsOpen' /\ WaitInv'
<1>1. UNCHANGED <<ofile, pipe, st, chan, killed, torn>>
  BY filecloseEffect
<1>2. /\ st[p] = "running" /\ call[p].pc = "close" /\ \A q \in Procs \ {p} : call'[q] = call[q]
      /\ call'[p].pc \in {"close", "exit", "user", "pipeclose"}
  BY filecloseEffect DEF Drops
<1>3. Waiting(p)'
  BY <1>1, <1>2, Awake
<1>4. EndsOpen'
  BY filecloseEnds
<1> QED BY <1>1, <1>2, <1>3, <1>4, QuietWaits

LEMMA PipeFdsWaits ==
  ASSUME TypeOK, RefsInv, EndsOpen, WaitInv, NEW p \in Procs, PipeFds(p)
  PROVE  EndsOpen' /\ WaitInv'
<1>1. st[p] = "running" /\ call[p].pc = "pipe" /\ UNCHANGED <<st, chan, killed, torn>>
  BY PipeFdsEffect
<1>2. call'[p].pc \in {"close", "user"} /\ \A q \in Procs \ {p} : call'[q] = call[q]
  <2>1. CASE GivesUp(p)
    <3>1. call' = [call EXCEPT ![p].pc = "close"] /\ "close" \in PCs
      BY <2>1 DEF GivesUp, PCs
    <3>2. call'[p].pc = "close" /\ \A q \in Procs \ {p} : call'[q] = call[q]
      BY <3>1, GotoEffect
    <3> QED BY <3>2
  <2>2. CASE Installs(p)
    BY <2>2, ReturnEffect, NoCallFields DEF Installs, Becomes
  <2> QED BY <2>1, <2>2, PipeFdsEffect
<1>3. EndsOpen'
  BY PipeFdsEnds
<1>4. Waiting(p)'
  BY <1>1, <1>2, Awake
<1>5. \A q \in Procs \ {p} : StaysPut(q)
  BY <1>1, <1>2 DEF StaysPut
\* Nobody waits at a page that is not a pipe yet.
<1>6. ASSUME NEW pi \in Pipes
      PROVE  (ReaderGround(pi) => ReaderGround(pi)') /\ (WriterGround(pi) => WriterGround(pi)')
  <2>1. CASE pipe'[pi] = pipe[pi]
    BY <1>1, <1>2, <2>1, GroundsKept DEF ReaderGround, WriterGround
  <2>2. CASE ~pipe[pi].alloc
    <3>1. EndOpen(pi, TRUE) /\ EndOpen(pi, FALSE)
      BY EndsOpenParts
    <3>2. ~pipe[pi].readopen /\ ~pipe[pi].writeopen
      BY <2>2, <3>1 DEF EndOpen, IsOpen
    <3> QED BY <3>2 DEF ReaderGround, WriterGround
  <2>3. pipe'[pi] = pipe[pi] \/ ~pipe[pi].alloc
    BY PipeFdsEffect DEF Builds
  <2> QED BY <2>1, <2>2, <2>3
<1> QED BY <1>3, <1>4, <1>5, <1>6, WaitFrame

LEMMA pipecloseWaits ==
  ASSUME TypeOK, RefsInv, EndsOpen, WaitInv, NEW p \in Procs, pipeclose(p)
  PROVE  EndsOpen' /\ WaitInv'
<1>1. PICK pi \in Pipes, w \in BOOLEAN : pi = call[p].pi /\ w = call[p].w
  BY pipecloseEffect
<1> DEFINE rest == IF w THEN pipe[pi].readopen ELSE pipe[pi].writeopen
<1>2. /\ st[p] = "running" /\ call[p].pc = "pipeclose" /\ rest \in BOOLEAN
      /\ \A pj \in Pipes \ {pi} : pipe'[pj] = pipe[pj]
      /\ rest => /\ pipe'[pi].writeopen = (pipe[pi].writeopen /\ ~w)
                 /\ pipe'[pi].readopen = (pipe[pi].readopen /\ w)
                 /\ pipe'[pi].nread = pipe[pi].nread /\ pipe'[pi].nwrite = pipe[pi].nwrite
      /\ \A q \in Procs \ {p} : call'[q] = call[q]
      /\ call'[p] = Closing(call[p])
  BY <1>1, pipecloseEffect
<1>3. call'[p].pc \in {"close", "exit", "user"}
  BY <1>2, Typed, ClosingFields
<1>4. wakeup(EndChan(pi, w)) /\ torn' = (IF w \/ ~rest THEN torn \ {pi} ELSE torn)
  BY <1>1 DEF pipeclose
<1>5. EndsOpen'
  BY pipecloseEnds
<1>6. EndChan(pi, w) # NoChan
  BY ChannelsDiffer DEF EndChan
<1>7. (\A q \in Procs \ {p} : StaysPut(q)) /\ Woken(p, EndChan(pi, w)) /\ st'[p] = "running"
  BY <1>2, <1>4, <1>6, WakeupStays
<1>8. Waiting(p)'
  BY <1>3, <1>7, Awake
<1>9. \A pj \in Pipes \ {pi} : (ReaderGround(pj) => ReaderGround(pj)') /\ (WriterGround(pj) => WriterGround(pj)')
  BY <1>1, <1>2, <1>4, GroundsElsewhere
<1>10. \A q \in Procs : HasPut(q, pi) => HasPut(q, pi)'
  BY <1>2 DEF HasPut
<1>11. CASE w = TRUE
  <2>1. Woken(p, RChan(pi))
    BY <1>7, <1>11 DEF EndChan
  <2>2. WriterGround(pi) => WriterGround(pi)'
    BY <1>2, <1>11 DEF WriterGround, Full
  <2> QED BY <1>5, <1>7, <1>8, <1>9, <2>1, <2>2, WaitFrame
<1>12. CASE w = FALSE
  <2>1. Woken(p, WChan(pi))
    BY <1>7, <1>12 DEF EndChan
  <2>2. ReaderGround(pi) => ReaderGround(pi)'
    BY <1>2, <1>4, <1>10, <1>12 DEF ReaderGround, Empty
  <2> QED BY <1>5, <1>7, <1>8, <1>9, <2>1, <2>2, WaitFrame
<1> QED BY <1>11, <1>12

-----------------------------------------------------------------------------
(* The theorems.                                                            *)

LEMMA InitInv == ASSUME Init PROVE PipeInv
<1>1. NoPipe \in PipeRecs /\ NoCall \in Calls
  BY NoPipeFields, NoCallFields
<1>2. NoFile \in FileRecs /\ NoFile.ref = 0 /\ NoFile.type = "none"
  BY DEF NoFile, FileRecs
<1>3. TypeOK
  BY <1>1, <1>2 DEF Init, TypeOK, Chans
<1>4. FileRefs
  <2>1. \A p \in Procs, k \in Places : Held(p, k) = 0
    BY NoCallFields, Sizes DEF Init, Held
  <2>2. \A f \in Files : Uses(f) = {}
    BY <2>1, Sizes DEF Uses
  <2>3. \A f \in Files : Cardinality(Uses(f)) = 0 /\ file[f].ref = 0
    BY <1>2, <2>2, FS_EmptySet DEF Init
  <2> QED BY <2>3 DEF FileRefs, Uses
<1>5. FileShape
  BY <1>2 DEF Init, FileShape
<1>6. \A p \in Procs : CallShape(p) /\ UsesEnd(p)
  BY NoCallFields DEF Init, CallShape, UsesEnd, Reading, Sending
<1>7. EndsOpen
  <2>1. ASSUME NEW pi \in Pipes, NEW w \in BOOLEAN PROVE EndOpen(pi, w)
    <3>1. Ends(pi, w) = {} /\ Closers(pi, w) = {}
      BY <1>2, NoCallFields DEF Init, Ends, Closers
    <3>2. Cardinality(Ends(pi, w)) = 0 /\ Cardinality(Closers(pi, w)) = 0
      BY <3>1, FS_EmptySet
    <3>3. pipe[pi] = NoPipe
      BY DEF Init
    <3> QED BY <3>2, <3>3, NoPipeFields DEF EndOpen, IsOpen
  <2> QED BY <2>1, EndsOpenParts
<1>8. WaitInv
  BY NoCallFields DEF Init, WaitInv, SleepsOn, ReaderWaits, WriterWaits, Waits
<1> QED BY <1>3, <1>4, <1>5, <1>6, <1>7, <1>8 DEF PipeInv, RefsInv

LEMMA StepInv == ASSUME PipeInv, NEW p \in Procs, Step(p) PROVE PipeInv'
<1> USE DEF PipeInv
<1>1. CASE PipeFile(p)  BY <1>1, PipeFileRefs, PipeFileWaits
<1>2. CASE PipeFds(p)  BY <1>2, PipeFdsRefs, PipeFdsWaits
<1>3. CASE fileclose(p)  BY <1>3, filecloseRefs, filecloseWaits
<1>4. CASE ExitClose(p)  BY <1>4, ExitCloseRefs, ExitCloseWaits
<1>5. CASE Exited(p)  BY <1>5, ExitedRefs, ExitedWaits
<1>6. CASE pipeclose(p)  BY <1>6, pipecloseRefs, pipecloseWaits
<1>7. CASE WriteFails(p)  BY <1>7, WriteFailsRefs, WriteFailsWaits
<1>8. CASE WriteFull(p)  BY <1>8, WriteFullRefs, WriteFullWaits
<1>9. CASE WriteByte(p)  BY <1>9, WriteByteRefs, WriteByteWaits
<1>10. CASE WriteEnd(p)  BY <1>10, WriteEndRefs, WriteEndWaits
<1>11. CASE ReadEmpty(p)  BY <1>11, ReadEmptyRefs, ReadEmptyWaits
<1>12. CASE sleep(p)  BY <1>12, sleepRefs, sleepWaits
<1>13. CASE Acquire(p)  BY <1>13, AcquireRefs, AcquireWaits
<1> QED BY <1>1, <1>2, <1>3, <1>4, <1>5, <1>6, <1>7, <1>8, <1>9, <1>10, <1>11, <1>12, <1>13 DEF Step

LEMMA NextInv == ASSUME PipeInv, Next PROVE PipeInv'
<1> USE DEF PipeInv
<1>1. PICK p \in Procs :
        \/ \E k \in 0..PIPESIZE : ReadCopy(p, k)
        \/ Step(p) \/ SysPipe(p) \/ kexit(p) \/ kkill(p)
        \/ \E c \in Procs : kfork(p, c)
        \/ \E fd \in Fds : sys_dup(p, fd) \/ sys_close(p, fd) \/ Transfer(p, fd)
  BY DEF Next
<1>2. ASSUME NEW k \in 0..PIPESIZE, ReadCopy(p, k) PROVE PipeInv'
  BY <1>2, ReadCopyRefs, ReadCopyWaits
<1>3. CASE Step(p)  BY <1>3, StepInv
<1>4. CASE SysPipe(p)  BY <1>4, SysPipeRefs, SysPipeWaits
<1>5. CASE kexit(p)  BY <1>5, kexitRefs, kexitWaits
<1>6. CASE kkill(p)  BY <1>6, kkillRefs, kkillWaits
<1>7. ASSUME NEW c \in Procs, kfork(p, c) PROVE PipeInv'
  BY <1>7, kforkRefs, kforkWaits
<1>8. ASSUME NEW fd \in Fds, sys_dup(p, fd) PROVE PipeInv'
  BY <1>8, sys_dupRefs, sys_dupWaits
<1>9. ASSUME NEW fd \in Fds, sys_close(p, fd) PROVE PipeInv'
  BY <1>9, sys_closeRefs, sys_closeWaits
<1>10. ASSUME NEW fd \in Fds, Transfer(p, fd) PROVE PipeInv'
  BY <1>10, TransferRefs, TransferWaits
<1> QED BY <1>1, <1>2, <1>3, <1>4, <1>5, <1>6, <1>7, <1>8, <1>9, <1>10

LEMMA StutterInv == ASSUME PipeInv, UNCHANGED vars PROVE PipeInv'
<1>1. UNCHANGED <<file, ofile, pipe, st, chan, killed, call, torn>>
  BY DEF vars
<1>2. TypeOK'
  BY <1>1 DEF PipeInv, TypeOK
<1>3. RefsInv'
  <2>1. FileRefs'
    BY <1>1, HeldSame, RefsSame DEF PipeInv, RefsInv
  <2>2. FileShape' /\ \A p \in Procs : CallShape(p)' /\ UsesEnd(p)'
    BY <1>1, CallShapeFrame, UsesEndFrame DEF PipeInv, RefsInv, FileShape, Fresh
  <2> QED BY <2>1, <2>2 DEF RefsInv
<1>4. EndsOpen'
  <2>1. \A pi \in Pipes, w \in BOOLEAN : Ends(pi, w)' = Ends(pi, w) /\ Closers(pi, w)' = Closers(pi, w)
    BY <1>1 DEF Ends, Closers
  <2> QED BY <1>1, <2>1, EndOpenFrame, EndsOpenParts, EndsOpenPartsNext DEF PipeInv
<1>5. WaitInv'
  BY <1>1 DEF PipeInv, WaitInv, SleepsOn, ReaderWaits, WriterWaits, Waits, Empty, Full, HasPut
<1> QED BY <1>2, <1>3, <1>4, <1>5 DEF PipeInv

\* Types, reference counts, open ends and waiting keep one another right: the inductive
\* invariant of the file table and the pipes.
THEOREM PipeInvariant == Spec => []PipeInv
<1>1. Init => PipeInv
  BY InitInv
<1>2. PipeInv /\ [Next]_vars => PipeInv'
  BY NextInv, StutterInv
<1> QED BY <1>1, <1>2, PTL DEF Spec

\* A file's count is the number of descriptors and calls that refer to it, and an end of a
\* pipe is open exactly while a file stands for it or its last close is on the way to
\* pipeclose(): through every failure of pipe(), and any interleaving of fork, dup, close
\* and exit, fileclose() frees no file in use and pipeclose() no page in use.
THEOREM RefsExactCorrect == Spec => []RefsExact
<1>1. PipeInv => RefsExact
  BY DEF PipeInv, RefsInv, RefsExact
<1> QED BY <1>1, PipeInvariant, PTL

LEMMA NoLostWakeupFollows == ASSUME PipeInv PROVE NoLostWakeup
<1> SUFFICES ASSUME NEW p \in Procs, NEW pi \in Pipes, LockFree(pi)
             PROVE  /\ Waits(p, "read-zz", "read-acq", pi, RChan(pi)) =>
                          pipe[pi].writeopen /\ (Empty(pipe[pi]) \/ pi \in torn)
                    /\ Waits(p, "write-zz", "write-acq", pi, WChan(pi)) => pipe[pi].readopen /\ Full(pipe[pi])
  BY DEF NoLostWakeup
<1>1. \A q \in Procs : ~HasPut(q, pi)
  BY DEF LockFree, HasPut
<1>2. ReaderWaits(p, pi) /\ WriterWaits(p, pi)
  BY DEF PipeInv, WaitInv
<1> QED BY <1>1, <1>2 DEF ReaderWaits, WriterWaits

\* No wakeup is lost between sleep_prepare() and sleep(): whenever the pipe's lock is free a
\* reader of piperead() waits only for bytes that are not there and may still come, unless a
\* writer killed in the middle of pipewrite() left some, and a writer only for room that is
\* not there and may still be made.
THEOREM NoLostWakeupCorrect == Spec => []NoLostWakeup
<1>1. PipeInv => NoLostWakeup
  BY NoLostWakeupFollows
<1> QED BY <1>1, PipeInvariant, PTL


-----------------------------------------------------------------------------
(* The slots of the ring.                                                   *)

LEMMA Remainder ==
  ASSUME NEW S \in Nat \ {0}, NEW k \in Int, NEW r \in 0..(S - 1), NEW x \in Int, x = S * k + r
  PROVE  x % S = r
  OBVIOUS

LEMMA Quotient ==
  ASSUME NEW S \in Nat \ {0}, NEW x \in Nat
  PROVE  \E k \in Nat : x = S * k + (x % S) /\ x % S \in 0..(S - 1)
<1> DEFINE R == {r \in Nat : \E k \in Nat : x = S * k + r}
<1>1. x \in R
  <2>1. x = S * 0 + x
    OBVIOUS
  <2> QED BY <2>1
<1>2. PICK r \in R : \A y \in R : r <= y
  <2> HIDE DEF R
  <2>1. R \in SUBSET Nat
    BY DEF R
  <2> QED BY <1>1, <2>1, SmallestExists
<1>3. PICK k \in Nat : x = S * k + r
  OBVIOUS
<1>4. ASSUME r >= S PROVE FALSE
  <2>1. x = S * (k + 1) + (r - S)
    BY <1>3
  <2>2. r - S \in Nat /\ k + 1 \in Nat
    BY <1>4
  <2>3. r - S \in R
    BY <2>1, <2>2
  <2>4. r \in Nat /\ r <= r - S
    BY <2>3, <1>2
  <2> QED BY <2>4
<1>5. r \in 0..(S - 1)
  BY <1>4
<1>6. x % S = r
  BY <1>5, <1>3, Remainder
<1> QED BY <1>3, <1>5, <1>6

LEMMA Distributes ==
  ASSUME NEW a \in Int, NEW b \in Int, NEW c \in Int
  PROVE  a * (b + c) = a * b + a * c /\ a * b \in Int /\ a * c \in Int
  OBVIOUS

\* The counters wrap around at a multiple of the size of the ring.
LEMMA SlotWraps == ASSUME NEW x \in Nat PROVE Slot(x + WORD) = Slot(x)
<1> DEFINE S == PIPESIZE
<1>1. S \in Nat \ {0} /\ WORD \in Nat /\ WORD % S = 0
  BY PipeAssumption
<1> HIDE DEF S
<1>2. PICK k \in Nat : x = S * k + (x % S) /\ x % S \in 0..(S - 1)
  BY <1>1, Quotient
<1>3. PICK j \in Nat : WORD = S * j + (WORD % S)
  BY <1>1, Quotient
<1>4. PICK r \in 0..(S - 1) : r = x % S
  BY <1>2
<1>5. S * (k + j) = S * k + S * j /\ S * k \in Int /\ S * j \in Int
  BY <1>1, Distributes
<1>6. x = S * k + r /\ WORD = S * j
  BY <1>1, <1>2, <1>3, <1>4, <1>5
<1>7. PICK y \in Int : y = x + WORD
  BY <1>1
<1>8. PICK m \in Int : m = k + j
  OBVIOUS
<1>9. y = S * m + r
  BY <1>5, <1>6, <1>7, <1>8
<1>10. y % S = r
  BY <1>1, <1>9, Remainder
<1> QED BY <1>10, <1>7, <1>4 DEF Slot, S

\* Bytes less than the size of the ring apart are in different slots.
LEMMA SlotsDiffer == ASSUME NEW n \in Nat, NEW d \in 1..(PIPESIZE - 1) PROVE Slot(n + d) # Slot(n)
<1> DEFINE S == PIPESIZE
<1>1. S \in Nat \ {0} /\ d \in 1..(S - 1)
  BY PipeAssumption
<1> HIDE DEF S
<1>2. PICK k \in Nat : n = S * k + (n % S) /\ n % S \in 0..(S - 1)
  BY <1>1, Quotient
<1>3. PICK r \in 0..(S - 1) : r = n % S /\ n = S * k + r
  BY <1>2
<1>4. S * (k + 1) = S * k + S /\ S * k \in Int
  BY <1>1
<1>5. PICK y \in Int : y = n + d
  BY <1>1
<1>6. CASE r + d < S
  <2>1. PICK t \in 0..(S - 1) : t = r + d
    BY <1>1, <1>6
  <2>2. y = S * k + t
    BY <1>1, <1>3, <1>4, <1>5, <2>1
  <2>3. y % S = t
    BY <1>1, <2>2, Remainder
  <2> QED BY <1>1, <1>3, <1>5, <2>1, <2>3 DEF Slot, S
<1>7. CASE r + d >= S
  <2>1. PICK t \in 0..(S - 1) : t = r + d - S
    BY <1>1, <1>7
  <2>2. PICK m \in Int : m = k + 1
    OBVIOUS
  <2>3. y = S * m + t
    BY <1>1, <1>3, <1>4, <1>5, <2>1, <2>2
  <2>4. y % S = t
    BY <1>1, <2>3, Remainder
  <2> QED BY <1>1, <1>3, <1>5, <2>1, <2>4 DEF Slot, S
<1> QED BY <1>1, <1>6, <1>7

-----------------------------------------------------------------------------
(* A pipe is a byte stream.                                                 *)

LEMMA AmountIs ==
  ASSUME NEW x \in PipeRecs
  PROVE  /\ Amount(x) = IF x.nwrite >= x.nread THEN x.nwrite - x.nread ELSE x.nwrite - x.nread + WORD
         /\ Amount(x) \in 0..(WORD - 1)
<1>1. ASSUME NEW a \in 0..(WORD - 1), NEW b \in 0..(WORD - 1)
      PROVE  /\ (a - b) % WORD = IF a >= b THEN a - b ELSE a - b + WORD
             /\ (a - b) % WORD \in 0..(WORD - 1)
  BY Sizes
<1>2. x.nwrite \in 0..(WORD - 1) /\ x.nread \in 0..(WORD - 1)
  BY DEF PipeRecs
<1> QED BY <1>1, <1>2 DEF Amount

LEMMA Advances ==
  ASSUME NEW a \in 0..(WORD - 1), NEW k \in 0..(WORD - 1)
  PROVE  (a + k) % WORD = IF a + k >= WORD THEN a + k - WORD ELSE a + k
  BY Sizes

\* There is room exactly while the ring holds less than its size.
LEMMA RoomLeft ==
  ASSUME NEW x \in PipeRecs, Amount(x) <= PIPESIZE, ~Full(x)
  PROVE  Amount(x) < PIPESIZE
<1>1. x.nread \in 0..(WORD - 1) /\ x.nwrite \in 0..(WORD - 1) /\ PIPESIZE \in 0..(WORD - 1)
  BY Sizes DEF PipeRecs
<1>2. (x.nread + PIPESIZE) % WORD = IF x.nread + PIPESIZE >= WORD THEN x.nread + PIPESIZE - WORD ELSE x.nread + PIPESIZE
  BY <1>1, Advances
<1>3. PICK m \in Int : m = (x.nread + PIPESIZE) % WORD
  BY <1>1, <1>2, Sizes
<1> QED BY <1>1, <1>2, <1>3, AmountIs, Sizes, SMTT(30) DEF Full

\* The next byte goes behind the ones that are there.
LEMMA NextSlot ==
  ASSUME NEW x \in PipeRecs
  PROVE  Slot(x.nwrite) = Slot(x.nread + Amount(x))
<1>1. x.nread \in 0..(WORD - 1) /\ x.nwrite \in 0..(WORD - 1)
  BY DEF PipeRecs
<1>2. x.nread + Amount(x) = x.nwrite \/ x.nread + Amount(x) = x.nwrite + WORD
  BY <1>1, AmountIs, Sizes
<1>3. Slot(x.nwrite + WORD) = Slot(x.nwrite)
  BY <1>1, SlotWraps, Sizes
<1> QED BY <1>2, <1>3

LEMMA ContentsSeq ==
  ASSUME NEW x \in PipeRecs, x.alloc
  PROVE  /\ Contents(x) \in Seq(Bytes) /\ Len(Contents(x)) = Amount(x) /\ Amount(x) \in Nat
         /\ \A k \in 1..Amount(x) : /\ Contents(x)[k] = x.data[Slot(x.nread + k - 1)]
                                    /\ Slot(x.nread + k - 1) \in 0..(PIPESIZE - 1)
<1> DEFINE n == Amount(x)
           r == x.nread
<1>1. Contents(x) = [k \in 1..n |-> x.data[Slot(r + k - 1)]]
  BY DEF Contents, Amount
<1>2. r \in Nat /\ n \in Nat /\ x.data \in [0..(PIPESIZE - 1) -> Bytes]
  BY AmountIs, Sizes DEF PipeRecs
<1> HIDE DEF n, r
<1>3. \A k \in 1..n : Slot(r + k - 1) \in 0..(PIPESIZE - 1)
  <2>1. \A k \in 1..n : r + k - 1 \in Int
    BY <1>2
  <2> QED BY <2>1, ModRange
<1>4. \A k \in 1..n : x.data[Slot(r + k - 1)] \in Bytes
  BY <1>2, <1>3
<1>5. Contents(x) \in Seq(Bytes)
  BY <1>1, <1>2, <1>4
<1>6. Len(Contents(x)) = n
  BY <1>1, <1>2, <1>5, LenProperties
<1> QED BY <1>1, <1>2, <1>3, <1>5, <1>6 DEF n, r

\* WriteByte() puts one byte at the end of the contents and overwrites none.
LEMMA PutAppends ==
  ASSUME NEW x \in PipeRecs, NEW y \in PipeRecs, x.alloc, y.alloc, Amount(x) < PIPESIZE, NEW b \in Bytes,
         y.nread = x.nread, y.nwrite = (x.nwrite + 1) % WORD, y.data = [x.data EXCEPT ![Slot(x.nwrite)] = b]
  PROVE  Amount(y) = Amount(x) + 1 /\ Contents(y) = Append(Contents(x), b)
<1> DEFINE n == Amount(x)
           r == x.nread
<1>1. /\ r \in 0..(WORD - 1) /\ x.nwrite \in 0..(WORD - 1) /\ y.nwrite \in 0..(WORD - 1) /\ 1 \in 0..(WORD - 1)
      /\ x.data \in [0..(PIPESIZE - 1) -> Bytes]
  BY Sizes DEF PipeRecs
<1>2. y.nwrite = IF x.nwrite + 1 >= WORD THEN x.nwrite + 1 - WORD ELSE x.nwrite + 1
  BY <1>1, Advances
<1>3. n \in 0..(PIPESIZE - 1) /\ n \in Nat
  BY AmountIs, Sizes
<1>4. Amount(y) = n + 1
  <2>1. PICK a \in 0..(WORD - 1) : a = x.nwrite
    BY <1>1
  <2>2. PICK c \in 0..(WORD - 1) : c = y.nwrite
    BY <1>1
  <2>3. c = IF a + 1 >= WORD THEN a + 1 - WORD ELSE a + 1
    BY <1>2, <2>1, <2>2
  <2>4. n = IF a >= r THEN a - r ELSE a - r + WORD
    BY <2>1, AmountIs
  <2>5. Amount(y) = IF c >= r THEN c - r ELSE c - r + WORD
    BY <2>2, AmountIs
  <2> HIDE DEF n, r
  <2> QED BY <1>1, <1>3, <2>3, <2>4, <2>5, Sizes
<1>5. /\ Contents(y) \in Seq(Bytes) /\ Len(Contents(y)) = n + 1
      /\ \A k \in 1..(n + 1) : Contents(y)[k] = y.data[Slot(r + k - 1)]
  BY <1>4, ContentsSeq
<1>6. /\ Contents(x) \in Seq(Bytes) /\ Len(Contents(x)) = n
      /\ \A k \in 1..n : Contents(x)[k] = x.data[Slot(r + k - 1)] /\ Slot(r + k - 1) \in 0..(PIPESIZE - 1)
  BY ContentsSeq
<1>7. Slot(x.nwrite) = Slot(r + n)
  BY NextSlot
<1>8. ASSUME NEW k \in 1..n PROVE y.data[Slot(r + k - 1)] = x.data[Slot(r + k - 1)]
  <2>1. PICK a \in Nat : a = r + k - 1
    BY <1>1, <1>3
  <2>2. PICK d \in 1..(PIPESIZE - 1) : d = n - k + 1
    BY <1>3, Sizes
  <2>3. a + d = r + n
    BY <1>1, <1>3, <2>1, <2>2, SMTT(30)
  <2>4. Slot(a) # Slot(r + n)
    BY <2>3, SlotsDiffer
  <2>5. Slot(r + k - 1) # Slot(x.nwrite)
    BY <2>1, <2>4, <1>7
  <2> QED BY <1>1, <1>6, <2>5
<1>9. y.data[Slot(r + (n + 1) - 1)] = b
  <2>1. r + (n + 1) - 1 = r + n
    BY <1>1, <1>3
  <2>2. x.nwrite \in Int
    BY <1>1, Sizes
  <2>3. Slot(x.nwrite) \in 0..(PIPESIZE - 1)
    BY <2>2, ModRange
  <2> QED BY <1>1, <1>7, <2>1, <2>3
<1> DEFINE B == Append(Contents(x), b)
<1>10. /\ B \in Seq(Bytes) /\ Len(B) = n + 1 /\ B[n + 1] = b
       /\ \A k \in 1..n : B[k] = Contents(x)[k]
  BY <1>6, AppendProperties
<1> HIDE DEF n, B
<1>11. \A k \in 1..(n + 1) : Contents(y)[k] = B[k]
  <2>1. \A k \in 1..(n + 1) : k \in 1..n \/ k = n + 1
    BY <1>3
  <2>2. n + 1 \in 1..(n + 1) /\ 1..n \subseteq 1..(n + 1)
    BY <1>3
  <2>3. ASSUME NEW k \in 1..n PROVE Contents(y)[k] = B[k]
    <3>1. Contents(y)[k] = y.data[Slot(r + k - 1)]
      BY <1>5, <2>2
    <3>2. B[k] = x.data[Slot(r + k - 1)]
      BY <1>6, <1>10
    <3> QED BY <1>8, <3>1, <3>2
  <2>4. Contents(y)[n + 1] = B[n + 1]
    <3>1. Contents(y)[n + 1] = y.data[Slot(r + (n + 1) - 1)]
      BY <1>5, <2>2
    <3> QED BY <1>9, <1>10, <3>1
  <2> QED BY <2>1, <2>3, <2>4
<1>12. Contents(y) = B
  BY <1>5, <1>10, <1>11, SeqEqual
<1> QED BY <1>4, <1>12 DEF B, n

\* ReadCopy() takes the k oldest bytes off the front.
LEMMA GetTakes ==
  ASSUME NEW x \in PipeRecs, NEW y \in PipeRecs, x.alloc, y.alloc, NEW k \in 0..Amount(x),
         y.nread = (x.nread + k) % WORD, y.nwrite = x.nwrite, y.data = x.data
  PROVE  /\ Amount(y) = Amount(x) - k
         /\ [j \in 1..k |-> x.data[Slot(x.nread + j - 1)]] = SubSeq(Contents(x), 1, k)
         /\ Contents(y) = SubSeq(Contents(x), k + 1, Len(Contents(x)))
<1> DEFINE n == Amount(x)
           r == x.nread
           s == y.nread
           out == [j \in 1..k |-> x.data[Slot(r + j - 1)]]
           A == SubSeq(Contents(x), 1, k)
           B == SubSeq(Contents(x), k + 1, n)
<1>1. /\ r \in 0..(WORD - 1) /\ x.nwrite \in 0..(WORD - 1) /\ n \in 0..(WORD - 1) /\ n \in Nat /\ k \in 0..(WORD - 1)
      /\ x.data \in [0..(PIPESIZE - 1) -> Bytes] /\ s \in 0..(WORD - 1) /\ k \in 0..n
  BY AmountIs, Sizes DEF PipeRecs
<1>2. s = IF r + k >= WORD THEN r + k - WORD ELSE r + k
  BY <1>1, Advances
<1>3. Amount(y) = n - k
  <2>1. PICK a \in 0..(WORD - 1) : a = x.nwrite
    BY <1>1
  <2>2. n = IF a >= r THEN a - r ELSE a - r + WORD
    BY <2>1, AmountIs
  <2>3. Amount(y) = IF a >= s THEN a - s ELSE a - s + WORD
    BY <2>1, AmountIs
  <2>4. k <= n
    BY <1>1
  <2> HIDE DEF n, r, s
  <2> QED BY <1>1, <1>2, <2>2, <2>3, <2>4, Sizes
<1>4. /\ Contents(x) \in Seq(Bytes) /\ Len(Contents(x)) = n
      /\ \A j \in 1..n : /\ Contents(x)[j] = x.data[Slot(r + j - 1)] /\ Slot(r + j - 1) \in 0..(PIPESIZE - 1)
                         /\ Contents(x)[j] \in Bytes
  BY <1>1, ContentsSeq
<1>5. /\ Contents(y) \in Seq(Bytes) /\ Len(Contents(y)) = n - k
      /\ \A j \in 1..(n - k) : Contents(y)[j] = x.data[Slot(s + j - 1)]
  BY <1>3, ContentsSeq
<1> HIDE DEF n, r, s
<1>6. /\ A \in Seq(Bytes) /\ Len(A) = k /\ \A j \in 1..k : A[j] = Contents(x)[j]
  <2>1. \A j \in 1..k : Contents(x)[j] \in Bytes
    BY <1>1, <1>4
  <2>2. /\ A \in Seq(Bytes) /\ Len(A) = (IF 1 <= k THEN k - 1 + 1 ELSE 0)
        /\ \A j \in 1..(k - 1 + 1) : A[j] = Contents(x)[1 + j - 1]
    BY <1>1, <2>1, SubSeqProperties
  <2>3. k - 1 + 1 = k /\ \A j \in 1..k : 1 + j - 1 = j
    BY <1>1
  <2> QED BY <1>1, <2>2, <2>3
<1>7. /\ B \in Seq(Bytes) /\ Len(B) = n - k /\ \A j \in 1..(n - k) : B[j] = Contents(x)[k + j]
  <2>1. \A j \in (k + 1)..n : Contents(x)[j] \in Bytes
    BY <1>1, <1>4
  <2>2. /\ B \in Seq(Bytes) /\ Len(B) = (IF k + 1 <= n THEN n - (k + 1) + 1 ELSE 0)
        /\ \A j \in 1..(n - (k + 1) + 1) : B[j] = Contents(x)[k + 1 + j - 1]
    BY <1>1, <2>1, SubSeqProperties
  <2>3. n - (k + 1) + 1 = n - k /\ \A j \in 1..(n - k) : k + 1 + j - 1 = k + j
    BY <1>1
  <2>4. B \in Seq(Bytes) /\ \A j \in 1..(n - k) : B[j] = Contents(x)[k + j]
    BY <2>2, <2>3
  <2>5. Len(B) = n - k
    <3>1. CASE k + 1 <= n
      BY <1>1, <2>2, <2>3, <3>1
    <3>2. CASE ~(k + 1 <= n)
      BY <1>1, <2>2, <3>2
    <3> QED BY <3>1, <3>2
  <2> QED BY <2>4, <2>5
<1>8. out = A
  <2>1. \A j \in 1..k : j \in 1..n
    BY <1>1
  <2>2. A = [j \in 1..k |-> A[j]]
    BY <1>6, LenProperties
  <2> HIDE DEF A
  <2>3. \A j \in 1..k : out[j] = A[j]
    BY <1>4, <1>6, <2>1
  <2> QED BY <2>2, <2>3
<1>9. Contents(y) = B
  <2>1. ASSUME NEW j \in 1..(n - k) PROVE Slot(s + j - 1) = Slot(r + (k + j) - 1) /\ k + j \in 1..n
    <3>1. PICK a \in Nat : a = s + j - 1
      BY <1>1
    <3>2. r + (k + j) - 1 = a \/ r + (k + j) - 1 = a + WORD
      BY <1>1, <1>2, <3>1, Sizes
    <3>3. Slot(a + WORD) = Slot(a)
      BY <3>1, SlotWraps
    <3> QED BY <1>1, <3>1, <3>2, <3>3
  <2> HIDE DEF B
  <2>2. \A j \in 1..(n - k) : Contents(y)[j] = B[j]
    BY <1>4, <1>5, <1>7, <2>1
  <2> QED BY <1>5, <1>7, <2>2, SeqEqual
<1> QED BY <1>3, <1>4, <1>8, <1>9 DEF n, r

\* The stream seen by a user: what the ring holds, and its open ends.
Q == [pi \in Pipes |-> Contents(pipe[pi])]
O == [pi \in Pipes |-> OpenEnds(pipe[pi])]

LEMMA OneStream ==
  ASSUME NEW pi \in Pipes, \A pj \in Pipes \ {pi} : pipe'[pj] = pipe[pj]
  PROVE  /\ Q' = [Q EXCEPT ![pi] = Contents(pipe'[pi])] /\ Q[pi] = Contents(pipe[pi])
         /\ O' = [O EXCEPT ![pi] = OpenEnds(pipe'[pi])] /\ O[pi] = OpenEnds(pipe[pi])
  BY DEF Q, O

LEMMA SameStream ==
  ASSUME NEW pi \in Pipes
  PROVE  Q = [Q EXCEPT ![pi] = Contents(pipe[pi])] /\ O = [O EXCEPT ![pi] = OpenEnds(pipe[pi])]
  BY DEF Q, O

LEMMA OpenEndsIs ==
  ASSUME NEW x \in PipeRecs
  PROVE  /\ OpenEnds(x) \subseteq {"r", "w"}
         /\ "r" \in OpenEnds(x) <=> x.readopen
         /\ "w" \in OpenEnds(x) <=> x.writeopen
  BY DEF OpenEnds

\* Who has an end of a pipe in a descriptor finds it open.
LEMMA EndInUse ==
  ASSUME TypeOK, RefsInv, EndsOpen, NEW p \in Procs, NEW w \in BOOLEAN, HasEnd(p, w)
  PROVE  IsOpen(call[p].pi, w) /\ pipe[call[p].pi].alloc /\ call[p].pi \in Pipes
<1>1. PICK pi \in Pipes : pi = call[p].pi
  BY DEF HasEnd
<1>2. PICK fd \in Fds : /\ ofile[p][fd] # 0 /\ file[ofile[p][fd]].pipe = pi
                        /\ file[ofile[p][fd]].writable = w
  BY <1>1 DEF HasEnd
<1>3. ofile[p][fd] \in Files /\ file[ofile[p][fd]].type = "pipe"
  BY <1>2 DEF TypeOK, RefsInv, FileShape
<1>4. ofile[p][fd] \in Ends(pi, w)
  BY <1>2, <1>3 DEF Ends
<1>5. Cardinality(Ends(pi, w)) # 0
  BY <1>4, EndsFinite, FS_EmptySet
<1>6. EndOpen(pi, w)
  BY EndsOpenParts
<1>7. IsOpen(pi, w)
  BY <1>5, <1>6, EndsFinite DEF EndOpen
<1> QED BY <1>1, <1>6, <1>7 DEF EndOpen

LEMMA QuietStream ==
  ASSUME RingInv, UNCHANGED pipe, last' = <<>>
  PROVE  RingInv' /\ Stream!Next
<1>1. Q' = Q /\ O' = O
  BY DEF Q, O
<1>2. Stream!Idle
  BY <1>1 DEF Stream!Idle, Q, O
<1>3. RingInv'
  BY DEF RingInv
<1> QED BY <1>2, <1>3 DEF Stream!Next

LEMMA WriteByteStream ==
  ASSUME PipeInv, RingInv, NEW p \in Procs, WriteByte(p), last' = <<>>
  PROVE  RingInv' /\ Stream!Next
<1> USE DEF PipeInv
<1>1. At(p, "write") /\ pipe[call[p].pi].readopen /\ ~Full(pipe[call[p].pi])
  BY DEF WriteByte, Writing
<1>2. HasEnd(p, TRUE)
  BY <1>1, AtRunning DEF RefsInv, UsesEnd, Sending
<1>3. PICK pi \in Pipes : pi = call[p].pi
  BY <1>2, EndInUse
<1>4. pipe[pi].writeopen /\ pipe[pi].alloc
  BY <1>2, <1>3, EndInUse DEF IsOpen
<1>5. PICK b \in Bytes : b = Source[p][call[p].i + 1]
  BY WriteByteEffect
<1> DEFINE x == pipe[pi]
           y == pipe'[pi]
<1>6. /\ y \in PipeRecs /\ \A pj \in Pipes \ {pi} : pipe'[pj] = pipe[pj]
      /\ y.data = [x.data EXCEPT ![Slot(x.nwrite)] = b] /\ y.nwrite = (x.nwrite + 1) % WORD /\ y.nread = x.nread
      /\ y.alloc = x.alloc /\ y.readopen = x.readopen /\ y.writeopen = x.writeopen
  BY <1>3, <1>5, WriteByteEffect
<1>7. x \in PipeRecs /\ RingOK(x)
  BY TypedPipe DEF RingInv
<1>8. Amount(x) < PIPESIZE
  BY <1>1, <1>3, <1>7, RoomLeft DEF RingOK
<1>9. Amount(y) = Amount(x) + 1 /\ Contents(y) = Append(Contents(x), b)
  BY <1>4, <1>6, <1>7, <1>8, PutAppends
<1>10. OpenEnds(x) = {"r", "w"} /\ OpenEnds(y) = OpenEnds(x)
  BY <1>1, <1>3, <1>4, <1>6 DEF OpenEnds
<1>11. Len(Contents(x)) < PIPESIZE
  BY <1>4, <1>7, <1>8, ContentsSeq
<1>12. RingInv'
  <2>1. Amount(y) <= PIPESIZE
    BY <1>7, <1>8, <1>9, AmountIs, Sizes
  <2>2. RingOK(y)
    BY <1>4, <1>6, <2>1 DEF RingOK
  <2> QED BY <1>6, <2>2 DEF RingInv
<1>13. /\ Q' = [Q EXCEPT ![pi] = Contents(y)] /\ Q[pi] = Contents(x)
       /\ O' = [O EXCEPT ![pi] = OpenEnds(y)] /\ O[pi] = OpenEnds(x) /\ O = [O EXCEPT ![pi] = OpenEnds(x)]
  BY <1>6, OneStream, SameStream
<1> HIDE DEF x, y
<1>14. /\ O[pi] = {"r", "w"} /\ Len(Q[pi]) < PIPESIZE
       /\ Q' = [Q EXCEPT ![pi] = Append(Q[pi], b)] /\ O' = O
  BY <1>9, <1>10, <1>11, <1>13
<1>15. Stream!Put(pi, b)
  BY <1>14 DEF Stream!Put, Stream!Ends, Q, O
<1> QED BY <1>12, <1>15 DEF Stream!Next

LEMMA ReadCopyStream ==
  ASSUME PipeInv, RingInv, NEW p \in Procs, NEW k \in 0..PIPESIZE, ReadCopy(p, k)
  PROVE  RingInv' /\ Stream!Next
<1> USE DEF PipeInv
<1>1. HasEnd(p, FALSE)
  BY AtRunning DEF ReadCopy, RefsInv, UsesEnd, Reading
<1>2. PICK pi \in Pipes : pi = call[p].pi
  BY <1>1, EndInUse
<1>3. pipe[pi].readopen /\ pipe[pi].alloc
  BY <1>1, <1>2, EndInUse DEF IsOpen
<1> DEFINE x == pipe[pi]
           y == pipe'[pi]
<1>4. /\ y \in PipeRecs /\ \A pj \in Pipes \ {pi} : pipe'[pj] = pipe[pj]
      /\ y.nread = (x.nread + k) % WORD /\ y.data = x.data /\ y.nwrite = x.nwrite
      /\ y.alloc = x.alloc /\ y.readopen = x.readopen /\ y.writeopen = x.writeopen
  BY <1>2, ReadCopyEffect
<1>5. x \in PipeRecs /\ RingOK(x) /\ Amount(x) \in Nat
  BY TypedPipe, AmountIs, Sizes DEF RingInv
<1>6. k \in 0..Amount(x) /\ last' = [j \in 1..k |-> x.data[Slot(x.nread + j - 1)]]
  BY <1>2, <1>5 DEF ReadCopy, Amount
<1>7. /\ Amount(y) = Amount(x) - k /\ last' = SubSeq(Contents(x), 1, k)
      /\ Contents(y) = SubSeq(Contents(x), k + 1, Len(Contents(x)))
  BY <1>3, <1>4, <1>5, <1>6, GetTakes
<1>8. k <= Len(Contents(x))
  BY <1>3, <1>5, <1>6, ContentsSeq
<1>9. RingInv'
  <2>1. Amount(y) <= PIPESIZE
    BY <1>5, <1>6, <1>7, Sizes DEF RingOK
  <2>2. RingOK(y)
    BY <1>3, <1>4, <2>1 DEF RingOK
  <2> QED BY <1>4, <2>2 DEF RingInv
<1>10. "r" \in OpenEnds(x) /\ OpenEnds(y) = OpenEnds(x)
  BY <1>3, <1>4 DEF OpenEnds
<1>11. /\ Q' = [Q EXCEPT ![pi] = Contents(y)] /\ Q[pi] = Contents(x)
       /\ O' = [O EXCEPT ![pi] = OpenEnds(y)] /\ O[pi] = OpenEnds(x) /\ O = [O EXCEPT ![pi] = OpenEnds(x)]
  BY <1>4, OneStream, SameStream
<1> HIDE DEF x, y
<1>12. /\ "r" \in O[pi] /\ k <= Len(Q[pi]) /\ last' = SubSeq(Q[pi], 1, k)
       /\ Q' = [Q EXCEPT ![pi] = SubSeq(Q[pi], k + 1, Len(Q[pi]))] /\ O' = O
  BY <1>7, <1>8, <1>10, <1>11
<1>13. Stream!Get(pi, k)
  BY <1>12 DEF Stream!Get, Q, O
<1> QED BY <1>9, <1>13 DEF Stream!Next

LEMMA EmptyContents ==
  ASSUME NEW x \in PipeRecs, Empty(x)
  PROVE  Contents(x) = <<>> /\ RingOK(x)
<1>1. Amount(x) = 0
  <2>1. x.nread \in 0..(WORD - 1)
    BY DEF PipeRecs
  <2> QED BY <2>1, AmountIs DEF Empty
<1>2. RingOK(x)
  BY <1>1, Sizes DEF RingOK
<1>3. ASSUME x.alloc PROVE Contents(x) = <<>>
  <2>1. Contents(x) \in Seq(Bytes) /\ Len(Contents(x)) = 0
    BY <1>1, <1>3, ContentsSeq
  <2> QED BY <2>1, EmptySeq
<1>4. ASSUME ~x.alloc PROVE Contents(x) = <<>>
  BY <1>4 DEF Contents
<1> QED BY <1>2, <1>3, <1>4

LEMMA PipeFdsStream ==
  ASSUME PipeInv, RingInv, NEW p \in Procs, PipeFds(p), last' = <<>>
  PROVE  RingInv' /\ Stream!Next
<1> USE DEF PipeInv
<1>1. CASE UNCHANGED pipe
  BY <1>1, QuietStream
<1>2. ASSUME NEW pi \in Pipes, Builds(p, pi) PROVE RingInv' /\ Stream!Next
  <2> DEFINE x == pipe[pi]
             y == pipe'[pi]
  <2>1. ~x.alloc /\ y = Opened(x) /\ \A pj \in Pipes \ {pi} : pipe'[pj] = pipe[pj]
    BY <1>2 DEF Builds
  <2>2. x \in PipeRecs /\ RingOK(x)
    BY TypedPipe DEF RingInv
  <2>3. /\ y \in PipeRecs /\ y.readopen = TRUE /\ y.writeopen = TRUE /\ y.nread = x.nread /\ y.nwrite = x.nwrite
    BY <2>1, <2>2, OpenedFields
  <2>4. Contents(x) = <<>> /\ Contents(y) = <<>> /\ RingOK(y)
    BY <2>1, <2>2, <2>3, EmptyContents DEF RingOK, Empty
  <2>5. ~x.readopen /\ ~x.writeopen
    BY <2>1, EndsOpenParts DEF EndOpen, IsOpen
  <2>6. OpenEnds(x) = {} /\ OpenEnds(y) = {"r", "w"}
    BY <2>3, <2>5 DEF OpenEnds
  <2>7. /\ Q' = [Q EXCEPT ![pi] = Contents(y)] /\ Q = [Q EXCEPT ![pi] = Contents(x)]
        /\ O' = [O EXCEPT ![pi] = OpenEnds(y)] /\ O[pi] = OpenEnds(x)
    BY <2>1, OneStream, SameStream
  <2>8. RingInv'
    BY <2>1, <2>4 DEF RingInv
  <2> HIDE DEF x, y
  <2>9. O[pi] = {} /\ O' = [O EXCEPT ![pi] = {"r", "w"}] /\ Q' = Q
    BY <2>4, <2>6, <2>7
  <2>10. Stream!Create(pi)
    BY <2>9 DEF Stream!Create, Stream!Ends, Q, O
  <2> QED BY <2>8, <2>10 DEF Stream!Next
<1> QED BY <1>1, <1>2, PipeFdsEffect

LEMMA pipecloseStream ==
  ASSUME PipeInv, RingInv, NEW p \in Procs, pipeclose(p), last' = <<>>
  PROVE  RingInv' /\ Stream!Next
<1> USE DEF PipeInv
<1>1. PICK pi \in Pipes : pi = call[p].pi
  BY pipecloseEffect
<1>2. PICK w \in BOOLEAN : w = call[p].w
  BY pipecloseEffect
<1> DEFINE x == pipe[pi]
           y == pipe'[pi]
           rest == IF w THEN x.readopen ELSE x.writeopen
           e == IF w THEN "w" ELSE "r"
<1>3. /\ call[p].pc = "pipeclose" /\ \A pj \in Pipes \ {pi} : pipe'[pj] = pipe[pj]
      /\ rest \in BOOLEAN /\ y \in PipeRecs
      /\ ~rest => y = NoPipe
      /\ rest => /\ y.writeopen = (x.writeopen /\ ~w) /\ y.readopen = (x.readopen /\ w)
                 /\ y.alloc = x.alloc /\ y.nread = x.nread /\ y.nwrite = x.nwrite /\ y.data = x.data
  BY <1>1, <1>2, pipecloseEffect
<1>4. IF w THEN x.writeopen ELSE x.readopen
  BY <1>1, <1>2, <1>3, ClosesOpen DEF IsOpen
<1>5. x \in PipeRecs /\ RingOK(x) /\ x.readopen \in BOOLEAN /\ x.writeopen \in BOOLEAN
  BY TypedPipe DEF RingInv
<1>6. /\ Q' = [Q EXCEPT ![pi] = Contents(y)] /\ Q[pi] = Contents(x)
      /\ O' = [O EXCEPT ![pi] = OpenEnds(y)] /\ O[pi] = OpenEnds(x)
  BY <1>3, OneStream
<1>7. /\ e \in OpenEnds(x) /\ OpenEnds(y) = OpenEnds(x) \ {e}
      /\ Contents(y) = (IF OpenEnds(x) = {e} THEN <<>> ELSE Contents(x)) /\ RingOK(y)
  <2>1. CASE rest
    <3>1. Contents(y) = Contents(x) /\ RingOK(y)
      BY <1>3, <1>5, <2>1 DEF Contents, RingOK, Amount, Empty
    <3>2. OpenEnds(x) = {"r", "w"} /\ OpenEnds(y) = {"r", "w"} \ {e}
      <4>1. x.readopen = TRUE /\ x.writeopen = TRUE
        BY <1>4, <1>5, <2>1
      <4>2. y.readopen = w /\ y.writeopen = ~w
        BY <1>3, <2>1, <4>1
      <4> QED BY <4>1, <4>2 DEF OpenEnds
    <3> QED BY <3>1, <3>2
  <2>2. CASE ~rest
    <3>1. Contents(y) = <<>> /\ RingOK(y)
      BY <1>3, <2>2, NoPipeFields, EmptyContents DEF Empty
    <3>2. OpenEnds(x) = {e}
      BY <1>4, <1>5, <2>2 DEF OpenEnds
    <3>3. OpenEnds(y) = {}
      BY <1>3, <2>2, NoPipeFields DEF OpenEnds
    <3> QED BY <3>1, <3>2, <3>3
  <2> QED BY <1>3, <2>1, <2>2
<1>8. RingInv'
  BY <1>3, <1>7 DEF RingInv
<1>9. e \in {"r", "w"}
  OBVIOUS
<1> HIDE DEF x, y, e
<1>10. /\ e \in O[pi] /\ O' = [O EXCEPT ![pi] = O[pi] \ {e}]
       /\ Q' = [Q EXCEPT ![pi] = IF O[pi] = {e} THEN <<>> ELSE Q[pi]]
  BY <1>6, <1>7
<1>11. Stream!Close(pi, e)
  BY <1>10 DEF Stream!Close, Q, O
<1> QED BY <1>8, <1>9, <1>11 DEF Stream!Next, Stream!Ends

LEMMA InitStream == ASSUME Init PROVE RingInv /\ Stream!Init
<1>1. \A pi \in Pipes : pipe[pi] = NoPipe /\ last = <<>>
  BY DEF Init
<1>2. NoPipe \in PipeRecs /\ Empty(NoPipe) /\ OpenEnds(NoPipe) = {}
  BY NoPipeFields DEF Empty, OpenEnds
<1>3. Contents(NoPipe) = <<>> /\ RingOK(NoPipe)
  BY <1>2, EmptyContents
<1>4. last = <<>>
  BY DEF Init
<1>5. [pi \in Pipes |-> Contents(pipe[pi])] = [pi \in Pipes |-> <<>>]
  BY <1>1, <1>3
<1>6. [pi \in Pipes |-> OpenEnds(pipe[pi])] = [pi \in Pipes |-> {}]
  BY <1>1, <1>2
<1> QED BY <1>1, <1>3, <1>4, <1>5, <1>6 DEF RingInv, Stream!Init

LEMMA NextStream == ASSUME PipeInv, RingInv, Next PROVE RingInv' /\ Stream!Next
<1>1. PICK p \in Procs :
        \/ \E k \in 0..PIPESIZE : ReadCopy(p, k)
        \/ /\ last' = <<>>
           /\ \/ Step(p) \/ SysPipe(p) \/ kexit(p) \/ kkill(p)
              \/ \E c \in Procs : kfork(p, c)
              \/ \E fd \in Fds : sys_dup(p, fd) \/ sys_close(p, fd) \/ Transfer(p, fd)
  BY DEF Next
<1>2. CASE \E k \in 0..PIPESIZE : ReadCopy(p, k)
  BY <1>2, ReadCopyStream
<1>3. CASE last' = <<>> /\ UNCHANGED pipe
  BY <1>3, QuietStream
<1>4. CASE last' = <<>> /\ Step(p)
  <2>1. CASE WriteByte(p)
    BY <1>4, <2>1, WriteByteStream
  <2>2. CASE PipeFds(p)
    BY <1>4, <2>2, PipeFdsStream
  <2>3. CASE pipeclose(p)
    BY <1>4, <2>3, pipecloseStream
  <2>4. CASE UNCHANGED pipe
    BY <1>3, <1>4, <2>4
  <2>5. Step(p) => WriteByte(p) \/ PipeFds(p) \/ pipeclose(p) \/ UNCHANGED pipe
    BY DEF Step, PipeFile, fileclose, ExitClose, Exited, WriteFails, WriteFull, WriteEnd, ReadEmpty, sleep, Acquire
  <2> QED BY <1>4, <2>1, <2>2, <2>3, <2>4, <2>5
<1>5. CASE last' = <<>> /\ (SysPipe(p) \/ kexit(p) \/ kkill(p) \/ \E c \in Procs : kfork(p, c))
  BY <1>3, <1>5 DEF SysPipe, kexit, kkill, kfork
<1>6. CASE last' = <<>> /\ \E fd \in Fds : sys_dup(p, fd) \/ sys_close(p, fd) \/ Transfer(p, fd)
  BY <1>3, <1>6 DEF sys_dup, sys_close, Transfer
<1> QED BY <1>1, <1>2, <1>4, <1>5, <1>6

LEMMA StutterStream == ASSUME RingInv, UNCHANGED vars PROVE RingInv' /\ UNCHANGED Stream!vars
  BY DEF vars, RingInv, Stream!vars

\* A pipe is a byte stream, for any size of its ring and any width of its counters that the
\* size divides: what piperead() copies out are the oldest bytes pipewrite() has put in, once
\* each and in order, across the wrapping of nread and nwrite and of the buffer, and through
\* every close, exit and reuse of the page.
THEOREM IsStreamCorrect == Spec => IsStream
<1>1. Init => RingInv /\ Stream!Init
  BY InitStream
<1>2. PipeInv /\ RingInv /\ [Next]_vars => RingInv' /\ [Stream!Next]_(Stream!vars)
  BY NextStream, StutterStream
<1> QED BY <1>1, <1>2, PipeInvariant, PTL DEF Spec, IsStream, Stream!Spec
===============================================================================
