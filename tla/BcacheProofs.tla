----------------------------- MODULE BcacheProofs -----------------------------
(***************************************************************************)
(* Safety of the buffer cache, its sleep locks and the disk driver, for    *)
(* any number of processes, blocks, buffers and descriptors.               *)
(***************************************************************************)
EXTENDS Bcache, FiniteSetTheorems, TLAPS

-----------------------------------------------------------------------------
(* Searches of the list and of the descriptors end at an element that fits. *)

LEMMA MinIsMember ==
  ASSUME NEW S \in SUBSET Nat, S # {}
  PROVE  Min(S) \in S /\ \A y \in S : Min(S) <= y
<1> DEFINE Below(x) == {y \in S : y <= x}
           F == {Below(x) : x \in S}
<1>1. \A x \in S : Below(x) \in FiniteSubsetsOf(Nat)
  BY FS_BoundedSetOfNaturals DEF FiniteSubsetsOf
<1>2. F \subseteq FiniteSubsetsOf(Nat) /\ F # {}
  BY <1>1
<1>3. PICK B \in F : \A C \in F : <<C, B>> \notin StrictSubsetOrdering(Nat)
  BY <1>2, FS_StrictSubsetOrderingWellFounded, WFMin, Zenon
<1>4. PICK x \in S : B = Below(x)
  OBVIOUS
<1>5. ASSUME NEW y \in S, y < x PROVE FALSE
  <2>1. Below(y) \in SUBSET Nat /\ Below(x) \in SUBSET Nat /\ Below(y) \in F
    OBVIOUS
  <2>2. \A z \in S : z <= y => z <= x
    BY <1>5
  <2>3. Below(y) \subseteq Below(x)
    BY <2>2
  <2>4. x \in Below(x) /\ x \notin Below(y)
    BY <1>5
  <2> QED BY <1>3, <1>4, <2>1, <2>3, <2>4 DEF StrictSubsetOrdering
<1>6. \A y \in S : x <= y
  BY <1>5
<1> QED BY <1>6 DEF Min

LEMMA MaxIsMember ==
  ASSUME NEW n \in Nat, NEW S \in SUBSET (1 .. n), S # {}
  PROVE  Max(S) \in S
<1> DEFINE T == {n - x : x \in S}
           m == Min(T)
<1>1. T \in SUBSET Nat /\ T # {}
  <2>1. \A x \in S : n - x \in Nat
    OBVIOUS
  <2> QED BY <2>1
<1>2. m \in T /\ \A y \in T : m <= y
  BY <1>1, MinIsMember
<1> HIDE DEF m
<1>3. PICK x \in S : m = n - x
  BY <1>2
<1>4. ASSUME NEW y \in S PROVE x >= y
  <2>1. m <= n - y
    BY <1>2
  <2>2. x \in Int /\ y \in Int
    OBVIOUS
  <2> QED BY <1>3, <2>1, <2>2
<1> QED BY <1>4 DEF Max

-----------------------------------------------------------------------------
(* The inductive invariant, in parts.                                       *)

Waiting == {"lock", "lock-zz"}
ForDesc == {"desc", "desc-zz"}
InFlight == {"rw", "rw-zz"}
Owning == {"hold", "unpin"}
Holding == ForDesc \union InFlight \union Owning
PCs == {"user", "release"} \union Waiting \union Holding
Chans == {NoChan, FreeChan} \union ({"lock", "buf"} \X Bufs)
Buffers == [blockno : Blocks \union {None}, valid : BOOLEAN, refcnt : Int, holder : Procs \union {None},
            disk : BOOLEAN, data : {0, 1}]
Calls == [pc : PCs, k : Blocks \union {None}, b : Bufs \union {0}, write : BOOLEAN, head : Descs \union {0}]
Requests == [b : Bufs \union {0}, write : BOOLEAN, chain : Seq(Descs)]

TypeOK ==
  /\ buf \in [Bufs -> Buffers]
  /\ lru \in [Bufs -> Bufs] /\ \A b \in Bufs : \E i \in Bufs : lru[i] = b
  /\ disk \in [Blocks -> {0, 1}] /\ latest \in [Blocks -> {0, 1}]
  /\ pinned \in SUBSET Blocks /\ IsFiniteSet(pinned) /\ Cardinality(pinned) <= MaxPin
  /\ panicked \in BOOLEAN
  /\ free \in SUBSET Descs /\ req \in [Descs -> Requests]
  /\ avail \in SUBSET Descs /\ used \in Seq(Descs) /\ irq \in BOOLEAN /\ intr \in BOOLEAN
  /\ st \in [Procs -> {"running", "sleeping"}] /\ chan \in [Procs -> Chans] /\ op \in [Procs -> Calls]

\* A process outside the cache has no buffer, one inside has the buffer of its block.
OwnBuffer ==
  \A p \in Procs : IF op[p].pc = "user" THEN op[p].b = 0
                   ELSE op[p].b \in Bufs /\ op[p].k \in Blocks /\ buf[op[p].b].blockno = op[p].k

\* A block has at most one buffer, and a pinned block has one.
OneBuffer ==
  /\ \A b, c \in Bufs : buf[b].blockno = buf[c].blockno /\ buf[b].blockno # None => b = c
  /\ \A k \in pinned : \E b \in Bufs : buf[b].blockno = k

\* What RefsExact says.
CountExact ==
  \A b \in Bufs : buf[b].refcnt = Cardinality(Users(b)) + (IF buf[b].blockno \in pinned THEN 1 ELSE 0)

RefsInv == OwnBuffer /\ OneBuffer /\ CountExact

\* The sleep lock of a buffer is held by the process that is past acquiresleep().
LockInv ==
  /\ \A p \in Procs : op[p].pc \in Holding => buf[op[p].b].holder = p
  /\ \A b \in Bufs : buf[b].holder # None => op[buf[b].holder].b = b /\ op[buf[b].holder].pc \in Holding

\* A process that has submitted its request is the only one with that first descriptor.
OwnRequest ==
  /\ \A p \in Procs :
       IF op[p].pc \in InFlight
       THEN /\ op[p].head \in Descs /\ op[p].head \in Entries(req[op[p].head].chain)
            /\ req[op[p].head].b = op[p].b /\ req[op[p].head].write = op[p].write
       ELSE op[p].head = 0
  /\ \A p, q \in Procs : op[p].pc \in InFlight /\ op[q].pc \in InFlight /\ op[p].head = op[q].head => p = q
  /\ \A h \in Descs : IF req[h].b = 0 THEN Entries(req[h].chain) = {} ELSE \E p \in Procs : op[p].head = h
  /\ \A h \in avail \union Entries(used) : req[h].b # 0

\* The chains and the free descriptors partition the descriptors (the first two
\* conjuncts of DescsExact).
Partition ==
  /\ \A d \in Descs : (d \in free) <=> (\A h \in Descs : d \notin Entries(req[h].chain))
  /\ \A g, h \in Descs : g # h => Entries(req[g].chain) \intersect Entries(req[h].chain) = {}

\* b->disk is set exactly as long as the request is with the device or in the used
\* ring; an entry of the ring has an interrupt to come.
InRing ==
  /\ \A d \in avail : d \notin Entries(used)
  /\ \A i, j \in DOMAIN used : used[i] = used[j] => i = j
  /\ \A p \in Procs : op[p].pc \in InFlight =>
       (buf[op[p].b].disk <=> op[p].head \in avail \union Entries(used))
  /\ used # <<>> => irq \/ intr

DiskInv == OwnRequest /\ Partition /\ InRing

\* A valid buffer has the last change of its block, and a pinned block has a valid buffer.
BufferData ==
  \A b \in Bufs : /\ buf[b].valid => buf[b].blockno \in Blocks /\ buf[b].data = latest[buf[b].blockno]
                  /\ buf[b].blockno \in pinned => buf[b].valid

\* What is not pinned is on the disk.
DiskData == \A k \in Blocks \ pinned : disk[k] = latest[k]

\* A request writes a valid buffer of a pinned block or fills an invalid buffer, and once it has
\* left the device the disk and the buffer agree.
RequestData(p) ==
  /\ op[p].pc \in Owning => buf[op[p].b].valid
  /\ op[p].write => op[p].pc \in ForDesc \union InFlight \union {"unpin"} /\ op[p].k \in pinned
  /\ op[p].pc \in ForDesc \union InFlight => (op[p].write <=> buf[op[p].b].valid)
  /\ op[p].pc \in InFlight /\ op[p].head \notin avail =>
       IF op[p].write THEN disk[op[p].k] = latest[op[p].k] ELSE buf[op[p].b].data = disk[op[p].k]
  /\ op[p].pc = "unpin" => op[p].write /\ disk[op[p].k] = latest[op[p].k]

DataInv == BufferData /\ DiskData /\ \A p \in Procs : RequestData(p)

\* What a process on its way to sleep, or asleep, waits for, and that it has not come yet
\* (NoLostWakeup, but for what InRing says of a request in progress).
WaitsRight(p) ==
  /\ op[p].pc = "lock-zz" => chan[p] \in {NoChan, <<"lock", op[p].b>>}
  /\ op[p].pc = "desc-zz" => chan[p] \in {NoChan, FreeChan}
  /\ op[p].pc = "rw-zz" => chan[p] \in {NoChan, <<"buf", op[p].b>>}
  /\ st[p] = "sleeping" => \/ op[p].pc = "lock" /\ chan[p] = <<"lock", op[p].b>>
                           \/ op[p].pc = "desc" /\ chan[p] = FreeChan
                           \/ op[p].pc = "rw" /\ chan[p] = <<"buf", op[p].b>>
  /\ Waits(p, "lock-zz", "lock", <<"lock", op[p].b>>) => buf[op[p].b].holder # None
  /\ Waits(p, "desc-zz", "desc", FreeChan) => Cardinality(free) < 3
  /\ Waits(p, "rw-zz", "rw", <<"buf", op[p].b>>) => buf[op[p].b].disk

WaitInv == \A p \in Procs : WaitsRight(p)

CacheInv == TypeOK /\ RefsInv /\ LockInv /\ DiskInv /\ DataInv /\ WaitInv

-----------------------------------------------------------------------------
(* What bget(), brelse() and alloc3_desc() pick.                            *)

LEMMA HitPicks ==
  ASSUME TypeOK, NEW k \in Blocks, Cached(k) # {}
  PROVE  lru[Min({i \in DOMAIN lru : lru[i] \in Cached(k)})] \in Cached(k)
<1> DEFINE S == {i \in DOMAIN lru : lru[i] \in Cached(k)}
<1>1. S \in SUBSET Nat /\ S # {}
  BY DEF TypeOK, Cached, Bufs
<1>2. Min(S) \in S
  BY <1>1, MinIsMember
<1> QED BY <1>2

LEMMA MissPicks ==
  ASSUME TypeOK, \E b \in Bufs : buf[b].refcnt = 0
  PROVE  LET b == lru[Max({i \in DOMAIN lru : buf[lru[i]].refcnt = 0})] IN b \in Bufs /\ buf[b].refcnt = 0
<1> DEFINE S == {i \in DOMAIN lru : buf[lru[i]].refcnt = 0}
<1>1. S \in SUBSET (1 .. NBUF) /\ S # {} /\ NBUF \in Nat
  BY BcacheAssumption DEF TypeOK, Bufs
<1>2. Max(S) \in S
  BY <1>1, MaxIsMember
<1> QED BY <1>2 DEF TypeOK

LEMMA ToFrontKeeps ==
  ASSUME TypeOK, NEW b \in Bufs
  PROVE  ToFront(b) \in [Bufs -> Bufs] /\ \A c \in Bufs : \E i \in Bufs : ToFront(b)[i] = c
<1> DEFINE i == CHOOSE j \in Bufs : lru[j] = b
<1>0. NBUF \in Nat /\ 1 \in Bufs
  BY BcacheAssumption DEF Bufs
<1>1. i \in Bufs /\ lru[i] = b
  BY DEF TypeOK
<1> HIDE DEF i
<1>2. ToFront(b) = [j \in Bufs |-> IF j = 1 THEN b ELSE IF j <= i THEN lru[j - 1] ELSE lru[j]]
  BY DEF ToFront, i
<1>3. ToFront(b) \in [Bufs -> Bufs]
  <2>1. \A j \in Bufs : j # 1 => j - 1 \in Bufs
    BY <1>0 DEF Bufs
  <2> QED BY <1>1, <1>2, <2>1 DEF TypeOK
<1>4. ASSUME NEW c \in Bufs PROVE \E j \in Bufs : ToFront(b)[j] = c
  <2>1. PICK j \in Bufs : lru[j] = c
    BY DEF TypeOK
  <2>2. CASE j < i
    <3>1. j + 1 \in Bufs /\ j + 1 # 1 /\ j + 1 <= i /\ (j + 1) - 1 = j
      BY <1>0, <1>1, <2>2 DEF Bufs
    <3> QED BY <1>2, <2>1, <3>1
  <2>3. CASE j = i
    BY <1>0, <1>1, <1>2, <2>1, <2>3
  <2>4. CASE j > i
    <3>1. j # 1 /\ ~(j <= i)
      BY <1>1, <2>4 DEF Bufs
    <3> QED BY <1>2, <2>1, <3>1
  <2> QED BY <1>1, <2>2, <2>3, <2>4 DEF Bufs
<1> QED BY <1>3, <1>4

LEMMA Lowest3Picks ==
  ASSUME TypeOK, Cardinality(free) >= 3
  PROVE  /\ Lowest3 \in Seq(Descs) /\ Lowest3[1] \in free
         /\ Entries(Lowest3) \subseteq free /\ Lowest3[1] \in Entries(Lowest3)
<1> DEFINE d1 == Min(free)
           d2 == Min(free \ {d1})
           d3 == Min(free \ {d1, d2})
<1>0. free \in SUBSET Nat /\ IsFiniteSet(free)
  <2>1. free \subseteq 1 .. NUM /\ NUM \in Int /\ 1 \in Int
    BY BcacheAssumption DEF TypeOK, Descs
  <2>2. IsFiniteSet(1 .. NUM)
    BY <2>1, FS_Interval
  <2>3. IsFiniteSet(free)
    BY <2>1, <2>2, FS_Subset
  <2>4. free \in SUBSET Nat
    BY <2>1
  <2> QED BY <2>3, <2>4
<1>a. \A x, y : ~(Cardinality({x}) >= 3) /\ ~(Cardinality({x, y}) >= 3)
  <2> TAKE x, y
  <2>1. Cardinality({x}) = 1 /\ IsFiniteSet({x})
    BY FS_Singleton
  <2>2. Cardinality({x} \union {y}) \in {1, 2}
    BY <2>1, FS_AddElement
  <2>3. {x} \union {y} = {x, y}
    OBVIOUS
  <2> QED BY <2>1, <2>2, <2>3
<1>1. d1 \in free
  <2>1. free # {}
    BY FS_EmptySet
  <2> QED BY <1>0, <2>1, MinIsMember
<1> HIDE DEF d1
<1>2. d2 \in free
  <2>1. free \ {d1} # {}
    <3>1. free # {d1}
      BY <1>a
    <3> QED BY <1>1, <3>1
  <2>2. free \ {d1} \in SUBSET Nat
    BY <1>0
  <2> QED BY <2>1, <2>2, MinIsMember
<1> HIDE DEF d2
<1>3. d3 \in free
  <2>1. free \ {d1, d2} # {}
    <3>1. free # {d1, d2}
      BY <1>a
    <3> QED BY <1>1, <1>2, <3>1
  <2>2. free \ {d1, d2} \in SUBSET Nat
    BY <1>0
  <2> QED BY <2>1, <2>2, MinIsMember
<1> HIDE DEF d3
<1>4. Lowest3 = <<d1, d2, d3>>
  BY DEF Lowest3, d1, d2, d3
<1> QED BY <1>1, <1>2, <1>3, <1>4 DEF TypeOK, Entries

-----------------------------------------------------------------------------
(* Records that are changed in a field or two keep their type.              *)

LEMMA BufferFields ==
  ASSUME NEW x \in Buffers
  PROVE  /\ \A n \in Int : [x EXCEPT !.refcnt = n] \in Buffers
         /\ \A h \in Procs \union {None} : [x EXCEPT !.holder = h] \in Buffers
         /\ \A t \in BOOLEAN : [x EXCEPT !.disk = t] \in Buffers /\ [x EXCEPT !.valid = t] \in Buffers
         /\ \A v \in {0, 1} : [x EXCEPT !.data = v] \in Buffers
         /\ \A k \in Blocks : Recycled(x, k) \in Buffers
<1>1. /\ \A n \in Int : [x EXCEPT !.refcnt = n] \in Buffers
      /\ \A h \in Procs \union {None} : [x EXCEPT !.holder = h] \in Buffers
      /\ \A t \in BOOLEAN : [x EXCEPT !.disk = t] \in Buffers /\ [x EXCEPT !.valid = t] \in Buffers
      /\ \A v \in {0, 1} : [x EXCEPT !.data = v] \in Buffers
  BY DEF Buffers
<1>2. ASSUME NEW k \in Blocks PROVE Recycled(x, k) \in Buffers
  <2> DEFINE y == [x EXCEPT !.blockno = k]
             z == [y EXCEPT !.valid = FALSE]
  <2>1. y \in Buffers
    BY DEF Buffers
  <2> HIDE DEF y
  <2>2. z \in Buffers
    BY <2>1 DEF Buffers
  <2> HIDE DEF z
  <2>3. [z EXCEPT !.refcnt = 1] \in Buffers
    BY <2>2 DEF Buffers
  <2> QED BY <2>3 DEF Recycled, z, y
<1> QED BY <1>1, <1>2

LEMMA CallFields ==
  ASSUME NEW c \in Calls
  PROVE  /\ \A a \in PCs : [c EXCEPT !.pc = a] \in Calls
         /\ \A t \in BOOLEAN : [c EXCEPT !.write = t] \in Calls
         /\ \A h \in Descs \union {0} : [c EXCEPT !.head = h] \in Calls
  BY DEF Calls

LEMMA BufTyped ==
  ASSUME TypeOK, NEW b \in Bufs
  PROVE  /\ \A x \in Buffers : [buf EXCEPT ![b] = x] \in [Bufs -> Buffers]
         /\ \A n \in Int : [buf EXCEPT ![b].refcnt = n] \in [Bufs -> Buffers]
         /\ \A h \in Procs \union {None} : [buf EXCEPT ![b].holder = h] \in [Bufs -> Buffers]
         /\ \A t \in BOOLEAN : /\ [buf EXCEPT ![b].disk = t] \in [Bufs -> Buffers]
                               /\ [buf EXCEPT ![b].valid = t] \in [Bufs -> Buffers]
         /\ \A v \in {0, 1} : [buf EXCEPT ![b].data = v] \in [Bufs -> Buffers]
<1>1. buf[b] \in Buffers
  BY DEF TypeOK
<1>2. \A x \in Buffers : [buf EXCEPT ![b] = x] \in [Bufs -> Buffers]
  BY DEF TypeOK
<1> QED BY <1>1, <1>2, BufferFields

LEMMA OpTyped ==
  ASSUME TypeOK, NEW p \in Procs
  PROVE  /\ \A c \in Calls : [op EXCEPT ![p] = c] \in [Procs -> Calls]
         /\ \A a \in PCs : [op EXCEPT ![p].pc = a] \in [Procs -> Calls]
         /\ \A a \in PCs, t \in BOOLEAN : [op EXCEPT ![p].pc = a, ![p].write = t] \in [Procs -> Calls]
         /\ \A a \in PCs, h \in Descs \union {0} : [op EXCEPT ![p].pc = a, ![p].head = h] \in [Procs -> Calls]
<1>1. op[p] \in Calls
  BY DEF TypeOK
<1>2. \A c \in Calls : [op EXCEPT ![p] = c] \in [Procs -> Calls]
  BY DEF TypeOK
<1>3. \A a \in PCs : [op[p] EXCEPT !.pc = a] \in Calls
  BY <1>1, CallFields
<1>4. \A a \in PCs, t \in BOOLEAN : [op EXCEPT ![p].pc = a, ![p].write = t] \in [Procs -> Calls]
  <2> TAKE a \in PCs, t \in BOOLEAN
  <2>1. [[op[p] EXCEPT !.pc = a] EXCEPT !.write = t] \in Calls
    BY <1>3, CallFields
  <2>2. [op EXCEPT ![p].pc = a, ![p].write = t] = [op EXCEPT ![p] = [[op[p] EXCEPT !.pc = a] EXCEPT !.write = t]]
    BY DEF TypeOK
  <2> QED BY <1>2, <2>1, <2>2
<1>5. \A a \in PCs, h \in Descs \union {0} : [op EXCEPT ![p].pc = a, ![p].head = h] \in [Procs -> Calls]
  <2> TAKE a \in PCs, h \in Descs \union {0}
  <2>1. [[op[p] EXCEPT !.pc = a] EXCEPT !.head = h] \in Calls
    BY <1>3, CallFields
  <2>2. [op EXCEPT ![p].pc = a, ![p].head = h] = [op EXCEPT ![p] = [[op[p] EXCEPT !.pc = a] EXCEPT !.head = h]]
    BY DEF TypeOK
  <2> QED BY <1>2, <2>1, <2>2
<1> QED BY <1>2, <1>3, <1>4, <1>5

LEMMA Awake ==
  ASSUME TypeOK, NEW c
  PROVE  /\ Woken(c) \in [Procs -> Chans] /\ Runnable(c) \in [Procs -> {"running", "sleeping"}]
         /\ \A p \in Procs : /\ chan[p] = c => Woken(c)[p] = NoChan /\ Runnable(c)[p] = "running"
                             /\ chan[p] # c => Woken(c)[p] = chan[p] /\ Runnable(c)[p] = st[p]
  BY DEF TypeOK, Woken, Runnable, Chans


LEMMA TypeInit == ASSUME Init PROVE TypeOK
<1>0. IsFiniteSet({}) /\ Cardinality({}) = 0
  BY FS_EmptySet
<1>1. NoOp \in Calls /\ NoReq \in Requests
  BY DEF NoOp, NoReq, Calls, Requests, PCs
<1>2. buf \in [Bufs -> Buffers]
  BY DEF Init, Buffers
<1>3. lru \in [Bufs -> Bufs] /\ \A b \in Bufs : \E i \in Bufs : lru[i] = b
  <2>1. \A i \in Bufs : NBUF + 1 - i \in Bufs /\ NBUF + 1 - (NBUF + 1 - i) = i
    BY BcacheAssumption DEF Bufs
  <2> QED BY <2>1 DEF Init
<1>4. used \in Seq(Descs) /\ op \in [Procs -> Calls] /\ req \in [Descs -> Requests]
  BY <1>1 DEF Init
<1>5. disk \in [Blocks -> {0, 1}] /\ latest \in [Blocks -> {0, 1}]
  BY DEF Init
<1>6. pinned \in SUBSET Blocks /\ IsFiniteSet(pinned) /\ Cardinality(pinned) <= MaxPin
  BY <1>0, BcacheAssumption DEF Init
<1>7. st \in [Procs -> {"running", "sleeping"}] /\ chan \in [Procs -> Chans]
  BY DEF Init, Chans
<1> QED BY <1>2, <1>3, <1>4, <1>5, <1>6, <1>7 DEF Init, TypeOK

LEMMA TypeNext == ASSUME TypeOK, OwnBuffer, OwnRequest, [Next]_vars PROVE TypeOK'
<1>0. NoOp \in Calls /\ NoReq \in Requests
  BY DEF NoOp, NoReq, Calls, Requests, PCs
<1>a. {"user", "release", "lock", "lock-zz", "desc", "desc-zz", "rw", "rw-zz", "hold", "unpin"} \subseteq PCs
  BY DEF PCs, Waiting, Holding, ForDesc, InFlight, Owning
<1>b. \A p \in Procs : op[p].pc # "user" => op[p].b \in Bufs /\ op[p].k \in Blocks
  BY DEF OwnBuffer
<1> USE DEF cacheVars, diskVars
<1>1. ASSUME NEW p \in Procs, NEW k \in Blocks, BgetHit(p, k) PROVE TypeOK'
  <2>1. PICK b \in Bufs : /\ buf' = [buf EXCEPT ![b].refcnt = @ + 1]
                          /\ op' = [op EXCEPT ![p] = [NoOp EXCEPT !.pc = "lock", !.k = k, !.b = b]]
    BY <1>1, HitPicks DEF BgetHit, Cached
  <2>2. buf' \in [Bufs -> Buffers]
    <3>1. buf[b].refcnt + 1 \in Int
      BY DEF TypeOK, Buffers
    <3> QED BY <2>1, <3>1, BufTyped
  <2>3. op' \in [Procs -> Calls]
    <3>1. [NoOp EXCEPT !.pc = "lock", !.k = k, !.b = b] \in Calls
      BY <1>a DEF Calls, NoOp
    <3> QED BY <2>1, <3>1, OpTyped
  <2> QED BY <1>1, <2>2, <2>3 DEF TypeOK, BgetHit
<1>2. ASSUME NEW p \in Procs, NEW k \in Blocks, BgetMiss(p, k) PROVE TypeOK'
  <2>1. PICK b \in Bufs : /\ buf' = [buf EXCEPT ![b] = Recycled(@, k)]
                          /\ op' = [op EXCEPT ![p] = [NoOp EXCEPT !.pc = "lock", !.k = k, !.b = b]]
    BY <1>2, MissPicks DEF BgetMiss
  <2>2. buf' \in [Bufs -> Buffers]
    <3>1. buf[b] \in Buffers
      BY DEF TypeOK
    <3> QED BY <2>1, <3>1, BufTyped, BufferFields
  <2>3. op' \in [Procs -> Calls]
    <3>1. [NoOp EXCEPT !.pc = "lock", !.k = k, !.b = b] \in Calls
      BY <1>a DEF Calls, NoOp
    <3> QED BY <2>1, <3>1, OpTyped
  <2> QED BY <1>2, <2>2, <2>3 DEF TypeOK, BgetMiss
<1>3. ASSUME NEW p \in Procs, sleep(p) \/ kkill(p) PROVE TypeOK'
  <2>1. op' \in [Procs -> Calls]
    <3>1. op' = op \/ \E a \in {"lock", "desc", "rw"} : op' = [op EXCEPT ![p].pc = a]
      BY <1>3 DEF sleep, kkill, Goto
    <3>2. op \in [Procs -> Calls]
      BY DEF TypeOK
    <3>3. ASSUME NEW a \in {"lock", "desc", "rw"}, op' = [op EXCEPT ![p].pc = a] PROVE op' \in [Procs -> Calls]
      <4>1. a \in PCs
        BY <1>a
      <4> QED BY <3>3, <4>1, OpTyped
    <3> QED BY <3>1, <3>2, <3>3
  <2> QED BY <1>3, <2>1 DEF TypeOK, sleep, kkill
<1>4. ASSUME NEW p \in Procs, Locked(p) PROVE TypeOK'
  <2>2. buf' \in [Bufs -> Buffers]
    BY <1>4, <1>b, BufTyped DEF Locked, At
  <2>3. op' \in [Procs -> Calls]
    BY <1>4, <1>a, OpTyped DEF Locked, Goto
  <2> QED BY <1>4, <2>2, <2>3 DEF TypeOK, Locked
<1>5. ASSUME NEW p \in Procs, LockBusy(p) PROVE TypeOK'
  <2>1. chan' \in [Procs -> Chans]
    BY <1>5, <1>b DEF TypeOK, LockBusy, At, Chans
  <2>3. op' \in [Procs -> Calls]
    BY <1>5, <1>a, OpTyped DEF LockBusy, Goto
  <2> QED BY <1>5, <2>1, <2>3 DEF TypeOK, LockBusy
<1>6. ASSUME NEW p \in Procs, Modify(p) PROVE TypeOK'
  <2>0. op[p].b \in Bufs /\ op[p].k \in Blocks
    BY <1>6, <1>b DEF Modify, At
  <2>1. 1 - buf[op[p].b].data \in {0, 1} /\ buf[op[p].b] \in Buffers
    BY <2>0 DEF TypeOK, Buffers
  <2>2. buf' \in [Bufs -> Buffers]
    <3> DEFINE x == buf[op[p].b]
               n == IF op[p].k \in pinned THEN x.refcnt ELSE x.refcnt + 1
               y == [x EXCEPT !.data = 1 - x.data]
               z == [y EXCEPT !.refcnt = n]
    <3>1. n \in Int /\ y \in Buffers
      BY <2>1, BufferFields DEF Buffers
    <3>2. z \in Buffers
      BY <3>1, BufferFields
    <3>3. buf' = [buf EXCEPT ![op[p].b] = z]
      BY <1>6, <2>0 DEF TypeOK, Buffers, Modify
    <3> QED BY <2>0, <3>2, <3>3, BufTyped
  <2>3. latest' \in [Blocks -> {0, 1}]
    BY <1>6, <2>0, <2>1 DEF TypeOK, Modify
  <2>4. pinned' \in SUBSET Blocks /\ IsFiniteSet(pinned') /\ Cardinality(pinned') <= MaxPin
    <3>1. pinned' = pinned \union {op[p].k} /\ (op[p].k \in pinned \/ Cardinality(pinned) < MaxPin)
      BY <1>6 DEF Modify
    <3>2. IsFiniteSet(pinned) /\ Cardinality(pinned) \in Nat /\ Cardinality(pinned) <= MaxPin /\ MaxPin \in Nat
      BY FS_CardinalityType, BcacheAssumption DEF TypeOK
    <3>3. IsFiniteSet(pinned') /\ Cardinality(pinned') = IF op[p].k \in pinned THEN Cardinality(pinned)
                                                          ELSE Cardinality(pinned) + 1
      BY <3>1, <3>2, FS_AddElement
    <3>4. pinned' \in SUBSET Blocks
      BY <2>0, <3>1 DEF TypeOK
    <3>5. Cardinality(pinned') <= MaxPin
      BY <3>1, <3>2, <3>3
    <3> QED BY <3>3, <3>4, <3>5
  <2> QED BY <1>6, <2>2, <2>3, <2>4 DEF TypeOK, Modify
<1>7. ASSUME NEW p \in Procs, bwrite(p) PROVE TypeOK'
  <2>1. op' \in [Procs -> Calls]
    BY <1>7, <1>a, OpTyped DEF bwrite
  <2> QED BY <1>7, <2>1 DEF TypeOK, bwrite
<1>8. ASSUME NEW p \in Procs, bunpin(p) PROVE TypeOK'
  <2>1. buf' \in [Bufs -> Buffers]
    <3>1. op[p].b \in Bufs
      BY <1>8, <1>b DEF bunpin, At
    <3>2. buf[op[p].b].refcnt - 1 \in Int
      BY <3>1 DEF TypeOK, Buffers
    <3> QED BY <1>8, <3>1, <3>2, BufTyped DEF bunpin
  <2>2. op' \in [Procs -> Calls]
    BY <1>8, <1>a, OpTyped DEF bunpin
  <2>3. pinned' \in SUBSET Blocks /\ IsFiniteSet(pinned') /\ Cardinality(pinned') <= MaxPin
    <3>1. pinned' = pinned \ {op[p].k}
      BY <1>8 DEF bunpin
    <3>2. IsFiniteSet(pinned) /\ Cardinality(pinned) \in Nat /\ Cardinality(pinned) <= MaxPin /\ MaxPin \in Nat
      BY FS_CardinalityType, BcacheAssumption DEF TypeOK
    <3>3. IsFiniteSet(pinned') /\ Cardinality(pinned') = IF op[p].k \in pinned THEN Cardinality(pinned) - 1
                                                          ELSE Cardinality(pinned)
      BY <3>1, <3>2, FS_RemoveElement
    <3>4. pinned' \in SUBSET Blocks
      BY <3>1 DEF TypeOK
    <3>5. Cardinality(pinned') <= MaxPin
      BY <3>2, <3>3
    <3> QED BY <3>3, <3>4, <3>5
  <2> QED BY <1>8, <2>1, <2>2, <2>3 DEF TypeOK, bunpin
<1>9. ASSUME NEW p \in Procs, Brelse(p) PROVE TypeOK'
  <2>1. buf' \in [Bufs -> Buffers]
    BY <1>9, <1>b, BufTyped DEF Brelse, At
  <2>2. op' \in [Procs -> Calls]
    BY <1>9, <1>a, OpTyped DEF Brelse, Goto
  <2> QED BY <1>9, <2>1, <2>2, Awake DEF TypeOK, Brelse
<1>10. ASSUME NEW p \in Procs, BrelseRef(p) PROVE TypeOK'
  <2>0. op[p].b \in Bufs
    BY <1>10, <1>b DEF BrelseRef, At
  <2>1. buf' \in [Bufs -> Buffers]
    <3>1. Drop(buf[op[p].b].refcnt) \in Int
      BY <2>0 DEF TypeOK, Buffers, Drop
    <3> QED BY <1>10, <2>0, <3>1, BufTyped DEF BrelseRef
  <2>2. op' \in [Procs -> Calls]
    BY <1>10, <1>0, OpTyped DEF BrelseRef
  <2>3. lru' \in [Bufs -> Bufs] /\ \A b \in Bufs : \E i \in Bufs : lru'[i] = b
    <3>1. lru' = lru \/ lru' = ToFront(op[p].b)
      BY <1>10 DEF BrelseRef
    <3>2. CASE lru' = lru
      BY <3>2 DEF TypeOK
    <3>3. CASE lru' = ToFront(op[p].b)
      BY <2>0, <3>3, ToFrontKeeps
    <3> QED BY <3>1, <3>2, <3>3
  <2> QED BY <1>10, <2>1, <2>2, <2>3 DEF TypeOK, BrelseRef
<1>11. ASSUME NEW p \in Procs, Submit(p) PROVE TypeOK'
  <2>0. op[p].b \in Bufs /\ Cardinality(free) >= 3
    BY <1>11, <1>b DEF Submit, At
  <2> DEFINE idx == Lowest3
  <2>1. idx \in Seq(Descs) /\ idx[1] \in Descs
    BY <2>0, Lowest3Picks DEF TypeOK
  <2>2. /\ free' = free \ Entries(idx) /\ avail' = avail \union {idx[1]}
        /\ req' = [req EXCEPT ![idx[1]] = [b |-> op[p].b, write |-> op[p].write, chain |-> idx]]
        /\ buf' = [buf EXCEPT ![op[p].b].disk = TRUE]
        /\ chan' = [chan EXCEPT ![p] = <<"buf", op[p].b>>]
        /\ op' = [op EXCEPT ![p].pc = "rw-zz", ![p].head = idx[1]]
        /\ UNCHANGED <<cacheVars, disk, used, irq, intr, st>>
    BY <1>11 DEF Submit
  <2> HIDE DEF idx
  <2>3. buf' \in [Bufs -> Buffers]
    BY <2>0, <2>2, BufTyped
  <2>4. op' \in [Procs -> Calls]
    BY <2>1, <2>2, <1>a, OpTyped
  <2>5. req' \in [Descs -> Requests]
    <3>1. op[p].write \in BOOLEAN
      BY DEF TypeOK, Calls
    <3> QED BY <2>0, <2>1, <2>2, <3>1 DEF TypeOK, Requests
  <2>6. chan' \in [Procs -> Chans]
    BY <2>0, <2>2 DEF TypeOK, Chans
  <2> QED BY <2>1, <2>2, <2>3, <2>4, <2>5, <2>6 DEF TypeOK
<1>12. ASSUME NEW p \in Procs, NoDescs(p) PROVE TypeOK'
  <2>1. op' \in [Procs -> Calls]
    BY <1>12, <1>a, OpTyped DEF NoDescs, Goto
  <2>2. st' \in [Procs -> {"running", "sleeping"}] /\ chan' \in [Procs -> Chans]
    BY <1>12, Awake DEF TypeOK, NoDescs, Chans
  <2> QED BY <1>12, <2>1, <2>2 DEF TypeOK, NoDescs, GivenBack
<1>13. ASSUME NEW p \in Procs, StillBusy(p) PROVE TypeOK'
  <2>1. chan' \in [Procs -> Chans]
    BY <1>13, <1>b DEF TypeOK, StillBusy, At, Chans
  <2>2. op' \in [Procs -> Calls]
    BY <1>13, <1>a, OpTyped DEF StillBusy, Goto
  <2> QED BY <1>13, <2>1, <2>2 DEF TypeOK, StillBusy
<1>14. ASSUME NEW p \in Procs, Finished(p) PROVE TypeOK'
  <2>0. op[p].b \in Bufs /\ op[p].head \in Descs
    BY <1>14, <1>b DEF Finished, At, OwnRequest, InFlight
  <2>1. buf' \in [Bufs -> Buffers]
    BY <1>14, <2>0, BufTyped DEF Finished
  <2>2. op' \in [Procs -> Calls]
    BY <1>14, <1>a, OpTyped DEF Finished
  <2>3. req' \in [Descs -> Requests]
    BY <1>14, <1>0 DEF TypeOK, Finished
  <2>4. free' \in SUBSET Descs
    <3>1. req[op[p].head].chain \in Seq(Descs)
      BY <2>0 DEF TypeOK, Requests
    <3>2. Entries(req[op[p].head].chain) \subseteq Descs
      BY <3>1 DEF Entries
    <3> QED BY <1>14, <3>2 DEF TypeOK, Finished
  <2> QED BY <1>14, <2>1, <2>2, <2>3, <2>4, Awake DEF TypeOK, Finished
<1>15. ASSUME NEW d \in Descs, Device(d) PROVE TypeOK'
  <2>0. req[d].b \in Bufs
    BY <1>15 DEF Device, OwnRequest, TypeOK, Requests
  <2>1. disk[buf[req[d].b].blockno] \in {0, 1} \/ buf[req[d].b].blockno \notin Blocks
    BY DEF TypeOK
  <2>2. buf[req[d].b].blockno \in Blocks
    <3>1. PICK p \in Procs : op[p].head = d
      BY <1>15, <2>0 DEF Device, OwnRequest, Bufs
    <3>2. op[p].pc \in InFlight /\ op[p].b = req[d].b
      BY <3>1 DEF OwnRequest, Descs
    <3> QED BY <3>2 DEF OwnBuffer, InFlight
  <2>3. buf' \in [Bufs -> Buffers]
    BY <1>15, <2>0, <2>1, <2>2, BufTyped DEF Device, TypeOK
  <2>4. disk' \in [Blocks -> {0, 1}]
    BY <1>15, <2>0, <2>2 DEF Device, TypeOK, Buffers
  <2> QED BY <1>15, <2>3, <2>4 DEF Device, TypeOK
<1>16. ASSUME IntrStart \/ IntrEmpty PROVE TypeOK'
  BY <1>16 DEF TypeOK, IntrStart, IntrEmpty
<1>17. ASSUME IntrEntry PROVE TypeOK'
  <2>1. used' \in Seq(Descs)
    BY <1>17 DEF IntrEntry, TypeOK
  <2>2. buf' \in [Bufs -> Buffers]
    <3>1. used[1] \in Descs /\ used[1] \in Entries(used)
      BY <1>17 DEF IntrEntry, TypeOK, Entries
    <3>2. req[used[1]].b \in Bufs
      BY <3>1 DEF OwnRequest, TypeOK, Requests
    <3> QED BY <1>17, <3>2, BufTyped DEF IntrEntry
  <2> QED BY <1>17, <2>1, <2>2, Awake DEF IntrEntry, TypeOK
<1>18. ASSUME UNCHANGED vars PROVE TypeOK'
  BY <1>18 DEF vars, TypeOK
<1>19. ASSUME NEW p \in Procs, NEW k \in Blocks, BgetPanics(p, k) PROVE TypeOK'
  BY <1>19 DEF BgetPanics, TypeOK
<1> QED BY <1>1, <1>2, <1>3, <1>4, <1>5, <1>6, <1>7, <1>8, <1>9, <1>10, <1>11, <1>12, <1>13, <1>14, <1>15,
           <1>16, <1>17, <1>18, <1>19 DEF Next, Spin

-----------------------------------------------------------------------------
(* What each step changes, field by field.                                  *)

KeepBlock == \A c \in Bufs : buf'[c].blockno = buf[c].blockno
KeepValid == \A c \in Bufs : buf'[c].valid = buf[c].valid
KeepCount == \A c \in Bufs : buf'[c].refcnt = buf[c].refcnt
KeepHolder == \A c \in Bufs : buf'[c].holder = buf[c].holder
KeepBusy == \A c \in Bufs : buf'[c].disk = buf[c].disk
KeepData == \A c \in Bufs : buf'[c].data = buf[c].data
KeepPlace == \A q \in Procs : op'[q].b = op[q].b /\ op'[q].k = op[q].k
KeepWrite == \A q \in Procs : op'[q].write = op[q].write
KeepHead == \A q \in Procs : op'[q].head = op[q].head
MovesTo(p, a) == \A q \in Procs : op'[q].pc = IF q = p THEN a ELSE op[q].pc
Enters(p, k, b) ==
  /\ MovesTo(p, "lock") /\ KeepHead
  /\ op[p].pc = "user" /\ op'[p].k = k /\ op'[p].b = b /\ ~op'[p].write /\ op'[p].head = 0
  /\ \A q \in Procs \ {p} : op'[q].b = op[q].b /\ op'[q].k = op[q].k /\ op'[q].write = op[q].write

LEMMA MoveEffect ==
  ASSUME TypeOK, NEW p \in Procs, NEW a, op' = [op EXCEPT ![p].pc = a]
  PROVE  KeepPlace /\ KeepWrite /\ KeepHead /\ MovesTo(p, a)
  BY DEF TypeOK, Calls, KeepPlace, KeepWrite, KeepHead, MovesTo

LEMMA BusyEffect ==
  ASSUME TypeOK, NEW b \in Bufs, NEW t, buf' = [buf EXCEPT ![b].disk = t]
  PROVE  /\ KeepBlock /\ KeepValid /\ KeepCount /\ KeepHolder /\ KeepData
         /\ buf'[b].disk = t /\ \A c \in Bufs \ {b} : buf'[c].disk = buf[c].disk
  BY DEF TypeOK, Buffers, KeepBlock, KeepValid, KeepCount, KeepHolder, KeepData

LEMMA ValidEffect ==
  ASSUME TypeOK, NEW b \in Bufs, NEW t, buf' = [buf EXCEPT ![b].valid = t]
  PROVE  /\ KeepBlock /\ KeepCount /\ KeepHolder /\ KeepBusy /\ KeepData
         /\ buf'[b].valid = t /\ \A c \in Bufs \ {b} : buf'[c].valid = buf[c].valid
  BY DEF TypeOK, Buffers, KeepBlock, KeepCount, KeepHolder, KeepBusy, KeepData

LEMMA EnterFields ==
  ASSUME NEW p \in Procs, NEW k, NEW b, op[p].pc = "user", op[p].head = 0,
         op'[p].pc = "lock", op'[p].k = k, op'[p].b = b, op'[p].head = 0, ~op'[p].write,
         \A q \in Procs \ {p} : op'[q] = op[q]
  PROVE  Enters(p, k, b)
  BY DEF Enters, KeepHead, MovesTo

LEMMA EnterEffect ==
  ASSUME TypeOK, OwnRequest, NEW p \in Procs, NEW k, NEW b, op[p].pc = "user",
         op' = [op EXCEPT ![p] = [NoOp EXCEPT !.pc = "lock", !.k = k, !.b = b]]
  PROVE  Enters(p, k, b)
<1>1. op[p].head = 0
  BY DEF OwnRequest, InFlight
<1> DEFINE c == [NoOp EXCEPT !.pc = "lock", !.k = k, !.b = b]
<1>2. c.pc = "lock" /\ c.k = k /\ c.b = b /\ c.head = 0
  BY DEF NoOp
<1>3. ~c.write
  BY DEF NoOp
<1> HIDE DEF c
<1>4. op' = [op EXCEPT ![p] = c]
  BY DEF c
<1>5. op'[p] = c /\ \A q \in Procs \ {p} : op'[q] = op[q]
  BY <1>4 DEF TypeOK
<1>6. op'[p].pc = "lock" /\ op'[p].k = k /\ op'[p].b = b /\ op'[p].head = 0
  BY <1>2, <1>5
<1>7. ~op'[p].write
  BY <1>3, <1>5
<1> QED BY <1>1, <1>5, <1>6, <1>7, EnterFields

LEMMA HitEffect ==
  ASSUME TypeOK, OwnRequest, NEW p \in Procs, NEW k \in Blocks, BgetHit(p, k)
  PROVE  \E b \in Bufs :
           /\ Enters(p, k, b) /\ buf[b].blockno = k /\ st[p] = "running"
           /\ KeepBlock /\ KeepValid /\ KeepHolder /\ KeepBusy /\ KeepData
           /\ \A c \in Bufs : buf'[c].refcnt = IF c = b THEN buf[c].refcnt + 1 ELSE buf[c].refcnt
           /\ UNCHANGED <<cacheVars, diskVars, st, chan>>
<1>1. PICK b \in Bufs : /\ buf' = [buf EXCEPT ![b].refcnt = @ + 1] /\ buf[b].blockno = k
                        /\ op' = [op EXCEPT ![p] = [NoOp EXCEPT !.pc = "lock", !.k = k, !.b = b]]
  BY HitPicks DEF BgetHit, Cached
<1>2. Enters(p, k, b)
  BY <1>1, EnterEffect DEF BgetHit, At
<1>3. /\ KeepBlock /\ KeepValid /\ KeepHolder /\ KeepBusy /\ KeepData
      /\ \A c \in Bufs : buf'[c].refcnt = IF c = b THEN buf[c].refcnt + 1 ELSE buf[c].refcnt
  BY <1>1 DEF TypeOK, Buffers, KeepBlock, KeepValid, KeepHolder, KeepBusy, KeepData
<1> QED BY <1>1, <1>2, <1>3 DEF BgetHit, At

LEMMA MissEffect ==
  ASSUME TypeOK, OwnRequest, NEW p \in Procs, NEW k \in Blocks, BgetMiss(p, k)
  PROVE  \E b \in Bufs :
           /\ Enters(p, k, b) /\ buf[b].refcnt = 0 /\ st[p] = "running"
           /\ \A c \in Bufs : buf[c].blockno # k
           /\ KeepHolder /\ KeepBusy /\ KeepData
           /\ \A c \in Bufs : /\ buf'[c].refcnt = IF c = b THEN 1 ELSE buf[c].refcnt
                              /\ buf'[c].blockno = IF c = b THEN k ELSE buf[c].blockno
                              /\ buf'[c].valid <=> c # b /\ buf[c].valid
           /\ UNCHANGED <<cacheVars, diskVars, st, chan>>
<1>1. PICK b \in Bufs : /\ buf' = [buf EXCEPT ![b] = Recycled(@, k)] /\ buf[b].refcnt = 0
                        /\ op' = [op EXCEPT ![p] = [NoOp EXCEPT !.pc = "lock", !.k = k, !.b = b]]
  BY MissPicks DEF BgetMiss
<1>2. Enters(p, k, b)
  BY <1>1, EnterEffect DEF BgetMiss, At
<1>3. \A c \in Bufs : buf[c].blockno # k
  BY DEF BgetMiss, Cached
<1> DEFINE x == Recycled(buf[b], k)
<1>4. buf'[b] = x /\ \A c \in Bufs \ {b} : buf'[c] = buf[c]
  BY <1>1 DEF TypeOK
<1>5. buf[b] \in Buffers
  BY DEF TypeOK
<1>6. x.refcnt = 1 /\ x.blockno = k /\ x.holder = buf[b].holder /\ x.disk = buf[b].disk /\ x.data = buf[b].data
  BY <1>5 DEF Buffers, Recycled
<1>7. ~x.valid
  <2>1. DOMAIN buf[b] = {"blockno", "valid", "refcnt", "holder", "disk", "data"}
    BY <1>5 DEF Buffers
  <2> QED BY <2>1 DEF Recycled
<1> HIDE DEF x
<1>8. /\ KeepHolder /\ KeepBusy /\ KeepData
      /\ \A c \in Bufs : /\ buf'[c].refcnt = IF c = b THEN 1 ELSE buf[c].refcnt
                         /\ buf'[c].blockno = IF c = b THEN k ELSE buf[c].blockno
                         /\ buf'[c].valid <=> c # b /\ buf[c].valid
  BY <1>4, <1>6, <1>7 DEF KeepHolder, KeepBusy, KeepData
<1> QED BY <1>1, <1>2, <1>3, <1>8 DEF BgetMiss, At

LEMMA SleepEffect ==
  ASSUME TypeOK, NEW p \in Procs, sleep(p)
  PROVE  /\ KeepPlace /\ KeepWrite /\ KeepHead /\ st[p] = "running"
         /\ \/ op[p].pc = "lock-zz" /\ MovesTo(p, "lock")
            \/ op[p].pc = "desc-zz" /\ MovesTo(p, "desc")
            \/ op[p].pc = "rw-zz" /\ MovesTo(p, "rw")
         /\ \A q \in Procs : st'[q] = IF q = p /\ chan[p] # NoChan THEN "sleeping" ELSE st[q]
         /\ UNCHANGED <<buf, cacheVars, diskVars, chan>>
<1>1. \/ op[p].pc = "lock-zz" /\ op' = [op EXCEPT ![p].pc = "lock"]
      \/ op[p].pc = "desc-zz" /\ op' = [op EXCEPT ![p].pc = "desc"]
      \/ op[p].pc = "rw-zz" /\ op' = [op EXCEPT ![p].pc = "rw"]
  BY DEF sleep, Goto
<1>2. \A q \in Procs : st'[q] = IF q = p /\ chan[p] # NoChan THEN "sleeping" ELSE st[q]
  BY DEF sleep, TypeOK
<1> QED BY <1>1, <1>2, MoveEffect DEF sleep

LEMMA LockedEffect ==
  ASSUME TypeOK, OwnBuffer, NEW p \in Procs, Locked(p)
  PROVE  /\ KeepPlace /\ KeepWrite /\ KeepHead /\ st[p] = "running"
         /\ op[p].pc = "lock" /\ op[p].b \in Bufs /\ buf[op[p].b].holder = None
         /\ MovesTo(p, IF buf[op[p].b].valid THEN "hold" ELSE "desc")
         /\ KeepBlock /\ KeepValid /\ KeepCount /\ KeepBusy /\ KeepData
         /\ \A c \in Bufs : buf'[c].holder = IF c = op[p].b THEN p ELSE buf[c].holder
         /\ UNCHANGED <<cacheVars, diskVars, st, chan>>
<1>1. op[p].pc = "lock" /\ st[p] = "running"
  BY DEF Locked, At
<1>2. op[p].b \in Bufs
  BY <1>1 DEF OwnBuffer
<1>3. /\ KeepBlock /\ KeepValid /\ KeepCount /\ KeepBusy /\ KeepData
      /\ \A c \in Bufs : buf'[c].holder = IF c = op[p].b THEN p ELSE buf[c].holder
  BY <1>2 DEF Locked, TypeOK, Buffers, KeepBlock, KeepValid, KeepCount, KeepBusy, KeepData
<1>4. op' = [op EXCEPT ![p].pc = IF buf[op[p].b].valid THEN "hold" ELSE "desc"]
  BY DEF Locked, Goto
<1> QED BY <1>1, <1>2, <1>3, <1>4, MoveEffect DEF Locked

LEMMA LockBusyEffect ==
  ASSUME TypeOK, OwnBuffer, NEW p \in Procs, LockBusy(p)
  PROVE  /\ KeepPlace /\ KeepWrite /\ KeepHead /\ st[p] = "running"
         /\ op[p].pc = "lock" /\ op[p].b \in Bufs /\ buf[op[p].b].holder # None
         /\ MovesTo(p, "lock-zz")
         /\ \A q \in Procs : chan'[q] = IF q = p THEN <<"lock", op[p].b>> ELSE chan[q]
         /\ UNCHANGED <<buf, cacheVars, diskVars, st>>
<1>1. op[p].pc = "lock" /\ st[p] = "running" /\ op' = [op EXCEPT ![p].pc = "lock-zz"]
  BY DEF LockBusy, At, Goto
<1>2. op[p].b \in Bufs
  BY <1>1 DEF OwnBuffer
<1>3. \A q \in Procs : chan'[q] = IF q = p THEN <<"lock", op[p].b>> ELSE chan[q]
  BY DEF LockBusy, TypeOK
<1> QED BY <1>1, <1>2, <1>3, MoveEffect DEF LockBusy

LEMMA ModifyEffect ==
  ASSUME TypeOK, OwnBuffer, NEW p \in Procs, Modify(p)
  PROVE  /\ op[p].pc = "hold" /\ op[p].b \in Bufs /\ op[p].k \in Blocks
         /\ KeepBlock /\ KeepValid /\ KeepHolder /\ KeepBusy
         /\ pinned' = pinned \union {op[p].k}
         /\ \A c \in Bufs \ {op[p].b} : buf'[c].refcnt = buf[c].refcnt /\ buf'[c].data = buf[c].data
         /\ buf'[op[p].b].refcnt = IF op[p].k \in pinned THEN buf[op[p].b].refcnt ELSE buf[op[p].b].refcnt + 1
         /\ \A k \in Blocks : latest'[k] = IF k = op[p].k THEN buf'[op[p].b].data ELSE latest[k]
         /\ UNCHANGED <<lru, diskVars, st, chan, op>>
<1>1. op[p].pc = "hold"
  BY DEF Modify, At
<1>2. op[p].b \in Bufs /\ op[p].k \in Blocks
  BY <1>1 DEF OwnBuffer
<1>3. buf' = [buf EXCEPT ![op[p].b].data = 1 - buf[op[p].b].data,
                         ![op[p].b].refcnt = IF op[p].k \in pinned THEN @ ELSE @ + 1]
  BY DEF Modify
<1> DEFINE x == buf[op[p].b]
           y == [x EXCEPT !.data = 1 - x.data]
           z == [y EXCEPT !.refcnt = IF op[p].k \in pinned THEN x.refcnt ELSE x.refcnt + 1]
<1>a. x \in Buffers /\ 1 - x.data \in {0, 1}
  BY <1>2 DEF TypeOK, Buffers
<1>b. y \in Buffers
  BY <1>a, BufferFields
<1>c. buf'[op[p].b] = z /\ \A c \in Bufs \ {op[p].b} : buf'[c] = buf[c]
  BY <1>2, <1>3 DEF TypeOK, Buffers
<1> HIDE DEF x
<1>d. /\ y.blockno = x.blockno /\ y.valid = x.valid /\ y.holder = x.holder /\ y.disk = x.disk
      /\ y.data = 1 - x.data /\ y.refcnt = x.refcnt
  BY <1>a DEF Buffers
<1> HIDE DEF y
<1>e. /\ z.blockno = y.blockno /\ z.valid = y.valid /\ z.holder = y.holder /\ z.disk = y.disk /\ z.data = y.data
      /\ z.refcnt = IF op[p].k \in pinned THEN x.refcnt ELSE x.refcnt + 1
  BY <1>b DEF Buffers
<1> HIDE DEF z
<1>4. KeepBlock /\ KeepValid /\ KeepHolder /\ KeepBusy
  BY <1>c, <1>d, <1>e DEF KeepBlock, KeepValid, KeepHolder, KeepBusy, x
<1>5. /\ \A c \in Bufs \ {op[p].b} : buf'[c] = buf[c]
      /\ buf'[op[p].b].refcnt = IF op[p].k \in pinned THEN buf[op[p].b].refcnt ELSE buf[op[p].b].refcnt + 1
      /\ buf'[op[p].b].data = 1 - buf[op[p].b].data
  BY <1>c, <1>d, <1>e DEF x
<1>6. latest' = [latest EXCEPT ![op[p].k] = 1 - buf[op[p].b].data]
  BY DEF Modify
<1>7. \A k \in Blocks : latest'[k] = IF k = op[p].k THEN buf'[op[p].b].data ELSE latest[k]
  BY <1>5, <1>6 DEF TypeOK
<1> QED BY <1>1, <1>2, <1>4, <1>5, <1>7 DEF Modify

LEMMA BwriteEffect ==
  ASSUME TypeOK, NEW p \in Procs, bwrite(p)
  PROVE  /\ op[p].pc = "hold" /\ op[p].k \in pinned /\ st[p] = "running"
         /\ KeepPlace /\ KeepHead /\ MovesTo(p, "desc")
         /\ op'[p].write /\ \A q \in Procs \ {p} : op'[q].write = op[q].write
         /\ UNCHANGED <<buf, cacheVars, diskVars, st, chan>>
  BY DEF bwrite, At, TypeOK, Calls, KeepPlace, KeepHead, MovesTo

LEMMA BunpinEffect ==
  ASSUME TypeOK, OwnBuffer, NEW p \in Procs, bunpin(p)
  PROVE  /\ op[p].pc = "unpin" /\ op[p].b \in Bufs /\ op[p].k \in Blocks /\ st[p] = "running"
         /\ KeepPlace /\ KeepHead /\ MovesTo(p, "hold")
         /\ ~op'[p].write /\ \A q \in Procs \ {p} : op'[q].write = op[q].write
         /\ KeepBlock /\ KeepValid /\ KeepHolder /\ KeepBusy /\ KeepData
         /\ \A c \in Bufs : buf'[c].refcnt = IF c = op[p].b THEN buf[c].refcnt - 1 ELSE buf[c].refcnt
         /\ pinned' = pinned \ {op[p].k}
         /\ UNCHANGED <<lru, latest, diskVars, st, chan>>
<1>1. op[p].pc = "unpin" /\ st[p] = "running"
  BY DEF bunpin, At
<1>2. op[p].b \in Bufs /\ op[p].k \in Blocks
  BY <1>1 DEF OwnBuffer
<1>3. /\ KeepPlace /\ KeepHead /\ MovesTo(p, "hold")
      /\ ~op'[p].write /\ \A q \in Procs \ {p} : op'[q].write = op[q].write
  BY DEF bunpin, TypeOK, Calls, KeepPlace, KeepHead, MovesTo
<1>4. /\ KeepBlock /\ KeepValid /\ KeepHolder /\ KeepBusy /\ KeepData
      /\ \A c \in Bufs : buf'[c].refcnt = IF c = op[p].b THEN buf[c].refcnt - 1 ELSE buf[c].refcnt
  BY <1>2 DEF bunpin, TypeOK, Buffers, KeepBlock, KeepValid, KeepHolder, KeepBusy, KeepData
<1> QED BY <1>1, <1>2, <1>3, <1>4 DEF bunpin

LEMMA BrelseEffect ==
  ASSUME TypeOK, OwnBuffer, NEW p \in Procs, Brelse(p)
  PROVE  /\ op[p].pc = "hold" /\ op[p].b \in Bufs /\ st[p] = "running"
         /\ KeepPlace /\ KeepWrite /\ KeepHead /\ MovesTo(p, "release")
         /\ KeepBlock /\ KeepValid /\ KeepCount /\ KeepBusy /\ KeepData
         /\ \A c \in Bufs : buf'[c].holder = IF c = op[p].b THEN None ELSE buf[c].holder
         /\ chan' = Woken(<<"lock", op[p].b>>) /\ st' = Runnable(<<"lock", op[p].b>>)
         /\ UNCHANGED <<cacheVars, diskVars>>
<1>1. op[p].pc = "hold" /\ st[p] = "running" /\ op' = [op EXCEPT ![p].pc = "release"]
  BY DEF Brelse, At, Goto
<1>2. op[p].b \in Bufs
  BY <1>1 DEF OwnBuffer
<1>3. /\ KeepBlock /\ KeepValid /\ KeepCount /\ KeepBusy /\ KeepData
      /\ \A c \in Bufs : buf'[c].holder = IF c = op[p].b THEN None ELSE buf[c].holder
  BY <1>2 DEF Brelse, TypeOK, Buffers, KeepBlock, KeepValid, KeepCount, KeepBusy, KeepData
<1> QED BY <1>1, <1>2, <1>3, MoveEffect DEF Brelse

LEMMA BrelseRefEffect ==
  ASSUME TypeOK, OwnBuffer, OwnRequest, NEW p \in Procs, BrelseRef(p)
  PROVE  /\ op[p].pc = "release" /\ op[p].b \in Bufs /\ st[p] = "running"
         /\ MovesTo(p, "user") /\ KeepHead /\ op'[p].b = 0 /\ ~op'[p].write
         /\ \A q \in Procs \ {p} : op'[q].b = op[q].b /\ op'[q].k = op[q].k /\ op'[q].write = op[q].write
         /\ KeepBlock /\ KeepValid /\ KeepHolder /\ KeepBusy /\ KeepData
         /\ \A c \in Bufs : buf'[c].refcnt = IF c = op[p].b THEN buf[c].refcnt - 1 ELSE buf[c].refcnt
         /\ UNCHANGED <<latest, pinned, diskVars, st, chan>>
<1>1. op[p].pc = "release" /\ st[p] = "running" /\ op' = [op EXCEPT ![p] = NoOp]
  BY DEF BrelseRef, At
<1>2. op[p].b \in Bufs /\ op[p].head = 0
  BY <1>1 DEF OwnBuffer, OwnRequest, InFlight
<1>3. /\ MovesTo(p, "user") /\ KeepHead /\ op'[p].b = 0 /\ ~op'[p].write
      /\ \A q \in Procs \ {p} : op'[q].b = op[q].b /\ op'[q].k = op[q].k /\ op'[q].write = op[q].write
  BY <1>1, <1>2 DEF TypeOK, NoOp, MovesTo, KeepHead
<1>4. /\ KeepBlock /\ KeepValid /\ KeepHolder /\ KeepBusy /\ KeepData
      /\ \A c \in Bufs : buf'[c].refcnt = IF c = op[p].b THEN buf[c].refcnt - 1 ELSE buf[c].refcnt
  BY <1>2 DEF BrelseRef, Drop, TypeOK, Buffers, KeepBlock, KeepValid, KeepHolder, KeepBusy, KeepData
<1> QED BY <1>1, <1>2, <1>3, <1>4 DEF BrelseRef

LEMMA SubmitEffect ==
  ASSUME TypeOK, OwnBuffer, NEW p \in Procs, Submit(p)
  PROVE  \E idx \in Seq(Descs) :
           /\ op[p].pc = "desc" /\ op[p].b \in Bufs /\ st[p] = "running" /\ idx[1] \in free
           /\ Entries(idx) \subseteq free /\ idx[1] \in Entries(idx) /\ idx[1] \in Descs
           /\ KeepPlace /\ KeepWrite /\ MovesTo(p, "rw-zz")
           /\ \A q \in Procs : op'[q].head = IF q = p THEN idx[1] ELSE op[q].head
           /\ KeepBlock /\ KeepValid /\ KeepCount /\ KeepHolder /\ KeepData
           /\ buf'[op[p].b].disk /\ \A c \in Bufs \ {op[p].b} : buf'[c].disk = buf[c].disk
           /\ free' = free \ Entries(idx) /\ avail' = avail \union {idx[1]}
           /\ req'[idx[1]].b = op[p].b /\ req'[idx[1]].write = op[p].write /\ req'[idx[1]].chain = idx
           /\ \A d \in Descs \ {idx[1]} : req'[d] = req[d]
           /\ \A q \in Procs : chan'[q] = IF q = p THEN <<"buf", op[p].b>> ELSE chan[q]
           /\ UNCHANGED <<cacheVars, disk, used, irq, intr, st>>
<1>1. op[p].pc = "desc" /\ st[p] = "running" /\ Cardinality(free) >= 3
  BY DEF Submit, At
<1>2. op[p].b \in Bufs
  BY <1>1 DEF OwnBuffer
<1> DEFINE idx == Lowest3
<1>3. idx \in Seq(Descs) /\ idx[1] \in free /\ Entries(idx) \subseteq free /\ idx[1] \in Entries(idx) /\ idx[1] \in Descs
  BY <1>1, Lowest3Picks DEF TypeOK
<1>4. /\ free' = free \ Entries(idx) /\ avail' = avail \union {idx[1]}
      /\ req' = [req EXCEPT ![idx[1]] = [b |-> op[p].b, write |-> op[p].write, chain |-> idx]]
      /\ buf' = [buf EXCEPT ![op[p].b].disk = TRUE]
      /\ chan' = [chan EXCEPT ![p] = <<"buf", op[p].b>>]
      /\ op' = [op EXCEPT ![p].pc = "rw-zz", ![p].head = idx[1]]
      /\ UNCHANGED <<cacheVars, disk, used, irq, intr, st>>
  BY DEF Submit
<1> HIDE DEF idx
<1>5. /\ KeepPlace /\ KeepWrite /\ MovesTo(p, "rw-zz")
      /\ \A q \in Procs : op'[q].head = IF q = p THEN idx[1] ELSE op[q].head
  BY <1>4 DEF TypeOK, Calls, KeepPlace, KeepWrite, MovesTo
<1>6. /\ KeepBlock /\ KeepValid /\ KeepCount /\ KeepHolder /\ KeepData
      /\ buf'[op[p].b].disk /\ \A c \in Bufs \ {op[p].b} : buf'[c].disk = buf[c].disk
  BY <1>2, <1>4, BusyEffect
<1>7. /\ req'[idx[1]].b = op[p].b /\ req'[idx[1]].write = op[p].write /\ req'[idx[1]].chain = idx
      /\ \A d \in Descs \ {idx[1]} : req'[d] = req[d]
  BY <1>3, <1>4 DEF TypeOK
<1>8. \A q \in Procs : chan'[q] = IF q = p THEN <<"buf", op[p].b>> ELSE chan[q]
  BY <1>4 DEF TypeOK
<1> QED BY <1>1, <1>2, <1>3, <1>4, <1>5, <1>6, <1>7, <1>8

LEMMA NoDescsEffect ==
  ASSUME TypeOK, NEW p \in Procs, NoDescs(p)
  PROVE  /\ op[p].pc = "desc" /\ st[p] = "running" /\ Cardinality(free) < 3
         /\ KeepPlace /\ KeepWrite /\ KeepHead /\ MovesTo(p, "desc-zz")
         /\ \A q \in Procs \ {p} : \/ chan'[q] = chan[q] /\ st'[q] = st[q]
                                   \/ chan[q] = FreeChan /\ chan'[q] = NoChan /\ st'[q] = "running"
         /\ chan'[p] = FreeChan /\ st'[p] = "running"
         /\ UNCHANGED <<buf, cacheVars, diskVars>>
<1>1. op[p].pc = "desc" /\ st[p] = "running" /\ op' = [op EXCEPT ![p].pc = "desc-zz"] /\ Cardinality(free) < 3
  BY DEF NoDescs, At, Goto
<1>2. CASE free = {}
  <2>1. st' = st /\ chan' = [chan EXCEPT ![p] = FreeChan]
    BY <1>2 DEF NoDescs
  <2> QED BY <1>1, <2>1, MoveEffect DEF NoDescs, GivenBack, TypeOK, diskVars
<1>3. CASE free # {}
  <2>1. st' = Runnable(FreeChan) /\ chan' = [Woken(FreeChan) EXCEPT ![p] = FreeChan]
    BY <1>3 DEF NoDescs
  <2>2. chan'[p] = FreeChan /\ \A q \in Procs \ {p} : chan'[q] = Woken(FreeChan)[q]
    BY <2>1, Awake
  <2>3. st'[p] = "running"
    BY <1>1, <2>1, Awake
  <2>4. \A q \in Procs \ {p} : \/ chan'[q] = chan[q] /\ st'[q] = st[q]
                               \/ chan[q] = FreeChan /\ chan'[q] = NoChan /\ st'[q] = "running"
    BY <2>1, <2>2, Awake
  <2> QED BY <1>1, <2>2, <2>3, <2>4, MoveEffect DEF NoDescs, GivenBack, diskVars
<1> QED BY <1>2, <1>3

LEMMA StillBusyEffect ==
  ASSUME TypeOK, OwnBuffer, NEW p \in Procs, StillBusy(p)
  PROVE  /\ op[p].pc = "rw" /\ op[p].b \in Bufs /\ st[p] = "running" /\ buf[op[p].b].disk
         /\ KeepPlace /\ KeepWrite /\ KeepHead /\ MovesTo(p, "rw-zz")
         /\ \A q \in Procs : chan'[q] = IF q = p THEN <<"buf", op[p].b>> ELSE chan[q]
         /\ UNCHANGED <<buf, cacheVars, diskVars, st>>
<1>1. op[p].pc = "rw" /\ st[p] = "running" /\ op' = [op EXCEPT ![p].pc = "rw-zz"]
  BY DEF StillBusy, At, Goto
<1>2. op[p].b \in Bufs
  BY <1>1 DEF OwnBuffer
<1>3. \A q \in Procs : chan'[q] = IF q = p THEN <<"buf", op[p].b>> ELSE chan[q]
  BY DEF StillBusy, TypeOK
<1> QED BY <1>1, <1>2, <1>3, MoveEffect DEF StillBusy

LEMMA FinishedEffect ==
  ASSUME TypeOK, OwnBuffer, OwnRequest, NEW p \in Procs, Finished(p)
  PROVE  /\ op[p].pc = "rw" /\ op[p].b \in Bufs /\ op[p].head \in Descs /\ st[p] = "running" /\ ~buf[op[p].b].disk
         /\ KeepPlace /\ KeepWrite /\ MovesTo(p, IF op[p].write THEN "unpin" ELSE "hold")
         /\ \A q \in Procs : op'[q].head = IF q = p THEN 0 ELSE op[q].head
         /\ KeepBlock /\ KeepCount /\ KeepHolder /\ KeepBusy /\ KeepData
         /\ buf'[op[p].b].valid /\ \A c \in Bufs \ {op[p].b} : buf'[c].valid = buf[c].valid
         /\ free' = free \union Entries(req[op[p].head].chain)
         /\ req'[op[p].head] = NoReq /\ \A d \in Descs \ {op[p].head} : req'[d] = req[d]
         /\ chan' = Woken(FreeChan) /\ st' = Runnable(FreeChan)
         /\ UNCHANGED <<cacheVars, disk, avail, used, irq, intr>>
<1>1. op[p].pc = "rw" /\ st[p] = "running" /\ ~buf[op[p].b].disk
  BY DEF Finished, At
<1>2. op[p].b \in Bufs /\ op[p].head \in Descs
  BY <1>1 DEF OwnBuffer, OwnRequest, InFlight
<1>3. op' = [op EXCEPT ![p].pc = IF op[p].write THEN "unpin" ELSE "hold", ![p].head = 0]
  BY DEF Finished
<1>4. /\ KeepPlace /\ KeepWrite /\ MovesTo(p, IF op[p].write THEN "unpin" ELSE "hold")
      /\ \A q \in Procs : op'[q].head = IF q = p THEN 0 ELSE op[q].head
  BY <1>3 DEF TypeOK, Calls, KeepPlace, KeepWrite, MovesTo
<1>5. /\ KeepBlock /\ KeepCount /\ KeepHolder /\ KeepBusy /\ KeepData
      /\ buf'[op[p].b].valid /\ \A c \in Bufs \ {op[p].b} : buf'[c].valid = buf[c].valid
  BY <1>2, ValidEffect DEF Finished
<1>6. req'[op[p].head] = NoReq /\ \A d \in Descs \ {op[p].head} : req'[d] = req[d]
  BY <1>2 DEF Finished, TypeOK
<1> QED BY <1>1, <1>2, <1>4, <1>5, <1>6 DEF Finished

LEMMA OwnerOf ==
  ASSUME TypeOK, OwnBuffer, OwnRequest, NEW d \in avail \union Entries(used)
  PROVE  \E p \in Procs : op[p].head = d /\ op[p].pc \in InFlight /\ op[p].b = req[d].b /\ op[p].b \in Bufs
<1>1. d \in Descs
  BY DEF TypeOK, Entries
<1>2. PICK p \in Procs : op[p].head = d
  BY <1>1 DEF OwnRequest
<1>3. d # 0
  BY <1>1 DEF Descs
<1>4. op[p].pc \in InFlight
  BY <1>2, <1>3 DEF OwnRequest
<1> QED BY <1>2, <1>4 DEF OwnRequest, OwnBuffer, InFlight

LEMMA DeviceEffect ==
  ASSUME TypeOK, OwnBuffer, OwnRequest, NEW d \in Descs, Device(d)
  PROVE  \E p \in Procs :
           /\ op[p].head = d /\ op[p].pc \in InFlight /\ op[p].b \in Bufs /\ op[p].k \in Blocks /\ d \in avail
           /\ KeepBlock /\ KeepValid /\ KeepCount /\ KeepHolder /\ KeepBusy
           /\ \A c \in Bufs \ {op[p].b} : buf'[c].data = buf[c].data
           /\ \A k \in Blocks \ {op[p].k} : disk'[k] = disk[k]
           /\ op[p].write => buf' = buf /\ disk'[op[p].k] = buf[op[p].b].data
           /\ ~op[p].write => disk' = disk /\ buf'[op[p].b].data = disk[op[p].k]
           /\ avail' = avail \ {d} /\ used' = Append(used, d) /\ irq' = TRUE
           /\ UNCHANGED <<cacheVars, free, req, intr, st, chan, op>>
<1>1. d \in avail
  BY DEF Device
<1>2. PICK p \in Procs : op[p].head = d /\ op[p].pc \in InFlight /\ op[p].b = req[d].b /\ op[p].b \in Bufs
  BY <1>1, OwnerOf
<1>3. buf[op[p].b].blockno = op[p].k /\ op[p].k \in Blocks /\ req[d].write = op[p].write
  BY <1>2 DEF OwnBuffer, OwnRequest, InFlight
<1>4. CASE op[p].write
  <2>1. buf' = buf /\ disk' = [disk EXCEPT ![op[p].k] = buf[op[p].b].data]
    BY <1>2, <1>3, <1>4 DEF Device
  <2>2. disk'[op[p].k] = buf[op[p].b].data /\ \A k \in Blocks \ {op[p].k} : disk'[k] = disk[k]
    BY <1>3, <2>1 DEF TypeOK
  <2>3. KeepBlock /\ KeepValid /\ KeepCount /\ KeepHolder /\ KeepBusy
    BY <2>1 DEF KeepBlock, KeepValid, KeepCount, KeepHolder, KeepBusy
  <2> QED BY <1>1, <1>2, <1>3, <1>4, <2>1, <2>2, <2>3 DEF Device
<1>5. CASE ~op[p].write
  <2>1. disk' = disk /\ buf' = [buf EXCEPT ![op[p].b].data = disk[op[p].k]]
    BY <1>2, <1>3, <1>5 DEF Device
  <2>2. /\ KeepBlock /\ KeepValid /\ KeepCount /\ KeepHolder /\ KeepBusy
        /\ buf'[op[p].b].data = disk[op[p].k] /\ \A c \in Bufs \ {op[p].b} : buf'[c].data = buf[c].data
    BY <1>2, <2>1 DEF TypeOK, Buffers, KeepBlock, KeepValid, KeepCount, KeepHolder, KeepBusy
  <2> QED BY <1>1, <1>2, <1>3, <1>5, <2>1, <2>2 DEF Device
<1> QED BY <1>4, <1>5

LEMMA IntrEntryEffect ==
  ASSUME TypeOK, OwnBuffer, OwnRequest, IntrEntry
  PROVE  \E p \in Procs :
           /\ op[p].head = used[1] /\ op[p].pc \in InFlight /\ op[p].b \in Bufs /\ intr /\ used # <<>>
           /\ KeepBlock /\ KeepValid /\ KeepCount /\ KeepHolder /\ KeepData
           /\ ~buf'[op[p].b].disk /\ \A c \in Bufs \ {op[p].b} : buf'[c].disk = buf[c].disk
           /\ chan' = Woken(<<"buf", op[p].b>>) /\ st' = Runnable(<<"buf", op[p].b>>)
           /\ used' = Tail(used)
           /\ UNCHANGED <<cacheVars, disk, free, req, avail, irq, intr, op>>
<1>1. used[1] \in Entries(used)
  BY DEF IntrEntry, TypeOK, Entries
<1>2. PICK p \in Procs : op[p].head = used[1] /\ op[p].pc \in InFlight /\ op[p].b = req[used[1]].b /\ op[p].b \in Bufs
  BY <1>1, OwnerOf
<1>3. buf' = [buf EXCEPT ![op[p].b].disk = FALSE]
  BY <1>2 DEF IntrEntry
<1>4. /\ KeepBlock /\ KeepValid /\ KeepCount /\ KeepHolder /\ KeepData
      /\ ~buf'[op[p].b].disk /\ \A c \in Bufs \ {op[p].b} : buf'[c].disk = buf[c].disk
  BY <1>2, <1>3, BusyEffect
<1> QED BY <1>2, <1>4 DEF IntrEntry

-----------------------------------------------------------------------------
(* Buffers, blocks and counts.                                              *)

LEMMA UsersFinite == ASSUME NEW b PROVE IsFiniteSet(Users(b)) /\ Cardinality(Users(b)) \in Nat
<1>1. Users(b) \subseteq Procs
  BY DEF Users
<1>2. IsFiniteSet(Users(b))
  BY <1>1, FS_Subset, BcacheAssumption
<1> QED BY <1>2, FS_CardinalityType

\* A buffer that somebody uses, or that is pinned, is not free to be recycled.
LEMMA InUse ==
  ASSUME TypeOK, RefsInv, NEW b \in Bufs, buf[b].refcnt = 0
  PROVE  Users(b) = {} /\ buf[b].blockno \notin pinned
<1>1. Cardinality(Users(b)) \in Nat /\ IsFiniteSet(Users(b))
  BY UsersFinite
<1>2. Cardinality(Users(b)) = 0 /\ buf[b].blockno \notin pinned
  BY <1>1 DEF RefsInv, CountExact
<1> QED BY <1>1, <1>2, FS_EmptySet

LEMMA RefsFrame ==
  ASSUME RefsInv, KeepBlock, KeepCount, KeepPlace, pinned' = pinned,
         \A q \in Procs : op'[q].pc = "user" <=> op[q].pc = "user"
  PROVE  RefsInv'
<1>1. \A c : Users(c)' = Users(c)
  BY DEF Users, KeepPlace
<1>2. OwnBuffer'
  BY DEF RefsInv, OwnBuffer, KeepPlace, KeepBlock
<1>3. OneBuffer'
  BY DEF RefsInv, OneBuffer, KeepBlock
<1>4. CountExact'
  BY <1>1 DEF RefsInv, CountExact, KeepBlock, KeepCount
<1> QED BY <1>2, <1>3, <1>4 DEF RefsInv

LEMMA RefsHit ==
  ASSUME TypeOK, RefsInv, OwnRequest, NEW p \in Procs, NEW k \in Blocks, BgetHit(p, k)
  PROVE  RefsInv'
<1>1. PICK b \in Bufs :
           /\ Enters(p, k, b) /\ buf[b].blockno = k /\ KeepBlock
           /\ \A c \in Bufs : buf'[c].refcnt = IF c = b THEN buf[c].refcnt + 1 ELSE buf[c].refcnt
           /\ pinned' = pinned
  BY HitEffect DEF cacheVars
<1>0. op[p].b = 0 /\ 0 \notin Bufs
  BY <1>1 DEF Enters, RefsInv, OwnBuffer, Bufs
<1>2. OwnBuffer'
  BY <1>1 DEF RefsInv, OwnBuffer, Enters, MovesTo, KeepBlock
<1>3. OneBuffer'
  BY <1>1 DEF RefsInv, OneBuffer, KeepBlock
<1>4. CountExact'
  <2>1. Users(b)' = Users(b) \union {p} /\ p \notin Users(b)
    BY <1>0, <1>1 DEF Users, Enters
  <2>2. \A c \in Bufs \ {b} : Users(c)' = Users(c)
    BY <1>0, <1>1 DEF Users, Enters
  <2>3. Cardinality(Users(b)') = Cardinality(Users(b)) + 1 /\ Cardinality(Users(b)) \in Nat
    BY <2>1, UsersFinite, FS_AddElement
  <2> QED BY <1>1, <2>2, <2>3 DEF RefsInv, CountExact, KeepBlock
<1> QED BY <1>2, <1>3, <1>4 DEF RefsInv

LEMMA RefsMiss ==
  ASSUME TypeOK, RefsInv, OwnRequest, NEW p \in Procs, NEW k \in Blocks, BgetMiss(p, k)
  PROVE  RefsInv'
<1>1. PICK b \in Bufs :
           /\ Enters(p, k, b) /\ buf[b].refcnt = 0
           /\ \A c \in Bufs : buf[c].blockno # k
           /\ \A c \in Bufs : /\ buf'[c].refcnt = IF c = b THEN 1 ELSE buf[c].refcnt
                              /\ buf'[c].blockno = IF c = b THEN k ELSE buf[c].blockno
           /\ pinned' = pinned
  BY MissEffect DEF cacheVars
<1>0. op[p].b = 0 /\ 0 \notin Bufs /\ k \notin pinned
  BY <1>1 DEF Enters, RefsInv, OwnBuffer, OneBuffer, Bufs
<1>a. Users(b) = {} /\ buf[b].blockno \notin pinned
  BY <1>1, InUse
<1>2. OwnBuffer'
  <2>1. \A q \in Procs \ {p} : op'[q].b = op[q].b /\ op'[q].k = op[q].k /\ op'[q].pc = op[q].pc /\ op[q].b # b
    BY <1>1, <1>a DEF Enters, MovesTo, Users
  <2>2. op'[p].pc = "lock" /\ op'[p].b = b /\ op'[p].k = k
    BY <1>1 DEF Enters, MovesTo
  <2> QED BY <1>1, <2>1, <2>2 DEF RefsInv, OwnBuffer
<1>3. OneBuffer'
  <2>1. \A c, d \in Bufs : buf'[c].blockno = buf'[d].blockno /\ buf'[c].blockno # None => c = d
    BY <1>1 DEF RefsInv, OneBuffer
  <2>2. \A j \in pinned : \E c \in Bufs : buf'[c].blockno = j
    BY <1>1, <1>a DEF RefsInv, OneBuffer
  <2> QED BY <1>1, <2>1, <2>2 DEF OneBuffer
<1>4. CountExact'
  <2>1. Users(b)' = {p}
    BY <1>0, <1>1, <1>a DEF Users, Enters
  <2>2. \A c \in Bufs \ {b} : Users(c)' = Users(c)
    BY <1>0, <1>1 DEF Users, Enters
  <2>3. Cardinality(Users(b)') = 1
    BY <2>1, FS_Singleton
  <2> QED BY <1>0, <1>1, <2>2, <2>3 DEF RefsInv, CountExact
<1> QED BY <1>2, <1>3, <1>4 DEF RefsInv

LEMMA RefsModify ==
  ASSUME TypeOK, RefsInv, NEW p \in Procs, Modify(p)
  PROVE  RefsInv'
<1>1. /\ op[p].pc = "hold" /\ op[p].b \in Bufs /\ op[p].k \in Blocks
      /\ KeepBlock /\ pinned' = pinned \union {op[p].k} /\ op' = op
      /\ \A c \in Bufs \ {op[p].b} : buf'[c].refcnt = buf[c].refcnt
      /\ buf'[op[p].b].refcnt = IF op[p].k \in pinned THEN buf[op[p].b].refcnt ELSE buf[op[p].b].refcnt + 1
  BY ModifyEffect DEF RefsInv
<1>0. buf[op[p].b].blockno = op[p].k /\ \A c \in Bufs \ {op[p].b} : buf[c].blockno # op[p].k
  <2>1. buf[op[p].b].blockno = op[p].k
    BY <1>1 DEF RefsInv, OwnBuffer
  <2>2. op[p].k # None
    BY <1>1, BcacheAssumption
  <2> QED BY <1>1, <2>1, <2>2 DEF RefsInv, OneBuffer
<1>2. OwnBuffer'
  BY <1>1 DEF RefsInv, OwnBuffer, KeepBlock
<1>3. OneBuffer'
  BY <1>0, <1>1 DEF RefsInv, OneBuffer, KeepBlock
<1>4. CountExact'
  <2>1. \A c : Users(c)' = Users(c)
    BY <1>1 DEF Users
  <2>2. \A c \in Bufs : Cardinality(Users(c)) \in Nat
    BY UsersFinite
  <2> QED BY <1>0, <1>1, <2>1, <2>2 DEF RefsInv, CountExact, KeepBlock
<1> QED BY <1>2, <1>3, <1>4 DEF RefsInv

LEMMA RefsUnpin ==
  ASSUME TypeOK, RefsInv, DataInv, NEW p \in Procs, bunpin(p)
  PROVE  RefsInv'
<1>1. /\ op[p].pc = "unpin" /\ op[p].b \in Bufs /\ op[p].k \in Blocks
      /\ KeepPlace /\ MovesTo(p, "hold") /\ KeepBlock
      /\ \A c \in Bufs : buf'[c].refcnt = IF c = op[p].b THEN buf[c].refcnt - 1 ELSE buf[c].refcnt
      /\ pinned' = pinned \ {op[p].k}
  BY BunpinEffect DEF RefsInv
<1>0. buf[op[p].b].blockno = op[p].k /\ \A c \in Bufs \ {op[p].b} : buf[c].blockno # op[p].k
  <2>1. buf[op[p].b].blockno = op[p].k
    BY <1>1 DEF RefsInv, OwnBuffer
  <2>2. op[p].k # None
    BY <1>1, BcacheAssumption
  <2> QED BY <1>1, <2>1, <2>2 DEF RefsInv, OneBuffer
<1>a. op[p].k \in pinned
  BY <1>1 DEF DataInv, RequestData
<1>2. OwnBuffer'
  BY <1>1 DEF RefsInv, OwnBuffer, KeepBlock, KeepPlace, MovesTo
<1>3. OneBuffer'
  BY <1>0, <1>1 DEF RefsInv, OneBuffer, KeepBlock
<1>4. CountExact'
  <2>1. \A c : Users(c)' = Users(c)
    BY <1>1 DEF Users, KeepPlace
  <2>2. \A c \in Bufs : Cardinality(Users(c)) \in Nat
    BY UsersFinite
  <2> QED BY <1>0, <1>1, <1>a, <2>1, <2>2 DEF RefsInv, CountExact, KeepBlock
<1> QED BY <1>2, <1>3, <1>4 DEF RefsInv

LEMMA RefsRelease ==
  ASSUME TypeOK, RefsInv, OwnRequest, NEW p \in Procs, BrelseRef(p)
  PROVE  RefsInv'
<1>1. /\ op[p].pc = "release" /\ op[p].b \in Bufs
      /\ MovesTo(p, "user") /\ op'[p].b = 0
      /\ \A q \in Procs \ {p} : op'[q].b = op[q].b /\ op'[q].k = op[q].k
      /\ KeepBlock
      /\ \A c \in Bufs : buf'[c].refcnt = IF c = op[p].b THEN buf[c].refcnt - 1 ELSE buf[c].refcnt
      /\ pinned' = pinned
  BY BrelseRefEffect DEF RefsInv
<1>0. 0 \notin Bufs
  BY DEF Bufs
<1>2. OwnBuffer'
  BY <1>1 DEF RefsInv, OwnBuffer, KeepBlock, MovesTo
<1>3. OneBuffer'
  BY <1>1 DEF RefsInv, OneBuffer, KeepBlock
<1>4. CountExact'
  <2>0. PICK b \in Bufs : b = op[p].b
    BY <1>1
  <2>1. Users(b)' = Users(b) \ {p} /\ p \in Users(b)
    BY <1>0, <1>1, <2>0 DEF Users
  <2>2. \A c \in Bufs \ {b} : Users(c)' = Users(c)
    BY <1>0, <1>1, <2>0 DEF Users
  <2>3. Cardinality(Users(b)') = Cardinality(Users(b)) - 1 /\ Cardinality(Users(b)) \in Nat
    BY <2>1, UsersFinite, FS_RemoveElement
  <2> QED BY <1>1, <2>0, <2>2, <2>3 DEF RefsInv, CountExact, KeepBlock
<1> QED BY <1>2, <1>3, <1>4 DEF RefsInv

-----------------------------------------------------------------------------
(* Sleep locks.                                                             *)

LEMMA LockFrame ==
  ASSUME TypeOK, LockInv, KeepHolder,
         \A q \in Procs : /\ op'[q].pc \in Holding <=> op[q].pc \in Holding
                          /\ op[q].pc \in Holding => op'[q].b = op[q].b /\ op[q].b \in Bufs
  PROVE  LockInv'
<1>1. \A b \in Bufs : buf[b].holder # None => buf[b].holder \in Procs
  BY DEF TypeOK, Buffers
<1> QED BY <1>1 DEF LockInv, KeepHolder

\* Two processes past acquiresleep() have different buffers.
LEMMA HoldersApart ==
  ASSUME LockInv, NEW p \in Procs, NEW q \in Procs, p # q, op[p].pc \in Holding, op[q].pc \in Holding
  PROVE  op[p].b # op[q].b
  BY DEF LockInv

LEMMA LockLocked ==
  ASSUME TypeOK, OwnBuffer, LockInv, NEW p \in Procs, Locked(p)
  PROVE  LockInv'
<1>1. /\ KeepPlace /\ op[p].pc = "lock" /\ op[p].b \in Bufs /\ buf[op[p].b].holder = None
      /\ MovesTo(p, IF buf[op[p].b].valid THEN "hold" ELSE "desc")
      /\ \A c \in Bufs : buf'[c].holder = IF c = op[p].b THEN p ELSE buf[c].holder
  BY LockedEffect
<1>2. \A b \in Bufs : buf[b].holder # None => buf[b].holder \in Procs
  BY DEF TypeOK, Buffers
<1>3. \A q \in Procs : op[q].pc \in Holding => op[q].b \in Bufs /\ op[q].b # op[p].b
  BY <1>1, BcacheAssumption DEF LockInv, OwnBuffer, Holding, ForDesc, InFlight, Owning
<1>4. op'[p].pc \in Holding /\ op[p].pc \notin Holding /\ \A q \in Procs \ {p} : op'[q].pc = op[q].pc
  BY <1>1 DEF MovesTo, Holding, ForDesc, InFlight, Owning
<1>5. \A q \in Procs : op'[q].pc \in Holding => buf'[op'[q].b].holder = q
  BY <1>1, <1>3, <1>4 DEF LockInv, KeepPlace
<1>6. \A b \in Bufs : buf'[b].holder # None => op'[buf'[b].holder].b = b /\ op'[buf'[b].holder].pc \in Holding
  BY <1>1, <1>2, <1>4 DEF LockInv, KeepPlace
<1> QED BY <1>5, <1>6 DEF LockInv

LEMMA LockBrelse ==
  ASSUME TypeOK, OwnBuffer, LockInv, NEW p \in Procs, Brelse(p)
  PROVE  LockInv'
<1>1. /\ op[p].pc = "hold" /\ op[p].b \in Bufs /\ KeepPlace /\ MovesTo(p, "release")
      /\ \A c \in Bufs : buf'[c].holder = IF c = op[p].b THEN None ELSE buf[c].holder
  BY BrelseEffect
<1>2. \A b \in Bufs : buf[b].holder # None => buf[b].holder \in Procs
  BY DEF TypeOK, Buffers
<1>3. op[p].pc \in Holding /\ op'[p].pc \notin Holding /\ \A q \in Procs \ {p} : op'[q].pc = op[q].pc
  BY <1>1 DEF MovesTo, Holding, ForDesc, InFlight, Owning
<1>4. \A q \in Procs \ {p} : op[q].pc \in Holding => op[q].b \in Bufs /\ op[q].b # op[p].b
  BY <1>1, <1>3, HoldersApart DEF OwnBuffer, Holding, ForDesc, InFlight, Owning
<1>5. \A q \in Procs : op'[q].pc \in Holding => buf'[op'[q].b].holder = q
  BY <1>1, <1>3, <1>4 DEF LockInv, KeepPlace
<1>6. \A b \in Bufs : buf'[b].holder # None => op'[buf'[b].holder].b = b /\ op'[buf'[b].holder].pc \in Holding
  BY <1>1, <1>2, <1>3 DEF LockInv, KeepPlace
<1> QED BY <1>5, <1>6 DEF LockInv

-----------------------------------------------------------------------------
(* Descriptors and rings.                                                   *)

LEMMA EntriesAppend ==
  ASSUME NEW s \in Seq(Descs), NEW d \in Descs
  PROVE  /\ Entries(Append(s, d)) = Entries(s) \union {d}
         /\ d \notin Entries(s) /\ (\A i, j \in DOMAIN s : s[i] = s[j] => i = j) =>
              \A i, j \in DOMAIN Append(s, d) : Append(s, d)[i] = Append(s, d)[j] => i = j
<1>1. /\ DOMAIN s = 1 .. Len(s) /\ Len(s) \in Nat /\ DOMAIN Append(s, d) = 1 .. Len(s) + 1
      /\ Append(s, d)[Len(s) + 1] = d /\ \A i \in 1 .. Len(s) : Append(s, d)[i] = s[i]
  OBVIOUS
<1>2. \A i \in 1 .. Len(s) + 1 : i \in 1 .. Len(s) \/ i = Len(s) + 1
  BY <1>1
<1>3. \A i \in 1 .. Len(s) : i \in 1 .. Len(s) + 1 /\ i # Len(s) + 1
  BY <1>1
<1>4. Len(s) + 1 \in 1 .. Len(s) + 1
  BY <1>1
<1> QED BY <1>1, <1>2, <1>3, <1>4 DEF Entries

LEMMA EntriesTail ==
  ASSUME NEW s \in Seq(Descs), s # <<>>, \A i, j \in DOMAIN s : s[i] = s[j] => i = j
  PROVE  /\ Entries(Tail(s)) = Entries(s) \ {s[1]}
         /\ \A i, j \in DOMAIN Tail(s) : Tail(s)[i] = Tail(s)[j] => i = j
<1>1. /\ DOMAIN s = 1 .. Len(s) /\ Len(s) \in Nat /\ Len(s) >= 1 /\ DOMAIN Tail(s) = 1 .. Len(s) - 1
      /\ \A i \in 1 .. Len(s) - 1 : Tail(s)[i] = s[i + 1]
  OBVIOUS
<1>2. \A i \in 1 .. Len(s) - 1 : i + 1 \in 1 .. Len(s) /\ i + 1 # 1
  BY <1>1
<1>3. \A i \in 1 .. Len(s) : i # 1 => i - 1 \in 1 .. Len(s) - 1 /\ (i - 1) + 1 = i
  BY <1>1
<1>4. 1 \in 1 .. Len(s)
  BY <1>1
<1>5. Entries(Tail(s)) \subseteq Entries(s) \ {s[1]}
  BY <1>1, <1>2, <1>4 DEF Entries
<1>6. ASSUME NEW i \in 1 .. Len(s), s[i] # s[1] PROVE s[i] \in Entries(Tail(s))
  <2>1. i - 1 \in 1 .. Len(s) - 1 /\ (i - 1) + 1 = i
    BY <1>3, <1>6
  <2>2. Tail(s)[i - 1] = s[i]
    BY <1>1, <2>1
  <2> QED BY <1>1, <2>1, <2>2 DEF Entries
<1>7. \A i, j \in 1 .. Len(s) - 1 : s[i + 1] = s[j + 1] => i = j
  BY <1>1, <1>2
<1> QED BY <1>1, <1>5, <1>6, <1>7, SMTT(30) DEF Entries

LEMMA DiskFrame ==
  ASSUME DiskInv, UNCHANGED <<free, req, avail, used>>, KeepBusy, KeepHead, used # <<>> => irq' \/ intr',
         \A q \in Procs : /\ op'[q].pc \in InFlight <=> op[q].pc \in InFlight
                          /\ op[q].pc \in InFlight => op'[q].b = op[q].b /\ op'[q].write = op[q].write /\ op[q].b \in Bufs
  PROVE  DiskInv'
<1>1. OwnRequest'
  BY DEF DiskInv, OwnRequest, KeepHead
<1>2. Partition'
  BY DEF DiskInv, Partition
<1>3. InRing'
  BY DEF DiskInv, InRing, KeepHead, KeepBusy
<1> QED BY <1>1, <1>2, <1>3 DEF DiskInv

LEMMA DiskSubmit ==
  ASSUME TypeOK, OwnBuffer, LockInv, DiskInv, NEW p \in Procs, Submit(p)
  PROVE  DiskInv'
<1>1. PICK idx \in Seq(Descs) :
           /\ op[p].pc = "desc" /\ op[p].b \in Bufs /\ st[p] = "running" /\ idx[1] \in free
           /\ Entries(idx) \subseteq free /\ idx[1] \in Entries(idx) /\ idx[1] \in Descs
           /\ KeepPlace /\ KeepWrite /\ MovesTo(p, "rw-zz")
           /\ \A q \in Procs : op'[q].head = IF q = p THEN idx[1] ELSE op[q].head
           /\ KeepBlock /\ KeepValid /\ KeepCount /\ KeepHolder /\ KeepData
           /\ buf'[op[p].b].disk /\ \A c \in Bufs \ {op[p].b} : buf'[c].disk = buf[c].disk
           /\ free' = free \ Entries(idx) /\ avail' = avail \union {idx[1]}
           /\ req'[idx[1]].b = op[p].b /\ req'[idx[1]].write = op[p].write /\ req'[idx[1]].chain = idx
           /\ \A d \in Descs \ {idx[1]} : req'[d] = req[d]
           /\ \A q \in Procs : chan'[q] = IF q = p THEN <<"buf", op[p].b>> ELSE chan[q]
           /\ UNCHANGED <<cacheVars, disk, used, irq, intr, st>>
  BY SubmitEffect
<1> DEFINE h == idx[1]
<1>0. h \in Descs /\ h # 0 /\ h \notin Entries(req[h].chain)
  BY <1>1 DEF DiskInv, Partition, Descs
<1>2. \A q \in Procs : op[q].pc \in InFlight => op[q].head # h
  BY <1>0 DEF DiskInv, OwnRequest
<1>3. req[h].b = 0 /\ Entries(req[h].chain) = {}
  BY <1>0, <1>2 DEF DiskInv, OwnRequest
<1>4. h \notin avail /\ h \notin Entries(used)
  BY <1>3 DEF DiskInv, OwnRequest
<1>5. op[p].pc \notin InFlight /\ op'[p].pc \in InFlight /\ \A q \in Procs \ {p} : op'[q].pc = op[q].pc
  BY <1>1 DEF MovesTo, InFlight
<1>6. \A q \in Procs \ {p} : op[q].pc \in InFlight => op[q].b \in Bufs /\ op[q].b # op[p].b
  BY <1>1, HoldersApart DEF OwnBuffer, Holding, ForDesc, InFlight
<1> HIDE DEF h
<1>a. /\ op'[p].head = h /\ \A q \in Procs \ {p} : op'[q].head = op[q].head
      /\ req'[h].b = op[p].b /\ req'[h].write = op[p].write /\ req'[h].chain = idx /\ h \in Entries(idx)
      /\ \A d \in Descs \ {h} : req'[d] = req[d]
      /\ avail' = avail \union {h}
      /\ op[p].b # 0
  BY <1>1 DEF h, Bufs
<1>7. OwnRequest'
  <2>1. ASSUME NEW q \in Procs
        PROVE  IF op'[q].pc \in InFlight
               THEN /\ op'[q].head \in Descs /\ op'[q].head \in Entries(req'[op'[q].head].chain)
                    /\ req'[op'[q].head].b = op'[q].b /\ req'[op'[q].head].write = op'[q].write
               ELSE op'[q].head = 0
    <3>1. CASE q = p
      BY <1>0, <1>1, <1>5, <1>a, <3>1 DEF KeepPlace, KeepWrite
    <3>2. CASE q # p
      <4>1. op'[q].pc = op[q].pc /\ op'[q].head = op[q].head /\ op'[q].b = op[q].b /\ op'[q].write = op[q].write
        BY <1>1, <1>5, <1>a, <3>2 DEF KeepPlace, KeepWrite
      <4> QED BY <1>2, <1>a, <4>1 DEF DiskInv, OwnRequest
    <3> QED BY <3>1, <3>2
  <2>2. \A q, r \in Procs : op'[q].pc \in InFlight /\ op'[r].pc \in InFlight /\ op'[q].head = op'[r].head => q = r
    BY <1>2, <1>5, <1>a DEF DiskInv, OwnRequest
  <2>3. \A d \in Descs : IF req'[d].b = 0 THEN Entries(req'[d].chain) = {} ELSE \E q \in Procs : op'[q].head = d
    <3> TAKE d \in Descs
    <3>1. CASE d = h
      BY <1>a, <3>1
    <3>2. CASE d # h
      <4>1. req'[d] = req[d]
        BY <1>a, <3>2
      <4>2. \A q \in Procs : op[q].head = d => op'[q].head = d
        BY <1>5, <1>a DEF DiskInv, OwnRequest, Descs
      <4> QED BY <4>1, <4>2 DEF DiskInv, OwnRequest
    <3> QED BY <3>1, <3>2
  <2>4. \A d \in avail' \union Entries(used') : req'[d].b # 0
    <3>1. \A d \in avail \union Entries(used) : d \in Descs /\ d # h
      BY <1>4 DEF TypeOK, Entries
    <3> QED BY <1>1, <1>a, <3>1 DEF DiskInv, OwnRequest
  <2> QED BY <2>1, <2>2, <2>3, <2>4 DEF OwnRequest
<1>8. Partition'
  <2>1. \A g \in Descs : Entries(req'[g].chain) = IF g = h THEN Entries(idx) ELSE Entries(req[g].chain)
    BY <1>a
  <2>2. \A d \in Descs : d \in free => \A g \in Descs : d \notin Entries(req[g].chain)
    BY DEF DiskInv, Partition
  <2>3. \A d \in Descs : (\A g \in Descs : d \notin Entries(req[g].chain)) => d \in free
    BY DEF DiskInv, Partition
  <2>4. \A d \in Descs : (d \in free') <=> (\A g \in Descs : d \notin Entries(req'[g].chain))
    BY <1>0, <1>1, <1>3, <2>1, <2>2, <2>3
  <2>5. \A f, g \in Descs : f # g => Entries(req'[f].chain) \intersect Entries(req'[g].chain) = {}
    <3>1. \A g \in Descs : Entries(idx) \intersect Entries(req[g].chain) = {}
      BY <1>1, <2>2 DEF TypeOK
    <3> QED BY <2>1, <3>1 DEF DiskInv, Partition
  <2> QED BY <2>4, <2>5 DEF Partition
<1>9. InRing'
  <2>1. \A d \in avail' : d \notin Entries(used')
    BY <1>1, <1>4, <1>a DEF DiskInv, InRing
  <2>2. ASSUME NEW q \in Procs, op'[q].pc \in InFlight
        PROVE  buf'[op'[q].b].disk <=> op'[q].head \in avail' \union Entries(used')
    <3>1. CASE q = p
      BY <1>1, <1>a, <3>1 DEF KeepPlace
    <3>2. CASE q # p
      <4>1. op[q].pc \in InFlight /\ op'[q].head = op[q].head /\ op'[q].b = op[q].b
        BY <1>1, <1>5, <1>a, <2>2, <3>2 DEF KeepPlace
      <4>2. buf'[op[q].b].disk = buf[op[q].b].disk /\ op[q].head # h
        BY <1>1, <1>2, <1>6, <3>2, <4>1
      <4>3. buf[op[q].b].disk <=> op[q].head \in avail \union Entries(used)
        BY <4>1 DEF DiskInv, InRing
      <4> QED BY <1>1, <1>a, <4>1, <4>2, <4>3
    <3> QED BY <3>1, <3>2
  <2> QED BY <1>1, <2>1, <2>2 DEF DiskInv, InRing
<1> QED BY <1>7, <1>8, <1>9 DEF DiskInv

LEMMA DiskFinished ==
  ASSUME TypeOK, OwnBuffer, LockInv, DiskInv, NEW p \in Procs, Finished(p)
  PROVE  DiskInv'
<1>1. /\ op[p].pc = "rw" /\ op[p].b \in Bufs /\ op[p].head \in Descs /\ ~buf[op[p].b].disk
      /\ KeepPlace /\ KeepWrite /\ MovesTo(p, IF op[p].write THEN "unpin" ELSE "hold")
      /\ \A q \in Procs : op'[q].head = IF q = p THEN 0 ELSE op[q].head
      /\ KeepBusy
      /\ free' = free \union Entries(req[op[p].head].chain)
      /\ req'[op[p].head] = NoReq /\ \A d \in Descs \ {op[p].head} : req'[d] = req[d]
      /\ UNCHANGED <<avail, used, irq, intr>>
  BY FinishedEffect DEF DiskInv
<1>2. PICK h \in Descs : h = op[p].head
  BY <1>1
<1>3. op[p].pc \in InFlight /\ op'[p].pc \notin InFlight /\ \A q \in Procs \ {p} : op'[q].pc = op[q].pc
  BY <1>1 DEF MovesTo, InFlight
<1>4. h \notin avail /\ h \notin Entries(used)
  BY <1>1, <1>2, <1>3 DEF DiskInv, InRing
<1>5. \A q \in Procs \ {p} : op[q].pc \in InFlight => op[q].head # h
  BY <1>2, <1>3 DEF DiskInv, OwnRequest
<1>a. /\ req'[h].b = 0 /\ Entries(req'[h].chain) = {}
      /\ \A d \in Descs \ {h} : req'[d] = req[d]
      /\ op'[p].head = 0 /\ \A q \in Procs \ {p} : op'[q].head = op[q].head
  BY <1>1, <1>2 DEF NoReq, Entries
<1>6. OwnRequest'
  <2>1. ASSUME NEW q \in Procs
        PROVE  IF op'[q].pc \in InFlight
               THEN /\ op'[q].head \in Descs /\ op'[q].head \in Entries(req'[op'[q].head].chain)
                    /\ req'[op'[q].head].b = op'[q].b /\ req'[op'[q].head].write = op'[q].write
               ELSE op'[q].head = 0
    <3>1. CASE q = p
      BY <1>3, <1>a, <3>1
    <3>2. CASE q # p
      <4>1. op'[q].pc = op[q].pc /\ op'[q].head = op[q].head /\ op'[q].b = op[q].b /\ op'[q].write = op[q].write
        BY <1>1, <1>3, <1>a, <3>2 DEF KeepPlace, KeepWrite
      <4> QED BY <1>5, <1>a, <3>2, <4>1 DEF DiskInv, OwnRequest
    <3> QED BY <3>1, <3>2
  <2>2. \A q, r \in Procs : op'[q].pc \in InFlight /\ op'[r].pc \in InFlight /\ op'[q].head = op'[r].head => q = r
    BY <1>3, <1>a DEF DiskInv, OwnRequest
  <2>3. \A d \in Descs : IF req'[d].b = 0 THEN Entries(req'[d].chain) = {} ELSE \E q \in Procs : op'[q].head = d
    <3> TAKE d \in Descs
    <3>1. CASE d = h
      BY <1>a, <3>1
    <3>2. CASE d # h
      <4>1. req'[d] = req[d]
        BY <1>a, <3>2
      <4>2. \A q \in Procs : op[q].head = d => op'[q].head = d
        BY <1>2, <1>a, <3>2
      <4> QED BY <4>1, <4>2 DEF DiskInv, OwnRequest
    <3> QED BY <3>1, <3>2
  <2>4. \A d \in avail' \union Entries(used') : req'[d].b # 0
    <3>1. \A d \in avail \union Entries(used) : d \in Descs /\ d # h
      BY <1>4 DEF TypeOK, Entries
    <3> QED BY <1>1, <1>a, <3>1 DEF DiskInv, OwnRequest
  <2> QED BY <2>1, <2>2, <2>3, <2>4 DEF OwnRequest
<1>7. Partition'
  <2>1. \A g \in Descs : Entries(req'[g].chain) = IF g = h THEN {} ELSE Entries(req[g].chain)
    BY <1>a
  <2>2. free' = free \union Entries(req[h].chain)
    BY <1>1, <1>2
  <2>3. \A d \in Descs : (d \in free') <=> (\A g \in Descs : d \notin Entries(req'[g].chain))
    BY <2>1, <2>2 DEF DiskInv, Partition
  <2>4. \A f, g \in Descs : f # g => Entries(req'[f].chain) \intersect Entries(req'[g].chain) = {}
    BY <2>1 DEF DiskInv, Partition
  <2> QED BY <2>3, <2>4 DEF Partition
<1>8. InRing'
  <2>1. ASSUME NEW q \in Procs, op'[q].pc \in InFlight
        PROVE  buf'[op'[q].b].disk <=> op'[q].head \in avail' \union Entries(used')
    <3>1. q # p /\ op[q].pc \in InFlight /\ op'[q].head = op[q].head /\ op'[q].b = op[q].b
      BY <1>1, <1>3, <1>a, <2>1 DEF KeepPlace
    <3>2. op[q].b \in Bufs
      BY <3>1 DEF OwnBuffer, InFlight
    <3> QED BY <1>1, <3>1, <3>2 DEF DiskInv, InRing, KeepBusy
  <2> QED BY <1>1, <2>1 DEF DiskInv, InRing
<1> QED BY <1>6, <1>7, <1>8 DEF DiskInv

LEMMA DiskDevice ==
  ASSUME TypeOK, OwnBuffer, DiskInv, NEW d \in Descs, Device(d)
  PROVE  DiskInv'
<1>1. /\ d \in avail /\ KeepBusy /\ avail' = avail \ {d} /\ used' = Append(used, d) /\ irq' = TRUE
      /\ UNCHANGED <<free, req, op>>
  BY DeviceEffect DEF DiskInv
<1>2. d \notin Entries(used) /\ used \in Seq(Descs)
  BY <1>1 DEF DiskInv, InRing, TypeOK
<1>3. /\ Entries(used') = Entries(used) \union {d}
      /\ \A i, j \in DOMAIN used' : used'[i] = used'[j] => i = j
  <2>1. \A i, j \in DOMAIN used : used[i] = used[j] => i = j
    BY DEF DiskInv, InRing
  <2> QED BY <1>1, <1>2, <2>1, EntriesAppend
<1>4. avail' \union Entries(used') = avail \union Entries(used)
  BY <1>1, <1>3
<1>5. OwnRequest'
  BY <1>1, <1>4 DEF DiskInv, OwnRequest
<1>6. Partition'
  BY <1>1 DEF DiskInv, Partition
<1>7. InRing'
  <2>1. \A e \in avail' : e \notin Entries(used')
    BY <1>1, <1>3 DEF DiskInv, InRing
  <2>2. \A q \in Procs : op'[q].pc \in InFlight => (buf'[op'[q].b].disk <=> op'[q].head \in avail' \union Entries(used'))
    BY <1>1, <1>4 DEF DiskInv, InRing, OwnBuffer, InFlight, KeepBusy
  <2> QED BY <1>1, <1>3, <2>1, <2>2 DEF InRing
<1> QED BY <1>5, <1>6, <1>7 DEF DiskInv

LEMMA DiskIntrEntry ==
  ASSUME TypeOK, OwnBuffer, LockInv, DiskInv, IntrEntry
  PROVE  DiskInv'
<1>1. PICK p \in Procs :
           /\ op[p].head = used[1] /\ op[p].pc \in InFlight /\ op[p].b \in Bufs /\ intr /\ used # <<>>
           /\ ~buf'[op[p].b].disk /\ \A c \in Bufs \ {op[p].b} : buf'[c].disk = buf[c].disk
           /\ used' = Tail(used)
           /\ UNCHANGED <<free, req, avail, irq, intr, op>>
  BY IntrEntryEffect DEF DiskInv
<1>2. used \in Seq(Descs) /\ used[1] \in Entries(used) /\ used[1] \notin avail
  <2>1. used \in Seq(Descs)
    BY DEF TypeOK
  <2>2. used[1] \in Entries(used)
    BY <1>1, <2>1 DEF Entries
  <2> QED BY <2>1, <2>2 DEF DiskInv, InRing
<1>3. /\ Entries(used') = Entries(used) \ {used[1]}
      /\ \A i, j \in DOMAIN used' : used'[i] = used'[j] => i = j
  <2>1. \A i, j \in DOMAIN used : used[i] = used[j] => i = j
    BY DEF DiskInv, InRing
  <2> QED BY <1>1, <1>2, <2>1, EntriesTail
<1>5. OwnRequest'
  BY <1>1, <1>3 DEF DiskInv, OwnRequest
<1>6. Partition'
  BY <1>1 DEF DiskInv, Partition
<1>7. InRing'
  <2>1. \A e \in avail' : e \notin Entries(used')
    BY <1>1, <1>3 DEF DiskInv, InRing
  <2>2. ASSUME NEW q \in Procs, op[q].pc \in InFlight
        PROVE  buf'[op[q].b].disk <=> op[q].head \in avail \union Entries(used')
    <3>1. CASE q = p
      BY <1>1, <1>2, <1>3, <3>1
    <3>2. CASE q # p
      <4>1. op[q].head # used[1]
        BY <1>1, <2>2, <3>2 DEF DiskInv, OwnRequest
      <4>2. op[q].b \in Bufs /\ op[q].b # op[p].b
        BY <1>1, <2>2, <3>2, HoldersApart DEF OwnBuffer, Holding, InFlight
      <4> QED BY <1>1, <1>3, <2>2, <4>1, <4>2 DEF DiskInv, InRing
    <3> QED BY <3>1, <3>2
  <2> QED BY <1>1, <1>3, <2>1, <2>2 DEF InRing
<1> QED BY <1>5, <1>6, <1>7 DEF DiskInv

-----------------------------------------------------------------------------
(* Data.                                                                    *)

\* q stays where it is, but for going to sleep or coming back from it.
SameStage(q) ==
  \/ op'[q].pc = op[q].pc
  \/ \E S \in {Waiting, ForDesc, InFlight} : op[q].pc \in S /\ op'[q].pc \in S

SameCall(q) ==
  SameStage(q) /\ op'[q].b = op[q].b /\ op'[q].k = op[q].k /\ op'[q].write = op[q].write /\ op'[q].head = op[q].head

LEMMA HoldingInside ==
  ASSUME OwnBuffer, NEW p \in Procs, op[p].pc \in Holding
  PROVE  op[p].b \in Bufs /\ op[p].k \in Blocks /\ buf[op[p].b].blockno = op[p].k
  BY DEF OwnBuffer, Holding, ForDesc, InFlight, Owning

\* Two processes past acquiresleep() have different blocks.
LEMMA BlocksApart ==
  ASSUME RefsInv, LockInv, NEW p \in Procs, NEW q \in Procs, p # q, op[p].pc \in Holding, op[q].pc \in Holding
  PROVE  op[p].b # op[q].b /\ op[p].k # op[q].k
<1>1. op[p].b # op[q].b
  BY HoldersApart
<1>2. /\ op[p].b \in Bufs /\ op[p].k \in Blocks /\ buf[op[p].b].blockno = op[p].k
      /\ op[q].b \in Bufs /\ op[q].k \in Blocks /\ buf[op[q].b].blockno = op[q].k
  BY HoldingInside DEF RefsInv
<1>3. op[p].k # None
  BY <1>2, BcacheAssumption
<1> QED BY <1>1, <1>2, <1>3 DEF RefsInv, OneBuffer

LEMMA RequestFrame ==
  ASSUME NEW q \in Procs, RequestData(q), SameCall(q),
         op[q].pc \in Holding =>
           /\ buf'[op[q].b].valid = buf[op[q].b].valid /\ buf'[op[q].b].data = buf[op[q].b].data
           /\ disk'[op[q].k] = disk[op[q].k] /\ latest'[op[q].k] = latest[op[q].k]
           /\ op[q].k \in pinned => op[q].k \in pinned'
           /\ op[q].head \in avail => op[q].head \in avail'
  PROVE  RequestData(q)'
<1>1. /\ op'[q].pc \in Owning <=> op[q].pc \in Owning
      /\ op'[q].pc \in ForDesc <=> op[q].pc \in ForDesc
      /\ op'[q].pc \in InFlight <=> op[q].pc \in InFlight
      /\ op'[q].pc = "unpin" <=> op[q].pc = "unpin"
  BY DEF SameCall, SameStage, Waiting, Owning, ForDesc, InFlight
<1>2. /\ op[q].pc \in Owning => op[q].pc \in Holding
      /\ op[q].pc \in ForDesc => op[q].pc \in Holding
      /\ op[q].pc \in InFlight => op[q].pc \in Holding
      /\ op[q].pc = "unpin" => op[q].pc \in Holding
  BY DEF Holding, Owning
<1> QED BY <1>1, <1>2 DEF RequestData, SameCall

LEMMA DataFrame ==
  ASSUME OwnBuffer, DataInv, KeepBlock, KeepValid, KeepData, UNCHANGED <<latest, pinned, disk>>,
         \A q \in Procs : SameCall(q), avail \subseteq avail'
  PROVE  DataInv'
<1>1. BufferData'
  BY DEF DataInv, BufferData, KeepBlock, KeepValid, KeepData
<1>2. DiskData'
  BY DEF DataInv, DiskData
<1>3. ASSUME NEW q \in Procs PROVE RequestData(q)'
  BY HoldingInside, RequestFrame DEF DataInv, KeepValid, KeepData
<1> QED BY <1>1, <1>2, <1>3 DEF DataInv

LEMMA StayEffect ==
  ASSUME NEW p \in Procs, NEW a, KeepPlace, KeepWrite, KeepHead, MovesTo(p, a),
         a = op[p].pc \/ \E S \in {Waiting, ForDesc, InFlight} : op[p].pc \in S /\ a \in S
  PROVE  \A q \in Procs : SameCall(q)
<1>1. \A q \in Procs : SameStage(q)
  BY DEF MovesTo, SameStage
<1> QED BY <1>1 DEF SameCall, KeepPlace, KeepWrite, KeepHead

LEMMA OthersStay ==
  ASSUME NEW p \in Procs, NEW a, MovesTo(p, a), NEW q \in Procs, q # p,
         op'[q].b = op[q].b, op'[q].k = op[q].k, op'[q].write = op[q].write, op'[q].head = op[q].head
  PROVE  SameCall(q)
  BY DEF SameCall, SameStage, MovesTo

LEMMA DataHit ==
  ASSUME TypeOK, RefsInv, OwnRequest, DataInv, NEW p \in Procs, NEW k \in Blocks, BgetHit(p, k)
  PROVE  DataInv'
<1>1. PICK b \in Bufs :
        /\ Enters(p, k, b) /\ KeepBlock /\ KeepValid /\ KeepData
        /\ UNCHANGED <<latest, pinned, disk, avail>>
  BY HitEffect DEF cacheVars, diskVars
<1>2. BufferData'
  BY <1>1 DEF DataInv, BufferData, KeepBlock, KeepValid, KeepData
<1>3. DiskData'
  BY <1>1 DEF DataInv, DiskData
<1>4. ASSUME NEW q \in Procs PROVE RequestData(q)'
  <2>1. CASE q = p
    <3>1. op'[p].pc \notin Holding /\ ~op'[p].write
      BY <1>1 DEF Enters, MovesTo, Holding, ForDesc, InFlight, Owning
    <3> QED BY <2>1, <3>1 DEF RequestData, Holding, Owning
  <2>2. CASE q # p
    <3>1. SameCall(q)
      BY <1>1, <2>2, OthersStay DEF Enters, KeepHead
    <3> QED BY <1>1, <3>1, HoldingInside, RequestFrame DEF DataInv, RefsInv, KeepValid, KeepData
  <2> QED BY <2>1, <2>2
<1> QED BY <1>2, <1>3, <1>4 DEF DataInv

LEMMA DataMiss ==
  ASSUME TypeOK, RefsInv, OwnRequest, DataInv, NEW p \in Procs, NEW k \in Blocks, BgetMiss(p, k)
  PROVE  DataInv'
<1>1. PICK b \in Bufs :
        /\ Enters(p, k, b) /\ buf[b].refcnt = 0 /\ KeepData
        /\ \A c \in Bufs : buf[c].blockno # k
        /\ \A c \in Bufs : /\ buf'[c].blockno = IF c = b THEN k ELSE buf[c].blockno
                           /\ buf'[c].valid <=> c # b /\ buf[c].valid
        /\ UNCHANGED <<latest, pinned, disk, avail>>
  BY MissEffect DEF cacheVars, diskVars
<1>2. k \notin pinned
  BY <1>1 DEF RefsInv, OneBuffer
<1>3. \A q \in Procs : op[q].b # b
  BY <1>1, InUse DEF Users
<1>4. BufferData'
  BY <1>1, <1>2 DEF DataInv, BufferData, KeepData
<1>5. DiskData'
  BY <1>1 DEF DataInv, DiskData
<1>6. ASSUME NEW q \in Procs PROVE RequestData(q)'
  <2>1. CASE q = p
    <3>1. op'[p].pc \notin Holding /\ ~op'[p].write
      BY <1>1 DEF Enters, MovesTo, Holding, ForDesc, InFlight, Owning
    <3> QED BY <2>1, <3>1 DEF RequestData, Holding, Owning
  <2>2. CASE q # p
    <3>1. SameCall(q)
      BY <1>1, <2>2, OthersStay DEF Enters, KeepHead
    <3>2. op[q].pc \in Holding => buf'[op[q].b].valid = buf[op[q].b].valid /\ buf'[op[q].b].data = buf[op[q].b].data
      <4> HAVE op[q].pc \in Holding
      <4>1. op[q].b \in Bufs
        BY HoldingInside DEF RefsInv
      <4>2. buf[op[q].b].valid \in BOOLEAN /\ buf'[op[q].b].valid \in BOOLEAN
        BY <4>1, TypeNext DEF TypeOK, Buffers, Next, RefsInv
      <4> QED BY <1>1, <1>3, <4>1, <4>2 DEF KeepData
    <3> QED BY <1>1, <3>1, <3>2, RequestFrame DEF DataInv
  <2> QED BY <2>1, <2>2
<1> QED BY <1>4, <1>5, <1>6 DEF DataInv

LEMMA DataLocked ==
  ASSUME TypeOK, RefsInv, DataInv, NEW p \in Procs, Locked(p)
  PROVE  DataInv'
<1>1. /\ KeepPlace /\ KeepWrite /\ KeepHead /\ op[p].pc = "lock" /\ op[p].b \in Bufs
      /\ MovesTo(p, IF buf[op[p].b].valid THEN "hold" ELSE "desc")
      /\ KeepBlock /\ KeepValid /\ KeepData
      /\ UNCHANGED <<latest, pinned, disk, avail>>
  BY LockedEffect DEF cacheVars, diskVars, RefsInv
<1>2. BufferData'
  BY <1>1 DEF DataInv, BufferData, KeepBlock, KeepValid, KeepData
<1>3. DiskData'
  BY <1>1 DEF DataInv, DiskData
<1>4. ASSUME NEW q \in Procs PROVE RequestData(q)'
  <2>1. CASE q = p
    <3>1. ~op[p].write
      BY <1>1 DEF DataInv, RequestData, ForDesc, InFlight
    <3>2. op'[p].b = op[p].b /\ ~op'[p].write /\ buf'[op[p].b].valid = buf[op[p].b].valid
      BY <1>1, <3>1 DEF KeepPlace, KeepWrite, KeepValid
    <3>3. CASE buf[op[p].b].valid
      <4>1. op'[p].pc = "hold"
        BY <1>1, <3>3 DEF MovesTo
      <4> QED BY <2>1, <3>2, <3>3, <4>1 DEF RequestData, Owning, ForDesc, InFlight
    <3>4. CASE ~buf[op[p].b].valid
      <4>1. op'[p].pc = "desc"
        BY <1>1, <3>4 DEF MovesTo
      <4> QED BY <2>1, <3>2, <3>4, <4>1 DEF RequestData, Owning, ForDesc, InFlight
    <3> QED BY <3>3, <3>4
  <2>2. CASE q # p
    <3>1. SameCall(q)
      BY <1>1, <2>2, OthersStay DEF KeepPlace, KeepWrite, KeepHead
    <3> QED BY <1>1, <3>1, HoldingInside, RequestFrame DEF DataInv, RefsInv, KeepValid, KeepData
  <2> QED BY <2>1, <2>2
<1> QED BY <1>2, <1>3, <1>4 DEF DataInv

LEMMA DataModify ==
  ASSUME TypeOK, RefsInv, LockInv, DataInv, NEW p \in Procs, Modify(p)
  PROVE  DataInv'
<1>1. /\ op[p].pc = "hold" /\ op[p].b \in Bufs /\ op[p].k \in Blocks
      /\ KeepBlock /\ KeepValid
      /\ pinned' = pinned \union {op[p].k}
      /\ \A c \in Bufs \ {op[p].b} : buf'[c].data = buf[c].data
      /\ \A k \in Blocks : latest'[k] = IF k = op[p].k THEN buf'[op[p].b].data ELSE latest[k]
      /\ UNCHANGED <<disk, avail, op>>
  BY ModifyEffect DEF diskVars, RefsInv
<1>2. buf[op[p].b].blockno = op[p].k /\ \A c \in Bufs \ {op[p].b} : buf[c].blockno # op[p].k
  <2>1. buf[op[p].b].blockno = op[p].k
    BY <1>1 DEF RefsInv, OwnBuffer
  <2>2. op[p].k # None
    BY <1>1, BcacheAssumption
  <2> QED BY <1>1, <2>1, <2>2 DEF RefsInv, OneBuffer
<1>3. buf[op[p].b].valid /\ ~op[p].write /\ op[p].pc \in Holding
  BY <1>1 DEF DataInv, RequestData, Owning, ForDesc, InFlight, Holding
<1>4. BufferData'
  <2>1. \A c \in Bufs : c # op[p].b /\ buf[c].valid => latest'[buf[c].blockno] = latest[buf[c].blockno]
    BY <1>1, <1>2 DEF DataInv, BufferData
  <2> QED BY <1>1, <1>2, <1>3, <2>1 DEF DataInv, BufferData, KeepBlock, KeepValid
<1>5. DiskData'
  BY <1>1 DEF DataInv, DiskData
<1>6. ASSUME NEW q \in Procs PROVE RequestData(q)'
  <2>1. CASE q = p
    BY <1>1, <1>3, <2>1 DEF RequestData, Owning, ForDesc, InFlight, KeepValid
  <2>2. CASE q # p
    <3>1. SameCall(q)
      BY <1>1 DEF SameCall, SameStage
    <3>2. op[q].pc \in Holding => op[q].b \in Bufs /\ op[q].k \in Blocks /\ op[q].b # op[p].b /\ op[q].k # op[p].k
      BY <1>3, <2>2, BlocksApart, HoldingInside DEF RefsInv
    <3> QED BY <1>1, <3>1, <3>2, RequestFrame DEF DataInv, KeepValid
  <2> QED BY <2>1, <2>2
<1> QED BY <1>4, <1>5, <1>6 DEF DataInv

LEMMA DataBwrite ==
  ASSUME TypeOK, RefsInv, DataInv, NEW p \in Procs, bwrite(p)
  PROVE  DataInv'
<1>1. /\ op[p].pc = "hold" /\ op[p].k \in pinned
      /\ KeepPlace /\ KeepHead /\ MovesTo(p, "desc")
      /\ op'[p].write /\ \A q \in Procs \ {p} : op'[q].write = op[q].write
      /\ UNCHANGED <<buf, latest, pinned, disk, avail>>
  BY BwriteEffect DEF cacheVars, diskVars
<1>2. BufferData' /\ DiskData'
  BY <1>1 DEF DataInv, BufferData, DiskData
<1>3. ASSUME NEW q \in Procs PROVE RequestData(q)'
  <2>1. CASE q = p
    <3>1. buf[op[p].b].valid /\ op'[p].pc = "desc" /\ op'[p].b = op[p].b /\ op'[p].k = op[p].k
      BY <1>1 DEF DataInv, RequestData, Owning, KeepPlace, MovesTo
    <3> QED BY <1>1, <2>1, <3>1 DEF RequestData, Owning, ForDesc, InFlight
  <2>2. CASE q # p
    <3>1. SameCall(q)
      BY <1>1, <2>2, OthersStay DEF KeepPlace, KeepHead
    <3> QED BY <1>1, <3>1, RequestFrame DEF DataInv
  <2> QED BY <2>1, <2>2
<1> QED BY <1>2, <1>3 DEF DataInv

LEMMA DataUnpin ==
  ASSUME TypeOK, RefsInv, LockInv, DataInv, NEW p \in Procs, bunpin(p)
  PROVE  DataInv'
<1>1. /\ op[p].pc = "unpin" /\ op[p].b \in Bufs /\ op[p].k \in Blocks
      /\ KeepPlace /\ KeepHead /\ MovesTo(p, "hold")
      /\ ~op'[p].write /\ \A q \in Procs \ {p} : op'[q].write = op[q].write
      /\ KeepBlock /\ KeepValid /\ KeepData
      /\ pinned' = pinned \ {op[p].k}
      /\ UNCHANGED <<latest, disk, avail>>
  BY BunpinEffect DEF diskVars, RefsInv
<1>2. op[p].pc \in Holding /\ buf[op[p].b].valid /\ disk[op[p].k] = latest[op[p].k]
  BY <1>1 DEF DataInv, RequestData, Holding, Owning
<1>3. BufferData'
  BY <1>1 DEF DataInv, BufferData, KeepBlock, KeepValid, KeepData
<1>4. DiskData'
  BY <1>1, <1>2 DEF DataInv, DiskData
<1>5. ASSUME NEW q \in Procs PROVE RequestData(q)'
  <2>1. CASE q = p
    <3>1. op'[p].pc = "hold" /\ op'[p].b = op[p].b
      BY <1>1 DEF KeepPlace, MovesTo
    <3> QED BY <1>1, <1>2, <2>1, <3>1 DEF RequestData, Owning, ForDesc, InFlight, KeepValid
  <2>2. CASE q # p
    <3>1. SameCall(q)
      BY <1>1, <2>2, OthersStay DEF KeepPlace, KeepHead
    <3>2. op[q].pc \in Holding => op[q].b \in Bufs /\ op[q].k # op[p].k
      BY <1>2, <2>2, BlocksApart, HoldingInside DEF RefsInv
    <3> QED BY <1>1, <3>1, <3>2, RequestFrame DEF DataInv, KeepValid, KeepData
  <2> QED BY <2>1, <2>2
<1> QED BY <1>3, <1>4, <1>5 DEF DataInv

LEMMA DataBrelse ==
  ASSUME TypeOK, RefsInv, DataInv, NEW p \in Procs, Brelse(p)
  PROVE  DataInv'
<1>1. /\ op[p].pc = "hold" /\ KeepPlace /\ KeepWrite /\ KeepHead /\ MovesTo(p, "release")
      /\ KeepBlock /\ KeepValid /\ KeepData
      /\ UNCHANGED <<latest, pinned, disk, avail>>
  BY BrelseEffect DEF cacheVars, diskVars, RefsInv
<1>2. BufferData' /\ DiskData'
  BY <1>1 DEF DataInv, BufferData, DiskData, KeepBlock, KeepValid, KeepData
<1>3. ASSUME NEW q \in Procs PROVE RequestData(q)'
  <2>1. CASE q = p
    <3>1. op'[p].pc = "release" /\ ~op'[p].write
      BY <1>1 DEF DataInv, RequestData, ForDesc, InFlight, KeepWrite, MovesTo
    <3> QED BY <2>1, <3>1 DEF RequestData, Owning, ForDesc, InFlight
  <2>2. CASE q # p
    <3>1. SameCall(q)
      BY <1>1, <2>2, OthersStay DEF KeepPlace, KeepWrite, KeepHead
    <3> QED BY <1>1, <3>1, HoldingInside, RequestFrame DEF DataInv, RefsInv, KeepValid, KeepData
  <2> QED BY <2>1, <2>2
<1> QED BY <1>2, <1>3 DEF DataInv

LEMMA DataRelease ==
  ASSUME TypeOK, RefsInv, OwnRequest, DataInv, NEW p \in Procs, BrelseRef(p)
  PROVE  DataInv'
<1>1. /\ MovesTo(p, "user") /\ KeepHead /\ ~op'[p].write
      /\ \A q \in Procs \ {p} : op'[q].b = op[q].b /\ op'[q].k = op[q].k /\ op'[q].write = op[q].write
      /\ KeepBlock /\ KeepValid /\ KeepData
      /\ UNCHANGED <<latest, pinned, disk, avail>>
  BY BrelseRefEffect DEF diskVars, RefsInv
<1>2. BufferData' /\ DiskData'
  BY <1>1 DEF DataInv, BufferData, DiskData, KeepBlock, KeepValid, KeepData
<1>3. ASSUME NEW q \in Procs PROVE RequestData(q)'
  <2>1. CASE q = p
    BY <1>1, <2>1 DEF RequestData, Owning, ForDesc, InFlight, MovesTo
  <2>2. CASE q # p
    <3>1. SameCall(q)
      BY <1>1, <2>2, OthersStay DEF KeepHead
    <3> QED BY <1>1, <3>1, HoldingInside, RequestFrame DEF DataInv, RefsInv, KeepValid, KeepData
  <2> QED BY <2>1, <2>2
<1> QED BY <1>2, <1>3 DEF DataInv

LEMMA DataSubmit ==
  ASSUME TypeOK, RefsInv, DataInv, NEW p \in Procs, Submit(p)
  PROVE  DataInv'
<1>1. PICK idx \in Seq(Descs) :
           /\ op[p].pc = "desc" /\ op[p].b \in Bufs /\ st[p] = "running" /\ idx[1] \in free
           /\ Entries(idx) \subseteq free /\ idx[1] \in Entries(idx) /\ idx[1] \in Descs
           /\ KeepPlace /\ KeepWrite /\ MovesTo(p, "rw-zz")
           /\ \A q \in Procs : op'[q].head = IF q = p THEN idx[1] ELSE op[q].head
           /\ KeepBlock /\ KeepValid /\ KeepCount /\ KeepHolder /\ KeepData
           /\ buf'[op[p].b].disk /\ \A c \in Bufs \ {op[p].b} : buf'[c].disk = buf[c].disk
           /\ free' = free \ Entries(idx) /\ avail' = avail \union {idx[1]}
           /\ req'[idx[1]].b = op[p].b /\ req'[idx[1]].write = op[p].write /\ req'[idx[1]].chain = idx
           /\ \A d \in Descs \ {idx[1]} : req'[d] = req[d]
           /\ \A q \in Procs : chan'[q] = IF q = p THEN <<"buf", op[p].b>> ELSE chan[q]
           /\ UNCHANGED <<cacheVars, disk, used, irq, intr, st>>
  BY SubmitEffect DEF RefsInv
<1>2. BufferData' /\ DiskData'
  BY <1>1 DEF DataInv, BufferData, DiskData, KeepBlock, KeepValid, KeepData, cacheVars
<1>3. ASSUME NEW q \in Procs PROVE RequestData(q)'
  <2>1. CASE q = p
    <3>1. op'[p].pc = "rw-zz" /\ op'[p].b = op[p].b /\ op'[p].k = op[p].k /\ op'[p].write = op[p].write
          /\ op'[p].head \in avail'
      BY <1>1 DEF KeepPlace, KeepWrite, MovesTo
    <3>2. (op[p].write => op[p].k \in pinned) /\ (op[p].write <=> buf[op[p].b].valid)
      BY <1>1 DEF DataInv, RequestData, ForDesc
    <3> QED BY <1>1, <2>1, <3>1, <3>2 DEF RequestData, Owning, ForDesc, InFlight, KeepValid, cacheVars
  <2>2. CASE q # p
    <3>1. SameCall(q)
      BY <1>1, <2>2, OthersStay DEF KeepPlace, KeepWrite
    <3> QED BY <1>1, <3>1, HoldingInside, RequestFrame DEF DataInv, RefsInv, KeepValid, KeepData, cacheVars
  <2> QED BY <2>1, <2>2
<1> QED BY <1>2, <1>3 DEF DataInv

LEMMA DataFinished ==
  ASSUME TypeOK, RefsInv, LockInv, DiskInv, DataInv, NEW p \in Procs, Finished(p)
  PROVE  DataInv'
<1>1. /\ op[p].pc = "rw" /\ op[p].b \in Bufs /\ ~buf[op[p].b].disk
      /\ KeepPlace /\ KeepWrite /\ MovesTo(p, IF op[p].write THEN "unpin" ELSE "hold")
      /\ \A q \in Procs : op'[q].head = IF q = p THEN 0 ELSE op[q].head
      /\ KeepBlock /\ KeepData
      /\ buf'[op[p].b].valid /\ \A c \in Bufs \ {op[p].b} : buf'[c].valid = buf[c].valid
      /\ UNCHANGED <<latest, pinned, disk, avail>>
  BY FinishedEffect DEF cacheVars, RefsInv, DiskInv
<1>2. op[p].pc \in InFlight /\ op[p].pc \in Holding
  BY <1>1 DEF InFlight, Holding
<1>3. op[p].head \notin avail
  BY <1>1, <1>2 DEF DiskInv, InRing
<1>4. buf[op[p].b].blockno = op[p].k /\ op[p].k \in Blocks
  BY <1>2, HoldingInside DEF RefsInv
<1>5. /\ op[p].write <=> buf[op[p].b].valid
      /\ op[p].write => disk[op[p].k] = latest[op[p].k] /\ op[p].k \in pinned
      /\ ~op[p].write => buf[op[p].b].data = disk[op[p].k]
  BY <1>2, <1>3 DEF DataInv, RequestData
<1>6. buf[op[p].b].data = latest[op[p].k]
  <2>1. CASE op[p].write
    BY <1>1, <1>4, <1>5, <2>1 DEF DataInv, BufferData
  <2>2. CASE ~op[p].write
    <3>1. op[p].k \notin pinned
      BY <1>1, <1>4, <1>5, <2>2 DEF DataInv, BufferData
    <3> QED BY <1>4, <1>5, <2>2, <3>1 DEF DataInv, DiskData
  <2> QED BY <2>1, <2>2
<1>7. BufferData'
  BY <1>1, <1>4, <1>6 DEF DataInv, BufferData, KeepBlock, KeepData
<1>8. DiskData'
  BY <1>1 DEF DataInv, DiskData
<1>9. ASSUME NEW q \in Procs PROVE RequestData(q)'
  <2>1. CASE q = p
    <3>1. op'[p].b = op[p].b /\ op'[p].k = op[p].k /\ op'[p].write = op[p].write
      BY <1>1 DEF KeepPlace, KeepWrite
    <3>2. CASE op[p].write
      <4>1. op'[p].pc = "unpin"
        BY <1>1, <3>2 DEF MovesTo
      <4> QED BY <1>1, <1>5, <2>1, <3>1, <3>2, <4>1 DEF RequestData, Owning, ForDesc, InFlight
    <3>3. CASE ~op[p].write
      <4>1. op'[p].pc = "hold"
        BY <1>1, <3>3 DEF MovesTo
      <4> QED BY <1>1, <2>1, <3>1, <3>3, <4>1 DEF RequestData, Owning, ForDesc, InFlight
    <3> QED BY <3>2, <3>3
  <2>2. CASE q # p
    <3>1. SameCall(q)
      BY <1>1, <2>2, OthersStay DEF KeepPlace, KeepWrite
    <3>2. op[q].pc \in Holding => op[q].b \in Bufs /\ op[q].b # op[p].b
      BY <1>2, <2>2, BlocksApart, HoldingInside DEF RefsInv
    <3> QED BY <1>1, <3>1, <3>2, RequestFrame DEF DataInv, KeepData
  <2> QED BY <2>1, <2>2
<1> QED BY <1>7, <1>8, <1>9 DEF DataInv

LEMMA DataDevice ==
  ASSUME TypeOK, RefsInv, LockInv, DiskInv, DataInv, NEW d \in Descs, Device(d)
  PROVE  DataInv'
<1>1. PICK p \in Procs :
        /\ op[p].head = d /\ op[p].pc \in InFlight /\ op[p].b \in Bufs /\ op[p].k \in Blocks
        /\ KeepBlock /\ KeepValid
        /\ \A c \in Bufs \ {op[p].b} : buf'[c].data = buf[c].data
        /\ \A k \in Blocks \ {op[p].k} : disk'[k] = disk[k]
        /\ op[p].write => buf' = buf /\ disk'[op[p].k] = buf[op[p].b].data
        /\ ~op[p].write => disk' = disk /\ buf'[op[p].b].data = disk[op[p].k]
        /\ avail' = avail \ {d}
        /\ UNCHANGED <<latest, pinned, op>>
  BY DeviceEffect DEF cacheVars, RefsInv, DiskInv
<1>2. op[p].pc \in Holding /\ op[p].pc \notin Owning /\ op[p].pc # "unpin"
  BY <1>1 DEF InFlight, Holding, Owning
<1>3. buf[op[p].b].blockno = op[p].k
  BY <1>2, HoldingInside DEF RefsInv
<1>4. (op[p].write <=> buf[op[p].b].valid) /\ (op[p].write => op[p].k \in pinned)
  BY <1>1 DEF DataInv, RequestData
<1>5. BufferData'
  <2>1. \A c \in Bufs : buf[c].valid => buf'[c].data = buf[c].data
    BY <1>1, <1>4
  <2> QED BY <1>1, <2>1 DEF DataInv, BufferData, KeepBlock, KeepValid
<1>6. DiskData'
  BY <1>1, <1>4 DEF DataInv, DiskData
<1>7. ASSUME NEW q \in Procs PROVE RequestData(q)'
  <2>1. CASE q = p
    <3>1. op[p].write => disk'[op[p].k] = latest[op[p].k]
      BY <1>1, <1>3, <1>4 DEF DataInv, BufferData
    <3>2. ~op[p].write => buf'[op[p].b].data = disk'[op[p].k]
      BY <1>1
    <3> QED BY <1>1, <1>2, <1>4, <2>1, <3>1, <3>2 DEF RequestData, KeepValid
  <2>2. CASE q # p
    <3>1. SameCall(q)
      BY <1>1 DEF SameCall, SameStage
    <3>2. op[q].pc \in Holding => op[q].b \in Bufs /\ op[q].b # op[p].b /\ op[q].k \in Blocks /\ op[q].k # op[p].k
      BY <1>2, <2>2, BlocksApart, HoldingInside DEF RefsInv
    <3>3. op[q].pc \in InFlight => op[q].head # d
      BY <1>1, <2>2 DEF DiskInv, OwnRequest
    <3>4. op[q].pc \notin InFlight => op[q].head = 0 /\ d # 0
      BY DEF DiskInv, OwnRequest, Descs
    <3> QED BY <1>1, <3>1, <3>2, <3>3, <3>4, RequestFrame DEF DataInv, KeepValid
  <2> QED BY <2>1, <2>2
<1> QED BY <1>5, <1>6, <1>7 DEF DataInv

-----------------------------------------------------------------------------
(* Sleeping and waking.                                                     *)

LEMMA ChansDiffer ==
  /\ NoChan # FreeChan
  /\ \A b : <<"lock", b>> # NoChan /\ <<"lock", b>> # FreeChan /\ <<"buf", b>> # NoChan /\ <<"buf", b>> # FreeChan
  /\ \A b, c : <<"lock", b>> # <<"buf", c>>
  BY DEF NoChan, FreeChan

LEMMA WaitAwake ==
  ASSUME NEW q \in Procs, st'[q] = "running", op'[q].pc \notin {"lock-zz", "desc-zz", "rw-zz"}
  PROVE  WaitsRight(q)'
  BY DEF WaitsRight, Waits

LEMMA WaitWoken ==
  ASSUME NEW q \in Procs, st'[q] = "running", chan'[q] = NoChan
  PROVE  WaitsRight(q)'
  BY ChansDiffer DEF WaitsRight, Waits

\* q's wait is as it was, or kkill() has ended it.
LEMMA WaitFrame ==
  ASSUME NEW q \in Procs, WaitsRight(q), op'[q].pc = op[q].pc, op'[q].b = op[q].b,
         chan'[q] = chan[q], st'[q] \in {st[q], "running"},
         op[q].pc \in Waiting /\ chan[q] = <<"lock", op[q].b>> /\ buf[op[q].b].holder # None =>
           buf'[op[q].b].holder # None,
         op[q].pc \in ForDesc /\ chan[q] = FreeChan /\ Cardinality(free) < 3 => Cardinality(free') < 3,
         op[q].pc \in InFlight /\ chan[q] = <<"buf", op[q].b>> /\ buf[op[q].b].disk => buf'[op[q].b].disk
  PROVE  WaitsRight(q)'
<1>1. st'[q] = "sleeping" => st[q] = "sleeping"
  OBVIOUS
<1>2. /\ op'[q].pc = "lock-zz" => chan'[q] \in {NoChan, <<"lock", op'[q].b>>}
      /\ op'[q].pc = "desc-zz" => chan'[q] \in {NoChan, FreeChan}
      /\ op'[q].pc = "rw-zz" => chan'[q] \in {NoChan, <<"buf", op'[q].b>>}
  BY DEF WaitsRight
<1>3. st'[q] = "sleeping" => \/ op'[q].pc = "lock" /\ chan'[q] = <<"lock", op'[q].b>>
                             \/ op'[q].pc = "desc" /\ chan'[q] = FreeChan
                             \/ op'[q].pc = "rw" /\ chan'[q] = <<"buf", op'[q].b>>
  BY <1>1 DEF WaitsRight
<1>4. Waits(q, "lock-zz", "lock", <<"lock", op[q].b>>)' => buf'[op'[q].b].holder # None
  BY <1>1 DEF WaitsRight, Waits, Waiting
<1>5. Waits(q, "desc-zz", "desc", FreeChan)' => Cardinality(free') < 3
  BY <1>1 DEF WaitsRight, Waits, ForDesc
<1>6. Waits(q, "rw-zz", "rw", <<"buf", op[q].b>>)' => buf'[op'[q].b].disk
  BY <1>1 DEF WaitsRight, Waits, InFlight
<1> QED BY <1>2, <1>3, <1>4, <1>5, <1>6 DEF WaitsRight

LEMMA WaitOthers ==
  ASSUME OwnBuffer, WaitInv, NEW q \in Procs, op'[q].pc = op[q].pc, op'[q].b = op[q].b,
         chan'[q] = chan[q], st'[q] \in {st[q], "running"}, KeepHolder, KeepBusy,
         Cardinality(free) < 3 => Cardinality(free') < 3
  PROVE  WaitsRight(q)'
<1>1. op[q].pc \in Waiting \union InFlight => op[q].b \in Bufs
  BY DEF OwnBuffer, Waiting, InFlight
<1>2. /\ op[q].pc \in Waiting => buf'[op[q].b].holder = buf[op[q].b].holder
      /\ op[q].pc \in InFlight => buf'[op[q].b].disk = buf[op[q].b].disk
  BY <1>1 DEF KeepHolder, KeepBusy
<1> QED BY <1>2, WaitFrame DEF WaitInv

\* A step of p that wakes nobody, leaves locks and requests alone and does not take p to sleep.
LEMMA WaitStep ==
  ASSUME OwnBuffer, WaitInv, NEW p \in Procs, NEW a, MovesTo(p, a), a \notin {"lock-zz", "desc-zz", "rw-zz"},
         \A q \in Procs \ {p} : op'[q].b = op[q].b, st[p] = "running", UNCHANGED <<st, chan, free>>,
         KeepHolder, KeepBusy
  PROVE  WaitInv'
<1>1. ASSUME NEW q \in Procs PROVE WaitsRight(q)'
  <2>1. CASE q = p
    BY <2>1, WaitAwake DEF MovesTo
  <2>2. CASE q # p
    BY <2>2, WaitOthers DEF MovesTo
  <2> QED BY <2>1, <2>2
<1> QED BY <1>1 DEF WaitInv

LEMMA WaitHit ==
  ASSUME TypeOK, RefsInv, OwnRequest, WaitInv, NEW p \in Procs, NEW k \in Blocks, BgetHit(p, k)
  PROVE  WaitInv'
<1>1. PICK b \in Bufs : Enters(p, k, b) /\ st[p] = "running" /\ KeepHolder /\ KeepBusy /\ UNCHANGED <<st, chan, free>>
  BY HitEffect DEF diskVars
<1> QED BY <1>1, WaitStep DEF Enters, RefsInv

LEMMA WaitMiss ==
  ASSUME TypeOK, RefsInv, OwnRequest, WaitInv, NEW p \in Procs, NEW k \in Blocks, BgetMiss(p, k)
  PROVE  WaitInv'
<1>1. PICK b \in Bufs : Enters(p, k, b) /\ st[p] = "running" /\ KeepHolder /\ KeepBusy /\ UNCHANGED <<st, chan, free>>
  BY MissEffect DEF diskVars
<1> QED BY <1>1, WaitStep DEF Enters, RefsInv

LEMMA WaitSleep ==
  ASSUME TypeOK, OwnBuffer, WaitInv, NEW p \in Procs, sleep(p)
  PROVE  WaitInv'
<1>1. /\ KeepPlace /\ st[p] = "running"
      /\ \/ op[p].pc = "lock-zz" /\ MovesTo(p, "lock")
         \/ op[p].pc = "desc-zz" /\ MovesTo(p, "desc")
         \/ op[p].pc = "rw-zz" /\ MovesTo(p, "rw")
      /\ \A q \in Procs : st'[q] = IF q = p /\ chan[p] # NoChan THEN "sleeping" ELSE st[q]
      /\ UNCHANGED <<buf, free, chan>>
  BY SleepEffect DEF diskVars
<1>2. ASSUME NEW q \in Procs PROVE WaitsRight(q)'
  <2>1. CASE q # p
    <3>1. KeepHolder /\ KeepBusy /\ op'[q].pc = op[q].pc /\ op'[q].b = op[q].b /\ st'[q] = st[q]
      BY <1>1, <2>1 DEF KeepHolder, KeepBusy, KeepPlace, MovesTo
    <3> QED BY <1>1, <3>1, WaitOthers
  <2>2. CASE q = p /\ chan[p] = NoChan
    BY <1>1, <2>2, WaitAwake DEF MovesTo
  <2>3. CASE q = p /\ chan[p] # NoChan
    <3>1. op'[p].b = op[p].b /\ st'[p] = "sleeping" /\ chan'[p] = chan[p]
      BY <1>1, <2>3 DEF KeepPlace
    <3>2. CASE op[p].pc = "lock-zz"
      <4>1. op'[p].pc = "lock" /\ chan[p] = <<"lock", op[p].b>> /\ buf[op[p].b].holder # None
        BY <1>1, <2>3, <3>2 DEF MovesTo, WaitInv, WaitsRight, Waits
      <4> QED BY <1>1, <2>3, <3>1, <4>1 DEF WaitsRight, Waits
    <3>3. CASE op[p].pc = "desc-zz"
      <4>1. op'[p].pc = "desc" /\ chan[p] = FreeChan /\ Cardinality(free) < 3
        BY <1>1, <2>3, <3>3 DEF MovesTo, WaitInv, WaitsRight, Waits
      <4> QED BY <1>1, <2>3, <3>1, <4>1 DEF WaitsRight, Waits
    <3>4. CASE op[p].pc = "rw-zz"
      <4>1. op'[p].pc = "rw" /\ chan[p] = <<"buf", op[p].b>> /\ buf[op[p].b].disk
        BY <1>1, <2>3, <3>4 DEF MovesTo, WaitInv, WaitsRight, Waits
      <4> QED BY <1>1, <2>3, <3>1, <4>1 DEF WaitsRight, Waits
    <3> QED BY <1>1, <3>2, <3>3, <3>4
  <2> QED BY <2>1, <2>2, <2>3
<1> QED BY <1>2 DEF WaitInv

LEMMA WaitKill ==
  ASSUME TypeOK, OwnBuffer, WaitInv, NEW p \in Procs, kkill(p)
  PROVE  WaitInv'
<1>1. \A q \in Procs : st'[q] \in {st[q], "running"}
  BY DEF kkill, TypeOK
<1>2. KeepHolder /\ KeepBusy /\ UNCHANGED <<op, chan, free>>
  BY DEF kkill, KeepHolder, KeepBusy, diskVars
<1> QED BY <1>1, <1>2, WaitOthers DEF WaitInv

LEMMA WaitLocked ==
  ASSUME TypeOK, OwnBuffer, WaitInv, NEW p \in Procs, Locked(p)
  PROVE  WaitInv'
<1>1. /\ KeepPlace /\ st[p] = "running" /\ op[p].b \in Bufs
      /\ MovesTo(p, IF buf[op[p].b].valid THEN "hold" ELSE "desc")
      /\ KeepBusy
      /\ \A c \in Bufs : buf'[c].holder = IF c = op[p].b THEN p ELSE buf[c].holder
      /\ UNCHANGED <<free, st, chan>>
  BY LockedEffect DEF diskVars
<1>2. ASSUME NEW q \in Procs PROVE WaitsRight(q)'
  <2>1. CASE q = p
    BY <1>1, <2>1, WaitAwake DEF MovesTo
  <2>2. CASE q # p
    <3>1. op'[q].pc = op[q].pc /\ op'[q].b = op[q].b
      BY <1>1, <2>2 DEF KeepPlace, MovesTo
    <3>2. op[q].pc \in Waiting \union InFlight => op[q].b \in Bufs
      BY DEF OwnBuffer, Waiting, InFlight
    <3>3. /\ op[q].pc \in Waiting /\ buf[op[q].b].holder # None => buf'[op[q].b].holder # None
          /\ op[q].pc \in InFlight => buf'[op[q].b].disk = buf[op[q].b].disk
      BY <1>1, <3>2, BcacheAssumption DEF KeepBusy
    <3> QED BY <1>1, <3>1, <3>3, WaitFrame DEF WaitInv
  <2> QED BY <2>1, <2>2
<1> QED BY <1>2 DEF WaitInv

LEMMA WaitLockBusy ==
  ASSUME TypeOK, OwnBuffer, WaitInv, NEW p \in Procs, LockBusy(p)
  PROVE  WaitInv'
<1>1. /\ KeepPlace /\ st[p] = "running" /\ buf[op[p].b].holder # None
      /\ MovesTo(p, "lock-zz")
      /\ \A q \in Procs : chan'[q] = IF q = p THEN <<"lock", op[p].b>> ELSE chan[q]
      /\ UNCHANGED <<buf, free, st>>
  BY LockBusyEffect DEF diskVars
<1>2. ASSUME NEW q \in Procs PROVE WaitsRight(q)'
  <2>1. CASE q = p
    <3>1. op'[p].pc = "lock-zz" /\ op'[p].b = op[p].b /\ chan'[p] = <<"lock", op[p].b>> /\ st'[p] = "running"
      BY <1>1 DEF MovesTo, KeepPlace
    <3> QED BY <1>1, <2>1, <3>1 DEF WaitsRight, Waits
  <2>2. CASE q # p
    <3>1. op'[q].pc = op[q].pc /\ op'[q].b = op[q].b /\ chan'[q] = chan[q]
      BY <1>1, <2>2 DEF KeepPlace, MovesTo
    <3> QED BY <1>1, <3>1, WaitOthers DEF KeepHolder, KeepBusy
  <2> QED BY <2>1, <2>2
<1> QED BY <1>2 DEF WaitInv

LEMMA WaitBrelse ==
  ASSUME TypeOK, OwnBuffer, WaitInv, NEW p \in Procs, Brelse(p)
  PROVE  WaitInv'
<1>1. /\ op[p].b \in Bufs /\ st[p] = "running" /\ KeepPlace /\ MovesTo(p, "release") /\ KeepBusy
      /\ \A c \in Bufs : buf'[c].holder = IF c = op[p].b THEN None ELSE buf[c].holder
      /\ chan' = Woken(<<"lock", op[p].b>>) /\ st' = Runnable(<<"lock", op[p].b>>)
      /\ free' = free
  BY BrelseEffect DEF diskVars
<1>2. ASSUME NEW q \in Procs PROVE WaitsRight(q)'
  <2>1. CASE q = p
    <3>1. st'[p] = "running"
      BY <1>1, Awake
    <3> QED BY <1>1, <2>1, <3>1, WaitAwake DEF MovesTo
  <2>2. CASE q # p /\ chan[q] = <<"lock", op[p].b>>
    BY <1>1, <2>2, Awake, WaitWoken
  <2>3. CASE q # p /\ chan[q] # <<"lock", op[p].b>>
    <3>1. op'[q].pc = op[q].pc /\ op'[q].b = op[q].b /\ chan'[q] = chan[q] /\ st'[q] = st[q]
      BY <1>1, <2>3, Awake DEF KeepPlace, MovesTo
    <3>2. op[q].pc \in Waiting \union InFlight => op[q].b \in Bufs
      BY DEF OwnBuffer, Waiting, InFlight
    <3>3. /\ op[q].pc \in Waiting /\ chan[q] = <<"lock", op[q].b>> => buf'[op[q].b].holder = buf[op[q].b].holder
          /\ op[q].pc \in InFlight => buf'[op[q].b].disk = buf[op[q].b].disk
      BY <1>1, <2>3, <3>2 DEF KeepBusy
    <3> QED BY <1>1, <3>1, <3>3, WaitFrame DEF WaitInv
  <2> QED BY <2>1, <2>2, <2>3
<1> QED BY <1>2 DEF WaitInv

LEMMA WaitSubmit ==
  ASSUME TypeOK, OwnBuffer, WaitInv, NEW p \in Procs, Submit(p)
  PROVE  WaitInv'
<1>1. /\ op[p].b \in Bufs /\ st[p] = "running" /\ KeepPlace /\ MovesTo(p, "rw-zz") /\ KeepHolder
      /\ buf'[op[p].b].disk /\ \A c \in Bufs \ {op[p].b} : buf'[c].disk = buf[c].disk
      /\ \A q \in Procs : chan'[q] = IF q = p THEN <<"buf", op[p].b>> ELSE chan[q]
      /\ st' = st
  BY SubmitEffect
<1>2. ~(Cardinality(free) < 3)
  <2>1. Cardinality(free) >= 3 /\ free \subseteq 1 .. NUM
    BY DEF Submit, TypeOK, Descs
  <2>2. IsFiniteSet(free)
    <3>1. IsFiniteSet(1 .. NUM)
      BY FS_Interval, BcacheAssumption
    <3> QED BY <2>1, <3>1, FS_Subset
  <2>3. Cardinality(free) \in Nat
    BY <2>2, FS_CardinalityType
  <2> QED BY <2>1, <2>3
<1>3. ASSUME NEW q \in Procs PROVE WaitsRight(q)'
  <2>1. CASE q = p
    <3>1. op'[p].pc = "rw-zz" /\ op'[p].b = op[p].b /\ chan'[p] = <<"buf", op[p].b>> /\ st'[p] = "running"
      BY <1>1 DEF MovesTo, KeepPlace
    <3> QED BY <1>1, <2>1, <3>1 DEF WaitsRight, Waits
  <2>2. CASE q # p
    <3>1. op'[q].pc = op[q].pc /\ op'[q].b = op[q].b /\ chan'[q] = chan[q] /\ st'[q] = st[q]
      BY <1>1, <2>2 DEF KeepPlace, MovesTo
    <3>2. op[q].pc \in Waiting \union InFlight => op[q].b \in Bufs
      BY DEF OwnBuffer, Waiting, InFlight
    <3>3. /\ op[q].pc \in Waiting => buf'[op[q].b].holder = buf[op[q].b].holder
          /\ op[q].pc \in InFlight /\ buf[op[q].b].disk => buf'[op[q].b].disk
      BY <1>1, <3>2 DEF KeepHolder
    <3> QED BY <1>2, <3>1, <3>3, WaitFrame DEF WaitInv
  <2> QED BY <2>1, <2>2
<1> QED BY <1>3 DEF WaitInv

LEMMA WaitNoDescs ==
  ASSUME TypeOK, OwnBuffer, WaitInv, NEW p \in Procs, NoDescs(p)
  PROVE  WaitInv'
<1>1. /\ Cardinality(free) < 3 /\ KeepPlace /\ MovesTo(p, "desc-zz")
      /\ \A q \in Procs \ {p} : \/ chan'[q] = chan[q] /\ st'[q] = st[q]
                                \/ chan'[q] = NoChan /\ st'[q] = "running"
      /\ chan'[p] = FreeChan /\ st'[p] = "running"
      /\ UNCHANGED <<buf, free>>
  BY NoDescsEffect DEF diskVars
<1>2. ASSUME NEW q \in Procs PROVE WaitsRight(q)'
  <2>1. CASE q = p
    <3>1. op'[p].pc = "desc-zz"
      BY <1>1 DEF MovesTo
    <3> QED BY <1>1, <2>1, <3>1 DEF WaitsRight, Waits
  <2>2. CASE q # p /\ chan'[q] = NoChan /\ st'[q] = "running"
    BY <2>2, WaitWoken
  <2>3. CASE q # p /\ chan'[q] = chan[q] /\ st'[q] = st[q]
    <3>1. op'[q].pc = op[q].pc /\ op'[q].b = op[q].b
      BY <1>1, <2>3 DEF KeepPlace, MovesTo
    <3> QED BY <1>1, <2>3, <3>1, WaitOthers DEF KeepHolder, KeepBusy
  <2> QED BY <1>1, <2>1, <2>2, <2>3
<1> QED BY <1>2 DEF WaitInv

LEMMA WaitStillBusy ==
  ASSUME TypeOK, OwnBuffer, WaitInv, NEW p \in Procs, StillBusy(p)
  PROVE  WaitInv'
<1>1. /\ st[p] = "running" /\ buf[op[p].b].disk /\ KeepPlace /\ MovesTo(p, "rw-zz")
      /\ \A q \in Procs : chan'[q] = IF q = p THEN <<"buf", op[p].b>> ELSE chan[q]
      /\ UNCHANGED <<buf, free, st>>
  BY StillBusyEffect DEF diskVars
<1>2. ASSUME NEW q \in Procs PROVE WaitsRight(q)'
  <2>1. CASE q = p
    <3>1. op'[p].pc = "rw-zz" /\ op'[p].b = op[p].b /\ chan'[p] = <<"buf", op[p].b>> /\ st'[p] = "running"
      BY <1>1 DEF MovesTo, KeepPlace
    <3> QED BY <1>1, <2>1, <3>1 DEF WaitsRight, Waits
  <2>2. CASE q # p
    <3>1. op'[q].pc = op[q].pc /\ op'[q].b = op[q].b /\ chan'[q] = chan[q]
      BY <1>1, <2>2 DEF KeepPlace, MovesTo
    <3> QED BY <1>1, <3>1, WaitOthers DEF KeepHolder, KeepBusy
  <2> QED BY <2>1, <2>2
<1> QED BY <1>2 DEF WaitInv

LEMMA WaitFinished ==
  ASSUME TypeOK, OwnBuffer, OwnRequest, WaitInv, NEW p \in Procs, Finished(p)
  PROVE  WaitInv'
<1>1. /\ st[p] = "running" /\ KeepPlace /\ MovesTo(p, IF op[p].write THEN "unpin" ELSE "hold")
      /\ KeepHolder /\ KeepBusy
      /\ chan' = Woken(FreeChan) /\ st' = Runnable(FreeChan)
  BY FinishedEffect
<1>2. ASSUME NEW q \in Procs PROVE WaitsRight(q)'
  <2>1. CASE q = p
    <3>1. st'[p] = "running"
      BY <1>1, Awake
    <3> QED BY <1>1, <2>1, <3>1, WaitAwake DEF MovesTo
  <2>2. CASE chan[q] = FreeChan
    BY <1>1, <2>2, Awake, WaitWoken
  <2>3. CASE q # p /\ chan[q] # FreeChan
    <3>1. op'[q].pc = op[q].pc /\ op'[q].b = op[q].b /\ chan'[q] = chan[q] /\ st'[q] = st[q]
      BY <1>1, <2>3, Awake DEF KeepPlace, MovesTo
    <3>2. op[q].pc \in Waiting \union InFlight => op[q].b \in Bufs
      BY DEF OwnBuffer, Waiting, InFlight
    <3>3. /\ op[q].pc \in Waiting => buf'[op[q].b].holder = buf[op[q].b].holder
          /\ op[q].pc \in InFlight => buf'[op[q].b].disk = buf[op[q].b].disk
      BY <1>1, <3>2 DEF KeepHolder, KeepBusy
    <3> QED BY <2>3, <3>1, <3>3, WaitFrame DEF WaitInv
  <2> QED BY <2>1, <2>2, <2>3
<1> QED BY <1>2 DEF WaitInv

LEMMA WaitIntrEntry ==
  ASSUME TypeOK, OwnBuffer, OwnRequest, WaitInv, IntrEntry
  PROVE  WaitInv'
<1>1. PICK p \in Procs :
        /\ op[p].b \in Bufs /\ KeepHolder
        /\ \A c \in Bufs \ {op[p].b} : buf'[c].disk = buf[c].disk
        /\ chan' = Woken(<<"buf", op[p].b>>) /\ st' = Runnable(<<"buf", op[p].b>>)
        /\ UNCHANGED <<free, op>>
  BY IntrEntryEffect
<1>2. ASSUME NEW q \in Procs PROVE WaitsRight(q)'
  <2>1. CASE chan[q] = <<"buf", op[p].b>>
    BY <1>1, <2>1, Awake, WaitWoken
  <2>2. CASE chan[q] # <<"buf", op[p].b>>
    <3>1. chan'[q] = chan[q] /\ st'[q] = st[q]
      BY <1>1, <2>2, Awake
    <3>2. op[q].pc \in Waiting \union InFlight => op[q].b \in Bufs
      BY DEF OwnBuffer, Waiting, InFlight
    <3>3. /\ op[q].pc \in Waiting => buf'[op[q].b].holder = buf[op[q].b].holder
          /\ op[q].pc \in InFlight /\ chan[q] = <<"buf", op[q].b>> => buf'[op[q].b].disk = buf[op[q].b].disk
      BY <1>1, <2>2, <3>2 DEF KeepHolder
    <3> QED BY <1>1, <3>1, <3>3, WaitFrame DEF WaitInv
  <2> QED BY <2>1, <2>2
<1> QED BY <1>2 DEF WaitInv

-----------------------------------------------------------------------------
(* The invariant is inductive.                                              *)

LEMMA CacheInit == ASSUME Init PROVE CacheInv
<1>1. \A p \in Procs : /\ op[p].pc = "user" /\ op[p].b = 0 /\ op[p].k = None /\ op[p].head = 0
                       /\ st[p] = "running"
  BY DEF Init, NoOp
<1>2. \A p \in Procs : ~op[p].write
  BY DEF Init, NoOp
<1>3. \A b \in Bufs : /\ buf[b].blockno = None /\ buf[b].refcnt = 0 /\ buf[b].holder = None
                      /\ ~buf[b].valid /\ ~buf[b].disk
  BY DEF Init
<1>4. RefsInv
  <2>1. OwnBuffer
    BY <1>1 DEF OwnBuffer
  <2>2. OneBuffer
    BY <1>3 DEF OneBuffer, Init
  <2>3. CountExact
    <3>1. \A b \in Bufs : Users(b) = {}
      BY <1>1 DEF Users, Bufs
    <3>2. \A b \in Bufs : Cardinality(Users(b)) = 0
      BY <3>1, FS_EmptySet
    <3> QED BY <1>3, <3>2 DEF CountExact, Init
  <2> QED BY <2>1, <2>2, <2>3 DEF RefsInv
<1>5. LockInv
  BY <1>1, <1>3 DEF LockInv, Holding, ForDesc, InFlight, Owning
<1>6. DiskInv
  <2>1. /\ \A h \in Descs : req[h].b = 0 /\ Entries(req[h].chain) = {}
        /\ avail = {} /\ used = <<>> /\ Entries(used) = {} /\ free = Descs
    BY DEF Init, NoReq, Entries
  <2>2. \A p \in Procs : op[p].pc \notin InFlight
    BY <1>1 DEF InFlight
  <2>3. OwnRequest
    BY <1>1, <2>1, <2>2 DEF OwnRequest
  <2>4. Partition
    BY <2>1 DEF Partition
  <2>5. InRing
    BY <2>1, <2>2 DEF InRing
  <2> QED BY <2>3, <2>4, <2>5 DEF DiskInv
<1>7. DataInv
  <2>1. BufferData /\ DiskData
    BY <1>3 DEF BufferData, DiskData, Init
  <2>2. \A p \in Procs : RequestData(p)
    BY <1>1, <1>2 DEF RequestData, Owning, ForDesc, InFlight
  <2> QED BY <2>1, <2>2 DEF DataInv
<1>8. WaitInv
  BY <1>1 DEF WaitInv, WaitsRight, Waits
<1> QED BY <1>4, <1>5, <1>6, <1>7, <1>8, TypeInit DEF CacheInv

\* What no action of a process or of the disk changes but the ones with lemmas of their own.
LEMMA CacheFrame ==
  ASSUME CacheInv, KeepBlock, KeepValid, KeepCount, KeepHolder, KeepBusy, KeepData,
         UNCHANGED <<latest, pinned, disk, free, req, avail, used>>, used # <<>> => irq' \/ intr',
         \A q \in Procs : SameCall(q)
  PROVE  RefsInv' /\ LockInv' /\ DiskInv' /\ DataInv'
<1>1. /\ KeepPlace /\ KeepHead
      /\ \A q \in Procs : /\ op'[q].pc = "user" <=> op[q].pc = "user"
                          /\ op'[q].pc \in Holding <=> op[q].pc \in Holding
                          /\ op'[q].pc \in InFlight <=> op[q].pc \in InFlight
                          /\ op'[q].b = op[q].b /\ op'[q].write = op[q].write
  BY DEF SameCall, SameStage, KeepPlace, KeepHead, Holding, Waiting, ForDesc, InFlight, Owning
<1>2. \A q \in Procs : op[q].pc \in Holding => op[q].b \in Bufs
  BY HoldingInside DEF CacheInv, RefsInv
<1>3. \A q \in Procs : op[q].pc \in InFlight => op[q].pc \in Holding
  BY DEF Holding
<1>4. RefsInv'
  BY <1>1, RefsFrame DEF CacheInv
<1>5. LockInv'
  BY <1>1, <1>2, LockFrame DEF CacheInv
<1>6. DiskInv'
  BY <1>1, <1>2, <1>3, DiskFrame DEF CacheInv
<1>7. DataInv'
  BY DataFrame DEF CacheInv, RefsInv
<1> QED BY <1>4, <1>5, <1>6, <1>7

LEMMA RefsStep ==
  ASSUME CacheInv, NEW p \in Procs, NEW a, MovesTo(p, a), KeepPlace, KeepBlock, KeepCount, pinned' = pinned,
         op[p].pc # "user", a # "user"
  PROVE  RefsInv'
<1>1. \A q \in Procs : op'[q].pc = "user" <=> op[q].pc = "user"
  BY DEF MovesTo
<1> QED BY <1>1, RefsFrame DEF CacheInv

LEMMA LockStep ==
  ASSUME CacheInv, NEW p \in Procs, NEW a, MovesTo(p, a), KeepHolder, \A q \in Procs \ {p} : op'[q].b = op[q].b,
         op[p].pc \in Holding <=> a \in Holding, op[p].pc \in Holding => op'[p].b = op[p].b
  PROVE  LockInv'
<1>1. \A q \in Procs : op[q].pc \in Holding => op[q].b \in Bufs
  BY HoldingInside DEF CacheInv, RefsInv
<1>2. \A q \in Procs : /\ op'[q].pc \in Holding <=> op[q].pc \in Holding
                       /\ op[q].pc \in Holding => op'[q].b = op[q].b
  BY DEF MovesTo
<1> QED BY <1>1, <1>2, LockFrame DEF CacheInv

LEMMA DiskStep ==
  ASSUME CacheInv, NEW p \in Procs, NEW a, MovesTo(p, a), KeepBusy, KeepHead, UNCHANGED diskVars,
         \A q \in Procs \ {p} : op'[q].b = op[q].b /\ op'[q].write = op[q].write,
         op[p].pc \notin InFlight, a \notin InFlight
  PROVE  DiskInv'
<1>1. \A q \in Procs : op[q].pc \in InFlight => op[q].b \in Bufs
  BY HoldingInside DEF CacheInv, RefsInv, Holding
<1>2. \A q \in Procs : /\ op'[q].pc \in InFlight <=> op[q].pc \in InFlight
                       /\ op[q].pc \in InFlight => op'[q].b = op[q].b /\ op'[q].write = op[q].write
  BY DEF MovesTo
<1>3. used # <<>> => irq' \/ intr'
  BY DEF CacheInv, DiskInv, InRing, diskVars
<1>4. UNCHANGED <<free, req, avail, used>>
  BY DEF diskVars
<1> QED BY <1>1, <1>2, <1>3, <1>4, DiskFrame DEF CacheInv

LEMMA CacheNext == ASSUME CacheInv, [Next]_vars PROVE CacheInv'
<1>0. TypeOK /\ RefsInv /\ OwnBuffer /\ LockInv /\ DiskInv /\ OwnRequest /\ DataInv /\ WaitInv
  BY DEF CacheInv, RefsInv, DiskInv
<1>t. TypeOK'
  BY <1>0, TypeNext
<1>i. used # <<>> => irq \/ intr
  BY <1>0 DEF DiskInv, InRing
<1> DEFINE Kept == RefsInv' /\ LockInv' /\ DiskInv' /\ DataInv' /\ WaitInv'
<1>1. ASSUME NEW p \in Procs, NEW k \in Blocks, BgetHit(p, k) PROVE Kept
  <2>1. PICK b \in Bufs : Enters(p, k, b) /\ KeepHolder /\ KeepBusy /\ UNCHANGED diskVars
    BY <1>0, <1>1, HitEffect
  <2>2. "user" \notin Holding /\ "lock" \notin Holding /\ "user" \notin InFlight /\ "lock" \notin InFlight
    BY DEF Holding, ForDesc, InFlight, Owning
  <2>3. LockInv' /\ DiskInv'
    BY <2>1, <2>2, LockStep, DiskStep DEF Enters
  <2> QED BY <1>0, <1>1, <2>3, RefsHit, DataHit, WaitHit
<1>2. ASSUME NEW p \in Procs, NEW k \in Blocks, BgetMiss(p, k) PROVE Kept
  <2>1. PICK b \in Bufs : Enters(p, k, b) /\ KeepHolder /\ KeepBusy /\ UNCHANGED diskVars
    BY <1>0, <1>2, MissEffect
  <2>2. "user" \notin Holding /\ "lock" \notin Holding /\ "user" \notin InFlight /\ "lock" \notin InFlight
    BY DEF Holding, ForDesc, InFlight, Owning
  <2>3. LockInv' /\ DiskInv'
    BY <2>1, <2>2, LockStep, DiskStep DEF Enters
  <2> QED BY <1>0, <1>2, <2>3, RefsMiss, DataMiss, WaitMiss
<1>f. ASSUME UNCHANGED <<buf, cacheVars, diskVars>>, \A q \in Procs : SameCall(q)
      PROVE  RefsInv' /\ LockInv' /\ DiskInv' /\ DataInv'
  <2>1. KeepBlock /\ KeepValid /\ KeepCount /\ KeepHolder /\ KeepBusy /\ KeepData
    BY <1>f DEF KeepBlock, KeepValid, KeepCount, KeepHolder, KeepBusy, KeepData
  <2> QED BY <1>f, <1>i, <2>1, CacheFrame DEF diskVars, cacheVars
<1>3. ASSUME NEW p \in Procs, sleep(p) PROVE Kept
  <2>1. /\ UNCHANGED <<buf, cacheVars, diskVars>> /\ KeepPlace /\ KeepWrite /\ KeepHead
        /\ \/ op[p].pc = "lock-zz" /\ MovesTo(p, "lock")
           \/ op[p].pc = "desc-zz" /\ MovesTo(p, "desc")
           \/ op[p].pc = "rw-zz" /\ MovesTo(p, "rw")
    BY <1>0, <1>3, SleepEffect
  <2>2. \A q \in Procs : SameCall(q)
    BY <2>1, StayEffect DEF Waiting, ForDesc, InFlight
  <2> QED BY <1>0, <1>3, <1>f, <2>1, <2>2, WaitSleep
<1>4. ASSUME NEW p \in Procs, kkill(p) PROVE Kept
  <2>1. UNCHANGED <<buf, cacheVars, diskVars>> /\ \A q \in Procs : SameCall(q)
    BY <1>4 DEF kkill, SameCall, SameStage
  <2> QED BY <1>0, <1>4, <1>f, <2>1, WaitKill
<1>5. ASSUME NEW p \in Procs, Locked(p) PROVE Kept
  <2> DEFINE a == IF buf[op[p].b].valid THEN "hold" ELSE "desc"
  <2>1. /\ KeepPlace /\ KeepWrite /\ KeepHead /\ op[p].pc = "lock" /\ MovesTo(p, a)
        /\ KeepBlock /\ KeepCount /\ KeepBusy /\ UNCHANGED <<cacheVars, diskVars>>
    BY <1>0, <1>5, LockedEffect
  <2>2. a \in {"hold", "desc"}
    OBVIOUS
  <2> HIDE DEF a
  <2>3. RefsInv'
    BY <2>1, <2>2, RefsStep DEF cacheVars
  <2>4. DiskInv'
    BY <2>1, <2>2, DiskStep DEF InFlight, KeepPlace, KeepWrite
  <2> QED BY <1>0, <1>5, <2>3, <2>4, LockLocked, DataLocked, WaitLocked
<1>6. ASSUME NEW p \in Procs, LockBusy(p) PROVE Kept
  <2>1. /\ UNCHANGED <<buf, cacheVars, diskVars>> /\ KeepPlace /\ KeepWrite /\ KeepHead
        /\ op[p].pc = "lock" /\ MovesTo(p, "lock-zz")
    BY <1>0, <1>6, LockBusyEffect
  <2>2. \A q \in Procs : SameCall(q)
    BY <2>1, StayEffect DEF Waiting
  <2> QED BY <1>0, <1>6, <1>f, <2>1, <2>2, WaitLockBusy
<1>7. ASSUME NEW p \in Procs, Modify(p) PROVE Kept
  <2>1. KeepHolder /\ KeepBusy /\ UNCHANGED <<diskVars, st, chan, op>> /\ op[p].pc = "hold" /\ st[p] = "running"
    BY <1>0, <1>7, ModifyEffect DEF Modify, At
  <2>2. MovesTo(p, "hold") /\ KeepHead /\ free' = free
    BY <2>1 DEF MovesTo, KeepHead, diskVars
  <2>3. LockInv'
    BY <2>1, <2>2, LockStep
  <2>4. DiskInv'
    BY <2>1, <2>2, DiskStep DEF InFlight
  <2>5. WaitInv'
    BY <1>0, <2>1, <2>2, WaitStep
  <2> QED BY <1>0, <1>7, <2>3, <2>4, <2>5, RefsModify, DataModify
<1>8. ASSUME NEW p \in Procs, bwrite(p) PROVE Kept
  <2>1. /\ op[p].pc = "hold" /\ st[p] = "running" /\ KeepPlace /\ KeepHead /\ MovesTo(p, "desc")
        /\ \A q \in Procs \ {p} : op'[q].write = op[q].write
        /\ UNCHANGED <<buf, cacheVars, diskVars, st, chan>>
    BY <1>0, <1>8, BwriteEffect
  <2>2. KeepBlock /\ KeepCount /\ KeepHolder /\ KeepBusy /\ free' = free /\ pinned' = pinned
    BY <2>1 DEF KeepBlock, KeepCount, KeepHolder, KeepBusy, diskVars, cacheVars
  <2>3. \A q \in Procs : op'[q].b = op[q].b
    BY <2>1 DEF KeepPlace
  <2>4. RefsInv'
    BY <2>1, <2>2, RefsStep
  <2>5. LockInv'
    BY <2>1, <2>2, <2>3, LockStep DEF Holding, Owning, ForDesc
  <2>6. DiskInv'
    BY <2>1, <2>2, <2>3, DiskStep DEF InFlight
  <2>7. WaitInv'
    BY <1>0, <2>1, <2>2, <2>3, WaitStep
  <2> QED BY <1>0, <1>8, <2>4, <2>5, <2>6, <2>7, DataBwrite
<1>9. ASSUME NEW p \in Procs, bunpin(p) PROVE Kept
  <2>1. /\ op[p].pc = "unpin" /\ st[p] = "running" /\ KeepPlace /\ KeepHead /\ MovesTo(p, "hold")
        /\ \A q \in Procs \ {p} : op'[q].write = op[q].write
        /\ KeepHolder /\ KeepBusy /\ UNCHANGED <<diskVars, st, chan>>
    BY <1>0, <1>9, BunpinEffect
  <2>2. (\A q \in Procs : op'[q].b = op[q].b) /\ free' = free
    BY <2>1 DEF KeepPlace, diskVars
  <2>3. LockInv'
    BY <2>1, <2>2, LockStep DEF Holding, Owning
  <2>4. DiskInv'
    BY <2>1, <2>2, DiskStep DEF InFlight
  <2>5. WaitInv'
    BY <1>0, <2>1, <2>2, WaitStep
  <2> QED BY <1>0, <1>9, <2>3, <2>4, <2>5, RefsUnpin, DataUnpin
<1>10. ASSUME NEW p \in Procs, Brelse(p) PROVE Kept
  <2>1. /\ op[p].pc = "hold" /\ KeepPlace /\ KeepWrite /\ KeepHead /\ MovesTo(p, "release")
        /\ KeepBlock /\ KeepCount /\ KeepBusy /\ UNCHANGED <<cacheVars, diskVars>>
    BY <1>0, <1>10, BrelseEffect
  <2>2. RefsInv'
    BY <2>1, RefsStep DEF cacheVars
  <2>3. DiskInv'
    BY <2>1, DiskStep DEF InFlight, KeepPlace, KeepWrite
  <2> QED BY <1>0, <1>10, <2>2, <2>3, LockBrelse, DataBrelse, WaitBrelse
<1>11. ASSUME NEW p \in Procs, BrelseRef(p) PROVE Kept
  <2>1. /\ op[p].pc = "release" /\ st[p] = "running" /\ MovesTo(p, "user") /\ KeepHead
        /\ \A q \in Procs \ {p} : op'[q].b = op[q].b /\ op'[q].write = op[q].write
        /\ KeepHolder /\ KeepBusy /\ UNCHANGED <<diskVars, st, chan>>
    BY <1>0, <1>11, BrelseRefEffect
  <2>2. "release" \notin Holding /\ "user" \notin Holding /\ free' = free
    BY <2>1 DEF Holding, ForDesc, InFlight, Owning, diskVars
  <2>3. LockInv'
    BY <2>1, <2>2, LockStep
  <2>4. DiskInv'
    BY <2>1, DiskStep DEF InFlight
  <2>5. WaitInv'
    BY <1>0, <2>1, <2>2, WaitStep
  <2> QED BY <1>0, <1>11, <2>3, <2>4, <2>5, RefsRelease, DataRelease
<1>12. ASSUME NEW p \in Procs, Submit(p) PROVE Kept
  <2>1. /\ op[p].pc = "desc" /\ KeepPlace /\ MovesTo(p, "rw-zz") /\ KeepBlock /\ KeepCount /\ KeepHolder
        /\ pinned' = pinned
    BY <1>0, <1>12, SubmitEffect DEF cacheVars
  <2>2. RefsInv'
    BY <2>1, RefsStep
  <2>3. LockInv'
    BY <2>1, LockStep DEF Holding, ForDesc, InFlight, KeepPlace
  <2> QED BY <1>0, <1>12, <2>2, <2>3, DiskSubmit, DataSubmit, WaitSubmit
<1>13. ASSUME NEW p \in Procs, NoDescs(p) PROVE Kept
  <2>1. /\ UNCHANGED <<buf, cacheVars, diskVars>> /\ KeepPlace /\ KeepWrite /\ KeepHead
        /\ op[p].pc = "desc" /\ MovesTo(p, "desc-zz")
    BY <1>0, <1>13, NoDescsEffect
  <2>2. \A q \in Procs : SameCall(q)
    BY <2>1, StayEffect DEF ForDesc
  <2> QED BY <1>0, <1>13, <1>f, <2>1, <2>2, WaitNoDescs
<1>14. ASSUME NEW p \in Procs, StillBusy(p) PROVE Kept
  <2>1. /\ UNCHANGED <<buf, cacheVars, diskVars>> /\ KeepPlace /\ KeepWrite /\ KeepHead
        /\ op[p].pc = "rw" /\ MovesTo(p, "rw-zz")
    BY <1>0, <1>14, StillBusyEffect
  <2>2. \A q \in Procs : SameCall(q)
    BY <2>1, StayEffect DEF InFlight
  <2> QED BY <1>0, <1>14, <1>f, <2>1, <2>2, WaitStillBusy
<1>15. ASSUME NEW p \in Procs, Finished(p) PROVE Kept
  <2> DEFINE a == IF op[p].write THEN "unpin" ELSE "hold"
  <2>1. /\ op[p].pc = "rw" /\ KeepPlace /\ MovesTo(p, a) /\ KeepBlock /\ KeepCount /\ KeepHolder
        /\ pinned' = pinned
    BY <1>0, <1>15, FinishedEffect DEF cacheVars
  <2>2. a \in {"unpin", "hold"}
    OBVIOUS
  <2> HIDE DEF a
  <2>3. RefsInv'
    BY <2>1, <2>2, RefsStep
  <2>4. LockInv'
    BY <2>1, <2>2, LockStep DEF Holding, Owning, InFlight, KeepPlace
  <2> QED BY <1>0, <1>15, <2>3, <2>4, DiskFinished, DataFinished, WaitFinished
<1>g. ASSUME KeepBlock, KeepCount, KeepHolder, UNCHANGED <<pinned, op>> PROVE RefsInv' /\ LockInv'
  <2>1. KeepPlace
    BY <1>g DEF KeepPlace
  <2>2. \A q \in Procs : op[q].pc \in Holding => op[q].b \in Bufs
    BY <1>0, HoldingInside
  <2> QED BY <1>0, <1>g, <2>1, <2>2, RefsFrame, LockFrame
<1>16. ASSUME NEW d \in Descs, Device(d) PROVE Kept
  <2>1. /\ KeepBlock /\ KeepCount /\ KeepHolder /\ KeepBusy /\ UNCHANGED <<pinned, free, st, chan, op>>
    BY <1>0, <1>16, DeviceEffect DEF cacheVars
  <2>2. WaitInv'
    BY <1>0, <2>1, WaitOthers DEF WaitInv
  <2> QED BY <1>0, <1>16, <1>g, <2>1, <2>2, DiskDevice, DataDevice
<1>17. ASSUME IntrStart \/ IntrEmpty PROVE Kept
  <2>1. UNCHANGED <<buf, cacheVars, disk, free, req, avail, used, st, chan, op>> /\ (used # <<>> => irq' \/ intr')
    BY <1>17 DEF IntrStart, IntrEmpty
  <2>2. /\ KeepBlock /\ KeepValid /\ KeepCount /\ KeepHolder /\ KeepBusy /\ KeepData
        /\ \A q \in Procs : SameCall(q)
    BY <2>1 DEF KeepBlock, KeepValid, KeepCount, KeepHolder, KeepBusy, KeepData, SameCall, SameStage
  <2>3. RefsInv' /\ LockInv' /\ DiskInv' /\ DataInv'
    BY <2>1, <2>2, CacheFrame DEF cacheVars
  <2>4. WaitInv'
    BY <1>0, <2>1, <2>2, WaitOthers DEF WaitInv
  <2> QED BY <2>3, <2>4
<1>18. ASSUME IntrEntry PROVE Kept
  <2>1. /\ KeepBlock /\ KeepValid /\ KeepCount /\ KeepHolder /\ KeepData
        /\ UNCHANGED <<latest, pinned, disk, avail, op>>
    BY <1>0, <1>18, IntrEntryEffect DEF cacheVars
  <2>2. \A q \in Procs : SameCall(q)
    BY <2>1 DEF SameCall, SameStage
  <2>3. DataInv'
    BY <1>0, <2>1, <2>2, DataFrame
  <2> QED BY <1>0, <1>18, <1>g, <2>1, <2>3, DiskIntrEntry, WaitIntrEntry
<1>19. ASSUME UNCHANGED <<buf, lru, latest, pinned, diskVars, st, chan, op>> PROVE Kept
  <2>1. UNCHANGED <<disk, free, req, avail, used, irq, intr>>
    BY <1>19 DEF diskVars
  <2>2. /\ KeepBlock /\ KeepValid /\ KeepCount /\ KeepHolder /\ KeepBusy /\ KeepData
        /\ \A q \in Procs : SameCall(q)
    BY <1>19 DEF KeepBlock, KeepValid, KeepCount, KeepHolder, KeepBusy, KeepData, SameCall, SameStage
  <2>3. RefsInv' /\ LockInv' /\ DiskInv' /\ DataInv'
    BY <1>19, <1>i, <2>1, <2>2, CacheFrame
  <2>4. WaitInv'
    BY <1>0, <1>19, <2>1, <2>2, WaitOthers DEF WaitInv
  <2> QED BY <2>3, <2>4
<1>20. ASSUME UNCHANGED vars PROVE Kept
  BY <1>19, <1>20 DEF vars, diskVars
<1>21. ASSUME NEW p \in Procs, NEW k \in Blocks, BgetPanics(p, k) PROVE Kept
  BY <1>19, <1>21 DEF BgetPanics
<1>22. Kept
  BY <1>1, <1>2, <1>3, <1>4, <1>5, <1>6, <1>7, <1>8, <1>9, <1>10, <1>11, <1>12, <1>13, <1>14, <1>15,
     <1>16, <1>17, <1>18, <1>20, <1>21 DEF Next, Spin
<1> QED BY <1>t, <1>22 DEF CacheInv

\* Counts, locks, descriptors, data and sleepers are right in every reachable state.
THEOREM CacheInvariant == Spec => []CacheInv
  BY CacheInit, CacheNext, PTL DEF Spec

-----------------------------------------------------------------------------
(* What the invariant shows.                                                *)

\* Who has bread() a block is alone with the only buffer of that block, and the buffer
\* holds the last change to it, whatever was recycled, read and written in between.
THEOREM HolderSeesLatestCorrect == Spec => []HolderSeesLatest
<1>1. ASSUME CacheInv PROVE HolderSeesLatest
  <2>1. SUFFICES ASSUME NEW p \in Procs, op[p].pc \in {"hold", "unpin"}
        PROVE  LET x == buf[op[p].b] IN
               /\ x.holder = p /\ x.valid /\ x.blockno = op[p].k /\ x.data = latest[op[p].k]
               /\ \A b \in Bufs : buf[b].blockno = op[p].k => b = op[p].b
    BY DEF HolderSeesLatest
  <2>2. op[p].pc \in Owning /\ op[p].pc \in Holding
    BY <2>1 DEF Owning, Holding
  <2>3. op[p].b \in Bufs /\ op[p].k \in Blocks /\ buf[op[p].b].blockno = op[p].k
    BY <1>1, <2>2, HoldingInside DEF CacheInv, RefsInv
  <2>4. buf[op[p].b].valid
    BY <1>1, <2>2 DEF CacheInv, DataInv, RequestData
  <2>5. buf[op[p].b].data = latest[op[p].k]
    BY <1>1, <2>3, <2>4 DEF CacheInv, DataInv, BufferData
  <2>6. buf[op[p].b].holder = p
    BY <1>1, <2>2 DEF CacheInv, LockInv
  <2>7. \A b \in Bufs : buf[b].blockno = op[p].k => b = op[p].b
    BY <1>1, <2>3, BcacheAssumption DEF CacheInv, RefsInv, OneBuffer
  <2> QED BY <2>3, <2>4, <2>5, <2>6, <2>7
<1> QED BY <1>1, CacheInvariant, PTL

\* A buffer's count is the number of its users and its pin, however small the cache: no
\* buffer in use is recycled and none is lost.
THEOREM RefsExactCorrect == Spec => []RefsExact
<1>1. ASSUME CacheInv PROVE RefsExact
  BY <1>1 DEF CacheInv, RefsInv, CountExact, RefsExact
<1> QED BY <1>1, CacheInvariant, PTL

\* Every descriptor is free or in the chain of one request, and every request belongs to
\* a process that holds the request's buffer.
THEOREM DescsExactCorrect == Spec => []DescsExact
<1>1. ASSUME CacheInv PROVE DescsExact
  <2>1. ASSUME NEW h \in Descs, req[h].b # 0
        PROVE  \E p \in Procs : op[p].head = h /\ op[p].b = req[h].b /\ buf[req[h].b].holder = p
    <3>1. PICK p \in Procs : op[p].head = h
      BY <1>1, <2>1 DEF CacheInv, DiskInv, OwnRequest
    <3>2. op[p].pc \in InFlight /\ op[p].b = req[h].b
      BY <1>1, <3>1 DEF CacheInv, DiskInv, OwnRequest, Descs
    <3>3. buf[op[p].b].holder = p
      BY <1>1, <3>2 DEF CacheInv, LockInv, Holding
    <3> QED BY <3>1, <3>2, <3>3
  <2> QED BY <1>1, <2>1 DEF CacheInv, DiskInv, Partition, DescsExact
<1> QED BY <1>1, CacheInvariant, PTL

\* No lost wakeup: who waits for a sleep lock, for descriptors or for a request waits for
\* something that has not happened, and a request not done is with the device or in the used
\* ring with an interrupt to come or being handled.
THEOREM NoLostWakeupCorrect == Spec => []NoLostWakeup
<1>1. ASSUME CacheInv PROVE NoLostWakeup
  <2>1. SUFFICES ASSUME NEW p \in Procs
        PROVE  /\ Waits(p, "lock-zz", "lock", <<"lock", op[p].b>>) => buf[op[p].b].holder # None
               /\ Waits(p, "desc-zz", "desc", FreeChan) => Cardinality(free) < 3
               /\ Waits(p, "rw-zz", "rw", <<"buf", op[p].b>>) =>
                    /\ buf[op[p].b].disk
                    /\ op[p].head \in avail \/ (op[p].head \in Entries(used) /\ (irq \/ intr))
    BY DEF NoLostWakeup
  <2>2. WaitsRight(p)
    BY <1>1 DEF CacheInv, WaitInv
  <2>3. ASSUME op[p].pc \in InFlight, buf[op[p].b].disk
        PROVE  op[p].head \in avail \/ (op[p].head \in Entries(used) /\ (irq \/ intr))
    <3>1. op[p].head \in avail \union Entries(used) /\ (used # <<>> => irq \/ intr)
      BY <1>1, <2>3 DEF CacheInv, DiskInv, InRing
    <3>2. op[p].head \in Entries(used) => used # <<>>
      BY DEF Entries
    <3> QED BY <3>1, <3>2
  <2>4. Waits(p, "rw-zz", "rw", <<"buf", op[p].b>>) => op[p].pc \in InFlight
    BY DEF Waits, InFlight
  <2> QED BY <2>2, <2>3, <2>4 DEF WaitsRight
<1> QED BY <1>1, CacheInvariant, PTL
===============================================================================
