------------------------------- MODULE VmProofs -------------------------------
(***************************************************************************)
(* Safety of user memory, for any number of processes, frames and pages:   *)
(* no panic, no page outside its process, no frame lost or freed twice.    *)
(***************************************************************************)
EXTENDS Vm, FiniteSetTheorems, SequenceTheorems, TLAPS

-----------------------------------------------------------------------------
(* The inductive invariant.                                                 *)

LIMIT == (TRAPFRAME - USERSTACK - 1) * PGSIZE     \* of what an executable loads
TOP == TRAPFRAME * PGSIZE

PageTables == [tab : SUBSET NodeNames, pages : SUBSET Pages]
Works == [op : {"none", "fork", "exec", "sbrk", "fault"}, id : (Slots \union {0}) \X {"cur", "new"},
          todo : SUBSET Pages,
          next : {"", "root", "copy", "forked", "segment", "load", "args", "bad", "grown", "done"},
          from : Nat, to : Nat, sz : Nat, segs : Seq(Segments), nargs : Nat]

TypeOK ==
  /\ state \in [Slots -> {"unused", "used", "running", "zombie"}]
  /\ sz \in [Slots -> 0..TOP]
  /\ tf \in [Slots -> BOOLEAN]
  /\ tbl \in [Tables -> PageTables]
  /\ work \in [Slots -> Works]
  /\ held \in Nat /\ free \in Nat

\* The pages of a complete table of n user pages; some may not be mapped yet.
Owned(pages, n) == Kernel \subseteq pages /\ pages \subseteq Span(0, n) \union Kernel

\* proc_pagetable() maps the kernel's pages of a new table; todo is what is left.
Setup(pages, todo) == pages \union todo = Kernel /\ pages \intersect todo = {}

\* uvmalloc() and uvmcopy() map pages from lo to hi, in ascending order.
Loop(pages, todo, lo, hi) ==
  /\ Owned(pages, hi)
  /\ todo \subseteq Span(lo, hi)
  /\ \A a \in pages \ Kernel : a < lo \/ \A b \in todo : a < b

\* Where fork stands: it builds the table of the child, in a slot of its own.
ForkStage(p, w, t) ==
  /\ w.id[1] \in Slots \ {p} /\ w.id = <<w.id[1], "cur">> /\ state[w.id[1]] = "used"
  /\ w.sz = 0 /\ w.nargs = 0
  /\ \/ w.next = "root" /\ w.todo = {} /\ t = NoTable
     \/ w.next = "copy" /\ Setup(t.pages, w.todo)
     \/ w.next = "forked" /\ Loop(t.pages, w.todo, 0, PGROUNDUP(sz[p]))

\* uvmalloc() in exec: the size is advanced only when it is done.
Allocating(w, t, max) ==
  /\ w.sz = w.from /\ w.from <= w.to /\ w.to <= max
  /\ Loop(t.pages, w.todo, PGROUNDUP(w.from), PGROUNDUP(w.to))

\* Where exec stands: it builds a table beside the one in use.
ExecStage(p, w, t) ==
  /\ w.id = <<p, "new">> /\ w.nargs = MAXARG
  /\ \A i \in DOMAIN w.segs : w.segs[i].va * PGSIZE + w.segs[i].memsz <= LIMIT
  /\ \/ w.next = "root" /\ w.todo = {} /\ w.sz = 0 /\ t = NoTable
     \/ w.next = "segment" /\ w.sz = 0 /\ Setup(t.pages, w.todo)
     \/ w.next = "segment" /\ w.sz <= LIMIT /\ w.todo = {} /\ Owned(t.pages, PGROUNDUP(w.sz))
     \/ w.next = "load" /\ w.segs # <<>> /\ Allocating(w, t, LIMIT)
     \/ w.next = "args" /\ Allocating(w, t, TOP)
     \/ w.next = "bad" /\ w.sz <= TOP /\ w.todo = {} /\ Owned(t.pages, PGROUNDUP(w.sz))

\* Where sbrk and a page fault stand: they add to the table in use.
SbrkStage(p, w, t) ==
  /\ w.id = <<p, "cur">> /\ w.nargs = 0 /\ w.next = "grown"
  /\ w.from = sz[p] /\ w.from <= w.to /\ w.to <= TOP
  /\ Loop(t.pages, w.todo, PGROUNDUP(w.from), PGROUNDUP(w.to))

FaultStage(p, w, t) ==
  /\ w.id = <<p, "cur">> /\ w.nargs = 0 /\ w.next = "done"
  /\ w.todo \subseteq Span(0, PGROUNDUP(sz[p])) /\ w.todo \intersect t.pages = {}

Stage(p, w, t) ==
  \/ w.op = "fork" /\ ForkStage(p, w, t)
  \/ w.op = "exec" /\ ExecStage(p, w, t)
  \/ w.op = "sbrk" /\ SbrkStage(p, w, t)
  \/ w.op = "fault" /\ FaultStage(p, w, t)

\* One running process at most is inside an operation, at one of its stages.
BusyOK ==
  \A p \in Slots : work[p].op # "none" =>
    /\ \A q \in Slots : work[q].op # "none" => q = p
    /\ state[p] = "running"
    /\ Stage(p, work[p], tbl[work[p].id])

IdleOK == \A p \in Slots : work[p].op = "none" => work[p] = NoWork

\* Every table in use but the one that sbrk is changing has its pages below the size.
SettledOK ==
  \A p \in Slots : state[p] \in {"running", "zombie"} /\ work[p].op # "sbrk" =>
    Owned(tbl[<<p, "cur">>].pages, PGROUNDUP(sz[p]))

\* A free slot owns no frame, and the second table exists only during exec.
SlotsOK ==
  \A p \in Slots :
    /\ tf[p] <=> state[p] # "unused"
    /\ state[p] = "unused" => tbl[<<p, "cur">>] = NoTable
    /\ work[p].op # "exec" \/ work[p].next = "root" => tbl[<<p, "new">>] = NoTable

VmInv == TypeOK /\ NoPanic /\ BusyOK /\ IdleOK /\ SettledOK /\ SlotsOK


-----------------------------------------------------------------------------
(* Sizes and pages.                                                         *)

LEMMA Constants ==
  /\ NPROC \in Nat \ {0} /\ PGSIZE \in Nat \ {0} /\ USERSTACK \in Nat \ {0} /\ FANOUT \in Nat \ {0, 1}
  /\ MAXARG \in Nat /\ WORD \in Nat /\ NFrames \in Nat \ {0, 1, 2, 3}
  /\ MAXVA \in Nat /\ TRAPFRAME \in Nat \ {0} /\ TRAMPOLINE = TRAPFRAME + 1 /\ MAXVA = TRAPFRAME + 2
  /\ TOP \in Nat /\ LIMIT \in Nat /\ WORD > 2 * TOP /\ USERSTACK + 1 <= TRAPFRAME
<1>1. NPROC \in Nat \ {0} /\ PGSIZE \in Nat \ {0} /\ USERSTACK \in Nat \ {0} /\ FANOUT \in Nat \ {0, 1}
      /\ MAXARG \in Nat /\ WORD \in Nat /\ NFrames \in Nat \ {0, 1, 2, 3} /\ WORD > 2 * MAXVA * PGSIZE
  BY VmAssumption DEF MAXVA
<1>2. FANOUT * FANOUT * FANOUT >= 8 /\ FANOUT * FANOUT * FANOUT \in Nat
  <2> SUFFICES ASSUME NEW f \in Nat, f >= 2 PROVE f * f * f >= 8
    BY <1>1
  <2>1. f * f \in Nat /\ f * f >= 4
    OBVIOUS
  <2>2. PICK g \in Nat : g = f * f
    BY <2>1
  <2> QED BY <2>1, <2>2
<1>3. MAXVA \in Nat /\ MAXVA >= 8 /\ TRAPFRAME = MAXVA - 2 /\ TRAMPOLINE = MAXVA - 1
  BY <1>2 DEF MAXVA, TRAPFRAME, TRAMPOLINE
<1>4. USERSTACK + 1 <= TRAPFRAME
  BY ProgramsAssumption
<1>5. TRAPFRAME - USERSTACK - 1 \in Nat /\ TRAPFRAME \in Nat
  BY <1>1, <1>3, <1>4
<1>6. TOP \in Nat /\ LIMIT \in Nat
  BY <1>1, <1>5 DEF TOP, LIMIT
<1>7. 2 * MAXVA * PGSIZE >= 2 * TOP
  <2> SUFFICES ASSUME NEW m \in Nat, NEW q \in Nat, m >= 8 PROVE 2 * m * q >= 2 * ((m - 2) * q)
    BY <1>1, <1>3 DEF TOP
  <2> QED OBVIOUS
<1> QED BY <1>1, <1>3, <1>4, <1>6, <1>7

LEMMA Sizes == PGSIZE \in Nat /\ USERSTACK \in Nat /\ TRAPFRAME \in Nat /\ USERSTACK + 1 <= TRAPFRAME
  BY Constants

LEMMA Products ==
  ASSUME NEW a \in Nat, NEW b \in Nat, NEW n \in Nat
  PROVE  a * n \in Nat /\ (a + b) * n = a * n + b * n
  OBVIOUS

LEMMA Multiply == ASSUME NEW x \in Int, NEW y \in Int, NEW n \in Nat, x <= y PROVE x * n <= y * n
  OBVIOUS

LEMMA Divide == ASSUME NEW x \in Int, NEW y \in Int, NEW n \in Nat, x * n < y * n PROVE x < y
  BY Multiply

LEMMA Rounded ==
  ASSUME NEW a \in Nat
  PROVE  PGROUNDUP(a) \in Nat /\ a <= PGROUNDUP(a) * PGSIZE /\ (PGROUNDUP(a) - 1) * PGSIZE < a
<1> SUFFICES ASSUME NEW n \in Nat, n > 0
             PROVE LET q == (a + n - 1) \div n IN q \in Nat /\ a <= q * n /\ (q - 1) * n < a
  BY Constants DEF PGROUNDUP
<1> QED OBVIOUS

\* Rounding a size up to pages is monotone, exact on whole pages, and leaves what
\* fits below the trapframe below it.
LEMMA Pagewise ==
  ASSUME NEW a \in Nat
  PROVE  /\ \A b \in Nat : a <= b => PGROUNDUP(a) <= PGROUNDUP(b)
         /\ \A k \in Nat : a = k * PGSIZE => PGROUNDUP(a) = k
         /\ \A k \in Nat : a <= k * PGSIZE => PGROUNDUP(a) <= k
         /\ \A va \in Nat : va * PGSIZE < a => va < PGROUNDUP(a)
<1> DEFINE n == PGSIZE
           q == PGROUNDUP(a)
<1>1. n \in Nat /\ q \in Nat /\ a <= q * n /\ (q - 1) * n < a
  BY Constants, Rounded
<1>2. \A b \in Nat : PGROUNDUP(b) \in Nat /\ b <= PGROUNDUP(b) * n
  BY Rounded
<1>3. q * n \in Int /\ (q - 1) * n \in Int /\ \A k \in Nat : k * n \in Int
  BY <1>1
<1> HIDE DEF n, q
<1>4. \A k \in Nat : a <= k * n => q <= k
  <2> SUFFICES ASSUME NEW k \in Nat, a <= k * n PROVE q <= k
    OBVIOUS
  <2>1. (q - 1) * n < k * n
    BY <1>1, <1>3
  <2>2. q - 1 < k
    BY <2>1, <1>1, Divide
  <2> QED BY <2>2, <1>1
<1>5. \A va \in Nat : va * n < a => va < q
  <2> SUFFICES ASSUME NEW va \in Nat, va * n < a PROVE va < q
    OBVIOUS
  <2>1. va * n < q * n
    BY <1>1, <1>3
  <2> QED BY <2>1, <1>1, Divide
<1>6. \A k \in Nat : a = k * n => q = k
  <2> SUFFICES ASSUME NEW k \in Nat, a = k * n PROVE q = k
    OBVIOUS
  <2>1. q <= k
    BY <1>3, <1>4
  <2>2. k <= q
    <3> SUFFICES ASSUME q < k PROVE FALSE
      BY <1>1
    <3>1. q * n <= (k - 1) * n
      BY <1>1, Multiply
    <3>2. (k - 1) * n = k * n - n
      BY <1>1
    <3>3. q * n = k * n /\ n = 0
      BY <3>1, <3>2, <1>1, <1>3
    <3> QED BY <3>3, Constants DEF n
  <2> QED BY <2>1, <2>2, <1>1
<1>7. \A b \in Nat : a <= b => q <= PGROUNDUP(b)
  <2> SUFFICES ASSUME NEW b \in Nat, a <= b PROVE q <= PGROUNDUP(b)
    OBVIOUS
  <2>1. PGROUNDUP(b) \in Nat /\ b <= PGROUNDUP(b) * n /\ PGROUNDUP(b) * n \in Int
    BY <1>2, <1>3
  <2>2. a <= PGROUNDUP(b) * n
    BY <2>1
  <2> QED BY <1>4, <2>1, <2>2
<1> QED BY <1>4, <1>5, <1>6, <1>7 DEF n, q

\* A process that may have a size has its user pages below the kernel's.
LEMMA BelowKernel ==
  /\ PGROUNDUP(0) = 0
  /\ \A a \in 0..TOP : PGROUNDUP(a) \in 0..TRAPFRAME
  /\ \A a \in 0..LIMIT : PGROUNDUP(a) \in 0..(TRAPFRAME - USERSTACK - 1)
  /\ LIMIT <= TOP
<1>1. 0 = 0 * PGSIZE
  BY Constants
<1>2. PGROUNDUP(0) = 0
  BY <1>1, Pagewise
<1>3. \A a \in 0..TOP : PGROUNDUP(a) \in 0..TRAPFRAME
  <2> SUFFICES ASSUME NEW a \in 0..TOP PROVE PGROUNDUP(a) \in 0..TRAPFRAME
    OBVIOUS
  <2>1. a \in Nat /\ a <= TRAPFRAME * PGSIZE
    BY Constants DEF TOP
  <2> QED BY <2>1, Pagewise, Rounded, Constants
<1>4. TRAPFRAME - USERSTACK - 1 \in Nat
  BY Constants
<1>5. \A a \in 0..LIMIT : PGROUNDUP(a) \in 0..(TRAPFRAME - USERSTACK - 1)
  <2> SUFFICES ASSUME NEW a \in 0..LIMIT PROVE PGROUNDUP(a) \in 0..(TRAPFRAME - USERSTACK - 1)
    OBVIOUS
  <2>1. a \in Nat /\ a <= (TRAPFRAME - USERSTACK - 1) * PGSIZE
    BY Constants DEF LIMIT
  <2> QED BY <2>1, <1>4, Pagewise, Rounded
<1>6. LIMIT <= TOP
  BY Constants, Multiply DEF LIMIT, TOP
<1> QED BY <1>2, <1>3, <1>5, <1>6

\* User pages are not the kernel's.
LEMMA SpanUser ==
  ASSUME NEW lo, NEW n \in 0..TRAPFRAME
  PROVE  Span(lo, n) \intersect Kernel = {} /\ Span(lo, n) \subseteq Pages
  BY Constants DEF Span, Kernel

LEMMA PagesFinite ==
  /\ Pages \subseteq Nat /\ Kernel \subseteq Pages /\ IsFiniteSet(Pages)
  /\ \A S \in SUBSET Pages : IsFiniteSet(S)
<1>1. Pages \subseteq Nat /\ Kernel \subseteq Pages
  BY Constants DEF Pages, Kernel
<1>2. IsFiniteSet(Pages)
  BY FS_Interval, Constants DEF Pages
<1> QED BY <1>1, <1>2, FS_Subset

LEMMA MinIsMember ==
  ASSUME NEW S \in SUBSET Nat, S # {}
  PROVE  Min(S) \in S /\ \A y \in S : Min(S) <= y
<1> DEFINE Below(x) == {y \in S : y <= x}
           F == {Below(x) : x \in S}
<1>1. \A x \in S : Below(x) \in FiniteSubsetsOf(Nat)
  BY FS_BoundedSetOfNaturals DEF FiniteSubsetsOf
<1>2. F \subseteq FiniteSubsetsOf(Nat) /\ F # {}
  BY <1>1
<1>3. PICK B \in F : \A C \in F : <<C, B>> \notin StrictSubsetOrdering(Nat)
  BY <1>2, FS_StrictSubsetOrderingWellFounded, WFMin, Zenon
<1>4. PICK x \in S : B = Below(x)
  OBVIOUS
<1>5. ASSUME NEW y \in S, y < x PROVE FALSE
  <2>1. Below(y) \in SUBSET Nat /\ Below(x) \in SUBSET Nat /\ Below(y) \in F
    OBVIOUS
  <2>2. \A z \in S : z <= y => z <= x
    BY <1>5
  <2>3. Below(y) \subseteq Below(x)
    BY <2>2
  <2>4. x \in Below(x) /\ x \notin Below(y)
    BY <1>5
  <2> QED BY <1>3, <1>4, <2>1, <2>3, <2>4 DEF StrictSubsetOrdering
<1>6. \A y \in S : x <= y
  BY <1>5
<1> QED BY <1>6 DEF Min

\* The page mapped next is one of those to map, and the lowest of the user's.
LEMMA NextPageIs ==
  ASSUME NEW p \in Slots, work[p].todo \in SUBSET Pages, work[p].todo # {}
  PROVE  /\ NextPage(p) \in work[p].todo
         /\ ~(work[p].todo \subseteq Kernel) => \A b \in work[p].todo : NextPage(p) <= b
<1> DEFINE S == work[p].todo
<1>1. S \in SUBSET Nat /\ S # {}
  BY PagesFinite
<1>2. CASE S \subseteq Kernel
  <2>1. \E x \in S : \A y \in S : x >= y
    BY <1>1, <1>2, Constants DEF Kernel
  <2> QED BY <1>2, <2>1 DEF NextPage, Max
<1>3. CASE ~(S \subseteq Kernel)
  <2>1. NextPage(p) = Min(S)
    BY <1>3 DEF NextPage
  <2> QED BY <1>1, <1>3, <2>1, MinIsMember
<1> QED BY <1>2, <1>3


-----------------------------------------------------------------------------
(* Page tables being built.                                                 *)

LEMMA PathNodes ==
  ASSUME NEW va \in Pages
  PROVE  \E a, b \in Pages : Path(va) = {<<2, a>>, <<1, b>>}
<1>1. \A n \in Nat \ {0} : va \div n \in Pages
  <2> SUFFICES ASSUME NEW n \in Nat \ {0} PROVE va \div n \in Pages
    OBVIOUS
  <2>1. va \in Nat /\ va < MAXVA /\ MAXVA \in Nat
    BY Constants DEF Pages
  <2>2. va \div n \in Nat /\ va \div n <= va
    BY <2>1
  <2> QED BY <2>1, <2>2 DEF Pages
<1>2. FANOUT * FANOUT \in Nat \ {0} /\ FANOUT \in Nat \ {0}
  BY Constants
<1> QED BY <1>1, <1>2 DEF Path

LEMMA MissingNodes ==
  ASSUME NEW t \in PageTables, NEW va \in Pages
  PROVE  Missing(t, va) \in SUBSET NodeNames /\ Got(t, va) \in SUBSET Missing(t, va)
<1>1. Path(va) \subseteq NodeNames
  BY PathNodes DEF NodeNames
<1> QED BY <1>1 DEF Missing, Got

LEMMA SetupStep ==
  ASSUME NEW pages, NEW todo, NEW va \in todo, Setup(pages, todo)
  PROVE  va \notin pages /\ va \in Kernel /\ Setup(pages \union {va}, todo \ {va}) /\ todo \subseteq Kernel
  BY DEF Setup

LEMMA LoopStep ==
  ASSUME NEW pages \in SUBSET Pages, NEW todo \in SUBSET Pages, NEW lo \in Nat, NEW hi \in 0..TRAPFRAME,
         Loop(pages, todo, lo, hi), NEW va \in todo, \A b \in todo : va <= b
  PROVE  /\ va \notin pages /\ va \notin Kernel /\ ~(todo \subseteq Kernel)
         /\ Loop(pages \union {va}, todo \ {va}, lo, hi)
         /\ Owned(pages \ Span(lo, va), lo)
<1>1. va \in Span(lo, hi) /\ va \in Nat /\ todo \subseteq Nat /\ pages \subseteq Nat
  BY PagesFinite DEF Loop
<1>2. lo <= va /\ va < hi /\ va < TRAPFRAME /\ va \notin Kernel
  BY <1>1, Constants DEF Span, Kernel
<1>3. va \notin pages
  BY <1>1, <1>2 DEF Loop
<1>4. Loop(pages \union {va}, todo \ {va}, lo, hi)
  <2>1. Owned(pages \union {va}, hi) /\ todo \ {va} \subseteq Span(lo, hi)
    BY <1>1 DEF Loop, Owned, Span
  <2>2. \A b \in todo \ {va} : va < b
    BY <1>1
  <2> QED BY <2>1, <2>2 DEF Loop
<1>5. Owned(pages \ Span(lo, va), lo)
  <2>1. Kernel \subseteq pages \ Span(lo, va)
    <3>1. Span(lo, va) \intersect Kernel = {}
      BY <1>1, <1>2, SpanUser, Constants
    <3> QED BY <3>1 DEF Loop, Owned
  <2>2. ASSUME NEW a \in pages \ Span(lo, va), a \notin Kernel PROVE a \in Span(0, lo)
    <3>1. a \in Nat /\ a \in Pages /\ (a < lo \/ a < va)
      BY <1>1, <2>2 DEF Loop
    <3>2. a < lo
      BY <3>1, <2>2, <1>2 DEF Span
    <3> QED BY <3>1, <3>2 DEF Span
  <2> QED BY <2>1, <2>2 DEF Owned
<1> QED BY <1>2, <1>3, <1>4, <1>5

LEMMA OwnedGrows ==
  ASSUME NEW pages, NEW a \in Nat, NEW b \in Nat, a <= b, Owned(pages, a)
  PROVE  Owned(pages, b)
  BY PagesFinite DEF Owned, Span

LEMMA LoopStarts ==
  ASSUME NEW pages \in SUBSET Pages, NEW lo \in Nat, NEW hi \in Nat, lo <= hi, Owned(pages, lo),
         NEW todo \in SUBSET Span(lo, hi)
  PROVE  Loop(pages, todo, lo, hi)
<1>1. Owned(pages, hi)
  BY PagesFinite DEF Owned, Span
<1>2. \A a \in pages \ Kernel : a < lo
  BY DEF Owned, Span
<1> QED BY <1>1, <1>2 DEF Loop

LEMMA SetupDone ==
  ASSUME NEW pages, Setup(pages, {})
  PROVE  pages = Kernel /\ \A n : Owned(pages, n)
  BY DEF Setup, Owned

\* A complete table of the right size leaves nothing to freewalk().
LEMMA NoLeaves ==
  ASSUME NEW t, NEW size \in 0..TOP, t.pages \subseteq Span(0, PGROUNDUP(size)) \union Kernel
  PROVE  LeavesLeft(t, size) = {} /\ t.pages \intersect UserPages(size) = t.pages \ Kernel
<1>1. Span(0, PGROUNDUP(size)) \intersect Kernel = {}
  BY BelowKernel, SpanUser
<1> QED BY <1>1 DEF LeavesLeft, UserPages


-----------------------------------------------------------------------------
(* What a step of one process leaves alone.                                 *)

LEMMA BusyKept ==
  ASSUME TypeOK, NEW p \in Slots, NEW w,
         \A q \in Slots \ {p} : work[q].op = "none" /\ work'[q] = work[q], work'[p] = w,
         w.op = "none" \/ (state'[p] = "running" /\ \E t : t = tbl'[w.id] /\ Stage(p, w, t)')
  PROVE  BusyOK'
<1> SUFFICES ASSUME NEW q \in Slots, work'[q].op # "none"
             PROVE /\ \A r \in Slots : work'[r].op # "none" => r = q
                   /\ state'[q] = "running"
                   /\ Stage(q, work[q], tbl[work[q].id])'
  BY DEF BusyOK
<1>1. q = p /\ \A r \in Slots : work'[r].op # "none" => r = p
  OBVIOUS
<1>2. w.op # "none" /\ state'[p] = "running"
  BY <1>1
<1>3. PICK t : t = tbl'[w.id] /\ Stage(p, w, t)'
  BY <1>2
<1>4. Stage(p, work[p], tbl[work[p].id])'
  BY <1>3, Zenon
<1> QED BY <1>1, <1>2, <1>4

LEMMA IdleKept ==
  ASSUME IdleOK, NEW p \in Slots, \A q \in Slots \ {p} : work'[q] = work[q],
         work'[p].op = "none" => work'[p] = NoWork
  PROVE  IdleOK'
  BY DEF IdleOK

LEMMA SettledKept ==
  ASSUME SettledOK,
         \A q \in Slots : state'[q] \in {"running", "zombie"} /\ work'[q].op # "sbrk" =>
           \/ /\ state[q] \in {"running", "zombie"} /\ work[q].op # "sbrk"
              /\ tbl'[<<q, "cur">>] = tbl[<<q, "cur">>] /\ sz'[q] = sz[q]
           \/ Owned(tbl'[<<q, "cur">>].pages, PGROUNDUP(sz'[q]))
  PROVE  SettledOK'
<1> SUFFICES ASSUME NEW q \in Slots, state'[q] \in {"running", "zombie"}, work'[q].op # "sbrk"
             PROVE  Owned(tbl'[<<q, "cur">>].pages, PGROUNDUP(sz'[q]))
  BY DEF SettledOK
<1> QED BY DEF SettledOK

\* A stage does not depend on other processes but for the slot of a child.
LEMMA StageKept ==
  ASSUME NEW p, NEW w, NEW t, Stage(p, w, t), sz'[p] = sz[p],
         w.op = "fork" => state'[w.id[1]] = state[w.id[1]]
  PROVE  Stage(p, w, t)'
<1>1. CASE w.op = "fork" /\ ForkStage(p, w, t)
  BY <1>1 DEF Stage, ForkStage
<1>2. CASE w.op = "exec" /\ ExecStage(p, w, t)
  BY <1>2 DEF Stage, ExecStage
<1>3. CASE w.op = "sbrk" /\ SbrkStage(p, w, t)
  BY <1>3 DEF Stage, SbrkStage
<1>4. CASE w.op = "fault" /\ FaultStage(p, w, t)
  BY <1>4 DEF Stage, FaultStage
<1> QED BY <1>1, <1>2, <1>3, <1>4 DEF Stage

LEMMA TableIds == \A p \in Slots : <<p, "cur">> \in Tables /\ <<p, "new">> \in Tables
  BY DEF Tables

LEMMA NoTableType == NoTable \in PageTables
  BY DEF NoTable, PageTables

LEMMA NoWorkType ==
  NoWork \in Works /\ NoWork.op = "none" /\ NoWork.todo = {} /\ NoWork.next = "" /\ NoWork.from = 0
  /\ NoWork.to = 0 /\ NoWork.sz = 0 /\ NoWork.segs = <<>> /\ NoWork.nargs = 0
<1>1. <<0, "cur">> \in (Slots \union {0}) \X {"cur", "new"}
  OBVIOUS
<1>2. <<>> \in Seq(Segments)
  OBVIOUS
<1> QED BY <1>1, <1>2 DEF NoWork, Works

LEMMA ReadyFacts ==
  ASSUME VmInv, NEW p \in Slots, Ready(p)
  PROVE  /\ \A q \in Slots : work[q] = NoWork /\ work[q].op = "none"
         /\ state[p] = "running" /\ sz[p] \in 0..TOP
         /\ tbl[<<p, "cur">>] \in PageTables /\ Owned(tbl[<<p, "cur">>].pages, PGROUNDUP(sz[p]))
         /\ tbl[<<p, "new">>] = NoTable
<1>1. \A q \in Slots : work[q] = NoWork /\ work[q].op = "none"
  BY DEF Ready, VmInv, IdleOK
<1>2. state[p] = "running" /\ sz[p] \in 0..TOP /\ tbl[<<p, "cur">>] \in PageTables
  BY TableIds DEF Ready, VmInv, TypeOK
<1>3. Owned(tbl[<<p, "cur">>].pages, PGROUNDUP(sz[p]))
  BY <1>1, <1>2 DEF VmInv, SettledOK
<1>4. tbl[<<p, "new">>] = NoTable
  BY <1>1 DEF VmInv, SlotsOK
<1> QED BY <1>1, <1>2, <1>3, <1>4

-----------------------------------------------------------------------------
(* The invariant holds initially and is kept by the steps outside the loops. *)

LEMMA VmInit == Init => VmInv
<1> SUFFICES ASSUME Init PROVE VmInv
  OBVIOUS
<1>1. FirstTable \in PageTables /\ FirstTable.pages = Kernel
  <2>1. TRAMPOLINE \in Pages
    BY PagesFinite DEF Kernel
  <2>2. {Root} \union Path(TRAMPOLINE) \in SUBSET NodeNames
    BY <2>1, PathNodes DEF NodeNames
  <2> QED BY <2>2, PagesFinite DEF FirstTable, PageTables
<1>2. 1 \in Slots /\ 0 \in 0..TOP /\ NFrames - 4 \in Nat
  BY Constants DEF Slots
<1>3. TypeOK
  <2>1. tbl \in [Tables -> PageTables]
    BY <1>1, NoTableType DEF Init
  <2>2. tf \in [Slots -> BOOLEAN]
    BY Zenon DEF Init
  <2> QED BY <1>2, <2>1, <2>2, NoWorkType DEF Init, TypeOK
<1>4. NoPanic /\ BusyOK /\ IdleOK
  BY NoWorkType DEF Init, NoPanic, BusyOK, IdleOK
<1>5. SettledOK
  BY <1>1, <1>2, BelowKernel, TableIds DEF Init, SettledOK, Owned
<1>6. SlotsOK
  <2> SUFFICES ASSUME NEW p \in Slots
               PROVE /\ tf[p] <=> state[p] # "unused"
                     /\ state[p] = "unused" => tbl[<<p, "cur">>] = NoTable
                     /\ tbl[<<p, "new">>] = NoTable
    BY DEF SlotsOK
  <2>1. tf[p] <=> p = 1
    BY DEF Init
  <2>2. state[p] # "unused" <=> p = 1
    BY DEF Init
  <2> QED BY <2>1, <2>2, TableIds DEF Init
<1> QED BY <1>3, <1>4, <1>5, <1>6 DEF VmInv

LEMMA Unchanged == ASSUME VmInv, UNCHANGED <<state, sz, tf, tbl, work, panicked>>, free' \in Nat, held' \in Nat
  PROVE VmInv'
<1>1. TypeOK'
  BY DEF VmInv, TypeOK
<1>2. NoPanic' /\ IdleOK' /\ SettledOK'
  BY DEF VmInv, NoPanic, IdleOK, SettledOK
<1>3. SlotsOK'
  BY Zenon DEF VmInv, SlotsOK
<1>4. BusyOK'
  <2> SUFFICES ASSUME NEW p \in Slots, work[p].op # "none"
               PROVE Stage(p, work[p], tbl[work[p].id])'
    BY DEF VmInv, BusyOK
  <2>1. PICK w, t : w = work[p] /\ t = tbl[work[p].id]
    OBVIOUS
  <2>2. Stage(p, w, t)
    BY <2>1 DEF VmInv, BusyOK
  <2>3. Stage(p, w, t)'
    BY <2>2, StageKept
  <2>4. w = work'[p] /\ t = tbl'[w.id]
    BY <2>1
  <2> QED BY <2>3, <2>4, Zenon
<1> QED BY <1>1, <1>2, <1>3, <1>4 DEF VmInv


LEMMA NodesFinite == IsFiniteSet(NodeNames) /\ \A S \in SUBSET NodeNames : IsFiniteSet(S)
<1>1. IsFiniteSet({1, 2} \X Pages)
  <2>1. IsFiniteSet({1}) /\ {1, 2} = {1} \union {2}
    BY FS_Singleton
  <2>2. IsFiniteSet({1, 2})
    BY <2>1, FS_AddElement
  <2> QED BY <2>2, PagesFinite, FS_Product
<1>2. IsFiniteSet({Root})
  BY FS_Singleton
<1>3. IsFiniteSet(NodeNames)
  BY <1>1, <1>2, FS_Union DEF NodeNames
<1> QED BY <1>3, FS_Subset

\* The table an operation works on exists.
LEMMA StageTable ==
  ASSUME NEW p \in Slots, NEW w, NEW t, Stage(p, w, t)
  PROVE  w.id \in Tables
<1>1. CASE ForkStage(p, w, t)
  BY <1>1 DEF ForkStage, Tables
<1>2. CASE w.id = <<p, "new">> \/ w.id = <<p, "cur">>
  BY <1>2, TableIds
<1> QED BY <1>1, <1>2 DEF Stage, ExecStage, SbrkStage, FaultStage

LEMMA Counters == ASSUME VmInv PROVE free \in Nat /\ held \in Nat
  BY DEF VmInv, TypeOK

LEMMA TakeStep == ASSUME VmInv, Take \/ Give PROVE VmInv'
<1>1. (free > 0 /\ free' = free - 1 /\ held' = held + 1) \/ (held > 0 /\ free' = free + 1 /\ held' = held - 1)
  BY DEF Take, Give
<1>2. free' \in Nat /\ held' \in Nat
  BY <1>1, Counters
<1> QED BY <1>2, Unchanged DEF Take, Give, procVars

LEMMA ExitStep == ASSUME VmInv, NEW p \in Slots, Exit(p) PROVE VmInv'
<1>1. Ready(p)
  BY DEF Exit
<1>2. TypeOK'
  BY DEF Exit, VmInv, TypeOK
<1>3. NoPanic' /\ IdleOK'
  BY DEF Exit, VmInv, NoPanic, IdleOK
<1>4. BusyOK'
  BY <1>1, ReadyFacts DEF Exit, BusyOK
<1>5. SettledOK'
  BY <1>1, ReadyFacts, SettledKept DEF Exit, VmInv, TypeOK
<1>6. \A q \in Slots : state'[q] = "unused" <=> state[q] = "unused"
  BY <1>1, ReadyFacts DEF Exit, VmInv, TypeOK
<1>7. SlotsOK'
  BY <1>6, Zenon DEF Exit, VmInv, SlotsOK
<1> QED BY <1>2, <1>3, <1>4, <1>5, <1>7 DEF VmInv

LEMMA ReapStep == ASSUME VmInv, NEW p \in Slots, Reap(p) PROVE VmInv'
<1>1. tbl[<<p, "cur">>] \in PageTables /\ sz[p] \in 0..TOP /\ work[p].op = "none"
  BY TableIds DEF Reap, VmInv, TypeOK, BusyOK
<1>2. Owned(tbl[<<p, "cur">>].pages, PGROUNDUP(sz[p]))
  BY <1>1 DEF Reap, VmInv, SettledOK
<1>3. LeavesLeft(tbl[<<p, "cur">>], sz[p]) = {}
  BY <1>1, <1>2, NoLeaves DEF Owned
<1>4. NoPanic'
  BY <1>3 DEF Reap, NoPanic
<1>5. free' \in Nat
  <2>1. IsFiniteSet(tbl[<<p, "cur">>].tab) /\ IsFiniteSet(tbl[<<p, "cur">>].pages \intersect UserPages(sz[p]))
    BY <1>1, PagesFinite, NodesFinite DEF PageTables
  <2>2. Given(tbl[<<p, "cur">>], sz[p]) \in Nat
    BY <2>1, FS_CardinalityType DEF Given
  <2>3. free' = free + Given(tbl[<<p, "cur">>], sz[p]) + 1
    BY DEF Reap
  <2> QED BY <2>2, <2>3, Counters
<1>6. tf' \in [Slots -> BOOLEAN]
  BY Zenon DEF Reap, VmInv, TypeOK
<1>7. tbl' \in [Tables -> PageTables]
  BY NoTableType DEF Reap, VmInv, TypeOK
<1>8. TypeOK'
  <2>1. sz' \in [Slots -> 0..TOP]
    <3>1. sz' = [sz EXCEPT ![p] = 0] /\ sz \in [Slots -> 0..TOP]
      BY DEF Reap, VmInv, TypeOK
    <3> QED BY <3>1, Constants
  <2>2. state' \in [Slots -> {"unused", "used", "running", "zombie"}] /\ work' = work /\ held' = held
    BY DEF Reap, VmInv, TypeOK
  <2> QED BY <1>5, <1>6, <1>7, <2>1, <2>2 DEF VmInv, TypeOK
<1>9. IdleOK'
  BY DEF Reap, VmInv, IdleOK
<1>10. SettledOK'
  <2>1. \A q \in Slots \ {p} : state'[q] = state[q] /\ sz'[q] = sz[q] /\ tbl'[<<q, "cur">>] = tbl[<<q, "cur">>]
    BY TableIds DEF Reap, VmInv, TypeOK
  <2>2. state'[p] = "unused" /\ work' = work
    BY DEF Reap, VmInv, TypeOK
  <2> QED BY <2>1, <2>2, SettledKept DEF VmInv
<1>11. SlotsOK'
  <2> SUFFICES ASSUME NEW q \in Slots
               PROVE /\ tf'[q] <=> state'[q] # "unused"
                     /\ state'[q] = "unused" => tbl'[<<q, "cur">>] = NoTable
                     /\ work[q].op # "exec" \/ work[q].next = "root" => tbl'[<<q, "new">>] = NoTable
    BY DEF Reap, SlotsOK
  <2>1. q # p => tf'[q] = tf[q] /\ state'[q] = state[q] /\ tbl'[<<q, "cur">>] = tbl[<<q, "cur">>]
    BY TableIds DEF Reap, VmInv, TypeOK
  <2>2. tbl'[<<q, "new">>] = tbl[<<q, "new">>]
    BY TableIds DEF Reap, VmInv, TypeOK
  <2>3. state'[p] = "unused" /\ tbl'[<<p, "cur">>] = NoTable
    BY TableIds DEF Reap, VmInv, TypeOK
  <2>4. ~tf'[p]
    BY Zenon DEF Reap, VmInv, TypeOK
  <2> QED BY <2>1, <2>2, <2>3, <2>4 DEF VmInv, SlotsOK
<1>12. BusyOK'
  <2> SUFFICES ASSUME NEW q \in Slots, work[q].op # "none"
               PROVE state'[q] = "running" /\ Stage(q, work[q], tbl[work[q].id])'
    BY DEF Reap, VmInv, BusyOK
  <2>1. PICK w, t : w = work[q] /\ t = tbl[work[q].id]
    OBVIOUS
  <2>2. Stage(q, w, t) /\ state[q] = "running" /\ q # p
    BY <2>1 DEF Reap, VmInv, BusyOK
  <2>3. state'[q] = state[q] /\ sz'[q] = sz[q]
    BY <2>2 DEF Reap, VmInv, TypeOK
  <2>4. w.id # <<p, "cur">> /\ (w.op = "fork" => state'[w.id[1]] = state[w.id[1]])
    <3>1. CASE w.op = "fork" /\ ForkStage(q, w, t)
      <4>1. state[p] = "zombie" /\ state' = [state EXCEPT ![p] = "unused"]
        BY DEF Reap
      <4>2. state[w.id[1]] = "used" /\ w.id[1] \in Slots /\ w.id = <<w.id[1], "cur">>
        BY <3>1 DEF ForkStage
      <4>3. w.id[1] # p /\ w.id # <<p, "cur">>
        BY <4>1, <4>2
      <4> QED BY <4>1, <4>2, <4>3 DEF VmInv, TypeOK
    <3>2. CASE w.op = "exec" /\ ExecStage(q, w, t)
      BY <3>2 DEF ExecStage
    <3>3. CASE w.op = "sbrk" /\ SbrkStage(q, w, t)
      BY <3>3, <2>2 DEF SbrkStage
    <3>4. CASE w.op = "fault" /\ FaultStage(q, w, t)
      BY <3>4, <2>2 DEF FaultStage
    <3> QED BY <2>2, <3>1, <3>2, <3>3, <3>4 DEF Stage
  <2>5. Stage(q, w, t)'
    BY <2>2, <2>3, <2>4, StageKept
  <2>6. w = work'[q] /\ t = tbl'[w.id]
    <3>1. w.id \in Tables
      BY <2>2, StageTable
    <3>2. tbl'[w.id] = tbl[w.id]
      BY <3>1, <2>4 DEF Reap, VmInv, TypeOK
    <3> QED BY <2>1, <3>2 DEF Reap
  <2> QED BY <2>2, <2>3, <2>5, <2>6, Zenon
<1> QED BY <1>4, <1>8, <1>9, <1>10, <1>11, <1>12 DEF VmInv


-----------------------------------------------------------------------------
(* Operations start.                                                        *)

LEMMA Starts ==
  ASSUME VmInv, NEW p \in Slots, Ready(p), NEW w \in Works, work' = [work EXCEPT ![p] = w],
         UNCHANGED <<state, sz, tf, tbl, panicked>>, free' \in Nat, held' \in Nat, w.op # "none",
         Stage(p, w, tbl[w.id])
  PROVE  VmInv'
<1>1. TypeOK'
  BY DEF VmInv, TypeOK
<1>2. work'[p] = w /\ \A q \in Slots \ {p} : work'[q] = work[q] /\ work[q].op = "none"
  BY ReadyFacts DEF VmInv, TypeOK
<1>3. NoPanic' /\ IdleOK'
  BY <1>2, IdleKept DEF VmInv, NoPanic
<1>4. SettledOK'
  BY ReadyFacts, SettledKept DEF VmInv
<1>5. SlotsOK'
  <2>1. \A q \in Slots : tbl[<<q, "new">>] = NoTable
    BY ReadyFacts, Zenon DEF VmInv, SlotsOK
  <2> QED BY <2>1, Zenon DEF VmInv, SlotsOK
<1>6. BusyOK'
  <2>1. PICK t : t = tbl[w.id]
    OBVIOUS
  <2>2. Stage(p, w, t)'
    BY <2>1, StageKept
  <2>3. t = tbl'[w.id] /\ state'[p] = "running"
    BY <2>1, ReadyFacts
  <2> QED BY <1>2, <2>2, <2>3, BusyKept DEF VmInv
<1> QED BY <1>1, <1>3, <1>4, <1>5, <1>6 DEF VmInv

LEMMA ExecStep == ASSUME VmInv, NEW p \in Slots, NEW prog \in Programs, Exec(p, prog) PROVE VmInv'
<1> DEFINE w == [NoWork EXCEPT !.op = "exec", !.id = <<p, "new">>, !.next = "root", !.segs = prog, !.nargs = MAXARG]
<1>1. Ready(p) /\ UNCHANGED <<state, sz, tf, tbl, panicked, held>> /\ work' = [work EXCEPT ![p] = w]
  BY DEF Exec, procVars
<1>2. free >= MAXARG /\ free' = free - MAXARG
  BY DEF Exec
<1>3. free' \in Nat /\ held' \in Nat
  BY <1>1, <1>2, Counters, Constants
<1>4. prog \in Seq(Segments) /\ \A i \in DOMAIN prog : prog[i].va * PGSIZE + prog[i].memsz <= LIMIT
  BY ProgramsAssumption DEF LIMIT
<1>5. w \in Works /\ w.op = "exec" /\ w.id = <<p, "new">> /\ w.next = "root" /\ w.segs = prog
      /\ w.nargs = MAXARG /\ w.todo = {} /\ w.sz = 0
  BY <1>4, NoWorkType, Constants DEF Works
<1>6. tbl[<<p, "new">>] = NoTable
  BY <1>1, ReadyFacts
<1> HIDE DEF w
<1>7. Stage(p, w, tbl[w.id])
  BY <1>4, <1>5, <1>6 DEF Stage, ExecStage
<1> QED BY <1>1, <1>3, <1>5, <1>7, Starts

LEMMA SbrkEagerStep == ASSUME VmInv, NEW p \in Slots, NEW n \in Deltas, SbrkEager(p, n) PROVE VmInv'
<1> DEFINE new == (sz[p] + n) % WORD
           todo == Span(PGROUNDUP(sz[p]), PGROUNDUP(new))
           w == [NoWork EXCEPT !.op = "sbrk", !.id = <<p, "cur">>, !.next = "grown",
                               !.from = sz[p], !.to = new, !.todo = todo]
<1>1. Ready(p) /\ UNCHANGED <<state, sz, tf, tbl, panicked, held, free>> /\ work' = [work EXCEPT ![p] = w]
  BY DEF SbrkEager, procVars
<1>2. n > 0 /\ new <= TOP
  BY DEF SbrkEager, TOP
<1>3. sz[p] \in 0..TOP /\ n \in Int /\ 2 * n <= WORD
  BY <1>1, ReadyFacts, VmAssumption, DeltasAssumption
<1>4. new = sz[p] + n
  <2> SUFFICES ASSUME NEW x \in Nat, x < WORD PROVE x % WORD = x
    BY <1>2, <1>3, Constants
  <2> QED BY Constants
<1>5. new \in Nat /\ sz[p] \in Nat /\ sz[p] <= new
  BY <1>2, <1>3, <1>4, Constants
<1> HIDE DEF new
<1>6. PGROUNDUP(sz[p]) \in Nat /\ PGROUNDUP(new) \in Nat /\ PGROUNDUP(sz[p]) <= PGROUNDUP(new)
  BY <1>5, Pagewise, Rounded
<1>7. todo \in SUBSET Pages
  BY DEF Span
<1>8. Loop(tbl[<<p, "cur">>].pages, todo, PGROUNDUP(sz[p]), PGROUNDUP(new))
  BY <1>1, <1>6, ReadyFacts, LoopStarts DEF PageTables
<1> HIDE DEF todo
<1>9. w \in Works /\ w.op = "sbrk" /\ w.id = <<p, "cur">> /\ w.next = "grown"
      /\ w.nargs = 0 /\ w.todo = todo /\ w.from = sz[p] /\ w.to = new
  BY <1>5, <1>7, NoWorkType DEF Works
<1> HIDE DEF w
<1>10. Stage(p, w, tbl[w.id])
  BY <1>2, <1>5, <1>8, <1>9 DEF Stage, SbrkStage
<1>11. free' \in Nat /\ held' \in Nat
  BY <1>1, Counters
<1> QED BY <1>1, <1>9, <1>10, <1>11, Starts

LEMMA FaultStep == ASSUME VmInv, NEW p \in Slots, NEW va \in Pages, Fault(p, va) PROVE VmInv'
<1> DEFINE w == [NoWork EXCEPT !.op = "fault", !.id = <<p, "cur">>, !.next = "done", !.todo = {va}]
<1>1. Ready(p) /\ UNCHANGED <<state, sz, tf, tbl, panicked, held, free>> /\ work' = [work EXCEPT ![p] = w]
  BY DEF Fault, procVars
<1>2. va * PGSIZE < sz[p] /\ va \notin tbl[<<p, "cur">>].pages
  BY DEF Fault, MayFault
<1>3. sz[p] \in Nat /\ va \in Nat
  <2>1. sz[p] \in 0..TOP /\ va \in Nat
    BY <1>1, ReadyFacts, PagesFinite
  <2> QED BY <2>1, Constants
<1>4. va < PGROUNDUP(sz[p])
  BY <1>2, <1>3, Pagewise
<1>5. va \in Span(0, PGROUNDUP(sz[p]))
  BY <1>3, <1>4 DEF Span
<1>6. w \in Works /\ w.op = "fault" /\ w.id = <<p, "cur">> /\ w.next = "done"
      /\ w.nargs = 0 /\ w.todo = {va}
  BY NoWorkType DEF Works
<1> HIDE DEF w
<1>7. Stage(p, w, tbl[w.id])
  BY <1>2, <1>5, <1>6 DEF Stage, FaultStage
<1>8. free' \in Nat /\ held' \in Nat
  BY <1>1, Counters
<1> QED BY <1>1, <1>6, <1>7, <1>8, Starts


LEMMA SbrkShrinkStep == ASSUME VmInv, NEW p \in Slots, NEW n \in Deltas, SbrkShrink(p, n) PROVE VmInv'
<1> DEFINE t == tbl[<<p, "cur">>]
<1>1. PICK new : new = (sz[p] + n) % WORD
  OBVIOUS
<1>2. PICK gone : gone = t.pages \intersect Span(PGROUNDUP(new), PGROUNDUP(sz[p]))
  OBVIOUS
<1>3. /\ Ready(p) /\ new < sz[p] /\ UNCHANGED <<state, tf, work, panicked, held>>
      /\ tbl' = [tbl EXCEPT ![<<p, "cur">>] = uvmunmap(t, gone)]
      /\ free' = free + Cardinality(gone) /\ sz' = [sz EXCEPT ![p] = new]
  BY <1>1, <1>2 DEF SbrkShrink, Shrinks
<1>4. sz[p] \in 0..TOP /\ n \in Int /\ t \in PageTables /\ Owned(t.pages, PGROUNDUP(sz[p]))
  BY <1>3, ReadyFacts, VmAssumption
<1>5. new \in 0..TOP /\ new \in Nat /\ sz[p] \in Nat
  <2>1. new \in Nat
    <3> SUFFICES ASSUME NEW x \in Int PROVE x % WORD \in Nat
      BY <1>1, <1>4, Constants
    <3> QED BY Constants
  <2> QED BY <2>1, <1>3, <1>4, Constants
<1>6. PICK u : u = uvmunmap(t, gone)
  OBVIOUS
<1>7. u \in PageTables /\ u.pages = t.pages \ gone
  BY <1>4, <1>6 DEF uvmunmap, PageTables
<1>8. Owned(u.pages, PGROUNDUP(new))
  <2>1. PGROUNDUP(new) \in Nat /\ PGROUNDUP(sz[p]) \in 0..TRAPFRAME
    BY <1>4, <1>5, BelowKernel, Rounded
  <2>2. Span(PGROUNDUP(new), PGROUNDUP(sz[p])) \intersect Kernel = {}
    BY <2>1, SpanUser
  <2>3. Kernel \subseteq u.pages
    BY <1>2, <1>4, <1>7, <2>2 DEF Owned
  <2>4. ASSUME NEW a \in u.pages, a \notin Kernel PROVE a \in Span(0, PGROUNDUP(new))
    <3>1. a \in Span(0, PGROUNDUP(sz[p])) /\ a \notin Span(PGROUNDUP(new), PGROUNDUP(sz[p]))
      BY <1>2, <1>4, <1>7, <2>4 DEF Owned
    <3>2. a \in Pages /\ a \in Nat /\ a < PGROUNDUP(sz[p]) /\ ~(PGROUNDUP(new) <= a)
      BY <3>1, PagesFinite DEF Span
    <3> QED BY <3>2, <2>1 DEF Span
  <2> QED BY <2>3, <2>4 DEF Owned
<1>9. free' \in Nat
  <2>1. IsFiniteSet(gone)
    BY <1>2, <1>4, PagesFinite DEF PageTables
  <2>2. Cardinality(gone) \in Nat
    BY <2>1, FS_CardinalityType
  <2> QED BY <2>2, <1>3, Counters
<1>10. /\ tbl'[<<p, "cur">>] = u /\ sz'[p] = new
       /\ \A q \in Slots : tbl'[<<q, "new">>] = tbl[<<q, "new">>]
       /\ \A q \in Slots \ {p} : tbl'[<<q, "cur">>] = tbl[<<q, "cur">>] /\ sz'[q] = sz[q]
  BY <1>3, <1>6, TableIds DEF VmInv, TypeOK
<1>11. TypeOK'
  <2>1. tbl' \in [Tables -> PageTables]
    BY <1>3, <1>6, <1>7 DEF VmInv, TypeOK
  <2>2. sz' \in [Slots -> 0..TOP]
    BY <1>3, <1>5 DEF VmInv, TypeOK
  <2>3. held' \in Nat
    BY <1>3, Counters
  <2> QED BY <2>1, <2>2, <2>3, <1>3, <1>9 DEF VmInv, TypeOK
<1>12. NoPanic' /\ IdleOK'
  BY <1>3 DEF VmInv, NoPanic, IdleOK
<1>13. BusyOK'
  BY <1>3, ReadyFacts DEF BusyOK
<1>14. SettledOK'
  BY <1>3, <1>8, <1>10, SettledKept DEF VmInv
<1>15. SlotsOK'
  <2>1. state[p] # "unused"
    BY <1>3, ReadyFacts
  <2> QED BY <2>1, <1>3, <1>10, Zenon DEF VmInv, SlotsOK
<1> QED BY <1>11, <1>12, <1>13, <1>14, <1>15 DEF VmInv

LEMMA SbrkLazyStep == ASSUME VmInv, NEW p \in Slots, NEW n \in Deltas, SbrkLazy(p, n) PROVE VmInv'
<1>1. PICK new : new = (sz[p] + n) % WORD
  OBVIOUS
<1>2. /\ Ready(p) /\ new >= sz[p] /\ new <= TOP /\ UNCHANGED <<state, tf, tbl, work, panicked, held, free>>
      /\ sz' = [sz EXCEPT ![p] = new]
  BY <1>1 DEF SbrkLazy, TOP
<1>3. sz[p] \in 0..TOP /\ n \in Int /\ tbl[<<p, "cur">>] \in PageTables
      /\ Owned(tbl[<<p, "cur">>].pages, PGROUNDUP(sz[p]))
  BY <1>2, ReadyFacts, VmAssumption
<1>4. new \in 0..TOP /\ new \in Nat /\ sz[p] \in Nat
  <2>1. new \in Nat
    <3> SUFFICES ASSUME NEW x \in Int PROVE x % WORD \in Nat
      BY <1>1, <1>3, Constants
    <3> QED BY Constants
  <2> QED BY <2>1, <1>2, <1>3, Constants
<1>5. Owned(tbl[<<p, "cur">>].pages, PGROUNDUP(new))
  <2>1. PGROUNDUP(sz[p]) <= PGROUNDUP(new) /\ PGROUNDUP(sz[p]) \in Nat /\ PGROUNDUP(new) \in Nat
    BY <1>2, <1>4, Pagewise, Rounded
  <2> QED BY <1>3, <2>1, OwnedGrows
<1>6. sz'[p] = new /\ \A q \in Slots \ {p} : sz'[q] = sz[q]
  BY <1>2 DEF VmInv, TypeOK
<1>7. TypeOK'
  <2>1. sz' \in [Slots -> 0..TOP]
    BY <1>2, <1>4 DEF VmInv, TypeOK
  <2>2. free' \in Nat /\ held' \in Nat
    BY <1>2, Counters
  <2>3. tf' \in [Slots -> BOOLEAN]
    BY <1>2, Zenon DEF VmInv, TypeOK
  <2> QED BY <2>1, <2>2, <2>3, <1>2 DEF VmInv, TypeOK
<1>8. NoPanic' /\ IdleOK'
  BY <1>2 DEF VmInv, NoPanic, IdleOK
<1>9. BusyOK'
  BY <1>2, ReadyFacts DEF BusyOK
<1>10. SettledOK'
  BY <1>2, <1>5, <1>6, SettledKept DEF VmInv
<1>11. SlotsOK'
  BY <1>2, Zenon DEF VmInv, SlotsOK
<1> QED BY <1>7, <1>8, <1>9, <1>10, <1>11 DEF VmInv

LEMMA ForkStep == ASSUME VmInv, NEW p \in Slots, NEW c \in Slots, Fork(p, c) PROVE VmInv'
<1> DEFINE w == [NoWork EXCEPT !.op = "fork", !.id = <<c, "cur">>, !.next = "root"]
<1>1. /\ Ready(p) /\ state[c] = "unused" /\ UNCHANGED <<sz, tbl, panicked, held>>
      /\ state' = [state EXCEPT ![c] = "used"]
      /\ work' = [work EXCEPT ![p] = w]
  BY DEF Fork
<1>2. free > 0 /\ free' = free - 1
  BY DEF Fork
<1>3. free' \in Nat /\ held' \in Nat
  BY <1>1, <1>2, Counters
<1>4. tf' = [tf EXCEPT ![c] = TRUE]
  BY DEF Fork
<1>5. state[p] = "running" /\ p # c
  BY <1>1, ReadyFacts
<1>6. state'[c] = "used" /\ \A q \in Slots \ {c} : state'[q] = state[q]
  BY <1>1 DEF VmInv, TypeOK
<1>7. tf'[c] /\ \A q \in Slots \ {c} : tf'[q] = tf[q]
  BY <1>4, Zenon DEF VmInv, TypeOK
<1>8. w \in Works /\ w.op = "fork" /\ w.id = <<c, "cur">> /\ w.next = "root"
      /\ w.nargs = 0 /\ w.todo = {} /\ w.sz = 0
  BY NoWorkType DEF Works
<1> HIDE DEF w
<1>9. work'[p] = w /\ \A q \in Slots \ {p} : work'[q] = work[q] /\ work[q].op = "none"
  BY <1>1, ReadyFacts DEF VmInv, TypeOK
<1>10. TypeOK'
  <2>1. tf' \in [Slots -> BOOLEAN]
    BY <1>4, Zenon DEF VmInv, TypeOK
  <2> QED BY <2>1, <1>1, <1>3, <1>8 DEF VmInv, TypeOK
<1>11. NoPanic' /\ IdleOK'
  BY <1>1, <1>8, <1>9, IdleKept DEF VmInv, NoPanic
<1>12. SettledOK'
  <2>1. \A q \in Slots : work[q].op = "none"
    BY <1>1, ReadyFacts
  <2> QED BY <1>1, <1>6, <2>1, SettledKept DEF VmInv
<1>13. SlotsOK'
  <2>1. \A q \in Slots : tbl[<<q, "new">>] = NoTable
    BY <1>1, ReadyFacts, Zenon DEF VmInv, SlotsOK
  <2>2. "used" # "unused"
    OBVIOUS
  <2> QED BY <2>1, <2>2, <1>1, <1>6, <1>7, ZenonT(30) DEF VmInv, SlotsOK
<1>14. BusyOK'
  <2>1. tbl'[w.id] = NoTable
    BY <1>1, <1>8 DEF VmInv, SlotsOK
  <2>2. Stage(p, w, NoTable)'
    BY <1>5, <1>6, <1>8 DEF Stage, ForkStage
  <2>3. state'[p] = "running"
    BY <1>5, <1>6
  <2> QED BY <1>9, <2>1, <2>2, <2>3, BusyKept DEF VmInv
<1> QED BY <1>10, <1>11, <1>12, <1>13, <1>14 DEF VmInv


-----------------------------------------------------------------------------
(* Operations go on.                                                        *)

LEMMA BusyFacts ==
  ASSUME VmInv, NEW p \in Slots, work[p].op # "none"
  PROVE  /\ \A q \in Slots \ {p} : work[q].op = "none"
         /\ state[p] = "running" /\ sz[p] \in 0..TOP
         /\ work[p] \in Works /\ work[p].id \in Tables /\ tbl[work[p].id] \in PageTables
         /\ Stage(p, work[p], tbl[work[p].id])
<1>1. Stage(p, work[p], tbl[work[p].id]) /\ state[p] = "running"
  BY DEF VmInv, BusyOK
<1>2. \A q \in Slots \ {p} : work[q].op = "none"
  BY DEF VmInv, BusyOK
<1>3. work[p].id \in Tables
  BY <1>1, StageTable
<1>4. work[p] \in Works /\ sz[p] \in 0..TOP /\ tbl[work[p].id] \in PageTables
  BY <1>3 DEF VmInv, TypeOK
<1> QED BY <1>1, <1>2, <1>3, <1>4

\* An operation with pages left to map is not over.
LEMMA BusyTodo == ASSUME VmInv, NEW p \in Slots, work[p].todo # {} PROVE work[p].op # "none"
  BY NoWorkType DEF VmInv, IdleOK

\* The table an operation writes is in use only during sbrk and a page fault.
LEMMA WritesOwn ==
  ASSUME VmInv, NEW p \in Slots, work[p].op # "none", NEW q \in Slots, <<q, "cur">> = work[p].id,
         state[q] \in {"running", "zombie"}
  PROVE  q = p /\ work[p].op \in {"sbrk", "fault"}
<1>1. PICK w, t : w = work[p] /\ t = tbl[work[p].id]
  OBVIOUS
<1>2. Stage(p, w, t)
  BY <1>1, BusyFacts
<1>3. CASE w.op = "fork" /\ ForkStage(p, w, t)
  BY <1>1, <1>3 DEF ForkStage
<1>4. CASE w.op = "exec" /\ ExecStage(p, w, t)
  BY <1>1, <1>4 DEF ExecStage
<1>5. CASE w.op \in {"sbrk", "fault"} /\ w.id = <<p, "cur">>
  BY <1>1, <1>5
<1> QED BY <1>2, <1>3, <1>4, <1>5 DEF Stage, SbrkStage, FaultStage

\* Only exec writes the second table.
LEMMA WritesNew ==
  ASSUME VmInv, NEW p \in Slots, work[p].op # "none", NEW q \in Slots, <<q, "new">> = work[p].id
  PROVE  q = p /\ work[p].op = "exec"
<1>1. PICK w, t : w = work[p] /\ t = tbl[work[p].id]
  OBVIOUS
<1>2. Stage(p, w, t)
  BY <1>1, BusyFacts
<1>3. CASE w.op = "exec" /\ ExecStage(p, w, t)
  BY <1>1, <1>3 DEF ExecStage
<1>4. CASE w.op # "exec" /\ w.id = <<w.id[1], "cur">>
  BY <1>1, <1>4
<1> QED BY <1>2, <1>3, <1>4 DEF Stage, ForkStage, SbrkStage, FaultStage

LEMMA Continues ==
  ASSUME VmInv, NEW p \in Slots, work[p].op # "none",
         NEW w \in Works, work' = [work EXCEPT ![p] = w], w.op = work[p].op, w.id = work[p].id,
         NEW t \in PageTables, tbl' = [tbl EXCEPT ![w.id] = t],
         UNCHANGED <<state, sz, tf, panicked>>, free' \in Nat, held' \in Nat,
         Stage(p, w, t), w.op = "fault" => Owned(t.pages, PGROUNDUP(sz[p]))
  PROVE  VmInv'
<1>1. w.id \in Tables
  BY BusyFacts
<1>2. tbl' \in [Tables -> PageTables] /\ tbl'[w.id] = t /\ \A y \in Tables : y # w.id => tbl'[y] = tbl[y]
  BY <1>1 DEF VmInv, TypeOK
<1>3. work'[p] = w /\ \A q \in Slots \ {p} : work'[q] = work[q] /\ work[q].op = "none"
  BY BusyFacts DEF VmInv, TypeOK
<1>4. TypeOK'
  BY <1>2 DEF VmInv, TypeOK
<1>5. NoPanic' /\ IdleOK'
  BY <1>3, IdleKept DEF VmInv, NoPanic
<1>6. BusyOK'
  <2>1. Stage(p, w, t)'
    BY StageKept
  <2>2. state'[p] = "running"
    BY BusyFacts
  <2> QED BY <1>2, <1>3, <2>1, <2>2, BusyKept DEF VmInv
<1>7. SettledOK'
  <2> SUFFICES ASSUME NEW q \in Slots, state'[q] \in {"running", "zombie"}, work'[q].op # "sbrk"
               PROVE \/ /\ state[q] \in {"running", "zombie"} /\ work[q].op # "sbrk"
                        /\ tbl'[<<q, "cur">>] = tbl[<<q, "cur">>] /\ sz'[q] = sz[q]
                     \/ Owned(tbl'[<<q, "cur">>].pages, PGROUNDUP(sz'[q]))
    BY SettledKept DEF VmInv
  <2>1. state[q] \in {"running", "zombie"} /\ sz'[q] = sz[q] /\ work[q].op # "sbrk"
    BY <1>3
  <2>2. CASE <<q, "cur">> # w.id
    BY <1>2, <2>1, <2>2, TableIds
  <2>3. CASE <<q, "cur">> = w.id
    <3>1. q = p /\ w.op \in {"sbrk", "fault"}
      BY <2>1, <2>3, WritesOwn
    <3>2. w.op = "fault"
      BY <2>1, <3>1
    <3> QED BY <1>2, <2>1, <2>3, <3>1, <3>2
  <2> QED BY <2>2, <2>3
<1>8. SlotsOK'
  <2> SUFFICES ASSUME NEW q \in Slots
               PROVE /\ state[q] = "unused" => tbl'[<<q, "cur">>] = NoTable
                     /\ work'[q].op # "exec" \/ work'[q].next = "root" => tbl'[<<q, "new">>] = NoTable
    BY Zenon DEF VmInv, SlotsOK
  <2>1. CASE work[p].id = <<q, "cur">>
    <3>1. state[q] # "unused"
      <4>1. CASE ForkStage(p, w, t)
        BY <2>1, <4>1 DEF ForkStage
      <4>2. CASE w.id = <<p, "new">> \/ w.id = <<p, "cur">>
        BY <2>1, <4>2, BusyFacts
      <4> QED BY <4>1, <4>2 DEF Stage, ExecStage, SbrkStage, FaultStage
    <3>2. tbl'[<<q, "new">>] = tbl[<<q, "new">>]
      BY <2>1, <1>2, TableIds
    <3>3. work'[q].op = work[q].op /\ (q # p => work'[q] = work[q])
      BY <1>3
    <3>4. q = p => w.op # "exec"
      BY <2>1 DEF Stage, ExecStage
    <3> QED BY <3>1, <3>2, <3>3, <3>4 DEF VmInv, SlotsOK
  <2>2. CASE work[p].id = <<q, "new">>
    <3>1. q = p /\ w.op = "exec"
      BY <2>2, WritesNew
    <3>2. w.next = "root" => t = NoTable
      BY <3>1 DEF Stage, ExecStage
    <3>3. tbl'[<<q, "cur">>] = tbl[<<q, "cur">>]
      BY <2>2, <1>2, TableIds
    <3> QED BY <1>2, <1>3, <2>2, <3>1, <3>2, <3>3 DEF VmInv, SlotsOK
  <2>3. CASE work[p].id # <<q, "cur">> /\ work[p].id # <<q, "new">>
    <3>1. tbl'[<<q, "cur">>] = tbl[<<q, "cur">>] /\ tbl'[<<q, "new">>] = tbl[<<q, "new">>]
      BY <2>3, <1>2, TableIds
    <3>2. q = p => w.op # "exec"
      BY <2>3 DEF Stage, ExecStage
    <3> QED BY <1>3, <3>1, <3>2 DEF VmInv, SlotsOK
  <2> QED BY <2>1, <2>2, <2>3
<1> QED BY <1>4, <1>5, <1>6, <1>7, <1>8 DEF VmInv


\* The bounds of the loops that uvmalloc() and uvmcopy() run.
LEMMA Bounds ==
  ASSUME NEW from \in Nat, NEW to \in Nat, from <= to, to <= TOP
  PROVE  /\ PGROUNDUP(from) \in Nat /\ PGROUNDUP(to) \in 0..TRAPFRAME
         /\ PGROUNDUP(from) <= PGROUNDUP(to)
<1>1. to \in 0..TOP
  BY Constants
<1> QED BY <1>1, BelowKernel, Pagewise, Rounded

\* A page to map is not mapped yet, and mapping it leaves the operation at its stage.
LEMMA MapsNew ==
  ASSUME NEW p \in Slots, NEW w \in Works, NEW t \in PageTables, Stage(p, w, t), sz[p] \in 0..TOP,
         NEW va \in w.todo, ~(w.todo \subseteq Kernel) => \A b \in w.todo : va <= b,
         NEW v \in Works, v = [w EXCEPT !.todo = w.todo \ {va}],
         NEW u \in PageTables, u.pages = t.pages \union {va}
  PROVE  va \notin t.pages /\ Stage(p, v, u)
<1>1. /\ v.todo = w.todo \ {va} /\ v.op = w.op /\ v.id = w.id /\ v.next = w.next /\ v.from = w.from
      /\ v.to = w.to /\ v.sz = w.sz /\ v.segs = w.segs /\ v.nargs = w.nargs
  BY DEF Works
<1>2. /\ t.pages \in SUBSET Pages /\ w.todo \in SUBSET Pages
      /\ w.from \in Nat /\ w.to \in Nat /\ w.sz \in Nat
  BY DEF PageTables, Works
<1>3. ASSUME NEW lo \in Nat, NEW hi \in 0..TRAPFRAME, Loop(t.pages, w.todo, lo, hi)
      PROVE va \notin t.pages /\ Loop(u.pages, v.todo, lo, hi)
  <2>1. ~(w.todo \subseteq Kernel)
    <3>1. Span(lo, hi) \intersect Kernel = {}
      BY SpanUser
    <3> QED BY <3>1, <1>3 DEF Loop
  <2>2. \A b \in w.todo : va <= b
    BY <2>1
  <2>3. PICK P \in SUBSET Pages : P = t.pages
    BY <1>2
  <2>4. PICK S \in SUBSET Pages : S = w.todo
    BY <1>2
  <2>5. va \notin P /\ Loop(P \union {va}, S \ {va}, lo, hi)
    <3>1. Loop(P, S, lo, hi) /\ va \in S /\ \A b \in S : va <= b
      BY <1>3, <2>2, <2>3, <2>4
    <3> QED BY <3>1, LoopStep
  <2> QED BY <1>1, <2>3, <2>4, <2>5
<1>4. ASSUME Setup(t.pages, w.todo) PROVE va \notin t.pages /\ Setup(u.pages, v.todo)
  <2>1. va \notin t.pages /\ Setup(t.pages \union {va}, w.todo \ {va})
    BY <1>4, SetupStep
  <2> QED BY <1>1, <2>1
<1>5. CASE w.op = "fork" /\ ForkStage(p, w, t)
  <2>1. PGROUNDUP(sz[p]) \in 0..TRAPFRAME /\ 0 \in Nat
    BY BelowKernel
  <2>2. CASE w.next = "copy" /\ Setup(t.pages, w.todo)
    BY <1>1, <1>4, <1>5, <2>2 DEF Stage, ForkStage
  <2>3. CASE w.next = "forked" /\ Loop(t.pages, w.todo, 0, PGROUNDUP(sz[p]))
    BY <1>1, <1>3, <1>5, <2>1, <2>3 DEF Stage, ForkStage
  <2> QED BY <1>5, <2>2, <2>3 DEF ForkStage
<1>6. CASE w.op = "exec" /\ ExecStage(p, w, t)
  <2>1. ASSUME NEW max \in Nat, max <= TOP, Allocating(w, t, max)
        PROVE va \notin t.pages /\ Allocating(v, u, max)
    <3>1. w.from <= w.to /\ w.to <= TOP
      BY <1>2, <2>1, Constants DEF Allocating
    <3>2. PGROUNDUP(w.from) \in Nat /\ PGROUNDUP(w.to) \in 0..TRAPFRAME
      BY <1>2, <3>1, Bounds
    <3> QED BY <1>1, <1>3, <2>1, <3>2 DEF Allocating
  <2>2. LIMIT \in Nat /\ LIMIT <= TOP /\ TOP \in Nat /\ TOP <= TOP
    BY BelowKernel, Constants
  <2>3. CASE w.next = "segment" /\ w.sz = 0 /\ Setup(t.pages, w.todo)
    BY <1>1, <1>4, <1>6, <2>3 DEF Stage, ExecStage
  <2>4. CASE w.next = "load" /\ w.segs # <<>> /\ Allocating(w, t, LIMIT)
    BY <1>1, <1>6, <2>1, <2>2, <2>4 DEF Stage, ExecStage
  <2>5. CASE w.next = "args" /\ Allocating(w, t, TOP)
    BY <1>1, <1>6, <2>1, <2>2, <2>5 DEF Stage, ExecStage
  <2> QED BY <1>6, <2>3, <2>4, <2>5 DEF ExecStage
<1>7. CASE w.op = "sbrk" /\ SbrkStage(p, w, t)
  <2>1. PGROUNDUP(w.from) \in Nat /\ PGROUNDUP(w.to) \in 0..TRAPFRAME
    BY <1>2, <1>7, Bounds DEF SbrkStage
  <2> QED BY <1>1, <1>3, <1>7, <2>1 DEF Stage, SbrkStage
<1>8. CASE w.op = "fault" /\ FaultStage(p, w, t)
  BY <1>1, <1>8 DEF Stage, FaultStage
<1> QED BY <1>5, <1>6, <1>7, <1>8 DEF Stage

LEMMA MapPageStep == ASSUME VmInv, NEW p \in Slots, MapPage(p) PROVE VmInv'
<1>1. work[p].todo # {}
  BY DEF MapPage
<1>2. work[p].op # "none"
  BY <1>1, BusyTodo
<1>3. PICK w \in Works : w = work[p]
  BY <1>2, BusyFacts
<1>4. PICK t \in PageTables : t = tbl[w.id]
  BY <1>2, <1>3, BusyFacts
<1>5. w.todo \in SUBSET Pages /\ w.id \in Tables /\ Stage(p, w, t) /\ sz[p] \in 0..TOP
  BY <1>2, <1>3, <1>4, BusyFacts DEF Works
<1>6. PICK va \in w.todo : va = NextPage(p) /\ (~(w.todo \subseteq Kernel) => \A b \in w.todo : va <= b)
  BY <1>1, <1>3, <1>5, NextPageIs
<1>7. PICK miss \in SUBSET NodeNames : miss = Missing(t, va)
  BY <1>5, <1>6, MissingNodes
<1>8. PICK v \in Works : v = [w EXCEPT !.todo = w.todo \ {va}]
  BY <1>5 DEF Works
<1>9. PICK u \in PageTables : u = [tab |-> t.tab \union miss, pages |-> t.pages \union {va}]
  BY <1>5 DEF PageTables
<1>10. va \notin t.pages /\ Stage(p, v, u)
  BY <1>5, <1>6, <1>8, <1>9, MapsNew
<1>11. /\ free >= FrameFor(va) + Cardinality(miss)
       /\ free' = free - FrameFor(va) - Cardinality(miss)
       /\ tbl' = [tbl EXCEPT ![w.id] = u] /\ work' = [work EXCEPT ![p] = v]
       /\ UNCHANGED <<state, sz, tf, held>>
  BY <1>3, <1>4, <1>6, <1>7, <1>8, <1>9 DEF MapPage, procVars
<1>12. panicked' = panicked
  <2>1. panicked = "" /\ panicked' = IF va \in t.pages THEN "mappages: remap" ELSE ""
    BY <1>3, <1>4, <1>6 DEF MapPage
  <2> QED BY <1>10, <2>1
<1>13. free' \in Nat /\ held' \in Nat
  <2>1. IsFiniteSet(miss)
    BY NodesFinite
  <2>2. Cardinality(miss) \in Nat /\ FrameFor(va) \in Nat
    BY <2>1, FS_CardinalityType DEF FrameFor
  <2> QED BY <1>11, <2>2, Counters
<1>14. w.op = "fault" => Owned(u.pages, PGROUNDUP(sz[p]))
  <2> SUFFICES ASSUME w.op = "fault" PROVE Owned(u.pages, PGROUNDUP(sz[p]))
    OBVIOUS
  <2>1. w.id = <<p, "cur">> /\ w.todo \subseteq Span(0, PGROUNDUP(sz[p]))
    BY <1>5 DEF Stage, FaultStage
  <2>2. Owned(t.pages, PGROUNDUP(sz[p]))
    BY <1>2, <1>3, <1>4, <2>1, BusyFacts DEF VmInv, SettledOK
  <2> QED BY <1>9, <2>1, <2>2 DEF Owned
<1>15. v.op = work[p].op /\ v.id = work[p].id /\ v.id = w.id /\ v.op = w.op
  BY <1>3, <1>8 DEF Works
<1> QED BY <1>2, <1>10, <1>11, <1>12, <1>13, <1>14, <1>15, Continues


LEMMA RootStep == ASSUME VmInv, NEW p \in Slots, CreateRoot(p), free > 0 PROVE VmInv'
<1>1. work[p].op # "none" /\ work[p].todo = {} /\ work[p].next = "root"
  BY DEF CreateRoot, In
<1>2. PICK w \in Works : w = work[p]
  BY <1>1, BusyFacts
<1>3. Stage(p, w, tbl[w.id]) /\ w.id \in Tables
  BY <1>1, <1>2, BusyFacts
<1>4. PICK next : next = IF w.op = "fork" THEN "copy" ELSE "segment"
  OBVIOUS
<1>5. PICK v : v = [w EXCEPT !.todo = Kernel, !.next = next]
  OBVIOUS
<1>6. PICK t : t = [tab |-> {Root}, pages |-> {}]
  OBVIOUS
<1>7. /\ free' = free - 1
      /\ tbl' = [tbl EXCEPT ![w.id] = t]
      /\ work' = [work EXCEPT ![p] = v]
      /\ UNCHANGED <<state, tf, sz, panicked, held>>
  <2>1. free # 0 /\ free \in Nat
    BY Counters
  <2> QED BY <1>2, <1>4, <1>5, <1>6, <2>1 DEF CreateRoot
<1>8. free' \in Nat /\ held' \in Nat
  BY <1>7, Counters
<1>9. t \in PageTables /\ t.pages = {}
  BY <1>6 DEF PageTables, NodeNames
<1>10. /\ v \in Works /\ v.todo = Kernel /\ v.next = next /\ v.op = w.op /\ v.id = w.id /\ v.from = w.from
       /\ v.to = w.to /\ v.sz = w.sz /\ v.segs = w.segs /\ v.nargs = w.nargs
  BY <1>4, <1>5, PagesFinite DEF Works
<1>11. Setup({}, Kernel)
  BY DEF Setup
<1>12. Stage(p, v, t) /\ w.op # "fault"
  <2>1. CASE w.op = "fork" /\ ForkStage(p, w, tbl[w.id])
    BY <1>4, <1>9, <1>10, <1>11, <2>1 DEF Stage, ForkStage
  <2>2. CASE w.op = "exec" /\ ExecStage(p, w, tbl[w.id])
    <3>1. w.sz = 0
      BY <1>1, <1>2, <2>2 DEF ExecStage
    <3> QED BY <1>4, <1>9, <1>10, <1>11, <2>2, <3>1 DEF Stage, ExecStage
  <2> QED BY <1>1, <1>2, <1>3, <2>1, <2>2 DEF Stage, SbrkStage, FaultStage
<1> QED BY <1>1, <1>2, <1>7, <1>8, <1>9, <1>10, <1>12, Continues

LEMMA CopyStep == ASSUME VmInv, NEW p \in Slots, CopyUser(p) PROVE VmInv'
<1>1. work[p].op # "none" /\ work[p].todo = {} /\ work[p].next = "copy"
  BY DEF CopyUser, In
<1>2. PICK w \in Works : w = work[p]
  BY <1>1, BusyFacts
<1>3. PICK t \in PageTables : t = tbl[w.id]
  BY <1>1, <1>2, BusyFacts
<1>4. Stage(p, w, t) /\ w.id \in Tables /\ sz[p] \in 0..TOP
  BY <1>1, <1>2, <1>3, BusyFacts
<1>5. PICK todo : todo = tbl[<<p, "cur">>].pages \intersect UserPages(sz[p])
  OBVIOUS
<1>6. PICK v : v = [w EXCEPT !.todo = todo, !.next = "forked"]
  OBVIOUS
<1>7. work' = [work EXCEPT ![p] = v] /\ UNCHANGED <<state, sz, tf, tbl, free, panicked, held>>
  BY <1>2, <1>5, <1>6 DEF CopyUser, procVars
<1>8. todo \in SUBSET Span(0, PGROUNDUP(sz[p])) /\ todo \in SUBSET Pages
  BY <1>5 DEF UserPages, Span
<1>9. /\ v \in Works /\ v.todo = todo /\ v.next = "forked" /\ v.op = w.op /\ v.id = w.id /\ v.from = w.from
      /\ v.to = w.to /\ v.sz = w.sz /\ v.segs = w.segs /\ v.nargs = w.nargs
  BY <1>6, <1>8 DEF Works
<1>10. w.op = "fork" /\ ForkStage(p, w, t) /\ Setup(t.pages, {})
  BY <1>1, <1>2, <1>4 DEF Stage, ForkStage, ExecStage, SbrkStage, FaultStage
<1>11. Loop(t.pages, todo, 0, PGROUNDUP(sz[p]))
  <2>1. Owned(t.pages, 0) /\ t.pages \in SUBSET Pages
    BY <1>10, SetupDone DEF PageTables
  <2>2. PGROUNDUP(sz[p]) \in Nat /\ 0 \in Nat /\ 0 <= PGROUNDUP(sz[p])
    BY <1>4, BelowKernel
  <2> QED BY <2>1, <2>2, <1>8, LoopStarts
<1>12. Stage(p, v, t)
  BY <1>9, <1>10, <1>11 DEF Stage, ForkStage
<1>13. tbl' = [tbl EXCEPT ![v.id] = t]
  BY <1>3, <1>7, <1>9 DEF VmInv, TypeOK
<1>14. free' \in Nat /\ held' \in Nat
  BY <1>7, Counters
<1> QED BY <1>1, <1>2, <1>7, <1>9, <1>10, <1>12, <1>13, <1>14, Continues

\* A new table with all its pages mapped is complete.
LEMMA SegmentOwned ==
  ASSUME NEW p \in Slots, NEW w \in Works, NEW t \in PageTables, w.next = "segment", w.todo = {}, w.op = "exec",
         Stage(p, w, t)
  PROVE  Owned(t.pages, PGROUNDUP(w.sz)) /\ w.sz \in 0..LIMIT /\ ExecStage(p, w, t)
<1>1. ExecStage(p, w, t) /\ w.sz \in Nat
  BY DEF Stage, Works
<1>2. CASE w.sz = 0 /\ Setup(t.pages, w.todo)
  BY <1>1, <1>2, SetupDone, Constants
<1>3. CASE w.sz <= LIMIT /\ Owned(t.pages, PGROUNDUP(w.sz))
  BY <1>1, <1>3, Constants
<1> QED BY <1>1, <1>2, <1>3 DEF ExecStage

LEMMA AllocStep ==
  ASSUME VmInv, NEW p \in Slots, In(p, "segment"), NEW from, NEW to, NEW end, NEW stack \in BOOLEAN,
         stack <=> work[p].segs = <<>>,
         from = IF stack THEN PGROUNDUP(work[p].sz) * PGSIZE ELSE work[p].sz,
         to = IF stack THEN from + (USERSTACK + 1) * PGSIZE
              ELSE work[p].segs[1].va * PGSIZE + work[p].segs[1].memsz,
         end = IF to < from THEN from ELSE to,
         work' = [work EXCEPT ![p] = [work[p] EXCEPT !.from = from, !.sz = from, !.to = end,
                                        !.todo = Span(PGROUNDUP(from), PGROUNDUP(to)),
                                        !.next = IF stack THEN "args" ELSE "load"]],
         UNCHANGED <<state, sz, tf, tbl, free, panicked, held>>
  PROVE  VmInv'
<1>1. work[p].op # "none" /\ work[p].todo = {} /\ work[p].next = "segment"
  BY DEF In
<1>2. PICK w \in Works : w = work[p]
  BY <1>1, BusyFacts
<1>3. PICK t \in PageTables : t = tbl[w.id]
  BY <1>1, <1>2, BusyFacts
<1>4. Stage(p, w, t) /\ w.id \in Tables
  BY <1>1, <1>2, <1>3, BusyFacts
<1>5. w.op = "exec"
  BY <1>1, <1>2, <1>4 DEF Stage, ForkStage, ExecStage, SbrkStage, FaultStage
<1>6. Owned(t.pages, PGROUNDUP(w.sz)) /\ w.sz \in 0..LIMIT /\ ExecStage(p, w, t)
  BY <1>1, <1>2, <1>4, <1>5, SegmentOwned
<1>7. w.segs \in Seq(Segments) /\ w.sz \in Nat
  BY DEF Works
<1>8. PICK max : max = IF stack THEN TOP ELSE LIMIT
  OBVIOUS
<1>9. /\ from \in Nat /\ to \in Nat /\ end \in Nat /\ from <= end /\ end <= max /\ max \in Nat /\ max <= TOP
      /\ PGROUNDUP(from) = PGROUNDUP(w.sz)
  <2>1. LIMIT <= TOP /\ LIMIT \in Nat /\ TOP \in Nat
    BY BelowKernel, Constants
  <2>2. CASE ~stack
    <3>1. w.segs # <<>> /\ from = w.sz /\ to = w.segs[1].va * PGSIZE + w.segs[1].memsz /\ max = LIMIT
      BY <1>2, <1>8, <2>2
    <3>2. 1 \in DOMAIN w.segs /\ w.segs[1] \in Segments
      BY <1>7, <3>1
    <3>3. w.segs[1].va \in Nat /\ w.segs[1].memsz \in Nat
      BY <3>2 DEF Segments
    <3>4. to \in Nat
      <4>1. w.segs[1].va * PGSIZE \in Nat
        BY <3>3, Sizes, Products
      <4> QED BY <4>1, <3>1, <3>3, SMTT(30)
    <3>5. to <= LIMIT
      BY <1>6, <3>1, <3>2 DEF ExecStage
    <3>6. from \in Nat /\ from <= LIMIT
      BY <1>6, <3>1, <2>1
    <3> QED BY <3>1, <3>4, <3>5, <3>6, <2>1
  <2>3. CASE stack
    <3> DEFINE k == PGROUNDUP(w.sz)
    <3>1. from = k * PGSIZE /\ to = from + (USERSTACK + 1) * PGSIZE /\ max = TOP
      BY <1>2, <1>8, <2>3
    <3>2. k \in 0..(TRAPFRAME - USERSTACK - 1) /\ k \in Nat
      BY <1>6, <1>7, BelowKernel, Rounded
    <3> HIDE DEF k
    <3>3. PICK m \in Nat : m = USERSTACK + 1
      BY Sizes
    <3>4. k + m <= TRAPFRAME /\ k + m \in Nat
      BY <3>2, <3>3, Sizes
    <3>5. (k + m) * PGSIZE <= TOP
      BY <3>4, Multiply, Sizes DEF TOP
    <3>6. k * PGSIZE \in Nat /\ m * PGSIZE \in Nat /\ (k + m) * PGSIZE = k * PGSIZE + m * PGSIZE
      BY <3>2, Sizes, Products
    <3>7. from \in Nat /\ to \in Nat /\ from <= to /\ to <= TOP
      BY <3>1, <3>3, <3>5, <3>6, <2>1
    <3>8. PGROUNDUP(from) = k
      BY <3>1, <3>2, <3>7, Pagewise
    <3> QED BY <3>1, <3>7, <3>8, <2>1 DEF k
  <2> QED BY <2>2, <2>3
<1>10. PICK todo : todo = Span(PGROUNDUP(from), PGROUNDUP(to))
  OBVIOUS
<1>11. PICK next : next = IF stack THEN "args" ELSE "load"
  OBVIOUS
<1>12. PICK v : v = [w EXCEPT !.from = from, !.sz = from, !.to = end, !.todo = todo, !.next = next]
  OBVIOUS
<1>13. work' = [work EXCEPT ![p] = v]
  BY <1>2, <1>10, <1>11, <1>12
<1>14. PGROUNDUP(from) \in Nat /\ PGROUNDUP(end) \in Nat /\ PGROUNDUP(from) <= PGROUNDUP(end)
       /\ PGROUNDUP(to) \in Nat /\ PGROUNDUP(to) <= PGROUNDUP(end)
  <2>1. to <= end
    BY <1>9
  <2> QED BY <1>9, <2>1, Pagewise, Rounded
<1>15. todo \in SUBSET Span(PGROUNDUP(from), PGROUNDUP(end)) /\ todo \in SUBSET Pages
  <2>1. todo \subseteq Pages
    BY <1>10 DEF Span
  <2>2. \A va \in todo : PGROUNDUP(from) <= va /\ va < PGROUNDUP(to)
    BY <1>10 DEF Span
  <2>3. \A va \in todo : va \in Pages /\ PGROUNDUP(from) <= va /\ va < PGROUNDUP(end)
    <3> SUFFICES ASSUME NEW va \in todo PROVE va \in Pages /\ PGROUNDUP(from) <= va /\ va < PGROUNDUP(end)
      BY Zenon
    <3>1. va \in Pages /\ va \in Int /\ PGROUNDUP(from) <= va /\ va < PGROUNDUP(to)
      BY <2>1, <2>2, PagesFinite
    <3> QED BY <3>1, <1>14
  <2> QED BY <2>1, <2>3, Zenon DEF Span
<1>16. /\ v \in Works /\ v.todo = todo /\ v.next = next /\ v.op = w.op /\ v.id = w.id /\ v.from = from
       /\ v.to = end /\ v.sz = from /\ v.segs = w.segs /\ v.nargs = w.nargs
  <2>1. w \in Works
    BY <1>9
  <2>2. from \in Nat /\ end \in Nat /\ todo \in SUBSET Pages /\ next \in {"args", "load"}
    BY <1>9, <1>11, <1>15
  <2>3. /\ v.todo = todo /\ v.next = next /\ v.op = w.op /\ v.id = w.id /\ v.from = from
        /\ v.to = end /\ v.sz = from /\ v.segs = w.segs /\ v.nargs = w.nargs
    BY <1>12, <2>1 DEF Works
  <2>4. v \in Works
    BY <1>12, <2>1, <2>2, ZenonT(40) DEF Works
  <2> QED BY <2>3, <2>4, Zenon
<1>17. Loop(t.pages, todo, PGROUNDUP(from), PGROUNDUP(end))
  <2>1. t.pages \in SUBSET Pages /\ Owned(t.pages, PGROUNDUP(from))
    BY <1>6, <1>9 DEF PageTables
  <2> QED BY <1>14, <1>15, <2>1, LoopStarts
<1>18. Allocating(v, t, max)
  BY <1>9, <1>16, <1>17 DEF Allocating
<1>19. Stage(p, v, t)
  <2>1. CASE stack
    BY <1>5, <1>6, <1>8, <1>11, <1>16, <1>18, <2>1 DEF Stage, ExecStage
  <2>2. CASE ~stack
    BY <1>2, <1>5, <1>6, <1>8, <1>11, <1>16, <1>18, <2>2 DEF Stage, ExecStage
  <2> QED BY <2>1, <2>2
<1>20. tbl' = [tbl EXCEPT ![v.id] = t]
  BY <1>3, <1>16 DEF VmInv, TypeOK
<1>21. free' \in Nat /\ held' \in Nat
  BY Counters
<1> QED BY <1>1, <1>2, <1>5, <1>13, <1>16, <1>19, <1>20, <1>21, Continues


LEMMA LoadStep == ASSUME VmInv, NEW p \in Slots, ExecLoad(p) PROVE VmInv'
<1>1. work[p].op # "none" /\ work[p].todo = {} /\ work[p].next = "load"
  BY DEF ExecLoad, In
<1>2. PICK w \in Works : w = work[p]
  BY <1>1, BusyFacts
<1>3. PICK t \in PageTables : t = tbl[w.id]
  BY <1>1, <1>2, BusyFacts
<1>4. Stage(p, w, t) /\ w.id \in Tables
  BY <1>1, <1>2, <1>3, BusyFacts
<1>5. w.op = "exec" /\ ExecStage(p, w, t)
  BY <1>1, <1>2, <1>4 DEF Stage, ForkStage, ExecStage, SbrkStage, FaultStage
<1>6. w.segs # <<>> /\ Allocating(w, t, LIMIT) /\ w.todo = {}
  BY <1>1, <1>2, <1>5 DEF ExecStage
<1>7. w.to <= LIMIT /\ Owned(t.pages, PGROUNDUP(w.to)) /\ w.to \in Nat /\ w.segs \in Seq(Segments)
  BY <1>6 DEF Allocating, Loop, Works
<1>8. PICK ss : ss = Tail(w.segs)
  OBVIOUS
<1>9. ss \in Seq(Segments) /\ \A i \in DOMAIN ss : i + 1 \in DOMAIN w.segs /\ ss[i] = w.segs[i + 1]
  BY <1>6, <1>7, <1>8
<1>10. \A i \in DOMAIN ss : ss[i].va * PGSIZE + ss[i].memsz <= LIMIT
  BY <1>5, <1>9 DEF ExecStage
<1>11. PICK u : u = [w EXCEPT !.sz = w.to, !.segs = ss, !.next = "segment"]
  OBVIOUS
<1>12. PICK b : b = [u EXCEPT !.next = "bad", !.segs = <<>>]
  OBVIOUS
<1>13. UNCHANGED <<state, sz, tf, tbl, free, panicked, held>>
       /\ (work' = [work EXCEPT ![p] = u] \/ work' = [work EXCEPT ![p] = b])
  BY <1>2, <1>8, <1>11, <1>12 DEF ExecLoad, procVars
<1>14. /\ u \in Works /\ u.todo = {} /\ u.next = "segment" /\ u.op = w.op /\ u.id = w.id
       /\ u.sz = w.to /\ u.segs = ss /\ u.nargs = w.nargs
  BY <1>6, <1>7, <1>9, <1>11 DEF Works
<1>15. <<>> \in Seq(Segments) /\ DOMAIN <<>> = {}
  OBVIOUS
<1>16. /\ b \in Works /\ b.todo = {} /\ b.next = "bad" /\ b.op = w.op /\ b.id = w.id
       /\ b.sz = w.to /\ b.segs = <<>> /\ b.nargs = w.nargs
  BY <1>12, <1>14, <1>15 DEF Works
<1>17. Stage(p, u, t)
  BY <1>5, <1>7, <1>10, <1>14 DEF Stage, ExecStage
<1>18. Stage(p, b, t)
  <2>1. w.to <= TOP
    BY <1>7, BelowKernel, Constants
  <2> QED BY <1>5, <1>7, <1>15, <1>16, <2>1 DEF Stage, ExecStage
<1>19. tbl' = [tbl EXCEPT ![w.id] = t] /\ free' \in Nat /\ held' \in Nat
  BY <1>3, <1>13, Counters DEF VmInv, TypeOK
<1>20. CASE work' = [work EXCEPT ![p] = u]
  BY <1>1, <1>2, <1>5, <1>13, <1>14, <1>17, <1>19, <1>20, Continues
<1>21. CASE work' = [work EXCEPT ![p] = b]
  BY <1>1, <1>2, <1>5, <1>13, <1>16, <1>18, <1>19, <1>21, Continues
<1> QED BY <1>13, <1>20, <1>21

\* The arguments do not fit: the size is that of the whole new image.
LEMMA ArgsFailStep ==
  ASSUME VmInv, NEW p \in Slots, In(p, "args"),
         work' = [work EXCEPT ![p] = [work[p] EXCEPT !.sz = work[p].to, !.next = "bad"]],
         UNCHANGED <<state, sz, tf, tbl, free, panicked, held>>
  PROVE  VmInv'
<1>1. work[p].op # "none" /\ work[p].todo = {} /\ work[p].next = "args"
  BY DEF In
<1>2. PICK w \in Works : w = work[p]
  BY <1>1, BusyFacts
<1>3. PICK t \in PageTables : t = tbl[w.id]
  BY <1>1, <1>2, BusyFacts
<1>4. Stage(p, w, t) /\ w.id \in Tables
  BY <1>1, <1>2, <1>3, BusyFacts
<1>5. w.op = "exec" /\ ExecStage(p, w, t)
  BY <1>1, <1>2, <1>4 DEF Stage, ForkStage, ExecStage, SbrkStage, FaultStage
<1>6. Allocating(w, t, TOP) /\ w.todo = {}
  BY <1>1, <1>2, <1>5 DEF ExecStage
<1>7. w.to <= TOP /\ Owned(t.pages, PGROUNDUP(w.to)) /\ w.to \in Nat
  BY <1>6 DEF Allocating, Loop, Works
<1>8. PICK v : v = [w EXCEPT !.sz = w.to, !.next = "bad"]
  OBVIOUS
<1>9. work' = [work EXCEPT ![p] = v]
  BY <1>2, <1>8
<1>10. /\ v \in Works /\ v.todo = {} /\ v.next = "bad" /\ v.op = w.op /\ v.id = w.id
       /\ v.sz = w.to /\ v.segs = w.segs /\ v.nargs = w.nargs
  BY <1>6, <1>7, <1>8 DEF Works
<1>11. Stage(p, v, t)
  BY <1>5, <1>7, <1>10 DEF Stage, ExecStage
<1>12. tbl' = [tbl EXCEPT ![w.id] = t] /\ free' \in Nat /\ held' \in Nat
  BY <1>3, Counters DEF VmInv, TypeOK
<1> QED BY <1>1, <1>2, <1>5, <1>9, <1>10, <1>11, <1>12, Continues

-----------------------------------------------------------------------------
(* Operations end.                                                          *)

LEMMA GivenType ==
  ASSUME NEW t \in PageTables, NEW size
  PROVE  Given(t, size) \in Nat
<1>1. IsFiniteSet(t.tab) /\ IsFiniteSet(t.pages \intersect UserPages(size))
  BY PagesFinite, NodesFinite DEF PageTables
<1> QED BY <1>1, FS_CardinalityType DEF Given

LEMMA ExtraType == ASSUME VmInv, NEW p \in Slots PROVE Extra(p) \in Nat
<1>1. work[p].nargs \in Nat
  BY DEF VmInv, TypeOK, Works
<1> QED BY <1>1 DEF Extra

\* An operation on the process's own memory ends.
LEMMA Ends ==
  ASSUME VmInv, NEW p \in Slots, work[p].op \notin {"none", "fork"}, work' = [work EXCEPT ![p] = NoWork],
         tbl' \in [Tables -> PageTables], tbl'[<<p, "new">>] = NoTable,
         \A y \in Tables : y # <<p, "cur">> /\ y # <<p, "new">> => tbl'[y] = tbl[y],
         sz' \in [Slots -> 0..TOP], \A q \in Slots \ {p} : sz'[q] = sz[q],
         UNCHANGED <<state, tf>>, panicked' = "", free' \in Nat, held' \in Nat,
         Owned(tbl'[<<p, "cur">>].pages, PGROUNDUP(sz'[p]))
  PROVE  VmInv'
<1>1. work'[p] = NoWork /\ \A q \in Slots \ {p} : work'[q] = work[q] /\ work[q].op = "none"
  BY BusyFacts DEF VmInv, TypeOK
<1>2. TypeOK'
  <2>1. work' \in [Slots -> Works]
    BY NoWorkType DEF VmInv, TypeOK
  <2>2. tf' \in [Slots -> BOOLEAN]
    BY Zenon DEF VmInv, TypeOK
  <2> QED BY <2>1, <2>2 DEF VmInv, TypeOK
<1>3. NoPanic' /\ IdleOK'
  BY <1>1, IdleKept DEF VmInv, NoPanic
<1>4. BusyOK'
  <2>1. \A q \in Slots : work'[q].op = "none"
    <3>1. work'[p].op = "none"
      BY <1>1, NoWorkType
    <3>2. \A q \in Slots \ {p} : work'[q].op = "none"
      BY <1>1
    <3> QED BY <3>1, <3>2, Zenon
  <2> QED BY <2>1, Zenon DEF BusyOK
<1>5. state[p] = "running"
  BY BusyFacts
<1>6. SettledOK'
  <2> SUFFICES ASSUME NEW q \in Slots, state'[q] \in {"running", "zombie"}, work'[q].op # "sbrk"
               PROVE \/ /\ state[q] \in {"running", "zombie"} /\ work[q].op # "sbrk"
                        /\ tbl'[<<q, "cur">>] = tbl[<<q, "cur">>] /\ sz'[q] = sz[q]
                     \/ Owned(tbl'[<<q, "cur">>].pages, PGROUNDUP(sz'[q]))
    BY SettledKept DEF VmInv
  <2>1. CASE q = p
    BY <2>1
  <2>2. CASE q # p
    <3>1. <<q, "cur">> \in Tables /\ <<q, "cur">> # <<p, "cur">> /\ <<q, "cur">> # <<p, "new">>
      BY <2>2, TableIds
    <3>2. tbl'[<<q, "cur">>] = tbl[<<q, "cur">>]
      BY <3>1
    <3> QED BY <1>1, <2>2, <3>2
  <2> QED BY <2>1, <2>2
<1>7. SlotsOK'
  <2> SUFFICES ASSUME NEW q \in Slots
               PROVE /\ state[q] = "unused" => tbl'[<<q, "cur">>] = NoTable
                     /\ tbl'[<<q, "new">>] = NoTable
    BY Zenon DEF VmInv, SlotsOK
  <2>1. CASE q = p
    BY <1>5, <2>1
  <2>2. CASE q # p
    <3>1. tbl'[<<q, "cur">>] = tbl[<<q, "cur">>] /\ tbl'[<<q, "new">>] = tbl[<<q, "new">>]
      BY <2>2, TableIds
    <3>2. work[q].op # "exec"
      BY <1>1, <2>2
    <3> QED BY <3>1, <3>2 DEF VmInv, SlotsOK
  <2> QED BY <2>1, <2>2
<1> QED BY <1>2, <1>3, <1>4, <1>6, <1>7 DEF VmInv


\* exec gives up between two loops: its table is complete for the size it has reached.
LEMMA BadOwned ==
  ASSUME VmInv, NEW p \in Slots, In(p, "segment") \/ In(p, "bad"),
         NEW w \in Works, w = work[p], NEW t \in PageTables, t = tbl[<<p, "new">>]
  PROVE  w.op = "exec" /\ w.id = <<p, "new">> /\ Owned(t.pages, PGROUNDUP(w.sz)) /\ w.sz \in 0..TOP
<1>1. work[p].op # "none" /\ work[p].todo = {} /\ work[p].next \in {"segment", "bad"}
  BY DEF In
<1>2. Stage(p, w, tbl[w.id]) /\ w.id \in Tables
  BY <1>1, BusyFacts
<1>3. w.op = "exec" /\ w.id = <<p, "new">>
  BY <1>1, <1>2 DEF Stage, ForkStage, ExecStage, SbrkStage, FaultStage
<1>4. Stage(p, w, t) /\ ExecStage(p, w, t)
  BY <1>2, <1>3 DEF Stage
<1>5. CASE w.next = "segment"
  <2>1. Owned(t.pages, PGROUNDUP(w.sz)) /\ w.sz \in 0..LIMIT
    BY <1>1, <1>3, <1>4, <1>5, SegmentOwned
  <2> QED BY <1>3, <2>1, BelowKernel, Constants
<1>6. CASE w.next = "bad"
  <2>1. Owned(t.pages, PGROUNDUP(w.sz)) /\ w.sz <= TOP
    BY <1>4, <1>6 DEF ExecStage
  <2>2. w.sz \in Nat
    BY DEF Works
  <2> QED BY <1>3, <2>1, <2>2, Constants
<1> QED BY <1>1, <1>5, <1>6

LEMMA BadStep == ASSUME VmInv, NEW p \in Slots, In(p, "segment") \/ In(p, "bad"), ExecBad(p) PROVE VmInv'
<1>1. work[p].op # "none"
  BY DEF In
<1>2. PICK w \in Works : w = work[p]
  BY <1>1, BusyFacts
<1>3. PICK t \in PageTables : t = tbl[<<p, "new">>]
  BY TableIds DEF VmInv, TypeOK
<1>5. w.op = "exec" /\ w.id = <<p, "new">>
  BY <1>2, <1>3, BadOwned
<1>6. Owned(t.pages, PGROUNDUP(w.sz)) /\ w.sz \in 0..TOP
  BY <1>2, <1>3, BadOwned
<1>7. LeavesLeft(t, w.sz) = {}
  BY <1>6, NoLeaves DEF Owned
<1>8. /\ free' = free + Given(t, w.sz) + Extra(p)
      /\ panicked' = IF LeavesLeft(t, w.sz) # {} THEN "freewalk: leaf" ELSE ""
      /\ tbl' = [tbl EXCEPT ![<<p, "new">>] = NoTable] /\ work' = [work EXCEPT ![p] = NoWork]
      /\ UNCHANGED <<state, sz, tf, held>>
  BY <1>2, <1>3, <1>5 DEF ExecBad, procVars
<1>9. panicked' = ""
  BY <1>7, <1>8
<1>10. Given(t, w.sz) \in Nat /\ Extra(p) \in Nat
  BY GivenType, ExtraType
<1>11. free' \in Nat /\ held' \in Nat
  <2>1. free' = free + Given(t, w.sz) + Extra(p) /\ held' = held
    BY <1>8
  <2> QED BY <2>1, <1>10, Counters
<1>12. /\ tbl' \in [Tables -> PageTables] /\ tbl'[<<p, "new">>] = NoTable
       /\ \A y \in Tables : y # <<p, "new">> => tbl'[y] = tbl[y]
  BY <1>8, NoTableType, TableIds DEF VmInv, TypeOK
<1>13. Owned(tbl'[<<p, "cur">>].pages, PGROUNDUP(sz'[p]))
  <2>1. tbl'[<<p, "cur">>] = tbl[<<p, "cur">>] /\ sz'[p] = sz[p]
    BY <1>8, <1>12, TableIds
  <2>2. Owned(tbl[<<p, "cur">>].pages, PGROUNDUP(sz[p]))
    BY <1>1, <1>2, <1>5, BusyFacts DEF VmInv, SettledOK
  <2> QED BY <2>1, <2>2
<1>14. sz' \in [Slots -> 0..TOP]
  BY <1>8 DEF VmInv, TypeOK
<1>15. work[p].op \notin {"none", "fork"}
  BY <1>2, <1>5
<1> QED BY <1>8, <1>9, <1>11, <1>12, <1>13, <1>14, <1>15, Ends

LEMMA ExecAllocStep == ASSUME VmInv, NEW p \in Slots, ExecAlloc(p) PROVE VmInv'
<1>1. PICK stack \in BOOLEAN : stack <=> work[p].segs = <<>>
  <2>1. PICK yes \in BOOLEAN : yes
    BY Zenon
  <2>2. PICK no \in BOOLEAN : ~no
    BY Zenon
  <2>3. CASE work[p].segs = <<>>
    BY <2>1, <2>3
  <2>4. CASE work[p].segs # <<>>
    BY <2>2, <2>4
  <2> QED BY <2>3, <2>4
<1>2. PICK from : from = IF stack THEN PGROUNDUP(work[p].sz) * PGSIZE ELSE work[p].sz
  OBVIOUS
<1>3. PICK to : to = IF stack THEN from + (USERSTACK + 1) * PGSIZE
                     ELSE work[p].segs[1].va * PGSIZE + work[p].segs[1].memsz
  OBVIOUS
<1>4. PICK end : end = IF to < from THEN from ELSE to
  OBVIOUS
<1>5. In(p, "segment")
  BY DEF ExecAlloc
<1>6. CASE ExecBad(p)
  BY <1>5, <1>6, BadStep
<1>7. CASE ~ExecBad(p)
  <2>1. /\ work' = [work EXCEPT ![p] = [work[p] EXCEPT !.from = from, !.sz = from, !.to = end,
                                          !.todo = Span(PGROUNDUP(from), PGROUNDUP(to)),
                                          !.next = IF stack THEN "args" ELSE "load"]]
        /\ UNCHANGED <<state, sz, tf, tbl, free, panicked, held>>
    BY <1>1, <1>2, <1>3, <1>4, <1>7 DEF ExecAlloc, procVars
  <2> QED BY <1>1, <1>2, <1>3, <1>4, <1>5, <2>1, AllocStep, ZenonT(30)
<1> QED BY <1>6, <1>7

LEMMA ExecFailStep == ASSUME VmInv, NEW p \in Slots, ExecFail(p) PROVE VmInv'
<1>1. CASE In(p, "bad") /\ ExecBad(p)
  BY <1>1, BadStep
<1>2. CASE ~(In(p, "bad") /\ ExecBad(p))
  <2>1. In(p, "args") /\ UNCHANGED <<state, sz, tf, tbl, free, panicked, held>>
        /\ work' = [work EXCEPT ![p] = [work[p] EXCEPT !.sz = work[p].to, !.next = "bad"]]
    BY <1>2 DEF ExecFail, procVars
  <2> QED BY <2>1, ArgsFailStep
<1> QED BY <1>1, <1>2

LEMMA CommitStep == ASSUME VmInv, NEW p \in Slots, ExecCommit(p) PROVE VmInv'
<1>1. work[p].op # "none" /\ work[p].todo = {} /\ work[p].next = "args"
  BY DEF ExecCommit, In
<1>2. PICK w \in Works : w = work[p]
  BY <1>1, BusyFacts
<1>3. PICK t \in PageTables : t = tbl[w.id]
  BY <1>1, <1>2, BusyFacts
<1>4. Stage(p, w, t) /\ w.id \in Tables /\ sz[p] \in 0..TOP
  BY <1>1, <1>2, <1>3, BusyFacts
<1>5. w.op = "exec" /\ ExecStage(p, w, t) /\ w.id = <<p, "new">>
  BY <1>1, <1>2, <1>4 DEF Stage, ForkStage, ExecStage, SbrkStage, FaultStage
<1>6. Allocating(w, t, TOP)
  BY <1>1, <1>2, <1>5 DEF ExecStage
<1>7. w.to <= TOP /\ Owned(t.pages, PGROUNDUP(w.to)) /\ w.to \in Nat
  BY <1>6 DEF Allocating, Loop, Works
<1>8. PICK old \in PageTables : old = tbl[<<p, "cur">>]
  BY TableIds DEF VmInv, TypeOK
<1>9. Owned(old.pages, PGROUNDUP(sz[p]))
  BY <1>1, <1>2, <1>5, <1>8, BusyFacts DEF VmInv, SettledOK
<1>10. LeavesLeft(old, sz[p]) = {}
  BY <1>4, <1>9, NoLeaves DEF Owned
<1>11. /\ free' = free + Given(old, sz[p]) + Extra(p)
       /\ panicked' = IF LeavesLeft(old, sz[p]) # {} THEN "freewalk: leaf" ELSE ""
       /\ tbl' = [tbl EXCEPT ![<<p, "cur">>] = tbl[<<p, "new">>], ![<<p, "new">>] = NoTable]
       /\ sz' = [sz EXCEPT ![p] = w.to] /\ work' = [work EXCEPT ![p] = NoWork]
       /\ UNCHANGED <<state, tf, held>>
  BY <1>2, <1>8 DEF ExecCommit
<1>12. panicked' = ""
  BY <1>10, <1>11
<1>13. Given(old, sz[p]) \in Nat /\ Extra(p) \in Nat
  BY GivenType, ExtraType
<1>14. free' \in Nat /\ held' \in Nat
  <2>1. free' = free + Given(old, sz[p]) + Extra(p) /\ held' = held
    BY <1>11
  <2> QED BY <2>1, <1>13, Counters
<1>15. <<p, "cur">> \in Tables /\ <<p, "new">> \in Tables /\ <<p, "cur">> # <<p, "new">>
  BY TableIds
<1>16. /\ tbl' \in [Tables -> PageTables] /\ tbl'[<<p, "new">>] = NoTable /\ tbl'[<<p, "cur">>] = t
       /\ \A y \in Tables : y # <<p, "new">> /\ y # <<p, "cur">> => tbl'[y] = tbl[y]
  BY <1>3, <1>5, <1>11, <1>15, NoTableType DEF VmInv, TypeOK
<1>17. sz' \in [Slots -> 0..TOP] /\ sz'[p] = w.to /\ \A q \in Slots \ {p} : sz'[q] = sz[q]
  <2>1. sz' = [sz EXCEPT ![p] = w.to] /\ sz \in [Slots -> 0..TOP]
    BY <1>11 DEF VmInv, TypeOK
  <2>2. w.to \in 0..TOP
    BY <1>7, Constants
  <2> QED BY <2>1, <2>2
<1>18. work[p].op \notin {"none", "fork"}
  BY <1>2, <1>5
<1> QED BY <1>7, <1>11, <1>12, <1>14, <1>16, <1>17, <1>18, Ends

LEMMA GrownStep == ASSUME VmInv, NEW p \in Slots, Grown(p) PROVE VmInv'
<1>1. work[p].op # "none" /\ work[p].todo = {} /\ work[p].next \in {"grown", "done"}
  BY DEF Grown, In
<1>2. PICK w \in Works : w = work[p]
  BY <1>1, BusyFacts
<1>3. PICK t \in PageTables : t = tbl[w.id]
  BY <1>1, <1>2, BusyFacts
<1>4. Stage(p, w, t) /\ w.id \in Tables /\ sz[p] \in 0..TOP /\ panicked = ""
  BY <1>1, <1>2, <1>3, BusyFacts DEF VmInv, NoPanic
<1>5. PICK new : new = IF w.next = "grown" THEN w.to ELSE sz[p]
  OBVIOUS
<1>6. sz' = [sz EXCEPT ![p] = new] /\ work' = [work EXCEPT ![p] = NoWork]
      /\ UNCHANGED <<state, tf, tbl, free, panicked, held>>
  BY <1>2, <1>5 DEF Grown
<1>7. new \in 0..TOP /\ w.id = <<p, "cur">> /\ Owned(t.pages, PGROUNDUP(new)) /\ w.op \in {"sbrk", "fault"}
  <2>1. CASE w.next = "grown"
    <3>1. w.op = "sbrk" /\ SbrkStage(p, w, t)
      BY <1>4, <2>1 DEF Stage, ForkStage, ExecStage, FaultStage
    <3>2. w.to \in Nat /\ w.to <= TOP
      BY <3>1 DEF SbrkStage, Works
    <3> QED BY <1>5, <2>1, <3>1, <3>2, Constants DEF SbrkStage, Loop
  <2>2. CASE w.next = "done"
    <3>1. w.op = "fault" /\ w.id = <<p, "cur">>
      BY <1>4, <2>2 DEF Stage, ForkStage, ExecStage, SbrkStage, FaultStage
    <3>2. Owned(t.pages, PGROUNDUP(sz[p]))
      BY <1>1, <1>2, <1>3, <3>1, BusyFacts DEF VmInv, SettledOK
    <3> QED BY <1>4, <1>5, <2>2, <3>1, <3>2
  <2> QED BY <1>1, <1>2, <2>1, <2>2
<1>8. sz' \in [Slots -> 0..TOP] /\ sz'[p] = new /\ \A q \in Slots \ {p} : sz'[q] = sz[q]
  BY <1>6, <1>7 DEF VmInv, TypeOK
<1>9. tbl' \in [Tables -> PageTables] /\ tbl'[<<p, "cur">>] = t
  BY <1>3, <1>6, <1>7 DEF VmInv, TypeOK
<1>10. tbl'[<<p, "new">>] = NoTable
  BY <1>2, <1>6, <1>7 DEF VmInv, SlotsOK
<1>11. free' \in Nat /\ held' \in Nat /\ panicked' = ""
  BY <1>4, <1>6, Counters
<1>12. work[p].op \notin {"none", "fork"}
  BY <1>2, <1>7
<1> QED BY <1>6, <1>7, <1>8, <1>9, <1>10, <1>11, <1>12, Ends


\* The child is made, or given up: its slot changes hands.
LEMMA ForkEnds ==
  ASSUME VmInv, NEW p \in Slots, work[p].op = "fork", NEW c \in Slots, c = work[p].id[1],
         work' = [work EXCEPT ![p] = NoWork], tbl' \in [Tables -> PageTables],
         \A y \in Tables : y # <<c, "cur">> => tbl'[y] = tbl[y],
         NEW s \in {"unused", "running"}, state' = [state EXCEPT ![c] = s],
         tf' \in [Slots -> BOOLEAN], \A q \in Slots \ {c} : tf'[q] = tf[q], tf'[c] <=> s = "running",
         sz' \in [Slots -> 0..TOP], \A q \in Slots \ {c} : sz'[q] = sz[q],
         panicked' = "", free' \in Nat, held' \in Nat,
         s = "running" => Owned(tbl'[<<c, "cur">>].pages, PGROUNDUP(sz'[c])),
         s = "unused" => tbl'[<<c, "cur">>] = NoTable
  PROVE  VmInv'
<1>1. work'[p] = NoWork /\ \A q \in Slots \ {p} : work'[q] = work[q] /\ work[q].op = "none"
  BY BusyFacts DEF VmInv, TypeOK
<1>2. c # p /\ state[p] = "running"
  BY BusyFacts DEF Stage, ForkStage
<1>3. state'[c] = s /\ \A q \in Slots \ {c} : state'[q] = state[q]
  BY DEF VmInv, TypeOK
<1>4. TypeOK'
  <2>1. work' \in [Slots -> Works]
    BY NoWorkType DEF VmInv, TypeOK
  <2>2. state' \in [Slots -> {"unused", "used", "running", "zombie"}]
    BY DEF VmInv, TypeOK
  <2> QED BY <2>1, <2>2 DEF TypeOK
<1>5. NoPanic' /\ IdleOK'
  BY <1>1, IdleKept DEF VmInv, NoPanic
<1>6. BusyOK'
  <2>1. \A q \in Slots : work'[q].op = "none"
    <3>1. work'[p].op = "none" /\ \A q \in Slots \ {p} : work'[q].op = "none"
      BY <1>1, NoWorkType
    <3> QED BY <3>1
  <2> QED BY <2>1 DEF BusyOK
<1>7. \A q \in Slots : <<q, "new">> \in Tables /\ <<q, "new">> # <<c, "cur">> /\ <<q, "cur">> \in Tables
                       /\ (q # c => <<q, "cur">> # <<c, "cur">>)
  BY TableIds
<1>8. \A q \in Slots : tbl'[<<q, "new">>] = tbl[<<q, "new">>] /\ (q # c => tbl'[<<q, "cur">>] = tbl[<<q, "cur">>])
  BY <1>7
<1>9. SettledOK'
  <2> SUFFICES ASSUME NEW q \in Slots, state'[q] \in {"running", "zombie"}, work'[q].op # "sbrk"
               PROVE \/ /\ state[q] \in {"running", "zombie"} /\ work[q].op # "sbrk"
                        /\ tbl'[<<q, "cur">>] = tbl[<<q, "cur">>] /\ sz'[q] = sz[q]
                     \/ Owned(tbl'[<<q, "cur">>].pages, PGROUNDUP(sz'[q]))
    BY SettledKept DEF VmInv
  <2>1. CASE q = c
    BY <1>3, <2>1
  <2>2. CASE q # c
    <3>1. work[q].op # "sbrk"
      BY <1>1
    <3> QED BY <1>3, <1>8, <2>2, <3>1
  <2> QED BY <2>1, <2>2
<1>10. SlotsOK'
  <2> SUFFICES ASSUME NEW q \in Slots
               PROVE /\ tf'[q] <=> state'[q] # "unused"
                     /\ state'[q] = "unused" => tbl'[<<q, "cur">>] = NoTable
                     /\ tbl'[<<q, "new">>] = NoTable
    BY DEF SlotsOK
  <2>1. tbl'[<<q, "new">>] = NoTable
    <3>1. work[q].op # "exec"
      BY <1>1
    <3> QED BY <1>8, <3>1 DEF VmInv, SlotsOK
  <2>2. CASE q = c
    BY <1>3, <2>1, <2>2
  <2>3. CASE q # c
    <3>1. tf'[q] = tf[q] /\ state'[q] = state[q] /\ tbl'[<<q, "cur">>] = tbl[<<q, "cur">>]
      BY <1>3, <1>8, <2>3
    <3> QED BY <2>1, <3>1, ZenonT(30) DEF VmInv, SlotsOK
  <2> QED BY <2>2, <2>3
<1> QED BY <1>4, <1>5, <1>6, <1>9, <1>10 DEF VmInv

LEMMA ForkedStep == ASSUME VmInv, NEW p \in Slots, Forked(p) PROVE VmInv'
<1>1. work[p].op # "none" /\ work[p].todo = {} /\ work[p].next = "forked"
  BY DEF Forked, In
<1>2. PICK w \in Works : w = work[p]
  BY <1>1, BusyFacts
<1>3. PICK t \in PageTables : t = tbl[w.id]
  BY <1>1, <1>2, BusyFacts
<1>4. Stage(p, w, t) /\ w.id \in Tables /\ sz[p] \in 0..TOP /\ panicked = ""
  BY <1>1, <1>2, <1>3, BusyFacts DEF VmInv, NoPanic
<1>5. w.op = "fork" /\ ForkStage(p, w, t)
  BY <1>1, <1>2, <1>4 DEF Stage, ForkStage, ExecStage, SbrkStage, FaultStage
<1>6. PICK c \in Slots : c = w.id[1] /\ w.id = <<c, "cur">> /\ state[c] = "used" /\ c # p
  BY <1>5 DEF ForkStage
<1>7. Owned(t.pages, PGROUNDUP(sz[p]))
  BY <1>1, <1>2, <1>5 DEF ForkStage, Loop
<1>8. /\ state' = [state EXCEPT ![c] = "running"] /\ sz' = [sz EXCEPT ![c] = sz[p]]
      /\ work' = [work EXCEPT ![p] = NoWork] /\ UNCHANGED <<tf, tbl, free, panicked, held>>
  BY <1>2, <1>6 DEF Forked
<1>9. sz' \in [Slots -> 0..TOP] /\ sz'[c] = sz[p] /\ \A q \in Slots \ {c} : sz'[q] = sz[q]
  BY <1>4, <1>8 DEF VmInv, TypeOK
<1>10. tf[c] /\ tf' = tf /\ tf' \in [Slots -> BOOLEAN]
  <2>1. "used" # "unused"
    OBVIOUS
  <2> QED BY <1>6, <1>8, <2>1, Zenon DEF VmInv, TypeOK, SlotsOK
<1>11. tbl' = tbl /\ tbl \in [Tables -> PageTables] /\ tbl'[<<c, "cur">>] = t
  BY <1>3, <1>6, <1>8 DEF VmInv, TypeOK
<1>12. free' \in Nat /\ held' \in Nat /\ panicked' = ""
  BY <1>4, <1>8, Counters
<1>13. PICK s \in {"unused", "running"} : s = "running"
  OBVIOUS
<1>14. c = work[p].id[1] /\ work[p].op = "fork"
  BY <1>2, <1>5, <1>6
<1>15. s # "unused" /\ state' = [state EXCEPT ![c] = s] /\ work' = [work EXCEPT ![p] = NoWork]
  BY <1>8, <1>13
<1>16. Owned(tbl'[<<c, "cur">>].pages, PGROUNDUP(sz'[c]))
  BY <1>7, <1>9, <1>11
<1>17. (tf'[c] <=> s = "running") /\ \A q \in Slots \ {c} : tf'[q] = tf[q]
  BY <1>10, <1>13, Zenon
<1>18. tbl' \in [Tables -> PageTables] /\ \A y \in Tables : y # <<c, "cur">> => tbl'[y] = tbl[y]
  BY <1>11
<1> QED BY <1>9, <1>10, <1>12, <1>14, <1>15, <1>16, <1>17, <1>18, ForkEnds


\* An operation is given up: the table being built is gone, the one in use is whole.
LEMMA Abandoned ==
  ASSUME VmInv, NEW p \in Slots, work[p].op # "none", Abandon(p), sz' = sz, panicked' = "",
         free' \in Nat, held' \in Nat, NEW u \in PageTables, tbl' = [tbl EXCEPT ![work[p].id] = u],
         work[p].op \in {"fork", "exec"} => u = NoTable,
         work[p].op \in {"sbrk", "fault"} => Owned(u.pages, PGROUNDUP(sz[p]))
  PROVE  VmInv'
<1>1. PICK w \in Works : w = work[p]
  BY BusyFacts
<1>2. Stage(p, w, tbl[w.id]) /\ w.id \in Tables
  BY <1>1, BusyFacts
<1>3. tbl' \in [Tables -> PageTables] /\ tbl'[w.id] = u /\ \A y \in Tables : y # w.id => tbl'[y] = tbl[y]
  BY <1>1, <1>2 DEF VmInv, TypeOK
<1>4. work' = [work EXCEPT ![p] = NoWork] /\ sz' \in [Slots -> 0..TOP] /\ \A q \in Slots : sz'[q] = sz[q]
  BY DEF VmInv, TypeOK, Abandon
<1>5. CASE w.op = "fork"
  <2>1. ForkStage(p, w, tbl[w.id])
    BY <1>2, <1>5 DEF Stage
  <2>2. PICK c \in Slots : c = w.id[1] /\ w.id = <<c, "cur">>
    BY <2>1 DEF ForkStage
  <2>3. state' = [state EXCEPT ![c] = "unused"] /\ tf' = [tf EXCEPT ![c] = FALSE]
    BY <1>1, <1>5, <2>2 DEF Abandon
  <2>4. PICK s \in {"unused", "running"} : s = "unused"
    OBVIOUS
  <2>5. state' = [state EXCEPT ![c] = s] /\ s # "running"
    BY <2>3, <2>4
  <2>6. tf' \in [Slots -> BOOLEAN] /\ ~tf'[c] /\ \A q \in Slots \ {c} : tf'[q] = tf[q]
    <3>1. tf \in [Slots -> BOOLEAN]
      BY Zenon DEF VmInv, TypeOK
    <3> QED BY <2>3, <3>1
  <2>7. tf'[c] <=> s = "running"
    BY <2>5, <2>6, Zenon
  <2>8. tbl'[<<c, "cur">>] = NoTable /\ \A y \in Tables : y # <<c, "cur">> => tbl'[y] = tbl[y]
    BY <1>1, <1>3, <1>5, <2>2
  <2>9. work[p].op = "fork" /\ c = work[p].id[1]
    BY <1>1, <1>5, <2>2
  <2> QED BY <1>3, <1>4, <2>5, <2>6, <2>7, <2>8, <2>9, ForkEnds
<1>6. CASE w.op # "fork"
  <2>0. \/ w.op = "exec" /\ w.id = <<p, "new">>
        \/ w.op \in {"sbrk", "fault"} /\ w.id = <<p, "cur">>
    BY <1>2, <1>6 DEF Stage, ExecStage, SbrkStage, FaultStage
  <2>1. w.id[1] = p /\ w.op \in {"exec", "sbrk", "fault"}
        /\ (w.op = "exec" => w.id = <<p, "new">>) /\ (w.op # "exec" => w.id = <<p, "cur">>)
    <3>1. <<p, "new">>[1] = p /\ <<p, "cur">>[1] = p
      OBVIOUS
    <3> QED BY <2>0, <3>1, Zenon
  <2>2. state' = [state EXCEPT ![p] = state[p]] /\ tf' = [tf EXCEPT ![p] = tf[p]]
    BY <1>1, <1>6, <2>1 DEF Abandon
  <2>3. UNCHANGED <<state, tf>>
    <3>1. state' = state
      BY <2>2 DEF VmInv, TypeOK
    <3>2. tf \in [Slots -> BOOLEAN]
      BY Zenon DEF VmInv, TypeOK
    <3>3. tf' = tf
      BY <2>2, <3>2, Zenon
    <3> QED BY <3>1, <3>3
  <2>4. <<p, "cur">> \in Tables /\ <<p, "new">> \in Tables /\ <<p, "cur">> # <<p, "new">>
    BY TableIds
  <2>5. \A y \in Tables : y # <<p, "cur">> /\ y # <<p, "new">> => tbl'[y] = tbl[y]
    BY <1>3, <2>1
  <2>6. CASE w.op = "exec"
    <3>1. tbl'[<<p, "new">>] = NoTable /\ tbl'[<<p, "cur">>] = tbl[<<p, "cur">>]
      BY <1>1, <1>3, <2>1, <2>4, <2>6
    <3>2. Owned(tbl[<<p, "cur">>].pages, PGROUNDUP(sz[p]))
      BY <1>1, <2>6, BusyFacts DEF VmInv, SettledOK
    <3>3. Owned(tbl'[<<p, "cur">>].pages, PGROUNDUP(sz'[p]))
      BY <3>1, <3>2
    <3>4. work[p].op \notin {"none", "fork"}
      BY <1>1, <2>6
    <3> QED BY <1>3, <1>4, <2>3, <2>5, <3>1, <3>3, <3>4, Ends
  <2>7. CASE w.op \in {"sbrk", "fault"}
    <3>1. tbl'[<<p, "new">>] = tbl[<<p, "new">>] /\ tbl'[<<p, "cur">>] = u
      BY <1>3, <2>1, <2>4, <2>7
    <3>2. tbl[<<p, "new">>] = NoTable
      BY <1>1, <2>7 DEF VmInv, SlotsOK
    <3>3. Owned(tbl'[<<p, "cur">>].pages, PGROUNDUP(sz'[p]))
      BY <1>1, <2>7, <3>1
    <3>4. work[p].op \notin {"none", "fork"} /\ tbl'[<<p, "new">>] = NoTable
      BY <1>1, <2>7, <3>1, <3>2
    <3> QED BY <1>3, <1>4, <2>3, <2>5, <3>3, <3>4, Ends
  <2> QED BY <2>1, <2>6, <2>7
<1> QED BY <1>5, <1>6

LEMMA NoRootStep == ASSUME VmInv, NEW p \in Slots, CreateRoot(p), free = 0 PROVE VmInv'
<1>1. work[p].op # "none" /\ work[p].todo = {} /\ work[p].next = "root"
  BY DEF CreateRoot, In
<1>2. PICK w \in Works : w = work[p]
  BY <1>1, BusyFacts
<1>3. Stage(p, w, tbl[w.id]) /\ w.id \in Tables /\ panicked = ""
  BY <1>1, <1>2, BusyFacts DEF VmInv, NoPanic
<1>4. w.op \in {"fork", "exec"} /\ tbl[w.id] = NoTable
  BY <1>1, <1>2, <1>3 DEF Stage, ForkStage, ExecStage, SbrkStage, FaultStage
<1>5. free' = free + Extra(p) /\ Abandon(p) /\ tbl' = tbl /\ UNCHANGED <<sz, panicked, held>>
  BY DEF CreateRoot
<1>6. tbl' = [tbl EXCEPT ![work[p].id] = NoTable]
  <2>1. tbl \in [Tables -> PageTables]
    BY DEF VmInv, TypeOK
  <2> QED BY <1>2, <1>3, <1>4, <1>5, <2>1
<1>7. free' \in Nat /\ held' \in Nat
  <2>1. free' = free + Extra(p) /\ held' = held
    BY <1>5
  <2> QED BY <2>1, Counters, ExtraType
<1>8. work[p].op \notin {"sbrk", "fault"} /\ panicked' = ""
  BY <1>2, <1>3, <1>4, <1>5
<1> QED BY <1>1, <1>5, <1>6, <1>7, <1>8, NoTableType, Abandoned


-----------------------------------------------------------------------------
(* Memory runs out.                                                         *)

\* walk() takes no more frames than there are.
LEMMA GotBound ==
  ASSUME VmInv, NEW t \in PageTables, NEW va \in Pages
  PROVE  Cardinality(Got(t, va)) \in Nat /\ Cardinality(Got(t, va)) <= free
<1> DEFINE M == Missing(t, va)
           Upper(n) == {m \in M : m[1] >= n[1]}
           G == Got(t, va)
<1>1. M \in SUBSET NodeNames
  BY MissingNodes
<1>2. G \subseteq M /\ \A n \in G : Cardinality(Upper(n)) <= free - FrameFor(va)
  BY Zenon DEF Got
<1> HIDE DEF M, G
<1>3. IsFiniteSet(M) /\ IsFiniteSet(G) /\ \A n \in G : IsFiniteSet(Upper(n))
  BY <1>1, <1>2, NodesFinite, FS_Subset
<1>4. Cardinality(G) \in Nat /\ free \in Nat /\ FrameFor(va) \in Nat
  BY <1>3, FS_CardinalityType, Counters DEF FrameFor
<1>5. CASE G = {}
  <2>1. Cardinality(G) = 0
    BY <1>5, FS_EmptySet
  <2> QED BY <1>4, <2>1 DEF G
<1>6. CASE G # {}
  <2>1. PICK a, b \in Pages : Path(va) = {<<2, a>>, <<1, b>>}
    BY PathNodes
  <2>2. \A m \in G : m = <<2, a>> \/ m = <<1, b>>
    BY <1>2, <2>1 DEF Missing, M
  <2>3. <<2, a>>[1] = 2 /\ <<1, b>>[1] = 1
    OBVIOUS
  <2>4. \A m \in G : m[1] \in {1, 2}
    BY <2>2, <2>3
  <2>5. PICK n \in G : \A m \in G : m[1] >= n[1]
    <3>1. CASE \E m \in G : m[1] = 1
      BY <2>4, <3>1
    <3>2. CASE \A m \in G : m[1] # 1
      BY <1>6, <2>4, <3>2
    <3> QED BY <3>1, <3>2
  <2>6. G \subseteq Upper(n)
    BY <1>2, <2>5
  <2>7. Cardinality(G) <= Cardinality(Upper(n)) /\ Cardinality(Upper(n)) \in Nat
    BY <1>3, <2>6, FS_Subset, FS_CardinalityType
  <2>8. Cardinality(Upper(n)) <= free - FrameFor(va)
    BY <1>2
  <2> HIDE DEF Upper
  <2> QED BY <1>4, <2>7, <2>8 DEF G
<1> QED BY <1>5, <1>6

\* Process p runs out of memory at page va, with t0 what it has made of table t.
Failing(p, w, t, va, t0) ==
  /\ p \in Slots /\ w \in Works /\ w = work[p] /\ t \in PageTables /\ Stage(p, w, t) /\ sz[p] \in 0..TOP
  /\ va \in w.todo /\ (~(w.todo \subseteq Kernel) => \A b \in w.todo : va <= b)
  /\ t0 \in PageTables /\ t0.pages = t.pages

\* What is left of the table when the loop that ran out of memory is undone.
LEMMA UndoneStage ==
  ASSUME NEW p, NEW w, NEW t, NEW va, NEW t0, Failing(p, w, t, va, t0), NEW t1, t1 = Undone(p, t0, va)
  PROVE  /\ t1 \in PageTables
         /\ t1.tab = t0.tab /\ t1.pages \subseteq t0.pages
         /\ w.op \in {"fork", "exec"} =>
              w.sz \in 0..TOP /\ t1.pages \subseteq Span(0, PGROUNDUP(w.sz)) \union Kernel
         /\ w.op = "sbrk" => Owned(t1.pages, PGROUNDUP(sz[p]))
         /\ w.op = "fault" => t1 = t0
<1>0. t0 \in PageTables
  BY DEF Failing
<1>2. \A S : uvmunmap(t0, S) = [tab |-> t0.tab, pages |-> t0.pages \ S]
  BY <1>0 DEF uvmunmap, PageTables
<1> USE DEF Failing
<1>1. /\ t.pages \in SUBSET Pages /\ w.todo \in SUBSET Pages
      /\ w.from \in Nat /\ w.to \in Nat /\ w.sz \in Nat
  BY DEF PageTables, Works
<1>3. \A S : uvmunmap(t0, S) \in PageTables /\ uvmunmap(t0, S).tab = t0.tab /\ uvmunmap(t0, S).pages = t.pages \ S
  BY <1>1, <1>2 DEF PageTables
<1>4. ASSUME NEW lo \in Nat, NEW hi \in 0..TRAPFRAME, Loop(t.pages, w.todo, lo, hi)
      PROVE va \notin Kernel /\ Owned(t.pages \ Span(lo, va), lo)
  <2>1. ~(w.todo \subseteq Kernel)
    <3>1. Span(lo, hi) \intersect Kernel = {}
      BY SpanUser
    <3> QED BY <3>1, <1>4 DEF Loop
  <2>2. \A b \in w.todo : va <= b
    BY <2>1
  <2>3. PICK P \in SUBSET Pages : P = t.pages
    BY <1>1
  <2>4. PICK S \in SUBSET Pages : S = w.todo
    BY <1>1
  <2>5. Loop(P, S, lo, hi) /\ va \in S /\ \A b \in S : va <= b
    BY <1>4, <2>2, <2>3, <2>4
  <2>6. va \notin Kernel
    BY <1>4, SpanUser DEF Loop
  <2>7. Owned(P \ Span(lo, va), lo)
    BY <2>5, LoopStep
  <2> QED BY <2>3, <2>6, <2>7
<1>5. ASSUME Setup(t.pages, w.todo) PROVE va \in Kernel /\ t.pages \ Kernel = {}
  BY <1>5 DEF Setup
<1>6. CASE w.op = "fork" /\ ForkStage(p, w, t)
  <2>1. w.sz = 0 /\ 0 \in 0..TOP /\ PGROUNDUP(0) = 0
    BY <1>6, Constants, Pagewise DEF ForkStage
  <2>2. CASE Setup(t.pages, w.todo)
    <3>1. Undone(p, t0, va) = uvmunmap(t0, Kernel)
      BY <1>5, <1>6, <2>2 DEF Undone
    <3> QED BY <1>3, <1>5, <1>6, <2>1, <2>2, <3>1
  <2>3. CASE Loop(t.pages, w.todo, 0, PGROUNDUP(sz[p]))
    <3>1. va \notin Kernel /\ Owned(t.pages \ Span(0, va), 0)
      BY <1>4, <2>3, BelowKernel
    <3>2. Undone(p, t0, va) = uvmunmap(t0, Span(0, va))
      BY <1>6, <3>1 DEF Undone
    <3>3. Undone(p, t0, va).pages = t.pages \ Span(0, va)
      BY <1>3, <3>2
    <3>4. Undone(p, t0, va).pages \subseteq Span(0, PGROUNDUP(w.sz)) \union Kernel
      BY <2>1, <3>1, <3>3 DEF Owned
    <3> QED BY <1>3, <1>6, <2>1, <3>2, <3>3, <3>4
  <2> QED BY <1>6, <2>2, <2>3 DEF ForkStage
<1>7. ASSUME w.op \in {"exec", "sbrk"}, w.from <= w.to, w.to <= TOP,
             Loop(t.pages, w.todo, PGROUNDUP(w.from), PGROUNDUP(w.to))
      PROVE /\ Undone(p, t0, va) = uvmunmap(t0, Span(PGROUNDUP(w.from), va))
            /\ Owned(Undone(p, t0, va).pages, PGROUNDUP(w.from))
  <2>1. PGROUNDUP(w.from) \in Nat /\ PGROUNDUP(w.to) \in 0..TRAPFRAME
    BY <1>1, <1>7, Bounds
  <2>2. va \notin Kernel /\ Owned(t.pages \ Span(PGROUNDUP(w.from), va), PGROUNDUP(w.from))
    BY <1>4, <1>7, <2>1
  <2>3. Undone(p, t0, va) = uvmunmap(t0, Span(PGROUNDUP(w.from), va))
    BY <1>7, <2>2 DEF Undone
  <2> QED BY <1>3, <2>2, <2>3
<1>8. CASE w.op = "exec" /\ ExecStage(p, w, t)
  <2>1. CASE w.sz = 0 /\ Setup(t.pages, w.todo)
    <3>1. Undone(p, t0, va) = uvmunmap(t0, Kernel)
      BY <1>5, <1>8, <2>1 DEF Undone
    <3>2. w.sz \in 0..TOP
      BY <2>1, Constants
    <3> QED BY <1>3, <1>5, <1>8, <2>1, <3>1, <3>2
  <2>2. CASE Allocating(w, t, LIMIT) \/ Allocating(w, t, TOP)
    <3>1. w.sz = w.from /\ w.from <= w.to /\ w.to <= TOP
          /\ Loop(t.pages, w.todo, PGROUNDUP(w.from), PGROUNDUP(w.to))
      BY <1>1, <2>2, BelowKernel, Constants DEF Allocating
    <3>2. w.sz \in 0..TOP
      BY <1>1, <3>1, Constants
    <3>3. Undone(p, t0, va) = uvmunmap(t0, Span(PGROUNDUP(w.from), va))
          /\ Owned(Undone(p, t0, va).pages, PGROUNDUP(w.from))
      BY <1>7, <1>8, <3>1
    <3>4. Undone(p, t0, va).pages \subseteq Span(0, PGROUNDUP(w.sz)) \union Kernel
      BY <3>1, <3>3 DEF Owned
    <3> QED BY <1>3, <1>8, <3>2, <3>3, <3>4
  <2> QED BY <1>8, <2>1, <2>2 DEF ExecStage
<1>9. CASE w.op = "sbrk" /\ SbrkStage(p, w, t)
  <2>1. w.from = sz[p] /\ w.from <= w.to /\ w.to <= TOP
        /\ Loop(t.pages, w.todo, PGROUNDUP(w.from), PGROUNDUP(w.to))
    BY <1>9 DEF SbrkStage
  <2>2. Undone(p, t0, va) = uvmunmap(t0, Span(PGROUNDUP(w.from), va))
        /\ Owned(Undone(p, t0, va).pages, PGROUNDUP(sz[p]))
    BY <1>7, <1>9, <2>1
  <2> QED BY <1>3, <1>9, <2>2
<1>10. CASE w.op = "fault"
  <2>1. Undone(p, t0, va) = t0
    BY <1>10 DEF Undone
  <2> QED BY <1>10, <2>1
<1> QED BY <1>6, <1>8, <1>9, <1>10 DEF Stage


LEMMA OutOfMemoryStep == ASSUME VmInv, NEW p \in Slots, OutOfMemory(p) PROVE VmInv'
<1>1. work[p].todo # {}
  BY DEF OutOfMemory
<1>2. work[p].op # "none"
  BY <1>1, BusyTodo
<1>3. PICK w \in Works : w = work[p]
  BY <1>2, BusyFacts
<1>4. PICK t \in PageTables : t = tbl[w.id]
  BY <1>2, <1>3, BusyFacts
<1>5. w.todo \in SUBSET Pages /\ w.id \in Tables /\ Stage(p, w, t) /\ sz[p] \in 0..TOP
  BY <1>2, <1>3, <1>4, BusyFacts DEF Works
<1>6. PICK va \in w.todo : va = NextPage(p) /\ (~(w.todo \subseteq Kernel) => \A b \in w.todo : va <= b)
  BY <1>1, <1>3, <1>5, NextPageIs
<1>7. PICK got \in SUBSET NodeNames : got = Got(t, va)
  BY <1>5, <1>6, MissingNodes
<1>8. PICK t0 \in PageTables : t0 = [t EXCEPT !.tab = t.tab \union got] /\ t0.pages = t.pages
  <2>1. [t EXCEPT !.tab = t.tab \union got] = [tab |-> t.tab \union got, pages |-> t.pages]
    BY DEF PageTables
  <2>2. [tab |-> t.tab \union got, pages |-> t.pages] \in PageTables
    BY DEF PageTables
  <2> QED BY <2>1, <2>2
<1>9. PICK t1 : t1 = Undone(p, t0, va)
  OBVIOUS
<1>10. /\ t1 \in PageTables
       /\ w.op \in {"fork", "exec"} =>
            w.sz \in 0..TOP /\ t1.pages \subseteq Span(0, PGROUNDUP(w.sz)) \union Kernel
       /\ w.op = "sbrk" => Owned(t1.pages, PGROUNDUP(sz[p]))
       /\ w.op = "fault" => t1 = t0
  <2>1. Failing(p, w, t, va, t0)
    BY <1>3, <1>5, <1>6, <1>8 DEF Failing
  <2> QED BY <1>9, <2>1, UndoneStage
<1>11. PICK u : u = IF w.op \in {"sbrk", "fault"} THEN t1 ELSE NoTable
  OBVIOUS
<1>12. PICK back : back = Cardinality((t0.pages \ t1.pages) \ Kernel)
  OBVIOUS
<1>13. /\ tbl' = [tbl EXCEPT ![w.id] = u]
       /\ free' = free - Cardinality(got) + back
                  + (IF w.op \in {"sbrk", "fault"} THEN 0 ELSE Given(t1, w.sz) + Extra(p))
       /\ panicked' = IF ~(w.op \in {"sbrk", "fault"}) /\ LeavesLeft(t1, w.sz) # {} THEN "freewalk: leaf" ELSE ""
       /\ Abandon(p) /\ UNCHANGED <<sz, held>>
  BY <1>3, <1>4, <1>6, <1>7, <1>8, <1>9, <1>11, <1>12 DEF OutOfMemory
<1>14. w.op \in {"fork", "exec", "sbrk", "fault"}
  BY <1>5 DEF Stage
<1>15. panicked' = ""
  <2>1. CASE w.op \in {"sbrk", "fault"}
    BY <1>13, <2>1
  <2>2. CASE w.op \in {"fork", "exec"}
    <3>1. LeavesLeft(t1, w.sz) = {}
      BY <1>10, <2>2, NoLeaves
    <3> QED BY <1>13, <3>1
  <2> QED BY <1>14, <2>1, <2>2
<1>16. free' \in Nat /\ held' \in Nat
  <2>1. /\ free' = free - Cardinality(got) + back
                   + (IF w.op \in {"sbrk", "fault"} THEN 0 ELSE Given(t1, w.sz) + Extra(p))
        /\ held' = held
    BY <1>13
  <2>2. IsFiniteSet((t0.pages \ t1.pages) \ Kernel)
    BY PagesFinite DEF PageTables
  <2>3. back \in Nat
    BY <1>12, <2>2, FS_CardinalityType
  <2>4. Cardinality(got) \in Nat /\ Cardinality(got) <= free
    BY <1>5, <1>6, <1>7, GotBound
  <2>5. Given(t1, w.sz) \in Nat /\ Extra(p) \in Nat
    BY <1>10, GivenType, ExtraType
  <2> QED BY <2>1, <2>3, <2>4, <2>5, Counters
<1>17. u \in PageTables
  BY <1>10, <1>11, NoTableType
<1>18. w.op = "fault" => Owned(t1.pages, PGROUNDUP(sz[p]))
  <2> SUFFICES ASSUME w.op = "fault" PROVE Owned(t1.pages, PGROUNDUP(sz[p]))
    OBVIOUS
  <2>1. w.id = <<p, "cur">> /\ t1.pages = t.pages
    BY <1>5, <1>8, <1>10 DEF Stage, FaultStage
  <2>2. Owned(t.pages, PGROUNDUP(sz[p]))
    BY <1>2, <1>3, <1>4, <2>1, BusyFacts DEF VmInv, SettledOK
  <2> QED BY <2>1, <2>2
<1>19. /\ work[p].op \in {"fork", "exec"} => u = NoTable
       /\ work[p].op \in {"sbrk", "fault"} => Owned(u.pages, PGROUNDUP(sz[p]))
  BY <1>3, <1>10, <1>11, <1>18
<1>20. tbl' = [tbl EXCEPT ![work[p].id] = u] /\ Abandon(p) /\ sz' = sz
  BY <1>3, <1>13
<1> QED BY <1>2, <1>15, <1>16, <1>17, <1>19, <1>20, Abandoned

-----------------------------------------------------------------------------
(* The invariant, and what follows from it.                                 *)

LEMMA VmNext == ASSUME VmInv, Next PROVE VmInv'
<1>1. CASE Take \/ Give
  BY <1>1, TakeStep
<1>2. ASSUME NEW p \in Slots, \E c \in Slots : Fork(p, c) PROVE VmInv'
  BY <1>2, ForkStep
<1>3. ASSUME NEW p \in Slots, \E prog \in Programs : Exec(p, prog) PROVE VmInv'
  BY <1>3, ExecStep
<1>4. ASSUME NEW p \in Slots, \E n \in Deltas : SbrkEager(p, n) \/ SbrkShrink(p, n) \/ SbrkLazy(p, n) PROVE VmInv'
  BY <1>4, SbrkEagerStep, SbrkShrinkStep, SbrkLazyStep
<1>5. ASSUME NEW p \in Slots, \E va \in Pages : Fault(p, va) PROVE VmInv'
  BY <1>5, FaultStep
<1>6. ASSUME NEW p \in Slots, CreateRoot(p) PROVE VmInv'
  <2>1. free = 0 \/ free > 0
    BY Counters
  <2> QED BY <1>6, <2>1, RootStep, NoRootStep
<1>7. ASSUME NEW p \in Slots, MapPage(p) \/ OutOfMemory(p) PROVE VmInv'
  BY <1>7, MapPageStep, OutOfMemoryStep
<1>8. ASSUME NEW p \in Slots, CopyUser(p) \/ Forked(p) \/ Grown(p) PROVE VmInv'
  BY <1>8, CopyStep, ForkedStep, GrownStep
<1>9. ASSUME NEW p \in Slots, ExecAlloc(p) \/ ExecLoad(p) \/ ExecFail(p) \/ ExecCommit(p) PROVE VmInv'
  BY <1>9, ExecAllocStep, LoadStep, ExecFailStep, CommitStep
<1>10. ASSUME NEW p \in Slots, Exit(p) \/ Reap(p) PROVE VmInv'
  BY <1>10, ExitStep, ReapStep
<1> QED BY <1>1, <1>2, <1>3, <1>4, <1>5, <1>6, <1>7, <1>8, <1>9, <1>10 DEF Next

\* The invariant holds in every reachable state: at most one process is inside an
\* operation, its page table is at the stage the code has reached, and every other
\* table is complete.
THEOREM VmInvariant == Spec => []VmInv
<1>1. ASSUME VmInv, UNCHANGED vars PROVE VmInv'
  <2>1. UNCHANGED <<state, sz, tf, tbl, work, panicked>> /\ free' = free /\ held' = held
    BY <1>1 DEF vars
  <2> QED BY <1>1, <2>1, Counters, Unchanged
<1>2. VmInv /\ [Next]_vars => VmInv'
  BY <1>1, VmNext
<1> QED BY <1>2, VmInit, PTL DEF Spec

\* kalloc.c and vm.c never panic on a page table: whatever runs out of memory, and
\* wherever, freewalk() meets no leaf and mappages() no mapped page.
THEOREM NoPanicCorrect == Spec => []NoPanic
<1>1. VmInv => NoPanic
  BY DEF VmInv
<1> QED BY <1>1, VmInvariant, PTL

\* Between operations every mapped user page lies below the size of its process, and
\* sbrk() keeps every size below the trapframe although it adds modulo the word.
THEOREM MappedBelowSizeCorrect == Spec => []MappedBelowSize
<1>1. ASSUME VmInv PROVE MappedBelowSize
  <2>1. \A p \in Slots : sz[p] \in 0..(TRAPFRAME * PGSIZE)
    BY <1>1 DEF VmInv, TypeOK, TOP
  <2>2. ASSUME NEW p \in Slots, state[p] \in {"running", "zombie"}, work[p].op = "none"
        PROVE tbl[<<p, "cur">>].pages \subseteq UserPages(sz[p]) \union Kernel /\ Kernel \subseteq tbl[<<p, "cur">>].pages
    BY <1>1, <2>2 DEF VmInv, SettledOK, Owned, UserPages
  <2> QED BY <2>1, <2>2 DEF MappedBelowSize
<1> QED BY <1>1, VmInvariant, PTL


-----------------------------------------------------------------------------
(* Counting frames.                                                         *)

\* The pairs of a family of subsets of U.
Pairs(I, U, F) == {v \in I \X U : v[2] \in F[v[1]]}

\* The frames that trapframes, page tables, user pages and arguments take.
TrapUse(f) == Cardinality({p \in Slots : f[p]})
TabUse(f) == Cardinality(Pairs(Tables, NodeNames, [x \in Tables |-> f[x].tab]))
MapUse(f) == Cardinality(Pairs(Tables, Pages, [x \in Tables |-> f[x].pages \ Kernel]))
Upto(n) == {i \in 1..MAXARG : i <= n}
ArgUse(f) == Cardinality(Pairs(Slots, 1..MAXARG, [p \in Slots |-> Upto(f[p].nargs)]))

LEMMA Counted ==
  /\ Conserved <=> free + held + TrapUse(tf) + TabUse(tbl) + MapUse(tbl) + ArgUse(work) = NFrames
  /\ Conserved' <=> free' + held' + TrapUse(tf') + TabUse(tbl') + MapUse(tbl') + ArgUse(work') = NFrames
<1>1. \A f : {u \in Tables \X NodeNames : u[2] \in f[u[1]].tab} = Pairs(Tables, NodeNames, [x \in Tables |-> f[x].tab])
  BY DEF Pairs
<1>2. \A f : {u \in Tables \X Pages : u[2] \in f[u[1]].pages \ Kernel}
               = Pairs(Tables, Pages, [x \in Tables |-> f[x].pages \ Kernel])
  BY DEF Pairs
<1>3. \A f : {u \in Slots \X (1..MAXARG) : u[2] <= f[u[1]].nargs}
               = Pairs(Slots, 1..MAXARG, [p \in Slots |-> Upto(f[p].nargs)])
  BY DEF Pairs, Upto
<1>4. /\ Cardinality(TablePages) = TabUse(tbl) /\ Cardinality(MappedPages) = MapUse(tbl)
      /\ Cardinality(Arguments) = ArgUse(work) /\ Cardinality(Trapframes) = TrapUse(tf)
  BY <1>1, <1>2, <1>3, Zenon DEF Trapframes, TablePages, MappedPages, Arguments, TrapUse, TabUse, MapUse, ArgUse
<1>5. /\ Cardinality(TablePages') = TabUse(tbl') /\ Cardinality(MappedPages') = MapUse(tbl')
      /\ Cardinality(Arguments') = ArgUse(work') /\ Cardinality(Trapframes') = TrapUse(tf')
  BY <1>1, <1>2, <1>3, Zenon DEF Trapframes, TablePages, MappedPages, Arguments, TrapUse, TabUse, MapUse, ArgUse
<1> QED BY <1>4, <1>5 DEF Conserved

\* Two families of sets that differ in one member at most.
Differ(I, U, F, G, x) ==
  /\ IsFiniteSet(I) /\ IsFiniteSet(U) /\ F \in [I -> SUBSET U] /\ G \in [I -> SUBSET U]
  /\ x \in I /\ \A y \in I : y # x => G[y] = F[y]

\* They differ in size as that member does.
LEMMA FamilyCount ==
  ASSUME NEW I, NEW U, NEW F, NEW G, NEW x, Differ(I, U, F, G, x)
  PROVE  /\ Cardinality(Pairs(I, U, F)) \in Nat /\ Cardinality(Pairs(I, U, G)) \in Nat
         /\ Cardinality(F[x]) \in Nat /\ Cardinality(G[x]) \in Nat
         /\ Cardinality(Pairs(I, U, G)) + Cardinality(F[x]) = Cardinality(Pairs(I, U, F)) + Cardinality(G[x])
<1> DEFINE A == Pairs(I, U, F)
           B == Pairs(I, U, G)
           S == F[x]
           T == G[x]
<1>0. /\ S \in SUBSET U /\ T \in SUBSET U /\ IsFiniteSet(I) /\ IsFiniteSet(U)
      /\ F \in [I -> SUBSET U] /\ G \in [I -> SUBSET U] /\ x \in I /\ \A y \in I : y # x => G[y] = F[y]
  BY DEF Differ
<1> DEFINE R == {x} \X U
           P == {x} \X S
           Q == {x} \X T
           C == A \ R
<1>1. IsFiniteSet(I \X U) /\ A \in SUBSET (I \X U) /\ B \in SUBSET (I \X U)
  BY <1>0, FS_Product DEF Pairs
<1>2. IsFiniteSet(A) /\ IsFiniteSet(B) /\ IsFiniteSet(S) /\ IsFiniteSet(T) /\ IsFiniteSet(C)
  BY <1>0, <1>1, FS_Subset
<1>3. IsFiniteSet(P) /\ Cardinality(P) = Cardinality(S) /\ IsFiniteSet(Q) /\ Cardinality(Q) = Cardinality(T)
  <2>1. IsFiniteSet({x}) /\ Cardinality({x}) = 1
    BY FS_Singleton
  <2>2. Cardinality(S) \in Nat /\ Cardinality(T) \in Nat
    BY <1>2, FS_CardinalityType
  <2>3. IsFiniteSet(P) /\ Cardinality(P) = 1 * Cardinality(S)
    BY <1>2, <2>1, FS_Product
  <2>4. IsFiniteSet(Q) /\ Cardinality(Q) = 1 * Cardinality(T)
    BY <1>2, <2>1, FS_Product
  <2> QED BY <2>2, <2>3, <2>4
<1>4. A = C \union P /\ C \intersect P = {}
  BY <1>0 DEF Pairs
<1>5. B = C \union Q /\ C \intersect Q = {}
  BY <1>0 DEF Pairs
<1> HIDE DEF A, B, C, P, Q
<1>6. Cardinality(A) = Cardinality(C) + Cardinality(P) - 0
  BY <1>2, <1>3, <1>4, FS_Union, FS_EmptySet
<1>7. Cardinality(B) = Cardinality(C) + Cardinality(Q) - 0
  BY <1>2, <1>3, <1>5, FS_Union, FS_EmptySet
<1>8. /\ Cardinality(A) \in Nat /\ Cardinality(B) \in Nat /\ Cardinality(C) \in Nat
      /\ Cardinality(S) \in Nat /\ Cardinality(T) \in Nat
  BY <1>2, FS_CardinalityType
<1> QED BY <1>3, <1>6, <1>7, <1>8 DEF A, B

LEMMA SlotsFinite == IsFiniteSet(Slots) /\ IsFiniteSet(Tables)
<1>1. IsFiniteSet(Slots)
  BY FS_Interval, Constants DEF Slots
<1>2. IsFiniteSet({"cur", "new"})
  <2>1. IsFiniteSet({"cur"} \union {"new"})
    BY FS_Singleton, FS_Union
  <2>2. {"cur"} \union {"new"} = {"cur", "new"}
    OBVIOUS
  <2> QED BY <2>1, <2>2
<1> QED BY <1>1, <1>2, FS_Product DEF Tables

\* Functions that differ in one argument at most.
Changed(S, R, f, g, x) == f \in [S -> R] /\ g \in [S -> R] /\ x \in S /\ \A y \in S : y # x => g[y] = f[y]

\* Frames of one table.
Use(t) == Cardinality(t.tab) + Cardinality(t.pages \ Kernel)

LEMMA TableCount ==
  ASSUME NEW f, NEW g, NEW x, Changed(Tables, PageTables, f, g, x)
  PROVE  /\ TabUse(f) \in Nat /\ MapUse(f) \in Nat /\ TabUse(g) \in Nat /\ MapUse(g) \in Nat
         /\ Use(f[x]) \in Nat /\ Use(g[x]) \in Nat
         /\ TabUse(g) + MapUse(g) + Use(f[x]) = TabUse(f) + MapUse(f) + Use(g[x])
<1> DEFINE A == [y \in Tables |-> f[y].tab]
           B == [y \in Tables |-> g[y].tab]
           M == [y \in Tables |-> f[y].pages \ Kernel]
           N == [y \in Tables |-> g[y].pages \ Kernel]
<1>1. f \in [Tables -> PageTables] /\ g \in [Tables -> PageTables] /\ x \in Tables
      /\ \A y \in Tables : y # x => g[y] = f[y]
  BY DEF Changed
<1>2. /\ A \in [Tables -> SUBSET NodeNames] /\ B \in [Tables -> SUBSET NodeNames]
      /\ M \in [Tables -> SUBSET Pages] /\ N \in [Tables -> SUBSET Pages]
  BY <1>1 DEF PageTables
<1>3. \A y \in Tables : y # x => A[y] = B[y] /\ M[y] = N[y]
  BY <1>1
<1>4. A[x] = f[x].tab /\ M[x] = f[x].pages \ Kernel /\ B[x] = g[x].tab /\ N[x] = g[x].pages \ Kernel
  BY <1>1
<1>5. TabUse(f) = Cardinality(Pairs(Tables, NodeNames, A)) /\ TabUse(g) = Cardinality(Pairs(Tables, NodeNames, B))
      /\ MapUse(f) = Cardinality(Pairs(Tables, Pages, M)) /\ MapUse(g) = Cardinality(Pairs(Tables, Pages, N))
  BY DEF TabUse, MapUse
<1> HIDE DEF A, B, M, N
<1>6. /\ TabUse(f) \in Nat /\ TabUse(g) \in Nat /\ Cardinality(A[x]) \in Nat /\ Cardinality(B[x]) \in Nat
      /\ TabUse(g) + Cardinality(A[x]) = TabUse(f) + Cardinality(B[x])
  <2>1. Differ(Tables, NodeNames, A, B, x)
    BY <1>1, <1>2, <1>3, SlotsFinite, NodesFinite DEF Differ
  <2>2. /\ Cardinality(Pairs(Tables, NodeNames, A)) \in Nat /\ Cardinality(Pairs(Tables, NodeNames, B)) \in Nat
        /\ Cardinality(A[x]) \in Nat /\ Cardinality(B[x]) \in Nat
        /\ Cardinality(Pairs(Tables, NodeNames, B)) + Cardinality(A[x]) = Cardinality(Pairs(Tables, NodeNames, A)) + Cardinality(B[x])
    BY <2>1, FamilyCount
  <2> QED BY <1>5, <2>2
<1>7. /\ MapUse(f) \in Nat /\ MapUse(g) \in Nat /\ Cardinality(M[x]) \in Nat /\ Cardinality(N[x]) \in Nat
      /\ MapUse(g) + Cardinality(M[x]) = MapUse(f) + Cardinality(N[x])
  <2>1. Differ(Tables, Pages, M, N, x)
    BY <1>1, <1>2, <1>3, SlotsFinite, PagesFinite DEF Differ
  <2>2. /\ Cardinality(Pairs(Tables, Pages, M)) \in Nat /\ Cardinality(Pairs(Tables, Pages, N)) \in Nat
        /\ Cardinality(M[x]) \in Nat /\ Cardinality(N[x]) \in Nat
        /\ Cardinality(Pairs(Tables, Pages, N)) + Cardinality(M[x]) = Cardinality(Pairs(Tables, Pages, M)) + Cardinality(N[x])
    BY <2>1, FamilyCount
  <2> QED BY <1>5, <2>2
<1>8. Use(f[x]) = Cardinality(A[x]) + Cardinality(M[x]) /\ Use(g[x]) = Cardinality(B[x]) + Cardinality(N[x])
  BY <1>4 DEF Use
<1> QED BY <1>6, <1>7, <1>8

LEMMA ArgsCount ==
  ASSUME NEW f, NEW g, NEW p, Changed(Slots, Works, f, g, p), f[p].nargs \in {0, MAXARG}, g[p].nargs \in {0, MAXARG}
  PROVE  ArgUse(f) \in Nat /\ ArgUse(g) \in Nat /\ ArgUse(g) + f[p].nargs = ArgUse(f) + g[p].nargs
<1> DEFINE U == 1..MAXARG
           A == [q \in Slots |-> Upto(f[q].nargs)]
           B == [q \in Slots |-> Upto(g[q].nargs)]
<1>1. p \in Slots /\ \A y \in Slots : y # p => g[y] = f[y]
  BY DEF Changed
<1>2. IsFiniteSet(U) /\ Cardinality(U) = MAXARG
  BY FS_Interval, Constants
<1>3. \A n \in {0, MAXARG} : Cardinality(Upto(n)) = n
  <2>1. Upto(0) = {} /\ Upto(MAXARG) = U
    BY Constants DEF Upto
  <2> QED BY <1>2, <2>1, FS_EmptySet
<1>4. PICK m \in {0, MAXARG}, n \in {0, MAXARG} : m = f[p].nargs /\ n = g[p].nargs
  OBVIOUS
<1>5. A \in [Slots -> SUBSET U] /\ B \in [Slots -> SUBSET U] /\ A[p] = Upto(m) /\ B[p] = Upto(n)
  BY <1>1, <1>4 DEF Upto
<1>6. \A q \in Slots : q # p => A[q] = B[q]
  BY <1>1
<1>7. ArgUse(f) = Cardinality(Pairs(Slots, U, A)) /\ ArgUse(g) = Cardinality(Pairs(Slots, U, B))
  BY DEF ArgUse
<1> HIDE DEF A, B, U
<1>8. /\ ArgUse(f) \in Nat /\ ArgUse(g) \in Nat
      /\ ArgUse(g) + Cardinality(A[p]) = ArgUse(f) + Cardinality(B[p])
  <2>1. Differ(Slots, U, A, B, p)
    BY <1>1, <1>2, <1>5, <1>6, SlotsFinite DEF Differ
  <2>2. /\ Cardinality(Pairs(Slots, U, A)) \in Nat /\ Cardinality(Pairs(Slots, U, B)) \in Nat
        /\ Cardinality(A[p]) \in Nat /\ Cardinality(B[p]) \in Nat
        /\ Cardinality(Pairs(Slots, U, B)) + Cardinality(A[p]) = Cardinality(Pairs(Slots, U, A)) + Cardinality(B[p])
    BY <2>1, FamilyCount
  <2> QED BY <1>7, <2>2
<1> QED BY <1>3, <1>4, <1>5, <1>8

LEMMA TrapCount ==
  ASSUME NEW f \in [Slots -> BOOLEAN], NEW c \in Slots
  PROVE  /\ TrapUse(f) \in Nat
         /\ ~f[c] => TrapUse([f EXCEPT ![c] = TRUE]) = TrapUse(f) + 1
         /\ f[c] => TrapUse([f EXCEPT ![c] = FALSE]) = TrapUse(f) - 1
<1> DEFINE A == {p \in Slots : f[p]}
<1>1. IsFiniteSet(A) /\ Cardinality(A) \in Nat
  BY SlotsFinite, FS_Subset, FS_CardinalityType
<1>2. ASSUME ~f[c] PROVE Cardinality({p \in Slots : [f EXCEPT ![c] = TRUE][p]}) = Cardinality(A) + 1
  <2>1. {p \in Slots : [f EXCEPT ![c] = TRUE][p]} = A \union {c}
    BY Zenon
  <2>2. c \notin A
    BY <1>2
  <2> QED BY <1>1, <2>1, <2>2, FS_AddElement
<1>3. ASSUME f[c] PROVE Cardinality({p \in Slots : [f EXCEPT ![c] = FALSE][p]}) = Cardinality(A) - 1
  <2>1. {p \in Slots : [f EXCEPT ![c] = FALSE][p]} = A \ {c}
    BY Zenon
  <2>2. c \in A
    BY <1>3
  <2> QED BY <1>1, <2>1, <2>2, FS_RemoveElement
<1> QED BY <1>1, <1>2, <1>3 DEF TrapUse

-----------------------------------------------------------------------------
(* What a step takes and gives back.                                        *)

TrapFlow(d) == TrapUse(tf') = TrapUse(tf) + d
TableFlow(d) == TabUse(tbl') \in Nat /\ MapUse(tbl') \in Nat
                /\ TabUse(tbl') + MapUse(tbl') = TabUse(tbl) + MapUse(tbl) + d
ArgFlow(d) == ArgUse(work') = ArgUse(work) + d

LEMMA Nargs ==
  ASSUME VmInv, NEW p \in Slots
  PROVE  work[p].nargs = IF work[p].op = "exec" THEN MAXARG ELSE 0
<1>1. CASE work[p].op = "none"
  BY <1>1, NoWorkType DEF VmInv, IdleOK
<1>2. CASE work[p].op # "none"
  <2>1. PICK w, t : w = work[p] /\ t = tbl[work[p].id]
    OBVIOUS
  <2>2. Stage(p, w, t)
    BY <1>2, <2>1, BusyFacts
  <2>3. w.nargs = IF w.op = "exec" THEN MAXARG ELSE 0
    BY <2>2 DEF Stage, ForkStage, ExecStage, SbrkStage, FaultStage
  <2> QED BY <2>1, <2>3
<1> QED BY <1>1, <1>2

LEMMA UseTypes == ASSUME VmInv PROVE TrapUse(tf) \in Nat /\ TabUse(tbl) \in Nat /\ MapUse(tbl) \in Nat /\ ArgUse(work) \in Nat
<1>1. PICK p \in Slots : p = 1
  BY Constants DEF Slots
<1>2. tf \in [Slots -> BOOLEAN]
  BY Zenon DEF VmInv, TypeOK
<1>3. PICK x \in Tables : x = <<p, "cur">>
  BY TableIds
<1>4. tbl \in [Tables -> PageTables] /\ tbl[x] \in PageTables /\ work \in [Slots -> Works] /\ work[p] \in Works
  BY DEF VmInv, TypeOK
<1>5. Changed(Tables, PageTables, tbl, tbl, x) /\ Changed(Slots, Works, work, work, p)
  BY <1>4 DEF Changed
<1>6. work[p].nargs \in {0, MAXARG}
  BY Nargs
<1> QED BY <1>2, <1>5, <1>6, TrapCount, TableCount, ArgsCount

LEMMA Same ==
  ASSUME VmInv
  PROVE  /\ tf' = tf => TrapFlow(0)
         /\ tbl' = tbl => TableFlow(0)
         /\ work' = work => ArgFlow(0)
<1>1. tf' = tf => TrapFlow(0)
  BY UseTypes DEF TrapFlow
<1>2. tbl' = tbl => TableFlow(0)
  BY UseTypes DEF TableFlow
<1>3. work' = work => ArgFlow(0)
  BY UseTypes DEF ArgFlow
<1> QED BY <1>1, <1>2, <1>3

LEMMA TrapTaken == ASSUME VmInv, NEW c \in Slots, tf' = [tf EXCEPT ![c] = TRUE], ~tf[c] PROVE TrapFlow(1)
<1>1. tf \in [Slots -> BOOLEAN]
  BY Zenon DEF VmInv, TypeOK
<1> QED BY <1>1, TrapCount DEF TrapFlow

LEMMA TrapFreed == ASSUME VmInv, NEW c \in Slots, tf' = [tf EXCEPT ![c] = FALSE], tf[c] PROVE TrapFlow(-1)
<1>1. tf \in [Slots -> BOOLEAN]
  BY Zenon DEF VmInv, TypeOK
<1>2. TrapUse(tf') = TrapUse(tf) - 1 /\ TrapUse(tf) \in Nat
  BY <1>1, TrapCount
<1> QED BY <1>2 DEF TrapFlow

LEMMA TableSet ==
  ASSUME VmInv, NEW x \in Tables, NEW u \in PageTables, tbl' = [tbl EXCEPT ![x] = u],
         NEW d, d = Use(u) - Use(tbl[x])
  PROVE  Use(u) \in Nat /\ Use(tbl[x]) \in Nat /\ TableFlow(d)
<1>1. Changed(Tables, PageTables, tbl, tbl', x) /\ tbl'[x] = u
  <2>1. tbl \in [Tables -> PageTables]
    BY DEF VmInv, TypeOK
  <2>2. tbl' \in [Tables -> PageTables] /\ tbl'[x] = u /\ \A y \in Tables : y # x => tbl'[y] = tbl[y]
    BY <2>1
  <2> QED BY <2>1, <2>2 DEF Changed
<1>2. /\ TabUse(tbl) \in Nat /\ MapUse(tbl) \in Nat /\ TabUse(tbl') \in Nat /\ MapUse(tbl') \in Nat
      /\ Use(tbl[x]) \in Nat /\ Use(tbl'[x]) \in Nat
      /\ TabUse(tbl') + MapUse(tbl') + Use(tbl[x]) = TabUse(tbl) + MapUse(tbl) + Use(tbl'[x])
  <2>1. PICK f, g : f = tbl /\ g = tbl'
    OBVIOUS
  <2>2. Changed(Tables, PageTables, f, g, x)
    BY <1>1, <2>1
  <2>3. /\ TabUse(f) \in Nat /\ MapUse(f) \in Nat /\ TabUse(g) \in Nat /\ MapUse(g) \in Nat
        /\ Use(f[x]) \in Nat /\ Use(g[x]) \in Nat
        /\ TabUse(g) + MapUse(g) + Use(f[x]) = TabUse(f) + MapUse(f) + Use(g[x])
    BY <2>2, TableCount
  <2> QED BY <2>1, <2>3
<1>3. Use(u) \in Nat /\ TabUse(tbl') + MapUse(tbl') + Use(tbl[x]) = TabUse(tbl) + MapUse(tbl) + Use(u)
  BY <1>1, <1>2
<1>4. TabUse(tbl') + MapUse(tbl') = TabUse(tbl) + MapUse(tbl) + d
  BY <1>2, <1>3
<1> QED BY <1>2, <1>3, <1>4 DEF TableFlow

LEMMA ArgSet ==
  ASSUME VmInv, VmInv', NEW p \in Slots, NEW v, work' = [work EXCEPT ![p] = v], v.nargs \in {0, MAXARG},
         NEW d, d = v.nargs - work[p].nargs
  PROVE  ArgFlow(d)
<1>1. work \in [Slots -> Works] /\ work' \in [Slots -> Works] /\ work[p].nargs \in {0, MAXARG}
  BY Nargs DEF VmInv, TypeOK
<1>2. work'[p] = v /\ Changed(Slots, Works, work, work', p)
  BY <1>1 DEF Changed
<1>3. work'[p].nargs = v.nargs /\ v.nargs \in Nat /\ work[p].nargs \in Nat
  BY <1>1, <1>2, Constants
<1>4. /\ ArgUse(work) \in Nat /\ ArgUse(work') \in Nat
      /\ ArgUse(work') + work[p].nargs = ArgUse(work) + work'[p].nargs
  BY <1>1, <1>2, <1>3, ArgsCount, ZenonT(30)
<1>5. ArgUse(work') = ArgUse(work) + d
  BY <1>3, <1>4
<1> QED BY <1>5 DEF ArgFlow

\* The process goes on with what it holds.
LEMMA ArgKept ==
  ASSUME VmInv, VmInv', NEW p \in Slots, NEW v, work' = [work EXCEPT ![p] = v], v.nargs = work[p].nargs
  PROVE  ArgFlow(0)
<1>1. work[p].nargs \in {0, MAXARG} /\ v.nargs \in {0, MAXARG}
  BY Nargs
<1>2. PICK d : d = v.nargs - work[p].nargs
  OBVIOUS
<1>3. d = 0
  BY <1>1, <1>2, Constants
<1>4. ArgFlow(d)
  BY <1>1, <1>2, ArgSet
<1> QED BY <1>3, <1>4

\* Nothing is lost when the free list and the holders change by the same frames.
LEMMA Balance ==
  ASSUME VmInv, Conserved, NEW a \in Int, NEW b \in Int, NEW c \in Int, TrapFlow(a), TableFlow(b), ArgFlow(c),
         NEW m \in Int, NEW n \in Int, free' = m, held' = n, m + n = free + held - a - b - c
  PROVE  Conserved'
<1>1. TrapUse(tf) \in Nat /\ TabUse(tbl) \in Nat /\ MapUse(tbl) \in Nat /\ ArgUse(work) \in Nat
  BY UseTypes
<1>2. free + held + TrapUse(tf) + TabUse(tbl) + MapUse(tbl) + ArgUse(work) = NFrames
  BY Counted
<1>3. /\ TrapUse(tf') = TrapUse(tf) + a /\ ArgUse(work') = ArgUse(work) + c
      /\ TabUse(tbl') \in Nat /\ MapUse(tbl') \in Nat
      /\ TabUse(tbl') + MapUse(tbl') = TabUse(tbl) + MapUse(tbl) + b
  BY DEF TrapFlow, TableFlow, ArgFlow
<1>4. free' + held' + TrapUse(tf') + TabUse(tbl') + MapUse(tbl') + ArgUse(work') = NFrames
  BY <1>1, <1>2, <1>3, Counters, Constants
<1> QED BY <1>4, Counted

-----------------------------------------------------------------------------
(* Every action conserves the frames.                                       *)

\* A step that leaves every page table and the free list alone.
LEMMA NothingMoves ==
  ASSUME VmInv, Conserved, TrapFlow(0), TableFlow(0), ArgFlow(0), free' = free, held' = held
  PROVE  Conserved'
<1>1. free \in Int /\ held \in Int /\ 0 \in Int /\ free + held = free + held - 0 - 0 - 0
  BY Counters
<1> QED BY <1>1, Balance

LEMMA TakeConserves == ASSUME VmInv, Conserved, Take \/ Give PROVE Conserved'
<1>1. UNCHANGED <<tf, tbl, work>>
  BY DEF Take, Give, procVars
<1>2. TrapFlow(0) /\ TableFlow(0) /\ ArgFlow(0)
  BY <1>1, Same
<1>3. PICK m \in Int, n \in Int : free' = m /\ held' = n /\ m + n = free + held - 0 - 0 - 0
  <2>1. CASE free' = free - 1 /\ held' = held + 1
    BY <2>1, Counters
  <2>2. CASE free' = free + 1 /\ held' = held - 1
    BY <2>2, Counters
  <2> QED BY <2>1, <2>2 DEF Take, Give
<1>4. 0 \in Int
  OBVIOUS
<1> QED BY <1>2, <1>3, <1>4, Balance

LEMMA QuietConserves ==
  ASSUME VmInv, VmInv', Conserved, NEW p \in Slots,
         \/ \E n \in Deltas : SbrkLazy(p, n)
         \/ Exit(p)
  PROVE  Conserved'
<1>1. UNCHANGED <<tf, tbl, work, free, held>>
  BY DEF SbrkLazy, Exit
<1> QED BY <1>1, Same, NothingMoves

\* A step of an operation that takes and gives back nothing.
LEMMA GoesOn ==
  ASSUME VmInv, VmInv', Conserved, NEW p \in Slots, NEW v, work' = [work EXCEPT ![p] = v], v.nargs = work[p].nargs,
         UNCHANGED <<tf, tbl, free, held>>
  PROVE  Conserved'
  BY ArgKept, Same, NothingMoves

LEMMA StartConserves ==
  ASSUME VmInv, VmInv', Conserved, NEW p \in Slots,
         (\E n \in Deltas : SbrkEager(p, n)) \/ (\E va \in Pages : Fault(p, va))
  PROVE  Conserved'
<1>1. Ready(p)
  BY DEF SbrkEager, Fault
<1>2. work[p].nargs = 0
  BY <1>1, ReadyFacts, NoWorkType
<1>3. ASSUME NEW n \in Deltas, SbrkEager(p, n) PROVE Conserved'
  <2>1. PICK v : v = [NoWork EXCEPT !.op = "sbrk", !.id = <<p, "cur">>, !.next = "grown",
                        !.from = sz[p], !.to = (sz[p] + n) % WORD,
                        !.todo = Span(PGROUNDUP(sz[p]), PGROUNDUP((sz[p] + n) % WORD))]
    OBVIOUS
  <2>2. v.nargs = 0
    BY <2>1 DEF NoWork
  <2>3. work' = [work EXCEPT ![p] = v] /\ UNCHANGED <<tf, tbl, free, held>>
    BY <1>3, <2>1 DEF SbrkEager, procVars
  <2> QED BY <1>2, <2>2, <2>3, GoesOn
<1>4. ASSUME NEW va \in Pages, Fault(p, va) PROVE Conserved'
  <2>1. PICK v : v = [NoWork EXCEPT !.op = "fault", !.id = <<p, "cur">>, !.next = "done", !.todo = {va}]
    OBVIOUS
  <2>2. v.nargs = 0
    BY <2>1 DEF NoWork
  <2>3. work' = [work EXCEPT ![p] = v] /\ UNCHANGED <<tf, tbl, free, held>>
    BY <1>4, <2>1 DEF Fault, procVars
  <2> QED BY <1>2, <2>2, <2>3, GoesOn
<1> QED BY <1>3, <1>4

LEMMA ForkConserves ==
  ASSUME VmInv, VmInv', Conserved, NEW p \in Slots, NEW c \in Slots, Fork(p, c) PROVE Conserved'
<1>1. Ready(p) /\ state[c] = "unused" /\ UNCHANGED <<tbl, held>>
  BY DEF Fork
<1>2. tf' = [tf EXCEPT ![c] = TRUE]
  BY DEF Fork
<1>3. free' = free - 1
  BY DEF Fork
<1>4. PICK v : v = [NoWork EXCEPT !.op = "fork", !.id = <<c, "cur">>, !.next = "root"]
  OBVIOUS
<1>5. work' = [work EXCEPT ![p] = v] /\ v.nargs = 0
  BY <1>4 DEF Fork, NoWork
<1>6. work[p].nargs = 0
  BY <1>1, ReadyFacts, NoWorkType
<1>7. ~tf[c]
  BY <1>1, Zenon DEF VmInv, SlotsOK
<1>8. TrapFlow(1)
  BY <1>2, <1>7, TrapTaken
<1>9. TableFlow(0) /\ ArgFlow(0)
  BY <1>1, <1>5, <1>6, ArgKept, Same
<1>10. PICK m \in Int, n \in Int : free' = m /\ held' = n /\ m + n = free + held - 1 - 0 - 0
  BY <1>1, <1>3, Counters
<1>11. 0 \in Int /\ 1 \in Int
  OBVIOUS
<1> QED BY <1>8, <1>9, <1>10, <1>11, Balance

LEMMA ExecConserves ==
  ASSUME VmInv, VmInv', Conserved, NEW p \in Slots, NEW prog \in Programs, Exec(p, prog) PROVE Conserved'
<1>1. Ready(p) /\ UNCHANGED <<tf, tbl, held>> /\ free' = free - MAXARG
  BY DEF Exec, procVars
<1>2. PICK v : v = [NoWork EXCEPT !.op = "exec", !.id = <<p, "new">>, !.next = "root",
                      !.segs = prog, !.nargs = MAXARG]
  OBVIOUS
<1>3. work' = [work EXCEPT ![p] = v] /\ v.nargs = MAXARG
  BY <1>2 DEF Exec, NoWork
<1>4. work[p].nargs = 0 /\ MAXARG \in Int
  <2>1. work[p].nargs = 0
    BY <1>1, ReadyFacts, NoWorkType
  <2> QED BY <2>1, Constants
<1>5. PICK d \in Int : d = v.nargs - work[p].nargs /\ d = MAXARG
  BY <1>3, <1>4
<1>6. ArgFlow(d)
  BY <1>3, <1>5, ArgSet
<1>7. TableFlow(0) /\ TrapFlow(0)
  BY <1>1, Same
<1>8. PICK m \in Int, n \in Int : free' = m /\ held' = n /\ m + n = free + held - 0 - 0 - d
  BY <1>1, <1>4, <1>5, Counters
<1>9. 0 \in Int
  OBVIOUS
<1> QED BY <1>6, <1>7, <1>8, <1>9, Balance

LEMMA CopyConserves == ASSUME VmInv, VmInv', Conserved, NEW p \in Slots, CopyUser(p) PROVE Conserved'
<1>1. PICK v : v = [work[p] EXCEPT !.todo = tbl[<<p, "cur">>].pages \intersect UserPages(sz[p]), !.next = "forked"]
  OBVIOUS
<1>2. work' = [work EXCEPT ![p] = v] /\ UNCHANGED <<tf, tbl, free, held>>
  BY <1>1 DEF CopyUser, procVars
<1>3. v.nargs = work[p].nargs
  <2>1. PICK w \in Works : w = work[p]
    BY DEF VmInv, TypeOK
  <2> QED BY <1>1, <2>1 DEF Works
<1> QED BY <1>2, <1>3, GoesOn

LEMMA LoadConserves == ASSUME VmInv, VmInv', Conserved, NEW p \in Slots, ExecLoad(p) PROVE Conserved'
<1>1. PICK w \in Works : w = work[p]
  BY DEF VmInv, TypeOK
<1>2. PICK a : a = [w EXCEPT !.sz = w.to, !.segs = Tail(w.segs), !.next = "segment"]
  OBVIOUS
<1>3. PICK b : b = [a EXCEPT !.next = "bad", !.segs = <<>>]
  OBVIOUS
<1>4. PICK v : v = IF w.segs[1].ok THEN a ELSE b
  OBVIOUS
<1>5. work' = [work EXCEPT ![p] = v] /\ UNCHANGED <<tf, tbl, free, held>>
  BY <1>1, <1>2, <1>3, <1>4 DEF ExecLoad, procVars
<1>6. a.nargs = w.nargs /\ b.nargs = w.nargs
  BY <1>2, <1>3 DEF Works
<1>7. v.nargs = work[p].nargs
  BY <1>1, <1>4, <1>6
<1> QED BY <1>5, <1>7, GoesOn

\* fork, sbrk and a page fault hold no frames of their own when they end.
LEMMA EndConserves == ASSUME VmInv, VmInv', Conserved, NEW p \in Slots, Forked(p) \/ Grown(p) PROVE Conserved'
<1>1. work' = [work EXCEPT ![p] = NoWork] /\ UNCHANGED <<tf, tbl, free, held>>
  BY DEF Forked, Grown
<1>2. work[p].op # "none" /\ work[p].next \in {"forked", "grown", "done"}
  BY DEF Forked, Grown, In
<1>3. PICK w, t : w = work[p] /\ t = tbl[work[p].id]
  OBVIOUS
<1>4. Stage(p, w, t)
  BY <1>2, <1>3, BusyFacts
<1>5. w.nargs = 0
  BY <1>2, <1>3, <1>4 DEF Stage, ForkStage, ExecStage, SbrkStage, FaultStage
<1>6. NoWork.nargs = work[p].nargs
  BY <1>3, <1>5, NoWorkType
<1> QED BY <1>1, <1>6, GoesOn

\* What freeing a table gives back is what it uses, when no leaf is left.
LEMMA GivenUse ==
  ASSUME NEW t \in PageTables, NEW size \in 0..TOP, t.pages \subseteq Span(0, PGROUNDUP(size)) \union Kernel
  PROVE  Given(t, size) = Use(t) /\ Use(t) \in Nat
<1>1. t.pages \intersect UserPages(size) = t.pages \ Kernel
  BY NoLeaves
<1>2. IsFiniteSet(t.tab) /\ IsFiniteSet(t.pages \ Kernel)
  BY PagesFinite, NodesFinite DEF PageTables
<1>3. Cardinality(t.tab) \in Nat /\ Cardinality(t.pages \ Kernel) \in Nat
  BY <1>2, FS_CardinalityType
<1>4. Given(t, size) = Cardinality(t.pages \ Kernel) + Cardinality(t.tab)
  BY <1>1 DEF Given
<1> QED BY <1>3, <1>4 DEF Use

LEMMA NoUse == Use(NoTable) = 0
  BY FS_EmptySet DEF Use, NoTable

\* Table u has nodes and user pages that t does not have.
Gains(t, u, nodes, pages) ==
  /\ t \in PageTables /\ u \in PageTables /\ nodes \in SUBSET NodeNames /\ pages \in SUBSET Pages
  /\ u.tab = t.tab \union nodes /\ t.tab \intersect nodes = {}
  /\ u.pages \ Kernel = (t.pages \ Kernel) \union pages /\ (t.pages \ Kernel) \intersect pages = {}

LEMMA UseGrows ==
  ASSUME NEW t, NEW u, NEW nodes, NEW pages, Gains(t, u, nodes, pages)
  PROVE  /\ Use(t) \in Nat /\ Cardinality(nodes) \in Nat /\ Cardinality(pages) \in Nat
         /\ Use(u) = Use(t) + Cardinality(nodes) + Cardinality(pages)
<1>1. PICK a, b : a = t.tab /\ b = t.pages \ Kernel
  OBVIOUS
<1>2. IsFiniteSet(a) /\ IsFiniteSet(b) /\ IsFiniteSet(nodes) /\ IsFiniteSet(pages)
  BY <1>1, PagesFinite, NodesFinite DEF PageTables, Gains
<1>3. /\ Cardinality(a) \in Nat /\ Cardinality(b) \in Nat
      /\ Cardinality(nodes) \in Nat /\ Cardinality(pages) \in Nat
  BY <1>2, FS_CardinalityType
<1>4. a \intersect nodes = {} /\ b \intersect pages = {}
  BY <1>1 DEF Gains
<1>5. Cardinality(a \union nodes) = Cardinality(a) + Cardinality(nodes) - 0
  BY <1>2, <1>4, FS_Union, FS_EmptySet
<1>6. Cardinality(b \union pages) = Cardinality(b) + Cardinality(pages) - 0
  BY <1>2, <1>4, FS_Union, FS_EmptySet
<1>7. Use(t) = Cardinality(a) + Cardinality(b) /\ Use(u) = Cardinality(a \union nodes) + Cardinality(b \union pages)
  BY <1>1 DEF Use, Gains
<1> QED BY <1>3, <1>5, <1>6, <1>7

LEMMA ShrinkConserves ==
  ASSUME VmInv, VmInv', Conserved, NEW p \in Slots, NEW n \in Deltas, SbrkShrink(p, n) PROVE Conserved'
<1>1. PICK new : new = (sz[p] + n) % WORD
  OBVIOUS
<1>2. PICK t \in PageTables : t = tbl[<<p, "cur">>]
  BY TableIds DEF VmInv, TypeOK
<1>3. PICK gone : gone = t.pages \intersect Span(PGROUNDUP(new), PGROUNDUP(sz[p]))
  OBVIOUS
<1>4. PICK u : u = uvmunmap(t, gone)
  OBVIOUS
<1>5. tbl' = [tbl EXCEPT ![<<p, "cur">>] = u] /\ UNCHANGED <<tf, work, held>>
  BY <1>1, <1>2, <1>3, <1>4 DEF SbrkShrink
<1>6. free' = free + Cardinality(gone) /\ Ready(p)
  BY <1>1, <1>2, <1>3 DEF SbrkShrink
<1>7. u = [tab |-> t.tab, pages |-> t.pages \ gone]
  BY <1>4 DEF uvmunmap, PageTables
<1>8. u \in PageTables /\ u.tab = t.tab /\ u.pages = t.pages \ gone
  BY <1>7 DEF PageTables
<1>9. gone \intersect Kernel = {} /\ gone \in SUBSET Pages
  <2>1. sz[p] \in 0..TOP
    BY DEF VmInv, TypeOK
  <2>2. PGROUNDUP(sz[p]) \in 0..TRAPFRAME
    BY <2>1, BelowKernel
  <2> QED BY <1>3, <2>2, SpanUser
<1>10. Use(u) \in Nat /\ Cardinality(gone) \in Nat /\ Use(t) = Use(u) + 0 + Cardinality(gone)
  <2>1. PICK nodes \in SUBSET NodeNames : nodes = {}
    OBVIOUS
  <2>2. t.tab = u.tab \union nodes /\ u.tab \intersect nodes = {} /\ Cardinality(nodes) = 0
    BY <1>8, <2>1, FS_EmptySet
  <2>3. t.pages \ Kernel = (u.pages \ Kernel) \union gone /\ (u.pages \ Kernel) \intersect gone = {}
    BY <1>3, <1>8, <1>9
  <2>4. Use(u) \in Nat /\ Cardinality(gone) \in Nat /\ Use(t) = Use(u) + Cardinality(nodes) + Cardinality(gone)
    <3>1. Gains(u, t, nodes, gone)
      BY <1>8, <1>9, <2>2, <2>3 DEF Gains
    <3> QED BY <3>1, UseGrows
  <2> QED BY <2>2, <2>4
<1>11. PICK x \in Tables : x = <<p, "cur">>
  BY TableIds
<1>12. PICK d \in Int : d = Use(u) - Use(t) /\ d = 0 - Cardinality(gone)
  BY <1>10
<1>13. TableFlow(d)
  <2>1. tbl' = [tbl EXCEPT ![x] = u] /\ d = Use(u) - Use(tbl[x])
    BY <1>2, <1>5, <1>11, <1>12
  <2> QED BY <1>8, <2>1, TableSet
<1>14. TrapFlow(0) /\ ArgFlow(0)
  BY <1>5, Same
<1>15. PICK i \in Int, j \in Int : free' = i /\ held' = j /\ i + j = free + held - 0 - d - 0
  <2>1. held' = held
    BY <1>5
  <2> QED BY <1>6, <1>10, <1>12, <2>1, Counters
<1>16. 0 \in Int
  OBVIOUS
<1> QED BY <1>13, <1>14, <1>15, <1>16, Balance

LEMMA MapConserves == ASSUME VmInv, VmInv', Conserved, NEW p \in Slots, MapPage(p) PROVE Conserved'
<1>1. work[p].todo # {}
  BY DEF MapPage
<1>2. work[p].op # "none"
  BY <1>1, BusyTodo
<1>3. PICK w \in Works : w = work[p]
  BY <1>2, BusyFacts
<1>4. PICK t \in PageTables : t = tbl[w.id]
  BY <1>2, <1>3, BusyFacts
<1>5. w.todo \in SUBSET Pages /\ w.id \in Tables
  BY <1>2, <1>3, BusyFacts DEF Works
<1>6. PICK va \in w.todo : va = NextPage(p)
  BY <1>1, <1>3, <1>5, NextPageIs
<1>7. PICK miss \in SUBSET NodeNames : miss = Missing(t, va)
  BY <1>5, <1>6, MissingNodes
<1>8. PICK u : u = [tab |-> t.tab \union miss, pages |-> t.pages \union {va}]
  OBVIOUS
<1>9. PICK v : v = [w EXCEPT !.todo = w.todo \ {va}]
  OBVIOUS
<1>10. tbl' = [tbl EXCEPT ![w.id] = u] /\ work' = [work EXCEPT ![p] = v] /\ UNCHANGED <<tf, held>>
  BY <1>3, <1>4, <1>6, <1>7, <1>8, <1>9 DEF MapPage, procVars
<1>11. free' = free - FrameFor(va) - Cardinality(miss)
  BY <1>3, <1>4, <1>6, <1>7 DEF MapPage
<1>12. va \notin t.pages
  <2>1. panicked' = IF va \in t.pages THEN "mappages: remap" ELSE ""
    BY <1>3, <1>4, <1>6 DEF MapPage
  <2> QED BY <2>1 DEF VmInv, NoPanic
<1>13. u \in PageTables /\ u.tab = t.tab \union miss /\ u.pages = t.pages \union {va}
  BY <1>5, <1>8 DEF PageTables
<1>14. PICK frames \in SUBSET Pages : frames = {va} \ Kernel
  BY <1>5
<1>15. Cardinality(frames) = FrameFor(va)
  <2>1. CASE va \in Kernel
    BY <1>14, <2>1, FS_EmptySet DEF FrameFor
  <2>2. CASE va \notin Kernel
    <3>1. frames = {va}
      BY <1>14, <2>2
    <3> QED BY <2>2, <3>1, FS_Singleton DEF FrameFor
  <2> QED BY <2>1, <2>2
<1>16. /\ Use(t) \in Nat /\ Cardinality(miss) \in Nat /\ Cardinality(frames) \in Nat
       /\ Use(u) = Use(t) + Cardinality(miss) + Cardinality(frames)
  <2>1. t.tab \intersect miss = {}
    BY <1>7 DEF Missing
  <2>2. u.pages \ Kernel = (t.pages \ Kernel) \union frames /\ (t.pages \ Kernel) \intersect frames = {}
    BY <1>12, <1>13, <1>14
  <2>3. Gains(t, u, miss, frames)
    BY <1>13, <2>1, <2>2 DEF Gains
  <2> QED BY <2>3, UseGrows
<1>17. PICK d \in Int : d = Use(u) - Use(t) /\ d = Cardinality(miss) + FrameFor(va)
  BY <1>15, <1>16
<1>18. TableFlow(d)
  <2>1. PICK x \in Tables : x = w.id
    BY <1>5
  <2>2. tbl' = [tbl EXCEPT ![x] = u] /\ d = Use(u) - Use(tbl[x])
    BY <1>4, <1>10, <1>17, <2>1
  <2> QED BY <1>13, <2>2, TableSet
<1>19. TrapFlow(0)
  BY <1>10, Same
<1>20. ArgFlow(0)
  <2>1. v.nargs = work[p].nargs
    BY <1>3, <1>9 DEF Works
  <2> QED BY <1>10, <2>1, ArgKept
<1>21. PICK i \in Int, j \in Int : free' = i /\ held' = j /\ i + j = free + held - 0 - d - 0
  <2>1. held' = held
    BY <1>10
  <2> QED BY <1>11, <1>15, <1>16, <1>17, <2>1, Counters
<1>22. 0 \in Int
  OBVIOUS
<1> QED BY <1>18, <1>19, <1>20, <1>21, <1>22, Balance

LEMMA RootConserves ==
  ASSUME VmInv, VmInv', Conserved, NEW p \in Slots, CreateRoot(p), free > 0 PROVE Conserved'
<1>1. work[p].op # "none" /\ work[p].next = "root"
  BY DEF CreateRoot, In
<1>2. PICK w \in Works : w = work[p]
  BY <1>1, BusyFacts
<1>3. w.id \in Tables /\ Stage(p, w, tbl[w.id])
  BY <1>1, <1>2, BusyFacts
<1>4. tbl[w.id] = NoTable
  BY <1>1, <1>2, <1>3 DEF Stage, ForkStage, ExecStage, SbrkStage, FaultStage
<1>5. PICK u : u = [tab |-> {Root}, pages |-> {}]
  OBVIOUS
<1>6. PICK v : v = [w EXCEPT !.todo = Kernel, !.next = IF w.op = "fork" THEN "copy" ELSE "segment"]
  OBVIOUS
<1>7. free' = free - 1 /\ tbl' = [tbl EXCEPT ![w.id] = u] /\ work' = [work EXCEPT ![p] = v] /\ UNCHANGED <<tf, held>>
  <2>1. free # 0 /\ free \in Nat
    BY Counters
  <2> QED BY <1>2, <1>5, <1>6, <2>1 DEF CreateRoot
<1>8. u \in PageTables /\ Use(u) = 1
  <2>1. u \in PageTables /\ u.tab = {Root} /\ u.pages \ Kernel = {}
    BY <1>5 DEF PageTables, NodeNames
  <2>2. Cardinality({Root}) = 1 /\ Cardinality({}) = 0
    BY FS_Singleton, FS_EmptySet
  <2>3. Use(u) = 1 + 0
    BY <2>1, <2>2 DEF Use
  <2> QED BY <2>1, <2>3
<1>9. PICK d \in Int : d = Use(u) - Use(tbl[w.id]) /\ d = 1
  BY <1>4, <1>8, NoUse
<1>10. TableFlow(d)
  <2>1. PICK x \in Tables : x = w.id
    BY <1>3
  <2>2. tbl' = [tbl EXCEPT ![x] = u] /\ d = Use(u) - Use(tbl[x])
    BY <1>7, <1>9, <2>1
  <2> QED BY <1>8, <2>2, TableSet
<1>11. TrapFlow(0)
  BY <1>7, Same
<1>12. ArgFlow(0)
  <2>1. v.nargs = w.nargs
    BY <1>6 DEF Works
  <2>2. work' = [work EXCEPT ![p] = v] /\ v.nargs = work[p].nargs
    BY <1>2, <1>7, <2>1
  <2> QED BY <2>2, ArgKept
<1>13. PICK i \in Int, j \in Int : free' = i /\ held' = j /\ i + j = free + held - 0 - d - 0
  <2>1. held' = held /\ free' = free - 1
    BY <1>7
  <2> QED BY <1>9, <2>1, Counters
<1>14. 0 \in Int
  OBVIOUS
<1> QED BY <1>10, <1>11, <1>12, <1>13, <1>14, Balance

\* An operation that ends gives back the trapframe or the arguments it holds.
LEMMA ExtraFlow ==
  ASSUME VmInv, VmInv', NEW p \in Slots, work[p].op # "none", Abandon(p)
  PROVE  \E a \in Int, c \in Int : TrapFlow(a) /\ ArgFlow(c) /\ a + c = 0 - Extra(p)
<1>1. PICK w \in Works : w = work[p]
  BY BusyFacts
<1>2. Stage(p, w, tbl[w.id])
  BY <1>1, BusyFacts
<1>3. work' = [work EXCEPT ![p] = NoWork] /\ NoWork.nargs = 0
  BY NoWorkType DEF Abandon
<1>4. CASE w.op = "fork"
  <2>1. ForkStage(p, w, tbl[w.id])
    BY <1>2, <1>4 DEF Stage
  <2>2. PICK c \in Slots : c = w.id[1] /\ state[c] = "used" /\ w.nargs = 0
    BY <2>1 DEF ForkStage
  <2>3. tf' = [tf EXCEPT ![c] = FALSE]
    BY <1>1, <1>4, <2>2 DEF Abandon
  <2>4. tf[c]
    <3>1. state[c] # "unused"
      BY <2>2
    <3> QED BY <3>1, Zenon DEF VmInv, SlotsOK
  <2>5. TrapFlow(-1)
    BY <2>3, <2>4, TrapFreed
  <2>6. NoWork.nargs = work[p].nargs
    BY <1>1, <1>3, <2>2
  <2>7. ArgFlow(0)
    BY <1>3, <2>6, ArgKept
  <2>8. Extra(p) = 1
    BY <1>1, <1>4 DEF Extra
  <2>9. -1 \in Int /\ 0 \in Int /\ -1 + 0 = 0 - Extra(p)
    BY <2>8
  <2> QED BY <2>5, <2>7, <2>9
<1>5. CASE w.op # "fork"
  <2>1. w.id[1] = p
    <3>1. w.id = <<p, "new">> \/ w.id = <<p, "cur">>
      BY <1>2, <1>5 DEF Stage, ExecStage, SbrkStage, FaultStage
    <3>2. <<p, "new">>[1] = p /\ <<p, "cur">>[1] = p
      OBVIOUS
    <3> QED BY <3>1, <3>2, Zenon
  <2>2. tf' = [tf EXCEPT ![p] = tf[p]]
    BY <1>1, <1>5, <2>1 DEF Abandon
  <2>3. tf \in [Slots -> BOOLEAN]
    BY Zenon DEF VmInv, TypeOK
  <2>4. tf' = tf
    BY <2>2, <2>3, Zenon
  <2>5. TrapFlow(0)
    BY <2>4, Same
  <2>6. Extra(p) = work[p].nargs /\ work[p].nargs \in Nat
    <3>1. work[p].nargs \in Nat
      BY <1>1 DEF Works
    <3> QED BY <1>1, <1>5, <3>1 DEF Extra
  <2>7. PICK d \in Int : d = NoWork.nargs - work[p].nargs /\ 0 + d = 0 - Extra(p)
    BY <1>3, <2>6
  <2>8. ArgFlow(d)
    <3>1. NoWork.nargs \in {0, MAXARG}
      BY <1>3
    <3> QED BY <1>3, <2>7, <3>1, ArgSet
  <2>9. 0 \in Int
    OBVIOUS
  <2> QED BY <2>5, <2>7, <2>8, <2>9
<1> QED BY <1>4, <1>5

LEMMA NoRootConserves ==
  ASSUME VmInv, VmInv', Conserved, NEW p \in Slots, CreateRoot(p), free = 0 PROVE Conserved'
<1>1. work[p].op # "none" /\ Abandon(p) /\ UNCHANGED <<tbl, held>>
  <2>1. work[p].op # "none"
    BY DEF CreateRoot, In
  <2>2. Abandon(p) /\ UNCHANGED <<tbl, held>>
    BY DEF CreateRoot
  <2> QED BY <2>1, <2>2
<1>2. free' = free + Extra(p)
  BY DEF CreateRoot
<1>3. PICK a \in Int, c \in Int : TrapFlow(a) /\ ArgFlow(c) /\ a + c = 0 - Extra(p)
  BY <1>1, ExtraFlow
<1>4. TableFlow(0)
  BY <1>1, Same
<1>5. PICK i \in Int, j \in Int : free' = i /\ held' = j /\ i + j = free + held - a - 0 - c
  <2>1. held' = held
    BY <1>1
  <2> QED BY <1>2, <1>3, <2>1, ExtraType, Counters
<1>6. 0 \in Int
  OBVIOUS
<1> QED BY <1>3, <1>4, <1>5, <1>6, Balance

LEMMA OutOfMemoryConserves ==
  ASSUME VmInv, VmInv', Conserved, NEW p \in Slots, OutOfMemory(p) PROVE Conserved'
<1>1. work[p].todo # {}
  BY DEF OutOfMemory
<1>2. work[p].op # "none"
  BY <1>1, BusyTodo
<1>3. PICK w \in Works : w = work[p]
  BY <1>2, BusyFacts
<1>4. PICK t \in PageTables : t = tbl[w.id]
  BY <1>2, <1>3, BusyFacts
<1>5. w.todo \in SUBSET Pages /\ w.id \in Tables /\ Stage(p, w, t) /\ sz[p] \in 0..TOP
  BY <1>2, <1>3, <1>4, BusyFacts DEF Works
<1>6. PICK va \in w.todo : va = NextPage(p) /\ (~(w.todo \subseteq Kernel) => \A b \in w.todo : va <= b)
  BY <1>1, <1>3, <1>5, NextPageIs
<1>7. PICK got \in SUBSET NodeNames : got = Got(t, va) /\ t.tab \intersect got = {}
  <2>1. Got(t, va) \in SUBSET Missing(t, va) /\ Missing(t, va) \in SUBSET NodeNames
    BY <1>5, <1>6, MissingNodes
  <2> QED BY <2>1 DEF Missing
<1>8. PICK t0 \in PageTables : t0 = [t EXCEPT !.tab = t.tab \union got] /\ t0.pages = t.pages
                               /\ t0.tab = t.tab \union got
  <2>1. [t EXCEPT !.tab = t.tab \union got] = [tab |-> t.tab \union got, pages |-> t.pages]
    BY DEF PageTables
  <2>2. [tab |-> t.tab \union got, pages |-> t.pages] \in PageTables
    BY DEF PageTables
  <2> QED BY <2>1, <2>2
<1>9. PICK t1 : t1 = Undone(p, t0, va)
  OBVIOUS
<1>10. /\ t1 \in PageTables /\ t1.tab = t0.tab /\ t1.pages \subseteq t0.pages
       /\ w.op \in {"fork", "exec"} =>
            w.sz \in 0..TOP /\ t1.pages \subseteq Span(0, PGROUNDUP(w.sz)) \union Kernel
  <2>1. Failing(p, w, t, va, t0)
    BY <1>3, <1>5, <1>6, <1>8 DEF Failing
  <2> QED BY <1>9, <2>1, UndoneStage
<1>11. PICK u : u = IF w.op \in {"sbrk", "fault"} THEN t1 ELSE NoTable
  OBVIOUS
<1>12. PICK pages \in SUBSET Pages : pages = (t0.pages \ t1.pages) \ Kernel
  BY DEF PageTables
<1>13. /\ tbl' = [tbl EXCEPT ![w.id] = u] /\ Abandon(p) /\ held' = held
       /\ free' = free - Cardinality(got) + Cardinality(pages)
                  + (IF w.op \in {"sbrk", "fault"} THEN 0 ELSE Given(t1, w.sz) + Extra(p))
  BY <1>3, <1>4, <1>6, <1>7, <1>8, <1>9, <1>11, <1>12 DEF OutOfMemory
\* The table with what walk() got, without what the loop gives back.
<1>14. /\ Use(t) \in Nat /\ Use(t1) \in Nat /\ Cardinality(got) \in Nat /\ Cardinality(pages) \in Nat
       /\ Use(t1) + Cardinality(pages) = Use(t) + Cardinality(got)
  <2>1. PICK none \in SUBSET NodeNames : none = {}
    OBVIOUS
  <2>2. PICK nil \in SUBSET Pages : nil = {}
    OBVIOUS
  <2>3. Gains(t, t0, got, nil)
    BY <1>7, <1>8, <2>2 DEF Gains
  <2>4. Gains(t1, t0, none, pages)
    <3>1. t0.tab = t1.tab \union none /\ t1.tab \intersect none = {}
      BY <1>10, <2>1
    <3>2. t0.pages \ Kernel = (t1.pages \ Kernel) \union pages /\ (t1.pages \ Kernel) \intersect pages = {}
      BY <1>10, <1>12
    <3> QED BY <1>10, <3>1, <3>2 DEF Gains
  <2>5. Use(t) \in Nat /\ Cardinality(got) \in Nat /\ Use(t0) = Use(t) + Cardinality(got) + Cardinality(nil)
    BY <2>3, UseGrows
  <2>6. Use(t1) \in Nat /\ Cardinality(pages) \in Nat /\ Use(t0) = Use(t1) + Cardinality(none) + Cardinality(pages)
    BY <2>4, UseGrows
  <2>7. Cardinality(nil) = 0 /\ Cardinality(none) = 0
    BY <2>1, <2>2, FS_EmptySet
  <2> QED BY <2>5, <2>6, <2>7
<1>15. PICK a \in Int, c \in Int : TrapFlow(a) /\ ArgFlow(c) /\ a + c = 0 - Extra(p)
  BY <1>2, <1>13, ExtraFlow
<1>16. u \in PageTables /\ Use(u) \in Nat
  BY <1>10, <1>11, <1>14, NoTableType, NoUse
<1>17. PICK d \in Int : d = Use(u) - Use(t)
  BY <1>14, <1>16
<1>18. TableFlow(d)
  <2>1. PICK x \in Tables : x = w.id
    BY <1>5
  <2>2. tbl' = [tbl EXCEPT ![x] = u] /\ d = Use(u) - Use(tbl[x])
    BY <1>4, <1>13, <1>17, <2>1
  <2> QED BY <1>16, <2>2, TableSet
<1>19. PICK i \in Int, j \in Int : free' = i /\ held' = j /\ i + j = free + held - a - d - c
  <2>1. CASE w.op \in {"sbrk", "fault"}
    <3>1. free' = free - Cardinality(got) + Cardinality(pages) + 0 /\ held' = held /\ u = t1
      BY <1>11, <1>13, <2>1
    <3>2. Extra(p) = 0
      BY <1>3, <2>1, Nargs DEF Extra
    <3> QED BY <1>14, <1>15, <1>17, <3>1, <3>2, Counters
  <2>2. CASE w.op \in {"fork", "exec"}
    <3>1. free' = free - Cardinality(got) + Cardinality(pages) + (Given(t1, w.sz) + Extra(p)) /\ held' = held
          /\ u = NoTable
      BY <1>11, <1>13, <2>2
    <3>2. Given(t1, w.sz) = Use(t1)
      BY <1>10, <2>2, GivenUse
    <3>3. Extra(p) \in Nat
      BY ExtraType
    <3> QED BY <1>14, <1>15, <1>17, <3>1, <3>2, <3>3, NoUse, Counters
  <2> QED BY <1>5, <2>1, <2>2 DEF Stage
<1> QED BY <1>15, <1>18, <1>19, Balance


\* exec gives up: its table and its arguments go.
LEMMA BadConserves ==
  ASSUME VmInv, VmInv', Conserved, NEW p \in Slots, In(p, "segment") \/ In(p, "bad"), ExecBad(p) PROVE Conserved'
<1>1. PICK w \in Works : w = work[p]
  BY DEF VmInv, TypeOK
<1>2. PICK t \in PageTables : t = tbl[<<p, "new">>]
  BY TableIds DEF VmInv, TypeOK
<1>3. w.op = "exec" /\ Owned(t.pages, PGROUNDUP(w.sz)) /\ w.sz \in 0..TOP
  BY <1>1, <1>2, BadOwned
<1>4. /\ tbl' = [tbl EXCEPT ![<<p, "new">>] = NoTable] /\ work' = [work EXCEPT ![p] = NoWork]
      /\ UNCHANGED <<tf, held>>
  BY DEF ExecBad, procVars
<1>5. free' = free + Given(t, w.sz) + Extra(p)
  BY <1>1, <1>2 DEF ExecBad
<1>6. Given(t, w.sz) = Use(t) /\ Use(t) \in Nat
  BY <1>3, GivenUse DEF Owned
<1>7. Extra(p) = work[p].nargs /\ Extra(p) \in Nat /\ work[p].nargs = MAXARG
  BY <1>1, <1>3, ExtraType, Nargs DEF Extra
<1>8. PICK d \in Int : d = Use(NoTable) - Use(t) /\ d = 0 - Use(t)
  BY <1>6, NoUse
<1>9. TableFlow(d)
  <2>1. PICK x \in Tables : x = <<p, "new">>
    BY TableIds
  <2>2. tbl' = [tbl EXCEPT ![x] = NoTable] /\ d = Use(NoTable) - Use(tbl[x])
    BY <1>2, <1>4, <1>8, <2>1
  <2> QED BY <2>2, NoTableType, TableSet
<1>10. PICK e \in Int : e = NoWork.nargs - work[p].nargs /\ e = 0 - Extra(p)
  <2>1. NoWork.nargs = 0
    BY NoWorkType
  <2> QED BY <1>7, <2>1
<1>11. ArgFlow(e)
  <2>1. NoWork.nargs \in {0, MAXARG}
    BY NoWorkType
  <2> QED BY <1>4, <1>10, <2>1, ArgSet
<1>12. TrapFlow(0)
  BY <1>4, Same
<1>13. PICK i \in Int, j \in Int : free' = i /\ held' = j /\ i + j = free + held - 0 - d - e
  <2>1. held' = held
    BY <1>4
  <2> QED BY <1>5, <1>6, <1>7, <1>8, <1>10, <2>1, Counters
<1>14. 0 \in Int
  OBVIOUS
<1> QED BY <1>9, <1>11, <1>12, <1>13, <1>14, Balance

LEMMA AllocConserves == ASSUME VmInv, VmInv', Conserved, NEW p \in Slots, ExecAlloc(p) PROVE Conserved'
<1>1. In(p, "segment")
  BY DEF ExecAlloc
<1>2. CASE ExecBad(p)
  BY <1>1, <1>2, BadConserves
<1>3. CASE ~ExecBad(p)
  <2>1. PICK w \in Works : w = work[p]
    BY DEF VmInv, TypeOK
  <2>2. PICK from : from = IF w.segs = <<>> THEN PGROUNDUP(w.sz) * PGSIZE ELSE w.sz
    OBVIOUS
  <2>3. PICK to : to = IF w.segs = <<>> THEN from + (USERSTACK + 1) * PGSIZE
                       ELSE w.segs[1].va * PGSIZE + w.segs[1].memsz
    OBVIOUS
  <2>4. PICK v : v = [w EXCEPT !.from = from, !.sz = from, !.to = IF to < from THEN from ELSE to,
                               !.todo = Span(PGROUNDUP(from), PGROUNDUP(to)),
                               !.next = IF w.segs = <<>> THEN "args" ELSE "load"]
    OBVIOUS
  <2>5. work' = [work EXCEPT ![p] = v] /\ UNCHANGED <<tf, tbl, free, held>>
    BY <1>3, <2>1, <2>2, <2>3, <2>4 DEF ExecAlloc, procVars
  <2>6. v.nargs = work[p].nargs
    BY <2>1, <2>4 DEF Works
  <2> QED BY <2>5, <2>6, GoesOn
<1> QED BY <1>2, <1>3

LEMMA FailConserves == ASSUME VmInv, VmInv', Conserved, NEW p \in Slots, ExecFail(p) PROVE Conserved'
<1>1. CASE In(p, "bad") /\ ExecBad(p)
  BY <1>1, BadConserves
<1>2. CASE ~(In(p, "bad") /\ ExecBad(p))
  <2>1. PICK w \in Works : w = work[p]
    BY DEF VmInv, TypeOK
  <2>2. PICK v : v = [w EXCEPT !.sz = w.to, !.next = "bad"]
    OBVIOUS
  <2>3. work' = [work EXCEPT ![p] = v] /\ UNCHANGED <<tf, tbl, free, held>>
    BY <1>2, <2>1, <2>2 DEF ExecFail, procVars
  <2>4. v.nargs = work[p].nargs
    BY <2>1, <2>2 DEF Works
  <2> QED BY <2>3, <2>4, GoesOn
<1> QED BY <1>1, <1>2

\* The new table takes the place of the old one, which is given back.
LEMMA CommitConserves == ASSUME VmInv, VmInv', Conserved, NEW p \in Slots, ExecCommit(p) PROVE Conserved'
<1>1. work[p].op # "none" /\ work[p].next = "args"
  BY DEF ExecCommit, In
<1>2. PICK w \in Works : w = work[p]
  BY <1>1, BusyFacts
<1>3. Stage(p, w, tbl[w.id]) /\ sz[p] \in 0..TOP
  BY <1>1, <1>2, BusyFacts
<1>4. w.op = "exec"
  BY <1>1, <1>2, <1>3 DEF Stage, ForkStage, ExecStage, SbrkStage, FaultStage
<1>5. PICK x \in Tables, y \in Tables : x = <<p, "cur">> /\ y = <<p, "new">> /\ x # y
  BY TableIds
<1>6. PICK old \in PageTables, new \in PageTables : old = tbl[x] /\ new = tbl[y]
  BY DEF VmInv, TypeOK
<1>7. Owned(old.pages, PGROUNDUP(sz[p]))
  BY <1>1, <1>2, <1>4, <1>5, <1>6, BusyFacts DEF VmInv, SettledOK
<1>8. tbl' = [tbl EXCEPT ![x] = new, ![y] = NoTable]
  BY <1>5, <1>6 DEF ExecCommit
<1>9. free' = free + Given(old, sz[p]) + Extra(p)
  BY <1>5, <1>6 DEF ExecCommit
<1>10. work' = [work EXCEPT ![p] = NoWork] /\ UNCHANGED <<tf, held>>
  BY DEF ExecCommit
<1>11. Given(old, sz[p]) = Use(old) /\ Use(old) \in Nat
  BY <1>3, <1>7, GivenUse DEF Owned
<1>12. Extra(p) = work[p].nargs /\ Extra(p) \in Nat /\ work[p].nargs = MAXARG
  BY <1>2, <1>4, ExtraType, Nargs DEF Extra
<1>13. PICK d \in Int : d = 0 - Use(old) /\ TableFlow(d)
  <2>1. PICK f, g, h : f = tbl /\ g = [tbl EXCEPT ![x] = new] /\ h = tbl'
    OBVIOUS
  <2>2. Changed(Tables, PageTables, f, g, x) /\ f[x] = old /\ g[x] = new
    <3>1. f \in [Tables -> PageTables] /\ f[x] = old /\ g = [f EXCEPT ![x] = new]
      BY <1>6, <2>1 DEF VmInv, TypeOK
    <3> QED BY <3>1 DEF Changed
  <2>3. Changed(Tables, PageTables, g, h, y) /\ g[y] = new /\ h[y] = NoTable
    <3>1. f \in [Tables -> PageTables] /\ f[y] = new /\ g = [f EXCEPT ![x] = new]
          /\ h = [f EXCEPT ![x] = new, ![y] = NoTable]
      BY <1>6, <1>8, <2>1 DEF VmInv, TypeOK
    <3>2. g \in [Tables -> PageTables] /\ g[y] = new
      BY <1>5, <3>1
    <3>3. h \in [Tables -> PageTables] /\ h[y] = NoTable /\ \A z \in Tables : z # y => h[z] = g[z]
      BY <1>5, <3>1, NoTableType
    <3> QED BY <3>2, <3>3 DEF Changed
  <2>4. /\ TabUse(f) \in Nat /\ MapUse(f) \in Nat /\ TabUse(g) \in Nat /\ MapUse(g) \in Nat
        /\ Use(f[x]) \in Nat /\ Use(g[x]) \in Nat
        /\ TabUse(g) + MapUse(g) + Use(f[x]) = TabUse(f) + MapUse(f) + Use(g[x])
    BY <2>2, TableCount
  <2>5. /\ TabUse(h) \in Nat /\ MapUse(h) \in Nat
        /\ TabUse(h) + MapUse(h) + Use(g[y]) = TabUse(g) + MapUse(g) + Use(h[y])
    BY <2>3, TableCount
  <2>6. Use(f[x]) = Use(old) /\ Use(g[x]) = Use(new) /\ Use(g[y]) = Use(new) /\ Use(h[y]) = 0
    BY <2>2, <2>3, NoUse
  <2>7. PICK d \in Int : d = 0 - Use(old)
    BY <1>11
  <2>8. TabUse(h) + MapUse(h) = TabUse(f) + MapUse(f) + d
    BY <2>4, <2>5, <2>6, <2>7
  <2>9. TableFlow(d)
    BY <2>1, <2>5, <2>8 DEF TableFlow
  <2> QED BY <2>7, <2>9
<1>14. PICK e \in Int : e = NoWork.nargs - work[p].nargs /\ e = 0 - Extra(p)
  <2>1. NoWork.nargs = 0
    BY NoWorkType
  <2> QED BY <1>12, <2>1
<1>15. ArgFlow(e)
  <2>1. NoWork.nargs \in {0, MAXARG}
    BY NoWorkType
  <2> QED BY <1>10, <1>14, <2>1, ArgSet
<1>16. TrapFlow(0)
  BY <1>10, Same
<1>17. PICK i \in Int, j \in Int : free' = i /\ held' = j /\ i + j = free + held - 0 - d - e
  <2>1. held' = held
    BY <1>10
  <2> QED BY <1>9, <1>11, <1>12, <1>13, <1>14, <2>1, Counters
<1>18. 0 \in Int
  OBVIOUS
<1> QED BY <1>13, <1>15, <1>16, <1>17, <1>18, Balance

LEMMA ReapConserves == ASSUME VmInv, VmInv', Conserved, NEW p \in Slots, Reap(p) PROVE Conserved'
<1>1. PICK x \in Tables : x = <<p, "cur">>
  BY TableIds
<1>2. PICK t \in PageTables : t = tbl[x]
  BY DEF VmInv, TypeOK
<1>3. state[p] = "zombie" /\ tbl' = [tbl EXCEPT ![x] = NoTable] /\ UNCHANGED <<work, held>>
  BY <1>1 DEF Reap
<1>4. free' = free + Given(t, sz[p]) + 1
  BY <1>1, <1>2 DEF Reap
<1>5. tf' = [tf EXCEPT ![p] = FALSE]
  BY DEF Reap
<1>6. tf[p]
  <2>1. state[p] # "unused"
    BY <1>3
  <2> QED BY <2>1, Zenon DEF VmInv, SlotsOK
<1>7. sz[p] \in 0..TOP /\ Owned(t.pages, PGROUNDUP(sz[p]))
  <2>1. work[p].op = "none"
    BY <1>3, BusyFacts
  <2> QED BY <1>1, <1>2, <1>3, <2>1 DEF VmInv, TypeOK, SettledOK
<1>8. Given(t, sz[p]) = Use(t) /\ Use(t) \in Nat
  BY <1>7, GivenUse DEF Owned
<1>9. PICK d \in Int : d = Use(NoTable) - Use(tbl[x]) /\ d = 0 - Use(t)
  BY <1>2, <1>8, NoUse
<1>10. TableFlow(d)
  BY <1>3, <1>9, NoTableType, TableSet
<1>11. TrapFlow(-1)
  BY <1>5, <1>6, TrapFreed
<1>12. ArgFlow(0)
  BY <1>3, Same
<1>13. PICK i \in Int, j \in Int : free' = i /\ held' = j /\ i + j = free + held - (-1) - d - 0
  <2>1. held' = held
    BY <1>3
  <2> QED BY <1>4, <1>8, <1>9, <2>1, Counters
<1>14. 0 \in Int /\ -1 \in Int
  OBVIOUS
<1> QED BY <1>10, <1>11, <1>12, <1>13, <1>14, Balance

\* userinit(): a trapframe and three page-table pages.
LEMMA InitConserves == Init => Conserved
<1> SUFFICES ASSUME Init PROVE Conserved
  OBVIOUS
<1>1. VmInv
  BY VmInit
<1>2. TrapUse(tf) = 1
  <2>1. 1 \in Slots
    BY Constants DEF Slots
  <2>2. tf = [p \in Slots |-> p = 1]
    BY Zenon DEF Init
  <2>3. \A p \in Slots : tf[p] <=> p = 1
    BY <2>2, Zenon
  <2>4. {p \in Slots : tf[p]} = {1}
    BY <2>1, <2>3, Zenon
  <2> QED BY <2>4, FS_Singleton DEF TrapUse
<1>3. ArgUse(work) = 0
  <2>1. \A p \in Slots : work[p].nargs = 0
    BY NoWorkType DEF Init
  <2>2. \A i \in 1..MAXARG : ~(i <= 0)
    BY Constants
  <2>3. \A p \in Slots : Upto(work[p].nargs) = {}
    BY <2>1, <2>2 DEF Upto
  <2>4. Pairs(Slots, 1..MAXARG, [p \in Slots |-> Upto(work[p].nargs)]) = {}
    BY <2>3 DEF Pairs
  <2> QED BY <2>4, FS_EmptySet DEF ArgUse
<1>4. PICK x \in Tables : x = <<1, "cur">>
  <2>1. 1 \in Slots
    BY Constants DEF Slots
  <2> QED BY <2>1, TableIds
<1>5. Use(FirstTable) = 3
  <2>1. TRAMPOLINE \in Pages
    BY PagesFinite DEF Kernel
  <2>2. PICK a, b \in Pages : Path(TRAMPOLINE) = {<<2, a>>, <<1, b>>}
    BY <2>1, PathNodes
  <2>3. PICK r, s, z : r = <<3, 0>> /\ s = <<2, a>> /\ z = <<1, b>>
    OBVIOUS
  <2>4. r # s /\ r # z /\ s # z
    BY <2>3
  <2>5. FirstTable.tab = ({r} \union {s}) \union {z} /\ FirstTable.pages \ Kernel = {}
    BY <2>2, <2>3 DEF FirstTable, Root
  <2>6. IsFiniteSet({r}) /\ Cardinality({r}) = 1
    BY FS_Singleton
  <2>7. IsFiniteSet({r} \union {s}) /\ Cardinality({r} \union {s}) = 2
    <3>1. s \notin {r}
      BY <2>4
    <3> QED BY <3>1, <2>6, FS_AddElement, SMTT(30)
  <2>8. Cardinality(({r} \union {s}) \union {z}) = 3
    <3>1. z \notin {r} \union {s}
      BY <2>4
    <3> QED BY <3>1, <2>7, FS_AddElement, SMTT(30)
  <2> QED BY <2>5, <2>8, FS_EmptySet DEF Use
<1>6. TabUse(tbl) \in Nat /\ MapUse(tbl) \in Nat /\ TabUse(tbl) + MapUse(tbl) = 3
  <2>1. PICK f, g : f = [y \in Tables |-> NoTable] /\ g = tbl
    OBVIOUS
  <2>2. f \in [Tables -> PageTables] /\ f[x] = NoTable /\ g \in [Tables -> PageTables]
    BY <1>1, <2>1, NoTableType DEF VmInv, TypeOK
  <2>3. g[x] = FirstTable /\ \A y \in Tables : y # x => g[y] = f[y]
    BY <1>4, <2>1 DEF Init
  <2>4. Changed(Tables, PageTables, f, g, x)
    BY <2>2, <2>3 DEF Changed
  <2>5. /\ TabUse(f) \in Nat /\ MapUse(f) \in Nat /\ TabUse(g) \in Nat /\ MapUse(g) \in Nat
        /\ TabUse(g) + MapUse(g) + Use(f[x]) = TabUse(f) + MapUse(f) + Use(g[x])
    BY <2>4, TableCount
  <2>6. TabUse(f) = 0 /\ MapUse(f) = 0
    <3>1. \A y \in Tables : f[y].tab = {} /\ f[y].pages \ Kernel = {}
      BY <2>1 DEF NoTable
    <3>2. /\ Pairs(Tables, NodeNames, [y \in Tables |-> f[y].tab]) = {}
          /\ Pairs(Tables, Pages, [y \in Tables |-> f[y].pages \ Kernel]) = {}
      BY <3>1 DEF Pairs
    <3> QED BY <3>2, FS_EmptySet DEF TabUse, MapUse
  <2>7. Use(f[x]) = 0 /\ Use(g[x]) = 3
    BY <1>5, <2>2, <2>3, NoUse
  <2>8. TabUse(g) + MapUse(g) = 3
    BY <2>5, <2>6, <2>7
  <2> QED BY <2>1, <2>5, <2>8
<1>7. free = NFrames - 4 /\ held = 0
  BY DEF Init
<1>8. free + held + TrapUse(tf) + TabUse(tbl) + MapUse(tbl) + ArgUse(work) = NFrames
  BY <1>2, <1>3, <1>6, <1>7, Constants
<1> QED BY <1>8, Counted

LEMMA NextConserves == ASSUME VmInv, VmInv', Conserved, Next PROVE Conserved'
<1>1. CASE Take \/ Give
  BY <1>1, TakeConserves
<1>2. ASSUME NEW p \in Slots, \E c \in Slots : Fork(p, c) PROVE Conserved'
  BY <1>2, ForkConserves
<1>3. ASSUME NEW p \in Slots, \E prog \in Programs : Exec(p, prog) PROVE Conserved'
  BY <1>3, ExecConserves
<1>4. ASSUME NEW p \in Slots, \E n \in Deltas : SbrkEager(p, n) \/ SbrkShrink(p, n) \/ SbrkLazy(p, n)
      PROVE Conserved'
  BY <1>4, StartConserves, ShrinkConserves, QuietConserves
<1>5. ASSUME NEW p \in Slots, \E va \in Pages : Fault(p, va) PROVE Conserved'
  BY <1>5, StartConserves
<1>6. ASSUME NEW p \in Slots, CreateRoot(p) PROVE Conserved'
  <2>1. free = 0 \/ free > 0
    BY Counters
  <2> QED BY <1>6, <2>1, RootConserves, NoRootConserves
<1>7. ASSUME NEW p \in Slots, MapPage(p) \/ OutOfMemory(p) PROVE Conserved'
  BY <1>7, MapConserves, OutOfMemoryConserves
<1>8. ASSUME NEW p \in Slots, CopyUser(p) \/ Forked(p) \/ Grown(p) PROVE Conserved'
  BY <1>8, CopyConserves, EndConserves
<1>9. ASSUME NEW p \in Slots, ExecAlloc(p) \/ ExecLoad(p) \/ ExecFail(p) \/ ExecCommit(p) PROVE Conserved'
  BY <1>9, AllocConserves, LoadConserves, FailConserves, CommitConserves
<1>10. ASSUME NEW p \in Slots, Exit(p) \/ Reap(p) PROVE Conserved'
  BY <1>10, QuietConserves, ReapConserves
<1> QED BY <1>1, <1>2, <1>3, <1>4, <1>5, <1>6, <1>7, <1>8, <1>9, <1>10 DEF Next

\* No frame is lost and none is freed twice: at every step, wherever an operation
\* runs out of memory, each frame is on kmem.freelist or has exactly one use.
THEOREM ConservedCorrect == Spec => []Conserved
<1>1. ASSUME VmInv, Conserved, UNCHANGED vars PROVE Conserved'
  <2>1. UNCHANGED <<tf, tbl, work>> /\ free' = free /\ held' = held
    BY <1>1 DEF vars
  <2> QED BY <1>1, <2>1, Same, NothingMoves
<1>2. VmInv /\ VmInv' /\ Conserved /\ [Next]_vars => Conserved'
  BY <1>1, NextConserves
<1>3. Init => Conserved
  BY InitConserves
<1> QED BY <1>2, <1>3, VmInvariant, PTL DEF Spec
===============================================================================
