---------------------------------- MODULE Vm ----------------------------------
(***************************************************************************)
(* User memory in xv6: the page allocator (kernel/kalloc.c), page tables   *)
(* (vm.c) and the operations of processes that build, grow and free them:  *)
(* fork, exec, exit and wait, sbrk and page faults.                        *)
(*                                                                         *)
(* Page tables and sizes belong to one process; what operations share is   *)
(* the free list. One process at a time is inside an operation here, one   *)
(* round of a loop (mapping one page) is a step, and between two steps the *)
(* rest of the kernel takes frames from the list and gives them back.      *)
(* Frames are interchangeable and counted. A page table is the set of its  *)
(* page-table pages and the set of pages it maps. Sizes and addresses are  *)
(* in units of 1/PGSIZE of a page and are computed modulo WORD.            *)
(***************************************************************************)
EXTENDS Integers, Sequences, FiniteSets, FiniteSetsExt

CONSTANTS NPROC,      \* slots of the process table
          NFrames,    \* frames of physical memory
          PGSIZE,     \* units in a page
          FANOUT,     \* entries of a page-table page
          WORD,       \* addresses are computed modulo WORD
          USERSTACK,  \* pages of the user stack
          MAXARG,     \* arguments of exec()
          MaxSz,      \* bound: size sbrk() grows a process to
          MaxHeld,    \* bound: frames the rest of the kernel holds
          Deltas,     \* arguments of sbrk()
          Programs    \* executables: sequences of segments [va, memsz, ok]

ASSUME VmAssumption ==
  /\ NPROC \in Nat \ {0} /\ NFrames \in Nat \ {0, 1, 2, 3} /\ PGSIZE \in Nat \ {0} /\ USERSTACK \in Nat \ {0}
  /\ FANOUT \in Nat \ {0, 1} /\ MAXARG \in Nat /\ MaxSz \in Nat /\ MaxHeld \in Nat /\ Deltas \subseteq Int
  /\ WORD \in Nat /\ WORD > 2 * FANOUT * FANOUT * FANOUT * PGSIZE

VARIABLES state,      \* p->state
          sz,         \* p->sz
          tf,         \* p->trapframe is allocated
          tbl,        \* page tables: p->pagetable ("cur"), the one exec builds ("new")
          work,       \* the operation each process is in
          held,       \* frames held by the rest of the kernel
          free,       \* length of kmem.freelist
          panicked    \* the panic() reached, "" if none

vars == <<state, sz, tf, tbl, work, held, free, panicked>>
procVars == <<state, sz, tf>>

Slots == 1..NPROC
MAXVA == FANOUT * FANOUT * FANOUT     \* three levels
Pages == 0..(MAXVA - 1)
TRAMPOLINE == MAXVA - 1
TRAPFRAME  == MAXVA - 2
Kernel == {TRAMPOLINE, TRAPFRAME}
Root == <<3, 0>>

Segments == [va : Nat, memsz : Nat, ok : BOOLEAN]

\* Executables fit, with their stack, below the trapframe: memory ends long before
\* a size reaches it. The int argument of sbrk() is narrower than an address.
ASSUME ProgramsAssumption ==
  /\ USERSTACK + 1 <= TRAPFRAME
  /\ \A prog \in Programs : /\ prog \in Seq(Segments)
                             /\ \A i \in DOMAIN prog : prog[i].va * PGSIZE + prog[i].memsz
                                                         <= (TRAPFRAME - USERSTACK - 1) * PGSIZE
ASSUME DeltasAssumption == \A n \in Deltas : 2 * n <= WORD

Tables == Slots \X {"cur", "new"}
NodeNames == {Root} \union ({1, 2} \X Pages)
NoTable == [tab |-> {}, pages |-> {}]
NoWork  == [op |-> "none", id |-> <<0, "cur">>, todo |-> {}, next |-> "", from |-> 0, to |-> 0,
            sz |-> 0, segs |-> <<>>, nargs |-> 0]

PGROUNDUP(a) == (a + PGSIZE - 1) \div PGSIZE     \* in pages
Span(from, to) == {va \in Pages : from <= va /\ va < to}

\* The page-table pages under the root that lead to page va, by their level.
Path(va) == {<<2, va \div (FANOUT * FANOUT)>>, <<1, va \div FANOUT>>}

\* The page-table pages walk() must allocate to reach va.
Missing(t, va) == Path(va) \ t.tab

\* uvmunmap(): table t without the pages of S.
uvmunmap(t, S) == [t EXCEPT !.pages = t.pages \ S]

\* Mutant: the last, partial page is forgotten.
UserPagesMutant(size) == Span(0, size \div PGSIZE)

\* The user pages of a process of a given size, as uvmfree() and uvmcopy() see them.
UserPages(size) == Span(0, PGROUNDUP(size))

\* proc_freepagetable(): the frames given back (user pages and page-table pages;
\* the kernel's two pages are only unmapped), and the leaves left to freewalk().
Given(t, size) == Cardinality(t.pages \intersect UserPages(size)) + Cardinality(t.tab)
LeavesLeft(t, size) == t.pages \ (UserPages(size) \union Kernel)

-----------------------------------------------------------------------------
(* Operations start.                                                        *)

Ready(p) == panicked = "" /\ state[p] = "running" /\ \A q \in Slots : work[q].op = "none"

\* kfork(): allocproc() takes slot c and a trapframe.
Fork(p, c) ==
  /\ Ready(p) /\ state[c] = "unused" /\ free > 0
  /\ state' = [state EXCEPT ![c] = "used"] /\ tf' = [tf EXCEPT ![c] = TRUE]
  /\ free' = free - 1
  /\ work' = [work EXCEPT ![p] = [NoWork EXCEPT !.op = "fork", !.id = <<c, "cur">>, !.next = "root"]]
  /\ UNCHANGED <<sz, tbl, panicked, held>>

\* sys_exec(): one page for each argument; kexec() opens the file.
Exec(p, prog) ==
  /\ Ready(p) /\ free >= MAXARG
  /\ free' = free - MAXARG
  /\ work' = [work EXCEPT ![p] = [NoWork EXCEPT !.op = "exec", !.id = <<p, "new">>, !.next = "root",
                                                !.segs = prog, !.nargs = MAXARG]]
  /\ UNCHANGED <<procVars, tbl, panicked, held>>

\* sys_sbrk() eager with n > 0: growproc() and uvmalloc().
SbrkEager(p, n) ==
  LET new == (sz[p] + n) % WORD IN
  /\ Ready(p) /\ n > 0 /\ new <= TRAPFRAME * PGSIZE /\ new <= MaxSz
  /\ work' = [work EXCEPT ![p] = [NoWork EXCEPT !.op = "sbrk", !.id = <<p, "cur">>, !.next = "grown",
                                     !.from = sz[p], !.to = new,
                                     !.todo = Span(PGROUNDUP(sz[p]), PGROUNDUP(new))]]
  /\ UNCHANGED <<procVars, tbl, free, panicked, held>>

\* uvmdealloc() returns at once unless the new size is below the old one.
Shrinks(old, new) == new < old

\* sys_sbrk() with n < 0: uvmdealloc(), which leaves everything as it is when the
\* sum has wrapped around.
SbrkShrink(p, n) ==
  LET new == (sz[p] + n) % WORD
      gone == tbl[<<p, "cur">>].pages \intersect Span(PGROUNDUP(new), PGROUNDUP(sz[p]))
  IN
  /\ Ready(p) /\ n < 0 /\ Shrinks(sz[p], new)
  /\ tbl' = [tbl EXCEPT ![<<p, "cur">>] = uvmunmap(tbl[<<p, "cur">>], gone)]
  /\ free' = free + Cardinality(gone)
  /\ sz' = [sz EXCEPT ![p] = new]
  /\ UNCHANGED <<state, tf, work, panicked, held>>

\* sys_sbrk(n, SBRK_LAZY): only the size grows.
SbrkLazy(p, n) ==
  LET new == (sz[p] + n) % WORD IN
  /\ Ready(p) /\ n > 0
  /\ new >= sz[p] /\ new <= TRAPFRAME * PGSIZE /\ new <= MaxSz
  /\ sz' = [sz EXCEPT ![p] = new]
  /\ UNCHANGED <<state, tf, tbl, work, free, panicked, held>>

\* Mutant: any page may be faulted in.
MayFaultMutant(p, va) == va \notin tbl[<<p, "cur">>].pages

\* vmfault() maps a page below the size that is not mapped.
MayFault(p, va) == va * PGSIZE < sz[p] /\ va \notin tbl[<<p, "cur">>].pages

\* vmfault(), from a page fault in user space or from copyin(), copyout() or
\* copyinstr() on an address that is not mapped.
Fault(p, va) ==
  /\ Ready(p) /\ MayFault(p, va)
  /\ work' = [work EXCEPT ![p] = [NoWork EXCEPT !.op = "fault", !.id = <<p, "cur">>, !.next = "done",
                                                !.todo = {va}]]
  /\ UNCHANGED <<procVars, tbl, free, panicked, held>>

-----------------------------------------------------------------------------
(* Page tables grow page by page.                                           *)

In(p, next) == panicked = "" /\ work[p].op # "none" /\ work[p].todo = {} /\ work[p].next = next

\* What the end of p's operation gives back besides the page table: the
\* trapframe of a child that was not made, the pages of exec's arguments.
Extra(p) == IF work[p].op = "fork" THEN 1 ELSE work[p].nargs

\* The child slot of a failed fork is free again (freeproc).
Abandon(p) ==
  LET c == work[p].id[1] IN
  /\ state' = [state EXCEPT ![c] = IF work[p].op = "fork" THEN "unused" ELSE state[c]]
  /\ tf' = [tf EXCEPT ![c] = IF work[p].op = "fork" THEN FALSE ELSE tf[c]]
  /\ work' = [work EXCEPT ![p] = NoWork]

\* uvmcreate() in proc_pagetable(), for allocproc() and kexec().
CreateRoot(p) ==
  /\ In(p, "root")
  /\ \/ /\ free = 0
        /\ free' = free + Extra(p)
        /\ Abandon(p)
        /\ UNCHANGED tbl
     \/ /\ free > 0
        /\ free' = free - 1
        /\ tbl' = [tbl EXCEPT ![work[p].id] = [tab |-> {Root}, pages |-> {}]]
        /\ work' = [work EXCEPT ![p] = [work[p] EXCEPT
                      !.todo = Kernel, !.next = IF work[p].op = "fork" THEN "copy" ELSE "segment"]]
        /\ UNCHANGED <<state, tf>>
  /\ UNCHANGED <<sz, panicked, held>>

\* The page p maps next: proc_pagetable() starts at the top, the loops at the bottom.
NextPage(p) == IF work[p].todo \subseteq Kernel THEN Max(work[p].todo) ELSE Min(work[p].todo)

\* Frames a page takes besides page-table pages: the kernel's pages exist already.
FrameFor(va) == IF va \in Kernel THEN 0 ELSE 1

\* One page is mapped: kalloc() and mappages() with the page-table pages it needs.
MapPage(p) ==
  LET x == work[p].id
      va == NextPage(p)
      miss == Missing(tbl[x], va)
  IN
  /\ panicked = "" /\ work[p].todo # {}
  /\ free >= FrameFor(va) + Cardinality(miss)
  /\ panicked' = IF va \in tbl[x].pages THEN "mappages: remap" ELSE ""
  /\ free' = free - FrameFor(va) - Cardinality(miss)
  /\ tbl' = [tbl EXCEPT ![x] = [tab |-> tbl[x].tab \union miss, pages |-> tbl[x].pages \union {va}]]
  /\ work' = [work EXCEPT ![p] = [work[p] EXCEPT !.todo = work[p].todo \ {va}]]
  /\ UNCHANGED <<procVars, held>>

\* The page-table pages walk() got, from the upper level down, before memory ran
\* out; they stay in the table.
Got(t, va) ==
  {n \in Missing(t, va) :
     Cardinality({m \in Missing(t, va) : m[1] >= n[1]}) <= free - FrameFor(va)}

\* Mutant: uvmalloc() and uvmcopy() leave the pages they have mapped.
UndoneMutant(p, t, va) == t

\* The pages mapped by the loop that failed at va are unmapped again: uvmdealloc()
\* in uvmalloc(), uvmunmap() in uvmcopy(), TRAMPOLINE in proc_pagetable().
Undone(p, t, va) ==
  CASE work[p].op = "fault" -> t
    [] work[p].op # "fault" /\ va \in Kernel -> uvmunmap(t, Kernel)
    [] work[p].op = "fork" /\ va \notin Kernel -> uvmunmap(t, Span(0, va))
    [] OTHER -> uvmunmap(t, Span(PGROUNDUP(work[p].from), va))

\* Out of memory while page va is mapped: the loop is undone; fork and exec free
\* the table they were building, sbrk and vmfault() keep theirs.
OutOfMemory(p) ==
  LET x == work[p].id
      va == NextPage(p)
      t0 == [tbl[x] EXCEPT !.tab = tbl[x].tab \union Got(tbl[x], va)]
      t1 == Undone(p, t0, va)
      back == Cardinality((t0.pages \ t1.pages) \ Kernel)
      keep == work[p].op \in {"sbrk", "fault"}
  IN
  /\ panicked = "" /\ work[p].todo # {}
  /\ free < FrameFor(va) + Cardinality(Missing(tbl[x], va))
  /\ tbl' = [tbl EXCEPT ![x] = IF keep THEN t1 ELSE NoTable]
  /\ free' = free - Cardinality(Got(tbl[x], va)) + back
             + (IF keep THEN 0 ELSE Given(t1, work[p].sz) + Extra(p))
  /\ panicked' = IF ~keep /\ LeavesLeft(t1, work[p].sz) # {} THEN "freewalk: leaf" ELSE ""
  /\ Abandon(p)
  /\ UNCHANGED <<sz, held>>

-----------------------------------------------------------------------------
(* Operations go on once a loop is done, and end.                           *)

\* kfork(): uvmcopy() of the pages the parent has mapped.
CopyUser(p) ==
  /\ In(p, "copy")
  /\ work' = [work EXCEPT ![p] = [work[p] EXCEPT
                !.todo = tbl[<<p, "cur">>].pages \intersect UserPages(sz[p]), !.next = "forked"]]
  /\ UNCHANGED <<procVars, tbl, free, panicked, held>>

Forked(p) ==
  LET c == work[p].id[1] IN
  /\ In(p, "forked")
  /\ state' = [state EXCEPT ![c] = "running"] /\ sz' = [sz EXCEPT ![c] = sz[p]]
  /\ work' = [work EXCEPT ![p] = NoWork]
  /\ UNCHANGED <<tf, tbl, free, panicked, held>>

\* growproc() after uvmalloc(), vmfault() after its page.
Grown(p) ==
  /\ In(p, "grown") \/ In(p, "done")
  /\ sz' = [sz EXCEPT ![p] = IF work[p].next = "grown" THEN work[p].to ELSE sz[p]]
  /\ work' = [work EXCEPT ![p] = NoWork]
  /\ UNCHANGED <<state, tf, tbl, free, panicked, held>>

\* bad: in kexec(): the table built so far is freed with the size reached so far.
ExecBad(p) ==
  LET t == tbl[<<p, "new">>] IN
  /\ free' = free + Given(t, work[p].sz) + Extra(p)
  /\ panicked' = IF LeavesLeft(t, work[p].sz) # {} THEN "freewalk: leaf" ELSE ""
  /\ tbl' = [tbl EXCEPT ![<<p, "new">>] = NoTable]
  /\ work' = [work EXCEPT ![p] = NoWork]
  /\ UNCHANGED <<procVars, held>>

\* uvmalloc() of the next segment, or of the guard page and the stack after the last.
\* A size of 0 is uvmalloc()'s error return.
ExecAlloc(p) ==
  LET w == work[p]
      stack == w.segs = <<>>
      from == IF stack THEN PGROUNDUP(w.sz) * PGSIZE ELSE w.sz
      to == IF stack THEN from + (USERSTACK + 1) * PGSIZE
            ELSE w.segs[1].va * PGSIZE + w.segs[1].memsz
      end == IF to < from THEN from ELSE to
  IN
  /\ In(p, "segment")
  /\ \/ end = 0 /\ ExecBad(p)
     \/ /\ end # 0
        /\ work' = [work EXCEPT ![p] = [w EXCEPT
                      !.from = from, !.sz = from, !.to = end,
                      !.todo = Span(PGROUNDUP(from), PGROUNDUP(to)),
                      !.next = IF stack THEN "args" ELSE "load"]]
        /\ UNCHANGED <<procVars, tbl, free, panicked, held>>

\* loadseg(): the file may end before the segment does.
ExecLoad(p) ==
  LET w == work[p]
      loaded == [w EXCEPT !.sz = w.to, !.segs = Tail(w.segs), !.next = "segment"]
  IN
  /\ In(p, "load")
  /\ work' = [work EXCEPT ![p] = IF w.segs[1].ok THEN loaded
                                 ELSE [loaded EXCEPT !.next = "bad", !.segs = <<>>]]
  /\ UNCHANGED <<procVars, tbl, free, panicked, held>>

\* The arguments do not fit on the stack, or the segment was not loaded.
ExecFail(p) ==
  \/ In(p, "bad") /\ ExecBad(p)
  \/ /\ In(p, "args")
     /\ work' = [work EXCEPT ![p] = [work[p] EXCEPT !.sz = work[p].to, !.next = "bad"]]
     /\ UNCHANGED <<procVars, tbl, free, panicked, held>>

\* kexec() commits to the new image and frees the old one; the arguments' pages go.
ExecCommit(p) ==
  LET old == tbl[<<p, "cur">>] IN
  /\ In(p, "args")
  /\ tbl' = [tbl EXCEPT ![<<p, "cur">>] = tbl[<<p, "new">>], ![<<p, "new">>] = NoTable]
  /\ free' = free + Given(old, sz[p]) + Extra(p)
  /\ panicked' = IF LeavesLeft(old, sz[p]) # {} THEN "freewalk: leaf" ELSE ""
  /\ sz' = [sz EXCEPT ![p] = work[p].to]
  /\ work' = [work EXCEPT ![p] = NoWork]
  /\ UNCHANGED <<state, tf, held>>

\* kexit(): the memory stays until the parent waits.
Exit(p) ==
  /\ Ready(p) /\ p # 1
  /\ state' = [state EXCEPT ![p] = "zombie"]
  /\ UNCHANGED <<sz, tf, tbl, work, free, panicked, held>>

\* kwait() finds zombie p: freeproc().
Reap(p) ==
  LET t == tbl[<<p, "cur">>] IN
  /\ panicked = "" /\ state[p] = "zombie"
  /\ free' = free + Given(t, sz[p]) + 1
  /\ panicked' = IF LeavesLeft(t, sz[p]) # {} THEN "freewalk: leaf" ELSE ""
  /\ state' = [state EXCEPT ![p] = "unused"] /\ sz' = [sz EXCEPT ![p] = 0]
  /\ tf' = [tf EXCEPT ![p] = FALSE] /\ tbl' = [tbl EXCEPT ![<<p, "cur">>] = NoTable]
  /\ UNCHANGED <<work, held>>

\* kalloc() and kfree() elsewhere in the kernel (a pipe's page, for one).
Take == panicked = "" /\ free > 0 /\ held < MaxHeld /\ free' = free - 1 /\ held' = held + 1
        /\ UNCHANGED <<procVars, tbl, work, panicked>>

Give == panicked = "" /\ held > 0 /\ free' = free + 1 /\ held' = held - 1
        /\ UNCHANGED <<procVars, tbl, work, panicked>>

\* userinit(): the first process has a page table and no user memory.
FirstTable == [tab |-> {Root} \union Path(TRAMPOLINE), pages |-> Kernel]

Init ==
  /\ state = [p \in Slots |-> IF p = 1 THEN "running" ELSE "unused"]
  /\ sz = [p \in Slots |-> 0] /\ tf = [p \in Slots |-> p = 1]
  /\ tbl = [x \in Tables |-> IF x = <<1, "cur">> THEN FirstTable ELSE NoTable]
  /\ work = [p \in Slots |-> NoWork]
  /\ free = NFrames - 4 /\ held = 0 /\ panicked = ""

Next ==
  \/ Take \/ Give
  \/ \E p \in Slots :
       \/ \E c \in Slots : Fork(p, c)
       \/ \E prog \in Programs : Exec(p, prog)
       \/ \E n \in Deltas : SbrkEager(p, n) \/ SbrkShrink(p, n) \/ SbrkLazy(p, n)
       \/ \E va \in Pages : Fault(p, va)
       \/ CreateRoot(p) \/ MapPage(p) \/ OutOfMemory(p) \/ CopyUser(p) \/ Forked(p) \/ Grown(p)
       \/ ExecAlloc(p) \/ ExecLoad(p) \/ ExecFail(p) \/ ExecCommit(p)
       \/ Exit(p) \/ Reap(p)

Spec == Init /\ [][Next]_vars

-----------------------------------------------------------------------------
(* Properties.                                                              *)

\* What the frames are used for: trapframes, page-table pages, user pages and
\* the arguments of exec.
Trapframes == {p \in Slots : tf[p]}
TablePages == {u \in Tables \X NodeNames : u[2] \in tbl[u[1]].tab}
MappedPages == {u \in Tables \X Pages : u[2] \in tbl[u[1]].pages \ Kernel}
Arguments == {u \in Slots \X (1..MAXARG) : u[2] <= work[u[1]].nargs}

\* Every frame is free or has one use, at every step: no operation leaks a frame
\* or frees one twice, wherever it runs out of memory.
Conserved ==
  free + held + Cardinality(Trapframes) + Cardinality(TablePages) + Cardinality(MappedPages)
    + Cardinality(Arguments) = NFrames

\* No operation reaches "freewalk: leaf" or "mappages: remap": fork, exec and wait
\* unmap everything before they free a table, and no page is mapped twice.
NoPanic == panicked = ""

\* Between operations a mapped user page lies below the size of its process, so
\* that exit unmaps it, and the kernel's two pages are mapped; and the size stays
\* below those two pages whatever sbrk() is called with, although the code
\* computes it modulo 2^64.
MappedBelowSize ==
  /\ \A p \in Slots : sz[p] \in 0..(TRAPFRAME * PGSIZE)
  /\ \A p \in Slots : (state[p] \in {"running", "zombie"} /\ work[p].op = "none") =>
       tbl[<<p, "cur">>].pages \subseteq UserPages(sz[p]) \union Kernel /\ Kernel \subseteq tbl[<<p, "cur">>].pages
===============================================================================
