-------------------------------- MODULE Bcache --------------------------------
(***************************************************************************)
(* The buffer cache of xv6 and what it stands on: kernel/bio.c,            *)
(* kernel/sleeplock.c and the disk driver kernel/virtio_disk.c.            *)
(*                                                                         *)
(* Processes read blocks, change them and pin the changed ones as the log  *)
(* does (log_write), and write a pinned block to the disk and unpin it as  *)
(* the log's commit does. A step is a section of code under one spin lock  *)
(* (bcache.lock, a sleep lock's lk, vdisk_lock) or the sleep() after it.   *)
(* The device completes requests in any order, and raises an interrupt.    *)
(***************************************************************************)
EXTENDS Integers, Sequences, FiniteSets, FiniteSetsExt

CONSTANTS Procs,    \* processes
          Blocks,   \* blocks of the disk
          NBUF,     \* buffers
          NUM,      \* descriptors of the disk's queue
          MaxPin    \* bound: blocks pinned at a time

\* No process, no block.
None == "none"

ASSUME BcacheAssumption ==
  /\ NBUF \in Nat /\ NUM \in Nat /\ MaxPin \in Nat /\ NUM >= 3
  /\ IsFiniteSet(Procs) /\ None \notin Procs /\ None \notin Blocks

VARIABLES buf,      \* bcache.buf
          lru,      \* the list from bcache.head, most recently used first
          disk,     \* contents of the disk
          latest,   \* what each block should contain: the last change made to it
          pinned,   \* blocks that bpin() holds for the log
          panicked, \* bget() has panicked: it spins for ever, with bcache.lock
          free,     \* disk.free: the free descriptors
          req,      \* disk.info, disk.ops and the chain, by first descriptor
          avail,    \* first descriptors the device has not handled
          used,     \* the used ring from used_idx on
          irq,      \* the device's interrupt is pending
          intr,     \* virtio_disk_intr() is in its loop, under vdisk_lock
          st, chan, \* p->state and p->chan
          op        \* what each process does

vars == <<buf, lru, disk, latest, pinned, panicked, free, req, avail, used, irq, intr, st, chan, op>>
diskVars == <<disk, free, req, avail, used, irq, intr>>
cacheVars == <<lru, latest, pinned, panicked>>

Bufs == 1..NBUF
Descs == 1..NUM
NoOp == [pc |-> "user", k |-> None, b |-> 0, write |-> FALSE, head |-> 0]
NoReq == [b |-> 0, write |-> FALSE, chain |-> <<>>]
FreeChan == <<"free", 0>>
NoChan == <<"none", 0>>
Entries(s) == {s[i] : i \in DOMAIN s}

At(p, pc) == st[p] = "running" /\ op[p].pc = pc
Goto(p, pc) == op' = [op EXCEPT ![p].pc = pc]

\* Mutant: wakeup() overlooks a process that has not gone to sleep yet.
WokenMutant(c) == [p \in Procs |-> IF chan[p] = c /\ st[p] = "sleeping" THEN NoChan ELSE chan[p]]

\* p->chan and p->state after wakeup(c).
Woken(c) == [p \in Procs |-> IF chan[p] = c THEN NoChan ELSE chan[p]]
Runnable(c) == [p \in Procs |-> IF chan[p] = c THEN "running" ELSE st[p]]

\* sleep(), after sleep_prepare() and the release of the lock.
sleep(p) ==
  /\ st[p] = "running" /\ op[p].pc \in {"lock-zz", "desc-zz", "rw-zz"}
  /\ Goto(p, CASE op[p].pc = "lock-zz" -> "lock" [] op[p].pc = "desc-zz" -> "desc" [] OTHER -> "rw")
  /\ st' = [st EXCEPT ![p] = IF chan[p] = NoChan THEN @ ELSE "sleeping"]
  /\ UNCHANGED <<buf, cacheVars, diskVars, chan>>

\* kkill() ends any sleep(); none of the loops here looks at killed.
kkill(p) ==
  /\ st[p] = "sleeping"
  /\ st' = [st EXCEPT ![p] = "running"]
  /\ UNCHANGED <<buf, cacheVars, diskVars, chan, op>>

-----------------------------------------------------------------------------
(* bio.c and sleeplock.c                                                    *)

\* The buffers that hold block k.
Cached(k) == {b \in Bufs : buf[b].blockno = k}

\* bget(): the block is cached.
BgetHit(p, k) ==
  /\ At(p, "user") /\ ~panicked /\ Cached(k) # {}
  /\ LET b == lru[Min({i \in DOMAIN lru : lru[i] \in Cached(k)})] IN
       /\ buf' = [buf EXCEPT ![b].refcnt = @ + 1]
       /\ op' = [op EXCEPT ![p] = [NoOp EXCEPT !.pc = "lock", !.k = k, !.b = b]]
  /\ UNCHANGED <<cacheVars, diskVars, st, chan>>

\* Mutant: the contents of the block that was there before count as valid.
RecycledMutant(x, k) == [x EXCEPT !.blockno = k, !.refcnt = 1]

\* A buffer that is given to block k.
Recycled(x, k) == [x EXCEPT !.blockno = k, !.valid = FALSE, !.refcnt = 1]

\* bget(): the least recently used unused buffer is recycled.
BgetMiss(p, k) ==
  /\ At(p, "user") /\ ~panicked /\ Cached(k) = {} /\ \E b \in Bufs : buf[b].refcnt = 0
  /\ LET b == lru[Max({i \in DOMAIN lru : buf[lru[i]].refcnt = 0})] IN
       /\ buf' = [buf EXCEPT ![b] = Recycled(@, k)]
       /\ op' = [op EXCEPT ![p] = [NoOp EXCEPT !.pc = "lock", !.k = k, !.b = b]]
  /\ UNCHANGED <<cacheVars, diskVars, st, chan>>

\* bget(): every buffer is in use or pinned.
BgetPanics(p, k) ==
  /\ At(p, "user") /\ ~panicked /\ Cached(k) = {} /\ \A b \in Bufs : buf[b].refcnt # 0
  /\ panicked' = TRUE
  /\ UNCHANGED <<buf, lru, latest, pinned, diskVars, st, chan, op>>

\* panic() does not return; the others stop as they come to bcache.lock.
Spin == panicked /\ UNCHANGED vars

\* acquiresleep(): the lock is free. bread() goes on to the disk unless the buffer is valid.
Locked(p) ==
  LET b == op[p].b IN
  /\ At(p, "lock") /\ buf[b].holder = None
  /\ buf' = [buf EXCEPT ![b].holder = p]
  /\ Goto(p, IF buf[b].valid THEN "hold" ELSE "desc")
  /\ UNCHANGED <<cacheVars, diskVars, st, chan>>

\* acquiresleep(): the lock is taken.
LockBusy(p) ==
  LET b == op[p].b IN
  /\ At(p, "lock") /\ buf[b].holder # None
  /\ chan' = [chan EXCEPT ![p] = <<"lock", b>>]
  /\ Goto(p, "lock-zz")
  /\ UNCHANGED <<buf, cacheVars, diskVars, st>>

\* The holder changes the block; log_write() pins it the first time.
Modify(p) ==
  LET k == op[p].k
      b == op[p].b
      new == 1 - buf[b].data
  IN
  /\ At(p, "hold") /\ (k \in pinned \/ (~panicked /\ Cardinality(pinned) < MaxPin))
  /\ buf' = [buf EXCEPT ![b].data = new, ![b].refcnt = IF k \in pinned THEN @ ELSE @ + 1]
  /\ latest' = [latest EXCEPT ![k] = new]
  /\ pinned' = pinned \union {k}
  /\ UNCHANGED <<lru, panicked, diskVars, st, chan, op>>

\* bwrite() by the log's commit.
bwrite(p) ==
  /\ At(p, "hold") /\ op[p].k \in pinned
  /\ op' = [op EXCEPT ![p].pc = "desc", ![p].write = TRUE]
  /\ UNCHANGED <<buf, cacheVars, diskVars, st, chan>>

\* bunpin() after it.
bunpin(p) ==
  /\ At(p, "unpin") /\ ~panicked
  /\ buf' = [buf EXCEPT ![op[p].b].refcnt = @ - 1]
  /\ pinned' = pinned \ {op[p].k}
  /\ op' = [op EXCEPT ![p].pc = "hold", ![p].write = FALSE]
  /\ UNCHANGED <<lru, latest, panicked, diskVars, st, chan>>

\* brelse(): releasesleep() ...
Brelse(p) ==
  LET b == op[p].b IN
  /\ At(p, "hold")
  /\ buf' = [buf EXCEPT ![b].holder = None]
  /\ chan' = Woken(<<"lock", b>>) /\ st' = Runnable(<<"lock", b>>)
  /\ Goto(p, "release")
  /\ UNCHANGED <<cacheVars, diskVars>>

\* Mutant: a buffer somebody waits for is not given back.
DropMutant(n) == IF n = 2 THEN n ELSE n - 1

\* The count after brelse().
Drop(n) == n - 1

\* The list after the buffer b is unlinked and put in after bcache.head.
ToFront(b) ==
  LET i == CHOOSE i \in Bufs : lru[i] = b
  IN [j \in Bufs |-> IF j = 1 THEN b ELSE IF j <= i THEN lru[j - 1] ELSE lru[j]]

\* ... and then the reference goes; an unused buffer becomes the most recently used.
BrelseRef(p) ==
  LET b == op[p].b IN
  /\ At(p, "release") /\ ~panicked
  /\ buf' = [buf EXCEPT ![b].refcnt = Drop(@)]
  /\ lru' = IF Drop(buf[b].refcnt) = 0 THEN ToFront(b) ELSE lru
  /\ op' = [op EXCEPT ![p] = NoOp]
  /\ UNCHANGED <<latest, pinned, panicked, diskVars, st, chan>>

-----------------------------------------------------------------------------
(* virtio_disk.c                                                            *)

\* alloc_desc() three times: the lowest free descriptors.
Lowest3 ==
  LET first == Min(free)
      second == Min(free \ {first})
  IN <<first, second, Min(free \ {first, second})>>

\* virtio_disk_rw(): three descriptors, the request, and sleep_prepare(b).
Submit(p) ==
  LET idx == Lowest3
      b == op[p].b
  IN
  /\ At(p, "desc") /\ ~intr /\ Cardinality(free) >= 3
  /\ free' = free \ Entries(idx)
  /\ req' = [req EXCEPT ![idx[1]] = [b |-> b, write |-> op[p].write, chain |-> idx]]
  /\ buf' = [buf EXCEPT ![b].disk = TRUE]
  /\ avail' = avail \union {idx[1]}
  /\ chan' = [chan EXCEPT ![p] = <<"buf", b>>]
  /\ op' = [op EXCEPT ![p].pc = "rw-zz", ![p].head = idx[1]]
  /\ UNCHANGED <<cacheVars, disk, used, irq, intr, st>>

\* Mutant: the descriptors got before the shortage are kept.
GivenBackMutant == {}

\* alloc3_desc() frees what it got: all that was free.
GivenBack == free

\* alloc3_desc() fails: free_desc() of the descriptors it got wakes those who wait for
\* descriptors, and the process waits for one, too.
NoDescs(p) ==
  /\ At(p, "desc") /\ ~intr /\ Cardinality(free) < 3
  /\ free' = GivenBack
  /\ st' = IF free = {} THEN st ELSE Runnable(FreeChan)
  /\ chan' = [(IF free = {} THEN chan ELSE Woken(FreeChan)) EXCEPT ![p] = FreeChan]
  /\ Goto(p, "desc-zz")
  /\ UNCHANGED <<buf, cacheVars, disk, req, avail, used, irq, intr>>

\* virtio_disk_rw() wakes up, and the request is not done.
StillBusy(p) ==
  /\ At(p, "rw") /\ ~intr /\ buf[op[p].b].disk
  /\ chan' = [chan EXCEPT ![p] = <<"buf", op[p].b>>]
  /\ Goto(p, "rw-zz")
  /\ UNCHANGED <<buf, cacheVars, diskVars, st>>

\* The request is done: free_chain(), and a buffer that was read is valid.
Finished(p) ==
  LET b == op[p].b
      d == op[p].head
  IN
  /\ At(p, "rw") /\ ~intr /\ ~buf[b].disk
  /\ free' = free \union Entries(req[d].chain)
  /\ req' = [req EXCEPT ![d] = NoReq]
  /\ chan' = Woken(FreeChan) /\ st' = Runnable(FreeChan)
  /\ buf' = [buf EXCEPT ![b].valid = TRUE]
  /\ op' = [op EXCEPT ![p].pc = IF op[p].write THEN "unpin" ELSE "hold", ![p].head = 0]
  /\ UNCHANGED <<cacheVars, disk, avail, used, irq, intr>>

\* The device handles a request, of those waiting any, and raises its interrupt.
Device(d) ==
  LET b == req[d].b
      k == buf[b].blockno
  IN
  /\ d \in avail
  /\ disk' = IF req[d].write THEN [disk EXCEPT ![k] = buf[b].data] ELSE disk
  /\ buf' = IF req[d].write THEN buf ELSE [buf EXCEPT ![b].data = disk[k]]
  /\ avail' = avail \ {d} /\ used' = Append(used, d) /\ irq' = TRUE
  /\ UNCHANGED <<cacheVars, free, req, intr, st, chan, op>>

\* virtio_disk_intr() acknowledges the interrupt before it looks at the ring.
IntrStart ==
  /\ irq /\ ~intr
  /\ intr' = TRUE /\ irq' = FALSE
  /\ UNCHANGED <<buf, cacheVars, disk, free, req, avail, used, st, chan, op>>

\* One turn of the loop: the buffer of the next used entry is done.
IntrEntry ==
  LET b == req[used[1]].b IN
  /\ intr /\ used # <<>>
  /\ buf' = [buf EXCEPT ![b].disk = FALSE]
  /\ chan' = Woken(<<"buf", b>>) /\ st' = Runnable(<<"buf", b>>)
  /\ used' = Tail(used)
  /\ UNCHANGED <<cacheVars, disk, free, req, avail, irq, intr, op>>

\* The loop has found the ring empty.
IntrEmpty ==
  /\ intr /\ used = <<>>
  /\ intr' = FALSE
  /\ UNCHANGED <<buf, cacheVars, disk, free, req, avail, used, irq, st, chan, op>>

Init ==
  /\ buf = [b \in Bufs |-> [blockno |-> None, valid |-> FALSE, refcnt |-> 0, holder |-> None,
                            disk |-> FALSE, data |-> 0]]
  /\ lru = [i \in Bufs |-> NBUF + 1 - i]
  /\ disk = [k \in Blocks |-> 0] /\ latest = disk /\ pinned = {} /\ panicked = FALSE
  /\ free = Descs /\ req = [d \in Descs |-> NoReq] /\ avail = {} /\ used = <<>>
  /\ irq = FALSE /\ intr = FALSE
  /\ st = [p \in Procs |-> "running"] /\ chan = [p \in Procs |-> NoChan] /\ op = [p \in Procs |-> NoOp]

Next ==
  \/ \E p \in Procs :
       \/ \E k \in Blocks : BgetHit(p, k) \/ BgetMiss(p, k) \/ BgetPanics(p, k)
       \/ sleep(p) \/ kkill(p) \/ Locked(p) \/ LockBusy(p) \/ Modify(p) \/ bwrite(p) \/ bunpin(p)
       \/ Brelse(p) \/ BrelseRef(p) \/ Submit(p) \/ NoDescs(p) \/ StillBusy(p) \/ Finished(p)
  \/ \E d \in Descs : Device(d)
  \/ IntrStart \/ IntrEntry \/ IntrEmpty \/ Spin

Spec == Init /\ [][Next]_vars

-----------------------------------------------------------------------------
(* Properties.                                                              *)

\* Who has bread() a block is alone with the only buffer of that block, and the
\* buffer holds the last change anybody made to it, however often it was recycled,
\* read again and written back in between.
HolderSeesLatest ==
  \A p \in Procs : op[p].pc \in {"hold", "unpin"} =>
    LET x == buf[op[p].b] IN
    /\ x.holder = p /\ x.valid /\ x.blockno = op[p].k /\ x.data = latest[op[p].k]
    /\ \A b \in Bufs : buf[b].blockno = op[p].k => b = op[p].b

\* Processes with a reference to buffer b.
Users(b) == {p \in Procs : op[p].b = b}

\* A buffer's count is the number of its users and its pin, through recycling, waiting
\* for the lock, pinning and release: a buffer in use or pinned is never recycled, and
\* none is lost, so that bget() panics only when users and pins fill the cache.
RefsExact ==
  \A b \in Bufs : buf[b].refcnt = Cardinality(Users(b)) + (IF buf[b].blockno \in pinned THEN 1 ELSE 0)

\* Every descriptor is free or in the chain of one request, requests that wait for
\* a descriptor give back the ones they could get, and every request belongs to
\* a process that holds its buffer.
DescsExact ==
  /\ \A d \in Descs : (d \in free) <=> (\A h \in Descs : d \notin Entries(req[h].chain))
  /\ \A g, h \in Descs : g # h => Entries(req[g].chain) \intersect Entries(req[h].chain) = {}
  /\ \A h \in Descs : req[h].b # 0 =>
       \E p \in Procs : op[p].head = h /\ op[p].b = req[h].b /\ buf[req[h].b].holder = p

\* p sleeps at pc, or will from zz on unless c is woken first.
Waits(p, zz, pc, c) == (op[p].pc = zz /\ chan[p] = c) \/ (op[p].pc = pc /\ st[p] = "sleeping")

\* No lost wakeup: a process waits for a sleep lock only while it is held, for
\* descriptors only while there are too few, and for its request only until it
\* is done; a request that is not done is with the device, or in the used ring
\* with an interrupt to come or being handled.
NoLostWakeup ==
  \A p \in Procs :
    /\ Waits(p, "lock-zz", "lock", <<"lock", op[p].b>>) => buf[op[p].b].holder # None
    /\ Waits(p, "desc-zz", "desc", FreeChan) => Cardinality(free) < 3
    /\ Waits(p, "rw-zz", "rw", <<"buf", op[p].b>>) =>
         /\ buf[op[p].b].disk
         /\ op[p].head \in avail \/ (op[p].head \in Entries(used) /\ (irq \/ intr))
===============================================================================
