------------------------------ MODULE FileSystem ------------------------------
(***************************************************************************)
(* Inodes, directories and the file system calls of xv6 (kernel/fs.c,      *)
(* sysfile.c and the inode part of file.c), run by several processes.      *)
(*                                                                         *)
(* A section under an inode's sleep-lock is one step; where the code takes *)
(* a second inode lock, or calls iput(), while it holds the first, another *)
(* process may run in between, and the held lock is part of the state. An  *)
(* inode has its copy on the disk (disk) and one in the inode table (mem). *)
(* The blocks of a directory hold its entries (dents), the blocks of a     *)
(* file nothing the model tells apart. begin_op() and end_op() bracket a   *)
(* call: the log (module Log) makes the calls between two moments at which *)
(* no call is in progress one atomic transaction, so that a crash leaves   *)
(* the disk as it was at the last such moment.                             *)
(***************************************************************************)
EXTENDS Integers, Sequences, FiniteSets, FiniteSetsExt

CONSTANTS Procs,      \* processes that make file system calls
          None,       \* no process, no descriptor
          NInodes,    \* sb.ninodes - 1
          NBlocks,    \* data blocks of the disk
          Names,      \* names of entries, NoName that of a free one
          Args,       \* calls made: [call, path, new], a path being [abs, elems]
          Setups,     \* bound: sequences of calls, one of which is made first
          Dirents,    \* entries in a directory block
          NDIRECT,    \* direct blocks of an inode
          MAXFILE,    \* blocks of a file
          NLINK_MAX,  \* links to an inode
          MaxCalls    \* bound: calls in a behaviour

Calls == {"open", "trunc", "creat", "mkdir", "mknod", "unlink", "link", "chdir"}
NoName == "no name"
Path == [abs : BOOLEAN, elems : Seq(Names)]

ASSUME FileSystemAssumption ==
  /\ IsFiniteSet(Procs) /\ None \notin Procs
  /\ None \notin [ip : 1..NInodes, off : Nat, writable : BOOLEAN]
  /\ NInodes \in Nat \ {0} /\ NBlocks \in Nat \ {0} /\ MaxCalls \in Nat
  /\ NDIRECT \in Nat \ {0} /\ MAXFILE \in Nat /\ NDIRECT <= MAXFILE
  /\ Dirents \in Nat /\ Dirents >= 2 /\ NLINK_MAX \in Nat \ {0}
  /\ {NoName, ".", ".."} \subseteq Names
  /\ Args \subseteq [call : Calls, path : Path, new : Path]
  /\ Setups \subseteq Seq(Args)

VARIABLES
  disk,      \* dinodes
  dents,     \* contents of the directories' blocks: sequences of <<name, inum>>
  bitmap,    \* data blocks marked in use
  mem,       \* itable: reference count, sleep-lock, validity and copy of each inode
  cwd,       \* working directory of each process
  fd,        \* the open file of each process
  pr,        \* the call each process is in
  boot,      \* next inode ireclaim() looks at; 0 once the system is up
  panicked,  \* the panic() reached, "no" if none
  ncalls,    \* calls begun so far
  setup      \* the calls made first

vars == <<disk, dents, bitmap, mem, cwd, fd, pr, boot, panicked, ncalls, setup>>
fsVars == <<disk, dents, bitmap, mem>>
bootVars == <<boot, panicked>>
callVars == <<ncalls, setup>>

Inums  == 1..NInodes
Blocks == 1..NBlocks
ROOTINO == 1
FreeEnt == <<NoName, 0>>

\* An inode: size in blocks (a file) or entries (a directory); addrs the direct
\* blocks; ind the indirect block followed by the blocks it lists, or empty.
Blank == [type |-> "none", nlink |-> 0, size |-> 0, addrs |-> <<>>, ind |-> <<>>]
FreeSlot == [ref |-> 0, valid |-> FALSE, lock |-> None, d |-> Blank]
Idle == [pc |-> "idle", call |-> "none", at |-> 0, ip |-> 0, dp |-> 0, path |-> <<>>,
         name |-> NoName, new |-> <<>>, puts |-> <<>>, put |-> "start"]

Elements(s) == {s[k] : k \in DOMAIN s}

\* mkfs: a root directory with "." and "..", padded to a whole block.
MkfsRoot == [Blank EXCEPT !.type = "dir", !.nlink = 1, !.size = Dirents, !.addrs = <<1>>]

\* The inode table once the processes run, all in the root directory.
BootTable ==
  [i \in Inums |-> IF i = ROOTINO
                   THEN [ref |-> Cardinality(Procs), valid |-> FALSE, lock |-> None, d |-> Blank]
                   ELSE FreeSlot]

Init ==
  /\ disk = [i \in Inums |-> IF i = ROOTINO THEN MkfsRoot ELSE Blank]
  /\ dents = [i \in Inums |->
                IF i = ROOTINO
                THEN [k \in 1..Dirents |-> IF k = 1 THEN <<".", ROOTINO>>
                                           ELSE IF k = 2 THEN <<"..", ROOTINO>> ELSE FreeEnt]
                ELSE <<>>]
  /\ bitmap = {1}
  /\ mem = BootTable
  /\ cwd = [p \in Procs |-> ROOTINO] /\ fd = [p \in Procs |-> None]
  /\ pr = [p \in Procs |-> Idle]
  /\ boot = 0 /\ panicked = "no" /\ ncalls = 0 /\ setup \in Setups

-----------------------------------------------------------------------------
(* Blocks and inode contents.                                               *)

\* The block balloc() finds first; 0 when the disk is full.
balloc(used) == IF Blocks \subseteq used THEN 0 ELSE Min(Blocks \ used)

\* Mutant: an indirect block allocated in vain is forgotten.
bmapMutant(d, used, bn) ==
  LET b == balloc(used)
      c == balloc(used \union {b})
      k == bn - NDIRECT + 2
  IN IF bn < Len(d.addrs) THEN [d |-> d, used |-> used, addr |-> d.addrs[bn + 1]]
     ELSE IF b = 0 THEN [d |-> d, used |-> used, addr |-> 0]
     ELSE IF bn < NDIRECT
     THEN [d |-> [d EXCEPT !.addrs = Append(@, b)], used |-> used \union {b}, addr |-> b]
     ELSE IF k <= Len(d.ind) THEN [d |-> d, used |-> used, addr |-> d.ind[k]]
     ELSE IF d.ind # <<>>
     THEN [d |-> [d EXCEPT !.ind = Append(@, b)], used |-> used \union {b}, addr |-> b]
     ELSE IF c = 0 THEN [d |-> d, used |-> used \union {b}, addr |-> 0]
     ELSE [d |-> [d EXCEPT !.ind = <<b, c>>], used |-> used \union {b, c}, addr |-> c]

\* bmap(): block bn of inode d, allocated if there is none; the indirect block
\* stays allocated when the block it should list cannot be had.
bmap(d, used, bn) ==
  LET b == balloc(used) IN
  IF bn < NDIRECT
  THEN IF bn < Len(d.addrs) THEN [d |-> d, used |-> used, addr |-> d.addrs[bn + 1]]
       ELSE IF b = 0 THEN [d |-> d, used |-> used, addr |-> 0]
       ELSE [d |-> [d EXCEPT !.addrs = Append(@, b)], used |-> used \union {b}, addr |-> b]
  ELSE LET d1 == IF d.ind = <<>> /\ b # 0 THEN [d EXCEPT !.ind = <<b>>] ELSE d
           used1 == used \union Elements(d1.ind)
           k == bn - NDIRECT + 2
           c == balloc(used1)
       IN IF d1.ind = <<>> THEN [d |-> d, used |-> used, addr |-> 0]
          ELSE IF k <= Len(d1.ind) THEN [d |-> d1, used |-> used1, addr |-> d1.ind[k]]
          ELSE IF c = 0 THEN [d |-> d1, used |-> used1, addr |-> 0]
          ELSE [d |-> [d1 EXCEPT !.ind = Append(@, c)], used |-> used1 \union {c}, addr |-> c]

Owned(d) == Elements(d.addrs) \union Elements(d.ind)

\* itrunc(): the inode without its contents (bfree() of every block is in the callers).
itrunc(d) == [d EXCEPT !.addrs = <<>>, !.ind = <<>>, !.size = 0]

\* Inode i as ilock() leaves it in memory.
Inode(i) == IF mem[i].valid THEN mem[i].d ELSE disk[i]

Slots(i, n) == {k \in 1..Inode(i).size : dents[i][k][1] = n /\ dents[i][k][2] # 0}

\* dirlookup(): the inode number under name n in directory i, 0 if there is none.
dirlookup(i, n) == IF Slots(i, n) = {} THEN 0 ELSE dents[i][Min(Slots(i, n))][2]

\* The place of a new entry in directory v (its inode d, its entries ents, the
\* blocks in use): the first empty slot, or the end.
EntrySlot(v) ==
  LET empty == {k \in 1..v.d.size : v.ents[k][2] = 0}
  IN IF empty = {} THEN v.d.size + 1 ELSE Min(empty)

\* writei() of entry e at place slot of directory v, whose block bmap() has found.
EntryWritten(v, slot, m, e) ==
  IF m.addr = 0 THEN [v EXCEPT !.ok = FALSE, !.d = m.d, !.used = m.used]
  ELSE [ok |-> TRUE, used |-> m.used,
        d |-> [m.d EXCEPT !.size = IF slot > m.d.size THEN slot ELSE m.d.size],
        ents |-> IF slot > Len(v.ents) THEN Append(v.ents, e) ELSE [v.ents EXCEPT ![slot] = e]]

\* dirlink() past its test of the name, in directory v.
dirlink(v, n, inum) ==
  LET slot == EntrySlot(v)
  IN IF slot > MAXFILE * Dirents THEN [v EXCEPT !.ok = FALSE]
     ELSE EntryWritten(v, slot, bmap(v.d, v.used, (slot - 1) \div Dirents), <<n, inum>>)

isdirempty(i) == \A k \in 3..Inode(i).size : dents[i][k][2] = 0

-----------------------------------------------------------------------------
(* Locks, references and the calls' bookkeeping.                            *)

Running(p, pc) == panicked = "no" /\ boot = 0 /\ pr[p].pc = pc /\ pr[p].puts = <<>>

\* ilock(i) can return: the lock is free and no panic lies ahead.
ilock(i) == mem[i].lock = None /\ mem[i].ref >= 1 /\ Inode(i).type # "none"

\* The inode table after process p has worked on inode i, now d, under its lock;
\* l is the holder of the lock afterwards.
Left(i, d, l) == [mem EXCEPT ![i] = [@ EXCEPT !.valid = TRUE, !.d = d, !.lock = l]]

\* Mutant: the link count is not copied.
iupdateMutant(i, d) == [disk EXCEPT ![i] = [d EXCEPT !.nlink = disk[i].nlink]]

\* iupdate(): inode i is written back as d.
iupdate(i, d) == [disk EXCEPT ![i] = d]

\* iget() and idup() in table m.
iget(m, i) == [m EXCEPT ![i].ref = @ + 1]

WantsParent(r) == r.call \in {"creat", "mkdir", "mknod", "unlink"} \/ r.ip # 0

\* namex() returned 0.
NoInode(r) == [r EXCEPT !.pc = IF r.ip # 0 THEN "link_bad" ELSE "end", !.at = 0, !.path = <<>>]

\* namex() returned the inode r.at: what its caller does next.
Resolved(r) ==
  LET s == [r EXCEPT !.at = 0, !.path = <<>>] IN
  CASE r.call \in {"creat", "mkdir", "mknod"} -> [s EXCEPT !.pc = "create_dp", !.dp = r.at]
    [] r.call = "unlink"            -> [s EXCEPT !.pc = "unlink_dp", !.dp = r.at]
    [] r.call = "link" /\ r.ip # 0  -> [s EXCEPT !.pc = "link_dp", !.dp = r.at]
    [] r.call = "link" /\ r.ip = 0  -> [s EXCEPT !.pc = "link_ip", !.ip = r.at]
    [] r.call = "chdir"             -> [s EXCEPT !.pc = "chdir_ip", !.ip = r.at]
    [] r.call \in {"open", "trunc"} -> [s EXCEPT !.pc = "open_ip", !.ip = r.at]

\* No call is between begin_op() and end_op(): the log has committed.
Quiescent == \A p \in Procs : pr[p] = Idle

\* The inode process p locks next, 0 if its next step locks none.
Wants(p) ==
  IF pr[p].puts # <<>> THEN 0
  ELSE CASE pr[p].pc = "walk" /\ pr[p].path # <<>> -> pr[p].at
         [] pr[p].pc \in {"create_dp", "unlink_dp", "link_dp"} -> pr[p].dp
         [] pr[p].pc \in {"open_ip", "create_found", "create_ip", "link_ip", "link_bad",
                          "chdir_ip", "unlink_ip"} -> pr[p].ip
         [] OTHER -> 0

\* Process p is about to run into a panic() of ilock(), dirlookup() or sys_unlink().
PanicAhead(p) ==
  LET i == Wants(p) IN
  /\ i # 0
  /\ mem[i].lock = None
  /\ \/ mem[i].ref < 1 \/ Inode(i).type = "none"
     \/ pr[p].pc \in {"create_dp", "unlink_dp", "link_dp"} /\ Inode(i).type # "dir"
     \/ pr[p].pc = "unlink_ip" /\ Inode(i).nlink < 1

-----------------------------------------------------------------------------
(* Calls begin; path names are resolved.                                    *)

From(p, path) == IF path.abs THEN ROOTINO ELSE cwd[p]

\* The bound on calls: those of setup in order, one at a time, then any others.
MayCall(a) ==
  /\ ncalls < Len(setup) + MaxCalls
  /\ ncalls < Len(setup) => (Quiescent /\ a = setup[ncalls + 1])

\* begin_op() and the first reference of namex(); a.new is the second path of link.
Begin(p, a) ==
  /\ Running(p, "idle") /\ MayCall(a)
  /\ pr' = [pr EXCEPT ![p] = [Idle EXCEPT !.pc = "walk", !.call = a.call,
                                !.at = From(p, a.path), !.path = a.path.elems,
                                !.new = IF a.call = "link" THEN <<a.new>> ELSE <<>>]]
  /\ mem' = iget(mem, From(p, a.path)) /\ ncalls' = ncalls + 1
  /\ UNCHANGED <<disk, dents, bitmap, cwd, fd, bootVars, setup>>

\* Mutant: an unlinked directory is searched too.
WalkableMutant(d) == d.type = "dir"

\* namex() looks further only in a directory that is still linked somewhere.
Walkable(d) == d.type = "dir" /\ d.nlink # 0

\* One round of namex()'s loop, under the lock of the inode it has reached.
NamexRound(p) ==
  LET r == pr[p]
      i == r.at
      d == Inode(i)
      name == Head(r.path)
      stop == WantsParent(r) /\ Len(r.path) = 1
  IN
  /\ r.path # <<>> /\ ilock(i)
  /\ \/ /\ Walkable(d) => (~stop /\ dirlookup(i, name) = 0)
        /\ pr' = [pr EXCEPT ![p] = [NoInode(r) EXCEPT !.puts = <<i>>]]
        /\ mem' = Left(i, d, None)
     \/ /\ Walkable(d) /\ stop
        /\ pr' = [pr EXCEPT ![p] = [Resolved(r) EXCEPT !.name = name]]
        /\ mem' = Left(i, d, None)
     \/ /\ Walkable(d) /\ ~stop /\ dirlookup(i, name) # 0
        /\ pr' = [pr EXCEPT ![p].at = dirlookup(i, name), ![p].path = Tail(@), ![p].puts = <<i>>]
        /\ mem' = iget(Left(i, d, None), dirlookup(i, name))

\* namex() at the end of the path.
NamexEnd(p) ==
  LET r == pr[p] IN
  /\ r.path = <<>>
  /\ pr' = [pr EXCEPT ![p] = IF WantsParent(r) THEN [NoInode(r) EXCEPT !.puts = <<r.at>>]
                             ELSE Resolved(r)]
  /\ UNCHANGED mem

Namex(p) ==
  /\ Running(p, "walk")
  /\ NamexRound(p) \/ NamexEnd(p)
  /\ UNCHANGED <<disk, dents, bitmap, cwd, fd, bootVars, callVars>>

-----------------------------------------------------------------------------
(* iput(): references are dropped, unlinked inodes freed.                   *)

\* Mutant: the count is tested as if it were already decremented.
LastMutant(i) == mem[i].ref = 0 /\ mem[i].valid /\ mem[i].d.nlink = 0

\* iput() of the last reference to an unlinked inode.
Last(i) == mem[i].ref = 1 /\ mem[i].valid /\ mem[i].d.nlink = 0

\* ip->lock is free when this is the last reference; itrunc() and iupdate() run
\* under it, without itable.lock.
IputTrunc(p) ==
  LET i == Head(pr[p].puts) IN
  /\ pr[p].put = "start" /\ Last(i)
  /\ panicked' = IF mem[i].lock # None THEN "iput waits for its lock"
                 ELSE IF Owned(mem[i].d) \subseteq bitmap THEN "no" ELSE "freeing free block"
  /\ bitmap' = bitmap \ Owned(mem[i].d)
  /\ disk' = iupdate(i, itrunc(mem[i].d))
  /\ dents' = [dents EXCEPT ![i] = <<>>]
  /\ mem' = [mem EXCEPT ![i].valid = FALSE, ![i].d = Blank]
  /\ pr' = [pr EXCEPT ![p].put = "drop"]

\* ip->ref--: an entry without references is free, its fields are dead.
IputDrop(p) ==
  LET i == Head(pr[p].puts) IN
  /\ pr[p].put = "drop" \/ ~Last(i)
  /\ mem' = [mem EXCEPT ![i] = IF @.ref = 1 THEN FreeSlot ELSE [@ EXCEPT !.ref = mem[i].ref - 1]]
  /\ pr' = [pr EXCEPT ![p].put = IF @ = "drop" THEN "free" ELSE "start",
                      ![p].puts = IF pr[p].put = "drop" THEN @ ELSE Tail(@)]
  /\ UNCHANGED <<disk, dents, bitmap, panicked>>

\* ifree(): only now may ialloc() find the inode.
IputFree(p) ==
  /\ pr[p].put = "free"
  /\ disk' = [disk EXCEPT ![Head(pr[p].puts)].type = "none"]
  /\ pr' = [pr EXCEPT ![p].put = "start", ![p].puts = Tail(@)]
  /\ UNCHANGED <<dents, bitmap, mem, panicked>>

Iput(p) ==
  /\ panicked = "no" /\ boot = 0 /\ pr[p].puts # <<>>
  /\ IputTrunc(p) \/ (pr[p].put # "free" /\ IputDrop(p)) \/ IputFree(p)
  /\ UNCHANGED <<cwd, fd, boot, callVars>>

\* end_op() and the return to user space; sys_chdir() then sets the directory.
End(p) ==
  /\ Running(p, "end") \/ Running(p, "chdir_end")
  /\ cwd' = [cwd EXCEPT ![p] = IF pr[p].pc = "chdir_end" THEN pr[p].ip ELSE @]
  /\ pr' = [pr EXCEPT ![p] = Idle]
  /\ UNCHANGED <<fsVars, fd, bootVars, callVars>>

\* iunlockput(dp) of a call that gives up.
DropDp(p) ==
  /\ Running(p, "drop_dp")
  /\ mem' = [mem EXCEPT ![pr[p].dp].lock = None]
  /\ pr' = [pr EXCEPT ![p].pc = IF pr[p].call = "link" THEN "link_bad" ELSE "end",
                      ![p].puts = <<pr[p].dp>>, ![p].dp = 0]
  /\ UNCHANGED <<disk, dents, bitmap, cwd, fd, bootVars, callVars>>

-----------------------------------------------------------------------------
(* create(), shared by open(O_CREATE), mkdir and mknod.                     *)

TypeOf(call) == CASE call = "creat" -> "file" [] call = "mkdir" -> "dir" [] call = "mknod" -> "device"

\* Mutant: a directory unlinked in the meantime takes new entries.
AcceptsMutant(d, type) == ~(type = "dir" /\ d.nlink >= NLINK_MAX)

\* dp takes a new entry: it is linked somewhere and ".." of a new directory
\* does not push its count past the maximum.
Accepts(d, type) == d.nlink # 0 /\ ~(type = "dir" /\ d.nlink >= NLINK_MAX)

FreeInums == {i \in Inums : disk[i].type = "none"}

\* create() from ilock(dp) to ialloc().
CreateDp(p) ==
  LET r == pr[p]
      dp == r.dp
      d == Inode(dp)
      ip == dirlookup(dp, r.name)
      give == [r EXCEPT !.pc = "end", !.dp = 0, !.puts = <<dp>>]
  IN
  /\ Running(p, "create_dp") /\ ilock(dp) /\ d.type = "dir"
  /\ \/ /\ ~Accepts(d, TypeOf(r.call)) \/ (ip = 0 /\ FreeInums = {})
        /\ pr' = [pr EXCEPT ![p] = give]
        /\ mem' = Left(dp, d, None)
        /\ UNCHANGED disk
     \/ /\ Accepts(d, TypeOf(r.call)) /\ ip # 0
        /\ pr' = [pr EXCEPT ![p] = [give EXCEPT !.pc = "create_found", !.ip = ip]]
        /\ mem' = iget(Left(dp, d, None), ip)
        /\ UNCHANGED disk
     \/ /\ Accepts(d, TypeOf(r.call)) /\ ip = 0 /\ FreeInums # {}
        /\ pr' = [pr EXCEPT ![p].pc = "create_ip", ![p].ip = Min(FreeInums)]
        /\ disk' = [disk EXCEPT ![Min(FreeInums)] = [Blank EXCEPT !.type = TypeOf(r.call)]]
        /\ mem' = iget(Left(dp, d, p), Min(FreeInums))
  /\ UNCHANGED <<dents, bitmap, cwd, fd, bootVars, callVars>>

\* The name exists: open(O_CREATE) takes a file or a device, nothing else fits.
CreateFound(p) ==
  LET ip == pr[p].ip
      d == Inode(ip)
      fits == pr[p].call = "creat" /\ d.type \in {"file", "device"}
  IN
  /\ Running(p, "create_found") /\ ilock(ip)
  /\ mem' = Left(ip, d, IF fits THEN p ELSE None)
  /\ pr' = [pr EXCEPT ![p] = IF fits THEN [@ EXCEPT !.pc = "open_locked"]
                             ELSE [@ EXCEPT !.pc = "end", !.puts = <<ip>>, !.ip = 0]]
  /\ UNCHANGED <<disk, dents, bitmap, cwd, fd, bootVars, callVars>>

\* create() from ilock(ip): the new inode's count, "." and "..", then the entry
\* in dp, which both stay locked; on failure the new inode has no links again.
CreateIp(p) ==
  LET r == pr[p]
      ip == r.ip
      dp == r.dp
      isdir == r.call = "mkdir"
      new == [ok |-> TRUE, used |-> bitmap, ents |-> <<>>, d |-> [Inode(ip) EXCEPT !.nlink = 1]]
      dot == IF isdir THEN dirlink(new, ".", ip) ELSE new
      dotdot == IF isdir /\ dot.ok THEN dirlink(dot, "..", dp) ELSE dot
      dir == [ok |-> FALSE, used |-> dotdot.used, ents |-> dents[dp], d |-> mem[dp].d]
      entry == IF dotdot.ok THEN dirlink(dir, r.name, ip) ELSE dir
      d == IF entry.ok THEN dotdot.d ELSE [dotdot.d EXCEPT !.nlink = 0]
      dpd == IF entry.ok /\ isdir THEN [entry.d EXCEPT !.nlink = @ + 1] ELSE entry.d
  IN
  /\ Running(p, "create_ip") /\ ilock(ip)
  /\ disk' = [disk EXCEPT ![ip] = d, ![dp] = dpd]
  /\ dents' = [dents EXCEPT ![ip] = dotdot.ents, ![dp] = entry.ents]
  /\ bitmap' = entry.used
  /\ mem' = [Left(ip, d, IF entry.ok /\ r.call = "creat" THEN p ELSE None) EXCEPT
               ![dp].d = dpd, ![dp].lock = IF entry.ok THEN None ELSE p]
  /\ pr' = [pr EXCEPT ![p] =
              IF ~entry.ok THEN [@ EXCEPT !.pc = "drop_dp", !.puts = <<ip>>, !.ip = 0]
              ELSE IF r.call = "creat"
              THEN [@ EXCEPT !.pc = "open_locked", !.puts = <<dp>>, !.dp = 0]
              ELSE [@ EXCEPT !.pc = "end", !.puts = <<dp, ip>>, !.dp = 0, !.ip = 0]]
  /\ UNCHANGED <<cwd, fd, bootVars, callVars>>

-----------------------------------------------------------------------------
(* sys_open(), sys_close(), sys_read() and sys_write().                     *)

\* open without O_CREATE: a directory is opened for reading only.
OpenIp(p) ==
  LET ip == pr[p].ip
      refused == Inode(ip).type = "dir" /\ pr[p].call # "open"
  IN
  /\ Running(p, "open_ip") /\ ilock(ip)
  /\ mem' = Left(ip, Inode(ip), IF refused THEN None ELSE p)
  /\ pr' = [pr EXCEPT ![p] = IF refused THEN [@ EXCEPT !.pc = "end", !.puts = <<ip>>, !.ip = 0]
                             ELSE [@ EXCEPT !.pc = "open_locked"]]
  /\ UNCHANGED <<disk, dents, bitmap, cwd, fd, bootVars, callVars>>

\* The rest of sys_open() with ip locked: it fails for want of a file structure,
\* a descriptor or a driver, else truncates if asked to and unlocks.
OpenLocked(p, ok) ==
  LET ip == pr[p].ip
      d == mem[ip].d
      trunc == ok /\ pr[p].call = "trunc" /\ d.type = "file"
  IN
  /\ Running(p, "open_locked") /\ (ok => fd[p] = None)
  /\ mem' = Left(ip, IF trunc THEN itrunc(d) ELSE d, None)
  /\ disk' = [disk EXCEPT ![ip] = IF trunc THEN itrunc(d) ELSE @]
  /\ bitmap' = IF trunc THEN bitmap \ Owned(d) ELSE bitmap
  /\ panicked' = IF trunc /\ ~(Owned(d) \subseteq bitmap) THEN "freeing free block" ELSE "no"
  /\ fd' = [fd EXCEPT ![p] = IF ok THEN [ip |-> ip, off |-> 0, writable |-> pr[p].call # "open"]
                             ELSE @]
  /\ pr' = [pr EXCEPT ![p] = [@ EXCEPT !.pc = "end", !.ip = 0,
                                       !.puts = IF ok THEN <<>> ELSE <<ip>>]]
  /\ UNCHANGED <<dents, cwd, boot, callVars>>

SysClose(p) ==
  /\ Running(p, "idle") /\ fd[p] # None
  /\ fd' = [fd EXCEPT ![p] = None]
  /\ pr' = [pr EXCEPT ![p] = [Idle EXCEPT !.pc = "end", !.call = "close", !.puts = <<fd[p].ip>>]]
  /\ UNCHANGED <<fsVars, cwd, bootVars, callVars>>

\* filewrite() of a block at the file's offset, with writei() under the inode's
\* lock: an offset past the end or a full disk writes nothing.
SysWrite(p) ==
  LET i == fd[p].ip
      off == fd[p].off
      m == bmap(Inode(i), bitmap, off)
      d == IF m.addr # 0 /\ off + 1 > m.d.size THEN [m.d EXCEPT !.size = off + 1] ELSE m.d
  IN
  /\ Running(p, "idle") /\ fd[p] # None
  /\ fd[p].writable /\ ilock(i) /\ Inode(i).type = "file"
  /\ off <= Inode(i).size /\ off < MAXFILE
  /\ mem' = Left(i, d, None)
  /\ disk' = iupdate(i, d)
  /\ bitmap' = m.used
  /\ fd' = [fd EXCEPT ![p].off = IF m.addr # 0 THEN @ + 1 ELSE @]
  /\ UNCHANGED <<dents, cwd, pr, bootVars, callVars>>

\* fileread() of a block: readi() never allocates, the file has no holes.
SysRead(p) ==
  LET i == fd[p].ip IN
  /\ Running(p, "idle") /\ fd[p] # None
  /\ ilock(i) /\ Inode(i).type = "file" /\ fd[p].off < Inode(i).size
  /\ mem' = Left(i, Inode(i), None)
  /\ fd' = [fd EXCEPT ![p].off = @ + 1]
  /\ UNCHANGED <<disk, dents, bitmap, cwd, pr, bootVars, callVars>>

-----------------------------------------------------------------------------
(* sys_unlink(), sys_link() and sys_chdir().                                *)

\* sys_unlink() from ilock(dp) to the reference it takes to ip.
UnlinkDp(p) ==
  LET dp == pr[p].dp
      name == pr[p].name
      ip == dirlookup(dp, name)
      bad == name \in {".", ".."} \/ ip = 0
  IN
  /\ Running(p, "unlink_dp") /\ ilock(dp) /\ Inode(dp).type = "dir"
  /\ mem' = IF bad THEN Left(dp, Inode(dp), None) ELSE iget(Left(dp, Inode(dp), p), ip)
  /\ pr' = [pr EXCEPT ![p] = IF bad THEN [@ EXCEPT !.pc = "end", !.puts = <<dp>>, !.dp = 0]
                             ELSE [@ EXCEPT !.pc = "unlink_ip", !.ip = ip]]
  /\ UNCHANGED <<disk, dents, bitmap, cwd, fd, bootVars, callVars>>

\* With both locked: the entry is cleared, a directory's ".." no longer counts.
UnlinkIp(p) ==
  LET ip == pr[p].ip
      dp == pr[p].dp
      d == Inode(ip)
      dpd == IF d.type = "dir" THEN [mem[dp].d EXCEPT !.nlink = @ - 1] ELSE mem[dp].d
      refused == d.type = "dir" /\ ~isdirempty(ip)
  IN
  /\ Running(p, "unlink_ip") /\ ilock(ip) /\ d.nlink >= 1
  /\ \/ /\ refused
        /\ mem' = Left(ip, d, None)
        /\ pr' = [pr EXCEPT ![p].pc = "drop_dp", ![p].puts = <<ip>>, ![p].ip = 0]
        /\ UNCHANGED <<disk, dents>>
     \/ /\ ~refused
        /\ dents' = [dents EXCEPT ![dp][Min(Slots(dp, pr[p].name))] = FreeEnt]
        /\ disk' = iupdate(dp, dpd)
        /\ mem' = [Left(ip, d, p) EXCEPT ![dp].d = dpd, ![dp].lock = None]
        /\ pr' = [pr EXCEPT ![p].pc = "unlink_dec", ![p].puts = <<dp>>, ![p].dp = 0]
  /\ UNCHANGED <<bitmap, cwd, fd, bootVars, callVars>>

\* ip->nlink--, after iput(dp), with ip still locked.
UnlinkDec(p) ==
  LET ip == pr[p].ip
      d == [mem[ip].d EXCEPT !.nlink = @ - 1]
  IN
  /\ Running(p, "unlink_dec")
  /\ disk' = iupdate(ip, d) /\ mem' = Left(ip, d, None)
  /\ pr' = [pr EXCEPT ![p].pc = "end", ![p].puts = <<ip>>, ![p].ip = 0]
  /\ UNCHANGED <<dents, bitmap, cwd, fd, bootVars, callVars>>

\* sys_link() links no directory, and no inode past the maximum.
LinkRefused(d) == d.type = "dir" \/ d.nlink >= NLINK_MAX

\* sys_link() counts the link first, then resolves the new path unlocked.
LinkIp(p) ==
  LET r == pr[p]
      ip == r.ip
      refused == LinkRefused(Inode(ip))
      d == [Inode(ip) EXCEPT !.nlink = @ + 1]
      at == From(p, r.new[1])
  IN
  /\ Running(p, "link_ip") /\ ilock(ip)
  /\ \/ /\ refused
        /\ mem' = Left(ip, Inode(ip), None)
        /\ pr' = [pr EXCEPT ![p].pc = "end", ![p].puts = <<ip>>, ![p].ip = 0]
        /\ UNCHANGED disk
     \/ /\ ~refused
        /\ mem' = iget(Left(ip, d, None), at)
        /\ disk' = iupdate(ip, d)
        /\ pr' = [pr EXCEPT ![p].pc = "walk", ![p].at = at, ![p].path = r.new[1].elems,
                            ![p].new = <<>>]
  /\ UNCHANGED <<dents, bitmap, cwd, fd, bootVars, callVars>>

\* sys_link() refuses a directory that was unlinked while it was resolved.
LinkDp(p) ==
  LET r == pr[p]
      dp == r.dp
      taken == dirlookup(dp, r.name)
      v == dirlink([ok |-> TRUE, used |-> bitmap, ents |-> dents[dp], d |-> Inode(dp)],
                   r.name, r.ip)
  IN
  /\ Running(p, "link_dp") /\ ilock(dp) /\ Inode(dp).type = "dir"
  /\ \/ /\ Inode(dp).nlink = 0
        /\ mem' = Left(dp, Inode(dp), None)
        /\ pr' = [pr EXCEPT ![p].pc = "link_bad", ![p].puts = <<dp>>, ![p].dp = 0]
        /\ UNCHANGED <<disk, dents, bitmap>>
     \/ /\ Inode(dp).nlink # 0 /\ taken # 0
        /\ mem' = iget(Left(dp, Inode(dp), p), taken)
        /\ pr' = [pr EXCEPT ![p].pc = "drop_dp", ![p].puts = <<taken>>]
        /\ UNCHANGED <<disk, dents, bitmap>>
     \/ /\ Inode(dp).nlink # 0 /\ taken = 0
        /\ mem' = Left(dp, v.d, None)
        /\ disk' = iupdate(dp, v.d)
        /\ dents' = [dents EXCEPT ![dp] = v.ents] /\ bitmap' = v.used
        /\ pr' = [pr EXCEPT ![p].pc = IF v.ok THEN "end" ELSE "link_bad",
                            ![p].puts = IF v.ok THEN <<dp, r.ip>> ELSE <<dp>>,
                            ![p].dp = 0, ![p].ip = IF v.ok THEN 0 ELSE @]
  /\ UNCHANGED <<cwd, fd, bootVars, callVars>>

\* bad: the link counted in advance is taken back.
LinkBad(p) ==
  LET ip == pr[p].ip
      d == [Inode(ip) EXCEPT !.nlink = @ - 1]
  IN
  /\ Running(p, "link_bad") /\ ilock(ip)
  /\ mem' = Left(ip, d, None) /\ disk' = iupdate(ip, d)
  /\ pr' = [pr EXCEPT ![p].pc = "end", ![p].puts = <<ip>>, ![p].ip = 0]
  /\ UNCHANGED <<dents, bitmap, cwd, fd, bootVars, callVars>>

ChdirIp(p) ==
  LET ip == pr[p].ip
      isdir == Inode(ip).type = "dir"
  IN
  /\ Running(p, "chdir_ip") /\ ilock(ip)
  /\ mem' = Left(ip, Inode(ip), None)
  /\ pr' = [pr EXCEPT ![p] = IF isdir THEN [@ EXCEPT !.pc = "chdir_end", !.puts = <<cwd[p]>>]
                             ELSE [@ EXCEPT !.pc = "end", !.puts = <<ip>>, !.ip = 0]]
  /\ UNCHANGED <<disk, dents, bitmap, cwd, fd, bootVars, callVars>>

-----------------------------------------------------------------------------
(* Crash and recovery.                                                      *)

\* Memory is lost; the next boot recovers the log and runs ireclaim().
Crash ==
  /\ Quiescent /\ panicked = "no"
  /\ mem' = [i \in Inums |-> FreeSlot]
  /\ cwd' = [p \in Procs |-> ROOTINO] /\ fd' = [p \in Procs |-> None]
  /\ boot' = 1
  /\ UNCHANGED <<disk, dents, bitmap, pr, panicked, callVars>>

\* ireclaim() frees inode boot if it is allocated and nothing links to it; after
\* the last inode the first process starts with the root as its directory.
Reclaim ==
  LET orphan == disk[boot].type # "none" /\ disk[boot].nlink = 0 IN
  /\ boot # 0 /\ panicked = "no"
  /\ disk' = [disk EXCEPT ![boot] = IF orphan THEN [itrunc(@) EXCEPT !.type = "none"] ELSE @]
  /\ dents' = [dents EXCEPT ![boot] = IF orphan THEN <<>> ELSE @]
  /\ bitmap' = IF orphan THEN bitmap \ Owned(disk[boot]) ELSE bitmap
  /\ panicked' = IF orphan /\ ~(Owned(disk[boot]) \subseteq bitmap)
                 THEN "freeing free block" ELSE "no"
  /\ mem' = IF boot = NInodes THEN BootTable ELSE mem
  /\ boot' = IF boot = NInodes THEN 0 ELSE boot + 1
  /\ UNCHANGED <<cwd, fd, pr, callVars>>

Next ==
  \/ \E p \in Procs :
       \/ \E a \in Args : Begin(p, a)
       \/ Namex(p) \/ Iput(p) \/ End(p) \/ DropDp(p)
       \/ CreateDp(p) \/ CreateFound(p) \/ CreateIp(p)
       \/ OpenIp(p) \/ (\E ok \in BOOLEAN : OpenLocked(p, ok))
       \/ SysClose(p) \/ SysWrite(p) \/ SysRead(p)
       \/ UnlinkDp(p) \/ UnlinkIp(p) \/ UnlinkDec(p)
       \/ LinkIp(p) \/ LinkDp(p) \/ LinkBad(p) \/ ChdirIp(p)
  \/ Crash \/ Reclaim

Spec == Init /\ [][Next]_vars

-----------------------------------------------------------------------------
(* Properties.                                                              *)

\* No call reaches a panic(): ilock() finds an inode with a type, bfree() a block
\* in use, iput() its lock free, and sys_unlink() a link to remove, although the
\* calls resolve their paths without holding locks.
NoPanic == panicked = "no" /\ \A p \in Procs : ~PanicAhead(p)

\* The inode table's copy of an inode is what is on the disk whenever it is
\* valid and unlocked: every change was followed by iupdate().
CacheCoherent ==
  \A i \in Inums : (mem[i].ref > 0 /\ mem[i].valid /\ mem[i].lock = None) => mem[i].d = disk[i]

\* Entries of live directories that name inode i, "." excepted.
Links(i) ==
  {x \in Inums \X (1..(MAXFILE * Dirents)) :
     /\ disk[x[1]].type = "dir" /\ disk[x[1]].nlink > 0 /\ x[2] <= disk[x[1]].size
     /\ dents[x[1]][x[2]][1] # "." /\ dents[x[1]][x[2]][2] = i}

\* When no call is in progress, so in every state a crash can leave behind, the
\* link count of an allocated inode is the number of entries that name it, and a
\* free inode is named by none: create, link and unlink undo what they began. The
\* count, a short in the code, stays in its range throughout.
LinkCounts ==
  /\ \A i \in Inums : disk[i].nlink \in 0..NLINK_MAX
  /\ Quiescent => \A i \in Inums : Cardinality(Links(i)) = IF disk[i].type = "none" THEN 0
                                                            ELSE disk[i].nlink

\* When no call is in progress the bitmap marks the blocks of the allocated
\* inodes and no others, and no block belongs to two of them.
BlocksAccounted ==
  Quiescent =>
    /\ bitmap = UNION {Owned(disk[i]) : i \in {j \in Inums : disk[j].type # "none"}}
    /\ \A i, j \in Inums : i # j => Owned(disk[i]) \intersect Owned(disk[j]) = {}

\* Holders of a reference to inode i outside of calls.
Holders(i) ==
  Cardinality({p \in Procs : cwd[p] = i}) + Cardinality({p \in Procs : fd[p] # None /\ fd[p].ip = i})

\* When no call is in progress the reference counts are exact, no inode is
\* locked, and an allocated inode without links is one that somebody still uses:
\* nothing leaks, on any error path, and ireclaim() collects what a crash orphans.
RefsExact ==
  (Quiescent /\ boot = 0) =>
    \A i \in Inums : /\ mem[i].ref = Holders(i) /\ mem[i].lock = None
                     /\ (disk[i].type # "none" /\ disk[i].nlink = 0) => mem[i].ref > 0
=============================================================================
