--------------------------- MODULE FileSystemProofs ---------------------------
(***************************************************************************)
(* The file system calls keep the reference counts, the link counts and    *)
(* the block bitmap exact, and reach no panic(), for any number of         *)
(* processes, inodes and blocks.                                           *)
(***************************************************************************)
EXTENDS FileSystem, FiniteSetTheorems, TLAPS

-----------------------------------------------------------------------------
(* The inductive invariant: types.                                          *)

Types == {"none", "file", "dir", "device"}
Pcs == {"idle", "walk", "end", "drop_dp", "create_dp", "create_found", "create_ip", "open_ip",
        "open_locked", "unlink_dp", "unlink_ip", "unlink_dec", "link_ip", "link_dp", "link_bad",
        "chdir_ip", "chdir_end"}

Dinode == [type : Types, nlink : Int, size : Nat, addrs : Seq(Blocks), ind : Seq(Blocks)]
Entry  == Names \X (0..NInodes)
Slot   == [ref : Int, valid : BOOLEAN, lock : Procs \union {None}, d : Dinode]
File   == [ip : Inums, off : Nat, writable : BOOLEAN]
CallRec == [pc : Pcs, call : Calls \union {"none", "close"}, at : 0..NInodes, ip : 0..NInodes,
           dp : 0..NInodes, path : Seq(Names), name : Names, new : Seq(Path),
           puts : Seq(Inums), put : {"start", "drop", "free"}]

TypeOK ==
  /\ disk \in [Inums -> Dinode] /\ dents \in [Inums -> Seq(Entry)] /\ bitmap \subseteq Blocks
  /\ mem \in [Inums -> Slot]
  /\ cwd \in [Procs -> Inums] /\ fd \in [Procs -> File \union {None}] /\ pr \in [Procs -> CallRec]
  /\ boot \in 0..NInodes /\ panicked = "no"

-----------------------------------------------------------------------------
(* What each place in the code holds.                                       *)

HasDp == {"create_dp", "unlink_dp", "link_dp", "create_ip", "unlink_ip", "drop_dp"}
HasIp == {"create_found", "create_ip", "open_ip", "open_locked", "unlink_ip", "unlink_dec",
          "link_ip", "link_dp", "link_bad", "chdir_ip", "chdir_end"}

\* The fields of a call at each place.
Shape(r) ==
  /\ r.pc = "idle" => r = Idle
  /\ r.at # 0 <=> r.pc = "walk"
  /\ r.dp # 0 <=> r.pc \in HasDp
  /\ r.pc \in HasIp => r.ip # 0
  /\ r.ip # 0 => r.pc \in HasIp \union {"walk", "drop_dp"}
  /\ r.pc = "walk" => r.call \in Calls /\ (r.ip # 0 => r.call = "link")
  /\ r.pc = "drop_dp" => (r.call = "link" <=> r.ip # 0)
  /\ r.pc \in {"create_dp", "create_ip"} => r.call \in {"creat", "mkdir", "mknod"}
  /\ r.pc \in {"unlink_dp", "unlink_ip"} => r.call = "unlink"
  /\ r.pc \in {"link_ip", "link_dp"} => r.call = "link"
  /\ r.pc \in {"create_ip", "unlink_ip"} => r.puts = <<>>
  /\ r.call = "link" /\ (r.pc = "link_ip" \/ (r.pc = "walk" /\ r.ip = 0)) => Len(r.new) = 1
  /\ Len(r.puts) <= 2 /\ (r.put # "start" => r.puts # <<>>)

\* References to inode i held by a process in call r, in directory c, with file f.
One(b) == IF b THEN 1 ELSE 0
HeldBy(r, c, f, i) ==
  One(r.pc # "chdir_end" /\ c = i) + One(f # None /\ f.ip = i)
  + One(r.at = i) + One(r.ip = i) + One(r.dp = i)
  + One(Len(r.puts) >= 1 /\ r.put # "free" /\ r.puts[1] = i)
  + One(Len(r.puts) >= 2 /\ r.puts[2] = i)
Held(p, i) == HeldBy(pr[p], cwd[p], fd[p], i)

\* All references to inode i.
Tokens(F) == {u \in Procs \X (1..7) : u[2] <= F[u[1]]}
HeldAll(i) == [p \in Procs |-> Held(p, i)]
Refs(i) == Cardinality(Tokens(HeldAll(i)))

\* A call at place r has inode i locked.
Locks(r, i) == \/ r.pc \in {"drop_dp", "create_ip", "unlink_ip"} /\ r.dp = i
               \/ r.pc \in {"unlink_dec", "open_locked"} /\ r.ip = i

\* A call at place r makes or frees inode i.
Works(r, i) == \/ r.pc = "create_ip" /\ r.ip = i
               \/ r.put # "start" /\ r.puts[1] = i

\* The table's entry for inode i.
TableOK(i) ==
  /\ mem[i].ref = Refs(i)
  /\ \A p \in Procs : mem[i].lock = p <=> Locks(pr[p], i)
  /\ mem[i].valid => mem[i].d = disk[i] /\ mem[i].ref > 0
  /\ mem[i].lock # None => mem[i].valid
  /\ mem[i].ref > 0 => disk[i].type # "none"

\* Inode i has no contents and no links.
Dying(i) == /\ disk[i].type # "none" /\ disk[i].nlink = 0 /\ disk[i].size = 0
            /\ disk[i].addrs = <<>> /\ disk[i].ind = <<>>

\* The places of name n in directory i.
Found(i, n) == {k \in 1..disk[i].size : dents[i][k][1] = n /\ dents[i][k][2] # 0}

\* What process p relies on between its steps.
ProcOK(p) ==
  LET r == pr[p] IN
  /\ Shape(r)
  /\ r.pc \in {"create_dp", "unlink_dp", "link_dp"} => disk[r.dp].type = "dir"
  /\ r.pc \in {"walk", "link_dp", "link_bad", "drop_dp"} /\ r.ip # 0 => disk[r.ip].type # "dir"
  /\ r.pc = "create_ip" =>
       /\ disk[r.dp].type = "dir" /\ disk[r.dp].nlink > 0
       /\ r.call = "mkdir" => disk[r.dp].nlink < NLINK_MAX
       /\ Found(r.dp, r.name) = {}
       /\ disk[r.ip] = [Blank EXCEPT !.type = TypeOf(r.call)]
       /\ mem[r.ip].ref = 1 /\ ~mem[r.ip].valid
  /\ r.pc = "unlink_ip" =>
       /\ disk[r.dp].type = "dir" /\ disk[r.dp].nlink > 0 /\ r.name \notin {".", ".."}
       /\ Found(r.dp, r.name) # {} /\ dents[r.dp][Min(Found(r.dp, r.name))][2] = r.ip
  /\ r.pc = "unlink_dec" /\ disk[r.ip].type = "dir" =>
       /\ disk[r.ip].nlink = 1
       /\ \A k \in 3..disk[r.ip].size : dents[r.ip][k][2] = 0
  /\ r.put = "drop" => Dying(r.puts[1]) /\ mem[r.puts[1]].ref = 1 /\ ~mem[r.puts[1]].valid
  /\ r.put = "free" =>
       /\ Dying(r.puts[1]) /\ mem[r.puts[1]].ref = 0
       /\ \A q \in Procs : pr[q].put = "free" /\ pr[q].puts[1] = r.puts[1] => q = p

\* An inode without links is one that is being made or freed, that somebody
\* still uses, or that ireclaim() will find.
Orphan(i) == disk[i].type # "none" /\ disk[i].nlink = 0
OrphanOK(i) ==
  Orphan(i) => \/ mem[i].valid
               \/ boot # 0 /\ boot <= i
               \/ \E p \in Procs : Works(pr[p], i)

BootOK == boot # 0 => /\ \A p \in Procs : pr[p] = Idle /\ cwd[p] = ROOTINO /\ fd[p] = None
                      /\ \A i \in Inums : mem[i] = FreeSlot

TableInv == /\ boot = 0 => \A i \in Inums : TableOK(i)
            /\ \A p \in Procs : ProcOK(p)
            /\ \A i \in Inums : OrphanOK(i)
            /\ BootOK

-----------------------------------------------------------------------------
(* Directories and link counts.                                             *)

\* Directory i is being removed: its entry is gone, its count not yet.
Removes(r, i) == r.pc = "unlink_dec" /\ r.ip = i
Removing(i) == \E p \in Procs : Removes(pr[p], i)
Live(i) == disk[i].type = "dir" /\ disk[i].nlink > 0 /\ ~Removing(i)

\* Entries of live directories that name inode i, "." excepted.
Ents(i) == {x \in Links(i) : Live(x[1])}

\* Calls that have counted a link to i that is not there yet, or is gone.
Pends(r, i) == r.ip = i /\ r.pc \in {"walk", "link_dp", "link_bad", "drop_dp", "unlink_dec"}
Pending(i) == {p \in Procs : Pends(pr[p], i)}

CountOK(i) ==
  /\ disk[i].nlink = Cardinality(Ents(i)) + Cardinality(Pending(i))
  /\ disk[i].nlink <= NLINK_MAX
  /\ disk[i].type = "none" => disk[i].nlink = 0 /\ Owned(disk[i]) = {}

\* The entries of a directory: "." and ".." first while it has links, nothing else after.
DirOK(i) ==
  disk[i].type = "dir" =>
    /\ disk[i].nlink > 0 =>
         /\ disk[i].size = Len(dents[i]) /\ disk[i].size >= 2
         /\ disk[i].size <= MAXFILE * Dirents
         /\ dents[i][1] = <<".", i>> /\ dents[i][2][1] = ".." /\ dents[i][2][2] # 0
         /\ \A k \in 3..disk[i].size : dents[i][k][2] # 0 => dents[i][k][1] \notin {".", ".."}
    /\ disk[i].nlink = 0 =>
         \A k \in 1..disk[i].size : dents[i][k][2] # 0 => dents[i][k][1] \in {".", ".."}

Places == 1..(MAXFILE * Dirents)

\* Live directories form a tree: a directory has one entry, in the one its ".." names.
Child(i, k, c) == Live(i) /\ k \in 3..disk[i].size /\ dents[i][k][2] = c
TreeOK ==
  /\ Live(ROOTINO) /\ dents[ROOTINO][2][2] = ROOTINO
  /\ \A i, c \in Inums : \A k \in Places :
       Child(i, k, c) /\ disk[c].type = "dir" =>
         /\ c # ROOTINO /\ Live(c) /\ dents[c][2][2] = i
         /\ \A l \in Places : Child(i, l, c) => l = k
  /\ \A c \in Inums \ {ROOTINO} : Live(c) => \E k \in Places : Child(dents[c][2][2], k, c)

LinkInv == (\A i \in Inums : CountOK(i) /\ DirOK(i)) /\ TreeOK

-----------------------------------------------------------------------------
(* Blocks.                                                                  *)

\* B marks the blocks of the inodes D, none of which belongs to two of them.
BlocksOK(D, B) ==
  /\ B = UNION {Owned(D[i]) : i \in Inums}
  /\ \A i, j \in Inums : i # j => Owned(D[i]) \intersect Owned(D[j]) = {}
BlockInv == BlocksOK(disk, bitmap)

FsInv == TypeOK /\ TableInv /\ LinkInv /\ BlockInv

-----------------------------------------------------------------------------
(* Counting references.                                                     *)

Counts == [Procs -> 0..7]

LEMMA UpTo == \A n \in Nat : IsFiniteSet(1..n) /\ Cardinality(1..n) = n
  BY FS_Interval

LEMMA TokensFinite == ASSUME NEW F \in Counts PROVE IsFiniteSet(Tokens(F)) /\ Cardinality(Tokens(F)) \in Nat
<1>1. IsFiniteSet(Procs) /\ IsFiniteSet(1..7)
  <2>1. IsFiniteSet(Procs)
    BY FileSystemAssumption
  <2>2. IsFiniteSet(1..7)
    BY UpTo
  <2> QED BY <2>1, <2>2
<1>2. IsFiniteSet(Procs \X (1..7)) /\ Tokens(F) \in SUBSET (Procs \X (1..7))
  BY <1>1, FS_Product DEF Tokens
<1> QED BY <1>2, FS_Subset, FS_CardinalityType

\* The references of one process come off.
LEMMA TokensOff ==
  ASSUME NEW F \in Counts, NEW p \in Procs
  PROVE  Cardinality(Tokens(F)) = Cardinality(Tokens([F EXCEPT ![p] = 0])) + F[p]
<1> DEFINE G == [F EXCEPT ![p] = 0]
           T == {p} \X (1..F[p])
           A == Tokens(F)
           B == Tokens(G)
<1>1. G \in Counts /\ F[p] \in 0..7
  BY DEF Counts
<1>2. A = B \union T /\ B \intersect T = {}
  <2>1. \A u \in Procs \X (1..7) : u[1] \in Procs /\ u[2] \in 1..7 /\ F[u[1]] \in 0..7
    BY DEF Counts
  <2>2. \A u \in Procs \X (1..7) : G[u[1]] = IF u[1] = p THEN 0 ELSE F[u[1]]
    BY DEF Counts
  <2>3. T \subseteq Procs \X (1..7)
    BY <1>1
  <2> QED BY <1>1, <2>1, <2>2, <2>3 DEF Tokens
<1>3. IsFiniteSet(T) /\ Cardinality(T) = F[p]
  <2>1. IsFiniteSet({p}) /\ Cardinality({p}) = 1
    BY FS_Singleton
  <2>0. PICK n \in 0..7 : n = F[p]
    BY <1>1
  <2>3. IsFiniteSet(1..n) /\ Cardinality(1..n) = n
    BY UpTo
  <2>2. IsFiniteSet(T) /\ Cardinality(T) = 1 * F[p]
    BY <2>0, <2>1, <2>3, FS_Product
  <2> QED BY <1>1, <2>2
<1>4. IsFiniteSet(A) /\ IsFiniteSet(B) /\ Cardinality(B) \in Nat
  BY <1>1, TokensFinite
<1> HIDE DEF A, B, T, G
<1>5. Cardinality(A) = Cardinality(B) + Cardinality(T) - 0
  BY <1>2, <1>3, <1>4, FS_Union, FS_EmptySet
<1> QED BY <1>1, <1>3, <1>4, <1>5 DEF A, B, G

\* The count changes by what one process does.
LEMMA TokensMove ==
  ASSUME NEW F \in Counts, NEW G \in Counts, NEW p \in Procs, \A q \in Procs : q # p => G[q] = F[q]
  PROVE  Cardinality(Tokens(G)) + F[p] = Cardinality(Tokens(F)) + G[p]
<1>1. [F EXCEPT ![p] = 0] = [G EXCEPT ![p] = 0] /\ F[p] \in 0..7 /\ G[p] \in 0..7
  BY DEF Counts
<1> DEFINE H == [F EXCEPT ![p] = 0]
<1>2. H \in Counts
  BY DEF Counts
<1> HIDE DEF H
<1>3. Cardinality(Tokens(H)) \in Nat
  BY <1>2, TokensFinite
<1>4. Cardinality(Tokens(F)) = Cardinality(Tokens(H)) + F[p] /\ Cardinality(Tokens(G)) = Cardinality(Tokens(H)) + G[p]
  BY <1>1, TokensOff DEF H
<1> QED BY <1>1, <1>3, <1>4

\* The count covers what any two processes hold.
LEMMA TokensBound ==
  ASSUME NEW F \in Counts, NEW p \in Procs, NEW q \in Procs
  PROVE  /\ Cardinality(Tokens(F)) >= F[p]
         /\ p # q => Cardinality(Tokens(F)) >= F[p] + F[q]
<1> DEFINE G == [F EXCEPT ![p] = 0]
           H == [G EXCEPT ![q] = 0]
<1>1. G \in Counts /\ H \in Counts /\ F[p] \in 0..7 /\ F[q] \in 0..7 /\ (p # q => G[q] = F[q])
  BY DEF Counts
<1>2. Cardinality(Tokens(F)) = Cardinality(Tokens(G)) + F[p]
  BY TokensOff
<1>3. Cardinality(Tokens(G)) = Cardinality(Tokens(H)) + G[q]
  BY <1>1, TokensOff
<1>4. Cardinality(Tokens(G)) \in Nat /\ Cardinality(Tokens(H)) \in Nat
  BY <1>1, TokensFinite
<1> HIDE DEF G, H
<1> QED BY <1>1, <1>2, <1>3, <1>4

\* At most two references each: those of one kind and those of the other.
LEMMA TokensTwo ==
  ASSUME NEW F \in Counts, NEW A \in SUBSET Procs, NEW B \in SUBSET Procs,
         \A p \in Procs : F[p] = One(p \in A) + One(p \in B)
  PROVE  Cardinality(Tokens(F)) = Cardinality(A) + Cardinality(B)
<1>1. IsFiniteSet(Procs) /\ IsFiniteSet(A) /\ IsFiniteSet(B)
  BY FileSystemAssumption, FS_Subset
<1> DEFINE U == A \union B
           V == A \intersect B
           S == U \X {1}
           T == V \X {2}
<1>2. IsFiniteSet(U) /\ IsFiniteSet(V) /\ Cardinality(U) = Cardinality(A) + Cardinality(B) - Cardinality(V)
  BY <1>1, FS_Union, FS_Intersection
<1>3. /\ Cardinality(A) \in Nat /\ Cardinality(B) \in Nat /\ Cardinality(U) \in Nat /\ Cardinality(V) \in Nat
  BY <1>1, <1>2, FS_CardinalityType
<1>4. /\ IsFiniteSet(S) /\ Cardinality(S) = Cardinality(U) * 1
      /\ IsFiniteSet(T) /\ Cardinality(T) = Cardinality(V) * 1
  <2>1. \A x : IsFiniteSet({x}) /\ Cardinality({x}) = 1
    BY FS_Singleton
  <2>2. IsFiniteSet(S) /\ Cardinality(S) = Cardinality(U) * Cardinality({1})
    BY <1>2, <2>1, FS_Product, Zenon
  <2>3. IsFiniteSet(T) /\ Cardinality(T) = Cardinality(V) * Cardinality({2})
    BY <1>2, <2>1, FS_Product, Zenon
  <2> QED BY <2>1, <2>2, <2>3
<1>5. Tokens(F) = S \union T
  <2>1. \A u \in Procs \X (1..7) : u[1] \in Procs /\ u[2] \in 1..7 /\ u = <<u[1], u[2]>>
    OBVIOUS
  <2>2. \A u \in Procs \X (1..7) : u[2] <= F[u[1]] <=> (u[2] = 1 /\ u[1] \in U) \/ (u[2] = 2 /\ u[1] \in V)
    BY <2>1 DEF One
  <2>3. \A u : u \in S => u[1] \in U /\ u[2] = 1 /\ u \in Procs \X (1..7)
    OBVIOUS
  <2>4. \A u : u \in T => u[1] \in V /\ u[2] = 2 /\ u \in Procs \X (1..7)
    OBVIOUS
  <2> QED BY <2>1, <2>2, <2>3, <2>4 DEF Tokens
<1>6. S \intersect T = {}
  OBVIOUS
<1> HIDE DEF S, T, U, V
<1>7. Cardinality(S \union T) = Cardinality(S) + Cardinality(T) - 0
  BY <1>4, <1>6, FS_Union, FS_EmptySet
<1> QED BY <1>2, <1>3, <1>4, <1>5, <1>7

-----------------------------------------------------------------------------
(* What one process does to the references and to what the others rely on.  *)

LEMMA MinIsMember ==
  ASSUME NEW S \in SUBSET Nat, S # {}
  PROVE  Min(S) \in S /\ \A y \in S : Min(S) <= y
<1> DEFINE Below(x) == {y \in S : y <= x}
           F == {Below(x) : x \in S}
<1>1. \A x \in S : Below(x) \in FiniteSubsetsOf(Nat)
  BY FS_BoundedSetOfNaturals DEF FiniteSubsetsOf
<1>2. F \subseteq FiniteSubsetsOf(Nat) /\ F # {}
  BY <1>1
<1>3. PICK B \in F : \A C \in F : <<C, B>> \notin StrictSubsetOrdering(Nat)
  BY <1>2, FS_StrictSubsetOrderingWellFounded, WFMin, Zenon
<1>4. PICK x \in S : B = Below(x)
  OBVIOUS
<1>5. ASSUME NEW y \in S, y < x PROVE FALSE
  <2>1. Below(y) \in SUBSET Nat /\ Below(x) \in SUBSET Nat /\ Below(y) \in F
    OBVIOUS
  <2>2. \A z \in S : z <= y => z <= x
    BY <1>5
  <2>3. Below(y) \subseteq Below(x)
    BY <2>2
  <2>4. x \in Below(x) /\ x \notin Below(y)
    BY <1>5
  <2> QED BY <1>3, <1>4, <2>1, <2>3, <2>4 DEF StrictSubsetOrdering
<1>6. \A y \in S : x <= y
  BY <1>5
<1> QED BY <1>6 DEF Min

LEMMA HeldCounts ==
  /\ \A i : HeldAll(i) \in Counts /\ \A p \in Procs : HeldAll(i)[p] = Held(p, i) /\ Held(p, i) \in 0..7
  /\ \A i : HeldAll(i)' \in Counts /\ \A p \in Procs : HeldAll(i)'[p] = Held(p, i)' /\ Held(p, i)' \in 0..7
<1>1. \A r, c, f, i : HeldBy(r, c, f, i) \in 0..7
  BY DEF HeldBy, One
<1> QED BY <1>1 DEF HeldAll, Counts, Held

\* The processes other than p do nothing.
Alone(p) == \A q \in Procs : q # p => pr'[q] = pr[q] /\ cwd'[q] = cwd[q] /\ fd'[q] = fd[q]

LEMMA RefsMove ==
  ASSUME NEW i, NEW p \in Procs, Alone(p)
  PROVE  Refs(i) \in Nat /\ Refs(i)' \in Nat /\ Refs(i)' = Refs(i) + Held(p, i)' - Held(p, i)
<1> DEFINE F == HeldAll(i)
           G == HeldAll(i)'
<1>1. F \in Counts /\ G \in Counts /\ F[p] = Held(p, i) /\ G[p] = Held(p, i)' /\ F[p] \in 0..7 /\ G[p] \in 0..7
  BY HeldCounts
<1>2. \A q \in Procs : q # p => Held(q, i)' = Held(q, i)
  BY DEF Alone, Held
<1>3. \A q \in Procs : q # p => G[q] = F[q]
  BY <1>2, HeldCounts
<1>4. Refs(i) = Cardinality(Tokens(F)) /\ Refs(i)' = Cardinality(Tokens(G))
  BY DEF Refs, Tokens
<1> HIDE DEF F, G
<1>5. Cardinality(Tokens(F)) \in Nat /\ Cardinality(Tokens(G)) \in Nat
  BY <1>1, TokensFinite
<1>6. Cardinality(Tokens(G)) + F[p] = Cardinality(Tokens(F)) + G[p]
  BY <1>1, <1>3, TokensMove
<1> QED BY <1>1, <1>4, <1>5, <1>6

LEMMA RefsBound ==
  ASSUME NEW i, NEW p \in Procs, NEW q \in Procs
  PROVE  Refs(i) \in Nat /\ Refs(i) >= Held(p, i) /\ (p # q => Refs(i) >= Held(p, i) + Held(q, i))
<1> DEFINE F == HeldAll(i)
<1>1. F \in Counts /\ F[p] = Held(p, i) /\ F[q] = Held(q, i)
  BY HeldCounts
<1>2. Refs(i) = Cardinality(Tokens(F))
  BY DEF Refs
<1> HIDE DEF F
<1>3. Cardinality(Tokens(F)) \in Nat
  BY <1>1, TokensFinite
<1>4. Cardinality(Tokens(F)) >= F[p] /\ (p # q => Cardinality(Tokens(F)) >= F[p] + F[q])
  BY <1>1, TokensBound
<1> QED BY <1>1, <1>2, <1>3, <1>4

\* Once the system is up an inode reads the same in memory as on the disk.
LEMMA InodeOnDisk ==
  ASSUME TableInv, boot = 0, NEW i \in Inums
  PROVE  Inode(i) = disk[i] /\ (mem[i].valid => mem[i].d = disk[i])
  BY DEF TableInv, TableOK, Inode

\* What a process uses of an inode is its own.
LEMMA OwnHolds ==
  ASSUME TypeOK, NEW p \in Procs, NEW i \in Inums, Shape(pr[p])
  PROVE  /\ pr[p].at = i \/ pr[p].ip = i \/ pr[p].dp = i => Held(p, i) >= 1
         /\ pr[p].puts # <<>> /\ pr[p].put # "free" /\ pr[p].puts[1] = i => Held(p, i) >= 1
         /\ fd[p] # None /\ fd[p].ip = i => Held(p, i) >= 1
         /\ pr[p].pc # "chdir_end" /\ cwd[p] = i => Held(p, i) >= 1
         /\ Locks(pr[p], i) => Held(p, i) >= 1
<1>1. pr[p].puts # <<>> => Len(pr[p].puts) >= 1
  <2>1. pr[p].puts \in Seq(Inums)
    BY DEF TypeOK, CallRec
  <2> QED BY <2>1
<1> QED BY <1>1 DEF Held, HeldBy, One, Locks

\* An inode that one process makes or frees is out of reach of the others.
LEMMA WorksAlone ==
  ASSUME TypeOK, TableInv, boot = 0, NEW p \in Procs, NEW q \in Procs, p # q, NEW i \in Inums, Works(pr[q], i)
  PROVE  /\ Held(p, i) = 0 /\ disk[i].nlink = 0 /\ disk[i].type # "none"
         /\ pr[p].put = "free" => pr[p].puts[1] # i
<1>1. ProcOK(q) /\ Shape(pr[q]) /\ TableOK(i) /\ ProcOK(p)
  BY DEF TableInv, ProcOK
<1>2. Held(p, i) \in 0..7 /\ Held(q, i) \in 0..7 /\ Refs(i) \in Nat /\ Refs(i) >= Held(p, i) /\ Refs(i) >= Held(p, i) + Held(q, i)
  BY HeldCounts, RefsBound
<1>3. mem[i].ref = Refs(i)
  BY <1>1 DEF TableOK
<1>4. CASE pr[q].pc = "create_ip" /\ pr[q].ip = i
  <2>1. Held(q, i) >= 1 /\ mem[i].ref = 1
    BY <1>1, <1>4, OwnHolds DEF ProcOK
  <2>2. disk[i].nlink = 0 /\ disk[i].type # "none"
    BY <1>1, <1>4 DEF ProcOK, Blank, TypeOf, Shape
  <2>3. pr[p].put = "free" => mem[pr[p].puts[1]].ref = 0
    BY <1>1 DEF ProcOK
  <2> QED BY <1>2, <1>3, <2>1, <2>2, <2>3
<1>5. CASE pr[q].put # "start" /\ pr[q].puts[1] = i
  <2>1. pr[q].put \in {"drop", "free"} /\ pr[q].puts # <<>>
    BY <1>1, <1>5 DEF TypeOK, CallRec, Shape
  <2>2. disk[i].nlink = 0 /\ disk[i].type # "none"
    BY <1>1, <1>5, <2>1 DEF ProcOK, Dying
  <2>3. CASE pr[q].put = "drop"
    <3>1. Held(q, i) >= 1 /\ mem[i].ref = 1
      BY <1>1, <1>5, <2>1, <2>3, OwnHolds DEF ProcOK
    <3>2. pr[p].put = "free" => mem[pr[p].puts[1]].ref = 0
      BY <1>1 DEF ProcOK
    <3> QED BY <1>2, <1>3, <2>2, <3>1, <3>2
  <2>4. CASE pr[q].put = "free"
    <3>1. mem[i].ref = 0 /\ (pr[p].put = "free" /\ pr[p].puts[1] = i => p = q)
      BY <1>1, <1>5, <2>4 DEF ProcOK
    <3> QED BY <1>2, <1>3, <2>2, <3>1
  <2> QED BY <2>1, <2>3, <2>4
<1> QED BY <1>4, <1>5 DEF Works

\* How a step of process p may treat inode i.
Carried(p, i) ==
  /\ mem'[i].ref = mem[i].ref + Held(p, i)' - Held(p, i)
  /\ mem'[i].lock = p <=> Locks(pr'[p], i)
  /\ mem'[i].lock \notin {None, p} \/ mem[i].lock \notin {None, p} => mem'[i].lock = mem[i].lock
  /\ mem'[i].valid => mem'[i].d = disk'[i] /\ mem'[i].ref > 0
  /\ mem'[i].lock # None => mem'[i].valid
  /\ mem'[i].ref > 0 => disk'[i].type # "none"
  /\ Orphan(i)' => \/ mem'[i].valid
                   \/ Works(pr'[p], i)
                   \/ Orphan(i) /\ ~mem[i].valid /\ ~Works(pr[p], i)
  /\ \/ /\ disk'[i] = disk[i] /\ dents'[i] = dents[i]
        /\ mem'[i].ref = mem[i].ref /\ (mem'[i].valid <=> mem[i].valid)
     \/ Held(p, i) >= 1 /\ mem[i].lock \in {None, p} /\ disk'[i].type = disk[i].type
     \/ disk'[i] = disk[i] /\ dents'[i] = dents[i] /\ (Held(p, i) >= 1 \/ disk[i].nlink >= 1)
     \/ disk[i].type = "none"
     \/ pr[p].put = "free" /\ pr[p].puts[1] = i

\* What the others rely on stays.
LEMMA OthersKept ==
  ASSUME TypeOK, TableInv, boot = 0, NEW p \in Procs, NEW q \in Procs, p # q, NEW i \in Inums, Carried(p, i)
  PROVE  /\ Locks(pr[q], i) \/ Works(pr[q], i) => disk'[i] = disk[i] /\ dents'[i] = dents[i]
         /\ Works(pr[q], i) => mem'[i].ref = mem[i].ref /\ (mem'[i].valid <=> mem[i].valid)
         /\ Held(q, i) >= 1 => disk'[i].type = disk[i].type
<1>1. ProcOK(q) /\ Shape(pr[q]) /\ TableOK(i) /\ ProcOK(p) /\ Shape(pr[p])
  BY DEF TableInv, ProcOK
<1>2. Held(p, i) \in 0..7 /\ Held(q, i) \in 0..7 /\ Refs(i) \in Nat /\ Refs(i) >= Held(p, i) /\ Refs(i) >= Held(q, i)
  BY HeldCounts, RefsBound
<1>3. mem[i].ref = Refs(i) /\ (mem[i].ref > 0 => disk[i].type # "none")
  BY <1>1 DEF TableOK
<1>4. Locks(pr[q], i) => mem[i].lock = q /\ q \notin {None, p} /\ Held(q, i) >= 1
  BY <1>1, OwnHolds, FileSystemAssumption DEF TableOK
<1>5. Works(pr[q], i) => Held(p, i) = 0 /\ disk[i].nlink = 0 /\ disk[i].type # "none" /\ (pr[p].put = "free" => pr[p].puts[1] # i)
  BY WorksAlone
<1>6. pr[p].put = "free" /\ pr[p].puts[1] = i => mem[i].ref = 0
  BY <1>1 DEF ProcOK
<1>7. CASE disk'[i] = disk[i] /\ dents'[i] = dents[i] /\ mem'[i].ref = mem[i].ref /\ (mem'[i].valid <=> mem[i].valid)
  BY <1>7
<1>8. CASE Held(p, i) >= 1 /\ mem[i].lock \in {None, p} /\ disk'[i].type = disk[i].type
  BY <1>2, <1>4, <1>5, <1>8
<1>9. CASE disk'[i] = disk[i] /\ dents'[i] = dents[i] /\ (Held(p, i) >= 1 \/ disk[i].nlink >= 1)
  BY <1>2, <1>5, <1>9
<1>10. CASE disk[i].type = "none"
  BY <1>2, <1>3, <1>4, <1>5, <1>10
<1>11. CASE pr[p].put = "free" /\ pr[p].puts[1] = i
  BY <1>2, <1>3, <1>4, <1>5, <1>6, <1>11
<1> QED BY <1>7, <1>8, <1>9, <1>10, <1>11 DEF Carried

LEMMA OtherProc ==
  ASSUME TypeOK, TableInv, boot = 0, NEW p \in Procs, NEW q \in Procs, p # q, Alone(p),
         \A i \in Inums : Carried(p, i), ProcOK(p)'
  PROVE  ProcOK(q)'
<1>0. PICK r : r = pr[q]
  OBVIOUS
<1>1. r = pr[q] /\ pr'[q] = r /\ ProcOK(q) /\ Shape(r)
  BY <1>0 DEF Alone, TableInv, ProcOK
<1>2. \A i \in Inums : Locks(r, i) \/ Works(r, i) => disk'[i] = disk[i] /\ dents'[i] = dents[i]
  BY <1>0, OthersKept
<1>3. \A i \in Inums : Works(r, i) => mem'[i].ref = mem[i].ref /\ (mem'[i].valid <=> mem[i].valid)
  BY <1>0, OthersKept
<1>4. \A i \in Inums : r.ip = i \/ r.dp = i => disk'[i].type = disk[i].type
  BY <1>1, OthersKept, OwnHolds
<1>5. r \in CallRec
  BY <1>0 DEF TypeOK
<1>6. /\ r.pc \in HasDp => r.dp \in Inums
      /\ r.ip # 0 => r.ip \in Inums
      /\ r.pc \in HasIp => r.ip \in Inums
      /\ r.put # "start" => r.puts[1] \in Inums
  <2>1. r.puts \in Seq(Inums) /\ r.dp \in 0..NInodes /\ r.ip \in 0..NInodes /\ (r.put # "start" => r.puts # <<>>)
    BY <1>1, <1>5 DEF CallRec, Shape
  <2>2. r.put # "start" => r.puts[1] \in Inums
    BY <2>1
  <2> QED BY <1>1, <2>1, <2>2, FileSystemAssumption DEF Shape, Inums
<1>7. r.pc \in {"create_dp", "unlink_dp", "link_dp"} => disk'[r.dp].type = "dir"
  BY <1>1, <1>4, <1>6 DEF ProcOK, HasDp
<1>8. r.pc \in {"walk", "link_dp", "link_bad", "drop_dp"} /\ r.ip # 0 => disk'[r.ip].type # "dir"
  BY <1>1, <1>4, <1>6 DEF ProcOK
<1>9. r.pc = "create_ip" =>
       /\ disk'[r.dp].type = "dir" /\ disk'[r.dp].nlink > 0
       /\ r.call = "mkdir" => disk'[r.dp].nlink < NLINK_MAX
       /\ Found(r.dp, r.name)' = {}
       /\ disk'[r.ip] = [Blank EXCEPT !.type = TypeOf(r.call)]
       /\ mem'[r.ip].ref = 1 /\ ~mem'[r.ip].valid
  <2> SUFFICES ASSUME r.pc = "create_ip" PROVE /\ disk'[r.dp] = disk[r.dp] /\ dents'[r.dp] = dents[r.dp]
                                              /\ disk'[r.ip] = disk[r.ip] /\ mem'[r.ip].ref = mem[r.ip].ref
                                              /\ (mem'[r.ip].valid <=> mem[r.ip].valid)
    BY <1>1 DEF ProcOK, Found
  <2>1. r.dp \in Inums /\ r.ip \in Inums /\ Locks(r, r.dp) /\ Works(r, r.ip)
    BY <1>6 DEF HasDp, HasIp, Locks, Works
  <2> QED BY <1>2, <1>3, <2>1
<1>10. r.pc = "unlink_ip" =>
       /\ disk'[r.dp].type = "dir" /\ disk'[r.dp].nlink > 0 /\ r.name \notin {".", ".."}
       /\ Found(r.dp, r.name)' # {} /\ dents'[r.dp][Min(Found(r.dp, r.name)')][2] = r.ip
  <2> SUFFICES ASSUME r.pc = "unlink_ip"
               PROVE  /\ disk'[r.dp].type = "dir" /\ disk'[r.dp].nlink > 0 /\ r.name \notin {".", ".."}
                      /\ Found(r.dp, r.name)' # {} /\ dents'[r.dp][Min(Found(r.dp, r.name)')][2] = r.ip
    OBVIOUS
  <2>1. r.dp \in Inums /\ Locks(r, r.dp)
    BY <1>6 DEF HasDp, Locks
  <2>2. disk'[r.dp] = disk[r.dp] /\ dents'[r.dp] = dents[r.dp]
    BY <1>2, <2>1
  <2>3. Found(r.dp, r.name)' = Found(r.dp, r.name)
    BY <2>2 DEF Found
  <2>4. /\ disk[r.dp].type = "dir" /\ disk[r.dp].nlink > 0 /\ r.name \notin {".", ".."}
        /\ Found(r.dp, r.name) # {} /\ dents[r.dp][Min(Found(r.dp, r.name))][2] = r.ip
    BY <1>1 DEF ProcOK
  <2> QED BY <2>2, <2>3, <2>4
<1>11. r.pc = "unlink_dec" /\ disk'[r.ip].type = "dir" =>
       disk'[r.ip].nlink = 1 /\ \A k \in 3..disk'[r.ip].size : dents'[r.ip][k][2] = 0
  <2> SUFFICES ASSUME r.pc = "unlink_dec" PROVE disk'[r.ip] = disk[r.ip] /\ dents'[r.ip] = dents[r.ip]
    BY <1>1 DEF ProcOK
  <2>1. r.ip \in Inums /\ Locks(r, r.ip)
    BY <1>6 DEF HasIp, Locks
  <2> QED BY <1>2, <2>1
<1>12. r.put # "start" => /\ r.puts[1] \in Inums /\ disk'[r.puts[1]] = disk[r.puts[1]]
                          /\ mem'[r.puts[1]].ref = mem[r.puts[1]].ref
                          /\ (mem'[r.puts[1]].valid <=> mem[r.puts[1]].valid)
  <2>1. r.put # "start" => r.puts[1] \in Inums /\ Works(r, r.puts[1])
    BY <1>6 DEF Works
  <2> QED BY <1>2, <1>3, <2>1
<1>13. r.put = "drop" => Dying(r.puts[1])' /\ mem'[r.puts[1]].ref = 1 /\ ~mem'[r.puts[1]].valid
  BY <1>1, <1>12 DEF ProcOK, Dying
<1>14. r.put = "free" =>
       /\ Dying(r.puts[1])' /\ mem'[r.puts[1]].ref = 0
       /\ \A t \in Procs : pr'[t].put = "free" /\ pr'[t].puts[1] = r.puts[1] => t = q
  <2>1. r.put = "free" => Dying(r.puts[1])' /\ mem'[r.puts[1]].ref = 0
    BY <1>1, <1>12 DEF ProcOK, Dying
  <2>2. ASSUME r.put = "free", NEW t \in Procs, pr'[t].put = "free", pr'[t].puts[1] = r.puts[1] PROVE t = q
    <3>1. CASE t = p
      <4>1. pr'[p].put = "free" /\ pr'[q].put = "free" /\ pr'[q].puts[1] = pr'[p].puts[1]
        BY <1>1, <2>2, <3>1
      <4> QED BY <4>1 DEF ProcOK
    <3>2. CASE t # p
      <4>1. pr[t].put = "free" /\ pr[t].puts[1] = pr[q].puts[1] /\ pr[q].put = "free"
        BY <1>0, <2>2, <3>2 DEF Alone
      <4> QED BY <1>1, <4>1 DEF ProcOK
    <3> QED BY <3>1, <3>2
  <2> QED BY <2>1, <2>2
<1> QED BY <1>1, <1>7, <1>8, <1>9, <1>10, <1>11, <1>13, <1>14 DEF ProcOK

LEMMA TableStep ==
  ASSUME TypeOK, TableInv, boot = 0, boot' = 0, NEW p \in Procs, Alone(p),
         \A i \in Inums : Carried(p, i), ProcOK(p)'
  PROVE  TableInv'
<1>1. ASSUME NEW i \in Inums PROVE TableOK(i)'
  <2>1. TableOK(i) /\ Carried(p, i)
    BY DEF TableInv
  <2>2. mem'[i].ref = Refs(i)'
    <3>1. mem[i].ref = Refs(i) /\ mem'[i].ref = mem[i].ref + Held(p, i)' - Held(p, i)
      BY <2>1 DEF TableOK, Carried
    <3> QED BY <3>1, RefsMove
  <2>3. ASSUME NEW q \in Procs PROVE mem'[i].lock = q <=> Locks(pr'[q], i)
    <3>1. CASE q = p
      BY <2>1, <3>1 DEF Carried
    <3>2. CASE q # p
      <4>1. pr'[q] = pr[q] /\ q # None /\ (mem[i].lock = q <=> Locks(pr[q], i))
        BY <2>1, <3>2, FileSystemAssumption DEF Alone, TableOK
      <4>2. mem'[i].lock = q <=> mem[i].lock = q
        BY <2>1, <3>2, <4>1 DEF Carried
      <4> QED BY <4>1, <4>2
    <3> QED BY <3>1, <3>2
  <2> QED BY <2>1, <2>2, <2>3 DEF TableOK, Carried
<1>2. ASSUME NEW q \in Procs PROVE ProcOK(q)'
  BY OtherProc
<1>3. ASSUME NEW i \in Inums PROVE OrphanOK(i)'
  <2>1. SUFFICES ASSUME Orphan(i)', ~mem'[i].valid, ~Works(pr'[p], i)
        PROVE  \E q \in Procs : Works(pr'[q], i)
    BY DEF OrphanOK
  <2>2. Orphan(i) /\ ~mem[i].valid /\ ~Works(pr[p], i)
    BY <2>1 DEF Carried
  <2>3. PICK q \in Procs : Works(pr[q], i)
    BY <2>2 DEF TableInv, OrphanOK
  <2>4. q # p /\ pr'[q] = pr[q]
    BY <2>2, <2>3 DEF Alone
  <2> QED BY <2>3, <2>4
<1> QED BY <1>1, <1>2, <1>3 DEF TableInv, BootOK

\* An inode the step leaves alone.
LEMMA LeftAlone ==
  ASSUME TypeOK, TableInv, boot = 0, NEW p \in Procs, NEW i \in Inums,
         mem'[i] = mem[i], disk'[i] = disk[i], dents'[i] = dents[i], Held(p, i)' = Held(p, i),
         Locks(pr'[p], i) <=> Locks(pr[p], i), Works(pr[p], i) => Works(pr'[p], i)
  PROVE  Carried(p, i)
<1>1. TableOK(i) /\ Held(p, i) \in 0..7 /\ mem[i].ref \in Int
  BY HeldCounts DEF TableInv, TypeOK, Slot
<1> QED BY <1>1 DEF Carried, TableOK, Orphan

-----------------------------------------------------------------------------
(* Steps that change no link.                                               *)

LEMMA InumRange == 0 \notin Inums /\ Inums \subseteq 0..NInodes /\ \A i \in 0..NInodes : i # 0 => i \in Inums
  BY FileSystemAssumption DEF Inums

LEMMA PlacesFinite == IsFiniteSet(Inums \X Places) /\ MAXFILE * Dirents \in Nat
<1>1. MAXFILE * Dirents \in Nat /\ NInodes \in Nat
  BY FileSystemAssumption
<1>2. \A n \in Nat : IsFiniteSet(1..n)
  BY UpTo
<1>3. IsFiniteSet(Inums) /\ IsFiniteSet(Places)
  BY <1>1, <1>2 DEF Inums, Places
<1> QED BY <1>1, <1>3, FS_Product

LEMMA LinkSets ==
  /\ \A i : /\ IsFiniteSet(Ents(i)) /\ Cardinality(Ents(i)) \in Nat
            /\ IsFiniteSet(Pending(i)) /\ Cardinality(Pending(i)) \in Nat
  /\ \A i : /\ IsFiniteSet(Ents(i)') /\ Cardinality(Ents(i)') \in Nat
            /\ IsFiniteSet(Pending(i)') /\ Cardinality(Pending(i)') \in Nat
<1>1. \A i : Ents(i) \subseteq Inums \X Places /\ Ents(i)' \subseteq Inums \X Places
  BY DEF Ents, Links, Places
<1>2. \A i : Pending(i) \subseteq Procs /\ Pending(i)' \subseteq Procs
  BY DEF Pending
<1>3. IsFiniteSet(Procs)
  BY FileSystemAssumption
<1> QED BY <1>1, <1>2, <1>3, PlacesFinite, FS_Subset, FS_CardinalityType

\* The numbers an inode is made of.
LEMMA DiskTypes ==
  ASSUME TypeOK
  PROVE  \A i \in Inums : /\ disk[i] \in Dinode /\ disk[i].type \in Types /\ disk[i].nlink \in Int
                          /\ disk[i].size \in Nat /\ dents[i] \in Seq(Entry)
                          /\ \A k \in 1..Len(dents[i]) : dents[i][k] \in Entry /\ dents[i][k][2] \in 0..NInodes
<1>1. \A i \in Inums : disk[i] \in Dinode /\ dents[i] \in Seq(Entry)
  BY DEF TypeOK
<1>2. \A s \in Seq(Entry) : \A k \in 1..Len(s) : s[k] \in Entry
  OBVIOUS
<1>3. \A e \in Entry : e[2] \in 0..NInodes
  BY DEF Entry
<1> QED BY <1>1, <1>2, <1>3 DEF Dinode

LEMMA NlinkNat == ASSUME LinkInv PROVE \A i \in Inums : disk[i].nlink \in Int /\ disk[i].nlink >= 0
<1> SUFFICES ASSUME NEW i \in Inums PROVE disk[i].nlink \in Int /\ disk[i].nlink >= 0
  OBVIOUS
<1>1. disk[i].nlink = Cardinality(Ents(i)) + Cardinality(Pending(i))
  BY DEF LinkInv, CountOK
<1> QED BY <1>1, LinkSets

\* An entry of a live directory names an inode that has a link.
LEMMA Named ==
  ASSUME TypeOK, LinkInv, NEW i \in Inums, Live(i), NEW k \in 1..disk[i].size, dents[i][k][2] # 0
  PROVE  /\ dents[i][k][2] \in Inums /\ k \in Places
         /\ disk[dents[i][k][2]].nlink >= 1 /\ disk[dents[i][k][2]].type # "none"
         /\ k >= 2 => <<i, k>> \in Ents(dents[i][k][2])
<1>1. PICK t : t = dents[i][k][2]
  OBVIOUS
<1>2. /\ disk[i].size = Len(dents[i]) /\ disk[i].size \in Nat /\ disk[i].size <= MAXFILE * Dirents /\ disk[i].type = "dir"
      /\ disk[i].nlink > 0 /\ disk[i].size >= 2
      /\ dents[i][1] = <<".", i>> /\ dents[i][2][1] = ".." /\ dents[i][2][2] # 0
      /\ \A l \in 3..disk[i].size : dents[i][l][2] # 0 => dents[i][l][1] \notin {".", ".."}
  BY DiskTypes DEF LinkInv, DirOK, Live
<1>3. t \in Inums
  <2>1. k \in 1..Len(dents[i])
    BY <1>2
  <2>2. t \in 0..NInodes /\ t # 0
    BY <1>1, <2>1, DiskTypes
  <2> QED BY <2>2, InumRange
<1>4. k \in Places
  BY <1>2, PlacesFinite DEF Places
<1>5. CASE k = 1
  <2>1. t = i
    BY <1>1, <1>2, <1>5
  <2> QED BY <1>1, <1>2, <1>3, <1>4, <1>5, <2>1, DiskTypes
<1>6. CASE k >= 2
  <2>1. dents[i][k][1] # "."
    BY <1>1, <1>2, <1>6
  <2>2. <<i, k>> \in Ents(t)
    BY <1>1, <1>2, <1>4, <2>1 DEF Ents, Links, Places
  <2>3. Cardinality(Ents(t)) \in Nat /\ Cardinality(Pending(t)) \in Nat /\ Cardinality(Ents(t)) # 0
    BY <2>2, LinkSets, FS_EmptySet
  <2>4. CountOK(t)
    BY <1>3 DEF LinkInv
  <2> QED BY <1>1, <1>3, <1>4, <2>2, <2>3, <2>4 DEF CountOK
<1> QED BY <1>2, <1>5, <1>6

\* The step changes no link to inode i, and no entry of it if it is live.
LinkKept(i) ==
  /\ disk'[i].nlink = disk[i].nlink
  /\ disk[i].nlink > 0 => disk'[i].type = disk[i].type
  /\ disk[i].nlink > 0 /\ disk[i].type = "dir" => disk'[i].size = disk[i].size /\ dents'[i] = dents[i]
  /\ disk'[i].type = "none" => Owned(disk'[i]) = {}
  /\ disk[i].nlink = 0 => DirOK(i)'

PendingKept == \A i \in Inums : Pending(i)' = Pending(i) /\ (Removing(i)' <=> Removing(i))

\* Inode i is live as before, with the same entries.
LiveKept(i) ==
  /\ Live(i)' <=> Live(i)
  /\ Live(i) => disk'[i].size = disk[i].size /\ dents'[i] = dents[i]
  /\ disk[i].nlink > 0 => disk'[i].type = disk[i].type

\* An entry that counts as a link.
LEMMA EntsIs ==
  /\ \A c, x : x \in Ents(c) <=> /\ x \in Inums \X Places /\ Live(x[1]) /\ x[2] <= disk[x[1]].size
                                /\ dents[x[1]][x[2]][1] # "." /\ dents[x[1]][x[2]][2] = c
  /\ \A c, x : x \in Ents(c)' <=> /\ x \in Inums \X Places /\ Live(x[1])' /\ x[2] <= disk'[x[1]].size
                                 /\ dents'[x[1]][x[2]][1] # "." /\ dents'[x[1]][x[2]][2] = c
  BY DEF Ents, Links, Live, Places

\* While the live directories keep their entries, the links and the tree stay.
LEMMA TreeFrame ==
  ASSUME TypeOK, LinkInv, \A i \in Inums : LiveKept(i)
  PROVE  TreeOK' /\ \A c : Ents(c)' = Ents(c)
<1>1. \A i \in Inums : CountOK(i) /\ DirOK(i) /\ disk[i].nlink \in Int /\ disk[i].nlink >= 0
  BY NlinkNat DEF LinkInv
<1>2. \A i \in Inums : Live(i)' <=> Live(i)
  BY DEF LiveKept
<1>3. \A i \in Inums : Live(i) => disk'[i].size = disk[i].size /\ dents'[i] = dents[i]
  BY DEF LiveKept
<1>4. ASSUME NEW c PROVE Ents(c)' = Ents(c)
  <2>1. ASSUME NEW x \in Inums \X Places PROVE x \in Ents(c)' <=> x \in Ents(c)
    <3>1. x[1] \in Inums
      OBVIOUS
    <3> QED BY <1>2, <1>3, <3>1, EntsIs
  <2>2. Ents(c) \subseteq Inums \X Places /\ Ents(c)' \subseteq Inums \X Places
    BY EntsIs
  <2> QED BY <2>1, <2>2
<1>7. \A i, c \in Inums : \A k \in Places : Child(i, k, c)' <=> Child(i, k, c)
  BY <1>2, <1>3 DEF Child
<1>8. TreeOK'
  <2>0. ROOTINO \in Inums
    BY FileSystemAssumption DEF ROOTINO, Inums
  <2>1. Live(ROOTINO)' /\ dents'[ROOTINO][2][2] = ROOTINO
    BY <1>2, <1>3, <2>0 DEF LinkInv, TreeOK
  <2>2. ASSUME NEW i \in Inums, NEW c \in Inums, NEW k \in Places, Child(i, k, c)', disk'[c].type = "dir"
        PROVE  c # ROOTINO /\ Live(c)' /\ dents'[c][2][2] = i /\ \A l \in Places : Child(i, l, c)' => l = k
    <3>1. Child(i, k, c)
      BY <1>7, <2>2
    <3>2. c # 0 /\ Live(i) /\ k \in 1..disk[i].size /\ dents[i][k][2] = c
      BY <3>1, FileSystemAssumption DEF Child, Inums, Places
    <3>3. disk[c].nlink >= 1
      BY <3>2, Named
    <3>4. disk[c].type = "dir"
      BY <1>1, <2>2, <3>3 DEF LiveKept
    <3>5. c # ROOTINO /\ Live(c) /\ dents[c][2][2] = i /\ \A l \in Places : Child(i, l, c) => l = k
      BY <3>1, <3>4 DEF LinkInv, TreeOK
    <3> QED BY <1>2, <1>3, <1>7, <3>5
  <2>3. ASSUME NEW c \in Inums \ {ROOTINO}, Live(c)' PROVE \E k \in Places : Child(dents[c][2][2], k, c)'
    <3>1. Live(c) /\ dents'[c] = dents[c]
      BY <1>2, <1>3, <2>3
    <3>2. dents[c][2][2] \in Inums
      <4>1. 2 \in 1..disk[c].size /\ dents[c][2][2] # 0
        BY <1>1, <3>1, DiskTypes DEF DirOK, Live
      <4> QED BY <3>1, <4>1, Named
    <3>3. PICK k \in Places : Child(dents[c][2][2], k, c)
      BY <3>1 DEF LinkInv, TreeOK
    <3>4. PICK d \in Inums : d = dents[c][2][2] /\ d = dents'[c][2][2]
      BY <3>1, <3>2
    <3>5. Child(d, k, c)'
      BY <1>7, <3>3, <3>4
    <3> QED BY <3>4, <3>5
  <2> QED BY <2>1, <2>2, <2>3 DEF TreeOK
<1> QED BY <1>4, <1>8

LEMMA LinkFrame ==
  ASSUME TypeOK, LinkInv, \A i \in Inums : LinkKept(i), PendingKept
  PROVE  LinkInv'
<1>1. \A i \in Inums : CountOK(i) /\ DirOK(i) /\ disk[i].nlink \in Int /\ disk[i].nlink >= 0
  BY NlinkNat DEF LinkInv
<1>2. \A i \in Inums : LiveKept(i)
  BY DEF Live, LinkKept, PendingKept, LiveKept
<1>4. TreeOK' /\ \A c : Ents(c)' = Ents(c)
  BY <1>2, TreeFrame
<1>5. ASSUME NEW i \in Inums PROVE CountOK(i)'
  <2>1. disk'[i].nlink = Cardinality(Ents(i)') + Cardinality(Pending(i)')
    <3>1. disk[i].nlink = Cardinality(Ents(i)) + Cardinality(Pending(i))
      BY <1>1 DEF CountOK
    <3> QED BY <1>4, <3>1 DEF LinkKept, PendingKept
  <2>2. disk'[i].nlink <= NLINK_MAX
    BY <1>1 DEF CountOK, LinkKept
  <2>3. disk'[i].type = "none" => disk'[i].nlink = 0 /\ Owned(disk'[i]) = {}
    BY <1>1 DEF CountOK, LinkKept
  <2> QED BY <2>1, <2>2, <2>3 DEF CountOK
<1>6. ASSUME NEW i \in Inums PROVE DirOK(i)'
  <2>1. CASE disk[i].nlink = 0
    BY <2>1 DEF LinkKept
  <2>2. CASE disk[i].nlink > 0
    <3>1. /\ disk'[i].nlink = disk[i].nlink /\ disk'[i].type = disk[i].type
          /\ disk[i].type = "dir" => disk'[i].size = disk[i].size /\ dents'[i] = dents[i]
      BY <2>2 DEF LinkKept
    <3>2. DirOK(i)
      BY <1>1
    <3>3. CASE disk[i].type # "dir"
      BY <3>1, <3>3 DEF DirOK
    <3>4. CASE disk[i].type = "dir"
      BY <2>2, <3>1, <3>2, <3>4 DEF DirOK
    <3> QED BY <3>3, <3>4
  <2> QED BY <1>1, <2>1, <2>2
<1> QED BY <1>4, <1>5, <1>6 DEF LinkInv

LEMMA PendingSame ==
  ASSUME NEW p \in Procs, Alone(p),
         \A i \in Inums : /\ Pends(pr'[p], i) <=> Pends(pr[p], i)
                          /\ Removes(pr'[p], i) <=> Removes(pr[p], i)
  PROVE  PendingKept
<1>1. \A i \in Inums : \A q \in Procs : /\ Pends(pr'[q], i) <=> Pends(pr[q], i)
                                        /\ Removes(pr'[q], i) <=> Removes(pr[q], i)
  BY DEF Alone
<1> QED BY <1>1 DEF PendingKept, Pending, Removing

\* A step that changes nothing on the disk.
LEMMA QuietStep ==
  ASSUME FsInv, boot = 0, NEW p \in Procs, Alone(p), UNCHANGED <<disk, dents, bitmap, boot, panicked>>,
         TypeOK', \A i \in Inums : Carried(p, i), ProcOK(p)',
         \A i \in Inums : /\ Pends(pr'[p], i) <=> Pends(pr[p], i)
                          /\ Removes(pr'[p], i) <=> Removes(pr[p], i)
  PROVE  FsInv'
<1>1. TypeOK /\ TableInv /\ LinkInv /\ BlockInv
  BY DEF FsInv
<1>2. TableInv'
  BY <1>1, TableStep
<1>3. ASSUME NEW i \in Inums PROVE LinkKept(i)
  <2>1. CountOK(i) /\ DirOK(i)
    BY <1>1 DEF LinkInv
  <2>2. DirOK(i)'
    BY <2>1 DEF DirOK
  <2> QED BY <2>1, <2>2 DEF LinkKept, CountOK
<1>4. PendingKept
  BY PendingSame
<1>5. LinkInv'
  BY <1>1, <1>3, <1>4, LinkFrame
<1>6. BlockInv'
  BY <1>1 DEF BlockInv, BlocksOK
<1> QED BY <1>2, <1>5, <1>6 DEF FsInv

-----------------------------------------------------------------------------
(* Steps under the lock of one inode: the records they leave.               *)

\* The table after Left() and iget().
LEMMA LeftFacts ==
  ASSUME TypeOK, NEW i \in Inums, NEW d \in Dinode, NEW l \in Procs \union {None}
  PROVE  /\ Left(i, d, l) \in [Inums -> Slot]
         /\ Left(i, d, l)[i].ref = mem[i].ref /\ Left(i, d, l)[i].valid
         /\ Left(i, d, l)[i].d = d /\ Left(i, d, l)[i].lock = l
         /\ \A j \in Inums : j # i => Left(i, d, l)[j] = mem[j]
  BY DEF Left, TypeOK, Slot

LEMMA IgetFacts ==
  ASSUME NEW m \in [Inums -> Slot], NEW t \in Inums
  PROVE  /\ iget(m, t) \in [Inums -> Slot]
         /\ iget(m, t)[t].ref = m[t].ref + 1 /\ iget(m, t)[t].valid = m[t].valid
         /\ iget(m, t)[t].d = m[t].d /\ iget(m, t)[t].lock = m[t].lock
         /\ \A j \in Inums : j # t => iget(m, t)[j] = m[j]
  BY DEF iget, Slot

\* The table after process p has looked at inode i (none if 0) under its lock, left
\* to l, and has taken a reference to inode t (none if 0).
Looked(i, l, t) ==
  LET m == IF i = 0 THEN mem ELSE Left(i, disk[i], l)
  IN IF t = 0 THEN m ELSE iget(m, t)

\* The call was r, with directory c and file f, and becomes s, with directory e and file g.
Turned(p, r, c, f, s, e, g, i, l, t) ==
  \A j \in Inums : /\ HeldBy(s, e, g, j) = HeldBy(r, c, f, j) + One(j = t)
                   /\ Locks(s, j) <=> (IF j = i THEN l = p ELSE Locks(r, j))
                   /\ ~Works(r, j)
                   /\ Pends(s, j) <=> Pends(r, j)
                   /\ Removes(s, j) <=> Removes(r, j)

\* Process p has looked at inode i and holds a reference to inode t more.
Worked(p, i, l, t) ==
  /\ i \in 0..NInodes /\ t \in 0..NInodes /\ l \in {None, p}
  /\ i # 0 => mem[i].lock \in {None, p} /\ Held(p, i) >= 1
  /\ t # 0 => disk[t].type # "none" /\ (Held(p, t) >= 1 \/ disk[t].nlink >= 1)
  /\ mem' = Looked(i, l, t)
  /\ Turned(p, pr[p], cwd[p], fd[p], pr'[p], cwd'[p], fd'[p], i, l, t)

LEMMA EmptyCall == /\ 0 \in 0..NInodes /\ <<>> \in Seq(Inums) /\ <<>> \in Seq(Names) /\ <<>> \in Seq(Path)
                   /\ NoName \in Names /\ "." \in Names /\ ".." \in Names
  BY FileSystemAssumption

LEMMA LookedFacts ==
  ASSUME TypeOK, NEW i \in 0..NInodes, NEW t \in 0..NInodes, NEW l \in Procs \union {None}
  PROVE  /\ Looked(i, l, t) \in [Inums -> Slot]
         /\ \A j \in Inums : /\ Looked(i, l, t)[j].ref = mem[j].ref + One(j = t)
                             /\ Looked(i, l, t)[j].valid <=> (mem[j].valid \/ j = i)
                             /\ Looked(i, l, t)[j].d = IF j = i THEN disk[i] ELSE mem[j].d
                             /\ Looked(i, l, t)[j].lock = IF j = i THEN l ELSE mem[j].lock
<1>1. i # 0 => i \in Inums
  BY InumRange
<1>2. t # 0 => t \in Inums
  BY InumRange
<1>3. 0 \notin Inums /\ mem \in [Inums -> Slot] /\ \A j \in Inums : mem[j] \in Slot /\ mem[j].ref \in Int
  BY InumRange DEF TypeOK, Slot
<1> DEFINE m == IF i = 0 THEN mem ELSE Left(i, disk[i], l)
<1>4. /\ m \in [Inums -> Slot]
      /\ \A j \in Inums : /\ m[j].ref = mem[j].ref
                          /\ m[j].valid <=> (mem[j].valid \/ j = i)
                          /\ m[j].d = IF j = i THEN disk[i] ELSE mem[j].d
                          /\ m[j].lock = IF j = i THEN l ELSE mem[j].lock
  <2>1. CASE i = 0
    BY <1>3, <2>1
  <2>2. CASE i # 0
    <3>1. disk[i] \in Dinode /\ i \in Inums
      BY <1>1, <2>2, DiskTypes
    <3>2. m = Left(i, disk[i], l)
      BY <2>2
    <3> HIDE DEF m
    <3>3. /\ m \in [Inums -> Slot] /\ m[i].ref = mem[i].ref /\ m[i].valid /\ m[i].d = disk[i] /\ m[i].lock = l
          /\ \A j \in Inums : j # i => m[j] = mem[j]
      <4>1. PICK d \in Dinode : d = disk[i]
        BY <3>1
      <4>2. m = Left(i, d, l)
        BY <3>2, <4>1
      <4> QED BY <3>1, <4>1, <4>2, LeftFacts
    <3> QED BY <3>3
  <2> QED BY <2>1, <2>2
<1>5. Looked(i, l, t) = IF t = 0 THEN m ELSE iget(m, t)
  BY DEF Looked
<1> HIDE DEF m
<1>6. CASE t = 0
  <2>1. \A j \in Inums : One(j = t) = 0
    BY <1>3, <1>6 DEF One
  <2> QED BY <1>3, <1>4, <1>5, <1>6, <2>1
<1>7. CASE t # 0
  <2>1. t \in Inums /\ Looked(i, l, t) = iget(m, t)
    BY <1>2, <1>5, <1>7
  <2>2. /\ iget(m, t) \in [Inums -> Slot]
        /\ iget(m, t)[t].ref = m[t].ref + 1 /\ iget(m, t)[t].valid = m[t].valid
        /\ iget(m, t)[t].d = m[t].d /\ iget(m, t)[t].lock = m[t].lock
        /\ \A j \in Inums : j # t => iget(m, t)[j] = m[j]
    BY <1>4, <2>1, IgetFacts
  <2>3. \A j \in Inums : iget(m, t)[j].ref = m[j].ref + One(j = t)
    <3>1. \A j \in Inums : m[j].ref \in Int
      BY <1>3, <1>4
    <3> QED BY <2>2, <3>1 DEF One
  <2>4. \A j \in Inums : iget(m, t)[j].valid = m[j].valid /\ iget(m, t)[j].d = m[j].d /\ iget(m, t)[j].lock = m[j].lock
    BY <2>2
  <2>5. \A j \in Inums : iget(m, t)[j].ref = mem[j].ref + One(j = t)
    BY <1>4, <2>3
  <2> QED BY <1>4, <2>1, <2>2, <2>4, <2>5
<1> QED BY <1>6, <1>7

LEMMA QuietWork ==
  ASSUME FsInv, boot = 0, NEW p \in Procs, Alone(p), UNCHANGED <<disk, dents, bitmap, boot, panicked>>,
         TypeOK', ProcOK(p)', NEW i, NEW l, NEW t, Worked(p, i, l, t)
  PROVE  FsInv'
<1>1. TypeOK /\ TableInv /\ LinkInv /\ BlockInv /\ p # None
  BY FileSystemAssumption DEF FsInv
<1>2. /\ i \in 0..NInodes /\ t \in 0..NInodes /\ l \in {None, p}
      /\ i # 0 => mem[i].lock \in {None, p} /\ Held(p, i) >= 1
      /\ t # 0 => disk[t].type # "none" /\ (Held(p, t) >= 1 \/ disk[t].nlink >= 1)
  BY DEF Worked
<1>3. \A j \in Inums : /\ mem'[j].ref = mem[j].ref + One(j = t)
                       /\ mem'[j].valid <=> (mem[j].valid \/ j = i)
                       /\ mem'[j].d = IF j = i THEN disk[i] ELSE mem[j].d
                       /\ mem'[j].lock = IF j = i THEN l ELSE mem[j].lock
  BY <1>1, <1>2, LookedFacts DEF Worked
<1>4. \A j \in Inums : /\ Held(p, j)' = Held(p, j) + One(j = t)
                       /\ Locks(pr'[p], j) <=> (IF j = i THEN l = p ELSE Locks(pr[p], j))
                       /\ ~Works(pr[p], j)
                       /\ Pends(pr'[p], j) <=> Pends(pr[p], j)
                       /\ Removes(pr'[p], j) <=> Removes(pr[p], j)
  BY DEF Worked, Turned, Held
<1>5. ASSUME NEW j \in Inums PROVE Carried(p, j)
  <2>1. /\ TableOK(j) /\ Held(p, j) \in 0..7 /\ mem[j].ref \in Int /\ mem[j].valid \in BOOLEAN /\ One(j = t) \in {0, 1}
        /\ mem[j].lock \in Procs \union {None}
    BY <1>1, HeldCounts DEF TableInv, TypeOK, Slot, One
  <2>2. mem[j].ref = Refs(j) /\ Refs(j) >= Held(p, j)
    BY <2>1, RefsBound DEF TableOK
  <2>3. mem'[j].ref = mem[j].ref + Held(p, j)' - Held(p, j)
    BY <1>3, <1>4, <2>1
  <2>4. mem[j].lock = p <=> Locks(pr[p], j)
    BY <2>1 DEF TableOK
  <2>5. CASE j = i
    <3>1. mem[j].lock \in {None, p} /\ Held(p, j) >= 1 /\ mem'[j].lock = l /\ mem'[j].valid /\ mem'[j].d = disk[j]
      BY <1>2, <1>3, <2>5, InumRange
    <3>2. mem'[j].ref > 0 /\ mem[j].ref > 0
      BY <1>3, <2>1, <2>2, <3>1
    <3>3. disk[j].type # "none"
      BY <2>1, <3>2 DEF TableOK
    <3>4. mem'[j].lock = p <=> Locks(pr'[p], j)
      BY <1>4, <2>5, <3>1
    <3> QED BY <1>1, <1>2, <2>3, <3>1, <3>2, <3>3, <3>4 DEF Carried
  <2>6. CASE j # i
    <3>1. (mem'[j].valid <=> mem[j].valid) /\ mem'[j].d = mem[j].d /\ mem'[j].lock = mem[j].lock
      BY <1>3, <2>1, <2>6
    <3>2. mem'[j].lock = p <=> Locks(pr'[p], j)
      BY <1>4, <2>4, <2>6, <3>1
    <3>3. mem'[j].ref >= mem[j].ref /\ (j # t => mem'[j].ref = mem[j].ref)
      BY <1>3, <2>1 DEF One
    <3>4. mem'[j].ref > 0 => disk[j].type # "none"
      <4>1. CASE j = t
        BY <1>2, <4>1, InumRange
      <4>2. CASE j # t
        BY <2>1, <3>3, <4>2 DEF TableOK
      <4> QED BY <4>1, <4>2
    <3>5. /\ mem'[j].valid => mem'[j].d = disk[j] /\ mem'[j].ref > 0
          /\ mem'[j].lock # None => mem'[j].valid
      BY <1>3, <2>1, <3>1, <3>3 DEF TableOK
    <3>6. Orphan(j)' => mem'[j].valid \/ (Orphan(j) /\ ~mem[j].valid /\ ~Works(pr[p], j))
      BY <1>4, <3>1 DEF Orphan
    <3>7. \/ disk'[j] = disk[j] /\ dents'[j] = dents[j] /\ mem'[j].ref = mem[j].ref /\ (mem'[j].valid <=> mem[j].valid)
          \/ disk'[j] = disk[j] /\ dents'[j] = dents[j] /\ (Held(p, j) >= 1 \/ disk[j].nlink >= 1)
      <4>1. CASE j = t
        BY <1>2, <4>1, InumRange
      <4>2. CASE j # t
        BY <3>1, <3>3, <4>2
      <4> QED BY <4>1, <4>2
    <3> QED BY <2>3, <3>1, <3>2, <3>4, <3>5, <3>6, <3>7 DEF Carried
  <2> QED BY <2>5, <2>6
<1>6. \A j \in Inums : /\ Pends(pr'[p], j) <=> Pends(pr[p], j)
                       /\ Removes(pr'[p], j) <=> Removes(pr[p], j)
  BY <1>4
<1> QED BY <1>5, <1>6, QuietStep

\* A process at a place where it relies on little.
LEMMA PlainProc ==
  ASSUME NEW p \in Procs, pr'[p].put = "start", pr'[p].pc \notin {"create_ip", "unlink_ip", "unlink_dec"},
         Shape(pr'[p]),
         pr'[p].pc \in {"create_dp", "unlink_dp", "link_dp"} => disk'[pr'[p].dp].type = "dir",
         pr'[p].pc \in {"walk", "link_dp", "link_bad", "drop_dp"} /\ pr'[p].ip # 0 => disk'[pr'[p].ip].type # "dir"
  PROVE  ProcOK(p)'
  BY DEF ProcOK

\* A call that goes on as s and changes nothing on the disk.
LEMMA QuietCall ==
  ASSUME FsInv, boot = 0, NEW p \in Procs, UNCHANGED <<disk, dents, bitmap, boot, panicked>>,
         NEW s \in CallRec, pr' = [pr EXCEPT ![p] = s],
         cwd' \in [Procs -> Inums], fd' \in [Procs -> File \union {None}],
         \A q \in Procs : q # p => cwd'[q] = cwd[q] /\ fd'[q] = fd[q],
         ProcOK(p)',
         NEW i \in 0..NInodes, NEW l \in {None, p}, NEW t \in 0..NInodes, mem' = Looked(i, l, t),
         i # 0 => mem[i].lock \in {None, p} /\ Held(p, i) >= 1,
         t # 0 => disk[t].type # "none" /\ (Held(p, t) >= 1 \/ disk[t].nlink >= 1),
         Turned(p, pr[p], cwd[p], fd[p], s, cwd'[p], fd'[p], i, l, t)
  PROVE  FsInv'
<1>1. TypeOK
  BY DEF FsInv
<1>2. pr'[p] = s /\ Alone(p)
  BY <1>1 DEF Alone, TypeOK
<1>3. mem' \in [Inums -> Slot]
  BY <1>1, LookedFacts
<1>4. TypeOK'
  BY <1>1, <1>3 DEF TypeOK
<1>5. Worked(p, i, l, t)
  BY <1>2 DEF Worked
<1> QED BY <1>2, <1>4, <1>5, QuietWork

\* A process between two steps of its call that has no reference to drop.
LEMMA Ready ==
  ASSUME FsInv, boot = 0, NEW p \in Procs, pr[p].puts = <<>>
  PROVE  /\ TypeOK /\ TableInv /\ LinkInv /\ BlockInv /\ ProcOK(p) /\ Shape(pr[p]) /\ p # None
         /\ pr[p] \in CallRec /\ pr[p].put = "start"
         /\ cwd[p] \in Inums /\ fd[p] \in File \union {None}
         /\ pr[p].at # 0 => pr[p].at \in Inums
         /\ pr[p].ip # 0 => pr[p].ip \in Inums
         /\ pr[p].dp # 0 => pr[p].dp \in Inums
         /\ \A j \in Inums : Inode(j) = disk[j]
<1>1. TypeOK /\ TableInv /\ LinkInv /\ BlockInv
  BY DEF FsInv
<1>2. ProcOK(p) /\ Shape(pr[p]) /\ pr[p] \in CallRec /\ cwd[p] \in Inums /\ fd[p] \in File \union {None} /\ p # None
  BY <1>1, FileSystemAssumption DEF TableInv, ProcOK, TypeOK
<1>3. pr[p].put = "start"
  BY <1>2 DEF Shape
<1>4. pr[p].at \in 0..NInodes /\ pr[p].ip \in 0..NInodes /\ pr[p].dp \in 0..NInodes
  BY <1>2 DEF CallRec
<1> QED BY <1>1, <1>2, <1>3, <1>4, InumRange, InodeOnDisk

\* An inode somebody holds a reference to is allocated.
LEMMA HeldTyped ==
  ASSUME TypeOK, TableInv, boot = 0, NEW p \in Procs, NEW i \in Inums, Held(p, i) >= 1
  PROVE  disk[i].type # "none" /\ mem[i].ref >= 1
<1>1. TableOK(i) /\ Refs(i) >= Held(p, i) /\ Refs(i) \in Nat /\ Held(p, i) \in 0..7
  BY RefsBound, HeldCounts DEF TableInv
<1> QED BY <1>1 DEF TableOK

\* An unlocked directory with links is live.
LEMMA UnlockedLive ==
  ASSUME TypeOK, TableInv, boot = 0, NEW i \in Inums, disk[i].type = "dir", disk[i].nlink > 0, mem[i].lock = None
  PROVE  Live(i)
<1>1. \A q \in Procs : ~Locks(pr[q], i)
  BY FileSystemAssumption DEF TableInv, TableOK
<1> QED BY <1>1 DEF Live, Removing, Removes, Locks

\* dirlookup() in a live directory, and in one without links.
LEMMA Lookup ==
  ASSUME FsInv, boot = 0, NEW i \in Inums, Live(i), NEW n
  PROVE  /\ dirlookup(i, n) = 0 <=> Found(i, n) = {}
         /\ dirlookup(i, n) # 0 => /\ dirlookup(i, n) \in Inums /\ dirlookup(i, n) = dents[i][Min(Found(i, n))][2]
                                   /\ Min(Found(i, n)) \in Found(i, n)
                                   /\ disk[dirlookup(i, n)].nlink >= 1 /\ disk[dirlookup(i, n)].type # "none"
<1>1. Slots(i, n) = Found(i, n)
  BY InodeOnDisk DEF FsInv, Slots, Found
<1>2. Found(i, n) \in SUBSET Nat
  BY DiskTypes DEF Found, FsInv
<1>3. CASE Found(i, n) = {}
  BY <1>1, <1>3 DEF dirlookup
<1>4. CASE Found(i, n) # {}
  <2>1. PICK k : k = Min(Found(i, n))
    OBVIOUS
  <2>2. k \in Found(i, n)
    BY <1>2, <1>4, <2>1, MinIsMember
  <2>3. dirlookup(i, n) = dents[i][k][2]
    BY <1>1, <1>4, <2>1 DEF dirlookup
  <2>4. k \in 1..disk[i].size /\ dents[i][k][2] # 0
    BY <2>2 DEF Found
  <2>5. dents[i][k][2] \in Inums /\ disk[dents[i][k][2]].nlink >= 1 /\ disk[dents[i][k][2]].type # "none"
    BY <2>4, Named DEF FsInv
  <2> QED BY <1>4, <2>1, <2>2, <2>3, <2>4, <2>5
<1> QED BY <1>3, <1>4

LEMMA LookupDead ==
  ASSUME FsInv, boot = 0, NEW i \in Inums, disk[i].type = "dir", disk[i].nlink = 0, NEW n, n \notin {".", ".."}
  PROVE  dirlookup(i, n) = 0
<1>1. Slots(i, n) = Found(i, n)
  BY InodeOnDisk DEF FsInv, Slots, Found
<1>2. \A k \in 1..disk[i].size : dents[i][k][2] # 0 => dents[i][k][1] \in {".", ".."}
  BY DEF FsInv, LinkInv, DirOK
<1>3. Found(i, n) = {}
  BY <1>2 DEF Found
<1> QED BY <1>1, <1>3 DEF dirlookup

-----------------------------------------------------------------------------
(* Calls begin; path names are resolved.                                    *)

LEMMA BeginKeeps ==
  ASSUME FsInv, NEW p \in Procs, NEW a \in Args, Begin(p, a)
  PROVE  FsInv'
<1>1. boot = 0 /\ pr[p].pc = "idle" /\ pr[p].puts = <<>> /\ UNCHANGED <<disk, dents, bitmap, boot, panicked, cwd, fd>>
  BY DEF Begin, Running, bootVars
<1>2. /\ TypeOK /\ TableInv /\ LinkInv /\ Shape(pr[p]) /\ cwd[p] \in Inums /\ fd[p] \in File \union {None} /\ pr[p] = Idle /\ p # None
  BY <1>1, Ready DEF Shape
<1>3. a.call \in Calls /\ a.path \in Path /\ a.new \in Path /\ a.path.elems \in Seq(Names) /\ a.path.abs \in BOOLEAN
  BY FileSystemAssumption DEF Path
<1>4. PICK t : t = From(p, a.path)
  OBVIOUS
<1>5. t \in Inums /\ t # 0
  BY <1>2, <1>4, InumRange, FileSystemAssumption DEF From, ROOTINO, Inums
<1>6. PICK s : s = [Idle EXCEPT !.pc = "walk", !.call = a.call, !.at = t, !.path = a.path.elems,
                                !.new = IF a.call = "link" THEN <<a.new>> ELSE <<>>]
  OBVIOUS
<1>7. /\ s.pc = "walk" /\ s.call = a.call /\ s.at = t /\ s.path = a.path.elems /\ s.ip = 0 /\ s.dp = 0 /\ s.puts = <<>>
      /\ s.put = "start" /\ s.name = NoName /\ s.new = IF a.call = "link" THEN <<a.new>> ELSE <<>>
  BY <1>6 DEF Idle
<1>8. s.new \in Seq(Path) /\ (a.call = "link" => Len(s.new) = 1)
  BY <1>3, <1>7
<1>9. s \in CallRec
  <2>1. t \in 0..NInodes
    BY <1>5, InumRange
  <2>2. s = [Idle EXCEPT !.pc = "walk", !.call = a.call, !.at = t, !.path = a.path.elems, !.new = s.new]
    BY <1>6, <1>7
  <2> QED BY <1>3, <1>8, <2>1, <2>2, EmptyCall DEF CallRec, Idle, Pcs
<1>10. pr' = [pr EXCEPT ![p] = s] /\ mem' = iget(mem, t)
  BY <1>4, <1>6 DEF Begin
<1>11. pr'[p] = s
  BY <1>2, <1>10 DEF TypeOK
<1>12. mem' = Looked(0, None, t) /\ 0 \in 0..NInodes /\ t \in 0..NInodes /\ None \in {None, p}
  BY <1>5, <1>10, InumRange, EmptyCall DEF Looked
<1>13. cwd' \in [Procs -> Inums] /\ fd' \in [Procs -> File \union {None}]
  BY <1>1, <1>2 DEF TypeOK
<1>14. ProcOK(p)'
  <2>1. Shape(s)
    BY <1>3, <1>5, <1>7, <1>8 DEF Shape, HasDp, HasIp
  <2> QED BY <1>7, <1>11, <2>1, PlainProc
<1>15. disk[t].type # "none" /\ (Held(p, t) >= 1 \/ disk[t].nlink >= 1)
  <2>1. CASE t = ROOTINO
    BY <1>2, <1>5, <2>1, NlinkNat DEF LinkInv, TreeOK, Live
  <2>2. CASE t # ROOTINO
    <3>1. t = cwd[p]
      BY <1>4, <2>2 DEF From
    <3>2. Held(p, t) >= 1
      BY <1>1, <1>2, <1>5, <3>1, OwnHolds
    <3> QED BY <1>1, <1>2, <1>5, <3>2, HeldTyped
  <2> QED BY <2>1, <2>2
<1>16. Turned(p, pr[p], cwd[p], fd[p], s, cwd'[p], fd'[p], 0, None, t)
  BY <1>1, <1>2, <1>5, <1>7, InumRange DEF Turned, HeldBy, One, Locks, Works, Pends, Removes, Idle
<1> QED BY <1>1, <1>9, <1>10, <1>12, <1>13, <1>14, <1>15, <1>16, QuietCall

\* A sequence of one inode to drop.
LEMMA OnePut == \A i \in Inums : <<i>> \in Seq(Inums) /\ Len(<<i>>) = 1 /\ <<i>>[1] = i /\ <<i>> # <<>>
  OBVIOUS

\* A call in namex(), which has reached inode i.
AtWalk(r, i) == /\ r \in CallRec /\ Shape(r) /\ r.pc = "walk" /\ r.puts = <<>> /\ r.put = "start"
                /\ i \in Inums /\ r.at = i

LEMMA NoInodeFacts ==
  ASSUME NEW r, NEW i, AtWalk(r, i), NEW s, s = [NoInode(r) EXCEPT !.puts = <<i>>]
  PROVE  /\ s \in CallRec /\ Shape(s) /\ s.put = "start" /\ s.ip = r.ip /\ s.pc \in {"link_bad", "end"}
         /\ \A p, c, f : p # None => Turned(p, r, c, f, s, c, f, 0, None, 0) /\ Turned(p, r, c, f, s, c, f, i, None, 0)
<1> USE DEF AtWalk
<1>1. /\ s.pc = IF r.ip # 0 THEN "link_bad" ELSE "end"
      /\ s.call = r.call /\ s.at = 0 /\ s.path = <<>> /\ s.ip = r.ip
      /\ s.dp = r.dp /\ s.puts = <<i>> /\ s.put = "start" /\ s.name = r.name /\ s.new = r.new
  BY DEF NoInode, CallRec
<1>2. s \in CallRec
  BY OnePut, EmptyCall DEF NoInode, CallRec, Pcs
<1>3. /\ r.dp = 0 /\ i # 0 /\ r.call \in Calls /\ (r.ip # 0 => r.call = "link")
  BY InumRange DEF Shape, HasDp
<1>4. Shape(s)
  BY <1>1, <1>3, OnePut DEF Shape, HasDp, HasIp
<1>5. ASSUME NEW p, NEW c, NEW f, p # None, NEW j \in {0, i} PROVE Turned(p, r, c, f, s, c, f, j, None, 0)
  BY <1>1, <1>3, <1>5, InumRange, OnePut DEF Turned, HeldBy, One, Locks, Works, Pends, Removes
<1> QED BY <1>1, <1>2, <1>4, <1>5

\* What namex()'s caller gets.
AfterNamex(r, i, s) ==
  /\ s \in CallRec /\ Shape(s) /\ s.put = "start" /\ s.pc \notin {"create_ip", "unlink_ip", "unlink_dec", "walk", "link_bad", "drop_dp"}
  /\ s.pc \in {"create_dp", "unlink_dp", "link_dp"} <=> WantsParent(r)
  /\ s.pc \in {"create_dp", "unlink_dp", "link_dp"} => s.dp = i
  /\ s.pc = "link_dp" => s.ip = r.ip
  /\ \A p, c, f : p # None => Turned(p, r, c, f, s, c, f, 0, None, 0) /\ Turned(p, r, c, f, s, c, f, i, None, 0)

LEMMA ResolvedFacts ==
  ASSUME NEW r, NEW i, AtWalk(r, i), NEW n \in Names, NEW s, s = [Resolved(r) EXCEPT !.name = n]
  PROVE  AfterNamex(r, i, s)
<1> USE DEF AtWalk
<1>1. /\ r.dp = 0 /\ i # 0 /\ r.call \in Calls /\ (r.ip # 0 => r.call = "link") /\ (r.call = "link" /\ r.ip = 0 => Len(r.new) = 1)
  BY InumRange DEF Shape, HasDp
<1>2. i \in 0..NInodes
  BY InumRange
<1>3. CASE WantsParent(r)
  <2>1. PICK pc \in {"create_dp", "unlink_dp", "link_dp"} :
          /\ Resolved(r) = [r EXCEPT !.at = 0, !.path = <<>>, !.pc = pc, !.dp = i]
          /\ pc = "create_dp" => r.call \in {"creat", "mkdir", "mknod"}
          /\ pc = "unlink_dp" => r.call = "unlink"
          /\ pc = "link_dp" => r.call = "link"
          /\ pc = "link_dp" <=> r.ip # 0
    <3>1. CASE r.call \in {"creat", "mkdir", "mknod"}
      BY <1>1, <3>1 DEF Resolved, CallRec
    <3>2. CASE r.call = "unlink"
      BY <1>1, <3>2 DEF Resolved, CallRec
    <3>3. CASE r.call = "link" /\ r.ip # 0
      BY <1>1, <3>3 DEF Resolved, CallRec
    <3> QED BY <1>1, <1>3, <3>1, <3>2, <3>3 DEF WantsParent
  <2>2. /\ s.pc = pc /\ s.call = r.call /\ s.at = 0 /\ s.path = <<>> /\ s.ip = r.ip
        /\ s.dp = i /\ s.puts = <<>> /\ s.put = "start" /\ s.name = n /\ s.new = r.new
    BY <2>1 DEF CallRec
  <2>3. s \in CallRec
    BY <1>2, <2>1, EmptyCall DEF CallRec, Pcs
  <2>4. Shape(s)
    BY <1>1, <2>1, <2>2 DEF Shape, HasDp, HasIp
  <2>5. ASSUME NEW p, NEW c, NEW f, p # None, NEW j \in {0, i} PROVE Turned(p, r, c, f, s, c, f, j, None, 0)
    BY <1>1, <2>1, <2>2, <2>5, InumRange DEF Turned, HeldBy, One, Locks, Works, Pends, Removes
  <2> QED BY <1>3, <2>1, <2>2, <2>3, <2>4, <2>5 DEF AfterNamex
<1>4. CASE ~WantsParent(r)
  <2>1. PICK pc \in {"link_ip", "chdir_ip", "open_ip"} :
          /\ Resolved(r) = [r EXCEPT !.at = 0, !.path = <<>>, !.pc = pc, !.ip = i]
          /\ pc = "link_ip" <=> r.call = "link"
    <3>1. CASE r.call = "link"
      BY <1>1, <1>4, <3>1 DEF Resolved, CallRec, WantsParent
    <3>2. CASE r.call = "chdir"
      BY <1>1, <3>2 DEF Resolved, CallRec
    <3>3. CASE r.call \in {"open", "trunc"}
      BY <1>1, <3>3 DEF Resolved, CallRec
    <3> QED BY <1>1, <1>4, <3>1, <3>2, <3>3 DEF WantsParent, Calls
  <2>2. /\ s.pc = pc /\ s.call = r.call /\ s.at = 0 /\ s.path = <<>> /\ s.ip = i /\ r.ip = 0
        /\ s.dp = 0 /\ s.puts = <<>> /\ s.put = "start" /\ s.name = n /\ s.new = r.new
    BY <1>1, <1>4, <2>1 DEF CallRec, WantsParent
  <2>3. s \in CallRec
    BY <1>2, <2>1, EmptyCall DEF CallRec, Pcs
  <2>4. Shape(s)
    BY <1>1, <2>1, <2>2 DEF Shape, HasDp, HasIp
  <2>5. ASSUME NEW p, NEW c, NEW f, p # None, NEW j \in {0, i} PROVE Turned(p, r, c, f, s, c, f, j, None, 0)
    BY <1>1, <2>1, <2>2, <2>5, InumRange DEF Turned, HeldBy, One, Locks, Works, Pends, Removes
  <2> QED BY <1>4, <2>1, <2>2, <2>3, <2>4, <2>5 DEF AfterNamex
<1> QED BY <1>3, <1>4

LEMMA NamexKeeps ==
  ASSUME FsInv, NEW p \in Procs, Namex(p)
  PROVE  FsInv'
<1>1. /\ boot = 0 /\ pr[p].pc = "walk" /\ pr[p].puts = <<>> /\ UNCHANGED <<disk, dents, bitmap, boot, panicked>>
      /\ UNCHANGED <<cwd, fd>>
  BY DEF Namex, Running, bootVars
<1>2. PICK r \in CallRec, i \in Inums : r = pr[p] /\ i = r.at
  BY <1>1, Ready DEF Shape
<1>3. /\ TypeOK /\ TableInv /\ LinkInv /\ ProcOK(p) /\ Shape(r) /\ r.pc = "walk" /\ r.puts = <<>> /\ r.put = "start" /\ p # None
      /\ \A j \in Inums : Inode(j) = disk[j]
  BY <1>1, <1>2, Ready
<1>4. /\ cwd' \in [Procs -> Inums] /\ fd' \in [Procs -> File \union {None}] /\ cwd'[p] = cwd[p] /\ fd'[p] = fd[p]
      /\ \A q \in Procs : q # p => cwd'[q] = cwd[q] /\ fd'[q] = fd[q]
      /\ 0 \in 0..NInodes /\ i \in 0..NInodes /\ i # 0 /\ None \in {None, p} /\ pr \in [Procs -> CallRec]
  BY <1>1, <1>3, InumRange, EmptyCall DEF TypeOK
<1>5. Held(p, i) >= 1 /\ AtWalk(r, i)
  BY <1>2, <1>3, OwnHolds DEF AtWalk
<1>6. r.ip # 0 => disk[r.ip].type # "dir"
  BY <1>2, <1>3 DEF ProcOK
<1>7. Looked(i, None, 0) = Left(i, disk[i], None) /\ Looked(0, None, 0) = mem
  BY <1>4 DEF Looked
<1>8. CASE NamexEnd(p)
  <2>1. /\ r.path = <<>> /\ mem' = Looked(0, None, 0)
        /\ pr' = [pr EXCEPT ![p] = IF WantsParent(r) THEN [NoInode(r) EXCEPT !.puts = <<r.at>>] ELSE Resolved(r)]
    BY <1>2, <1>7, <1>8 DEF NamexEnd
  <2>2. CASE WantsParent(r)
    <3>1. PICK s : s = [NoInode(r) EXCEPT !.puts = <<i>>]
      OBVIOUS
    <3>2. pr' = [pr EXCEPT ![p] = s]
      BY <1>2, <2>1, <2>2, <3>1
    <3>3. /\ s \in CallRec /\ Shape(s) /\ s.put = "start" /\ s.ip = r.ip /\ s.pc \in {"link_bad", "end"}
          /\ Turned(p, r, cwd[p], fd[p], s, cwd[p], fd[p], 0, None, 0)
      BY <1>3, <1>5, <3>1, NoInodeFacts
    <3>4. pr'[p] = s
      BY <1>4, <3>2
    <3>5. ProcOK(p)'
      BY <1>1, <1>6, <3>3, <3>4, PlainProc
    <3> QED BY <1>1, <1>2, <1>4, <2>1, <3>2, <3>3, <3>5, QuietCall
  <2>3. CASE ~WantsParent(r)
    <3>1. PICK s : s = [Resolved(r) EXCEPT !.name = r.name]
      OBVIOUS
    <3>2. r.name \in Names
      BY DEF CallRec
    <3>3. /\ s \in CallRec /\ Shape(s) /\ s.put = "start"
          /\ s.pc \notin {"create_ip", "unlink_ip", "unlink_dec", "walk", "link_bad", "drop_dp", "create_dp", "unlink_dp", "link_dp"}
          /\ Turned(p, r, cwd[p], fd[p], s, cwd[p], fd[p], 0, None, 0)
      <4>1. AfterNamex(r, i, s)
        BY <1>5, <3>1, <3>2, ResolvedFacts, Zenon
      <4> QED BY <1>3, <2>3, <4>1 DEF AfterNamex
    <3>4. s = Resolved(r)
      <4>1. r.call \in {"link", "chdir", "open", "trunc"} /\ r.ip = 0
        BY <1>3, <2>3 DEF WantsParent, Shape, Calls
      <4> QED BY <3>1, <4>1 DEF Resolved, CallRec
    <3>5. pr' = [pr EXCEPT ![p] = s] /\ pr'[p] = s
      BY <1>4, <2>1, <2>3, <3>4
    <3>6. ProcOK(p)'
      BY <3>3, <3>5, PlainProc
    <3> QED BY <1>1, <1>2, <1>4, <2>1, <3>3, <3>5, <3>6, QuietCall
  <2> QED BY <2>2, <2>3
<1>9. CASE NamexRound(p)
  <2> DEFINE name == Head(r.path)
             stop == WantsParent(r) /\ Len(r.path) = 1
             t == dirlookup(i, name)
  <2>1. r.path # <<>> /\ mem[i].lock = None /\ Inode(i) = disk[i]
    BY <1>2, <1>3, <1>9 DEF NamexRound, ilock
  <2>2. name \in Names /\ Tail(r.path) \in Seq(Names)
    <3>1. r.path \in Seq(Names)
      BY DEF CallRec
    <3> QED BY <2>1, <3>1
  <2>3. CASE /\ pr' = [pr EXCEPT ![p] = [NoInode(r) EXCEPT !.puts = <<i>>]]
             /\ mem' = Left(i, disk[i], None)
    <3>1. PICK s : s = [NoInode(r) EXCEPT !.puts = <<i>>]
      OBVIOUS
    <3>2. pr' = [pr EXCEPT ![p] = s] /\ mem' = Looked(i, None, 0)
      BY <1>7, <2>3, <3>1
    <3>3. /\ s \in CallRec /\ Shape(s) /\ s.put = "start" /\ s.ip = r.ip /\ s.pc \in {"link_bad", "end"}
          /\ Turned(p, r, cwd[p], fd[p], s, cwd[p], fd[p], i, None, 0)
      BY <1>3, <1>5, <3>1, NoInodeFacts
    <3>4. pr'[p] = s
      BY <1>4, <3>2
    <3>5. ProcOK(p)'
      BY <1>1, <1>6, <3>3, <3>4, PlainProc
    <3> QED BY <1>1, <1>2, <1>4, <1>5, <2>1, <3>2, <3>3, <3>5, QuietCall
  <2>4. CASE /\ Walkable(disk[i]) /\ stop
             /\ pr' = [pr EXCEPT ![p] = [Resolved(r) EXCEPT !.name = name]]
             /\ mem' = Left(i, disk[i], None)
    <3>1. PICK s : s = [Resolved(r) EXCEPT !.name = name]
      OBVIOUS
    <3>2. pr' = [pr EXCEPT ![p] = s] /\ mem' = Looked(i, None, 0)
      BY <1>7, <2>4, <3>1
    <3>3. /\ s \in CallRec /\ Shape(s) /\ s.put = "start"
          /\ s.pc \in {"create_dp", "unlink_dp", "link_dp"} /\ s.dp = i /\ (s.pc = "link_dp" => s.ip = r.ip)
          /\ Turned(p, r, cwd[p], fd[p], s, cwd[p], fd[p], i, None, 0)
      <4>1. PICK n \in Names : n = name
        BY <2>2
      <4>2. s = [Resolved(r) EXCEPT !.name = n]
        BY <3>1, <4>1
      <4>3. AfterNamex(r, i, s)
        BY <1>5, <4>2, ResolvedFacts, Zenon
      <4>4. WantsParent(r)
        BY <2>4
      <4> QED BY <1>3, <4>3, <4>4 DEF AfterNamex
    <3>4. pr'[p] = s
      BY <1>4, <3>2
    <3>5. disk[i].type = "dir"
      BY <2>4 DEF Walkable
    <3>6. ProcOK(p)'
      BY <1>1, <1>6, <3>3, <3>4, <3>5, PlainProc
    <3> QED BY <1>1, <1>2, <1>4, <1>5, <2>1, <3>2, <3>3, <3>6, QuietCall
  <2>5. CASE /\ Walkable(disk[i]) /\ t # 0
             /\ pr' = [pr EXCEPT ![p].at = t, ![p].path = Tail(@), ![p].puts = <<i>>]
             /\ mem' = iget(Left(i, disk[i], None), t)
    <3>1. Live(i)
      BY <1>1, <1>3, <2>1, <2>5, UnlockedLive, NlinkNat DEF Walkable
    <3>2. t \in Inums /\ disk[t].nlink >= 1 /\ disk[t].type # "none" /\ t \in 0..NInodes
      BY <1>1, <2>5, <3>1, Lookup, InumRange
    <3> HIDE DEF t, name
    <3>3. PICK s : s = [r EXCEPT !.at = t, !.path = Tail(r.path), !.puts = <<i>>]
      OBVIOUS
    <3>4. pr' = [pr EXCEPT ![p] = s]
      BY <1>2, <1>4, <2>5, <3>3
    <3>5. mem' = Looked(i, None, t)
      BY <1>4, <2>5 DEF Looked
    <3>6. /\ s.pc = "walk" /\ s.call = r.call /\ s.at = t /\ s.ip = r.ip /\ s.dp = r.dp
          /\ s.new = r.new /\ s.puts = <<i>> /\ s.put = "start"
      BY <1>3, <3>3 DEF CallRec
    <3>7. s \in CallRec
      BY <2>2, <3>2, <3>3, OnePut DEF CallRec
    <3>8. Shape(s)
      BY <1>3, <2>5, <3>6, OnePut DEF Shape, HasDp, HasIp
    <3>9. pr'[p] = s
      BY <1>4, <3>4
    <3>10. ProcOK(p)'
      BY <1>1, <1>6, <3>6, <3>8, <3>9, PlainProc
    <3>11. Turned(p, r, cwd[p], fd[p], s, cwd[p], fd[p], i, None, t)
      BY <1>2, <1>3, <3>6, InumRange, OnePut DEF Turned, HeldBy, One, Locks, Works, Pends, Removes
    <3> QED BY <1>1, <1>2, <1>4, <1>5, <2>1, <3>2, <3>4, <3>5, <3>7, <3>10, <3>11, QuietCall
  <2>6. \/ /\ pr' = [pr EXCEPT ![p] = [NoInode(r) EXCEPT !.puts = <<i>>]]
           /\ mem' = Left(i, disk[i], None)
        \/ /\ Walkable(disk[i]) /\ stop
           /\ pr' = [pr EXCEPT ![p] = [Resolved(r) EXCEPT !.name = name]]
           /\ mem' = Left(i, disk[i], None)
        \/ /\ Walkable(disk[i]) /\ t # 0
           /\ pr' = [pr EXCEPT ![p].at = t, ![p].path = Tail(@), ![p].puts = <<i>>]
           /\ mem' = iget(Left(i, disk[i], None), t)
    BY <1>2, <1>9, <2>1 DEF NamexRound
  <2> QED BY <2>3, <2>4, <2>5, <2>6
<1> QED BY <1>8, <1>9 DEF Namex


-----------------------------------------------------------------------------
(* The other steps that change nothing on the disk.                         *)

LEMMA QuietSame ==
  ASSUME FsInv, boot = 0, NEW p \in Procs, UNCHANGED <<disk, dents, bitmap, boot, panicked>>, UNCHANGED <<cwd, fd>>,
         NEW s \in CallRec, pr' = [pr EXCEPT ![p] = s], Shape(s), s.put = "start",
         s.pc \notin {"create_ip", "unlink_ip", "unlink_dec"},
         s.pc \in {"create_dp", "unlink_dp", "link_dp"} => disk[s.dp].type = "dir",
         s.pc \in {"walk", "link_dp", "link_bad", "drop_dp"} /\ s.ip # 0 => disk[s.ip].type # "dir",
         NEW i \in 0..NInodes, NEW l \in {None, p}, NEW t \in 0..NInodes, mem' = Looked(i, l, t),
         i # 0 => mem[i].lock \in {None, p} /\ Held(p, i) >= 1,
         t # 0 => disk[t].type # "none" /\ (Held(p, t) >= 1 \/ disk[t].nlink >= 1),
         Turned(p, pr[p], cwd[p], fd[p], s, cwd[p], fd[p], i, l, t)
  PROVE  FsInv'
<1>1. cwd' \in [Procs -> Inums] /\ fd' \in [Procs -> File \union {None}] /\ pr'[p] = s
  BY DEF FsInv, TypeOK
<1>2. ProcOK(p)'
  BY <1>1, PlainProc
<1>3. cwd'[p] = cwd[p] /\ fd'[p] = fd[p] /\ \A q \in Procs : q # p => cwd'[q] = cwd[q] /\ fd'[q] = fd[q]
  OBVIOUS
<1> QED BY <1>1, <1>2, <1>3, QuietCall

LEMMA NothingLooked == mem = Looked(0, None, 0)
  BY DEF Looked

LEMMA EndKeeps ==
  ASSUME FsInv, NEW p \in Procs, End(p)
  PROVE  FsInv'
<1>1. /\ boot = 0 /\ pr[p].pc \in {"end", "chdir_end"} /\ pr[p].puts = <<>> /\ UNCHANGED <<disk, dents, bitmap, boot, panicked>>
      /\ UNCHANGED <<mem, fd>> /\ pr' = [pr EXCEPT ![p] = Idle]
      /\ cwd' = [cwd EXCEPT ![p] = IF pr[p].pc = "chdir_end" THEN pr[p].ip ELSE @]
  BY DEF End, Running, bootVars, fsVars
<1>2. PICK r \in CallRec : r = pr[p]
  BY <1>1, Ready
<1>3. /\ TypeOK /\ Shape(r) /\ p # None /\ r.put = "start" /\ r.puts = <<>> /\ r.pc \in {"end", "chdir_end"} /\ cwd[p] \in Inums
      /\ (r.ip # 0 => r.ip \in Inums)
  BY <1>1, <1>2, Ready
<1>4. r.at = 0 /\ r.dp = 0 /\ (r.pc = "end" => r.ip = 0) /\ (r.pc = "chdir_end" => r.ip \in Inums)
  BY <1>3 DEF Shape, HasDp, HasIp
<1>5. Idle \in CallRec /\ Shape(Idle) /\ Idle.put = "start" /\ 0 \in 0..NInodes /\ None \in {None, p}
  BY EmptyCall DEF CallRec, Idle, Pcs, Shape, HasDp, HasIp
<1>6. PICK e : e = IF r.pc = "chdir_end" THEN r.ip ELSE cwd[p]
  OBVIOUS
<1>7. e \in Inums /\ cwd' = [cwd EXCEPT ![p] = e]
  BY <1>1, <1>2, <1>3, <1>4, <1>6
<1>8. cwd' \in [Procs -> Inums] /\ fd' \in [Procs -> File \union {None}] /\ cwd'[p] = e /\ fd'[p] = fd[p] /\ pr'[p] = Idle
  BY <1>1, <1>3, <1>7 DEF TypeOK
<1>9. \A q \in Procs : q # p => cwd'[q] = cwd[q] /\ fd'[q] = fd[q]
  BY <1>1, <1>3, <1>7 DEF TypeOK
<1>10. ProcOK(p)'
  BY <1>5, <1>8, PlainProc DEF Idle
<1>11. Turned(p, r, cwd[p], fd[p], Idle, e, fd[p], 0, None, 0)
  BY <1>3, <1>4, <1>6, InumRange DEF Turned, HeldBy, One, Locks, Works, Pends, Removes, Idle
<1>12. mem' = Looked(0, None, 0)
  BY <1>1, NothingLooked
<1> QED BY <1>1, <1>2, <1>5, <1>8, <1>9, <1>10, <1>11, <1>12, QuietCall

LEMMA DropDpKeeps ==
  ASSUME FsInv, NEW p \in Procs, DropDp(p)
  PROVE  FsInv'
<1>1. /\ boot = 0 /\ pr[p].pc = "drop_dp" /\ pr[p].puts = <<>> /\ UNCHANGED <<disk, dents, bitmap, boot, panicked>>
      /\ UNCHANGED <<cwd, fd>> /\ mem' = [mem EXCEPT ![pr[p].dp].lock = None]
      /\ pr' = [pr EXCEPT ![p].pc = IF pr[p].call = "link" THEN "link_bad" ELSE "end",
                          ![p].puts = <<pr[p].dp>>, ![p].dp = 0]
  BY DEF DropDp, Running, bootVars
<1>2. PICK r \in CallRec, i \in Inums : r = pr[p] /\ i = r.dp
  BY <1>1, Ready DEF Shape, HasDp
<1>3. /\ TypeOK /\ TableInv /\ Shape(r) /\ ProcOK(p) /\ p # None /\ r.put = "start" /\ r.puts = <<>> /\ r.pc = "drop_dp"
  BY <1>1, <1>2, Ready
<1>4. PICK s : s = [r EXCEPT !.pc = IF r.call = "link" THEN "link_bad" ELSE "end", !.puts = <<i>>, !.dp = 0]
  OBVIOUS
<1>5. pr' = [pr EXCEPT ![p] = s]
  BY <1>1, <1>2, <1>3, <1>4 DEF TypeOK
<1>6. /\ s.pc = (IF r.call = "link" THEN "link_bad" ELSE "end") /\ s.call = r.call /\ s.at = r.at /\ s.ip = r.ip /\ s.dp = 0
      /\ s.new = r.new /\ s.puts = <<i>> /\ s.put = "start"
  BY <1>3, <1>4 DEF CallRec
<1>7. s \in CallRec
  BY <1>4, OnePut, EmptyCall DEF CallRec, Pcs
<1>8. r.at = 0 /\ (r.call = "link" <=> r.ip # 0) /\ (r.ip # 0 => disk[r.ip].type # "dir") /\ i # 0
  BY <1>2, <1>3, InumRange DEF Shape, ProcOK
<1>9. Shape(s)
  BY <1>6, <1>8, OnePut DEF Shape, HasDp, HasIp
<1>10. Held(p, i) >= 1 /\ mem[i].lock = p /\ Locks(r, i)
  BY <1>1, <1>2, <1>3, OwnHolds DEF TableInv, TableOK, Locks
<1>11. mem' = Looked(i, None, 0)
  <2>1. mem[i].valid /\ mem[i].d = disk[i] /\ mem[i] \in Slot
    BY <1>1, <1>3, <1>10 DEF TableInv, TableOK, TypeOK
  <2>2. [mem[i] EXCEPT !.valid = TRUE, !.d = disk[i], !.lock = None] = [mem[i] EXCEPT !.lock = None]
    BY <2>1 DEF Slot
  <2>3. Looked(i, None, 0) = [mem EXCEPT ![i] = [mem[i] EXCEPT !.valid = TRUE, !.d = disk[i], !.lock = None]]
    BY <1>8 DEF Looked, Left
  <2> QED BY <1>1, <1>2, <2>2, <2>3
<1>12. Turned(p, r, cwd[p], fd[p], s, cwd[p], fd[p], i, None, 0)
  BY <1>2, <1>3, <1>6, <1>8, InumRange, OnePut DEF Turned, HeldBy, One, Locks, Works, Pends, Removes
<1>13. i \in 0..NInodes /\ 0 \in 0..NInodes /\ None \in {None, p}
  BY InumRange, EmptyCall
<1>14. /\ s.pc \notin {"create_ip", "unlink_ip", "unlink_dec"} /\ s.pc \notin {"create_dp", "unlink_dp", "link_dp"}
       /\ s.ip # 0 => disk[s.ip].type # "dir"
  BY <1>6, <1>8
<1> QED BY <1>1, <1>2, <1>5, <1>6, <1>7, <1>9, <1>10, <1>11, <1>12, <1>13, <1>14, QuietSame


\* A call that has locked inode i, or is about to, and gives it up.
AtIp(r, i) == /\ r \in CallRec /\ Shape(r) /\ r.puts = <<>> /\ r.put = "start" /\ i \in Inums /\ r.ip = i
              /\ r.pc \in {"create_found", "open_ip", "open_locked", "link_ip", "chdir_ip"}

GaveUp(r, i, s) ==
  /\ s \in CallRec /\ Shape(s) /\ s.put = "start" /\ s.pc \in {"end", "link_bad"}
  /\ s.pc = "link_bad" => s.ip = r.ip /\ r.pc = "link_dp"
  /\ \A p, c, f : p # None => Turned(p, r, c, f, s, c, f, i, None, 0)

LEMMA GiveIpFacts ==
  ASSUME NEW r, NEW i, AtIp(r, i), NEW s, s = [r EXCEPT !.pc = "end", !.puts = <<i>>, !.ip = 0]
  PROVE  GaveUp(r, i, s)
<1> USE DEF AtIp
<1>1. /\ s.pc = "end" /\ s.call = r.call /\ s.at = r.at /\ s.ip = 0 /\ s.dp = r.dp
      /\ s.new = r.new /\ s.puts = <<i>> /\ s.put = "start"
  BY DEF CallRec
<1>2. s \in CallRec
  BY OnePut, EmptyCall DEF CallRec, Pcs
<1>3. r.at = 0 /\ r.dp = 0 /\ i # 0
  BY InumRange DEF Shape, HasDp
<1>4. Shape(s)
  BY <1>1, <1>3, OnePut DEF Shape, HasDp, HasIp
<1>5. ASSUME NEW p, NEW c, NEW f, p # None PROVE Turned(p, r, c, f, s, c, f, i, None, 0)
  BY <1>1, <1>3, <1>5, InumRange, OnePut DEF Turned, HeldBy, One, Locks, Works, Pends, Removes
<1> QED BY <1>1, <1>2, <1>4, <1>5 DEF GaveUp

\* What a step under ilock(i) starts from.
LEMMA AtLock ==
  ASSUME FsInv, boot = 0, NEW p \in Procs, pr[p].puts = <<>>, NEW i \in Inums,
         pr[p].at = i \/ pr[p].ip = i \/ pr[p].dp = i, ilock(i)
  PROVE  /\ Held(p, i) >= 1 /\ mem[i].lock = None /\ i \in 0..NInodes /\ i # 0 /\ 0 \in 0..NInodes
         /\ None \in {None, p} /\ p \in {None, p} /\ Inode(i) = disk[i]
         /\ \A l : Left(i, disk[i], l) = Looked(i, l, 0)
         /\ \A l : \A t \in Inums : iget(Left(i, disk[i], l), t) = Looked(i, l, t)
<1>1. Held(p, i) >= 1
  BY Ready, OwnHolds
<1>2. i \in 0..NInodes /\ i # 0 /\ 0 \in 0..NInodes /\ 0 \notin Inums
  BY InumRange, EmptyCall
<1>3. mem[i].lock = None /\ Inode(i) = disk[i]
  BY Ready DEF ilock
<1> QED BY <1>1, <1>2, <1>3 DEF Looked

LEMMA OpenIpKeeps ==
  ASSUME FsInv, NEW p \in Procs, OpenIp(p) \/ CreateFound(p)
  PROVE  FsInv'
<1>1. /\ boot = 0 /\ pr[p].pc \in {"open_ip", "create_found"} /\ pr[p].puts = <<>> /\ ilock(pr[p].ip)
      /\ UNCHANGED <<disk, dents, bitmap, boot, panicked>> /\ UNCHANGED <<cwd, fd>>
  BY DEF OpenIp, CreateFound, Running, bootVars
<1>2. PICK r \in CallRec, i \in Inums : r = pr[p] /\ i = r.ip
  BY <1>1, Ready DEF Shape, HasIp
<1>3. /\ TypeOK /\ Shape(r) /\ p # None /\ r.put = "start" /\ r.puts = <<>> /\ r.pc \in {"open_ip", "create_found"}
  BY <1>1, <1>2, Ready
<1>4. /\ Held(p, i) >= 1 /\ mem[i].lock = None /\ i \in 0..NInodes /\ i # 0 /\ 0 \in 0..NInodes
      /\ None \in {None, p} /\ p \in {None, p} /\ Inode(i) = disk[i]
      /\ \A l : Left(i, disk[i], l) = Looked(i, l, 0)
  BY <1>1, <1>2, AtLock
<1>5. \/ mem' = Left(i, disk[i], None) /\ pr' = [pr EXCEPT ![p] = [r EXCEPT !.pc = "end", !.puts = <<i>>, !.ip = 0]]
      \/ mem' = Left(i, disk[i], p) /\ pr' = [pr EXCEPT ![p] = [r EXCEPT !.pc = "open_locked"]]
  <2>1. CASE OpenIp(p)
    <3> DEFINE refused == Inode(i).type = "dir" /\ r.call # "open"
    <3>1. /\ mem' = Left(i, disk[i], IF refused THEN None ELSE p)
          /\ pr' = [pr EXCEPT ![p] = IF refused THEN [r EXCEPT !.pc = "end", !.puts = <<i>>, !.ip = 0]
                                     ELSE [r EXCEPT !.pc = "open_locked"]]
      BY <1>2, <1>3, <1>4, <2>1 DEF OpenIp, TypeOK
    <3> HIDE DEF refused
    <3> QED BY <3>1
  <2>2. CASE CreateFound(p)
    <3> DEFINE fits == r.call = "creat" /\ Inode(i).type \in {"file", "device"}
    <3>1. /\ mem' = Left(i, disk[i], IF fits THEN p ELSE None)
          /\ pr' = [pr EXCEPT ![p] = IF fits THEN [r EXCEPT !.pc = "open_locked"]
                                     ELSE [r EXCEPT !.pc = "end", !.puts = <<i>>, !.ip = 0]]
      BY <1>2, <1>3, <1>4, <2>2 DEF CreateFound, TypeOK
    <3> HIDE DEF fits
    <3> QED BY <3>1
  <2> QED BY <2>1, <2>2
<1>6. CASE mem' = Left(i, disk[i], None) /\ pr' = [pr EXCEPT ![p] = [r EXCEPT !.pc = "end", !.puts = <<i>>, !.ip = 0]]
  <2>1. PICK s : s = [r EXCEPT !.pc = "end", !.puts = <<i>>, !.ip = 0]
    OBVIOUS
  <2>2. AtIp(r, i) /\ pr' = [pr EXCEPT ![p] = s] /\ mem' = Looked(i, None, 0)
    BY <1>2, <1>3, <1>4, <1>6, <2>1 DEF AtIp
  <2>3. GaveUp(r, i, s)
    BY <2>1, <2>2, GiveIpFacts, Zenon
  <2>4. /\ s \in CallRec /\ Shape(s) /\ s.put = "start" /\ s.pc \in {"end", "link_bad"}
        /\ s.pc = "link_bad" => s.ip = r.ip /\ r.pc = "link_dp"
        /\ Turned(p, r, cwd[p], fd[p], s, cwd[p], fd[p], i, None, 0)
    BY <1>3, <2>3 DEF GaveUp
  <2> QED BY <1>1, <1>2, <1>4, <2>2, <2>3, <2>4, QuietSame
<1>7. CASE mem' = Left(i, disk[i], p) /\ pr' = [pr EXCEPT ![p] = [r EXCEPT !.pc = "open_locked"]]
  <2>1. PICK s : s = [r EXCEPT !.pc = "open_locked"]
    OBVIOUS
  <2>2. pr' = [pr EXCEPT ![p] = s] /\ mem' = Looked(i, p, 0)
    BY <1>4, <1>7, <2>1
  <2>3. /\ s.pc = "open_locked" /\ s.call = r.call /\ s.at = r.at /\ s.ip = i /\ s.dp = r.dp
        /\ s.new = r.new /\ s.puts = <<>> /\ s.put = "start"
    BY <1>2, <1>3, <2>1 DEF CallRec
  <2>4. s \in CallRec
    BY <2>1 DEF CallRec, Pcs
  <2>5. r.at = 0 /\ r.dp = 0
    BY <1>3 DEF Shape, HasDp
  <2>6. Shape(s)
    BY <1>3, <1>4, <2>3, <2>5 DEF Shape, HasDp, HasIp
  <2>7. Turned(p, r, cwd[p], fd[p], s, cwd[p], fd[p], i, p, 0)
    BY <1>2, <1>3, <2>3, <2>5, InumRange DEF Turned, HeldBy, One, Locks, Works, Pends, Removes
  <2> QED BY <1>1, <1>2, <1>4, <2>2, <2>3, <2>4, <2>6, <2>7, QuietSame
<1> QED BY <1>5, <1>6, <1>7

LEMMA ChdirKeeps ==
  ASSUME FsInv, NEW p \in Procs, ChdirIp(p)
  PROVE  FsInv'
<1>1. /\ boot = 0 /\ pr[p].pc = "chdir_ip" /\ pr[p].puts = <<>> /\ ilock(pr[p].ip)
      /\ UNCHANGED <<disk, dents, bitmap, boot, panicked>> /\ UNCHANGED <<cwd, fd>>
  BY DEF ChdirIp, Running, bootVars
<1>2. PICK r \in CallRec, i \in Inums : r = pr[p] /\ i = r.ip
  BY <1>1, Ready DEF Shape, HasIp
<1>3. /\ TypeOK /\ Shape(r) /\ p # None /\ r.put = "start" /\ r.puts = <<>> /\ r.pc = "chdir_ip" /\ cwd[p] \in Inums
  BY <1>1, <1>2, Ready
<1>4. /\ Held(p, i) >= 1 /\ mem[i].lock = None /\ i \in 0..NInodes /\ i # 0 /\ 0 \in 0..NInodes
      /\ None \in {None, p} /\ p \in {None, p} /\ Inode(i) = disk[i]
      /\ \A l : Left(i, disk[i], l) = Looked(i, l, 0)
  BY <1>1, <1>2, AtLock
<1>5. /\ mem' = Looked(i, None, 0)
      /\ \/ pr' = [pr EXCEPT ![p] = [r EXCEPT !.pc = "end", !.puts = <<i>>, !.ip = 0]]
         \/ pr' = [pr EXCEPT ![p] = [r EXCEPT !.pc = "chdir_end", !.puts = <<cwd[p]>>]]
  <2> DEFINE isdir == Inode(i).type = "dir"
  <2>1. mem' = Left(i, disk[i], None)
    BY <1>2, <1>4 DEF ChdirIp
  <2>2. pr' = [pr EXCEPT ![p] = IF isdir THEN [r EXCEPT !.pc = "chdir_end", !.puts = <<cwd[p]>>]
                             ELSE [r EXCEPT !.pc = "end", !.puts = <<i>>, !.ip = 0]]
    BY <1>2, <1>3, <1>4 DEF ChdirIp, TypeOK
  <2> HIDE DEF isdir
  <2> QED BY <1>4, <2>1, <2>2
<1>6. CASE pr' = [pr EXCEPT ![p] = [r EXCEPT !.pc = "end", !.puts = <<i>>, !.ip = 0]]
  <2>1. PICK s : s = [r EXCEPT !.pc = "end", !.puts = <<i>>, !.ip = 0]
    OBVIOUS
  <2>2. AtIp(r, i) /\ pr' = [pr EXCEPT ![p] = s]
    BY <1>2, <1>3, <1>6, <2>1 DEF AtIp
  <2>3. GaveUp(r, i, s)
    BY <2>1, <2>2, GiveIpFacts, Zenon
  <2>4. /\ s \in CallRec /\ Shape(s) /\ s.put = "start" /\ s.pc \in {"end", "link_bad"}
        /\ s.pc = "link_bad" => s.ip = r.ip /\ r.pc = "link_dp"
        /\ Turned(p, r, cwd[p], fd[p], s, cwd[p], fd[p], i, None, 0)
    BY <1>3, <2>3 DEF GaveUp
  <2> QED BY <1>1, <1>2, <1>4, <1>5, <2>2, <2>3, <2>4, QuietSame
<1>7. CASE pr' = [pr EXCEPT ![p] = [r EXCEPT !.pc = "chdir_end", !.puts = <<cwd[p]>>]]
  <2>0. PICK c \in Inums : c = cwd[p]
    BY <1>3
  <2>1. PICK s : s = [r EXCEPT !.pc = "chdir_end", !.puts = <<c>>]
    OBVIOUS
  <2>2. pr' = [pr EXCEPT ![p] = s]
    BY <1>7, <2>0, <2>1
  <2>3. /\ s.pc = "chdir_end" /\ s.call = r.call /\ s.at = r.at /\ s.ip = i /\ s.dp = r.dp
        /\ s.new = r.new /\ s.puts = <<c>> /\ s.put = "start"
    BY <1>2, <1>3, <2>1 DEF CallRec
  <2>4. s \in CallRec
    BY <2>1, OnePut DEF CallRec, Pcs
  <2>5. r.at = 0 /\ r.dp = 0
    BY <1>3 DEF Shape, HasDp
  <2>6. Shape(s)
    BY <1>3, <1>4, <2>3, <2>5, OnePut DEF Shape, HasDp, HasIp
  <2>7. Turned(p, r, c, fd[p], s, c, fd[p], i, None, 0)
    BY <1>2, <1>3, <2>3, <2>5, InumRange, OnePut DEF Turned, HeldBy, One, Locks, Works, Pends, Removes
  <2> QED BY <1>1, <1>2, <1>4, <1>5, <2>0, <2>2, <2>3, <2>4, <2>6, <2>7, QuietSame
<1> QED BY <1>5, <1>6, <1>7


LEMMA SysCloseKeeps ==
  ASSUME FsInv, NEW p \in Procs, SysClose(p)
  PROVE  FsInv'
<1>1. /\ boot = 0 /\ pr[p].pc = "idle" /\ pr[p].puts = <<>> /\ UNCHANGED <<disk, dents, bitmap, boot, panicked>>
      /\ UNCHANGED <<mem, cwd>> /\ fd[p] # None /\ fd' = [fd EXCEPT ![p] = None]
      /\ pr' = [pr EXCEPT ![p] = [Idle EXCEPT !.pc = "end", !.call = "close", !.puts = <<fd[p].ip>>]]
  BY DEF SysClose, Running, bootVars, fsVars
<1>2. /\ TypeOK /\ p # None /\ pr[p] = Idle /\ fd[p] \in File
  BY <1>1, Ready DEF Shape
<1>3. PICK f \in File, i \in Inums : f = fd[p] /\ i = f.ip
  BY <1>2 DEF File
<1>4. PICK s : s = [Idle EXCEPT !.pc = "end", !.call = "close", !.puts = <<i>>]
  OBVIOUS
<1>5. pr' = [pr EXCEPT ![p] = s]
  BY <1>1, <1>3, <1>4
<1>6. /\ s.pc = "end" /\ s.call = "close" /\ s.at = 0 /\ s.ip = 0 /\ s.dp = 0 /\ s.new = <<>> /\ s.puts = <<i>> /\ s.put = "start"
  BY <1>4 DEF Idle
<1>7. s \in CallRec
  BY <1>4, OnePut, EmptyCall DEF CallRec, Pcs, Idle
<1>8. Shape(s)
  BY <1>6, OnePut DEF Shape, HasDp, HasIp
<1>9. cwd' \in [Procs -> Inums] /\ fd' \in [Procs -> File \union {None}] /\ cwd'[p] = cwd[p] /\ fd'[p] = None /\ pr'[p] = s
  BY <1>1, <1>2, <1>5 DEF TypeOK
<1>10. \A q \in Procs : q # p => cwd'[q] = cwd[q] /\ fd'[q] = fd[q]
  BY <1>1, <1>2 DEF TypeOK
<1>11. ProcOK(p)'
  BY <1>6, <1>8, <1>9, PlainProc
<1>12. Turned(p, Idle, cwd[p], f, s, cwd[p], None, 0, None, 0)
  BY <1>1, <1>3, <1>6, InumRange, OnePut DEF Turned, HeldBy, One, Locks, Works, Pends, Removes, Idle
<1>13. mem' = Looked(0, None, 0) /\ 0 \in 0..NInodes /\ None \in {None, p}
  BY <1>1, NothingLooked, EmptyCall
<1> QED BY <1>1, <1>2, <1>3, <1>5, <1>7, <1>9, <1>10, <1>11, <1>12, <1>13, QuietCall

LEMMA SysReadKeeps ==
  ASSUME FsInv, NEW p \in Procs, SysRead(p)
  PROVE  FsInv'
<1>1. /\ boot = 0 /\ pr[p].pc = "idle" /\ pr[p].puts = <<>> /\ UNCHANGED <<disk, dents, bitmap, boot, panicked>>
      /\ UNCHANGED <<pr, cwd>> /\ fd[p] # None /\ fd' = [fd EXCEPT ![p].off = @ + 1]
      /\ ilock(fd[p].ip) /\ mem' = Left(fd[p].ip, Inode(fd[p].ip), None)
  BY DEF SysRead, Running, bootVars
<1>2. /\ TypeOK /\ TableInv /\ p # None /\ pr[p] = Idle /\ fd[p] \in File /\ Shape(pr[p]) /\ \A j \in Inums : Inode(j) = disk[j]
  BY <1>1, Ready DEF Shape
<1>3. PICK f \in File, i \in Inums : f = fd[p] /\ i = f.ip
  BY <1>2 DEF File
<1>4. PICK g : g = [f EXCEPT !.off = @ + 1]
  OBVIOUS
<1>5. g \in File /\ g.ip = i /\ g # None /\ f # None
  BY <1>1, <1>3, <1>4, FileSystemAssumption DEF File, Inums
<1>6. fd' = [fd EXCEPT ![p] = g]
  BY <1>1, <1>2, <1>3, <1>4 DEF TypeOK
<1>7. Idle \in CallRec /\ pr' = [pr EXCEPT ![p] = Idle] /\ pr'[p] = Idle
  BY <1>1, <1>2, Ready DEF TypeOK
<1>8. cwd' \in [Procs -> Inums] /\ fd' \in [Procs -> File \union {None}] /\ cwd'[p] = cwd[p] /\ fd'[p] = g
  BY <1>1, <1>2, <1>5, <1>6 DEF TypeOK
<1>9. \A q \in Procs : q # p => cwd'[q] = cwd[q] /\ fd'[q] = fd[q]
  BY <1>1, <1>2 DEF TypeOK
<1>10. ProcOK(p)'
  BY <1>2, <1>7, PlainProc DEF Idle
<1>11. mem' = Looked(i, None, 0) /\ i \in 0..NInodes /\ 0 \in 0..NInodes /\ None \in {None, p}
  BY <1>1, <1>2, <1>3, InumRange, EmptyCall DEF Looked
<1>12. mem[i].lock = None /\ Held(p, i) >= 1
  BY <1>1, <1>2, <1>3, OwnHolds DEF ilock
<1>13. Turned(p, Idle, cwd[p], f, Idle, cwd[p], g, i, None, 0)
  BY <1>2, <1>3, <1>5, InumRange DEF Turned, HeldBy, One, Locks, Works, Pends, Removes, Idle
<1>14. Turned(p, pr[p], cwd[p], fd[p], Idle, cwd'[p], fd'[p], i, None, 0)
  BY <1>2, <1>3, <1>8, <1>13
<1>15. UNCHANGED <<disk, dents, bitmap, boot, panicked>> /\ boot = 0
  BY <1>1
<1> QED BY <1>7, <1>8, <1>9, <1>10, <1>11, <1>12, <1>14, <1>15, QuietCall

\* A call that has locked directory i of its path and gives it up.
AtDp(r, i) == /\ r \in CallRec /\ Shape(r) /\ r.puts = <<>> /\ r.put = "start" /\ i \in Inums /\ r.dp = i
              /\ r.pc \in {"create_dp", "unlink_dp", "link_dp"}

LEMMA GiveDpFacts ==
  ASSUME NEW r, NEW i, AtDp(r, i), NEW s,
         s = [r EXCEPT !.pc = IF r.pc = "link_dp" THEN "link_bad" ELSE "end", !.puts = <<i>>, !.dp = 0]
  PROVE  GaveUp(r, i, s)
<1> USE DEF AtDp
<1>1. /\ s.pc = (IF r.pc = "link_dp" THEN "link_bad" ELSE "end") /\ s.call = r.call /\ s.at = r.at /\ s.ip = r.ip /\ s.dp = 0
      /\ s.new = r.new /\ s.puts = <<i>> /\ s.put = "start"
  BY DEF CallRec
<1>2. s \in CallRec
  BY OnePut, EmptyCall DEF CallRec, Pcs
<1>3. r.at = 0 /\ (r.ip # 0 <=> r.pc = "link_dp") /\ i # 0
  BY InumRange DEF Shape, HasDp, HasIp
<1>4. Shape(s)
  BY <1>1, <1>3, OnePut DEF Shape, HasDp, HasIp
<1>5. ASSUME NEW p, NEW c, NEW f, p # None PROVE Turned(p, r, c, f, s, c, f, i, None, 0)
  BY <1>1, <1>3, <1>5, InumRange, OnePut DEF Turned, HeldBy, One, Locks, Works, Pends, Removes
<1> QED BY <1>1, <1>2, <1>4, <1>5 DEF GaveUp

\* What the three steps that lock their path's directory have in common.
LEMMA AtParent ==
  ASSUME FsInv, NEW p \in Procs, NEW pc \in {"create_dp", "unlink_dp", "link_dp"}, Running(p, pc), ilock(pr[p].dp)
  PROVE  /\ boot = 0 /\ TypeOK /\ TableInv /\ LinkInv /\ BlockInv /\ ProcOK(p) /\ p # None /\ pr \in [Procs -> CallRec]
         /\ AtDp(pr[p], pr[p].dp) /\ pr[p].pc = pc
         /\ mem[pr[p].dp].lock = None /\ Held(p, pr[p].dp) >= 1 /\ Inode(pr[p].dp) = disk[pr[p].dp]
         /\ \A l : Left(pr[p].dp, disk[pr[p].dp], l) = Looked(pr[p].dp, l, 0)
         /\ \A l : \A t \in Inums : iget(Left(pr[p].dp, disk[pr[p].dp], l), t) = Looked(pr[p].dp, l, t)
<1>1. boot = 0 /\ pr[p].pc = pc /\ pr[p].puts = <<>>
  BY DEF Running
<1>2. /\ TypeOK /\ TableInv /\ LinkInv /\ BlockInv /\ ProcOK(p) /\ Shape(pr[p]) /\ p # None /\ pr[p] \in CallRec /\ pr[p].put = "start"
      /\ pr[p].dp # 0 => pr[p].dp \in Inums
  BY <1>1, Ready
<1>3. PICK i \in Inums : i = pr[p].dp
  BY <1>1, <1>2 DEF Shape, HasDp
<1>4. AtDp(pr[p], i)
  BY <1>1, <1>2, <1>3 DEF AtDp
<1>5. /\ mem[i].lock = None /\ Held(p, i) >= 1 /\ Inode(i) = disk[i]
      /\ \A l : Left(i, disk[i], l) = Looked(i, l, 0)
      /\ \A l : \A t \in Inums : iget(Left(i, disk[i], l), t) = Looked(i, l, t)
  BY <1>1, <1>3, AtLock
<1>6. pr \in [Procs -> CallRec]
  BY <1>2 DEF TypeOK
<1> QED BY <1>1, <1>2, <1>3, <1>4, <1>5, <1>6

\* The call gives up its directory, unchanged.
LEMMA GiveDp ==
  ASSUME FsInv, boot = 0, NEW p \in Procs, p # None, NEW i, AtDp(pr[p], i), ProcOK(p),
         mem[i].lock = None, Held(p, i) >= 1, mem' = Looked(i, None, 0),
         UNCHANGED <<disk, dents, bitmap, boot, panicked>>, UNCHANGED <<cwd, fd>>,
         pr' = [pr EXCEPT ![p] = [pr[p] EXCEPT !.pc = IF pr[p].pc = "link_dp" THEN "link_bad" ELSE "end", !.puts = <<i>>, !.dp = 0]]
  PROVE  FsInv'
<1>1. PICK r, s : /\ r = pr[p]
                  /\ s = [r EXCEPT !.pc = IF r.pc = "link_dp" THEN "link_bad" ELSE "end", !.puts = <<i>>, !.dp = 0]
  OBVIOUS
<1>2. AtDp(r, i) /\ pr' = [pr EXCEPT ![p] = s]
  BY <1>1
<1>3. GaveUp(r, i, s)
  BY <1>1, <1>2, GiveDpFacts, Zenon
<1>4. /\ s \in CallRec /\ Shape(s) /\ s.put = "start" /\ s.pc \in {"end", "link_bad"}
      /\ s.pc = "link_bad" => s.ip = r.ip /\ r.pc = "link_dp"
      /\ Turned(p, r, cwd[p], fd[p], s, cwd[p], fd[p], i, None, 0)
  BY <1>3 DEF GaveUp
<1>5. s.pc = "link_bad" /\ s.ip # 0 => disk[s.ip].type # "dir"
  BY <1>1, <1>4 DEF ProcOK
<1>6. i \in 0..NInodes /\ 0 \in 0..NInodes /\ None \in {None, p}
  BY InumRange, EmptyCall DEF AtDp
<1>7. /\ s.pc \notin {"create_ip", "unlink_ip", "unlink_dec"}
      /\ s.pc \in {"create_dp", "unlink_dp", "link_dp"} => disk[s.dp].type = "dir"
      /\ s.pc \in {"walk", "link_dp", "link_bad", "drop_dp"} /\ s.ip # 0 => disk[s.ip].type # "dir"
      /\ Turned(p, pr[p], cwd[p], fd[p], s, cwd[p], fd[p], i, None, 0)
  BY <1>1, <1>4, <1>5
<1> QED BY <1>2, <1>4, <1>6, <1>7, QuietSame


\* create() finds the name taken.
LEMMA CreateFinds ==
  ASSUME FsInv, boot = 0, NEW p \in Procs, p # None, NEW i, AtDp(pr[p], i), pr[p].pc = "create_dp",
         mem[i].lock = None, Held(p, i) >= 1, NEW t \in Inums, disk[t].type # "none", disk[t].nlink >= 1, mem' = Looked(i, None, t),
         UNCHANGED <<disk, dents, bitmap, boot, panicked>>, UNCHANGED <<cwd, fd>>,
         pr' = [pr EXCEPT ![p] = [pr[p] EXCEPT !.pc = "create_found", !.dp = 0, !.puts = <<i>>, !.ip = t]]
  PROVE  FsInv'
<1> USE DEF AtDp
<1>1. PICK r, s : r = pr[p] /\ s = [r EXCEPT !.pc = "create_found", !.dp = 0, !.puts = <<i>>, !.ip = t]
  OBVIOUS
<1>2. AtDp(r, i) /\ pr' = [pr EXCEPT ![p] = s]
  BY <1>1
<1>3. /\ s.pc = "create_found" /\ s.call = r.call /\ s.at = r.at /\ s.ip = t /\ s.dp = 0
      /\ s.new = r.new /\ s.puts = <<i>> /\ s.put = "start"
  BY <1>1, <1>2 DEF CallRec
<1>4. t \in 0..NInodes /\ t # 0 /\ i \in 0..NInodes /\ i # 0 /\ None \in {None, p}
  BY InumRange
<1>5. s \in CallRec
  BY <1>1, <1>2, <1>4, OnePut, EmptyCall DEF CallRec, Pcs
<1>6. r.at = 0 /\ r.ip = 0 /\ r.call \in {"creat", "mkdir", "mknod"} /\ r.dp = i /\ r.pc = "create_dp"
  BY <1>1, <1>2, InumRange DEF Shape, HasDp, HasIp
<1>7. Shape(s)
  BY <1>3, <1>4, <1>6, OnePut DEF Shape, HasDp, HasIp
<1>8. Turned(p, r, cwd[p], fd[p], s, cwd[p], fd[p], i, None, t)
  BY <1>2, <1>3, <1>4, <1>6, InumRange, OnePut DEF Turned, HeldBy, One, Locks, Works, Pends, Removes
<1> QED BY <1>1, <1>2, <1>3, <1>4, <1>5, <1>7, <1>8, QuietSame

\* sys_link() finds the name taken.
LEMMA LinkFinds ==
  ASSUME FsInv, boot = 0, NEW p \in Procs, p # None, NEW i, AtDp(pr[p], i), pr[p].pc = "link_dp", ProcOK(p),
         mem[i].lock = None, Held(p, i) >= 1, NEW t \in Inums, disk[t].type # "none", disk[t].nlink >= 1, mem' = Looked(i, p, t),
         UNCHANGED <<disk, dents, bitmap, boot, panicked>>, UNCHANGED <<cwd, fd>>,
         pr' = [pr EXCEPT ![p] = [pr[p] EXCEPT !.pc = "drop_dp", !.puts = <<t>>]]
  PROVE  FsInv'
<1> USE DEF AtDp
<1>1. PICK r, s : r = pr[p] /\ s = [r EXCEPT !.pc = "drop_dp", !.puts = <<t>>]
  OBVIOUS
<1>2. AtDp(r, i) /\ pr' = [pr EXCEPT ![p] = s]
  BY <1>1
<1>3. /\ s.pc = "drop_dp" /\ s.call = r.call /\ s.at = r.at /\ s.ip = r.ip /\ s.dp = i
      /\ s.new = r.new /\ s.puts = <<t>> /\ s.put = "start"
  BY <1>1, <1>2 DEF CallRec
<1>4. t \in 0..NInodes /\ t # 0 /\ i \in 0..NInodes /\ i # 0 /\ p \in {None, p}
  BY InumRange
<1>5. s \in CallRec
  BY <1>1, <1>2, <1>4, OnePut, EmptyCall DEF CallRec, Pcs
<1>6. r.at = 0 /\ r.ip # 0 /\ r.call = "link" /\ r.dp = i /\ r.pc = "link_dp" /\ disk[r.ip].type # "dir"
  BY <1>1, <1>2, InumRange DEF Shape, HasDp, HasIp, ProcOK
<1>7. Shape(s)
  BY <1>3, <1>4, <1>6, OnePut DEF Shape, HasDp, HasIp
<1>8. Turned(p, r, cwd[p], fd[p], s, cwd[p], fd[p], i, p, t)
  BY <1>2, <1>3, <1>4, <1>6, InumRange, OnePut DEF Turned, HeldBy, One, Locks, Works, Pends, Removes
<1> QED BY <1>1, <1>2, <1>3, <1>4, <1>5, <1>6, <1>7, <1>8, QuietSame

LEMMA UnlinkDpKeeps ==
  ASSUME FsInv, NEW p \in Procs, UnlinkDp(p)
  PROVE  FsInv'
<1> DEFINE bad == pr[p].name \in {".", ".."} \/ dirlookup(pr[p].dp, pr[p].name) = 0
<1>1. /\ Running(p, "unlink_dp") /\ ilock(pr[p].dp) /\ Inode(pr[p].dp).type = "dir"
      /\ mem' = IF bad THEN Left(pr[p].dp, Inode(pr[p].dp), None) ELSE iget(Left(pr[p].dp, Inode(pr[p].dp), p), dirlookup(pr[p].dp, pr[p].name))
      /\ pr' = [pr EXCEPT ![p] = IF bad THEN [@ EXCEPT !.pc = "end", !.puts = <<pr[p].dp>>, !.dp = 0]
                             ELSE [@ EXCEPT !.pc = "unlink_ip", !.ip = dirlookup(pr[p].dp, pr[p].name)]]
      /\ UNCHANGED <<disk, dents, bitmap, boot, panicked>> /\ UNCHANGED <<cwd, fd>>
  BY DEF UnlinkDp, bootVars
<1>2. PICK r, i : r = pr[p] /\ i = r.dp
  OBVIOUS
<1>3. /\ boot = 0 /\ TypeOK /\ TableInv /\ LinkInv /\ ProcOK(p) /\ p # None /\ pr \in [Procs -> CallRec]
      /\ AtDp(r, i) /\ r.pc = "unlink_dp"
      /\ mem[i].lock = None /\ Held(p, i) >= 1 /\ Inode(i) = disk[i]
      /\ \A l : Left(i, disk[i], l) = Looked(i, l, 0)
      /\ \A l : \A u \in Inums : iget(Left(i, disk[i], l), u) = Looked(i, l, u)
  BY <1>1, <1>2, AtParent
<1>4. CASE bad
  <2>1. mem' = Looked(i, None, 0)
    BY <1>1, <1>2, <1>3, <1>4
  <2>2. pr' = [pr EXCEPT ![p] = [pr[p] EXCEPT !.pc = IF pr[p].pc = "link_dp" THEN "link_bad" ELSE "end", !.puts = <<i>>, !.dp = 0]]
    BY <1>1, <1>2, <1>3, <1>4
  <2> QED BY <1>1, <1>2, <1>3, <2>1, <2>2, GiveDp
<1>5. CASE ~bad
  <2>1. PICK t : t = dirlookup(i, r.name)
    OBVIOUS
  <2>2. /\ r.name \notin {".", ".."} /\ t # 0 /\ i \in Inums /\ disk[i].type = "dir" /\ r \in CallRec /\ r.dp = i
        /\ mem' = iget(Left(i, disk[i], p), t)
        /\ pr' = [pr EXCEPT ![p] = [r EXCEPT !.pc = "unlink_ip", !.ip = t]]
    BY <1>1, <1>2, <1>3, <1>5, <2>1 DEF AtDp
  <2>3. disk[i].nlink > 0 /\ Live(i)
    <3>1. disk[i].nlink # 0
      BY <1>3, <2>1, <2>2, LookupDead
    <3>2. disk[i].nlink \in Int /\ disk[i].nlink >= 0
      BY <1>3, <2>2, NlinkNat
    <3> QED BY <1>3, <2>2, <3>1, <3>2, UnlockedLive
  <2>4. /\ Found(i, r.name) # {} /\ t \in Inums /\ t = dents[i][Min(Found(i, r.name))][2]
        /\ disk[t].nlink >= 1 /\ disk[t].type # "none"
    BY <1>3, <2>1, <2>2, <2>3, Lookup
  <2>5. PICK s : s = [r EXCEPT !.pc = "unlink_ip", !.ip = t]
    OBVIOUS
  <2>6. /\ s.pc = "unlink_ip" /\ s.call = r.call /\ s.at = r.at /\ s.ip = t /\ s.dp = i /\ s.name = r.name
        /\ s.new = r.new /\ s.puts = <<>> /\ s.put = "start"
    BY <1>3, <2>2, <2>5 DEF CallRec, AtDp
  <2>7. t \in 0..NInodes /\ i \in 0..NInodes /\ i # 0 /\ p \in {None, p} /\ mem' = Looked(i, p, t)
    BY <1>3, <2>2, <2>4, InumRange
  <2>8. s \in CallRec
    BY <2>2, <2>5, <2>7, EmptyCall DEF CallRec, Pcs
  <2>9. r.at = 0 /\ r.ip = 0 /\ r.call = "unlink" /\ r.puts = <<>> /\ r.put = "start"
    BY <1>3 DEF AtDp, Shape, HasDp, HasIp
  <2>10. Shape(s)
    BY <2>2, <2>6, <2>7, <2>9 DEF Shape, HasDp, HasIp
  <2>11. Turned(p, r, cwd[p], fd[p], s, cwd[p], fd[p], i, p, t)
    BY <1>3, <2>2, <2>6, <2>7, <2>9, InumRange DEF Turned, HeldBy, One, Locks, Works, Pends, Removes
  <2>12. pr' = [pr EXCEPT ![p] = s] /\ pr'[p] = s
    BY <1>3, <2>2, <2>5
  <2>13. ProcOK(p)'
    <3>1. Found(i, r.name)' = Found(i, r.name) /\ disk' = disk /\ dents' = dents
      BY <1>1 DEF Found
    <3>2. /\ disk'[s.dp].type = "dir" /\ disk'[s.dp].nlink > 0 /\ s.name \notin {".", ".."}
          /\ Found(s.dp, s.name)' # {} /\ dents'[s.dp][Min(Found(s.dp, s.name)')][2] = s.ip
      BY <2>2, <2>3, <2>4, <2>6, <3>1
    <3> QED BY <2>6, <2>10, <2>12, <3>2 DEF ProcOK
  <2>14. /\ cwd' \in [Procs -> Inums] /\ fd' \in [Procs -> File \union {None}] /\ cwd'[p] = cwd[p] /\ fd'[p] = fd[p]
         /\ \A q \in Procs : q # p => cwd'[q] = cwd[q] /\ fd'[q] = fd[q]
    BY <1>1, <1>3 DEF TypeOK
  <2> QED BY <1>1, <1>2, <1>3, <2>4, <2>7, <2>8, <2>11, <2>12, <2>13, <2>14, QuietCall
<1> QED BY <1>4, <1>5

\* sys_unlink() refuses a directory that is not empty.
LEMMA UnlinkRefused ==
  ASSUME FsInv, NEW p \in Procs, Running(p, "unlink_ip"), ilock(pr[p].ip),
         mem' = Left(pr[p].ip, Inode(pr[p].ip), None),
         pr' = [pr EXCEPT ![p].pc = "drop_dp", ![p].puts = <<pr[p].ip>>, ![p].ip = 0],
         UNCHANGED <<disk, dents, bitmap, boot, panicked>>, UNCHANGED <<cwd, fd>>
  PROVE  FsInv'
<1>1. boot = 0 /\ pr[p].pc = "unlink_ip" /\ pr[p].puts = <<>>
  BY DEF Running
<1>2. PICK r \in CallRec, i \in Inums, e \in Inums : r = pr[p] /\ i = r.ip /\ e = r.dp
  BY <1>1, Ready DEF Shape, HasIp, HasDp
<1>3. /\ TypeOK /\ TableInv /\ Shape(r) /\ p # None /\ r.put = "start" /\ r.puts = <<>> /\ r.pc = "unlink_ip"
  BY <1>1, <1>2, Ready
<1>4. /\ Held(p, i) >= 1 /\ mem[i].lock = None /\ i \in 0..NInodes /\ i # 0 /\ 0 \in 0..NInodes
      /\ None \in {None, p} /\ Inode(i) = disk[i]
      /\ \A l : Left(i, disk[i], l) = Looked(i, l, 0)
  BY <1>1, <1>2, AtLock
<1>5. e # i /\ e # 0 /\ r.at = 0 /\ r.call = "unlink"
  <2>1. Locks(r, e)
    BY <1>2, <1>3 DEF Locks
  <2>2. mem[e].lock = p
    BY <1>1, <1>2, <1>3, <2>1 DEF TableInv, TableOK
  <2> QED BY <1>2, <1>3, <1>4, <2>2, InumRange DEF Shape
<1>6. PICK s : s = [r EXCEPT !.pc = "drop_dp", !.puts = <<i>>, !.ip = 0]
  OBVIOUS
<1>7. pr' = [pr EXCEPT ![p] = s] /\ mem' = Looked(i, None, 0)
  BY <1>2, <1>3, <1>4, <1>6 DEF TypeOK
<1>8. /\ s.pc = "drop_dp" /\ s.call = r.call /\ s.at = r.at /\ s.ip = 0 /\ s.dp = e
      /\ s.new = r.new /\ s.puts = <<i>> /\ s.put = "start"
  BY <1>2, <1>3, <1>6 DEF CallRec
<1>9. s \in CallRec
  BY <1>6, OnePut, EmptyCall DEF CallRec, Pcs
<1>10. Shape(s)
  BY <1>5, <1>8, OnePut DEF Shape, HasDp, HasIp
<1>11. Turned(p, r, cwd[p], fd[p], s, cwd[p], fd[p], i, None, 0)
  BY <1>2, <1>3, <1>5, <1>8, InumRange, OnePut DEF Turned, HeldBy, One, Locks, Works, Pends, Removes
<1> QED BY <1>1, <1>2, <1>4, <1>7, <1>8, <1>9, <1>10, <1>11, QuietSame

\* sys_link() refuses a directory and an inode with too many links.
LEMMA LinkRefuses ==
  ASSUME FsInv, NEW p \in Procs, Running(p, "link_ip"), ilock(pr[p].ip),
         mem' = Left(pr[p].ip, Inode(pr[p].ip), None),
         pr' = [pr EXCEPT ![p].pc = "end", ![p].puts = <<pr[p].ip>>, ![p].ip = 0],
         UNCHANGED <<disk, dents, bitmap, boot, panicked>>, UNCHANGED <<cwd, fd>>
  PROVE  FsInv'
<1>1. boot = 0 /\ pr[p].pc = "link_ip" /\ pr[p].puts = <<>>
  BY DEF Running
<1>2. PICK r \in CallRec, i \in Inums : r = pr[p] /\ i = r.ip
  BY <1>1, Ready DEF Shape, HasIp
<1>3. /\ TypeOK /\ TableInv /\ Shape(r) /\ p # None /\ r.put = "start" /\ r.puts = <<>> /\ r.pc = "link_ip"
  BY <1>1, <1>2, Ready
<1>4. /\ Held(p, i) >= 1 /\ mem[i].lock = None /\ i \in 0..NInodes /\ i # 0 /\ 0 \in 0..NInodes
      /\ None \in {None, p} /\ Inode(i) = disk[i]
      /\ \A l : Left(i, disk[i], l) = Looked(i, l, 0)
  BY <1>1, <1>2, AtLock
<1>5. PICK s : s = [r EXCEPT !.pc = "end", !.puts = <<i>>, !.ip = 0]
  OBVIOUS
<1>6. AtIp(r, i) /\ pr' = [pr EXCEPT ![p] = s] /\ mem' = Looked(i, None, 0)
  BY <1>2, <1>3, <1>4, <1>5 DEF AtIp, TypeOK
<1>7. GaveUp(r, i, s)
  BY <1>5, <1>6, GiveIpFacts, Zenon
<1>8. /\ s \in CallRec /\ Shape(s) /\ s.put = "start" /\ s.pc \in {"end", "link_bad"}
      /\ s.pc = "link_bad" => s.ip = r.ip /\ r.pc = "link_dp"
      /\ Turned(p, r, cwd[p], fd[p], s, cwd[p], fd[p], i, None, 0)
  BY <1>3, <1>7 DEF GaveUp
<1>9. s.pc = "end"
  BY <1>3, <1>8
<1> QED BY <1>1, <1>2, <1>4, <1>6, <1>8, <1>9, QuietSame


-----------------------------------------------------------------------------
(* Blocks.                                                                  *)

\* One inode changes: its blocks go, its new ones were not in use elsewhere.
LEMMA BlocksChange ==
  ASSUME NEW D, D \in [Inums -> Dinode], NEW B, BlocksOK(D, B), NEW i \in Inums, NEW d,
         NEW C, C = (B \ Owned(D[i])) \union Owned(d), Owned(d) \intersect (B \ Owned(D[i])) = {}
  PROVE  BlocksOK([D EXCEPT ![i] = d], C)
<1> DEFINE E == [D EXCEPT ![i] = d]
<1>1. E[i] = d /\ \A j \in Inums : j # i => E[j] = D[j]
  OBVIOUS
<1>2. B = UNION {Owned(D[j]) : j \in Inums} /\ \A j, k \in Inums : j # k => Owned(D[j]) \intersect Owned(D[k]) = {}
  BY DEF BlocksOK
<1> HIDE DEF E
<1>3. \A j \in Inums : j # i => Owned(D[j]) \subseteq B \ Owned(D[i])
  BY <1>2
<1>4. C = UNION {Owned(E[j]) : j \in Inums}
  <2>1. ASSUME NEW b \in C PROVE \E j \in Inums : b \in Owned(E[j])
    <3>1. CASE b \in Owned(d)
      BY <1>1, <3>1
    <3>2. CASE b \in B \ Owned(D[i])
      <4>1. PICK j \in Inums : b \in Owned(D[j])
        BY <1>2, <3>2
      <4> QED BY <1>1, <3>2, <4>1
    <3> QED BY <2>1, <3>1, <3>2
  <2>2. ASSUME NEW j \in Inums, NEW b \in Owned(E[j]) PROVE b \in C
    <3>1. CASE j = i
      BY <1>1, <2>2, <3>1
    <3>2. CASE j # i
      BY <1>1, <1>3, <2>2, <3>2
    <3> QED BY <3>1, <3>2
  <2> QED BY <2>1, <2>2
<1>5. ASSUME NEW j \in Inums, NEW k \in Inums, j # k PROVE Owned(E[j]) \intersect Owned(E[k]) = {}
  <2>1. CASE j = i
    <3>1. E[j] = d /\ E[k] = D[k] /\ Owned(D[k]) \subseteq B \ Owned(D[i])
      BY <1>1, <1>3, <1>5, <2>1
    <3> QED BY <3>1
  <2>2. CASE k = i
    <3>1. E[k] = d /\ E[j] = D[j] /\ Owned(D[j]) \subseteq B \ Owned(D[i])
      BY <1>1, <1>3, <1>5, <2>2
    <3> QED BY <3>1
  <2>3. CASE j # i /\ k # i
    BY <1>1, <1>2, <1>5, <2>3
  <2> QED BY <2>1, <2>2, <2>3
<1> QED BY <1>4, <1>5 DEF BlocksOK, E

\* The new blocks are free ones: nothing is lost.
LEMMA BlocksGrow ==
  ASSUME NEW D, D \in [Inums -> Dinode], NEW B, BlocksOK(D, B), NEW i \in Inums, NEW d,
         Owned(D[i]) \subseteq Owned(d), Owned(d) \intersect B \subseteq Owned(D[i])
  PROVE  BlocksOK([D EXCEPT ![i] = d], B \union Owned(d))
<1>1. Owned(D[i]) \subseteq B
  BY DEF BlocksOK
<1>2. B \union Owned(d) = (B \ Owned(D[i])) \union Owned(d) /\ Owned(d) \intersect (B \ Owned(D[i])) = {}
  BY <1>1
<1> QED BY <1>2, BlocksChange

\* The contents are gone.
LEMMA BlocksShrink ==
  ASSUME NEW D, D \in [Inums -> Dinode], NEW B, BlocksOK(D, B), NEW i \in Inums, NEW d, Owned(d) = {}
  PROVE  BlocksOK([D EXCEPT ![i] = d], B \ Owned(D[i])) /\ Owned(D[i]) \subseteq B
<1>1. B \ Owned(D[i]) = (B \ Owned(D[i])) \union Owned(d) /\ Owned(d) \intersect (B \ Owned(D[i])) = {}
  OBVIOUS
<1>2. Owned(D[i]) \subseteq B
  BY DEF BlocksOK
<1> QED BY <1>1, <1>2, BlocksChange

\* The blocks stay as they are.
LEMMA BlocksSame ==
  ASSUME NEW D, D \in [Inums -> Dinode], NEW B, BlocksOK(D, B), NEW i \in Inums, NEW d, Owned(d) = Owned(D[i])
  PROVE  BlocksOK([D EXCEPT ![i] = d], B)
<1>1. Owned(D[i]) \subseteq B
  BY DEF BlocksOK
<1>2. B = (B \ Owned(D[i])) \union Owned(d) /\ Owned(d) \intersect (B \ Owned(D[i])) = {}
  BY <1>1
<1> QED BY <1>2, BlocksChange

LEMMA TruncFacts ==
  ASSUME NEW d \in Dinode
  PROVE  /\ itrunc(d) \in Dinode /\ itrunc(d).type = d.type /\ itrunc(d).nlink = d.nlink /\ itrunc(d).size = 0
         /\ itrunc(d).addrs = <<>> /\ itrunc(d).ind = <<>> /\ Owned(itrunc(d)) = {}
<1>1. <<>> \in Seq(Blocks)
  OBVIOUS
<1>2. /\ itrunc(d) \in Dinode /\ itrunc(d).type = d.type /\ itrunc(d).nlink = d.nlink /\ itrunc(d).size = 0
      /\ itrunc(d).addrs = <<>> /\ itrunc(d).ind = <<>>
  BY <1>1 DEF itrunc, Dinode
<1>3. Elements(<<>>) = {}
  BY DEF Elements
<1> QED BY <1>2, <1>3 DEF Owned

\* The inode is not to be seen in any directory: no lock, no other user.
LEMMA LastOne ==
  ASSUME TypeOK, TableInv, boot = 0, NEW p \in Procs, NEW i \in Inums, mem[i].ref = 1,
         pr[p].puts # <<>>, pr[p].put # "free", pr[p].puts[1] = i
  PROVE  /\ mem[i].lock = None /\ Held(p, i) = 1 /\ pr[p].at # i /\ pr[p].ip # i /\ pr[p].dp # i
         /\ \A q \in Procs : ~Locks(pr[q], i)
<1>1. TableOK(i) /\ \A q \in Procs : Shape(pr[q])
  BY DEF TableInv, ProcOK
<1>2. Held(p, i) >= 1
  BY <1>1, OwnHolds
<1>3. \A q \in Procs : Held(q, i) \in 0..7 /\ Refs(i) >= Held(q, i) /\ (q # p => Refs(i) >= Held(p, i) + Held(q, i)) /\ Refs(i) = 1
  BY <1>1, HeldCounts, RefsBound DEF TableOK
<1>4. Held(p, i) = 1 /\ \A q \in Procs : q # p => Held(q, i) = 0
  BY <1>2, <1>3
<1>5. pr[p].at # i /\ pr[p].ip # i /\ pr[p].dp # i
  <2>1. Len(pr[p].puts) >= 1
    <3>1. pr[p].puts \in Seq(Inums)
      BY DEF TypeOK, CallRec
    <3> QED BY <3>1
  <2> QED BY <1>4, <2>1 DEF Held, HeldBy, One
<1>6. \A q \in Procs : ~Locks(pr[q], i)
  <2>1. \A q \in Procs : Locks(pr[q], i) => Held(q, i) >= 1
    BY <1>1, OwnHolds
  <2>2. ~Locks(pr[p], i)
    BY <1>5 DEF Locks
  <2> QED BY <1>4, <2>1, <2>2
<1>7. mem[i].lock = None
  <2>1. mem[i].lock \in Procs \union {None}
    BY DEF TypeOK, Slot
  <2> QED BY <1>1, <1>6, <2>1 DEF TableOK
<1> QED BY <1>4, <1>5, <1>6, <1>7


-----------------------------------------------------------------------------
(* iput().                                                                  *)

LEMMA AtPut ==
  ASSUME FsInv, NEW p \in Procs, Iput(p)
  PROVE  /\ boot = 0 /\ boot' = 0 /\ UNCHANGED <<cwd, fd>> /\ p # None
         /\ TypeOK /\ TableInv /\ LinkInv /\ BlockInv /\ ProcOK(p) /\ Shape(pr[p])
         /\ pr[p] \in CallRec /\ pr[p].puts \in Seq(Inums) /\ pr[p].puts # <<>> /\ Len(pr[p].puts) \in {1, 2}
         /\ Head(pr[p].puts) = pr[p].puts[1] /\ pr[p].puts[1] \in Inums
         /\ Tail(pr[p].puts) \in Seq(Inums) /\ Len(Tail(pr[p].puts)) = Len(pr[p].puts) - 1
         /\ Len(pr[p].puts) = 2 => Tail(pr[p].puts)[1] = pr[p].puts[2]
         /\ pr[p].pc \notin {"create_ip", "unlink_ip"}
<1>1. TypeOK /\ TableInv /\ LinkInv /\ BlockInv
  BY DEF FsInv
<1>2. boot = 0 /\ boot' = 0 /\ UNCHANGED <<cwd, fd>> /\ pr[p].puts # <<>> /\ p # None
  BY FileSystemAssumption DEF Iput
<1>3. ProcOK(p) /\ Shape(pr[p]) /\ pr[p] \in CallRec
  BY <1>1 DEF TableInv, ProcOK, TypeOK
<1>4. PICK u \in Seq(Inums) : u = pr[p].puts /\ Len(u) <= 2 /\ u # <<>>
  BY <1>2, <1>3 DEF CallRec, Shape
<1>5. Len(u) \in {1, 2} /\ Head(u) = u[1] /\ u[1] \in Inums
  <2>1. Len(u) \in Nat /\ Len(u) # 0 /\ Len(u) <= 2
    BY <1>4
  <2>2. Head(u) = u[1] /\ u[1] \in Inums
    BY <1>4
  <2>3. PICK n \in Nat : n = Len(u) /\ n # 0 /\ n <= 2
    BY <2>1
  <2>4. n = 1 \/ n = 2
    BY <2>3
  <2> QED BY <2>2, <2>3, <2>4
<1>6. Tail(u) \in Seq(Inums) /\ Len(Tail(u)) = Len(u) - 1 /\ (Len(u) = 2 => Tail(u)[1] = u[2])
  BY <1>4
<1>7. pr[p].pc \notin {"create_ip", "unlink_ip"}
  BY <1>2, <1>3 DEF Shape
<1> QED BY <1>1, <1>2, <1>3, <1>4, <1>5, <1>6, <1>7

\* ip->ref--.
LEMMA IputDropKeeps ==
  ASSUME FsInv, NEW p \in Procs, Iput(p), pr[p].put # "free", IputDrop(p)
  PROVE  FsInv'
<1>1. PICK r, i, u : r = pr[p] /\ i = r.puts[1] /\ u = Tail(r.puts)
  OBVIOUS
<1>2. /\ boot = 0 /\ boot' = 0 /\ UNCHANGED <<cwd, fd>> /\ p # None
      /\ TypeOK /\ TableInv /\ LinkInv /\ BlockInv /\ ProcOK(p) /\ Shape(r)
      /\ r \in CallRec /\ r.puts \in Seq(Inums) /\ r.puts # <<>> /\ Len(r.puts) \in {1, 2}
      /\ Head(r.puts) = i /\ i \in Inums
      /\ u \in Seq(Inums) /\ Len(u) = Len(r.puts) - 1
      /\ Len(r.puts) = 2 => u[1] = r.puts[2]
      /\ r.pc \notin {"create_ip", "unlink_ip"}
  BY <1>1, AtPut
<1>3. /\ r.put = "drop" \/ ~Last(i)
      /\ mem' = [mem EXCEPT ![i] = IF @.ref = 1 THEN FreeSlot ELSE [@ EXCEPT !.ref = mem[i].ref - 1]]
      /\ pr' = [pr EXCEPT ![p].put = IF @ = "drop" THEN "free" ELSE "start",
                          ![p].puts = IF r.put = "drop" THEN @ ELSE Tail(@)]
      /\ UNCHANGED <<disk, dents, bitmap, panicked>>
  BY <1>1, <1>2 DEF IputDrop
<1>4. PICK s : s = [r EXCEPT !.put = IF r.put = "drop" THEN "free" ELSE "start", !.puts = IF r.put = "drop" THEN r.puts ELSE u]
  OBVIOUS
<1>5. pr' = [pr EXCEPT ![p] = s] /\ pr'[p] = s
  BY <1>1, <1>2, <1>3, <1>4 DEF TypeOK
<1>6. /\ s.pc = r.pc /\ s.call = r.call /\ s.at = r.at /\ s.ip = r.ip /\ s.dp = r.dp /\ s.new = r.new /\ s.name = r.name /\ s.path = r.path
      /\ s.put = (IF r.put = "drop" THEN "free" ELSE "start") /\ s.puts = (IF r.put = "drop" THEN r.puts ELSE u)
  BY <1>2, <1>4 DEF CallRec
<1>7. s \in CallRec
  BY <1>2, <1>4 DEF CallRec
<1>8. r.put \in {"start", "drop"}
  BY <1>1, <1>2 DEF CallRec
<1>9. FreeSlot \in Slot /\ FreeSlot.ref = 0 /\ ~FreeSlot.valid /\ FreeSlot.lock = None
  <2>1. Blank \in Dinode
    BY DEF Blank, Dinode, Types
  <2> QED BY <2>1 DEF FreeSlot, Slot
<1>10. /\ mem' \in [Inums -> Slot] /\ \A j \in Inums : j # i => mem'[j] = mem[j]
       /\ mem[i].ref = 1 => mem'[i] = FreeSlot
       /\ mem[i].ref # 1 => /\ mem'[i].ref = mem[i].ref - 1 /\ (mem'[i].valid <=> mem[i].valid)
                            /\ mem'[i].d = mem[i].d /\ mem'[i].lock = mem[i].lock
  <2>1. mem \in [Inums -> Slot] /\ mem[i] \in Slot
    BY <1>2 DEF TypeOK
  <2>2. (IF mem[i].ref = 1 THEN FreeSlot ELSE [mem[i] EXCEPT !.ref = mem[i].ref - 1]) \in Slot
    BY <1>9, <2>1 DEF Slot
  <2>3. [mem[i] EXCEPT !.ref = mem[i].ref - 1].valid = mem[i].valid /\ [mem[i] EXCEPT !.ref = mem[i].ref - 1].ref = mem[i].ref - 1
        /\ [mem[i] EXCEPT !.ref = mem[i].ref - 1].d = mem[i].d /\ [mem[i] EXCEPT !.ref = mem[i].ref - 1].lock = mem[i].lock
    BY <2>1 DEF Slot
  <2>4. PICK e : e = IF mem[i].ref = 1 THEN FreeSlot ELSE [mem[i] EXCEPT !.ref = mem[i].ref - 1]
    OBVIOUS
  <2>5. mem' = [mem EXCEPT ![i] = e] /\ e \in Slot
    <3>2. mem' = [mem EXCEPT ![i] = e]
      BY <1>3, <2>4
    <3> QED BY <2>2, <2>4, <3>2
  <2>6. mem' \in [Inums -> Slot] /\ mem'[i] = e /\ \A j \in Inums : j # i => mem'[j] = mem[j]
    BY <1>2, <2>1, <2>5
  <2> QED BY <2>3, <2>4, <2>6
<1>11. TypeOK' /\ Alone(p)
  BY <1>2, <1>3, <1>5, <1>7, <1>10 DEF TypeOK, Alone
<1>12. \A j \in Inums : Held(p, j)' = Held(p, j) - One(j = i)
  <2> SUFFICES ASSUME NEW j \in Inums PROVE HeldBy(s, cwd[p], fd[p], j) = HeldBy(r, cwd[p], fd[p], j) - One(j = i)
    BY <1>1, <1>2, <1>5 DEF Held
  <2> DEFINE a == One(Len(r.puts) >= 1 /\ r.put # "free" /\ r.puts[1] = j)
             b == One(Len(r.puts) >= 2 /\ r.puts[2] = j)
             c == One(Len(s.puts) >= 1 /\ s.put # "free" /\ s.puts[1] = j)
             d == One(Len(s.puts) >= 2 /\ s.puts[2] = j)
  <2>1. a = One(j = i) /\ a \in {0, 1} /\ b \in {0, 1}
    BY <1>1, <1>2, <1>8 DEF One
  <2>2. CASE r.put = "drop"
    <3>1. c = 0 /\ d = b
      BY <1>6, <2>2 DEF One
    <3> HIDE DEF a, b, c, d
    <3> QED BY <1>6, <2>1, <3>1 DEF HeldBy, One, a, b, c, d
  <2>3. CASE r.put = "start"
    <3>1. s.puts = u /\ s.put = "start"
      BY <1>6, <2>3
    <3>2. c = b /\ d = 0
      <4>1. CASE Len(r.puts) = 1
        <5>1. Len(s.puts) = 0
          BY <1>2, <3>1, <4>1
        <5> QED BY <4>1, <5>1 DEF One
      <4>2. CASE Len(r.puts) = 2
        <5>1. Len(s.puts) = 1 /\ s.puts[1] = r.puts[2]
          BY <1>2, <3>1, <4>2
        <5> QED BY <3>1, <4>2, <5>1 DEF One
      <4> QED BY <1>2, <4>1, <4>2
    <3> QED BY <1>6, <2>1, <3>2 DEF HeldBy, One
  <2> QED BY <1>8, <2>2, <2>3
<1>13. \A j \in Inums : /\ Locks(s, j) <=> Locks(r, j)
                        /\ Pends(s, j) <=> Pends(r, j)
                        /\ Removes(s, j) <=> Removes(r, j)
  BY <1>6 DEF Locks, Pends, Removes
<1>14. TableOK(i) /\ Held(p, i) \in 0..7 /\ Held(p, i) >= 1 /\ Refs(i) >= Held(p, i) /\ mem[i].ref = Refs(i) /\ mem[i].ref \in Int
  <2>1. TableOK(i) /\ Held(p, i) \in 0..7 /\ Refs(i) >= Held(p, i) /\ mem[i].ref \in Int
    BY <1>2, HeldCounts, RefsBound DEF TableInv, TypeOK, Slot
  <2>2. Held(p, i) >= 1
    BY <1>1, <1>2, <1>8, OwnHolds
  <2> QED BY <2>1, <2>2 DEF TableOK
<1>15. mem[i].lock = p <=> Locks(r, i)
  BY <1>1, <1>14 DEF TableOK
<1>16. r.put = "drop" => Dying(i) /\ mem[i].ref = 1 /\ ~mem[i].valid
  BY <1>1, <1>2 DEF ProcOK
<1>17. Carried(p, i)
  <2>1. mem'[i].ref = mem[i].ref - 1 /\ mem'[i].ref = mem[i].ref + Held(p, i)' - Held(p, i)
    BY <1>2, <1>9, <1>10, <1>12, <1>14 DEF One
  <2>2. disk'[i] = disk[i] /\ dents'[i] = dents[i] /\ Held(p, i) >= 1
    BY <1>3, <1>14
  <2>3. CASE mem[i].ref = 1
    <3>1. mem[i].lock = None /\ ~Locks(pr[p], i)
      BY <1>1, <1>2, <1>8, <2>3, LastOne
    <3>2. mem'[i].lock = None /\ ~mem'[i].valid /\ mem'[i].ref = 0
      BY <1>9, <1>10, <2>3
    <3>3. ~Locks(pr'[p], i)
      BY <1>1, <1>2, <1>5, <1>13, <3>1
    <3>4. Orphan(i)' => Works(pr'[p], i) \/ (Orphan(i) /\ ~mem[i].valid /\ ~Works(pr[p], i))
      <4>1. CASE r.put = "drop"
        BY <1>1, <1>5, <1>6, <4>1 DEF Works
      <4>2. CASE r.put = "start"
        <5>1. mem[i].valid => ~Orphan(i)
          BY <1>3, <1>14, <2>3, <4>2 DEF Last, TableOK, Orphan
        <5>2. ~Works(pr[p], i)
          BY <1>1, <1>2, <4>2 DEF Works
        <5> QED BY <2>2, <5>1, <5>2 DEF Orphan
      <4> QED BY <1>8, <4>1, <4>2
    <3> QED BY <1>2, <2>1, <2>2, <3>1, <3>2, <3>3, <3>4 DEF Carried
  <2>4. CASE mem[i].ref # 1
    <3>1. (mem'[i].valid <=> mem[i].valid) /\ mem'[i].d = mem[i].d /\ mem'[i].lock = mem[i].lock /\ mem'[i].ref > 0
      BY <1>10, <1>14, <2>1, <2>4
    <3>2. r.put = "start"
      BY <1>8, <1>16, <2>4
    <3>3. ~Works(pr[p], i)
      BY <1>1, <1>2, <3>2 DEF Works
    <3>4. mem'[i].lock = p <=> Locks(pr'[p], i)
      BY <1>2, <1>5, <1>13, <1>15, <3>1
    <3>5. /\ mem'[i].valid => mem'[i].d = disk'[i]
          /\ mem'[i].lock # None => mem'[i].valid
          /\ disk'[i].type # "none"
      BY <1>14, <2>2, <3>1 DEF TableOK
    <3>6. Orphan(i)' => mem'[i].valid \/ (Orphan(i) /\ ~mem[i].valid /\ ~Works(pr[p], i))
      BY <2>2, <3>1, <3>3 DEF Orphan
    <3> QED BY <2>1, <2>2, <3>1, <3>4, <3>5, <3>6 DEF Carried
  <2> QED BY <2>3, <2>4
<1>18. ASSUME NEW j \in Inums, j # i PROVE Carried(p, j)
  <2>1. mem'[j] = mem[j] /\ disk'[j] = disk[j] /\ dents'[j] = dents[j]
    BY <1>3, <1>10, <1>18
  <2>2. Held(p, j)' = Held(p, j)
    BY <1>12, <1>18, HeldCounts DEF One
  <2>3. (Locks(pr'[p], j) <=> Locks(pr[p], j)) /\ ~Works(pr[p], j)
    BY <1>1, <1>2, <1>5, <1>13, <1>18 DEF Works
  <2> QED BY <1>2, <2>1, <2>2, <2>3, LeftAlone
<1>19. ProcOK(p)'
  <2>1. Shape(s)
    <3>1. CASE r.put = "drop"
      BY <1>2, <1>6, <3>1 DEF Shape, Idle
    <3>2. CASE r.put = "start"
      <4>1. s.puts = u /\ s.put = "start" /\ Len(s.puts) <= 2
        BY <1>2, <1>6, <3>2
      <4>2. r.pc # "idle"
        BY <1>2 DEF Shape, Idle
      <4> QED BY <1>2, <1>6, <4>1, <4>2 DEF Shape
    <3> QED BY <1>8, <3>1, <3>2
  <2>2. s.put = "free" => /\ Dying(s.puts[1])' /\ mem'[s.puts[1]].ref = 0
                          /\ \A q \in Procs : pr'[q].put = "free" /\ pr'[q].puts[1] = s.puts[1] => q = p
    <3> SUFFICES ASSUME s.put = "free" PROVE Dying(i)' /\ mem'[i].ref = 0
                        /\ \A q \in Procs : pr'[q].put = "free" /\ pr'[q].puts[1] = i => q = p
      BY <1>1, <1>6
    <3>1. r.put = "drop"
      BY <1>6
    <3>2. Dying(i)'
      BY <1>3, <1>16, <3>1 DEF Dying
    <3>3. mem'[i].ref = 0
      BY <1>9, <1>10, <1>16, <3>1
    <3>4. ASSUME NEW q \in Procs, q # p, pr'[q].put = "free", pr'[q].puts[1] = i PROVE FALSE
      <4>1. pr[q].put = "free" /\ pr[q].puts[1] = i /\ ProcOK(q)
        BY <1>2, <1>11, <3>4 DEF Alone, TableInv
      <4>2. mem[i].ref = 0
        BY <4>1 DEF ProcOK
      <4> QED BY <1>16, <3>1, <4>2
    <3> QED BY <3>2, <3>3, <3>4
  <2>3. s.pc \notin {"create_ip", "unlink_ip"} /\ s.put # "drop"
    BY <1>2, <1>6
  <2>4. /\ s.pc \in {"create_dp", "unlink_dp", "link_dp"} => disk'[s.dp].type = "dir"
        /\ s.pc \in {"walk", "link_dp", "link_bad", "drop_dp"} /\ s.ip # 0 => disk'[s.ip].type # "dir"
        /\ s.pc = "unlink_dec" /\ disk'[s.ip].type = "dir" =>
             disk'[s.ip].nlink = 1 /\ \A k \in 3..disk'[s.ip].size : dents'[s.ip][k][2] = 0
    BY <1>1, <1>2, <1>3, <1>6 DEF ProcOK
  <2> QED BY <1>5, <2>1, <2>2, <2>3, <2>4 DEF ProcOK
<1>20. UNCHANGED <<disk, dents, bitmap, boot, panicked>>
  BY <1>2, <1>3
<1>21. \A j \in Inums : Carried(p, j)
  BY <1>17, <1>18
<1>22. \A j \in Inums : /\ Pends(pr'[p], j) <=> Pends(pr[p], j)
                        /\ Removes(pr'[p], j) <=> Removes(pr[p], j)
  BY <1>1, <1>5, <1>13
<1> QED BY <1>2, <1>11, <1>19, <1>20, <1>21, <1>22, QuietStep


\* itrunc() of the last reference to an unlinked inode.
LEMMA IputTruncKeeps ==
  ASSUME FsInv, NEW p \in Procs, Iput(p), IputTrunc(p)
  PROVE  FsInv'
<1>1. PICK r, i : r = pr[p] /\ i = r.puts[1]
  OBVIOUS
<1>2. /\ boot = 0 /\ boot' = 0 /\ UNCHANGED <<cwd, fd>> /\ p # None
      /\ TypeOK /\ TableInv /\ LinkInv /\ BlockInv /\ ProcOK(p) /\ Shape(r)
      /\ r \in CallRec /\ r.puts \in Seq(Inums) /\ r.puts # <<>>
      /\ Head(r.puts) = i /\ i \in Inums
      /\ r.pc \notin {"create_ip", "unlink_ip"}
  BY <1>1, AtPut
<1>3. /\ r.put = "start" /\ Last(i)
      /\ panicked' = (IF mem[i].lock # None THEN "iput waits for its lock"
                      ELSE IF Owned(mem[i].d) \subseteq bitmap THEN "no" ELSE "freeing free block")
      /\ bitmap' = bitmap \ Owned(mem[i].d)
      /\ disk' = [disk EXCEPT ![i] = itrunc(mem[i].d)]
      /\ dents' = [dents EXCEPT ![i] = <<>>]
      /\ mem' = [mem EXCEPT ![i].valid = FALSE, ![i].d = Blank]
      /\ pr' = [pr EXCEPT ![p].put = "drop"]
  BY <1>1, <1>2 DEF IputTrunc, iupdate
<1>4. TableOK(i) /\ mem[i].ref = 1 /\ mem[i].valid /\ mem[i].d = disk[i] /\ disk[i].nlink = 0 /\ disk[i].type # "none"
  BY <1>2, <1>3 DEF TableInv, TableOK, Last
<1>5. mem[i].lock = None /\ Held(p, i) = 1 /\ r.at # i /\ r.ip # i /\ r.dp # i /\ ~Locks(r, i)
  BY <1>1, <1>2, <1>3, <1>4, LastOne
<1>6. PICK d \in Dinode : d = itrunc(disk[i])
  BY <1>2, DiskTypes, TruncFacts
<1>7. /\ d.type = disk[i].type /\ d.nlink = 0 /\ d.size = 0 /\ d.addrs = <<>> /\ d.ind = <<>> /\ Owned(d) = {}
  BY <1>2, <1>4, <1>6, DiskTypes, TruncFacts
<1>8. disk' = [disk EXCEPT ![i] = d] /\ bitmap' = bitmap \ Owned(disk[i])
  BY <1>3, <1>4, <1>6
<1>9. disk \in [Inums -> Dinode] /\ dents \in [Inums -> Seq(Entry)] /\ mem \in [Inums -> Slot] /\ bitmap \subseteq Blocks /\ pr \in [Procs -> CallRec]
  BY <1>2 DEF TypeOK
<1>10. BlockInv' /\ Owned(disk[i]) \subseteq bitmap
  <2>1. BlocksOK([disk EXCEPT ![i] = d], bitmap \ Owned(disk[i])) /\ Owned(disk[i]) \subseteq bitmap
    BY <1>2, <1>7, <1>9, BlocksShrink DEF BlockInv
  <2> QED BY <1>8, <2>1 DEF BlockInv, BlocksOK
<1>11. panicked' = "no"
  BY <1>3, <1>4, <1>5, <1>10
<1>12. PICK s : s = [r EXCEPT !.put = "drop"]
  OBVIOUS
<1>13. pr' = [pr EXCEPT ![p] = s] /\ pr'[p] = s /\ s \in CallRec
  BY <1>1, <1>2, <1>3, <1>9, <1>12 DEF CallRec
<1>14. /\ s.pc = r.pc /\ s.call = r.call /\ s.at = r.at /\ s.ip = r.ip /\ s.dp = r.dp /\ s.new = r.new /\ s.name = r.name /\ s.path = r.path
       /\ s.put = "drop" /\ s.puts = r.puts
  BY <1>2, <1>12 DEF CallRec
<1>15. /\ disk'[i] = d /\ dents'[i] = <<>> /\ \A j \in Inums : j # i => disk'[j] = disk[j] /\ dents'[j] = dents[j]
  BY <1>2, <1>3, <1>8, <1>9
<1>16. /\ mem'[i].ref = 1 /\ ~mem'[i].valid /\ mem'[i].lock = None /\ mem' \in [Inums -> Slot]
       /\ \A j \in Inums : j # i => mem'[j] = mem[j]
  <2>1. Blank \in Dinode
    BY DEF Blank, Dinode, Types
  <2>2. PICK e : e = [mem[i] EXCEPT !.valid = FALSE, !.d = Blank]
    OBVIOUS
  <2>3. mem' = [mem EXCEPT ![i] = e] /\ mem[i] \in Slot
    BY <1>2, <1>3, <1>9, <2>2
  <2>4. e \in Slot /\ e.ref = 1 /\ ~e.valid /\ e.lock = None
    BY <1>4, <1>5, <2>1, <2>2, <2>3 DEF Slot
  <2> QED BY <1>2, <1>9, <2>3, <2>4
<1>17. TypeOK' /\ Alone(p)
  <2>1. <<>> \in Seq(Entry)
    OBVIOUS
  <2>2. disk' \in [Inums -> Dinode] /\ dents' \in [Inums -> Seq(Entry)] /\ bitmap' \subseteq Blocks
    BY <1>3, <1>8, <1>9, <2>1
  <2>3. cwd' \in [Procs -> Inums] /\ fd' \in [Procs -> File \union {None}] /\ pr' \in [Procs -> CallRec] /\ boot' \in 0..NInodes
    BY <1>2, <1>9, <1>13 DEF TypeOK
  <2>4. Alone(p)
    BY <1>2, <1>9, <1>13 DEF Alone
  <2> QED BY <1>11, <1>16, <2>2, <2>3, <2>4 DEF TypeOK
<1>18. \A j \in Inums : /\ Held(p, j)' = Held(p, j)
                        /\ Locks(pr'[p], j) <=> Locks(pr[p], j)
                        /\ Pends(pr'[p], j) <=> Pends(pr[p], j)
                        /\ Removes(pr'[p], j) <=> Removes(pr[p], j)
  BY <1>1, <1>2, <1>3, <1>13, <1>14 DEF Held, HeldBy, Locks, Pends, Removes
<1>19. Carried(p, i)
  <2>1. Works(pr'[p], i)
    BY <1>1, <1>13, <1>14 DEF Works
  <2>2. mem'[i].ref = mem[i].ref + Held(p, i)' - Held(p, i)
    BY <1>2, <1>4, <1>5, <1>16, <1>18
  <2>3. ~Locks(pr'[p], i) /\ disk'[i].type = disk[i].type /\ disk[i].type # "none" /\ Held(p, i) >= 1
    BY <1>1, <1>2, <1>4, <1>5, <1>7, <1>15, <1>18
  <2> QED BY <1>2, <1>5, <1>16, <2>1, <2>2, <2>3 DEF Carried
<1>20. ASSUME NEW j \in Inums, j # i PROVE Carried(p, j)
  <2>1. ~Works(pr[p], j)
    BY <1>1, <1>2, <1>3 DEF Works
  <2> QED BY <1>2, <1>15, <1>16, <1>18, <1>20, <2>1, LeftAlone
<1>21. \A j \in Inums : disk'[j].type = disk[j].type
  BY <1>7, <1>15
<1>22. ProcOK(p)'
  <2>1. Shape(s)
    <3>1. r.pc # "idle"
      BY <1>2 DEF Shape, Idle
    <3> QED BY <1>2, <1>14, <3>1 DEF Shape
  <2>2. Dying(i)' /\ mem'[i].ref = 1 /\ ~mem'[i].valid
    BY <1>4, <1>7, <1>15, <1>16 DEF Dying
  <2>3. /\ s.dp \in 0..NInodes /\ s.ip \in 0..NInodes /\ (s.pc \in HasDp => s.dp # 0) /\ (s.pc \in HasIp => s.ip # 0)
    BY <1>13, <2>1 DEF CallRec, Shape
  <2>4. s.pc \in {"create_dp", "unlink_dp", "link_dp"} => disk'[s.dp].type = "dir"
    BY <1>1, <1>2, <1>14, <1>21, <2>3, InumRange DEF ProcOK, HasDp
  <2>5. s.pc \in {"walk", "link_dp", "link_bad", "drop_dp"} /\ s.ip # 0 => disk'[s.ip].type # "dir"
    BY <1>1, <1>2, <1>14, <1>21, <2>3, InumRange DEF ProcOK
  <2>6. s.pc = "unlink_dec" /\ disk'[s.ip].type = "dir" =>
          disk'[s.ip].nlink = 1 /\ \A k \in 3..disk'[s.ip].size : dents'[s.ip][k][2] = 0
    <3>1. s.pc = "unlink_dec" => s.ip \in Inums /\ s.ip # i
      BY <1>5, <1>14, <2>3, InumRange DEF HasIp
    <3> QED BY <1>1, <1>2, <1>14, <1>15, <3>1 DEF ProcOK
  <2>7. s.puts[1] = i /\ s.put = "drop" /\ s.pc \notin {"create_ip", "unlink_ip"}
    BY <1>1, <1>2, <1>14
  <2> QED BY <1>13, <2>1, <2>2, <2>4, <2>5, <2>6, <2>7 DEF ProcOK
<1>23. TableInv'
  BY <1>2, <1>17, <1>19, <1>20, <1>22, TableStep
<1>24. ASSUME NEW j \in Inums PROVE LinkKept(j)
  <2>1. CountOK(j) /\ DirOK(j)
    BY <1>2 DEF LinkInv
  <2>2. CASE j = i
    <3>1. DirOK(i)'
      BY <1>7, <1>15 DEF DirOK
    <3> QED BY <1>4, <1>7, <1>15, <2>2, <3>1 DEF LinkKept
  <2>3. CASE j # i
    <3>1. disk'[j] = disk[j] /\ dents'[j] = dents[j]
      BY <1>15, <2>3
    <3>2. DirOK(j)'
      BY <2>1, <3>1 DEF DirOK
    <3> QED BY <2>1, <3>1, <3>2 DEF LinkKept, CountOK
  <2> QED BY <2>2, <2>3
<1>25. PendingKept
  BY <1>17, <1>18, PendingSame
<1>26. LinkInv'
  BY <1>2, <1>24, <1>25, LinkFrame
<1> QED BY <1>10, <1>17, <1>23, <1>26 DEF FsInv

\* ifree().
LEMMA IputFreeKeeps ==
  ASSUME FsInv, NEW p \in Procs, Iput(p), IputFree(p)
  PROVE  FsInv'
<1>1. PICK r, i, u : r = pr[p] /\ i = r.puts[1] /\ u = Tail(r.puts)
  OBVIOUS
<1>2. /\ boot = 0 /\ boot' = 0 /\ UNCHANGED <<cwd, fd>> /\ p # None
      /\ TypeOK /\ TableInv /\ LinkInv /\ BlockInv /\ ProcOK(p) /\ Shape(r)
      /\ r \in CallRec /\ r.puts \in Seq(Inums) /\ r.puts # <<>> /\ Len(r.puts) \in {1, 2}
      /\ Head(r.puts) = i /\ i \in Inums
      /\ u \in Seq(Inums) /\ Len(u) = Len(r.puts) - 1
      /\ Len(r.puts) = 2 => u[1] = r.puts[2]
      /\ r.pc \notin {"create_ip", "unlink_ip"}
  BY <1>1, AtPut
<1>3. /\ r.put = "free" /\ disk' = [disk EXCEPT ![i].type = "none"]
      /\ pr' = [pr EXCEPT ![p].put = "start", ![p].puts = Tail(@)]
      /\ UNCHANGED <<dents, bitmap, mem, panicked>>
  BY <1>1, <1>2 DEF IputFree
<1>4. Dying(i) /\ mem[i].ref = 0
  BY <1>1, <1>2, <1>3 DEF ProcOK
<1>5. TableOK(i) /\ ~mem[i].valid /\ mem[i].lock = None
  BY <1>2, <1>4 DEF TableInv, TableOK
<1>6. Held(p, i) = 0 /\ r.at # i /\ r.ip # i /\ r.dp # i
  <2>1. Held(p, i) \in 0..7 /\ Refs(i) >= Held(p, i) /\ Refs(i) = 0
    BY <1>4, <1>5, HeldCounts, RefsBound DEF TableOK
  <2>2. Held(p, i) = 0
    BY <2>1
  <2> QED BY <1>1, <1>2, <2>2, OwnHolds
<1>7. disk \in [Inums -> Dinode] /\ dents \in [Inums -> Seq(Entry)] /\ mem \in [Inums -> Slot] /\ bitmap \subseteq Blocks /\ pr \in [Procs -> CallRec]
  BY <1>2 DEF TypeOK
<1>8. PICK d : d = [disk[i] EXCEPT !.type = "none"]
  OBVIOUS
<1>9. d \in Dinode /\ d.type = "none" /\ d.nlink = disk[i].nlink /\ d.size = disk[i].size /\ d.addrs = disk[i].addrs /\ d.ind = disk[i].ind
  <2>1. disk[i] \in Dinode
    BY <1>2, <1>7
  <2> QED BY <1>8, <2>1 DEF Dinode, Types
<1>10. disk' = [disk EXCEPT ![i] = d]
  BY <1>3, <1>8
<1>11. /\ disk'[i] = d /\ dents' = dents /\ \A j \in Inums : j # i => disk'[j] = disk[j]
  BY <1>2, <1>3, <1>7, <1>10
<1>12. BlockInv'
  <2>1. Owned(d) = Owned(disk[i])
    BY <1>9 DEF Owned
  <2>2. BlocksOK([disk EXCEPT ![i] = d], bitmap)
    BY <1>2, <1>7, <2>1, BlocksSame DEF BlockInv
  <2> QED BY <1>3, <1>10, <2>2 DEF BlockInv, BlocksOK
<1>13. PICK s : s = [r EXCEPT !.put = "start", !.puts = u]
  OBVIOUS
<1>14. pr' = [pr EXCEPT ![p] = s] /\ pr'[p] = s /\ s \in CallRec
  BY <1>1, <1>2, <1>3, <1>7, <1>13 DEF CallRec
<1>15. /\ s.pc = r.pc /\ s.call = r.call /\ s.at = r.at /\ s.ip = r.ip /\ s.dp = r.dp /\ s.new = r.new /\ s.name = r.name /\ s.path = r.path
       /\ s.put = "start" /\ s.puts = u
  BY <1>2, <1>13 DEF CallRec
<1>16. TypeOK' /\ Alone(p)
  <2>1. disk' \in [Inums -> Dinode]
    BY <1>7, <1>9, <1>10
  <2>2. Alone(p) /\ pr' \in [Procs -> CallRec]
    BY <1>2, <1>7, <1>14 DEF Alone
  <2> QED BY <1>2, <1>3, <2>1, <2>2 DEF TypeOK
<1>17. \A j \in Inums : Held(p, j)' = Held(p, j)
  <2> SUFFICES ASSUME NEW j \in Inums PROVE HeldBy(s, cwd[p], fd[p], j) = HeldBy(r, cwd[p], fd[p], j)
    BY <1>1, <1>2, <1>14 DEF Held
  <2> DEFINE a == One(Len(r.puts) >= 1 /\ r.put # "free" /\ r.puts[1] = j)
             b == One(Len(r.puts) >= 2 /\ r.puts[2] = j)
             c == One(Len(s.puts) >= 1 /\ s.put # "free" /\ s.puts[1] = j)
             e == One(Len(s.puts) >= 2 /\ s.puts[2] = j)
  <2>1. a = 0 /\ b \in {0, 1}
    BY <1>3 DEF One
  <2>2. c = b /\ e = 0
    <3>1. CASE Len(r.puts) = 1
      <4>1. Len(s.puts) = 0
        BY <1>2, <1>15, <3>1
      <4> QED BY <3>1, <4>1 DEF One
    <3>2. CASE Len(r.puts) = 2
      <4>1. Len(s.puts) = 1 /\ s.puts[1] = r.puts[2]
        BY <1>2, <1>15, <3>2
      <4> QED BY <1>15, <3>2, <4>1 DEF One
    <3> QED BY <1>2, <3>1, <3>2
  <2> QED BY <1>15, <2>1, <2>2 DEF HeldBy, One
<1>18. \A j \in Inums : /\ Locks(pr'[p], j) <=> Locks(pr[p], j)
                        /\ Pends(pr'[p], j) <=> Pends(pr[p], j)
                        /\ Removes(pr'[p], j) <=> Removes(pr[p], j)
  BY <1>1, <1>14, <1>15 DEF Locks, Pends, Removes
<1>19. Carried(p, i)
  <2>1. mem[i].lock = p <=> Locks(pr[p], i)
    BY <1>5 DEF TableOK
  <2>2. mem'[i].ref = mem[i].ref + Held(p, i)' - Held(p, i)
    BY <1>2, <1>3, <1>4, <1>6, <1>17
  <2>3. ~Orphan(i)'
    BY <1>9, <1>11 DEF Orphan
  <2>4. mem'[i] = mem[i] /\ ~Locks(pr'[p], i) /\ mem'[i].lock # p
    BY <1>2, <1>3, <1>5, <1>18, <2>1
  <2>5. pr[p].put = "free" /\ pr[p].puts[1] = i
    BY <1>1, <1>3
  <2> QED BY <1>4, <1>5, <2>2, <2>3, <2>4, <2>5 DEF Carried
<1>20. ASSUME NEW j \in Inums, j # i PROVE Carried(p, j)
  <2>1. ~Works(pr[p], j)
    BY <1>1, <1>2, <1>20 DEF Works
  <2> QED BY <1>2, <1>3, <1>11, <1>17, <1>18, <1>20, <2>1, LeftAlone
<1>21. ProcOK(p)'
  <2>1. Shape(s)
    <3>1. r.pc # "idle" /\ Len(u) <= 2
      BY <1>2 DEF Shape, Idle
    <3> QED BY <1>2, <1>15, <3>1 DEF Shape
  <2>2. \A j \in Inums : j # i => disk'[j] = disk[j] /\ dents'[j] = dents[j]
    BY <1>11
  <2>3. /\ s.dp \in 0..NInodes /\ s.ip \in 0..NInodes /\ (s.pc \in HasDp => s.dp # 0) /\ (s.pc \in HasIp => s.ip # 0)
    BY <1>14, <2>1 DEF CallRec, Shape
  <2>4. s.pc \in {"create_dp", "unlink_dp", "link_dp"} => disk'[s.dp].type = "dir"
    BY <1>1, <1>2, <1>6, <1>15, <2>2, <2>3, InumRange DEF ProcOK, HasDp
  <2>5. s.pc \in {"walk", "link_dp", "link_bad", "drop_dp"} /\ s.ip # 0 => disk'[s.ip].type # "dir"
    BY <1>1, <1>2, <1>6, <1>15, <2>2, <2>3, InumRange DEF ProcOK
  <2>6. s.pc = "unlink_dec" /\ disk'[s.ip].type = "dir" =>
          disk'[s.ip].nlink = 1 /\ \A k \in 3..disk'[s.ip].size : dents'[s.ip][k][2] = 0
    <3>1. s.pc = "unlink_dec" => s.ip \in Inums /\ s.ip # i
      BY <1>6, <1>15, <2>3, InumRange DEF HasIp
    <3> QED BY <1>1, <1>2, <1>15, <2>2, <3>1 DEF ProcOK
  <2>7. s.put = "start" /\ s.pc \notin {"create_ip", "unlink_ip"}
    BY <1>2, <1>15
  <2> QED BY <1>14, <2>1, <2>4, <2>5, <2>6, <2>7 DEF ProcOK
<1>22. TableInv'
  BY <1>2, <1>16, <1>19, <1>20, <1>21, TableStep
<1>23. ASSUME NEW j \in Inums PROVE LinkKept(j)
  <2>1. CountOK(j) /\ DirOK(j)
    BY <1>2 DEF LinkInv
  <2>2. CASE j = i
    <3>1. DirOK(i)'
      BY <1>9, <1>11 DEF DirOK
    <3>2. Owned(d) = {}
      BY <1>4, <1>9 DEF Dying, Owned, Elements
    <3> QED BY <1>4, <1>9, <1>11, <2>2, <3>1, <3>2 DEF LinkKept, Dying
  <2>3. CASE j # i
    <3>1. disk'[j] = disk[j] /\ dents'[j] = dents[j]
      BY <1>11, <2>3
    <3>2. DirOK(j)'
      BY <2>1, <3>1 DEF DirOK
    <3> QED BY <2>1, <3>1, <3>2 DEF LinkKept, CountOK
  <2> QED BY <2>2, <2>3
<1>24. PendingKept
  BY <1>16, <1>18, PendingSame
<1>25. LinkInv'
  BY <1>2, <1>23, <1>24, LinkFrame
<1> QED BY <1>12, <1>16, <1>22, <1>25 DEF FsInv

LEMMA IputKeeps ==
  ASSUME FsInv, NEW p \in Procs, Iput(p)
  PROVE  FsInv'
<1>1. IputTrunc(p) \/ (pr[p].put # "free" /\ IputDrop(p)) \/ IputFree(p)
  BY DEF Iput
<1> QED BY <1>1, IputTruncKeeps, IputDropKeeps, IputFreeKeeps


-----------------------------------------------------------------------------
(* bmap() and dirlink().                                                    *)

LEMMA BallocFacts ==
  ASSUME NEW U, U \subseteq Blocks
  PROVE  balloc(U) # 0 => balloc(U) \in Blocks \ U
<1>1. CASE Blocks \subseteq U
  BY <1>1 DEF balloc
<1>2. CASE ~(Blocks \subseteq U)
  <2>1. Blocks \ U \in SUBSET Nat /\ Blocks \ U # {}
    BY <1>2, FileSystemAssumption DEF Blocks
  <2>2. Min(Blocks \ U) \in Blocks \ U
    BY <2>1, MinIsMember
  <2> QED BY <1>2, <2>2 DEF balloc
<1> QED BY <1>1, <1>2

\* Inode d has grown to e, the blocks in use from U to V, by free blocks.
Grown(d, e, U, V) ==
  /\ e \in Dinode /\ e.type = d.type /\ e.nlink = d.nlink /\ e.size = d.size
  /\ Owned(d) \subseteq Owned(e) /\ V = U \union Owned(e) /\ V \subseteq Blocks
  /\ Owned(e) \intersect U \subseteq Owned(d)

LEMMA ElementsAppend ==
  ASSUME NEW u \in Seq(Blocks), NEW b \in Blocks
  PROVE  Append(u, b) \in Seq(Blocks) /\ Elements(Append(u, b)) = Elements(u) \union {b}
<1>1. Append(u, b) \in Seq(Blocks) /\ Len(Append(u, b)) = Len(u) + 1 /\ Len(u) \in Nat
  OBVIOUS
<1>2. \A k \in 1..Len(u) : Append(u, b)[k] = u[k]
  OBVIOUS
<1>3. Append(u, b)[Len(u) + 1] = b
  OBVIOUS
<1>4. DOMAIN u = 1..Len(u) /\ DOMAIN Append(u, b) = 1..(Len(u) + 1)
  BY <1>1
<1>5. ASSUME NEW x PROVE x \in Elements(Append(u, b)) <=> x \in Elements(u) \/ x = b
  <2>1. x \in Elements(Append(u, b)) <=> \E k \in 1..(Len(u) + 1) : x = Append(u, b)[k]
    BY <1>4 DEF Elements
  <2>2. x \in Elements(u) <=> \E k \in 1..Len(u) : x = u[k]
    BY <1>4 DEF Elements
  <2>3. \A k : k \in 1..(Len(u) + 1) <=> k \in 1..Len(u) \/ k = Len(u) + 1
    BY <1>1
  <2> QED BY <1>2, <1>3, <2>1, <2>2, <2>3
<1> QED BY <1>1, <1>5

LEMMA ElementsIn == \A u \in Seq(Blocks) : Elements(u) \subseteq Blocks
<1>1. \A u \in Seq(Blocks) : \A k \in DOMAIN u : u[k] \in Blocks
  OBVIOUS
<1> QED BY <1>1 DEF Elements

LEMMA GrownSame ==
  ASSUME NEW d \in Dinode, NEW U, U \subseteq Blocks, Owned(d) \subseteq U
  PROVE  Grown(d, d, U, U)
  BY DEF Grown

LEMMA bmapFacts ==
  ASSUME NEW d \in Dinode, NEW U, U \subseteq Blocks, Owned(d) \subseteq U, NEW bn \in Nat
  PROVE  Grown(d, bmap(d, U, bn).d, U, bmap(d, U, bn).used)
<1> DEFINE b == balloc(U)
<1>1. b # 0 => b \in Blocks /\ b \notin U
  BY BallocFacts
<1>2. d.addrs \in Seq(Blocks) /\ d.ind \in Seq(Blocks)
  BY DEF Dinode
<1>3. Grown(d, d, U, U)
  BY GrownSame
<1>4. CASE bn < NDIRECT
  <2>1. CASE bn < Len(d.addrs) \/ b = 0
    <3>1. bmap(d, U, bn).d = d /\ bmap(d, U, bn).used = U
      BY <1>4, <2>1 DEF bmap
    <3> QED BY <1>3, <3>1
  <2>2. CASE ~(bn < Len(d.addrs)) /\ b # 0
    <3>1. PICK e : e = [d EXCEPT !.addrs = Append(@, b)]
      OBVIOUS
    <3>2. bmap(d, U, bn).d = e /\ bmap(d, U, bn).used = U \union {b}
      BY <1>4, <2>2, <3>1 DEF bmap
    <3> HIDE DEF b
    <3>3. Append(d.addrs, b) \in Seq(Blocks) /\ Elements(Append(d.addrs, b)) = Elements(d.addrs) \union {b}
      BY <1>1, <1>2, <2>2, ElementsAppend
    <3>4. e \in Dinode /\ e.type = d.type /\ e.nlink = d.nlink /\ e.size = d.size /\ e.addrs = Append(d.addrs, b) /\ e.ind = d.ind
      BY <3>1, <3>3 DEF Dinode
    <3>5. Owned(e) = Owned(d) \union {b}
      BY <3>3, <3>4 DEF Owned
    <3> QED BY <1>1, <2>2, <3>2, <3>4, <3>5 DEF Grown
  <2> QED BY <2>1, <2>2
<1>5. CASE ~(bn < NDIRECT)
  <2> DEFINE d1 == IF d.ind = <<>> /\ b # 0 THEN [d EXCEPT !.ind = <<b>>] ELSE d
             U1 == U \union Elements(d1.ind)
             c == balloc(U1)
             k == bn - NDIRECT + 2
  <2>0. bmap(d, U, bn) = IF d1.ind = <<>> THEN [d |-> d, used |-> U, addr |-> 0]
                         ELSE IF k <= Len(d1.ind) THEN [d |-> d1, used |-> U1, addr |-> d1.ind[k]]
                         ELSE IF c = 0 THEN [d |-> d1, used |-> U1, addr |-> 0]
                         ELSE [d |-> [d1 EXCEPT !.ind = Append(@, c)], used |-> U1 \union {c}, addr |-> c]
    BY <1>5 DEF bmap
  <2>1. Grown(d, d1, U, U1) /\ d1.ind \in Seq(Blocks)
    <3>1. CASE d.ind = <<>> /\ b # 0
      <4>1. d1 = [d EXCEPT !.ind = <<b>>]
        BY <3>1
      <4> HIDE DEF b, d1
      <4>2. <<b>> = Append(<<>>, b) /\ <<>> \in Seq(Blocks)
        BY <1>1, <3>1
      <4>3. <<b>> \in Seq(Blocks) /\ Elements(<<b>>) = Elements(<<>>) \union {b}
        BY <1>1, <3>1, <4>2, ElementsAppend
      <4>4. d1 \in Dinode /\ d1.type = d.type /\ d1.nlink = d.nlink /\ d1.size = d.size /\ d1.addrs = d.addrs /\ d1.ind = <<b>>
        BY <4>1, <4>3 DEF Dinode
      <4>5. Owned(d1) = Owned(d) \union {b} /\ Elements(d1.ind) = Elements(d.ind) \union {b}
        BY <3>1, <4>3, <4>4 DEF Owned
      <4>6. U1 = U \union {b}
        BY <4>5 DEF Owned
      <4> QED BY <1>1, <3>1, <4>3, <4>4, <4>5, <4>6 DEF Grown
    <3>2. CASE ~(d.ind = <<>> /\ b # 0)
      <4>1. d1 = d /\ U1 = U
        BY <3>2 DEF Owned
      <4> QED BY <1>2, <1>3, <4>1
    <3> QED BY <3>1, <3>2
  <2>2. U1 \subseteq Blocks /\ d1 \in Dinode /\ Owned(d1) \subseteq U1
    BY <2>1 DEF Grown
  <2>3. c # 0 => c \in Blocks /\ c \notin U1
    BY <2>2, BallocFacts
  <2> HIDE DEF d1, U1, c, k, b
  <2>4. CASE d1.ind = <<>>
    <3>1. bmap(d, U, bn).d = d /\ bmap(d, U, bn).used = U
      BY <2>0, <2>4
    <3> QED BY <1>3, <3>1
  <2>5. CASE d1.ind # <<>> /\ (k <= Len(d1.ind) \/ c = 0)
    <3>1. bmap(d, U, bn).d = d1 /\ bmap(d, U, bn).used = U1
      BY <2>0, <2>5
    <3> QED BY <2>1, <3>1
  <2>6. CASE d1.ind # <<>> /\ ~(k <= Len(d1.ind)) /\ c # 0
    <3>1. PICK e : e = [d1 EXCEPT !.ind = Append(@, c)]
      OBVIOUS
    <3>2. bmap(d, U, bn).d = e /\ bmap(d, U, bn).used = U1 \union {c}
      BY <2>0, <2>6, <3>1
    <3>3. Append(d1.ind, c) \in Seq(Blocks) /\ Elements(Append(d1.ind, c)) = Elements(d1.ind) \union {c}
      BY <2>1, <2>3, <2>6, ElementsAppend
    <3>4. e \in Dinode /\ e.type = d1.type /\ e.nlink = d1.nlink /\ e.size = d1.size /\ e.addrs = d1.addrs /\ e.ind = Append(d1.ind, c)
      BY <2>2, <3>1, <3>3 DEF Dinode
    <3>5. Owned(e) = Owned(d1) \union {c}
      BY <3>3, <3>4 DEF Owned
    <3> QED BY <2>1, <2>2, <2>3, <2>6, <3>2, <3>4, <3>5 DEF Grown
  <2> QED BY <2>4, <2>5, <2>6
<1> QED BY <1>4, <1>5


\* A directory as dirlink() sees it.
DirRec == [ok : BOOLEAN, used : SUBSET Blocks, ents : Seq(Entry), d : Dinode]
DirView(v) == v \in DirRec /\ Owned(v.d) \subseteq v.used /\ Len(v.ents) = v.d.size

\* Entries g are f with entry e at an empty place k or at the end.
Added(f, g, k, e) ==
  /\ k \in Places /\ k <= Len(f) + 1 /\ Len(g) = IF k > Len(f) THEN k ELSE Len(f)
  /\ g[k] = e /\ \A l \in 1..Len(f) : l # k => g[l] = f[l]
  /\ k <= Len(f) => f[k][2] = 0

Linked(v, w, e) ==
  /\ DirView(w) /\ w.d.type = v.d.type /\ w.d.nlink = v.d.nlink
  /\ Owned(v.d) \subseteq Owned(w.d) /\ w.used = v.used \union Owned(w.d) /\ Owned(w.d) \intersect v.used \subseteq Owned(v.d)
  /\ ~w.ok => w.d.size = v.d.size /\ w.ents = v.ents
  /\ w.ok => \E k \in Places : Added(v.ents, w.ents, k, e)

LEMMA AppendFacts ==
  ASSUME NEW f \in Seq(Entry), NEW e \in Entry
  PROVE  /\ Append(f, e) \in Seq(Entry) /\ Len(Append(f, e)) = Len(f) + 1 /\ Append(f, e)[Len(f) + 1] = e
         /\ \A l \in 1..Len(f) : Append(f, e)[l] = f[l]
  OBVIOUS

LEMMA SetFacts ==
  ASSUME NEW f \in Seq(Entry), NEW e \in Entry, NEW k \in 1..Len(f)
  PROVE  /\ [f EXCEPT ![k] = e] \in Seq(Entry) /\ Len([f EXCEPT ![k] = e]) = Len(f) /\ [f EXCEPT ![k] = e][k] = e
         /\ \A l \in 1..Len(f) : l # k => [f EXCEPT ![k] = e][l] = f[l]
  OBVIOUS

LEMMA dirlinkFacts ==
  ASSUME NEW v, DirView(v), NEW n \in Names, NEW x \in 0..NInodes
  PROVE  Linked(v, dirlink(v, n, x), <<n, x>>)
<1>1. /\ v \in DirRec /\ v.d \in Dinode /\ v.used \subseteq Blocks /\ v.ents \in Seq(Entry) /\ Owned(v.d) \subseteq v.used
      /\ Len(v.ents) = v.d.size /\ v.d.size \in Nat
  BY DEF DirView, DirRec, Dinode
<1> DEFINE empty == {k \in 1..v.d.size : v.ents[k][2] = 0}
           slot == EntrySlot(v)
           m == bmap(v.d, v.used, (slot - 1) \div Dirents)
           w == dirlink(v, n, x)
<1>2. /\ slot \in Nat /\ slot >= 1 /\ slot <= v.d.size + 1
      /\ slot <= v.d.size => v.ents[slot][2] = 0
  <2>1. CASE empty = {}
    <3>1. slot = v.d.size + 1
      BY <2>1 DEF EntrySlot
    <3> HIDE DEF slot
    <3> QED BY <1>1, <3>1
  <2>2. CASE empty # {}
    <3>1. empty \in SUBSET Nat /\ slot = Min(empty)
      BY <1>1, <2>2 DEF EntrySlot
    <3>2. slot \in empty
      BY <2>2, <3>1, MinIsMember
    <3> HIDE DEF slot
    <3> QED BY <1>1, <3>2
  <2> QED BY <2>1, <2>2
<1>3. Dirents \in Nat /\ Dirents > 0 /\ MAXFILE * Dirents \in Nat
  BY FileSystemAssumption
<1> HIDE DEF slot
<1>4. (slot - 1) \div Dirents \in Nat
  <2>1. PICK a \in Nat : a = slot - 1
    BY <1>2
  <2>2. a \div Dirents \in Nat
    BY <1>3
  <2> QED BY <2>1, <2>2
<1>5. Grown(v.d, m.d, v.used, m.used)
  <2>1. PICK b \in Nat : b = (slot - 1) \div Dirents
    BY <1>4
  <2>2. Grown(v.d, bmap(v.d, v.used, b).d, v.used, bmap(v.d, v.used, b).used)
    BY <1>1, bmapFacts
  <2> QED BY <2>1, <2>2, Zenon
<1>6. w = IF slot > MAXFILE * Dirents THEN [v EXCEPT !.ok = FALSE] ELSE EntryWritten(v, slot, m, <<n, x>>)
  BY Zenon DEF dirlink, slot
<1>7. PICK y, e, U, a, M : y = w /\ e = m.d /\ U = m.used /\ a = m.addr /\ M = m
  OBVIOUS
<1>8. Grown(v.d, e, v.used, U)
  BY <1>5, <1>7
<1>9. /\ y = IF slot > MAXFILE * Dirents THEN [v EXCEPT !.ok = FALSE] ELSE EntryWritten(v, slot, M, <<n, x>>)
      /\ e = M.d /\ U = M.used /\ a = M.addr
  BY <1>6, <1>7, Zenon
<1> HIDE DEF w, m
<1> SUFFICES Linked(v, y, <<n, x>>)
  BY <1>7, Zenon DEF w
<1>10. CASE slot > MAXFILE * Dirents
  <2>1. y = [v EXCEPT !.ok = FALSE]
    BY <1>9, <1>10, Zenon
  <2>2. y \in DirRec /\ ~y.ok /\ y.d = v.d /\ y.used = v.used /\ y.ents = v.ents
    BY <1>1, <2>1 DEF DirRec
  <2> QED BY <1>1, <2>2 DEF Linked, DirView
<1>11. CASE ~(slot > MAXFILE * Dirents) /\ a = 0
  <2>1. y = [v EXCEPT !.ok = FALSE, !.d = e, !.used = U]
    BY <1>9, <1>11 DEF EntryWritten
  <2>2. y \in DirRec /\ ~y.ok /\ y.d = e /\ y.used = U /\ y.ents = v.ents
    BY <1>1, <1>8, <2>1 DEF DirRec, Grown
  <2> QED BY <1>1, <1>8, <2>2 DEF Linked, DirView, Grown
<1>12. CASE ~(slot > MAXFILE * Dirents) /\ a # 0
  <2>1. PICK z, g : /\ z = [e EXCEPT !.size = IF slot > e.size THEN slot ELSE e.size]
                    /\ g = IF slot > Len(v.ents) THEN Append(v.ents, <<n, x>>)
                           ELSE [v.ents EXCEPT ![slot] = <<n, x>>]
    OBVIOUS
  <2>2. y = [ok |-> TRUE, used |-> U, d |-> z, ents |-> g]
    BY <1>9, <1>12, <2>1 DEF EntryWritten
  <2>3. y.ok /\ y.used = U /\ y.d = z /\ y.ents = g
    BY <2>2
  <2>4. e \in Dinode /\ e.size = v.d.size /\ e.type = v.d.type /\ e.nlink = v.d.nlink
    BY <1>8 DEF Grown
  <2>5. /\ z \in Dinode /\ z.size = (IF slot > v.d.size THEN slot ELSE v.d.size) /\ z.type = v.d.type /\ z.nlink = v.d.nlink
        /\ z.addrs = e.addrs /\ z.ind = e.ind
    BY <1>1, <1>2, <2>1, <2>4 DEF Dinode
  <2>6. Owned(z) = Owned(e)
    BY <2>5 DEF Owned
  <2>7. <<n, x>> \in Entry
    BY DEF Entry
  <2>8. PICK f \in Seq(Entry), h \in Entry : f = v.ents /\ h = <<n, x>>
    BY <1>1, <2>7
  <2>9. /\ g \in Seq(Entry) /\ Len(g) = (IF slot > Len(f) THEN slot ELSE Len(f)) /\ g[slot] = h
        /\ \A l \in 1..Len(f) : l # slot => g[l] = f[l]
    <3>1. CASE slot > Len(f)
      <4>1. g = Append(f, h) /\ slot = Len(f) + 1
        BY <1>1, <1>2, <2>1, <2>8, <3>1
      <4>2. g \in Seq(Entry) /\ Len(g) = Len(f) + 1 /\ g[Len(f) + 1] = h /\ \A l \in 1..Len(f) : g[l] = f[l]
        BY <4>1, AppendFacts
      <4> QED BY <3>1, <4>1, <4>2
    <3>2. CASE ~(slot > Len(f))
      <4>1. g = [f EXCEPT ![slot] = h]
        BY <2>1, <2>8, <3>2
      <4>2. slot \in 1..Len(f)
        BY <1>1, <1>2, <2>8, <3>2
      <4>3. g \in Seq(Entry) /\ Len(g) = Len(f) /\ g[slot] = h /\ \A l \in 1..Len(f) : l # slot => g[l] = f[l]
        BY <4>1, <4>2, SetFacts
      <4> QED BY <3>2, <4>3
    <3> QED BY <3>1, <3>2
  <2>10. slot \in Places
    BY <1>2, <1>3, <1>12 DEF Places
  <2>11. Added(v.ents, y.ents, slot, <<n, x>>)
    BY <1>1, <1>2, <2>3, <2>8, <2>9, <2>10 DEF Added
  <2>12. y \in DirRec
    BY <1>8, <2>2, <2>5, <2>9 DEF DirRec, Grown
  <2>13. DirView(y)
    BY <1>1, <1>8, <2>3, <2>5, <2>6, <2>8, <2>9, <2>12 DEF DirView, Grown
  <2> QED BY <1>8, <2>3, <2>5, <2>6, <2>10, <2>11, <2>13 DEF Linked, Grown
<1> QED BY <1>10, <1>11, <1>12


-----------------------------------------------------------------------------
(* Steps that write inodes.                                                 *)

\* Process p writes inode j under its lock and takes n references to it.
Wrote(p, j, n) ==
  /\ Held(p, j) >= 1 /\ mem[j].lock \in {None, p} /\ disk'[j].type = disk[j].type
  /\ mem'[j].ref = mem[j].ref + n /\ Held(p, j)' = Held(p, j) + n
  /\ mem'[j].valid /\ mem'[j].d = disk'[j]
  /\ mem'[j].lock \in {None, p} /\ (mem'[j].lock = p <=> Locks(pr'[p], j))

\* Process p at most takes n references to inode j.
Spared(p, j, n) ==
  /\ disk'[j] = disk[j] /\ dents'[j] = dents[j]
  /\ n = 1 => disk[j].type # "none" /\ (Held(p, j) >= 1 \/ disk[j].nlink >= 1)
  /\ mem'[j].ref = mem[j].ref + n /\ Held(p, j)' = Held(p, j) + n
  /\ mem'[j].valid <=> mem[j].valid
  /\ mem'[j].d = mem[j].d /\ mem'[j].lock = mem[j].lock
  /\ (Locks(pr'[p], j) <=> Locks(pr[p], j)) /\ ~Works(pr[p], j)

LEMMA WroteCarried ==
  ASSUME TypeOK, TableInv, boot = 0, NEW p \in Procs, NEW j \in Inums, NEW n \in {0, 1}, Wrote(p, j, n)
  PROVE  Carried(p, j)
<1>1. /\ TableOK(j) /\ Held(p, j) \in 0..7 /\ mem[j].ref \in Int /\ p # None
  BY HeldCounts, FileSystemAssumption DEF TableInv, TypeOK, Slot
<1>2. mem[j].ref = Refs(j) /\ Refs(j) >= Held(p, j)
  BY <1>1, RefsBound DEF TableOK
<1>3. mem'[j].ref > 0 /\ mem[j].ref > 0 /\ mem'[j].ref = mem[j].ref + Held(p, j)' - Held(p, j)
  BY <1>1, <1>2 DEF Wrote
<1>4. disk[j].type # "none"
  BY <1>1, <1>3 DEF TableOK
<1> QED BY <1>1, <1>3, <1>4 DEF Wrote, Carried

LEMMA SparedCarried ==
  ASSUME TypeOK, TableInv, boot = 0, NEW p \in Procs, NEW j \in Inums, NEW n \in {0, 1}, Spared(p, j, n)
  PROVE  Carried(p, j)
<1>1. /\ TableOK(j) /\ Held(p, j) \in 0..7 /\ mem[j].ref \in Int /\ p # None
  BY HeldCounts, FileSystemAssumption DEF TableInv, TypeOK, Slot
<1>2. mem'[j].ref >= mem[j].ref /\ mem'[j].ref = mem[j].ref + Held(p, j)' - Held(p, j) /\ (n = 0 => mem'[j].ref = mem[j].ref)
  BY <1>1 DEF Spared
<1>3. mem'[j].ref > 0 => disk'[j].type # "none"
  BY <1>1, <1>2 DEF Spared, TableOK
<1>4. /\ mem'[j].valid => mem'[j].d = disk'[j] /\ mem'[j].ref > 0
      /\ mem'[j].lock # None => mem'[j].valid
      /\ mem'[j].lock = p <=> Locks(pr'[p], j)
  BY <1>1, <1>2 DEF Spared, TableOK
<1>5. Orphan(j)' => mem'[j].valid \/ (Orphan(j) /\ ~mem[j].valid /\ ~Works(pr[p], j))
  BY DEF Spared, Orphan
<1>6. \/ disk'[j] = disk[j] /\ dents'[j] = dents[j] /\ mem'[j].ref = mem[j].ref /\ (mem'[j].valid <=> mem[j].valid)
      \/ disk'[j] = disk[j] /\ dents'[j] = dents[j] /\ (Held(p, j) >= 1 \/ disk[j].nlink >= 1)
  BY <1>2 DEF Spared
<1>7. mem'[j].lock = mem[j].lock
  BY DEF Spared
<1> QED BY <1>2, <1>3, <1>4, <1>5, <1>6, <1>7 DEF Carried

\* The table after process p has made inode i d under its lock, left to l, and has
\* taken a reference to inode t (none if 0).
Written(i, d, l, t) == IF t = 0 THEN Left(i, d, l) ELSE iget(Left(i, d, l), t)

Holds(m, i, d, l, t) ==
  /\ m \in [Inums -> Slot]
  /\ \A j \in Inums : /\ m[j].ref = mem[j].ref + One(j = t)
                      /\ m[j].valid <=> (mem[j].valid \/ j = i)
                      /\ m[j].d = IF j = i THEN d ELSE mem[j].d
                      /\ m[j].lock = IF j = i THEN l ELSE mem[j].lock

LEMMA WrittenFacts ==
  ASSUME TypeOK, NEW i \in Inums, NEW d \in Dinode, NEW l \in Procs \union {None}, NEW t \in 0..NInodes
  PROVE  Holds(Written(i, d, l, t), i, d, l, t)
<1> SUFFICES  /\ Written(i, d, l, t) \in [Inums -> Slot]
              /\ \A j \in Inums : /\ Written(i, d, l, t)[j].ref = mem[j].ref + One(j = t)
                                  /\ Written(i, d, l, t)[j].valid <=> (mem[j].valid \/ j = i)
                                  /\ Written(i, d, l, t)[j].d = IF j = i THEN d ELSE mem[j].d
                                  /\ Written(i, d, l, t)[j].lock = IF j = i THEN l ELSE mem[j].lock
  BY DEF Holds
<1>1. t # 0 => t \in Inums
  BY InumRange
<1>2. 0 \notin Inums /\ mem \in [Inums -> Slot] /\ \A j \in Inums : mem[j] \in Slot /\ mem[j].ref \in Int
  BY InumRange DEF TypeOK, Slot
<1>3. PICK m : m = Left(i, d, l)
  OBVIOUS
<1>4. /\ m \in [Inums -> Slot] /\ m[i].ref = mem[i].ref /\ m[i].valid /\ m[i].d = d /\ m[i].lock = l
      /\ \A j \in Inums : j # i => m[j] = mem[j]
  BY <1>3, LeftFacts
<1>5. Written(i, d, l, t) = IF t = 0 THEN m ELSE iget(m, t)
  BY <1>3 DEF Written
<1>6. CASE t = 0
  <2>1. \A j \in Inums : One(j = t) = 0
    BY <1>2, <1>6 DEF One
  <2> QED BY <1>2, <1>4, <1>5, <1>6, <2>1
<1>7. CASE t # 0
  <2>1. t \in Inums /\ Written(i, d, l, t) = iget(m, t)
    BY <1>1, <1>5, <1>7
  <2>2. /\ iget(m, t) \in [Inums -> Slot]
        /\ iget(m, t)[t].ref = m[t].ref + 1 /\ iget(m, t)[t].valid = m[t].valid
        /\ iget(m, t)[t].d = m[t].d /\ iget(m, t)[t].lock = m[t].lock
        /\ \A j \in Inums : j # t => iget(m, t)[j] = m[j]
    BY <1>4, <2>1, IgetFacts
  <2>3. \A j \in Inums : m[j].ref = mem[j].ref /\ m[j].ref \in Int
    BY <1>2, <1>4
  <2>4. \A j \in Inums : iget(m, t)[j].ref = mem[j].ref + One(j = t)
    BY <2>2, <2>3 DEF One
  <2>5. \A j \in Inums : iget(m, t)[j].valid = m[j].valid /\ iget(m, t)[j].d = m[j].d /\ iget(m, t)[j].lock = m[j].lock
    BY <2>2
  <2> QED BY <1>4, <2>1, <2>2, <2>4, <2>5
<1> QED BY <1>6, <1>7

\* Turned, with no word on the links that the calls have counted.
Handed(p, r, c, f, s, e, g, i, l, t) ==
  \A j \in Inums : /\ HeldBy(s, e, g, j) = HeldBy(r, c, f, j) + One(j = t)
                   /\ Locks(s, j) <=> (IF j = i THEN l = p ELSE Locks(r, j))
                   /\ ~Works(r, j)

LEMMA TurnedHanded ==
  ASSUME NEW p, NEW r, NEW c, NEW f, NEW s, NEW e, NEW g, NEW i, NEW l, NEW t, Turned(p, r, c, f, s, e, g, i, l, t)
  PROVE  Handed(p, r, c, f, s, e, g, i, l, t)
  BY DEF Turned, Handed

\* A call that goes on as s after it has written inode i.
WrittenBy(p, i, d, e, l, t, s) ==
  /\ i \in Inums /\ d \in Dinode /\ e \in Seq(Entry) /\ l \in {None, p} /\ t \in 0..NInodes /\ s \in CallRec
  /\ disk' = [disk EXCEPT ![i] = d] /\ d.type = disk[i].type
  /\ dents' = [dents EXCEPT ![i] = e] /\ mem' = Written(i, d, l, t) /\ pr' = [pr EXCEPT ![p] = s]
  /\ mem[i].lock \in {None, p} /\ Held(p, i) >= 1
  /\ t # 0 => disk[t].type # "none" /\ (Held(p, t) >= 1 \/ disk[t].nlink >= 1)
  /\ cwd' \in [Procs -> Inums] /\ fd' \in [Procs -> File \union {None}]
  /\ \A q \in Procs : q # p => cwd'[q] = cwd[q] /\ fd'[q] = fd[q]
  /\ Handed(p, pr[p], cwd[p], fd[p], s, cwd'[p], fd'[p], i, l, t)

LEMMA WriteCall ==
  ASSUME FsInv, boot = 0, boot' = 0, panicked' = "no", NEW p \in Procs,
         NEW i, NEW d, NEW e, NEW l, NEW t, NEW s, WrittenBy(p, i, d, e, l, t, s),
         ProcOK(p)', LinkInv', BlockInv', bitmap' \subseteq Blocks
  PROVE  FsInv'
<1>1. TypeOK /\ TableInv /\ p # None /\ l \in Procs \union {None}
  BY FileSystemAssumption DEF FsInv, WrittenBy
<1>2. pr'[p] = s /\ Alone(p) /\ disk'[i] = d /\ (\A j \in Inums : j # i => disk'[j] = disk[j] /\ dents'[j] = dents[j])
  BY <1>1 DEF Alone, TypeOK, WrittenBy
<1>3. mem' \in [Inums -> Slot] /\ i \in Inums /\ i # 0
  <2>1. i \in Inums /\ d \in Dinode /\ t \in 0..NInodes /\ mem' = Written(i, d, l, t)
    BY DEF WrittenBy
  <2>2. Holds(Written(i, d, l, t), i, d, l, t)
    BY <1>1, <2>1, WrittenFacts, Zenon
  <2> QED BY <2>1, <2>2, InumRange DEF Holds
<1>4. TypeOK'
  BY <1>1, <1>3 DEF TypeOK, WrittenBy
<1>5. \A j \in Inums : /\ mem'[j].ref = mem[j].ref + One(j = t)
                       /\ mem'[j].valid <=> (mem[j].valid \/ j = i)
                       /\ mem'[j].d = IF j = i THEN d ELSE mem[j].d
                       /\ mem'[j].lock = IF j = i THEN l ELSE mem[j].lock
  <2>1. i \in Inums /\ d \in Dinode /\ l \in Procs \union {None} /\ t \in 0..NInodes /\ mem' = Written(i, d, l, t)
    BY <1>1 DEF WrittenBy
  <2>2. Holds(Written(i, d, l, t), i, d, l, t)
    BY <1>1, <2>1, WrittenFacts, Zenon
  <2>3. Holds(mem', i, d, l, t)
    BY <2>1, <2>2, Zenon
  <2> QED BY <2>3 DEF Holds
<1>6. \A j \in Inums : /\ Held(p, j)' = Held(p, j) + One(j = t)
                       /\ Locks(pr'[p], j) <=> (IF j = i THEN l = p ELSE Locks(pr[p], j))
                       /\ ~Works(pr[p], j)
  BY <1>2 DEF Held, Handed, WrittenBy
<1>7. ASSUME NEW j \in Inums PROVE Carried(p, j)
  <2>1. PICK n \in {0, 1} : n = One(j = t)
    BY DEF One
  <2>2. CASE j = i
    <3>1. Wrote(p, j, n)
      BY <1>1, <1>2, <1>5, <1>6, <2>1, <2>2 DEF Wrote, WrittenBy
    <3> QED BY <1>1, <3>1, WroteCarried
  <2>3. CASE j # i
    <3>1. n = 1 => disk[j].type # "none" /\ (Held(p, j) >= 1 \/ disk[j].nlink >= 1)
      BY <2>1, InumRange DEF One, WrittenBy
    <3>2. mem'[j].valid <=> mem[j].valid
      BY <1>5, <2>3
    <3>3. Spared(p, j, n)
      BY <1>2, <1>5, <1>6, <2>1, <2>3, <3>1, <3>2 DEF Spared
    <3> QED BY <1>1, <3>3, SparedCarried
  <2> QED BY <2>2, <2>3
<1>8. TableInv'
  BY <1>1, <1>2, <1>7, TableStep
<1> QED BY <1>4, <1>8 DEF FsInv

\* Inode i has its count changed as the calls that have counted links to it do.
LEMMA CountFrame ==
  ASSUME TypeOK, LinkInv, \A j \in Inums : LiveKept(j), NEW i \in Inums,
         \A j \in Inums : j # i => disk'[j] = disk[j] /\ dents'[j] = dents[j] /\ Pending(j)' = Pending(j),
         disk'[i].nlink = Cardinality(Ents(i)) + Cardinality(Pending(i)'), disk'[i].nlink <= NLINK_MAX,
         disk'[i].type # "none", DirOK(i)'
  PROVE  LinkInv'
<1>1. TreeOK' /\ \A c : Ents(c)' = Ents(c)
  BY TreeFrame
<1>2. CountOK(i)'
  BY <1>1 DEF CountOK
<1>3. ASSUME NEW j \in Inums, j # i PROVE CountOK(j)' /\ DirOK(j)'
  <2>1. CountOK(j) /\ DirOK(j) /\ disk'[j] = disk[j] /\ dents'[j] = dents[j] /\ Pending(j)' = Pending(j) /\ Ents(j)' = Ents(j)
    BY <1>1, <1>3 DEF LinkInv
  <2> QED BY <2>1 DEF CountOK, DirOK
<1> QED BY <1>1, <1>2, <1>3 DEF LinkInv


\* Inode i is written with the links and, if it is a directory, the entries it had.
LEMMA SameLinks ==
  ASSUME TypeOK, LinkInv, PendingKept, NEW i \in Inums, \A j \in Inums : j # i => disk'[j] = disk[j] /\ dents'[j] = dents[j],
         disk'[i].type = disk[i].type, disk'[i].nlink = disk[i].nlink, disk[i].type # "none",
         disk[i].type = "dir" => disk'[i].size = disk[i].size /\ dents'[i] = dents[i]
  PROVE  LinkInv'
<1>1. ASSUME NEW j \in Inums PROVE LinkKept(j)
  <2>1. CountOK(j) /\ DirOK(j)
    BY DEF LinkInv
  <2>2. /\ disk'[j].type = disk[j].type /\ disk'[j].nlink = disk[j].nlink
        /\ disk[j].type = "dir" => disk'[j].size = disk[j].size /\ dents'[j] = dents[j]
        /\ disk[j].type = "none" => disk'[j] = disk[j]
    <3>1. CASE j = i
      BY <3>1
    <3>2. CASE j # i
      BY <3>2
    <3> QED BY <3>1, <3>2
  <2>3. DirOK(j)'
    BY <2>1, <2>2 DEF DirOK
  <2> QED BY <2>1, <2>2, <2>3 DEF LinkKept, CountOK
<1> QED BY <1>1, LinkFrame

\* The rest of sys_open().
LEMMA OpenLockedKeeps ==
  ASSUME FsInv, NEW p \in Procs, NEW ok \in BOOLEAN, OpenLocked(p, ok)
  PROVE  FsInv'
<1>1. boot = 0 /\ pr[p].pc = "open_locked" /\ pr[p].puts = <<>> /\ (ok => fd[p] = None) /\ UNCHANGED <<dents, cwd, boot>>
  BY DEF OpenLocked, Running
<1>2. PICK r \in CallRec, i \in Inums : r = pr[p] /\ i = r.ip
  BY <1>1, Ready DEF Shape, HasIp
<1>3. /\ TypeOK /\ TableInv /\ LinkInv /\ BlockInv /\ Shape(r) /\ p # None /\ r.put = "start" /\ r.puts = <<>> /\ r.pc = "open_locked"
      /\ cwd[p] \in Inums /\ fd[p] \in File \union {None}
  BY <1>1, <1>2, Ready
<1>4. mem[i].lock = p /\ mem[i].valid /\ mem[i].d = disk[i] /\ Held(p, i) >= 1
  <2>1. Locks(r, i)
    BY <1>2, <1>3 DEF Locks
  <2>2. mem[i].lock = p
    BY <1>1, <1>2, <1>3, <2>1 DEF TableInv, TableOK
  <2>3. Held(p, i) >= 1
    BY <1>2, <1>3, OwnHolds
  <2> QED BY <1>1, <1>3, <2>2, <2>3 DEF TableInv, TableOK
<1>5. disk[i].type # "none" /\ disk[i] \in Dinode
  BY <1>1, <1>3, <1>4, HeldTyped, DiskTypes
<1>6. PICK trunc \in BOOLEAN : trunc <=> (ok /\ r.call = "trunc" /\ disk[i].type = "file")
  BY Zenon
<1>7. PICK d, g, s, u : /\ d = (IF trunc THEN itrunc(disk[i]) ELSE disk[i])
                        /\ g = (IF ok THEN [ip |-> i, off |-> 0, writable |-> r.call # "open"] ELSE fd[p])
                        /\ u = (IF ok THEN <<>> ELSE <<i>>)
                        /\ s = [r EXCEPT !.pc = "end", !.ip = 0, !.puts = u]
  OBVIOUS
<1>8. mem' = Left(i, d, None) /\ disk' = [disk EXCEPT ![i] = d]
  BY <1>2, <1>3, <1>4, <1>6, <1>7 DEF OpenLocked, TypeOK
<1>9. /\ bitmap' = (IF trunc THEN bitmap \ Owned(disk[i]) ELSE bitmap)
      /\ panicked' = (IF trunc /\ ~(Owned(disk[i]) \subseteq bitmap) THEN "freeing free block" ELSE "no")
  BY <1>2, <1>4, <1>6 DEF OpenLocked
<1>10. fd' = [fd EXCEPT ![p] = g] /\ pr' = [pr EXCEPT ![p] = s]
  BY <1>2, <1>3, <1>7 DEF OpenLocked, TypeOK
<1>11. d \in Dinode /\ d.type = disk[i].type /\ d.nlink = disk[i].nlink /\ (disk[i].type = "dir" => d = disk[i])
  BY <1>5, <1>6, <1>7, TruncFacts
<1>12. BlockInv' /\ panicked' = "no" /\ bitmap' \subseteq Blocks
  <2>0. disk \in [Inums -> Dinode] /\ bitmap \subseteq Blocks /\ BlocksOK(disk, bitmap)
    BY <1>3 DEF TypeOK, BlockInv
  <2>1. CASE trunc
    <3>1. Owned(d) = {}
      BY <1>5, <1>7, <2>1, TruncFacts
    <3>2. BlocksOK([disk EXCEPT ![i] = d], bitmap \ Owned(disk[i])) /\ Owned(disk[i]) \subseteq bitmap
      BY <2>0, <3>1, BlocksShrink
    <3> QED BY <1>8, <1>9, <2>0, <2>1, <3>2 DEF BlockInv
  <2>2. CASE ~trunc
    <3>1. disk' = disk /\ bitmap' = bitmap
      BY <1>7, <1>8, <1>9, <2>0, <2>2
    <3> QED BY <1>9, <2>0, <2>2, <3>1 DEF BlockInv
  <2> QED BY <2>1, <2>2
<1>13. /\ s.pc = "end" /\ s.call = r.call /\ s.at = r.at /\ s.ip = 0 /\ s.dp = r.dp
       /\ s.new = r.new /\ s.puts = u /\ s.put = "start"
  BY <1>2, <1>3, <1>7 DEF CallRec
<1>14. u \in Seq(Inums) /\ Len(u) = (IF ok THEN 0 ELSE 1) /\ (~ok => u[1] = i)
  BY <1>7, OnePut
<1>15. s \in CallRec
  BY <1>7, <1>14, EmptyCall DEF CallRec, Pcs
<1>16. r.at = 0 /\ r.dp = 0 /\ i # 0
  BY <1>3, InumRange DEF Shape, HasDp
<1>17. Shape(s)
  BY <1>13, <1>14, <1>16 DEF Shape, HasDp, HasIp
<1>18. g \in File \union {None} /\ (ok => g # None /\ g.ip = i /\ fd[p] = None) /\ (~ok => g = fd[p])
  <2>1. ASSUME ok PROVE g \in File /\ g.ip = i
    BY <1>7, <2>1 DEF File
  <2>2. None \notin File
    BY FileSystemAssumption DEF File, Inums
  <2> QED BY <1>1, <1>3, <1>7, <2>1, <2>2
<1>19. Turned(p, r, cwd[p], fd[p], s, cwd[p], g, i, None, 0)
  <2>1. CASE ok
    BY <1>2, <1>3, <1>13, <1>14, <1>16, <1>18, <2>1, InumRange DEF Turned, HeldBy, One, Locks, Works, Pends, Removes
  <2>2. CASE ~ok
    BY <1>2, <1>3, <1>13, <1>14, <1>16, <1>18, <2>2, InumRange DEF Turned, HeldBy, One, Locks, Works, Pends, Removes
  <2> QED BY <2>1, <2>2
<1>20. /\ cwd' \in [Procs -> Inums] /\ fd' \in [Procs -> File \union {None}] /\ cwd'[p] = cwd[p] /\ fd'[p] = g /\ pr'[p] = s
       /\ Alone(p)
  BY <1>1, <1>3, <1>10, <1>18 DEF TypeOK, Alone
<1>21. ProcOK(p)'
  BY <1>13, <1>17, <1>20, PlainProc
<1>22. PendingKept
  BY <1>2, <1>19, <1>20, PendingSame DEF Turned
<1>23. disk'[i] = d /\ dents'[i] = dents[i] /\ \A j \in Inums : j # i => disk'[j] = disk[j] /\ dents'[j] = dents[j]
  BY <1>1, <1>3, <1>8 DEF TypeOK
<1>24. LinkInv'
  BY <1>3, <1>5, <1>11, <1>22, <1>23, SameLinks
<1>25. PICK e : e = dents[i]
  OBVIOUS
<1>26. WrittenBy(p, i, d, e, None, 0, s)
  <2>1. e \in Seq(Entry) /\ dents' = [dents EXCEPT ![i] = e]
    BY <1>1, <1>3, <1>25 DEF TypeOK
  <2>2. mem' = Written(i, d, None, 0) /\ 0 \in 0..NInodes
    BY <1>8, EmptyCall DEF Written
  <2>3. Handed(p, pr[p], cwd[p], fd[p], s, cwd'[p], fd'[p], i, None, 0)
    BY <1>2, <1>19, <1>20, TurnedHanded, Zenon
  <2>4. \A q \in Procs : q # p => cwd'[q] = cwd[q] /\ fd'[q] = fd[q]
    BY <1>20 DEF Alone
  <2> QED BY <1>4, <1>8, <1>10, <1>11, <1>15, <1>20, <2>1, <2>2, <2>3, <2>4 DEF WrittenBy
<1>27. boot' = 0
  BY <1>1
<1> QED BY <1>1, <1>12, <1>21, <1>24, <1>26, <1>27, WriteCall


LEMMA OwnedMarked ==
  ASSUME BlockInv, NEW i \in Inums
  PROVE  Owned(disk[i]) \subseteq bitmap
  BY DEF BlockInv, BlocksOK

\* filewrite() of a block.
LEMMA SysWriteKeeps ==
  ASSUME FsInv, NEW p \in Procs, SysWrite(p)
  PROVE  FsInv'
<1>1. /\ boot = 0 /\ pr[p].pc = "idle" /\ pr[p].puts = <<>> /\ UNCHANGED <<dents, boot, panicked>>
      /\ UNCHANGED <<pr, cwd>> /\ fd[p] # None /\ ilock(fd[p].ip) /\ Inode(fd[p].ip).type = "file"
  BY DEF SysWrite, Running, bootVars
<1>2. /\ TypeOK /\ TableInv /\ LinkInv /\ BlockInv /\ p # None /\ pr[p] = Idle /\ fd[p] \in File /\ Shape(pr[p])
      /\ \A j \in Inums : Inode(j) = disk[j]
  BY <1>1, Ready DEF Shape
<1>3. PICK f \in File, i \in Inums : f = fd[p] /\ i = f.ip
  BY <1>2 DEF File
<1>4. PICK m : m = bmap(disk[i], bitmap, f.off)
  OBVIOUS
<1>5. PICK d, n, g : /\ d = (IF m.addr # 0 /\ f.off + 1 > m.d.size THEN [m.d EXCEPT !.size = f.off + 1] ELSE m.d)
                     /\ n = (IF m.addr # 0 THEN f.off + 1 ELSE f.off)
                     /\ g = [f EXCEPT !.off = n]
  OBVIOUS
<1>6. /\ mem' = Left(i, d, None) /\ disk' = [disk EXCEPT ![i] = d] /\ bitmap' = m.used
      /\ fd' = [fd EXCEPT ![p].off = n] /\ disk[i].type = "file" /\ ilock(i)
  BY <1>1, <1>2, <1>3, <1>4, <1>5 DEF SysWrite, iupdate
<1>7. f.off \in Nat /\ n \in Nat /\ disk[i] \in Dinode /\ disk \in [Inums -> Dinode] /\ bitmap \subseteq Blocks
  BY <1>2, <1>5, DiskTypes DEF File, TypeOK
<1>8. Grown(disk[i], m.d, bitmap, m.used)
  <2>1. Owned(disk[i]) \subseteq bitmap
    BY <1>2, OwnedMarked
  <2>2. PICK D \in Dinode, b \in Nat : D = disk[i] /\ b = f.off
    BY <1>7
  <2>3. Grown(D, bmap(D, bitmap, b).d, bitmap, bmap(D, bitmap, b).used)
    BY <1>7, <2>1, <2>2, bmapFacts
  <2> QED BY <1>4, <2>2, <2>3, Zenon
<1>9. d \in Dinode /\ d.type = disk[i].type /\ d.nlink = disk[i].nlink /\ Owned(d) = Owned(m.d)
  <2>1. m.d \in Dinode /\ m.d.type = disk[i].type /\ m.d.nlink = disk[i].nlink
    BY <1>8 DEF Grown
  <2>2. PICK D \in Dinode, k \in Nat : D = m.d /\ k = f.off + 1
    BY <1>7, <2>1
  <2>3. d = [D EXCEPT !.size = k] \/ d = D
    BY <1>5, <2>2
  <2>4. d \in Dinode /\ d.type = D.type /\ d.nlink = D.nlink /\ d.addrs = D.addrs /\ d.ind = D.ind
    BY <2>3 DEF Dinode
  <2> QED BY <2>1, <2>2, <2>4 DEF Owned
<1>10. BlockInv' /\ bitmap' \subseteq Blocks
  <2>1. /\ Owned(disk[i]) \subseteq Owned(d) /\ Owned(d) \intersect bitmap \subseteq Owned(disk[i])
        /\ bitmap' = bitmap \union Owned(d) /\ bitmap' \subseteq Blocks
    BY <1>6, <1>8, <1>9 DEF Grown
  <2>2. BlocksOK([disk EXCEPT ![i] = d], bitmap \union Owned(d))
    BY <1>2, <1>7, <2>1, BlocksGrow DEF BlockInv
  <2> QED BY <1>6, <2>1, <2>2 DEF BlockInv
<1>11. g \in File /\ g.ip = i /\ g # None /\ f # None
  BY <1>1, <1>3, <1>5, <1>7, FileSystemAssumption DEF File, Inums
<1>12. fd' = [fd EXCEPT ![p] = g]
  BY <1>2, <1>3, <1>5, <1>6 DEF TypeOK
<1>13. Idle \in CallRec /\ pr' = [pr EXCEPT ![p] = Idle] /\ pr'[p] = Idle
  BY <1>1, <1>2, Ready DEF TypeOK
<1>14. /\ cwd' \in [Procs -> Inums] /\ fd' \in [Procs -> File \union {None}] /\ cwd'[p] = cwd[p] /\ fd'[p] = g /\ Alone(p)
  BY <1>1, <1>2, <1>11, <1>12 DEF TypeOK, Alone
<1>15. ProcOK(p)'
  BY <1>2, <1>13, PlainProc DEF Idle
<1>16. mem[i].lock = None /\ Held(p, i) >= 1
  BY <1>2, <1>3, <1>6, <1>11, OwnHolds DEF ilock
<1>17. Turned(p, Idle, cwd[p], f, Idle, cwd[p], g, i, None, 0)
  BY <1>2, <1>3, <1>11, InumRange DEF Turned, HeldBy, One, Locks, Works, Pends, Removes, Idle
<1>18. PendingKept
  BY <1>2, <1>13, <1>14, <1>17, PendingSame DEF Turned
<1>19. disk'[i] = d /\ dents'[i] = dents[i] /\ \A j \in Inums : j # i => disk'[j] = disk[j] /\ dents'[j] = dents[j]
  BY <1>1, <1>6, <1>7
<1>20. LinkInv'
  BY <1>2, <1>6, <1>9, <1>18, <1>19, SameLinks
<1>21. PICK e, s : e = dents[i] /\ s = Idle
  OBVIOUS
<1>22. WrittenBy(p, i, d, e, None, 0, s)
  <2>1. e \in Seq(Entry) /\ dents' = [dents EXCEPT ![i] = e]
    BY <1>1, <1>2, <1>21 DEF TypeOK
  <2>2. mem' = Written(i, d, None, 0) /\ 0 \in 0..NInodes
    BY <1>6, EmptyCall DEF Written
  <2>3. Handed(p, Idle, cwd[p], f, Idle, cwd[p], g, i, None, 0)
    BY <1>17, TurnedHanded, Zenon
  <2>4. Handed(p, pr[p], cwd[p], fd[p], s, cwd'[p], fd'[p], i, None, 0)
    BY <1>2, <1>3, <1>14, <1>21, <2>3
  <2>5. \A q \in Procs : q # p => cwd'[q] = cwd[q] /\ fd'[q] = fd[q]
    BY <1>14 DEF Alone
  <2>6. s \in CallRec /\ pr' = [pr EXCEPT ![p] = s]
    BY <1>13, <1>21
  <2> QED BY <1>6, <1>9, <1>14, <1>16, <2>1, <2>2, <2>4, <2>5, <2>6 DEF WrittenBy
<1>23. boot' = 0 /\ panicked' = "no"
  BY <1>1, <1>2 DEF TypeOK
<1> QED BY <1>1, <1>10, <1>15, <1>20, <1>22, <1>23, WriteCall

\* A call has counted one link less, or one more.
LEMMA PendLess ==
  ASSUME NEW p \in Procs, Alone(p), NEW i \in Inums, Pends(pr[p], i), ~Pends(pr'[p], i),
         \A j \in Inums : j # i => (Pends(pr'[p], j) <=> Pends(pr[p], j))
  PROVE  /\ Pending(i)' = Pending(i) \ {p} /\ Cardinality(Pending(i)') = Cardinality(Pending(i)) - 1
         /\ \A j \in Inums : j # i => Pending(j)' = Pending(j)
<1>1. \A j \in Inums : \A q \in Procs : q # p => (Pends(pr'[q], j) <=> Pends(pr[q], j))
  BY DEF Alone
<1>2. Pending(i)' = Pending(i) \ {p} /\ p \in Pending(i)
  BY <1>1 DEF Pending
<1>3. \A j \in Inums : j # i => Pending(j)' = Pending(j)
  BY <1>1 DEF Pending
<1>4. IsFiniteSet(Pending(i))
  BY LinkSets
<1>5. Cardinality(Pending(i) \ {p}) = Cardinality(Pending(i)) - 1
  BY <1>2, <1>4, FS_RemoveElement
<1> QED BY <1>2, <1>3, <1>5

LEMMA PendMore ==
  ASSUME NEW p \in Procs, Alone(p), NEW i \in Inums, ~Pends(pr[p], i), Pends(pr'[p], i),
         \A j \in Inums : j # i => (Pends(pr'[p], j) <=> Pends(pr[p], j))
  PROVE  /\ Pending(i)' = Pending(i) \union {p} /\ Cardinality(Pending(i)') = Cardinality(Pending(i)) + 1
         /\ \A j \in Inums : j # i => Pending(j)' = Pending(j)
<1>1. \A j \in Inums : \A q \in Procs : q # p => (Pends(pr'[q], j) <=> Pends(pr[q], j))
  BY DEF Alone
<1>2. Pending(i)' = Pending(i) \union {p} /\ p \notin Pending(i)
  BY <1>1 DEF Pending
<1>3. \A j \in Inums : j # i => Pending(j)' = Pending(j)
  BY <1>1 DEF Pending
<1>4. IsFiniteSet(Pending(i))
  BY LinkSets
<1>5. Cardinality(Pending(i) \union {p}) = Cardinality(Pending(i)) + 1
  BY <1>2, <1>4, FS_AddElement
<1> QED BY <1>2, <1>3, <1>5


\* A call takes back a link to inode i: nlink-- of sys_unlink() and of sys_link().
Dropped(p, i, d) ==
  /\ boot = 0 /\ UNCHANGED <<dents, bitmap, boot, panicked>> /\ UNCHANGED <<cwd, fd>>
  /\ pr[p].pc \in {"unlink_dec", "link_bad"} /\ pr[p].puts = <<>> /\ i = pr[p].ip /\ mem[i].lock \in {None, p}
  /\ d = [disk[i] EXCEPT !.nlink = disk[i].nlink - 1] /\ disk' = [disk EXCEPT ![i] = d] /\ mem' = Left(i, d, None)
  /\ pr' = [pr EXCEPT ![p].pc = "end", ![p].puts = <<i>>, ![p].ip = 0]

LEMMA DropLink ==
  ASSUME FsInv, NEW p \in Procs, NEW i \in Inums, NEW d, Dropped(p, i, d)
  PROVE  FsInv'
<1>0. boot = 0 /\ pr[p].puts = <<>> /\ pr[p].pc \in {"unlink_dec", "link_bad"} /\ pr[p].ip = i
  BY DEF Dropped
<1>1. PICK r \in CallRec : r = pr[p]
  BY <1>0, Ready
<1>2. /\ TypeOK /\ TableInv /\ LinkInv /\ BlockInv /\ ProcOK(p) /\ Shape(r) /\ p # None /\ r.put = "start" /\ r.puts = <<>>
      /\ r.pc \in {"unlink_dec", "link_bad"} /\ r.ip = i
  BY <1>0, <1>1, Ready
<1>3. Held(p, i) >= 1 /\ disk[i].type # "none" /\ disk[i] \in Dinode
  BY <1>0, <1>1, <1>2, OwnHolds, HeldTyped, DiskTypes
<1>4. /\ d \in Dinode /\ d.type = disk[i].type /\ d.nlink = disk[i].nlink - 1 /\ d.size = disk[i].size
      /\ d.addrs = disk[i].addrs /\ d.ind = disk[i].ind
  <2>1. PICK D \in Dinode : D = disk[i]
    BY <1>3
  <2>2. PICK n \in Int : n = D.nlink - 1
    BY DEF Dinode
  <2>3. d = [D EXCEPT !.nlink = n]
    BY <2>1, <2>2 DEF Dropped
  <2>4. d \in Dinode /\ d.type = D.type /\ d.nlink = n /\ d.size = D.size /\ d.addrs = D.addrs /\ d.ind = D.ind
    BY <2>3 DEF Dinode
  <2> QED BY <2>1, <2>2, <2>4
<1>5. Owned(d) = Owned(disk[i])
  BY <1>4 DEF Owned
<1>6. BlockInv' /\ bitmap' \subseteq Blocks /\ boot' = 0 /\ panicked' = "no"
  <2>1. disk \in [Inums -> Dinode] /\ bitmap \subseteq Blocks /\ panicked = "no"
    BY <1>2 DEF TypeOK
  <2>2. BlocksOK([disk EXCEPT ![i] = d], bitmap)
    BY <1>2, <1>5, <2>1, BlocksSame DEF BlockInv
  <2> QED BY <2>1, <2>2 DEF BlockInv, Dropped
<1>7. PICK s : s = [r EXCEPT !.pc = "end", !.puts = <<i>>, !.ip = 0]
  OBVIOUS
<1>8. pr' = [pr EXCEPT ![p] = s]
  BY <1>1, <1>2, <1>7 DEF TypeOK, Dropped
<1>9. /\ s.pc = "end" /\ s.call = r.call /\ s.at = r.at /\ s.ip = 0 /\ s.dp = r.dp
      /\ s.new = r.new /\ s.puts = <<i>> /\ s.put = "start"
  BY <1>2, <1>7 DEF CallRec
<1>10. s \in CallRec
  BY <1>7, OnePut, EmptyCall DEF CallRec, Pcs
<1>11. r.at = 0 /\ r.dp = 0 /\ i # 0
  BY <1>2, InumRange DEF Shape, HasDp
<1>12. Shape(s)
  BY <1>9, <1>11, OnePut DEF Shape, HasDp, HasIp
<1>13. pr'[p] = s /\ Alone(p)
  BY <1>2, <1>8 DEF TypeOK, Alone, Dropped
<1>14. ProcOK(p)'
  BY <1>9, <1>12, <1>13, PlainProc
<1>15. disk'[i] = d /\ dents'[i] = dents[i] /\ \A j \in Inums : j # i => disk'[j] = disk[j] /\ dents'[j] = dents[j]
  BY <1>2 DEF TypeOK, Dropped
<1>16. /\ Cardinality(Pending(i)') = Cardinality(Pending(i)) - 1
       /\ \A j \in Inums : j # i => Pending(j)' = Pending(j)
  <2>1. \A j \in Inums : j # i => (Pends(pr'[p], j) <=> Pends(pr[p], j))
    BY <1>1, <1>2, <1>9, <1>13, InumRange DEF Pends
  <2>2. Pends(pr[p], i) /\ ~Pends(pr'[p], i)
    BY <1>1, <1>2, <1>9, <1>11, <1>13 DEF Pends
  <2> QED BY <1>13, <2>1, <2>2, PendLess, Zenon
<1>17. CountOK(i) /\ DirOK(i) /\ disk[i].nlink \in Int /\ NLINK_MAX \in Nat
  BY <1>2, NlinkNat, FileSystemAssumption DEF LinkInv
<1>18. disk'[i].nlink = Cardinality(Ents(i)) + Cardinality(Pending(i)') /\ disk'[i].nlink <= NLINK_MAX
  <2>1. Cardinality(Ents(i)) \in Nat /\ Cardinality(Pending(i)) \in Nat
    BY LinkSets
  <2>2. disk[i].nlink = Cardinality(Ents(i)) + Cardinality(Pending(i)) /\ disk[i].nlink <= NLINK_MAX
    BY <1>17 DEF CountOK
  <2>3. PICK a, b, c, n : a \in Nat /\ b \in Nat /\ a = Cardinality(Ents(i)) /\ b = Cardinality(Pending(i)) /\ c = Cardinality(Pending(i)') /\ n = disk[i].nlink
    BY <2>1
  <2>4. c = b - 1 /\ n = a + b /\ n <= NLINK_MAX /\ disk'[i].nlink = n - 1
    BY <1>4, <1>15, <1>16, <2>2, <2>3
  <2> QED BY <1>17, <2>3, <2>4
<1>19. disk[i].type = "dir" => /\ r.pc = "unlink_dec" /\ disk[i].nlink = 1 /\ d.nlink = 0
                               /\ \A k \in 3..disk[i].size : dents[i][k][2] = 0
  BY <1>1, <1>2, <1>4, <1>11 DEF ProcOK
<1>20. DirOK(i)'
  <2>1. disk[i].size \in Nat
    BY <1>2, DiskTypes
  <2>2. ASSUME disk[i].type = "dir", NEW k \in 1..disk[i].size, dents[i][k][2] # 0
        PROVE  dents[i][k][1] \in {".", ".."}
    <3>1. k \in {1, 2}
      BY <1>19, <2>1, <2>2
    <3>2. dents[i][1] = <<".", i>> /\ dents[i][2][1] = ".."
      BY <1>17, <1>19, <2>2 DEF DirOK
    <3> QED BY <3>1, <3>2
  <2> QED BY <1>4, <1>15, <1>19, <2>2 DEF DirOK
<1>21. ASSUME NEW j \in Inums PROVE LiveKept(j)
  <2>1. CASE j = i
    <3>1. ~Live(i)
      <4>1. disk[i].type = "dir" => Removes(pr[p], i)
        BY <1>1, <1>2, <1>19 DEF Removes
      <4> QED BY <4>1 DEF Live, Removing
    <3>2. ~Live(i)'
      BY <1>4, <1>15, <1>19 DEF Live
    <3> QED BY <1>4, <1>15, <2>1, <3>1, <3>2 DEF LiveKept
  <2>2. CASE j # i
    <3>1. disk'[j] = disk[j] /\ dents'[j] = dents[j]
      BY <1>15, <2>2
    <3>2. \A q \in Procs : Removes(pr'[q], j) <=> Removes(pr[q], j)
      <4>1. ~Removes(pr[p], j) /\ ~Removes(pr'[p], j)
        BY <1>1, <1>2, <1>9, <1>13, <2>2 DEF Removes
      <4> QED BY <1>13, <4>1 DEF Alone
    <3>3. Live(j)' <=> Live(j)
      BY <3>1, <3>2 DEF Live, Removing
    <3> QED BY <3>1, <3>3 DEF LiveKept
  <2> QED BY <2>1, <2>2
<1>22. LinkInv'
  <2>1. disk'[i].type # "none"
    BY <1>3, <1>4, <1>15
  <2> QED BY <1>2, <1>15, <1>16, <1>18, <1>20, <1>21, <2>1, CountFrame
<1>23. PICK e : e = dents[i]
  OBVIOUS
<1>24. WrittenBy(p, i, d, e, None, 0, s)
  <2>1. e \in Seq(Entry) /\ dents' = [dents EXCEPT ![i] = e] /\ cwd' \in [Procs -> Inums] /\ fd' \in [Procs -> File \union {None}]
    BY <1>2, <1>23 DEF TypeOK, Dropped
  <2>2. mem' = Written(i, d, None, 0) /\ 0 \in 0..NInodes
    BY EmptyCall DEF Written, Dropped
  <2>3. Handed(p, r, cwd[p], fd[p], s, cwd[p], fd[p], i, None, 0)
    BY <1>2, <1>9, <1>11, InumRange, OnePut DEF Handed, HeldBy, One, Locks, Works
  <2>4. Handed(p, pr[p], cwd[p], fd[p], s, cwd'[p], fd'[p], i, None, 0)
    BY <1>1, <2>3 DEF Dropped
  <2>5. disk' = [disk EXCEPT ![i] = d] /\ mem[i].lock \in {None, p} /\ \A q \in Procs : q # p => cwd'[q] = cwd[q] /\ fd'[q] = fd[q]
    BY DEF Dropped
  <2> QED BY <1>3, <1>4, <1>8, <1>10, <2>1, <2>2, <2>4, <2>5 DEF WrittenBy
<1> QED BY <1>0, <1>6, <1>14, <1>22, <1>24, WriteCall

LEMMA UnlinkDecKeeps ==
  ASSUME FsInv, NEW p \in Procs, UnlinkDec(p)
  PROVE  FsInv'
<1>1. boot = 0 /\ pr[p].pc = "unlink_dec" /\ pr[p].puts = <<>> /\ UNCHANGED <<dents, bitmap, boot, panicked>> /\ UNCHANGED <<cwd, fd>>
  BY DEF UnlinkDec, Running, bootVars
<1>2. /\ TypeOK /\ TableInv /\ Shape(pr[p]) /\ pr[p].ip \in Inums
  BY <1>1, Ready DEF Shape, HasIp
<1>3. PICK i \in Inums : i = pr[p].ip
  BY <1>2
<1>4. mem[i].lock = p /\ mem[i].d = disk[i]
  <2>1. Locks(pr[p], i)
    BY <1>1, <1>3 DEF Locks
  <2>2. mem[i].lock = p /\ mem[i].valid
    BY <1>1, <1>2, <2>1, FileSystemAssumption DEF TableInv, TableOK
  <2> QED BY <1>1, <1>2, <2>2 DEF TableInv, TableOK
<1>5. PICK d : d = [disk[i] EXCEPT !.nlink = disk[i].nlink - 1]
  OBVIOUS
<1>6. /\ disk' = [disk EXCEPT ![i] = d] /\ mem' = Left(i, d, None)
      /\ pr' = [pr EXCEPT ![p].pc = "end", ![p].puts = <<i>>, ![p].ip = 0]
  BY <1>3, <1>4, <1>5 DEF UnlinkDec, iupdate
<1>7. Dropped(p, i, d)
  BY <1>1, <1>3, <1>4, <1>5, <1>6 DEF Dropped
<1> QED BY <1>7, DropLink

LEMMA LinkBadKeeps ==
  ASSUME FsInv, NEW p \in Procs, LinkBad(p)
  PROVE  FsInv'
<1>1. boot = 0 /\ pr[p].pc = "link_bad" /\ pr[p].puts = <<>> /\ UNCHANGED <<dents, bitmap, boot, panicked>> /\ UNCHANGED <<cwd, fd>>
  BY DEF LinkBad, Running, bootVars
<1>2. /\ TypeOK /\ TableInv /\ Shape(pr[p]) /\ pr[p].ip \in Inums
  BY <1>1, Ready DEF Shape, HasIp
<1>3. PICK i \in Inums : i = pr[p].ip
  BY <1>2
<1>4. mem[i].lock = None /\ Inode(i) = disk[i]
  BY <1>1, <1>2, <1>3, InodeOnDisk DEF LinkBad, ilock
<1>5. PICK d : d = [disk[i] EXCEPT !.nlink = disk[i].nlink - 1]
  OBVIOUS
<1>6. /\ disk' = [disk EXCEPT ![i] = d] /\ mem' = Left(i, d, None)
      /\ pr' = [pr EXCEPT ![p].pc = "end", ![p].puts = <<i>>, ![p].ip = 0]
  BY <1>3, <1>4, <1>5 DEF LinkBad, iupdate
<1>7. Dropped(p, i, d)
  BY <1>1, <1>3, <1>4, <1>5, <1>6 DEF Dropped
<1> QED BY <1>7, DropLink


\* sys_link() counts the link in advance.
LEMMA LinkIpKeeps ==
  ASSUME FsInv, NEW p \in Procs, LinkIp(p)
  PROVE  FsInv'
<1>1. boot = 0 /\ pr[p].pc = "link_ip" /\ pr[p].puts = <<>> /\ UNCHANGED <<dents, bitmap, boot, panicked>> /\ UNCHANGED <<cwd, fd>>
      /\ ilock(pr[p].ip) /\ Running(p, "link_ip")
  BY DEF LinkIp, Running, bootVars
<1>2. PICK r \in CallRec, i \in Inums : r = pr[p] /\ i = r.ip
  BY <1>1, Ready DEF Shape, HasIp
<1>3. /\ TypeOK /\ TableInv /\ LinkInv /\ BlockInv /\ ProcOK(p) /\ Shape(r) /\ p # None /\ r.put = "start" /\ r.puts = <<>> /\ r.pc = "link_ip"
      /\ cwd[p] \in Inums
  BY <1>1, <1>2, Ready
<1>4. Held(p, i) >= 1 /\ mem[i].lock = None /\ Inode(i) = disk[i] /\ i # 0
  BY <1>1, <1>2, AtLock
<1>5. CASE LinkRefused(Inode(pr[p].ip))
  <2>1. /\ mem' = Left(pr[p].ip, Inode(pr[p].ip), None) /\ disk' = disk
        /\ pr' = [pr EXCEPT ![p].pc = "end", ![p].puts = <<pr[p].ip>>, ![p].ip = 0]
    BY <1>5 DEF LinkIp
  <2>2. UNCHANGED <<disk, dents, bitmap, boot, panicked>> /\ UNCHANGED <<cwd, fd>>
    BY <1>1, <2>1
  <2> QED BY <1>1, <2>1, <2>2, LinkRefuses
<1>6. CASE ~LinkRefused(Inode(pr[p].ip))
  <2>1. disk[i].type # "dir" /\ ~(disk[i].nlink >= NLINK_MAX) /\ disk[i].type # "none" /\ disk[i] \in Dinode /\ disk[i].nlink \in Int /\ NLINK_MAX \in Nat
    BY <1>1, <1>2, <1>3, <1>4, <1>6, HeldTyped, DiskTypes, FileSystemAssumption DEF LinkRefused
  <2>2. PICK d, x, t : d = [disk[i] EXCEPT !.nlink = disk[i].nlink + 1] /\ x = r.new[1] /\ t = From(p, x)
    OBVIOUS
  <2>3. PICK s : s = [r EXCEPT !.pc = "walk", !.at = t, !.path = x.elems, !.new = <<>>]
    OBVIOUS
  <2>4. disk' = [disk EXCEPT ![i] = d] /\ mem' = iget(Left(i, d, None), t) /\ pr' = [pr EXCEPT ![p] = s]
    BY <1>2, <1>3, <1>4, <1>6, <2>2, <2>3 DEF LinkIp, iupdate, TypeOK
  <2>5. /\ d \in Dinode /\ d.type = disk[i].type /\ d.nlink = disk[i].nlink + 1 /\ d.size = disk[i].size
        /\ d.addrs = disk[i].addrs /\ d.ind = disk[i].ind
    <3>0. PICK D \in Dinode : D = disk[i]
      BY <2>1
    <3>1. PICK n \in Int : n = D.nlink + 1
      BY DEF Dinode
    <3>2. d = [D EXCEPT !.nlink = n]
      BY <2>2, <3>0, <3>1
    <3>3. d \in Dinode /\ d.type = D.type /\ d.nlink = n /\ d.size = D.size /\ d.addrs = D.addrs /\ d.ind = D.ind
      BY <3>2 DEF Dinode
    <3> QED BY <3>0, <3>1, <3>3
  <2>6. Owned(d) = Owned(disk[i])
    BY <2>5 DEF Owned
  <2>7. BlockInv' /\ bitmap' \subseteq Blocks /\ boot' = 0 /\ panicked' = "no"
    <3>1. disk \in [Inums -> Dinode] /\ bitmap \subseteq Blocks /\ panicked = "no"
      BY <1>3 DEF TypeOK
    <3>2. BlocksOK([disk EXCEPT ![i] = d], bitmap)
      BY <1>3, <2>6, <3>1, BlocksSame DEF BlockInv
    <3> QED BY <1>1, <2>4, <3>1, <3>2 DEF BlockInv
  <2>8. x \in Path /\ x.elems \in Seq(Names) /\ x.abs \in BOOLEAN
    <3>1. r.new \in Seq(Path) /\ Len(r.new) = 1
      BY <1>3 DEF Shape, CallRec
    <3>2. x \in Path
      BY <2>2, <3>1
    <3> QED BY <3>2 DEF Path
  <2>9. t \in Inums /\ t # 0 /\ t \in 0..NInodes /\ 0 \in 0..NInodes
    BY <1>3, <2>2, InumRange, EmptyCall, FileSystemAssumption DEF From, ROOTINO, Inums
  <2>10. disk[t].type # "none" /\ (Held(p, t) >= 1 \/ disk[t].nlink >= 1)
    <3>1. CASE t = ROOTINO
      BY <1>3, <2>9, <3>1, NlinkNat DEF LinkInv, TreeOK, Live
    <3>2. CASE t # ROOTINO
      <4>1. t = cwd[p]
        BY <2>2, <3>2 DEF From
      <4>2. Held(p, t) >= 1
        BY <1>2, <1>3, <2>9, <4>1, OwnHolds
      <4> QED BY <1>1, <1>3, <2>9, <4>2, HeldTyped
    <3> QED BY <3>1, <3>2
  <2>11. /\ s.pc = "walk" /\ s.call = r.call /\ s.at = t /\ s.ip = i /\ s.dp = r.dp
         /\ s.new = <<>> /\ s.puts = <<>> /\ s.put = "start"
    BY <1>2, <1>3, <2>3 DEF CallRec
  <2>12. s \in CallRec
    BY <2>3, <2>8, <2>9, EmptyCall DEF CallRec, Pcs
  <2>13. r.at = 0 /\ r.dp = 0 /\ r.call = "link"
    BY <1>3 DEF Shape, HasDp
  <2>14. Shape(s)
    BY <1>4, <2>9, <2>11, <2>13 DEF Shape, HasDp, HasIp, Calls
  <2>15. pr'[p] = s /\ Alone(p)
    BY <1>1, <1>3, <2>4 DEF TypeOK, Alone
  <2>16. disk'[i] = d /\ dents'[i] = dents[i] /\ \A j \in Inums : j # i => disk'[j] = disk[j] /\ dents'[j] = dents[j]
    BY <1>1, <1>3, <2>4 DEF TypeOK
  <2>17. ProcOK(p)'
    BY <2>1, <2>5, <2>11, <2>14, <2>15, <2>16, PlainProc
  <2>18. /\ Cardinality(Pending(i)') = Cardinality(Pending(i)) + 1
         /\ \A j \in Inums : j # i => Pending(j)' = Pending(j)
    <3>1. \A j \in Inums : j # i => (Pends(pr'[p], j) <=> Pends(pr[p], j))
      BY <1>2, <1>3, <2>11, <2>15 DEF Pends
    <3>2. ~Pends(pr[p], i) /\ Pends(pr'[p], i)
      BY <1>2, <1>3, <2>11, <2>15 DEF Pends
    <3> QED BY <2>15, <3>1, <3>2, PendMore, Zenon
  <2>19. disk'[i].nlink = Cardinality(Ents(i)) + Cardinality(Pending(i)') /\ disk'[i].nlink <= NLINK_MAX
    <3>1. PICK a \in Nat, b \in Nat, c, n \in Int : a = Cardinality(Ents(i)) /\ b = Cardinality(Pending(i)) /\ c = Cardinality(Pending(i)') /\ n = disk[i].nlink
      BY <2>1, LinkSets
    <3>2. c = b + 1 /\ n = a + b /\ disk'[i].nlink = n + 1
      BY <1>3, <2>5, <2>16, <2>18, <3>1 DEF LinkInv, CountOK
    <3> QED BY <2>1, <3>1, <3>2
  <2>20. DirOK(i)' /\ disk'[i].type # "none"
    BY <2>1, <2>5, <2>16 DEF DirOK
  <2>21. ASSUME NEW j \in Inums PROVE LiveKept(j)
    <3>1. \A q \in Procs : Removes(pr'[q], j) <=> Removes(pr[q], j)
      <4>1. ~Removes(pr[p], j) /\ ~Removes(pr'[p], j)
        BY <1>2, <1>3, <2>11, <2>15 DEF Removes
      <4> QED BY <2>15, <4>1 DEF Alone
    <3>2. CASE j = i
      BY <2>1, <2>5, <2>16, <3>2 DEF LiveKept, Live
    <3>3. CASE j # i
      <4>1. disk'[j] = disk[j] /\ dents'[j] = dents[j]
        BY <2>16, <3>3
      <4>2. Live(j)' <=> Live(j)
        BY <3>1, <4>1 DEF Live, Removing
      <4> QED BY <4>1, <4>2 DEF LiveKept
    <3> QED BY <3>2, <3>3
  <2>22. LinkInv'
    BY <1>3, <2>16, <2>18, <2>19, <2>20, <2>21, CountFrame
  <2>23. PICK e : e = dents[i]
    OBVIOUS
  <2>24. WrittenBy(p, i, d, e, None, t, s)
    <3>1. e \in Seq(Entry) /\ dents' = [dents EXCEPT ![i] = e] /\ cwd' \in [Procs -> Inums] /\ fd' \in [Procs -> File \union {None}]
      BY <1>1, <1>3, <2>23 DEF TypeOK
    <3>2. mem' = Written(i, d, None, t)
      BY <2>4, <2>9 DEF Written
    <3>3. Handed(p, r, cwd[p], fd[p], s, cwd[p], fd[p], i, None, t)
      BY <1>2, <1>3, <1>4, <2>9, <2>11, <2>13, InumRange DEF Handed, HeldBy, One, Locks, Works
    <3>4. Handed(p, pr[p], cwd[p], fd[p], s, cwd'[p], fd'[p], i, None, t)
      BY <1>1, <1>2, <3>3
    <3>5. \A q \in Procs : q # p => cwd'[q] = cwd[q] /\ fd'[q] = fd[q]
      BY <1>1
    <3> QED BY <1>4, <2>4, <2>5, <2>9, <2>10, <2>12, <3>1, <3>2, <3>4, <3>5 DEF WrittenBy
  <2> QED BY <1>1, <2>7, <2>17, <2>22, <2>24, WriteCall
<1> QED BY <1>5, <1>6


-----------------------------------------------------------------------------
(* Entries come and go.                                                     *)

\* Live directory i has a new entry for inode c at place k, under name n; if c is a
\* directory it becomes live with i as its parent.
NewEntry(i, k, n, c) ==
  /\ i \in Inums /\ c \in Inums /\ i # c /\ Live(i) /\ Live(i)' /\ ~Live(c) /\ n \notin {".", ".."}
  /\ Added(dents[i], dents'[i], k, <<n, c>>) /\ disk'[i].size = Len(dents'[i])
  /\ \A j \in Inums : disk'[j].type = disk[j].type
  /\ \A j \in Inums \ {i, c} : disk'[j] = disk[j] /\ dents'[j] = dents[j] /\ (Live(j)' <=> Live(j))
  /\ disk[c].type # "none"
  /\ disk[c].type = "dir" => /\ disk[c].nlink = 0 /\ Live(c)' /\ disk'[c].size = 2 /\ Len(dents'[c]) = 2
                             /\ dents'[c][1] = <<".", c>> /\ dents'[c][2] = <<"..", i>>

LEMMA EntryPlace ==
  ASSUME TypeOK, LinkInv, NEW i, NEW k, NEW n, NEW c, NewEntry(i, k, n, c)
  PROVE  /\ k \in Places /\ k \in Nat /\ k >= 3 /\ disk[i].size \in Nat /\ disk'[i].size \in Nat /\ k <= disk'[i].size
         /\ disk[i].size >= 2 /\ disk'[i].size >= 2 /\ disk'[i].size <= MAXFILE * Dirents
         /\ \A b \in Nat : b # k => (b <= disk'[i].size <=> b <= disk[i].size)
         /\ \A b \in 1..disk[i].size : b # k => dents'[i][b] = dents[i][b]
         /\ dents'[i][k][1] = n /\ dents'[i][k][2] = c /\ (k <= disk[i].size => dents[i][k][2] = 0)
         /\ dents[i][1] = <<".", i>> /\ dents'[i][1] = dents[i][1] /\ dents'[i][2] = dents[i][2]
<1>1. /\ i \in Inums /\ c \in Inums /\ Live(i) /\ Added(dents[i], dents'[i], k, <<n, c>>) /\ disk'[i].size = Len(dents'[i])
  BY DEF NewEntry
<1>2. /\ disk[i].size = Len(dents[i]) /\ disk[i].size >= 2 /\ disk[i].size <= MAXFILE * Dirents /\ disk[i].size \in Nat
      /\ dents[i][1] = <<".", i>> /\ dents[i][2][2] # 0
  BY <1>1, DiskTypes DEF LinkInv, DirOK, Live
<1>3. MAXFILE * Dirents \in Nat /\ i # 0
  BY <1>1, PlacesFinite, InumRange
<1>4. PICK N, f, g : N \in Nat /\ N = disk[i].size /\ f = dents[i] /\ g = dents'[i]
  BY <1>2
<1>5. /\ k \in Places /\ k <= N + 1 /\ Len(g) = (IF k > N THEN k ELSE N)
      /\ g[k] = <<n, c>> /\ (\A l \in 1..N : l # k => g[l] = f[l]) /\ (k <= N => f[k][2] = 0)
  BY <1>1, <1>2, <1>4 DEF Added
<1>6. k \in Nat /\ k >= 1 /\ k <= MAXFILE * Dirents
  BY <1>3, <1>5 DEF Places
<1>7. k # 1 /\ k # 2
  BY <1>2, <1>3, <1>4, <1>5
<1>8. k >= 3
  BY <1>6, <1>7
<1>9. g[k][1] = n /\ g[k][2] = c /\ g[1] = f[1] /\ g[2] = f[2]
  BY <1>2, <1>4, <1>5, <1>8
<1>10. PICK M : M = disk'[i].size
  OBVIOUS
<1>11. M = (IF k > N THEN k ELSE N)
  BY <1>1, <1>4, <1>5, <1>10
<1>12. /\ M \in Nat /\ k <= M /\ M >= 2 /\ M <= MAXFILE * Dirents
       /\ \A b \in Nat : b # k => (b <= M <=> b <= N)
  BY <1>2, <1>3, <1>4, <1>5, <1>6, <1>8, <1>11
<1> QED BY <1>2, <1>4, <1>5, <1>6, <1>8, <1>9, <1>10, <1>12

\* The entries that count as links, afterwards.
LEMMA EntryEnts ==
  ASSUME TypeOK, LinkInv, NEW i, NEW k, NEW n, NEW c, NewEntry(i, k, n, c)
  PROVE  /\ <<i, k>> \notin Ents(c) /\ Ents(c)' = Ents(c) \union {<<i, k>>}
         /\ <<c, 2>> \notin Ents(i) /\ Ents(i)' = IF disk[c].type = "dir" THEN Ents(i) \union {<<c, 2>>} ELSE Ents(i)
         /\ \A z \in Inums \ {i, c} : Ents(z)' = Ents(z)
<1>1. /\ k \in Places /\ k \in Nat /\ k >= 3 /\ disk[i].size \in Nat /\ disk'[i].size \in Nat /\ k <= disk'[i].size
      /\ \A b \in Nat : b # k => (b <= disk'[i].size <=> b <= disk[i].size)
      /\ \A b \in 1..disk[i].size : b # k => dents'[i][b] = dents[i][b]
      /\ dents'[i][k][1] = n /\ dents'[i][k][2] = c /\ (k <= disk[i].size => dents[i][k][2] = 0)
  BY EntryPlace
<1>2. /\ i \in Inums /\ c \in Inums /\ i # c /\ Live(i) /\ Live(i)' /\ ~Live(c) /\ n \notin {".", ".."} /\ 0 \notin Inums
      /\ \A j \in Inums \ {i, c} : disk'[j] = disk[j] /\ dents'[j] = dents[j] /\ (Live(j)' <=> Live(j))
  BY InumRange DEF NewEntry
<1>3. ASSUME NEW z \in Inums, NEW b \in Places PROVE <<i, b>> \in Ents(z)' <=> <<i, b>> \in Ents(z) \/ (b = k /\ z = c)
  <2>0. b \in Nat /\ b >= 1
    BY PlacesFinite DEF Places
  <2>1. <<i, b>> \in Ents(z)' <=> b <= disk'[i].size /\ dents'[i][b][1] # "." /\ dents'[i][b][2] = z
    BY <1>2, EntsIs
  <2>2. <<i, b>> \in Ents(z) <=> b <= disk[i].size /\ dents[i][b][1] # "." /\ dents[i][b][2] = z
    BY <1>2, EntsIs
  <2>3. CASE b = k
    BY <1>1, <1>2, <2>1, <2>2, <2>3
  <2>4. CASE b # k
    BY <1>1, <2>0, <2>1, <2>2, <2>4
  <2> QED BY <2>3, <2>4
<1>4. ASSUME NEW z \in Inums, NEW b \in Places PROVE <<c, b>> \notin Ents(z) /\ (<<c, b>> \in Ents(z)' <=> disk[c].type = "dir" /\ b = 2 /\ z = i)
  <2>0. b \in Nat /\ b >= 1
    BY PlacesFinite DEF Places
  <2>1. <<c, b>> \in Ents(z)' <=> Live(c)' /\ b <= disk'[c].size /\ dents'[c][b][1] # "." /\ dents'[c][b][2] = z
    BY <1>2, EntsIs
  <2>2. <<c, b>> \notin Ents(z)
    BY <1>2, EntsIs
  <2>3. CASE disk[c].type = "dir"
    <3>1. /\ Live(c)' /\ disk'[c].size = 2 /\ dents'[c][1][1] = "." /\ dents'[c][2][1] = ".." /\ dents'[c][2][2] = i
      BY <2>3 DEF NewEntry
    <3>2. b <= 2 => b = 1 \/ b = 2
      BY <2>0
    <3> QED BY <2>0, <2>1, <2>2, <2>3, <3>1, <3>2
  <2>4. CASE disk[c].type # "dir"
    <3>1. ~Live(c)'
      BY <1>2, <2>4 DEF NewEntry, Live
    <3> QED BY <2>1, <2>2, <2>4, <3>1
  <2> QED BY <2>3, <2>4
<1>5. ASSUME NEW z \in Inums, NEW a \in Inums \ {i, c}, NEW b \in Places PROVE <<a, b>> \in Ents(z)' <=> <<a, b>> \in Ents(z)
  BY <1>2, EntsIs
<1>6. \A z : Ents(z) \subseteq Inums \X Places /\ Ents(z)' \subseteq Inums \X Places
  BY EntsIs
<1>7. 2 \in Places
  BY <1>1, PlacesFinite DEF Places
<1>8. ASSUME NEW z \in Inums, NEW x \in Inums \X Places
      PROVE  x \in Ents(z)' <=> x \in Ents(z) \/ (x = <<i, k>> /\ z = c) \/ (disk[c].type = "dir" /\ x = <<c, 2>> /\ z = i)
  <2>1. PICK a \in Inums, b \in Places : x = <<a, b>>
    OBVIOUS
  <2>2. CASE a = i
    BY <1>2, <1>3, <2>1, <2>2
  <2>3. CASE a = c
    BY <1>2, <1>4, <2>1, <2>3
  <2>4. CASE a \notin {i, c}
    BY <1>5, <2>1, <2>4
  <2> QED BY <2>2, <2>3, <2>4
<1>9. <<i, k>> \in Inums \X Places /\ <<c, 2>> \in Inums \X Places
  BY <1>1, <1>2, <1>7
<1>10. Ents(c)' = Ents(c) \union {<<i, k>>}
  BY <1>2, <1>6, <1>8, <1>9
<1>11. <<i, k>> \notin Ents(c)
  BY <1>1, <1>2, EntsIs
<1>12. <<c, 2>> \notin Ents(i)
  BY <1>2, <1>4, <1>7
<1>13. disk[c].type = "dir" => Ents(i)' = Ents(i) \union {<<c, 2>>}
  BY <1>2, <1>6, <1>8, <1>9
<1>14. disk[c].type # "dir" => Ents(i)' = Ents(i)
  BY <1>2, <1>6, <1>8
<1>15. \A z \in Inums \ {i, c} : Ents(z)' = Ents(z)
  BY <1>2, <1>6, <1>8
<1> QED BY <1>10, <1>11, <1>12, <1>13, <1>14, <1>15


LEMMA EntryTree ==
  ASSUME TypeOK, LinkInv, NEW i, NEW k, NEW n, NEW c, NewEntry(i, k, n, c)
  PROVE  TreeOK'
<1>1. /\ k \in Places /\ k \in Nat /\ k >= 3 /\ disk[i].size \in Nat /\ disk'[i].size \in Nat /\ k <= disk'[i].size
      /\ \A b \in Nat : b # k => (b <= disk'[i].size <=> b <= disk[i].size)
      /\ \A b \in 1..disk[i].size : b # k => dents'[i][b] = dents[i][b]
      /\ dents'[i][k][2] = c /\ (k <= disk[i].size => dents[i][k][2] = 0)
      /\ dents'[i][2] = dents[i][2]
  BY EntryPlace
<1>2. /\ i \in Inums /\ c \in Inums /\ i # c /\ Live(i) /\ Live(i)' /\ ~Live(c) /\ 0 \notin Inums
      /\ \A j \in Inums \ {i, c} : disk'[j] = disk[j] /\ dents'[j] = dents[j] /\ (Live(j)' <=> Live(j))
      /\ \A j \in Inums : disk'[j].type = disk[j].type
  BY InumRange DEF NewEntry
<1>3. disk[c].type = "dir" => disk[c].nlink = 0 /\ Live(c)' /\ disk'[c].size = 2 /\ dents'[c][2][2] = i
  BY DEF NewEntry
<1>4. disk[c].type # "dir" => ~Live(c)'
  BY <1>2 DEF Live
<1>5. \A j \in Inums \ {c} : (Live(j)' <=> Live(j)) /\ dents'[j][2] = dents[j][2]
  BY <1>1, <1>2
<1>6. ASSUME NEW a \in Inums, NEW b \in Places, NEW z \in Inums
      PROVE  Child(a, b, z)' <=> Child(a, b, z) \/ (a = i /\ b = k /\ z = c)
  <2>0. b \in Nat
    BY PlacesFinite DEF Places
  <2>1. CASE a = i
    <3>1. CASE b = k
      BY <1>1, <1>2, <2>0, <2>1, <3>1 DEF Child
    <3>2. CASE b # k
      BY <1>1, <1>2, <2>0, <2>1, <3>2 DEF Child
    <3> QED BY <3>1, <3>2
  <2>2. CASE a = c
    <3>1. ~(Live(c)' /\ b \in 3..disk'[c].size)
      BY <1>3, <1>4, <2>0
    <3> QED BY <1>2, <2>2, <3>1 DEF Child
  <2>3. CASE a \notin {i, c}
    BY <1>2, <2>3 DEF Child
  <2> QED BY <2>1, <2>2, <2>3
<1>7. ASSUME NEW a \in Inums, NEW b \in Places, NEW z \in Inums, Child(a, b, z)
      PROVE  disk[z].nlink >= 1
  <2>1. Live(a) /\ b \in 1..disk[a].size /\ dents[a][b][2] = z /\ z # 0
    BY <1>2, <1>7, DiskTypes DEF Child, Places
  <2> QED BY <2>1, Named
<1>8. ROOTINO \in Inums /\ Live(ROOTINO) /\ dents[ROOTINO][2][2] = ROOTINO
  BY FileSystemAssumption DEF LinkInv, TreeOK, ROOTINO, Inums
<1>9. ROOTINO # c
  BY <1>2, <1>8
<1>10. Live(ROOTINO)' /\ dents'[ROOTINO][2][2] = ROOTINO
  BY <1>5, <1>8, <1>9
<1>11. ASSUME NEW a \in Inums, NEW z \in Inums, NEW b \in Places, Child(a, b, z)', disk'[z].type = "dir"
       PROVE  z # ROOTINO /\ Live(z)' /\ dents'[z][2][2] = a /\ \A l \in Places : Child(a, l, z)' => l = b
  <2>1. disk[z].type = "dir"
    BY <1>2, <1>11
  <2>2. CASE Child(a, b, z)
    <3>1. z # c
      BY <1>2, <1>3, <1>7, <2>1, <2>2
    <3>2. z # ROOTINO /\ Live(z) /\ dents[z][2][2] = a /\ \A l \in Places : Child(a, l, z) => l = b
      BY <2>1, <2>2 DEF LinkInv, TreeOK
    <3> QED BY <1>5, <1>6, <3>1, <3>2
  <2>3. CASE a = i /\ b = k /\ z = c
    <3>1. \A l \in Places : ~Child(i, l, c)
      BY <1>2, <1>3, <1>7, <2>1, <2>3
    <3> QED BY <1>2, <1>3, <1>6, <1>9, <2>1, <2>3, <3>1
  <2> QED BY <1>6, <1>11, <2>2, <2>3
<1>12. ASSUME NEW z \in Inums \ {ROOTINO}, Live(z)' PROVE \E b \in Places : Child(dents[z][2][2], b, z)'
  <2>1. CASE z = c
    <3>1. PICK a \in Inums : a = dents'[z][2][2] /\ a = i
      BY <1>2, <1>3, <1>4, <1>12, <2>1
    <3>2. Child(a, k, z)'
      BY <1>1, <1>2, <1>6, <2>1, <3>1
    <3> QED BY <1>1, <3>1, <3>2
  <2>2. CASE z # c
    <3>1. Live(z) /\ dents'[z][2] = dents[z][2]
      BY <1>5, <1>12, <2>2
    <3>2. dents[z][2][2] \in Inums
      <4>1. 2 \in 1..disk[z].size /\ dents[z][2][2] # 0
        BY <3>1, DiskTypes DEF LinkInv, DirOK, Live
      <4> QED BY <3>1, <4>1, Named
    <3>3. PICK b \in Places : Child(dents[z][2][2], b, z)
      BY <3>1 DEF LinkInv, TreeOK
    <3>4. PICK a \in Inums : a = dents[z][2][2] /\ a = dents'[z][2][2]
      BY <3>1, <3>2
    <3>5. Child(a, b, z)'
      BY <1>6, <3>3, <3>4
    <3> QED BY <3>4, <3>5
  <2> QED BY <2>1, <2>2
<1> QED BY <1>10, <1>11, <1>12 DEF TreeOK

\* The counts go with the entries.
NewCounts(i, c) ==
  /\ disk'[c].nlink = Cardinality(Ents(c)) + 1 + Cardinality(Pending(c)') /\ disk'[c].nlink <= NLINK_MAX
  /\ disk'[i].nlink = disk[i].nlink + One(disk[c].type = "dir") /\ disk'[i].nlink <= NLINK_MAX
  /\ \A j \in Inums \ {c} : Pending(j)' = Pending(j)

LEMMA EntryLinks ==
  ASSUME TypeOK, LinkInv, NEW i, NEW k, NEW n, NEW c, NewEntry(i, k, n, c), NewCounts(i, c)
  PROVE  LinkInv'
<1>1. /\ i \in Inums /\ c \in Inums /\ i # c /\ disk[i].type = "dir" /\ disk[c].type # "none"
      /\ Live(i) /\ Live(i)' /\ n \notin {".", ".."}
      /\ \A j \in Inums \ {i, c} : disk'[j] = disk[j] /\ dents'[j] = dents[j]
      /\ \A j \in Inums : disk'[j].type = disk[j].type
  BY DEF NewEntry, Live
<1>2. TreeOK'
  BY EntryTree
<1>3. /\ <<i, k>> \notin Ents(c) /\ Ents(c)' = Ents(c) \union {<<i, k>>}
      /\ <<c, 2>> \notin Ents(i) /\ Ents(i)' = (IF disk[c].type = "dir" THEN Ents(i) \union {<<c, 2>>} ELSE Ents(i))
      /\ \A z \in Inums \ {i, c} : Ents(z)' = Ents(z)
  BY EntryEnts
<1>4. \A z : IsFiniteSet(Ents(z)) /\ Cardinality(Ents(z)) \in Nat /\ Cardinality(Pending(z)) \in Nat /\ Cardinality(Pending(z)') \in Nat
  BY LinkSets
<1>5. Cardinality(Ents(c)') = Cardinality(Ents(c)) + 1
  BY <1>3, <1>4, FS_AddElement
<1>6. Cardinality(Ents(i)') = Cardinality(Ents(i)) + One(disk[c].type = "dir")
  <2>1. CASE disk[c].type = "dir"
    <3>1. Cardinality(Ents(i) \union {<<c, 2>>}) = Cardinality(Ents(i)) + 1
      BY <1>3, <1>4, FS_AddElement
    <3> QED BY <1>3, <2>1, <3>1 DEF One
  <2>2. CASE disk[c].type # "dir"
    BY <1>3, <1>4, <2>2 DEF One
  <2> QED BY <2>1, <2>2
<1>7. CountOK(c)'
  <2>1. disk'[c].nlink = Cardinality(Ents(c)') + Cardinality(Pending(c)')
    BY <1>4, <1>5 DEF NewCounts
  <2> QED BY <1>1, <2>1 DEF CountOK, NewCounts
<1>8. CountOK(i)'
  <2>1. PICK a, b, e, h : a \in Nat /\ b \in Nat /\ e \in Nat /\ a = Cardinality(Ents(i)) /\ b = Cardinality(Pending(i)) /\ e = One(disk[c].type = "dir") /\ h = Cardinality(Ents(i)')
    BY <1>4 DEF One
  <2>2. disk[i].nlink = a + b /\ disk'[i].nlink = disk[i].nlink + e /\ h = a + e /\ Pending(i)' = Pending(i)
    BY <1>1, <1>6, <2>1 DEF LinkInv, CountOK, NewCounts
  <2>3. disk'[i].nlink = h + b
    BY <2>1, <2>2
  <2>4. disk'[i].nlink = Cardinality(Ents(i)') + Cardinality(Pending(i)')
    BY <2>1, <2>2, <2>3
  <2> QED BY <1>1, <2>4 DEF CountOK, NewCounts
<1>9. ASSUME NEW j \in Inums \ {i, c} PROVE CountOK(j)' /\ DirOK(j)'
  <2>1. CountOK(j) /\ DirOK(j) /\ disk'[j] = disk[j] /\ dents'[j] = dents[j] /\ Pending(j)' = Pending(j) /\ Ents(j)' = Ents(j)
    BY <1>1, <1>3 DEF LinkInv, NewCounts
  <2> QED BY <2>1 DEF CountOK, DirOK
<1>10. /\ k \in Places /\ k \in Nat /\ k >= 3 /\ disk[i].size \in Nat /\ disk'[i].size \in Nat
       /\ disk[i].size >= 2 /\ disk'[i].size >= 2 /\ disk'[i].size <= MAXFILE * Dirents
       /\ \A b \in Nat : b # k => (b <= disk'[i].size <=> b <= disk[i].size)
       /\ \A b \in 1..disk[i].size : b # k => dents'[i][b] = dents[i][b]
       /\ dents'[i][k][1] = n
       /\ dents[i][1] = <<".", i>> /\ dents'[i][1] = dents[i][1] /\ dents'[i][2] = dents[i][2]
  BY EntryPlace
<1>11. DirOK(i)'
  <2>1. /\ dents[i][2][1] = ".." /\ dents[i][2][2] # 0
        /\ \A b \in 3..disk[i].size : dents[i][b][2] # 0 => dents[i][b][1] \notin {".", ".."}
    BY <1>1 DEF LinkInv, DirOK, Live
  <2>2. ASSUME NEW b \in 3..disk'[i].size, dents'[i][b][2] # 0 PROVE dents'[i][b][1] \notin {".", ".."}
    <3>1. CASE b = k
      BY <1>1, <1>10, <3>1
    <3>2. CASE b # k
      <4>1. b \in 3..disk[i].size /\ b \in 1..disk[i].size
        BY <1>10, <3>2
      <4>2. dents'[i][b] = dents[i][b]
        BY <1>10, <3>2, <4>1
      <4> QED BY <2>1, <2>2, <4>1, <4>2
    <3> QED BY <3>1, <3>2
  <2>3. disk'[i].nlink > 0 /\ disk'[i].size = Len(dents'[i])
    BY <1>1 DEF Live, NewEntry
  <2>4. disk'[i].nlink # 0
    <3>1. disk[i].nlink \in Int
      BY <1>1, DiskTypes
    <3>2. disk'[i].nlink \in Int
      BY <3>1 DEF NewCounts, One
    <3> QED BY <2>3, <3>2
  <2> QED BY <1>1, <1>10, <2>1, <2>2, <2>3, <2>4 DEF DirOK
<1>12. DirOK(c)'
  <2>1. CASE disk[c].type # "dir"
    BY <1>1, <2>1 DEF DirOK
  <2>2. CASE disk[c].type = "dir"
    <3>1. /\ disk'[c].nlink > 0 /\ disk'[c].size = 2 /\ Len(dents'[c]) = 2
          /\ dents'[c][1] = <<".", c>> /\ dents'[c][2][1] = ".." /\ dents'[c][2][2] = i
      BY <2>2 DEF NewEntry, Live
    <3>2. 2 <= MAXFILE * Dirents
      BY <1>10, PlacesFinite
    <3>3. disk'[c].nlink # 0
      <4>1. disk'[c].nlink \in Int
        BY <1>4 DEF NewCounts
      <4> QED BY <3>1, <4>1
    <3>4. 3..2 = {} /\ i # 0
      BY <1>1, InumRange
    <3> QED BY <3>1, <3>2, <3>3, <3>4 DEF DirOK
  <2> QED BY <2>1, <2>2
<1> QED BY <1>2, <1>7, <1>8, <1>9, <1>11, <1>12 DEF LinkInv


\* A name that a live directory has not is none of "." and "..".
LEMMA NotDots ==
  ASSUME TypeOK, LinkInv, NEW i \in Inums, Live(i), NEW n, Found(i, n) = {}
  PROVE  n \notin {".", ".."}
<1>1. /\ disk[i].size >= 2 /\ disk[i].size \in Nat /\ dents[i][1] = <<".", i>> /\ dents[i][2][1] = ".." /\ dents[i][2][2] # 0 /\ i # 0
  BY DiskTypes, InumRange DEF LinkInv, DirOK, Live
<1>2. 1 \in Found(i, ".") /\ 2 \in Found(i, "..")
  BY <1>1 DEF Found
<1> QED BY <1>2

\* A live directory as dirlink() starts from it, and the blocks it leaves.
LEMMA LiveView ==
  ASSUME TypeOK, LinkInv, BlockInv, NEW i \in Inums, Live(i), NEW v, NEW ok \in BOOLEAN,
         v = [ok |-> ok, used |-> bitmap, ents |-> dents[i], d |-> disk[i]]
  PROVE  DirView(v) /\ v.used = bitmap /\ v.ents = dents[i] /\ v.d = disk[i]
<1>1. disk[i] \in Dinode /\ dents[i] \in Seq(Entry) /\ bitmap \subseteq Blocks /\ Owned(disk[i]) \subseteq bitmap
  BY DiskTypes, OwnedMarked DEF TypeOK
<1>2. disk[i].size = Len(dents[i])
  BY DEF LinkInv, DirOK, Live
<1> QED BY <1>1, <1>2 DEF DirView, DirRec

LEMMA LinkedBlocks ==
  ASSUME NEW D, D \in [Inums -> Dinode], NEW B, BlocksOK(D, B), NEW i \in Inums, NEW v, NEW w, NEW e, Linked(v, w, e), v.d = D[i], v.used = B
  PROVE  BlocksOK([D EXCEPT ![i] = w.d], w.used) /\ w.used \subseteq Blocks
<1>1. PICK d, U : d = w.d /\ U = w.used
  OBVIOUS
<1>2. Owned(D[i]) \subseteq Owned(d) /\ U = B \union Owned(d) /\ Owned(d) \intersect B \subseteq Owned(D[i]) /\ U \subseteq Blocks
  BY <1>1 DEF Linked, DirView, DirRec
<1>3. BlocksOK([D EXCEPT ![i] = d], B \union Owned(d))
  BY <1>2, BlocksGrow
<1> QED BY <1>1, <1>2, <1>3

\* sys_link() makes the entry, or fails to.
Linking(p, i, c, r, v) ==
  /\ boot = 0 /\ UNCHANGED <<boot, panicked>> /\ UNCHANGED <<cwd, fd>>
  /\ r = pr[p] /\ AtDp(r, i) /\ r.pc = "link_dp" /\ c = r.ip
  /\ mem[i].lock = None /\ Held(p, i) >= 1
  /\ Live(i) /\ Found(i, r.name) = {}
  /\ v = dirlink([ok |-> TRUE, used |-> bitmap, ents |-> dents[i], d |-> disk[i]], r.name, c)
  /\ mem' = Left(i, v.d, None) /\ disk' = [disk EXCEPT ![i] = v.d]
  /\ dents' = [dents EXCEPT ![i] = v.ents] /\ bitmap' = v.used
  /\ pr' = [pr EXCEPT ![p].pc = IF v.ok THEN "end" ELSE "link_bad",
                      ![p].puts = IF v.ok THEN <<i, c>> ELSE <<i>>,
                      ![p].dp = 0, ![p].ip = IF v.ok THEN 0 ELSE @]

LinkingOK(i, c, r, v) ==
  /\ i \in Inums /\ c \in Inums /\ i # c /\ i # 0 /\ c # 0 /\ disk[c].type # "dir" /\ disk[c].type # "none" /\ disk[i].type = "dir"
  /\ r.name \in Names /\ r.name \notin {".", ".."}
  /\ v.d \in Dinode /\ v.ents \in Seq(Entry) /\ v.d.type = disk[i].type /\ v.d.nlink = disk[i].nlink
  /\ v.d.size = Len(v.ents)
  /\ ~v.ok => v.d.size = disk[i].size /\ v.ents = dents[i]
  /\ v.ok => \E k \in Places : Added(dents[i], v.ents, k, <<r.name, c>>)
  /\ BlockInv' /\ bitmap' \subseteq Blocks /\ v.ok \in BOOLEAN

LEMMA LinkingFacts ==
  ASSUME FsInv, NEW p \in Procs, NEW i, NEW c, NEW r, NEW v, Linking(p, i, c, r, v)
  PROVE  LinkingOK(i, c, r, v)
<1>1. /\ TypeOK /\ TableInv /\ LinkInv /\ BlockInv /\ ProcOK(p) /\ boot = 0 /\ AtDp(r, i) /\ r = pr[p] /\ r.pc = "link_dp" /\ c = r.ip
      /\ Live(i) /\ Found(i, r.name) = {}
  BY DEF FsInv, TableInv, Linking
<1>2. /\ r \in CallRec /\ Shape(r) /\ i \in Inums /\ r.name \in Names /\ c \in 0..NInodes /\ c # 0
  BY <1>1 DEF AtDp, CallRec, Shape, HasIp
<1>3. c \in Inums /\ i # 0 /\ disk[c].type # "dir" /\ disk[i].type = "dir"
  BY <1>1, <1>2, InumRange DEF ProcOK, Live
<1>4. disk[c].type # "none"
  <2>1. Held(p, c) >= 1
    BY <1>1, <1>2, <1>3, OwnHolds
  <2> QED BY <1>1, <1>3, <2>1, HeldTyped
<1>5. r.name \notin {".", ".."}
  BY <1>1, <1>2, NotDots
<1>6. PICK v0 : v0 = [ok |-> TRUE, used |-> bitmap, ents |-> dents[i], d |-> disk[i]]
  OBVIOUS
<1>7. DirView(v0) /\ v0.used = bitmap /\ v0.ents = dents[i] /\ v0.d = disk[i]
  BY <1>1, <1>2, <1>6, LiveView
<1>8. v = dirlink(v0, r.name, c)
  BY <1>6 DEF Linking
<1>9. Linked(v0, v, <<r.name, c>>)
  <2>1. Linked(v0, dirlink(v0, r.name, c), <<r.name, c>>)
    BY <1>2, <1>7, dirlinkFacts
  <2> QED BY <1>8, <2>1
<1>10. /\ v.d \in Dinode /\ v.ents \in Seq(Entry) /\ v.d.size = Len(v.ents) /\ v.ok \in BOOLEAN
  BY <1>9 DEF Linked, DirView, DirRec
<1>11. /\ v.d.type = disk[i].type /\ v.d.nlink = disk[i].nlink
       /\ ~v.ok => v.d.size = disk[i].size /\ v.ents = dents[i]
       /\ v.ok => \E k \in Places : Added(dents[i], v.ents, k, <<r.name, c>>)
  BY <1>7, <1>9 DEF Linked
<1>12. BlockInv' /\ bitmap' \subseteq Blocks
  <2>1. disk \in [Inums -> Dinode] /\ BlocksOK(disk, bitmap)
    BY <1>1 DEF TypeOK, BlockInv
  <2>2. BlocksOK([disk EXCEPT ![i] = v.d], v.used) /\ v.used \subseteq Blocks
    BY <1>2, <1>7, <1>9, <2>1, LinkedBlocks
  <2> QED BY <2>2 DEF BlockInv, Linking
<1> QED BY <1>2, <1>3, <1>4, <1>5, <1>10, <1>11, <1>12 DEF LinkingOK

LEMMA LinkFails ==
  ASSUME FsInv, NEW p \in Procs, NEW i, NEW c, NEW r, NEW v, Linking(p, i, c, r, v), ~v.ok
  PROVE  FsInv'
<1>1. /\ i \in Inums /\ disk[c].type # "dir" /\ disk[i].type = "dir" /\ c # i /\ c \in Inums
      /\ v.d \in Dinode /\ v.ents \in Seq(Entry) /\ v.d.type = disk[i].type /\ v.d.nlink = disk[i].nlink
      /\ v.d.size = disk[i].size /\ v.ents = dents[i]
      /\ BlockInv' /\ bitmap' \subseteq Blocks
  <2>1. LinkingOK(i, c, r, v)
    BY LinkingFacts, Zenon
  <2> QED BY <2>1 DEF LinkingOK
<1>2. /\ TypeOK /\ LinkInv /\ boot = 0 /\ AtDp(r, i) /\ r = pr[p] /\ r.pc = "link_dp" /\ c = r.ip /\ p # None
      /\ mem[i].lock = None /\ Held(p, i) >= 1 /\ UNCHANGED <<boot, panicked>> /\ UNCHANGED <<cwd, fd>>
  BY FileSystemAssumption DEF FsInv, Linking
<1>3. PICK d, e, s : d = v.d /\ e = v.ents /\ s = [r EXCEPT !.pc = IF r.pc = "link_dp" THEN "link_bad" ELSE "end", !.puts = <<i>>, !.dp = 0]
  OBVIOUS
<1>4. mem' = Left(i, d, None) /\ disk' = [disk EXCEPT ![i] = d] /\ dents' = [dents EXCEPT ![i] = e]
  BY <1>3 DEF Linking
<1>5. pr' = [pr EXCEPT ![p] = s]
  <2>1. pr' = [pr EXCEPT ![p].pc = "link_bad", ![p].puts = <<i>>, ![p].dp = 0, ![p].ip = r.ip]
    BY <1>2 DEF Linking, TypeOK
  <2>2. r \in CallRec /\ pr \in [Procs -> CallRec]
    BY <1>2 DEF TypeOK
  <2>3. pr' = [pr EXCEPT ![p] = [r EXCEPT !.pc = "link_bad", !.puts = <<i>>, !.dp = 0, !.ip = r.ip]]
    BY <1>2, <2>1, <2>2
  <2>4. s = [r EXCEPT !.pc = "link_bad", !.puts = <<i>>, !.dp = 0, !.ip = r.ip]
    BY <1>2, <1>3, <2>2 DEF CallRec
  <2> QED BY <2>3, <2>4
<1>6. GaveUp(r, i, s)
  BY <1>2, <1>3, GiveDpFacts, Zenon
<1>7. /\ s \in CallRec /\ Shape(s) /\ s.put = "start" /\ s.pc \in {"end", "link_bad"}
      /\ s.pc = "link_bad" => s.ip = r.ip
      /\ Turned(p, r, cwd[p], fd[p], s, cwd[p], fd[p], i, None, 0)
  BY <1>2, <1>6 DEF GaveUp
<1>8. pr'[p] = s /\ Alone(p)
  BY <1>2, <1>5 DEF TypeOK, Alone
<1>9. disk'[i] = d /\ dents'[i] = e /\ \A j \in Inums : j # i => disk'[j] = disk[j] /\ dents'[j] = dents[j]
  BY <1>1, <1>2, <1>4 DEF TypeOK
<1>10. ProcOK(p)'
  <2>1. s.pc = "link_bad" => disk'[s.ip].type # "dir"
    BY <1>1, <1>2, <1>7, <1>9
  <2> QED BY <1>7, <1>8, <2>1, PlainProc
<1>11. PendingKept
  BY <1>2, <1>7, <1>8, PendingSame DEF Turned
<1>12. LinkInv'
  BY <1>1, <1>2, <1>3, <1>9, <1>11, SameLinks
<1>13. WrittenBy(p, i, d, e, None, 0, s)
  <2>1. mem' = Written(i, d, None, 0) /\ 0 \in 0..NInodes /\ cwd' \in [Procs -> Inums] /\ fd' \in [Procs -> File \union {None}]
    BY <1>2, <1>4, EmptyCall DEF Written, TypeOK
  <2>2. Handed(p, pr[p], cwd[p], fd[p], s, cwd[p], fd[p], i, None, 0)
    BY <1>2, <1>7, TurnedHanded, Zenon
  <2>3. Handed(p, pr[p], cwd[p], fd[p], s, cwd'[p], fd'[p], i, None, 0) /\ \A q \in Procs : q # p => cwd'[q] = cwd[q] /\ fd'[q] = fd[q]
    BY <1>2, <2>2
  <2> QED BY <1>1, <1>2, <1>3, <1>4, <1>5, <1>7, <2>1, <2>3 DEF WrittenBy
<1>14. boot' = 0 /\ panicked' = "no"
  BY <1>2 DEF TypeOK
<1> QED BY <1>1, <1>2, <1>10, <1>12, <1>13, <1>14, WriteCall


LEMMA LinkMakes ==
  ASSUME FsInv, NEW p \in Procs, NEW i, NEW c, NEW r, NEW v, Linking(p, i, c, r, v), v.ok
  PROVE  FsInv'
<1>1. /\ i \in Inums /\ c \in Inums /\ i # c /\ i # 0 /\ c # 0 /\ disk[c].type # "dir" /\ disk[c].type # "none" /\ disk[i].type = "dir"
      /\ r.name \in Names /\ r.name \notin {".", ".."}
      /\ v.d \in Dinode /\ v.ents \in Seq(Entry) /\ v.d.type = disk[i].type /\ v.d.nlink = disk[i].nlink /\ v.d.size = Len(v.ents)
      /\ \E k \in Places : Added(dents[i], v.ents, k, <<r.name, c>>)
      /\ BlockInv' /\ bitmap' \subseteq Blocks
  <2>1. LinkingOK(i, c, r, v)
    BY LinkingFacts, Zenon
  <2> QED BY <2>1 DEF LinkingOK
<1>2. /\ TypeOK /\ LinkInv /\ boot = 0 /\ AtDp(r, i) /\ r = pr[p] /\ r.pc = "link_dp" /\ c = r.ip /\ p # None /\ Live(i)
      /\ mem[i].lock = None /\ Held(p, i) >= 1 /\ UNCHANGED <<boot, panicked>> /\ UNCHANGED <<cwd, fd>>
  BY FileSystemAssumption DEF FsInv, Linking
<1>3. PICK d, e, s : d = v.d /\ e = v.ents /\ s = [r EXCEPT !.pc = "end", !.puts = <<i, c>>, !.dp = 0, !.ip = 0]
  OBVIOUS
<1>4. mem' = Left(i, d, None) /\ disk' = [disk EXCEPT ![i] = d] /\ dents' = [dents EXCEPT ![i] = e]
  BY <1>3 DEF Linking
<1>5. pr' = [pr EXCEPT ![p] = s]
  <2>1. pr' = [pr EXCEPT ![p].pc = "end", ![p].puts = <<i, c>>, ![p].dp = 0, ![p].ip = 0]
    BY <1>2 DEF Linking, TypeOK
  <2> QED BY <1>2, <1>3, <2>1 DEF TypeOK
<1>6. r \in CallRec /\ Shape(r) /\ r.put = "start" /\ r.puts = <<>> /\ r.dp = i /\ r.at = 0
  BY <1>2 DEF AtDp, Shape
<1>7. /\ s.pc = "end" /\ s.call = r.call /\ s.at = r.at /\ s.ip = 0 /\ s.dp = 0
      /\ s.new = r.new /\ s.puts = <<i, c>> /\ s.put = "start"
  BY <1>3, <1>6 DEF CallRec
<1>8. <<i, c>> \in Seq(Inums) /\ Len(<<i, c>>) = 2 /\ <<i, c>>[1] = i /\ <<i, c>>[2] = c /\ <<i, c>> # <<>>
  BY <1>1
<1>9. s \in CallRec
  BY <1>3, <1>6, <1>8, EmptyCall DEF CallRec, Pcs
<1>10. Shape(s)
  BY <1>6, <1>7, <1>8 DEF Shape, HasDp, HasIp
<1>11. pr'[p] = s /\ Alone(p)
  BY <1>2, <1>5 DEF TypeOK, Alone
<1>12. disk'[i] = d /\ dents'[i] = e /\ \A j \in Inums : j # i => disk'[j] = disk[j] /\ dents'[j] = dents[j]
  BY <1>1, <1>2, <1>4 DEF TypeOK
<1>13. ProcOK(p)'
  BY <1>7, <1>10, <1>11, PlainProc
<1>14. \A j \in Inums : \A q \in Procs : Removes(pr'[q], j) <=> Removes(pr[q], j)
  <2>1. \A j \in Inums : ~Removes(pr[p], j) /\ ~Removes(pr'[p], j)
    BY <1>2, <1>7, <1>11 DEF Removes
  <2> QED BY <1>11, <2>1 DEF Alone
<1>15. \A j \in Inums : disk'[j].type = disk[j].type /\ (Live(j)' <=> Live(j))
  <2>1. \A j \in Inums : disk'[j].type = disk[j].type /\ disk'[j].nlink = disk[j].nlink
    BY <1>1, <1>3, <1>12
  <2> QED BY <1>14, <2>1 DEF Live, Removing
<1>16. PICK k \in Places : Added(dents[i], v.ents, k, <<r.name, c>>)
  BY <1>1
<1>17. PICK n : n = r.name
  OBVIOUS
<1>18. NewEntry(i, k, n, c)
  <2>1. Added(dents[i], dents'[i], k, <<n, c>>) /\ disk'[i].size = Len(dents'[i])
    BY <1>1, <1>3, <1>12, <1>16, <1>17
  <2>2. ~Live(c) /\ Live(i)'
    BY <1>1, <1>2, <1>15 DEF Live
  <2>3. \A j \in Inums \ {i, c} : disk'[j] = disk[j] /\ dents'[j] = dents[j] /\ (Live(j)' <=> Live(j))
    BY <1>12, <1>15
  <2> QED BY <1>1, <1>2, <1>15, <1>17, <2>1, <2>2, <2>3 DEF NewEntry
<1>19. /\ Cardinality(Pending(c)') = Cardinality(Pending(c)) - 1
       /\ \A j \in Inums : j # c => Pending(j)' = Pending(j)
  <2>1. \A j \in Inums : j # c => (Pends(pr'[p], j) <=> Pends(pr[p], j))
    BY <1>2, <1>7, <1>11 DEF Pends
  <2>2. Pends(pr[p], c) /\ ~Pends(pr'[p], c)
    BY <1>2, <1>7, <1>11 DEF Pends
  <2> QED BY <1>1, <1>11, <2>1, <2>2, PendLess, Zenon
<1>20. NewCounts(i, c)
  <2>1. PICK a, b, h : a \in Nat /\ b \in Nat /\ a = Cardinality(Ents(c)) /\ b = Cardinality(Pending(c)) /\ h = Cardinality(Pending(c)')
    BY LinkSets
  <2>2. disk[c].nlink = a + b /\ h = b - 1 /\ disk'[c].nlink = disk[c].nlink
    BY <1>1, <1>2, <1>12, <1>19, <2>1 DEF LinkInv, CountOK
  <2>3. disk'[c].nlink = a + 1 + h
    BY <2>1, <2>2
  <2>4. disk'[c].nlink <= NLINK_MAX /\ disk'[i].nlink = disk[i].nlink /\ disk'[i].nlink <= NLINK_MAX /\ disk[i].nlink \in Int
    BY <1>1, <1>2, <1>3, <1>12, <2>2, DiskTypes DEF LinkInv, CountOK
  <2>5. disk'[i].nlink = disk[i].nlink + One(disk[c].type = "dir")
    BY <1>1, <2>4 DEF One
  <2> QED BY <1>19, <2>1, <2>3, <2>4, <2>5 DEF NewCounts
<1>21. LinkInv'
  BY <1>2, <1>18, <1>20, EntryLinks
<1>22. WrittenBy(p, i, d, e, None, 0, s)
  <2>1. mem' = Written(i, d, None, 0) /\ 0 \in 0..NInodes /\ cwd' \in [Procs -> Inums] /\ fd' \in [Procs -> File \union {None}]
    BY <1>2, <1>4, EmptyCall DEF Written, TypeOK
  <2>2. Handed(p, r, cwd[p], fd[p], s, cwd[p], fd[p], i, None, 0)
    BY <1>1, <1>2, <1>6, <1>7, <1>8, InumRange DEF Handed, HeldBy, One, Locks, Works
  <2>3. Handed(p, pr[p], cwd[p], fd[p], s, cwd'[p], fd'[p], i, None, 0) /\ \A q \in Procs : q # p => cwd'[q] = cwd[q] /\ fd'[q] = fd[q]
    BY <1>2, <2>2
  <2> QED BY <1>1, <1>2, <1>3, <1>4, <1>5, <1>9, <2>1, <2>3 DEF WrittenBy
<1>23. boot' = 0 /\ panicked' = "no"
  BY <1>2 DEF TypeOK
<1> QED BY <1>1, <1>2, <1>13, <1>21, <1>22, <1>23, WriteCall

LEMMA LinkDpKeeps ==
  ASSUME FsInv, NEW p \in Procs, LinkDp(p)
  PROVE  FsInv'
<1>1. /\ Running(p, "link_dp") /\ ilock(pr[p].dp) /\ Inode(pr[p].dp).type = "dir"
      /\ UNCHANGED <<boot, panicked>> /\ UNCHANGED <<cwd, fd>>
  BY DEF LinkDp, bootVars
<1>2. PICK r, i : r = pr[p] /\ i = pr[p].dp
  OBVIOUS
<1>3. /\ boot = 0 /\ TypeOK /\ TableInv /\ LinkInv /\ ProcOK(p) /\ p # None /\ pr \in [Procs -> CallRec]
      /\ AtDp(r, i) /\ r.pc = "link_dp"
      /\ mem[i].lock = None /\ Held(p, i) >= 1 /\ Inode(i) = disk[i]
      /\ \A l : Left(i, disk[i], l) = Looked(i, l, 0)
      /\ \A l : \A t \in Inums : iget(Left(i, disk[i], l), t) = Looked(i, l, t)
  BY <1>1, <1>2, AtParent
<1>4. i \in Inums /\ disk[i].type = "dir" /\ r \in CallRec /\ r.dp = i
  BY <1>1, <1>2, <1>3 DEF AtDp
<1>5. CASE disk[i].nlink = 0
  <2>1. /\ mem' = Left(i, disk[i], None) /\ UNCHANGED <<disk, dents, bitmap>>
        /\ pr' = [pr EXCEPT ![p].pc = "link_bad", ![p].puts = <<i>>, ![p].dp = 0]
    BY <1>2, <1>3, <1>5 DEF LinkDp
  <2>2. pr' = [pr EXCEPT ![p] = [pr[p] EXCEPT !.pc = IF pr[p].pc = "link_dp" THEN "link_bad" ELSE "end", !.puts = <<i>>, !.dp = 0]]
    BY <1>2, <1>3, <2>1
  <2>3. mem' = Looked(i, None, 0) /\ UNCHANGED <<disk, dents, bitmap, boot, panicked>> /\ AtDp(pr[p], i)
    BY <1>1, <1>2, <1>3, <2>1
  <2> QED BY <1>1, <1>3, <2>2, <2>3, GiveDp
<1>6. CASE disk[i].nlink # 0
  <2>1. Live(i)
    <3>1. disk[i].nlink > 0
      BY <1>3, <1>4, <1>6, NlinkNat
    <3> QED BY <1>3, <1>4, <3>1, UnlockedLive
  <2>2. PICK t : t = dirlookup(i, r.name)
    OBVIOUS
  <2>3. /\ t = 0 <=> Found(i, r.name) = {}
        /\ t # 0 => t \in Inums /\ disk[t].nlink >= 1 /\ disk[t].type # "none"
    BY <1>3, <1>4, <2>1, <2>2, Lookup
  <2>4. CASE t # 0
    <3>1. /\ mem' = iget(Left(i, disk[i], p), t) /\ UNCHANGED <<disk, dents, bitmap>>
          /\ pr' = [pr EXCEPT ![p].pc = "drop_dp", ![p].puts = <<t>>]
      BY <1>2, <1>3, <1>6, <2>2, <2>4 DEF LinkDp
    <3>2. pr' = [pr EXCEPT ![p] = [pr[p] EXCEPT !.pc = "drop_dp", !.puts = <<t>>]]
      BY <1>3, <3>1
    <3>3. mem' = Looked(i, p, t) /\ UNCHANGED <<disk, dents, bitmap, boot, panicked>> /\ AtDp(pr[p], i) /\ pr[p].pc = "link_dp"
          /\ t \in Inums /\ disk[t].nlink >= 1 /\ disk[t].type # "none"
      BY <1>1, <1>2, <1>3, <2>3, <2>4, <3>1
    <3> QED BY <1>1, <1>3, <3>2, <3>3, LinkFinds
  <2>5. CASE t = 0
    <3>1. PICK c, v : c = r.ip /\ v = dirlink([ok |-> TRUE, used |-> bitmap, ents |-> dents[i], d |-> disk[i]], r.name, c)
      OBVIOUS
    <3>2. /\ mem' = Left(i, v.d, None) /\ disk' = [disk EXCEPT ![i] = v.d]
          /\ dents' = [dents EXCEPT ![i] = v.ents] /\ bitmap' = v.used
          /\ pr' = [pr EXCEPT ![p].pc = IF v.ok THEN "end" ELSE "link_bad",
                      ![p].puts = IF v.ok THEN <<i, c>> ELSE <<i>>,
                      ![p].dp = 0, ![p].ip = IF v.ok THEN 0 ELSE @]
      BY <1>2, <1>3, <1>6, <2>2, <2>5, <3>1 DEF LinkDp, iupdate
    <3>3. Linking(p, i, c, r, v)
      BY <1>1, <1>2, <1>3, <2>1, <2>3, <2>5, <3>1, <3>2 DEF Linking
    <3> QED BY <3>3, LinkFails, LinkMakes
  <2> QED BY <2>4, <2>5
<1> QED BY <1>5, <1>6

-----------------------------------------------------------------------------
(* create().                                                                *)

\* ialloc() of inode t for the new entry of directory i.
Allocating(p, i, t, r) ==
  /\ boot = 0 /\ UNCHANGED <<dents, bitmap, boot, panicked>> /\ UNCHANGED <<cwd, fd>>
  /\ r = pr[p] /\ AtDp(r, i) /\ r.pc = "create_dp" /\ mem[i].lock = None /\ Held(p, i) >= 1
  /\ Live(i) /\ Found(i, r.name) = {} /\ (r.call = "mkdir" => disk[i].nlink < NLINK_MAX)
  /\ t \in Inums /\ disk[t].type = "none"
  /\ disk' = [disk EXCEPT ![t] = [Blank EXCEPT !.type = TypeOf(r.call)]]
  /\ mem' = Looked(i, p, t) /\ pr' = [pr EXCEPT ![p].pc = "create_ip", ![p].ip = t]

LEMMA BlankFacts ==
  ASSUME NEW c \in {"creat", "mkdir", "mknod"}, NEW d, d = [Blank EXCEPT !.type = TypeOf(c)]
  PROVE  /\ d \in Dinode /\ d.type = TypeOf(c) /\ d.type \in {"file", "dir", "device"} /\ d.nlink = 0 /\ d.size = 0
         /\ d.addrs = <<>> /\ d.ind = <<>> /\ Owned(d) = {} /\ (d.type = "dir" <=> c = "mkdir")
<1>1. TypeOf(c) \in {"file", "dir", "device"} /\ (TypeOf(c) = "dir" <=> c = "mkdir")
  BY DEF TypeOf
<1>2. PICK y \in {"file", "dir", "device"} : y = TypeOf(c)
  BY <1>1
<1>3. d = [type |-> y, nlink |-> 0, size |-> 0, addrs |-> <<>>, ind |-> <<>>]
  BY <1>2 DEF Blank
<1>4. /\ d.type = y /\ d.nlink = 0 /\ d.size = 0 /\ d.addrs = <<>> /\ d.ind = <<>>
  BY <1>3
<1>5. d \in Dinode
  <2>1. Blank \in Dinode
    BY DEF Blank, Dinode, Types
  <2>2. PICK B \in Dinode : B = Blank
    BY <2>1
  <2>3. d = [B EXCEPT !.type = y] /\ y \in Types
    BY <1>2, <2>2 DEF Types
  <2> QED BY <2>3 DEF Dinode
<1>6. Owned(d) = {}
  BY <1>4 DEF Owned, Elements
<1> QED BY <1>1, <1>2, <1>4, <1>5, <1>6

LEMMA FreeInode ==
  ASSUME TypeOK, TableInv, LinkInv, boot = 0, NEW p \in Procs, NEW t \in Inums, disk[t].type = "none"
  PROVE  mem[t].ref = 0 /\ Held(p, t) = 0 /\ ~mem[t].valid /\ mem[t].lock = None /\ disk[t].nlink = 0 /\ Owned(disk[t]) = {}
<1>1. TableOK(t) /\ CountOK(t) /\ mem[t] \in Slot
  BY DEF TableInv, LinkInv, TypeOK
<1>2. Refs(t) \in Nat /\ Refs(t) >= Held(p, t) /\ Held(p, t) \in 0..7 /\ mem[t].ref = Refs(t)
  BY <1>1, RefsBound, HeldCounts DEF TableOK
<1>3. mem[t].ref = 0 /\ Held(p, t) = 0
  BY <1>1, <1>2 DEF TableOK
<1>4. ~mem[t].valid
  BY <1>1, <1>3 DEF TableOK
<1> QED BY <1>1, <1>3, <1>4 DEF TableOK, CountOK

LEMMA CreateAllocs ==
  ASSUME FsInv, NEW p \in Procs, NEW i, NEW t, NEW r, Allocating(p, i, t, r)
  PROVE  FsInv'
<1>1. /\ TypeOK /\ TableInv /\ LinkInv /\ BlockInv /\ boot = 0 /\ boot' = 0 /\ panicked' = "no" /\ p # None /\ UNCHANGED <<dents, bitmap, cwd, fd>>
      /\ r = pr[p] /\ AtDp(r, i) /\ r.pc = "create_dp" /\ mem[i].lock = None /\ Held(p, i) >= 1
      /\ Live(i) /\ Found(i, r.name) = {} /\ (r.call = "mkdir" => disk[i].nlink < NLINK_MAX)
      /\ t \in Inums /\ disk[t].type = "none" /\ mem' = Looked(i, p, t)
  BY FileSystemAssumption DEF FsInv, Allocating, TypeOK
<1>2. /\ r \in CallRec /\ Shape(r) /\ r.puts = <<>> /\ r.put = "start" /\ i \in Inums /\ r.dp = i /\ r.at = 0 /\ r.ip = 0
      /\ r.call \in {"creat", "mkdir", "mknod"} /\ disk[i].type = "dir" /\ disk[i].nlink > 0 /\ t # i /\ t # 0 /\ i # 0
  BY <1>1, InumRange DEF AtDp, Shape, HasDp, HasIp, Live
<1>3. PICK d, s : d = [Blank EXCEPT !.type = TypeOf(r.call)] /\ s = [r EXCEPT !.pc = "create_ip", !.ip = t]
  OBVIOUS
<1>4. /\ d \in Dinode /\ d.type \in {"file", "dir", "device"} /\ d.nlink = 0 /\ d.size = 0 /\ Owned(d) = {}
  BY <1>2, <1>3, BlankFacts
<1>5. disk' = [disk EXCEPT ![t] = d] /\ pr' = [pr EXCEPT ![p] = s]
  BY <1>1, <1>3 DEF Allocating, TypeOK
<1>6. /\ s.pc = "create_ip" /\ s.call = r.call /\ s.at = 0 /\ s.ip = t /\ s.dp = i /\ s.name = r.name
      /\ s.new = r.new /\ s.puts = <<>> /\ s.put = "start"
  BY <1>2, <1>3 DEF CallRec
<1>7. t \in 0..NInodes /\ i \in 0..NInodes /\ p \in Procs \union {None}
  BY <1>1, <1>2, InumRange
<1>8. s \in CallRec
  BY <1>2, <1>3, <1>7, EmptyCall DEF CallRec, Pcs
<1>9. Shape(s)
  BY <1>2, <1>6 DEF Shape, HasDp, HasIp
<1>10. /\ mem' \in [Inums -> Slot]
       /\ \A j \in Inums : /\ mem'[j].ref = mem[j].ref + One(j = t)
                           /\ mem'[j].valid <=> (mem[j].valid \/ j = i)
                           /\ mem'[j].d = IF j = i THEN disk[i] ELSE mem[j].d
                           /\ mem'[j].lock = IF j = i THEN p ELSE mem[j].lock
  BY <1>1, <1>7, LookedFacts
<1>11. mem[t].ref = 0 /\ Held(p, t) = 0 /\ ~mem[t].valid /\ mem[t].lock = None /\ disk[t].nlink = 0 /\ Owned(disk[t]) = {}
  BY <1>1, FreeInode
<1>12. pr'[p] = s /\ Alone(p) /\ disk'[t] = d /\ \A j \in Inums : j # t => disk'[j] = disk[j]
  BY <1>1, <1>5 DEF TypeOK, Alone
<1>13. TypeOK'
  BY <1>1, <1>4, <1>5, <1>8, <1>10 DEF TypeOK
<1>14. \A j \in Inums : /\ HeldBy(s, cwd[p], fd[p], j) = HeldBy(r, cwd[p], fd[p], j) + One(j = t)
                        /\ Locks(s, j) <=> j = i
                        /\ ~Locks(r, j) /\ ~Works(r, j) /\ (Works(s, j) <=> j = t)
                        /\ ~Pends(s, j) /\ ~Pends(r, j) /\ ~Removes(s, j) /\ ~Removes(r, j)
  BY <1>1, <1>2, <1>6, InumRange DEF HeldBy, One, Locks, Works, Pends, Removes
<1>15. \A j \in Inums : Held(p, j)' = Held(p, j) + One(j = t)
  BY <1>1, <1>12, <1>14 DEF Held
<1>16. ASSUME NEW j \in Inums PROVE Carried(p, j)
  <2>1. CASE j = t
    <3>1. mem'[j].ref = 1 /\ Held(p, j)' = 1 /\ ~mem'[j].valid /\ mem'[j].lock = None /\ ~Locks(pr'[p], j) /\ Works(pr'[p], j)
      BY <1>2, <1>10, <1>11, <1>12, <1>14, <1>15, <2>1 DEF One
    <3> QED BY <1>1, <1>4, <1>11, <1>12, <2>1, <3>1 DEF Carried
  <2>2. CASE j = i
    <3>1. One(j = t) = 0 /\ mem[j].ref \in Int /\ Held(p, j) \in 0..7
      BY <1>1, <1>2, <2>2, HeldCounts DEF One, TypeOK, Slot
    <3>2. Wrote(p, j, 0)
      BY <1>1, <1>2, <1>10, <1>12, <1>14, <1>15, <2>2, <3>1 DEF Wrote
    <3> QED BY <1>1, <3>2, WroteCarried
  <2>3. CASE j # t /\ j # i
    <3>1. One(j = t) = 0
      BY <2>3 DEF One
    <3>2. mem'[j].valid <=> mem[j].valid
      BY <1>10, <2>3
    <3>3. (Locks(pr'[p], j) <=> Locks(pr[p], j)) /\ ~Works(pr[p], j)
      BY <1>1, <1>12, <1>14, <2>3
    <3>4. Spared(p, j, 0)
      BY <1>1, <1>10, <1>12, <1>15, <2>3, <3>1, <3>2, <3>3 DEF Spared
    <3> QED BY <1>1, <3>4, SparedCarried
  <2> QED BY <2>1, <2>2, <2>3
<1>17. ProcOK(p)'
  <2>1. Found(s.dp, s.name)' = {}
    BY <1>1, <1>2, <1>6, <1>12 DEF Found
  <2>2. mem'[t].ref = 1 /\ ~mem'[t].valid
    BY <1>1, <1>2, <1>10, <1>11 DEF One
  <2>3. /\ disk'[s.dp].type = "dir" /\ disk'[s.dp].nlink > 0 /\ (s.call = "mkdir" => disk'[s.dp].nlink < NLINK_MAX)
        /\ disk'[s.ip] = [Blank EXCEPT !.type = TypeOf(s.call)]
    BY <1>1, <1>2, <1>3, <1>6, <1>12
  <2> QED BY <1>6, <1>9, <1>12, <2>1, <2>2, <2>3 DEF ProcOK
<1>18. TableInv'
  BY <1>1, <1>12, <1>16, <1>17, TableStep
<1>19. ASSUME NEW j \in Inums PROVE LinkKept(j)
  <2>1. CountOK(j) /\ DirOK(j)
    BY <1>1 DEF LinkInv
  <2>2. CASE j = t
    <3>1. DirOK(t)'
      BY <1>4, <1>12 DEF DirOK
    <3> QED BY <1>4, <1>11, <1>12, <2>2, <3>1 DEF LinkKept
  <2>3. CASE j # t
    <3>1. disk'[j] = disk[j] /\ dents'[j] = dents[j]
      BY <1>1, <1>12, <2>3
    <3>2. DirOK(j)'
      BY <2>1, <3>1 DEF DirOK
    <3> QED BY <2>1, <3>1, <3>2 DEF LinkKept, CountOK
  <2> QED BY <2>2, <2>3
<1>20. LinkInv'
  <2>1. PendingKept
    BY <1>1, <1>12, <1>14, PendingSame
  <2> QED BY <1>1, <1>19, <2>1, LinkFrame
<1>21. BlockInv'
  <2>1. disk \in [Inums -> Dinode] /\ BlocksOK(disk, bitmap)
    BY <1>1 DEF TypeOK, BlockInv
  <2>2. BlocksOK([disk EXCEPT ![t] = d], bitmap)
    BY <1>1, <1>4, <1>11, <2>1, BlocksSame
  <2> QED BY <1>1, <1>5, <2>2 DEF BlockInv
<1> QED BY <1>13, <1>18, <1>20, <1>21 DEF FsInv

LEMMA CreateDpKeeps ==
  ASSUME FsInv, NEW p \in Procs, CreateDp(p)
  PROVE  FsInv'
<1>1. /\ Running(p, "create_dp") /\ ilock(pr[p].dp) /\ Inode(pr[p].dp).type = "dir"
      /\ UNCHANGED <<dents, bitmap, boot, panicked>> /\ UNCHANGED <<cwd, fd>>
  BY DEF CreateDp, bootVars
<1>2. PICK r, i, t : r = pr[p] /\ i = pr[p].dp /\ t = dirlookup(i, r.name)
  OBVIOUS
<1>3. /\ boot = 0 /\ TypeOK /\ TableInv /\ LinkInv /\ ProcOK(p) /\ p # None /\ pr \in [Procs -> CallRec]
      /\ AtDp(r, i) /\ r.pc = "create_dp"
      /\ mem[i].lock = None /\ Held(p, i) >= 1 /\ Inode(i) = disk[i]
      /\ \A l : Left(i, disk[i], l) = Looked(i, l, 0)
      /\ \A l : \A u \in Inums : iget(Left(i, disk[i], l), u) = Looked(i, l, u)
  BY <1>1, <1>2, AtParent
<1>4. i \in Inums /\ disk[i].type = "dir" /\ r \in CallRec /\ r.dp = i /\ Shape(r) /\ r.call \in {"creat", "mkdir", "mknod"}
  BY <1>1, <1>2, <1>3 DEF AtDp, Shape
<1>5. CASE /\ pr' = [pr EXCEPT ![p] = [r EXCEPT !.pc = "end", !.dp = 0, !.puts = <<i>>]]
           /\ mem' = Left(i, disk[i], None) /\ UNCHANGED disk
  <2>1. pr' = [pr EXCEPT ![p] = [pr[p] EXCEPT !.pc = IF pr[p].pc = "link_dp" THEN "link_bad" ELSE "end", !.puts = <<i>>, !.dp = 0]]
    BY <1>2, <1>3, <1>4, <1>5 DEF CallRec
  <2>2. mem' = Looked(i, None, 0) /\ UNCHANGED <<disk, dents, bitmap, boot, panicked>> /\ AtDp(pr[p], i)
    BY <1>1, <1>2, <1>3, <1>5
  <2> QED BY <1>1, <1>3, <2>1, <2>2, GiveDp
<1>6. ASSUME Accepts(disk[i], TypeOf(r.call))
      PROVE  /\ Live(i) /\ (r.call = "mkdir" => disk[i].nlink < NLINK_MAX)
             /\ t = 0 <=> Found(i, r.name) = {}
             /\ t # 0 => t \in Inums /\ disk[t].nlink >= 1 /\ disk[t].type # "none"
  <2>1. disk[i].nlink # 0 /\ disk[i].nlink \in Int /\ disk[i].nlink >= 0 /\ NLINK_MAX \in Nat
    BY <1>3, <1>4, <1>6, NlinkNat, FileSystemAssumption DEF Accepts
  <2>2. Live(i)
    BY <1>3, <1>4, <2>1, UnlockedLive
  <2>3. r.call = "mkdir" => disk[i].nlink < NLINK_MAX
    BY <1>6, <2>1 DEF Accepts, TypeOf
  <2> QED BY <1>2, <1>3, <1>4, <2>2, <2>3, Lookup
<1>7. CASE /\ Accepts(disk[i], TypeOf(r.call)) /\ t # 0
           /\ pr' = [pr EXCEPT ![p] = [[r EXCEPT !.pc = "end", !.dp = 0, !.puts = <<i>>] EXCEPT !.pc = "create_found", !.ip = t]]
           /\ mem' = iget(Left(i, disk[i], None), t) /\ UNCHANGED disk
  <2>1. pr' = [pr EXCEPT ![p] = [pr[p] EXCEPT !.pc = "create_found", !.dp = 0, !.puts = <<i>>, !.ip = t]]
    BY <1>2, <1>4, <1>7 DEF CallRec
  <2>2. mem' = Looked(i, None, t) /\ UNCHANGED <<disk, dents, bitmap, boot, panicked>> /\ AtDp(pr[p], i) /\ pr[p].pc = "create_dp"
        /\ t \in Inums /\ disk[t].nlink >= 1 /\ disk[t].type # "none"
    BY <1>1, <1>2, <1>3, <1>6, <1>7
  <2> QED BY <1>1, <1>3, <2>1, <2>2, CreateFinds
<1>8. CASE /\ Accepts(disk[i], TypeOf(r.call)) /\ t = 0 /\ FreeInums # {}
           /\ pr' = [pr EXCEPT ![p].pc = "create_ip", ![p].ip = Min(FreeInums)]
           /\ disk' = [disk EXCEPT ![Min(FreeInums)] = [Blank EXCEPT !.type = TypeOf(r.call)]]
           /\ mem' = iget(Left(i, disk[i], p), Min(FreeInums))
  <2>1. PICK u : u = Min(FreeInums)
    OBVIOUS
  <2>2. u \in FreeInums
    <3>1. FreeInums \in SUBSET Nat
      BY DEF FreeInums, Inums
    <3> QED BY <1>8, <2>1, <3>1, MinIsMember
  <2>3. u \in Inums /\ disk[u].type = "none"
    BY <2>2 DEF FreeInums
  <2>4. Allocating(p, i, u, r)
    BY <1>1, <1>2, <1>3, <1>6, <1>8, <2>1, <2>3 DEF Allocating
  <2> QED BY <2>4, CreateAllocs
<1> QED BY <1>2, <1>3, <1>5, <1>7, <1>8 DEF CreateDp

\* Process p has both inodes i and c locked, writes them and goes on as s.
WroteOne(p, s, j) ==
  /\ Held(p, j) >= 1 /\ mem[j].lock \in {None, p} /\ disk'[j].type = disk[j].type
  /\ mem'[j].ref = mem[j].ref /\ mem'[j].valid /\ mem'[j].d = disk'[j]
  /\ mem'[j].lock \in {None, p} /\ (mem'[j].lock = p <=> Locks(s, j))

WroteBoth(p, i, c, s) ==
  /\ i \in Inums /\ c \in Inums /\ s \in CallRec /\ pr' = [pr EXCEPT ![p] = s] /\ UNCHANGED <<cwd, fd>>
  /\ disk' \in [Inums -> Dinode] /\ dents' \in [Inums -> Seq(Entry)] /\ mem' \in [Inums -> Slot]
  /\ WroteOne(p, s, i) /\ WroteOne(p, s, c)
  /\ \A j \in Inums : HeldBy(s, cwd[p], fd[p], j) = HeldBy(pr[p], cwd[p], fd[p], j)
  /\ \A j \in Inums \ {i, c} : /\ mem'[j] = mem[j] /\ disk'[j] = disk[j] /\ dents'[j] = dents[j]
                               /\ (Locks(s, j) <=> Locks(pr[p], j)) /\ ~Works(pr[p], j)

LEMMA WriteTwo ==
  ASSUME FsInv, boot = 0, boot' = 0, panicked' = "no", NEW p \in Procs, NEW i, NEW c, NEW s, WroteBoth(p, i, c, s),
         ProcOK(p)', LinkInv', BlockInv', bitmap' \subseteq Blocks
  PROVE  FsInv'
<1>1. TypeOK /\ TableInv
  BY DEF FsInv
<1>2. pr'[p] = s /\ Alone(p)
  BY <1>1 DEF Alone, TypeOK, WroteBoth
<1>3. TypeOK'
  BY <1>1 DEF TypeOK, WroteBoth
<1>4. \A j \in Inums : Held(p, j)' = Held(p, j)
  BY <1>2 DEF Held, WroteBoth
<1>5. ASSUME NEW j \in Inums PROVE Carried(p, j)
  <2>0. mem[j].ref \in Int /\ Held(p, j) \in 0..7 /\ 0 \in {0, 1}
    BY <1>1, HeldCounts DEF TypeOK, Slot
  <2>1. CASE j \in {i, c}
    <3>1. WroteOne(p, s, j)
      BY <2>1 DEF WroteBoth
    <3>2. Wrote(p, j, 0)
      BY <1>2, <1>4, <2>0, <3>1 DEF Wrote, WroteOne
    <3> QED BY <1>1, <2>0, <3>2, WroteCarried
  <2>2. CASE j \notin {i, c}
    <3>1. Spared(p, j, 0)
      BY <1>2, <1>4, <2>0, <2>2 DEF Spared, WroteBoth
    <3> QED BY <1>1, <2>0, <3>1, SparedCarried
  <2> QED BY <2>1, <2>2
<1>6. TableInv'
  BY <1>1, <1>2, <1>5, TableStep
<1> QED BY <1>3, <1>6 DEF FsInv

\* The new inode c of create(), with its "." and ".." if it is a directory.
ChildNew(c) == [ok |-> TRUE, used |-> bitmap, ents |-> <<>>, d |-> [disk[c] EXCEPT !.nlink = 1]]
ChildDot(c, isdir) == IF isdir THEN dirlink(ChildNew(c), ".", c) ELSE ChildNew(c)
ChildMade(c, i, isdir) ==
  IF isdir /\ ChildDot(c, isdir).ok THEN dirlink(ChildDot(c, isdir), "..", i) ELSE ChildDot(c, isdir)

\* w is such an inode: complete, or with what there was room for.
Made(c, i, isdir, w) ==
  /\ DirView(w) /\ w.d.type = disk[c].type /\ w.d.nlink = 1
  /\ w.used = bitmap \union Owned(w.d) /\ Owned(w.d) \intersect bitmap = {}
  /\ w.ok /\ isdir => w.d.size = 2 /\ Len(w.ents) = 2 /\ w.ents[1] = <<".", c>> /\ w.ents[2] = <<"..", i>>
  /\ \A k \in 1..w.d.size : w.ents[k][1] \in {".", ".."}

LEMMA MakeChild ==
  ASSUME TypeOK, NEW c \in Inums, NEW i \in Inums, NEW isdir \in BOOLEAN,
         disk[c].size = 0, Owned(disk[c]) = {}
  PROVE  Made(c, i, isdir, ChildMade(c, i, isdir))
<1>1. PICK v, D : v = ChildNew(c) /\ D = disk[c]
  OBVIOUS
<1>2. D \in Dinode /\ D.size = 0 /\ Owned(D) = {} /\ c # 0 /\ c \in 0..NInodes /\ i \in 0..NInodes /\ bitmap \subseteq Blocks
  BY <1>1, DiskTypes, InumRange DEF TypeOK
<1>3. PICK d : d = [D EXCEPT !.nlink = 1]
  OBVIOUS
<1>4. d \in Dinode /\ d.type = D.type /\ d.nlink = 1 /\ d.size = 0 /\ d.addrs = D.addrs /\ d.ind = D.ind
  BY <1>2, <1>3 DEF Dinode
<1>5. Owned(d) = {}
  BY <1>2, <1>4 DEF Owned
<1>6. v = [ok |-> TRUE, used |-> bitmap, ents |-> <<>>, d |-> d]
  BY <1>1, <1>3 DEF ChildNew
<1>7. v.ok /\ v.used = bitmap /\ v.ents = <<>> /\ v.d = d /\ Len(v.ents) = 0
  BY <1>6
<1>8. DirView(v)
  <2>1. <<>> \in Seq(Entry) /\ TRUE \in BOOLEAN
    OBVIOUS
  <2>2. v \in DirRec
    BY <1>2, <1>4, <1>6, <2>1 DEF DirRec
  <2> QED BY <1>4, <1>5, <1>7, <2>2 DEF DirView
<1>9. CASE ~isdir
  <2>1. ChildMade(c, i, isdir) = v
    BY <1>1, <1>9 DEF ChildMade, ChildDot
  <2>2. Made(c, i, isdir, v)
    BY <1>1, <1>4, <1>5, <1>7, <1>8, <1>9 DEF Made
  <2> QED BY <2>1, <2>2
<1>10. CASE isdir
  <2>1. PICK u : u = dirlink(v, ".", c)
    OBVIOUS
  <2>2. PICK e, h : e = <<".", c>> /\ h = <<"..", i>>
    OBVIOUS
  <2>3. Linked(v, u, e)
    BY <1>2, <1>8, <2>1, <2>2, EmptyCall, dirlinkFacts
  <2>4. /\ DirView(u) /\ u.d.type = D.type /\ u.d.nlink = 1
        /\ u.used = bitmap \union Owned(u.d) /\ Owned(u.d) \intersect bitmap = {}
    BY <1>4, <1>5, <1>7, <2>3 DEF Linked
  <2>5. u.d.size = Len(u.ents) /\ u.d.size \in Nat
    BY <2>4 DEF DirView, DirRec, Dinode
  <2>6. ~u.ok => u.d.size = 0
    BY <1>4, <1>7, <2>3 DEF Linked
  <2>7. u.ok => u.d.size = 1 /\ u.ents[1] = e
    <3>1. SUFFICES ASSUME u.ok PROVE u.d.size = 1 /\ u.ents[1] = e
      OBVIOUS
    <3>2. PICK k \in Places : Added(v.ents, u.ents, k, e)
      BY <2>3, <3>1 DEF Linked
    <3>3. k \in Nat /\ k >= 1 /\ k <= 1
      BY <1>7, <3>2, PlacesFinite DEF Places, Added
    <3>4. k = 1
      BY <3>3
    <3> QED BY <1>7, <2>5, <3>2, <3>4 DEF Added
  <2>8. \A k \in 1..u.d.size : u.ents[k][1] \in {".", ".."}
    <3>1. CASE u.ok
      BY <2>2, <2>7, <3>1
    <3>2. CASE ~u.ok
      BY <2>6, <3>2
    <3> QED BY <3>1, <3>2
  <2>9. ChildDot(c, isdir) = u
    BY <1>1, <1>10, <2>1 DEF ChildDot
  <2>10. CASE ~u.ok
    <3>1. ChildMade(c, i, isdir) = u
      BY <2>9, <2>10, Zenon DEF ChildMade
    <3>2. Made(c, i, isdir, u)
      BY <1>1, <2>4, <2>8, <2>10 DEF Made
    <3> QED BY <3>1, <3>2
  <2>11. CASE u.ok
    <3>1. PICK w : w = dirlink(u, "..", i)
      OBVIOUS
    <3>2. ChildMade(c, i, isdir) = w
      BY <1>10, <2>9, <2>11, <3>1 DEF ChildMade
    <3>3. Linked(u, w, h)
      BY <1>2, <2>2, <2>4, <3>1, EmptyCall, dirlinkFacts
    <3>4. /\ DirView(w) /\ w.d.type = D.type /\ w.d.nlink = 1
          /\ w.used = bitmap \union Owned(w.d) /\ Owned(w.d) \intersect bitmap = {}
      BY <2>4, <3>3 DEF Linked
    <3>5. w.d.size = Len(w.ents) /\ w.d.size \in Nat
      BY <3>4 DEF DirView, DirRec, Dinode
    <3>6. CASE ~w.ok
      <4>1. w.d.size = u.d.size /\ w.ents = u.ents
        BY <3>3, <3>6 DEF Linked
      <4>2. Made(c, i, isdir, w)
        BY <1>1, <2>8, <3>4, <3>6, <4>1 DEF Made
      <4> QED BY <3>2, <4>2
    <3>7. CASE w.ok
      <4>1. PICK k \in Places : Added(u.ents, w.ents, k, h)
        BY <3>3, <3>7 DEF Linked
      <4>2. Len(u.ents) = 1 /\ u.ents[1] = e /\ e[2] # 0
        BY <1>2, <2>2, <2>5, <2>7, <2>11
      <4>3. k \in Nat /\ k >= 1 /\ k <= 2 /\ (k <= 1 => u.ents[k][2] = 0)
        BY <4>1, <4>2, PlacesFinite DEF Places, Added
      <4>4. k = 2
        <5>1. k # 1
          BY <4>2, <4>3
        <5> QED BY <4>3, <5>1
      <4>5. Len(w.ents) = 2 /\ w.ents[2] = h /\ w.ents[1] = e
        BY <4>1, <4>2, <4>4 DEF Added
      <4>6. \A j \in 1..w.d.size : w.ents[j][1] \in {".", ".."}
        <5>1. \A j \in 1..2 : j = 1 \/ j = 2
          OBVIOUS
        <5> QED BY <2>2, <3>5, <4>5, <5>1
      <4>7. Made(c, i, isdir, w)
        BY <1>1, <2>2, <3>4, <3>5, <4>5, <4>6 DEF Made
      <4> QED BY <3>2, <4>7
    <3> QED BY <3>6, <3>7
  <2> QED BY <2>10, <2>11
<1> QED BY <1>9, <1>10

\* The directory the new inode goes into.
ParentView(i, U) == [ok |-> FALSE, used |-> U, ents |-> dents[i], d |-> disk[i]]
ParentMade(i, n, c, w) == IF w.ok THEN dirlink(ParentView(i, w.used), n, c) ELSE ParentView(i, w.used)

Entered(i, n, c, w, v) ==
  /\ DirView(v) /\ v.d.type = disk[i].type /\ v.d.nlink = disk[i].nlink
  /\ Owned(disk[i]) \subseteq Owned(v.d) /\ v.used = w.used \union Owned(v.d) /\ Owned(v.d) \intersect w.used \subseteq Owned(disk[i])
  /\ ~v.ok => v.d.size = disk[i].size /\ v.ents = dents[i]
  /\ v.ok => w.ok /\ \E k \in Places : Added(dents[i], v.ents, k, <<n, c>>)

LEMMA EnterChild ==
  ASSUME TypeOK, LinkInv, BlockInv, NEW i \in Inums, Live(i), NEW c \in Inums, NEW n \in Names, NEW w,
         bitmap \subseteq w.used, w.used \subseteq Blocks
  PROVE  Entered(i, n, c, w, ParentMade(i, n, c, w))
<1>1. PICK D, f, U, u : D = disk[i] /\ f = dents[i] /\ U = w.used /\ u = ParentView(i, U)
  OBVIOUS
<1>2. D \in Dinode /\ f \in Seq(Entry) /\ Owned(D) \subseteq bitmap /\ D.size = Len(f) /\ c \in 0..NInodes
  BY <1>1, DiskTypes, OwnedMarked, InumRange DEF LinkInv, DirOK, Live
<1>3. u = [ok |-> FALSE, used |-> U, ents |-> f, d |-> D]
  BY <1>1 DEF ParentView
<1>4. ~u.ok /\ u.used = U /\ u.ents = f /\ u.d = D
  BY <1>3
<1>5. DirView(u)
  <2>1. u \in DirRec
    BY <1>1, <1>2, <1>3 DEF DirRec
  <2> QED BY <1>1, <1>2, <1>4, <2>1 DEF DirView
<1>6. CASE w.ok
  <2>1. PICK v : v = dirlink(u, n, c)
    OBVIOUS
  <2>2. Linked(u, v, <<n, c>>)
    BY <1>2, <1>5, <2>1, dirlinkFacts
  <2>3. Entered(i, n, c, w, v)
    BY <1>1, <1>4, <1>6, <2>2 DEF Linked, Entered
  <2> QED BY <1>1, <1>6, <2>1, <2>3 DEF ParentMade
<1>7. CASE ~w.ok
  <2>1. Entered(i, n, c, w, u)
    BY <1>1, <1>2, <1>4, <1>5 DEF Entered
  <2> QED BY <1>1, <1>7, <2>1 DEF ParentMade
<1> QED BY <1>6, <1>7

\* create() under both locks: w the new inode c, v its directory i, d and e what is written of them.
Creating(p, i, c, r, w, v, d, e, s) ==
  /\ boot = 0 /\ UNCHANGED <<boot, panicked>> /\ UNCHANGED <<cwd, fd>>
  /\ r = pr[p] /\ r.pc = "create_ip" /\ r.puts = <<>> /\ i = r.dp /\ c = r.ip /\ mem[c].lock = None
  /\ w = ChildMade(c, i, r.call = "mkdir") /\ v = ParentMade(i, r.name, c, w)
  /\ d = (IF v.ok THEN w.d ELSE [w.d EXCEPT !.nlink = 0])
  /\ e = (IF v.ok /\ r.call = "mkdir" THEN [v.d EXCEPT !.nlink = v.d.nlink + 1] ELSE v.d)
  /\ disk' = [disk EXCEPT ![c] = d, ![i] = e] /\ dents' = [dents EXCEPT ![c] = w.ents, ![i] = v.ents] /\ bitmap' = v.used
  /\ mem' = [Left(c, d, IF v.ok /\ r.call = "creat" THEN p ELSE None) EXCEPT
               ![i].d = e, ![i].lock = IF v.ok THEN None ELSE p]
  /\ pr' = [pr EXCEPT ![p] = s]
  /\ s = (IF ~v.ok THEN [r EXCEPT !.pc = "drop_dp", !.puts = <<c>>, !.ip = 0]
          ELSE IF r.call = "creat" THEN [r EXCEPT !.pc = "open_locked", !.puts = <<i>>, !.dp = 0]
          ELSE [r EXCEPT !.pc = "end", !.puts = <<i, c>>, !.dp = 0, !.ip = 0])

\* Where create() starts from.
CreateState(p, i, c, r, w, v) ==
  /\ TypeOK /\ TableInv /\ LinkInv /\ BlockInv /\ boot = 0 /\ p # None
  /\ r = pr[p] /\ r \in CallRec /\ Shape(r) /\ r.pc = "create_ip" /\ r.puts = <<>> /\ r.put = "start" /\ r.at = 0
  /\ r.dp = i /\ r.ip = c /\ i \in Inums /\ c \in Inums /\ i # c /\ i # 0 /\ c # 0
  /\ r.call \in {"creat", "mkdir", "mknod"} /\ r.name \in Names /\ r.name \notin {".", ".."}
  /\ Live(i) /\ disk[i].type = "dir" /\ disk[i].nlink > 0 /\ (r.call = "mkdir" => disk[i].nlink < NLINK_MAX)
  /\ disk[c].type # "none" /\ disk[c].nlink = 0 /\ disk[c].size = 0 /\ Owned(disk[c]) = {} /\ (disk[c].type = "dir" <=> r.call = "mkdir")
  /\ mem[i].lock = p /\ mem[i].valid /\ mem[i].d = disk[i] /\ mem[c].lock = None
  /\ Held(p, i) >= 1 /\ Held(p, c) >= 1
  /\ Made(c, i, r.call = "mkdir", w) /\ Entered(i, r.name, c, w, v)

LEMMA CreateFrom ==
  ASSUME FsInv, NEW p \in Procs, boot = 0, NEW i, NEW c, NEW r, NEW w, NEW v,
         r = pr[p], r.pc = "create_ip", r.puts = <<>>, i = r.dp, c = r.ip, mem[c].lock = None,
         w = ChildMade(c, i, r.call = "mkdir"), v = ParentMade(i, r.name, c, w)
  PROVE  CreateState(p, i, c, r, w, v)
<1>1. /\ TypeOK /\ TableInv /\ LinkInv /\ BlockInv /\ ProcOK(p) /\ Shape(r) /\ p # None /\ r \in CallRec /\ r.put = "start"
      /\ (i # 0 => i \in Inums) /\ (c # 0 => c \in Inums)
  BY Ready
<1>2. /\ i # 0 /\ c # 0 /\ r.at = 0 /\ r.call \in {"creat", "mkdir", "mknod"} /\ r.name \in Names
  BY <1>1 DEF Shape, HasDp, HasIp, CallRec
<1>3. i \in Inums /\ c \in Inums
  BY <1>1, <1>2
<1>4. /\ disk[i].type = "dir" /\ disk[i].nlink > 0 /\ (r.call = "mkdir" => disk[i].nlink < NLINK_MAX)
      /\ Found(i, r.name) = {} /\ disk[c] = [Blank EXCEPT !.type = TypeOf(r.call)]
  BY <1>1 DEF ProcOK
<1>5. /\ disk[c].type # "none" /\ disk[c].nlink = 0 /\ disk[c].size = 0 /\ Owned(disk[c]) = {} /\ (disk[c].type = "dir" <=> r.call = "mkdir")
  <2>1. PICK d : d = disk[c]
    OBVIOUS
  <2>2. /\ d.type \in {"file", "dir", "device"} /\ d.nlink = 0 /\ d.size = 0 /\ Owned(d) = {} /\ (d.type = "dir" <=> r.call = "mkdir")
    <3>1. PICK a \in {"creat", "mkdir", "mknod"} : a = r.call
      BY <1>2
    <3>2. d = [Blank EXCEPT !.type = TypeOf(a)]
      BY <1>4, <2>1, <3>1
    <3>3. /\ d.type \in {"file", "dir", "device"} /\ d.nlink = 0 /\ d.size = 0 /\ Owned(d) = {} /\ (d.type = "dir" <=> a = "mkdir")
      BY <3>2, BlankFacts
    <3> QED BY <3>1, <3>3
  <2> QED BY <2>1, <2>2
<1>6. mem[i].lock = p /\ mem[i].valid /\ mem[i].d = disk[i]
  <2>1. Locks(r, i)
    BY DEF Locks
  <2>2. TableOK(i)
    BY <1>1, <1>3 DEF TableInv
  <2>3. mem[i].lock = p
    BY <2>1, <2>2 DEF TableOK
  <2> QED BY <1>1, <2>2, <2>3 DEF TableOK
<1>7. i # c
  BY <1>1, <1>6
<1>8. Held(p, i) >= 1 /\ Held(p, c) >= 1
  BY <1>1, <1>3, OwnHolds
<1>9. Live(i)
  <2>1. ASSUME NEW q \in Procs, Removes(pr[q], i) PROVE FALSE
    <3>1. Locks(pr[q], i)
      BY <2>1 DEF Removes, Locks
    <3>2. mem[i].lock = q
      BY <1>1, <1>3, <3>1 DEF TableInv, TableOK
    <3>3. q = p
      BY <1>6, <3>2
    <3> QED BY <2>1, <3>3 DEF Removes
  <2> QED BY <1>4, <2>1 DEF Live, Removing
<1>10. r.name \notin {".", ".."}
  BY <1>1, <1>3, <1>4, <1>9, NotDots
<1>11. Made(c, i, r.call = "mkdir", w)
  <2>1. PICK b \in BOOLEAN : b = (r.call = "mkdir")
    BY Zenon
  <2>2. Made(c, i, b, ChildMade(c, i, b))
    BY <1>1, <1>3, <1>5, MakeChild
  <2> QED BY <2>1, <2>2, Zenon
<1>12. bitmap \subseteq w.used /\ w.used \subseteq Blocks
  BY <1>11 DEF Made, DirView, DirRec
<1>13. Entered(i, r.name, c, w, v)
  BY <1>1, <1>2, <1>3, <1>9, <1>12, EnterChild
<1> QED BY <1>1, <1>2, <1>3, <1>4, <1>5, <1>6, <1>7, <1>8, <1>9, <1>10, <1>11, <1>13 DEF CreateState

\* The blocks of both.
LEMMA CreateBlocks ==
  ASSUME TypeOK, BlockInv, NEW i \in Inums, NEW c \in Inums, i # c, NEW w, NEW v, NEW n, NEW b,
         Made(c, i, b, w), Entered(i, n, c, w, v), Owned(disk[c]) = {},
         NEW d, NEW e, d \in Dinode, Owned(d) = Owned(w.d), Owned(e) = Owned(v.d)
  PROVE  BlocksOK([disk EXCEPT ![c] = d, ![i] = e], v.used) /\ v.used \subseteq Blocks
<1>1. disk \in [Inums -> Dinode] /\ BlocksOK(disk, bitmap)
  BY DEF TypeOK, BlockInv
<1>2. PICK D, U : D = [disk EXCEPT ![c] = d] /\ U = w.used
  OBVIOUS
<1>3. U = bitmap \union Owned(d) /\ Owned(d) \intersect bitmap = {}
  BY <1>2 DEF Made
<1>4. BlocksOK(D, U)
  <2>1. Owned(disk[c]) \subseteq Owned(d) /\ Owned(d) \intersect bitmap \subseteq Owned(disk[c])
    BY <1>3
  <2>2. BlocksOK([disk EXCEPT ![c] = d], bitmap \union Owned(d))
    BY <1>1, <2>1, BlocksGrow
  <2> QED BY <1>2, <1>3, <2>2
<1>5. D \in [Inums -> Dinode] /\ D[i] = disk[i]
  BY <1>1, <1>2
<1>6. Owned(D[i]) \subseteq Owned(e) /\ Owned(e) \intersect U \subseteq Owned(D[i]) /\ v.used = U \union Owned(e) /\ v.used \subseteq Blocks
  BY <1>2, <1>5 DEF Entered, DirView, DirRec
<1>7. BlocksOK([D EXCEPT ![i] = e], U \union Owned(e))
  BY <1>4, <1>5, <1>6, BlocksGrow
<1>8. [D EXCEPT ![i] = e] = [disk EXCEPT ![c] = d, ![i] = e]
  BY <1>1, <1>2
<1> QED BY <1>6, <1>7, <1>8

\* What create() writes, whichever way it ends.
CreateDone(p, i, c, r, w, v, d, e, s) ==
  /\ disk'[c] = d /\ disk'[i] = e /\ dents'[c] = w.ents /\ dents'[i] = v.ents
  /\ \A j \in Inums \ {i, c} : mem'[j] = mem[j] /\ disk'[j] = disk[j] /\ dents'[j] = dents[j]
  /\ d \in Dinode /\ d.type = disk[c].type /\ d.size = w.d.size /\ d.nlink = One(v.ok) /\ Owned(d) = Owned(w.d)
  /\ e \in Dinode /\ e.type = disk[i].type /\ e.size = v.d.size /\ e.nlink = disk[i].nlink + One(v.ok /\ r.call = "mkdir")
  /\ Owned(e) = Owned(v.d)
  /\ disk' \in [Inums -> Dinode] /\ dents' \in [Inums -> Seq(Entry)] /\ mem' \in [Inums -> Slot]
  /\ mem'[c].ref = mem[c].ref /\ mem'[c].valid /\ mem'[c].d = d /\ mem'[c].lock = (IF v.ok /\ r.call = "creat" THEN p ELSE None)
  /\ mem'[i].ref = mem[i].ref /\ mem'[i].valid /\ mem'[i].d = e /\ mem'[i].lock = (IF v.ok THEN None ELSE p)

LEMMA CreateWrites ==
  ASSUME NEW p \in Procs, NEW i, NEW c, NEW r, NEW w, NEW v, NEW d, NEW e, NEW s,
         CreateState(p, i, c, r, w, v), Creating(p, i, c, r, w, v, d, e, s)
  PROVE  CreateDone(p, i, c, r, w, v, d, e, s)
<1>1. /\ TypeOK /\ i \in Inums /\ c \in Inums /\ i # c /\ Made(c, i, r.call = "mkdir", w) /\ Entered(i, r.name, c, w, v)
      /\ mem[i].valid /\ disk[i] \in Dinode
  BY DiskTypes DEF CreateState
<1>2. PICK W, V, b, m : W = w.d /\ V = v.d /\ b = v.ok /\ m = (r.call = "mkdir")
  OBVIOUS
<1>3. W \in Dinode /\ W.type = disk[c].type /\ W.nlink = 1 /\ w.ents \in Seq(Entry)
  BY <1>1, <1>2 DEF Made, DirView, DirRec
<1>4. V \in Dinode /\ V.type = disk[i].type /\ V.nlink = disk[i].nlink /\ V.nlink \in Int /\ v.ents \in Seq(Entry)
  BY <1>1, <1>2 DEF Entered, DirView, DirRec, Dinode
<1>5. d = (IF b THEN W ELSE [W EXCEPT !.nlink = 0]) /\ e = (IF b /\ m THEN [V EXCEPT !.nlink = V.nlink + 1] ELSE V)
  BY <1>2 DEF Creating
<1>6. d \in Dinode /\ d.type = W.type /\ d.size = W.size /\ d.nlink = One(b) /\ d.addrs = W.addrs /\ d.ind = W.ind
  BY <1>3, <1>5 DEF Dinode, One
<1>7. e \in Dinode /\ e.type = V.type /\ e.size = V.size /\ e.nlink = V.nlink + One(b /\ m) /\ e.addrs = V.addrs /\ e.ind = V.ind
  <2>1. PICK n \in Int : n = V.nlink + 1
    BY <1>4
  <2>2. CASE b /\ m
    <3>1. e = [V EXCEPT !.nlink = n] /\ One(b /\ m) = 1
      BY <1>5, <2>1, <2>2 DEF One
    <3> QED BY <1>4, <2>1, <3>1 DEF Dinode
  <2>3. CASE ~(b /\ m)
    BY <1>4, <1>5, <2>3 DEF One
  <2> QED BY <2>2, <2>3
<1>8. Owned(d) = Owned(W) /\ Owned(e) = Owned(V)
  BY <1>6, <1>7 DEF Owned
<1>9. /\ disk'[c] = d /\ disk'[i] = e /\ dents'[c] = w.ents /\ dents'[i] = v.ents
      /\ (\A j \in Inums \ {i, c} : disk'[j] = disk[j] /\ dents'[j] = dents[j])
      /\ disk' \in [Inums -> Dinode] /\ dents' \in [Inums -> Seq(Entry)]
  BY <1>1, <1>3, <1>4, <1>6, <1>7 DEF Creating, TypeOK
<1>10. PICK l, k, M : /\ l \in Procs \union {None} /\ k \in Procs \union {None}
                      /\ l = (IF v.ok /\ r.call = "creat" THEN p ELSE None) /\ k = (IF v.ok THEN None ELSE p) /\ M = Left(c, d, l)
  OBVIOUS
<1>11. mem' = [M EXCEPT ![i].d = e, ![i].lock = k]
  BY <1>10 DEF Creating
<1>12. /\ M \in [Inums -> Slot] /\ M[c].ref = mem[c].ref /\ M[c].valid
       /\ M[c].d = d /\ M[c].lock = l
       /\ \A j \in Inums : j # c => M[j] = mem[j]
  BY <1>1, <1>6, <1>10, LeftFacts
<1>13. M[i] = mem[i] /\ mem[i] \in Slot
  BY <1>1, <1>12 DEF TypeOK
<1>14. PICK y : y = [mem[i] EXCEPT !.d = e, !.lock = k]
  OBVIOUS
<1>15. y \in Slot /\ y.ref = mem[i].ref /\ y.valid = mem[i].valid /\ y.d = e /\ y.lock = k
  BY <1>7, <1>10, <1>13, <1>14 DEF Slot
<1>16. mem' = [M EXCEPT ![i] = y]
  BY <1>1, <1>11, <1>12, <1>13, <1>14
<1>17. mem' \in [Inums -> Slot] /\ mem'[c] = M[c] /\ mem'[i] = y /\ \A j \in Inums \ {i, c} : mem'[j] = mem[j]
  BY <1>1, <1>12, <1>15, <1>16
<1>18. mem'[c].ref = mem[c].ref /\ mem'[c].valid /\ mem'[c].d = d /\ mem'[c].lock = (IF v.ok /\ r.call = "creat" THEN p ELSE None)
  BY <1>10, <1>12, <1>17
<1>19. mem'[i].ref = mem[i].ref /\ mem'[i].valid /\ mem'[i].d = e /\ mem'[i].lock = (IF v.ok THEN None ELSE p)
  BY <1>1, <1>10, <1>15, <1>17
<1>20. d.type = disk[c].type /\ d.size = w.d.size /\ d.nlink = One(v.ok) /\ Owned(d) = Owned(w.d)
  BY <1>2, <1>3, <1>6, <1>8
<1>21. e.type = disk[i].type /\ e.size = v.d.size /\ e.nlink = disk[i].nlink + One(v.ok /\ r.call = "mkdir") /\ Owned(e) = Owned(v.d)
  BY <1>2, <1>4, <1>7, <1>8
<1> QED BY <1>6, <1>7, <1>9, <1>17, <1>18, <1>19, <1>20, <1>21 DEF CreateDone

\* How the call goes on.
CreateGoesOn(p, i, c, r, v, s) ==
  /\ s \in CallRec /\ Shape(s) /\ s.put = "start" /\ s.pc \in {"drop_dp", "open_locked", "end"} /\ (s.pc = "drop_dp" => s.ip = 0)
  /\ \A j \in Inums : HeldBy(s, cwd[p], fd[p], j) = HeldBy(r, cwd[p], fd[p], j)
  /\ \A j \in Inums : ~Pends(s, j) /\ ~Pends(r, j) /\ ~Removes(s, j) /\ ~Removes(r, j)
  /\ Locks(s, i) <=> ~v.ok
  /\ Locks(s, c) <=> (v.ok /\ r.call = "creat")
  /\ \A j \in Inums \ {i, c} : (Locks(s, j) <=> Locks(r, j)) /\ ~Works(r, j)

LEMMA CreateNext ==
  ASSUME NEW p \in Procs, NEW i, NEW c, NEW r, NEW w, NEW v, NEW d, NEW e, NEW s,
         CreateState(p, i, c, r, w, v), Creating(p, i, c, r, w, v, d, e, s)
  PROVE  CreateGoesOn(p, i, c, r, v, s)
<1>1. /\ r \in CallRec /\ Shape(r) /\ r.pc = "create_ip" /\ r.puts = <<>> /\ r.put = "start" /\ r.at = 0 /\ r.dp = i /\ r.ip = c
      /\ i \in Inums /\ c \in Inums /\ i # c /\ i # 0 /\ c # 0 /\ r.call \in {"creat", "mkdir", "mknod"}
  BY DEF CreateState
<1>2. /\ <<i, c>> \in Seq(Inums) /\ Len(<<i, c>>) = 2 /\ <<i, c>>[1] = i /\ <<i, c>>[2] = c /\ <<i, c>> # <<>>
      /\ <<i>> \in Seq(Inums) /\ Len(<<i>>) = 1 /\ <<i>>[1] = i /\ <<i>> # <<>>
      /\ <<c>> \in Seq(Inums) /\ Len(<<c>>) = 1 /\ <<c>>[1] = c /\ <<c>> # <<>> /\ Len(<<>>) = 0
  BY <1>1
<1>3. \A j \in Inums : ~Pends(r, j) /\ ~Removes(r, j) /\ (j # c => ~Works(r, j)) /\ (Locks(r, j) <=> j = i)
  BY <1>1 DEF Pends, Removes, Works, Locks
<1>4. CASE ~v.ok
  <2>1. s = [r EXCEPT !.pc = "drop_dp", !.puts = <<c>>, !.ip = 0]
    BY <1>4 DEF Creating
  <2>2. /\ s.pc = "drop_dp" /\ s.call = r.call /\ s.at = 0 /\ s.ip = 0 /\ s.dp = i /\ s.new = r.new /\ s.puts = <<c>> /\ s.put = "start"
    BY <1>1, <2>1 DEF CallRec
  <2>3. s \in CallRec
    BY <1>1, <1>2, <2>1, EmptyCall DEF CallRec, Pcs
  <2>4. Shape(s)
    BY <1>1, <1>2, <2>2 DEF Shape, HasDp, HasIp
  <2>5. \A j \in Inums : HeldBy(s, cwd[p], fd[p], j) = HeldBy(r, cwd[p], fd[p], j)
    BY <1>1, <1>2, <2>2, InumRange DEF HeldBy, One
  <2>6. \A j \in Inums : ~Pends(s, j) /\ ~Removes(s, j) /\ (Locks(s, j) <=> j = i)
    BY <1>1, <2>2, InumRange DEF Pends, Removes, Locks
  <2> QED BY <1>1, <1>3, <1>4, <2>2, <2>3, <2>4, <2>5, <2>6 DEF CreateGoesOn
<1>5. CASE v.ok /\ r.call = "creat"
  <2>1. s = [r EXCEPT !.pc = "open_locked", !.puts = <<i>>, !.dp = 0]
    BY <1>5 DEF Creating
  <2>2. /\ s.pc = "open_locked" /\ s.call = r.call /\ s.at = 0 /\ s.ip = c /\ s.dp = 0 /\ s.new = r.new /\ s.puts = <<i>> /\ s.put = "start"
    BY <1>1, <2>1 DEF CallRec
  <2>3. s \in CallRec
    BY <1>1, <1>2, <2>1, EmptyCall DEF CallRec, Pcs
  <2>4. Shape(s)
    BY <1>1, <1>2, <2>2 DEF Shape, HasDp, HasIp
  <2>5. \A j \in Inums : HeldBy(s, cwd[p], fd[p], j) = HeldBy(r, cwd[p], fd[p], j)
    BY <1>1, <1>2, <2>2, InumRange DEF HeldBy, One
  <2>6. \A j \in Inums : ~Pends(s, j) /\ ~Removes(s, j) /\ (Locks(s, j) <=> j = c)
    BY <1>1, <2>2, InumRange DEF Pends, Removes, Locks
  <2> QED BY <1>1, <1>3, <1>5, <2>2, <2>3, <2>4, <2>5, <2>6 DEF CreateGoesOn
<1>6. CASE v.ok /\ r.call # "creat"
  <2>1. s = [r EXCEPT !.pc = "end", !.puts = <<i, c>>, !.dp = 0, !.ip = 0]
    BY <1>6 DEF Creating
  <2>2. /\ s.pc = "end" /\ s.call = r.call /\ s.at = 0 /\ s.ip = 0 /\ s.dp = 0 /\ s.new = r.new /\ s.puts = <<i, c>> /\ s.put = "start"
    BY <1>1, <2>1 DEF CallRec
  <2>3. s \in CallRec
    BY <1>1, <1>2, <2>1, EmptyCall DEF CallRec, Pcs
  <2>4. Shape(s)
    BY <1>1, <1>2, <2>2 DEF Shape, HasDp, HasIp
  <2>5. \A j \in Inums : HeldBy(s, cwd[p], fd[p], j) = HeldBy(r, cwd[p], fd[p], j)
    BY <1>1, <1>2, <2>2, InumRange DEF HeldBy, One
  <2>6. \A j \in Inums : ~Pends(s, j) /\ ~Removes(s, j) /\ ~Locks(s, j)
    BY <1>1, <2>2, InumRange DEF Pends, Removes, Locks
  <2> QED BY <1>1, <1>3, <1>6, <2>2, <2>3, <2>4, <2>5, <2>6 DEF CreateGoesOn
<1> QED BY <1>4, <1>5, <1>6

LEMMA CreateLinksKept ==
  ASSUME NEW p \in Procs, NEW i, NEW c, NEW r, NEW w, NEW v, NEW d, NEW e, NEW s, ~v.ok, PendingKept,
         CreateState(p, i, c, r, w, v), CreateDone(p, i, c, r, w, v, d, e, s)
  PROVE  LinkInv'
<1>1. /\ TypeOK /\ LinkInv /\ i \in Inums /\ c \in Inums /\ i # c /\ disk[i].type = "dir" /\ disk[c].type # "none" /\ disk[c].nlink = 0
      /\ disk[i].nlink > 0 /\ disk[i].nlink \in Int
      /\ Made(c, i, r.call = "mkdir", w) /\ Entered(i, r.name, c, w, v)
  BY DiskTypes DEF CreateState
<1>2. /\ disk'[c] = d /\ disk'[i] = e /\ dents'[c] = w.ents /\ dents'[i] = v.ents
      /\ \A j \in Inums \ {i, c} : disk'[j] = disk[j] /\ dents'[j] = dents[j]
  BY DEF CreateDone
<1>3. /\ d.type = disk[c].type /\ d.size = w.d.size /\ d.nlink = 0
      /\ e.type = disk[i].type /\ e.size = v.d.size /\ e.nlink = disk[i].nlink
  <2>1. One(v.ok) = 0 /\ One(v.ok /\ r.call = "mkdir") = 0
    BY DEF One
  <2> QED BY <1>1, <2>1 DEF CreateDone
<1>4. v.d.size = disk[i].size /\ v.ents = dents[i] /\ \A k \in 1..w.d.size : w.ents[k][1] \in {".", ".."}
  BY <1>1 DEF Made, Entered
<1>5. ASSUME NEW j \in Inums PROVE LinkKept(j)
  <2>1. CountOK(j) /\ DirOK(j)
    BY <1>1 DEF LinkInv
  <2>2. CASE j = c
    <3>1. DirOK(c)'
      BY <1>2, <1>3, <1>4 DEF DirOK
    <3> QED BY <1>1, <1>2, <1>3, <2>2, <3>1 DEF LinkKept
  <2>3. CASE j = i
    BY <1>1, <1>2, <1>3, <1>4, <2>3 DEF LinkKept
  <2>4. CASE j \notin {i, c}
    <3>1. disk'[j] = disk[j] /\ dents'[j] = dents[j]
      BY <1>2, <2>4
    <3>2. DirOK(j)'
      BY <2>1, <3>1 DEF DirOK
    <3> QED BY <2>1, <3>1, <3>2 DEF LinkKept, CountOK
  <2> QED BY <2>2, <2>3, <2>4
<1> QED BY <1>1, <1>5, LinkFrame

LEMMA CreateLinksMade ==
  ASSUME NEW p \in Procs, NEW i, NEW c, NEW r, NEW w, NEW v, NEW d, NEW e, NEW s, v.ok, PendingKept,
         CreateState(p, i, c, r, w, v), CreateDone(p, i, c, r, w, v, d, e, s)
  PROVE  LinkInv'
<1>1. /\ TypeOK /\ LinkInv /\ i \in Inums /\ c \in Inums /\ i # c /\ disk[i].type = "dir" /\ disk[c].type # "none" /\ disk[c].nlink = 0
      /\ disk[i].nlink > 0 /\ disk[i].nlink \in Int /\ Live(i) /\ r.name \notin {".", ".."}
      /\ (r.call = "mkdir" => disk[i].nlink < NLINK_MAX) /\ (disk[c].type = "dir" <=> r.call = "mkdir")
      /\ Made(c, i, r.call = "mkdir", w) /\ Entered(i, r.name, c, w, v) /\ CountOK(c) /\ CountOK(i)
  BY DiskTypes DEF CreateState, LinkInv
<1>2. /\ disk'[c] = d /\ disk'[i] = e /\ dents'[c] = w.ents /\ dents'[i] = v.ents
      /\ \A j \in Inums \ {i, c} : disk'[j] = disk[j] /\ dents'[j] = dents[j]
  BY DEF CreateDone
<1>3. /\ d.type = disk[c].type /\ d.size = w.d.size /\ d.nlink = 1
      /\ e.type = disk[i].type /\ e.size = v.d.size /\ e.nlink = disk[i].nlink + One(disk[c].type = "dir")
  <2>1. One(v.ok) = 1 /\ One(v.ok /\ r.call = "mkdir") = One(disk[c].type = "dir")
    BY <1>1 DEF One
  <2> QED BY <1>1, <2>1 DEF CreateDone
<1>4. /\ v.d.size = Len(v.ents) /\ w.ok
      /\ disk[c].type = "dir" => w.d.size = 2 /\ Len(w.ents) = 2 /\ w.ents[1] = <<".", c>> /\ w.ents[2] = <<"..", i>>
  BY <1>1 DEF Made, Entered, DirView
<1>5. PICK k \in Places : Added(dents[i], v.ents, k, <<r.name, c>>)
  BY <1>1 DEF Entered
<1>6. Cardinality(Ents(c)) = 0 /\ Cardinality(Pending(c)) = 0 /\ Pending(c) = {}
  <2>1. PICK a \in Nat, b \in Nat : a = Cardinality(Ents(c)) /\ b = Cardinality(Pending(c))
    BY LinkSets
  <2>2. a + b = 0
    BY <1>1, <2>1 DEF CountOK
  <2>3. a = 0 /\ b = 0
    BY <2>1, <2>2
  <2>4. IsFiniteSet(Pending(c)) /\ Cardinality(Pending(c)) = 0
    BY <2>1, <2>3, LinkSets
  <2> QED BY <2>1, <2>3, <2>4, FS_EmptySet
<1>7. ~Removing(c) /\ ~Removing(c)'
  <2>1. \A q \in Procs : ~Pends(pr[q], c)
    BY <1>6 DEF Pending
  <2>2. ~Removing(c)
    BY <2>1 DEF Removing, Removes, Pends
  <2> QED BY <1>1, <2>2 DEF PendingKept
<1>8. \A j \in Inums : disk'[j].type = disk[j].type
  BY <1>1, <1>2, <1>3
<1>9. One(disk[c].type = "dir") \in {0, 1}
  BY DEF One
<1>10. Live(i)' /\ ~Live(c) /\ (disk[c].type = "dir" => Live(c)')
  <2>1. disk'[i].nlink > 0 /\ disk'[c].nlink > 0
    BY <1>1, <1>2, <1>3, <1>9
  <2> QED BY <1>1, <1>7, <1>8, <2>1 DEF Live, PendingKept
<1>11. \A j \in Inums \ {i, c} : Live(j)' <=> Live(j)
  BY <1>2 DEF Live, PendingKept
<1>12. PICK n : n = r.name
  OBVIOUS
<1>13. NewEntry(i, k, n, c)
  <2>1. Added(dents[i], dents'[i], k, <<n, c>>) /\ disk'[i].size = Len(dents'[i])
    BY <1>2, <1>3, <1>4, <1>5, <1>12
  <2>2. disk[c].type = "dir" => /\ disk[c].nlink = 0 /\ Live(c)' /\ disk'[c].size = 2 /\ Len(dents'[c]) = 2
                                /\ dents'[c][1] = <<".", c>> /\ dents'[c][2] = <<"..", i>>
    BY <1>1, <1>2, <1>3, <1>4, <1>10
  <2> QED BY <1>1, <1>2, <1>8, <1>10, <1>11, <1>12, <2>1, <2>2 DEF NewEntry
<1>14. NewCounts(i, c)
  <2>1. Pending(c)' = Pending(c) /\ \A j \in Inums \ {c} : Pending(j)' = Pending(j)
    BY <1>1 DEF PendingKept
  <2>2. Cardinality(Pending(c)') = 0
    BY <1>6, <2>1
  <2>3. disk'[c].nlink = Cardinality(Ents(c)) + 1 + Cardinality(Pending(c)') /\ disk'[c].nlink = 1
    BY <1>2, <1>3, <1>6, <2>2
  <2>4. NLINK_MAX \in Nat /\ NLINK_MAX >= 1 /\ disk[i].nlink <= NLINK_MAX
    BY <1>1, FileSystemAssumption DEF CountOK
  <2>5. disk'[i].nlink = disk[i].nlink + One(disk[c].type = "dir")
    BY <1>2, <1>3
  <2>6. disk'[i].nlink <= NLINK_MAX
    <3>1. CASE disk[c].type = "dir"
      BY <1>1, <2>4, <2>5, <3>1 DEF One
    <3>2. CASE disk[c].type # "dir"
      BY <1>1, <2>4, <2>5, <3>2 DEF One
    <3> QED BY <3>1, <3>2
  <2> QED BY <2>1, <2>3, <2>4, <2>5, <2>6 DEF NewCounts
<1> QED BY <1>1, <1>13, <1>14, EntryLinks

LEMMA CreateStep ==
  ASSUME FsInv, NEW p \in Procs, NEW i, NEW c, NEW r, NEW w, NEW v, NEW d, NEW e, NEW s,
         CreateState(p, i, c, r, w, v), Creating(p, i, c, r, w, v, d, e, s)
  PROVE  FsInv'
<1>1. CreateDone(p, i, c, r, w, v, d, e, s)
  BY CreateWrites, Zenon
<1>2. CreateGoesOn(p, i, c, r, v, s)
  BY CreateNext, Zenon
<1>3. /\ TypeOK /\ BlockInv /\ boot = 0 /\ p # None /\ r = pr[p] /\ i \in Inums /\ c \in Inums /\ i # c
      /\ mem[i].lock = p /\ mem[c].lock = None /\ Held(p, i) >= 1 /\ Held(p, c) >= 1
      /\ Owned(disk[c]) = {} /\ Made(c, i, r.call = "mkdir", w) /\ Entered(i, r.name, c, w, v)
  BY DEF CreateState
<1>4. /\ UNCHANGED <<boot, panicked>> /\ UNCHANGED <<cwd, fd>> /\ disk' = [disk EXCEPT ![c] = d, ![i] = e] /\ bitmap' = v.used
      /\ pr' = [pr EXCEPT ![p] = s]
  BY DEF Creating
<1>5. boot' = 0 /\ panicked' = "no" /\ pr'[p] = s /\ Alone(p)
  BY <1>3, <1>4 DEF TypeOK, Alone
<1>6. BlockInv' /\ bitmap' \subseteq Blocks
  <2>1. PICK b, n : b = (r.call = "mkdir") /\ n = r.name
    OBVIOUS
  <2>2. Made(c, i, b, w) /\ Entered(i, n, c, w, v) /\ d \in Dinode /\ Owned(d) = Owned(w.d) /\ Owned(e) = Owned(v.d)
    BY <1>1, <1>3, <2>1 DEF CreateDone
  <2>3. BlocksOK([disk EXCEPT ![c] = d, ![i] = e], v.used) /\ v.used \subseteq Blocks
    BY <1>3, <2>2, CreateBlocks
  <2> QED BY <1>4, <2>3 DEF BlockInv
<1>7. PendingKept
  <2>1. \A j \in Inums : ~Pends(s, j) /\ ~Pends(r, j) /\ ~Removes(s, j) /\ ~Removes(r, j)
    BY <1>2 DEF CreateGoesOn
  <2> QED BY <1>3, <1>5, <2>1, PendingSame
<1>8. LinkInv'
  <2>1. CASE v.ok
    BY <1>1, <1>7, <2>1, CreateLinksMade, Zenon
  <2>2. CASE ~v.ok
    BY <1>1, <1>7, <2>2, CreateLinksKept, Zenon
  <2> QED BY <2>1, <2>2
<1>9. ProcOK(p)'
  <2>1. /\ Shape(s) /\ s.put = "start" /\ s.pc \in {"drop_dp", "open_locked", "end"} /\ (s.pc = "drop_dp" => s.ip = 0)
    BY <1>2 DEF CreateGoesOn
  <2> QED BY <1>5, <2>1, PlainProc
<1>10. WroteOne(p, s, i)
  <2>1. /\ disk'[i].type = disk[i].type /\ mem'[i].ref = mem[i].ref /\ mem'[i].valid /\ mem'[i].d = disk'[i]
        /\ mem'[i].lock = (IF v.ok THEN None ELSE p)
    BY <1>1 DEF CreateDone
  <2>2. Locks(s, i) <=> ~v.ok
    BY <1>2 DEF CreateGoesOn
  <2> QED BY <1>3, <2>1, <2>2 DEF WroteOne
<1>11. WroteOne(p, s, c)
  <2>1. /\ disk'[c].type = disk[c].type /\ mem'[c].ref = mem[c].ref /\ mem'[c].valid /\ mem'[c].d = disk'[c]
        /\ mem'[c].lock = (IF v.ok /\ r.call = "creat" THEN p ELSE None)
    BY <1>1 DEF CreateDone
  <2>2. Locks(s, c) <=> (v.ok /\ r.call = "creat")
    BY <1>2 DEF CreateGoesOn
  <2> QED BY <1>3, <2>1, <2>2 DEF WroteOne
<1>12. WroteBoth(p, i, c, s)
  <2>1. /\ disk' \in [Inums -> Dinode] /\ dents' \in [Inums -> Seq(Entry)] /\ mem' \in [Inums -> Slot]
        /\ \A j \in Inums \ {i, c} : mem'[j] = mem[j] /\ disk'[j] = disk[j] /\ dents'[j] = dents[j]
    BY <1>1 DEF CreateDone
  <2>2. /\ s \in CallRec
        /\ \A j \in Inums : HeldBy(s, cwd[p], fd[p], j) = HeldBy(pr[p], cwd[p], fd[p], j)
        /\ \A j \in Inums \ {i, c} : (Locks(s, j) <=> Locks(pr[p], j)) /\ ~Works(pr[p], j)
    BY <1>2, <1>3 DEF CreateGoesOn
  <2> QED BY <1>3, <1>4, <1>10, <1>11, <2>1, <2>2 DEF WroteBoth
<1> QED BY <1>3, <1>5, <1>6, <1>8, <1>9, <1>12, WriteTwo

LEMMA CreateIpKeeps ==
  ASSUME FsInv, NEW p \in Procs, CreateIp(p)
  PROVE  FsInv'
<1>1. /\ Running(p, "create_ip") /\ ilock(pr[p].ip)
  BY DEF CreateIp
<1> DEFINE r == pr[p]
           i == pr[p].dp
           c == pr[p].ip
           new == [ok |-> TRUE, used |-> bitmap, ents |-> <<>>, d |-> [Inode(c) EXCEPT !.nlink = 1]]
           dot == IF r.call = "mkdir" THEN dirlink(new, ".", c) ELSE new
           dotdot == IF r.call = "mkdir" /\ dot.ok THEN dirlink(dot, "..", i) ELSE dot
           dir == [ok |-> FALSE, used |-> dotdot.used, ents |-> dents[i], d |-> mem[i].d]
           entry == IF dotdot.ok THEN dirlink(dir, r.name, c) ELSE dir
           dd == IF entry.ok THEN dotdot.d ELSE [dotdot.d EXCEPT !.nlink = 0]
           dpd == IF entry.ok /\ r.call = "mkdir" THEN [entry.d EXCEPT !.nlink = @ + 1] ELSE entry.d
<1>8. /\ disk' = [disk EXCEPT ![c] = dd, ![i] = dpd]
      /\ dents' = [dents EXCEPT ![c] = dotdot.ents, ![i] = entry.ents]
      /\ bitmap' = entry.used
      /\ mem' = [Left(c, dd, IF entry.ok /\ r.call = "creat" THEN p ELSE None) EXCEPT
                   ![i].d = dpd, ![i].lock = IF entry.ok THEN None ELSE p]
      /\ pr' = [pr EXCEPT ![p] =
                  IF ~entry.ok THEN [@ EXCEPT !.pc = "drop_dp", !.puts = <<c>>, !.ip = 0]
                  ELSE IF r.call = "creat"
                  THEN [@ EXCEPT !.pc = "open_locked", !.puts = <<i>>, !.dp = 0]
                  ELSE [@ EXCEPT !.pc = "end", !.puts = <<i, c>>, !.dp = 0, !.ip = 0]]
      /\ UNCHANGED <<boot, panicked>> /\ UNCHANGED <<cwd, fd>>
  BY Zenon DEF CreateIp, bootVars
<1>2. r = pr[p] /\ i = r.dp /\ c = r.ip
  OBVIOUS
<1> HIDE DEF r, i, c
<1>3. boot = 0 /\ r.pc = "create_ip" /\ r.puts = <<>> /\ mem[c].lock = None
  BY <1>1, <1>2 DEF Running, ilock
<1>4. PICK w, v : w = ChildMade(c, i, r.call = "mkdir") /\ v = ParentMade(i, r.name, c, w)
  OBVIOUS
<1>5. CreateState(p, i, c, r, w, v)
  BY <1>2, <1>3, <1>4, CreateFrom
<1>6. TypeOK /\ r \in CallRec /\ i \in Inums /\ c \in Inums /\ mem[i].d = disk[i] /\ Inode(c) = disk[c]
  BY <1>2, <1>3, <1>5, Ready DEF CreateState
<1>7. PICK d, e, s :
        /\ d = (IF v.ok THEN w.d ELSE [w.d EXCEPT !.nlink = 0])
        /\ e = (IF v.ok /\ r.call = "mkdir" THEN [v.d EXCEPT !.nlink = v.d.nlink + 1] ELSE v.d)
        /\ s = (IF ~v.ok THEN [r EXCEPT !.pc = "drop_dp", !.puts = <<c>>, !.ip = 0]
                ELSE IF r.call = "creat" THEN [r EXCEPT !.pc = "open_locked", !.puts = <<i>>, !.dp = 0]
                ELSE [r EXCEPT !.pc = "end", !.puts = <<i, c>>, !.dp = 0, !.ip = 0])
  OBVIOUS
<1>9. dotdot = w
  <2>1. new = ChildNew(c)
    BY <1>6 DEF ChildNew
  <2>2. dot = ChildDot(c, r.call = "mkdir")
    BY <2>1, Zenon DEF ChildDot
  <2> QED BY <1>4, <2>2, Zenon DEF ChildMade
<1>10. entry = v
  <2>1. dir = ParentView(i, w.used)
    BY <1>6, <1>9 DEF ParentView
  <2> HIDE DEF dotdot, dir
  <2> QED BY <1>4, <1>9, <2>1, Zenon DEF ParentMade
<1> HIDE DEF dotdot, entry
<1>11. dd = d /\ dpd = e
  BY <1>7, <1>9, <1>10
<1> HIDE DEF dd, dpd
<1>12. pr' = [pr EXCEPT ![p] = s]
  BY <1>2, <1>6, <1>7, <1>8, <1>10 DEF TypeOK
<1>13. mem' = [Left(c, d, IF v.ok /\ r.call = "creat" THEN p ELSE None) EXCEPT
                 ![i].d = e, ![i].lock = IF v.ok THEN None ELSE p]
  BY <1>8, <1>10, <1>11
<1>14. disk' = [disk EXCEPT ![c] = d, ![i] = e] /\ dents' = [dents EXCEPT ![c] = w.ents, ![i] = v.ents] /\ bitmap' = v.used
       /\ UNCHANGED <<boot, panicked>> /\ UNCHANGED <<cwd, fd>>
  BY <1>8, <1>9, <1>10, <1>11
<1>15. Creating(p, i, c, r, w, v, d, e, s)
  BY <1>2, <1>3, <1>4, <1>7, <1>12, <1>13, <1>14 DEF Creating
<1> QED BY <1>5, <1>15, CreateStep

-----------------------------------------------------------------------------
(* sys_unlink() clears an entry.                                            *)

\* Live directory i loses its entry k for inode c; a directory c is empty, and no
\* longer live.
GoneEntry(i, k, c) ==
  /\ i \in Inums /\ c \in Inums /\ i # c /\ k \in Places /\ Child(i, k, c)
  /\ Len(dents'[i]) = Len(dents[i]) /\ dents'[i][k] = FreeEnt
  /\ \A b \in 1..disk[i].size : b # k => dents'[i][b] = dents[i][b]
  /\ disk'[i].size = disk[i].size /\ disk'[i].type = disk[i].type
  /\ disk'[i].nlink = disk[i].nlink - One(disk[c].type = "dir")
  /\ \A j \in Inums \ {i} : disk'[j] = disk[j] /\ dents'[j] = dents[j]
  /\ \A j \in Inums \ {c} : Removing(j)' <=> Removing(j)
  /\ Removing(c)'
  /\ disk[c].type = "dir" => Live(c) /\ \A b \in 3..disk[c].size : dents[c][b][2] = 0

LEMMA GonePlace ==
  ASSUME TypeOK, LinkInv, NEW i, NEW k, NEW c, GoneEntry(i, k, c)
  PROVE  /\ k \in Nat /\ k >= 3 /\ k <= disk[i].size /\ dents[i][k][2] = c /\ disk[i].size \in Nat /\ dents[i][k][1] \notin {".", ".."}
         /\ disk[i].size = Len(dents[i]) /\ disk[i].size >= 2 /\ disk[i].size <= MAXFILE * Dirents
         /\ dents[i][1] = <<".", i>> /\ dents[i][2][1] = ".." /\ dents[i][2][2] # 0
         /\ dents'[i][1] = dents[i][1] /\ dents'[i][2] = dents[i][2] /\ dents'[i][k][2] = 0
         /\ disk[i].type = "dir" /\ disk[i].nlink > 0 /\ Live(i) /\ i # 0 /\ c # 0
<1>1. i \in Inums /\ c \in Inums /\ k \in Places /\ Live(i) /\ k \in 3..disk[i].size /\ dents[i][k][2] = c
  BY DEF GoneEntry, Child
<1>2. i # 0 /\ c # 0 /\ k \in Nat /\ disk[i].size \in Nat
  BY <1>1, InumRange, PlacesFinite, DiskTypes DEF Places
<1>3. disk[i].type = "dir" /\ disk[i].nlink > 0
  BY <1>1 DEF Live
<1>4. /\ disk[i].size = Len(dents[i]) /\ disk[i].size >= 2 /\ disk[i].size <= MAXFILE * Dirents
      /\ dents[i][1] = <<".", i>> /\ dents[i][2][1] = ".." /\ dents[i][2][2] # 0
      /\ \A b \in 3..disk[i].size : dents[i][b][2] # 0 => dents[i][b][1] \notin {".", ".."}
  BY <1>1, <1>3 DEF LinkInv, DirOK
<1>5. dents[i][k][1] \notin {".", ".."}
  BY <1>1, <1>2, <1>4
<1>6. k >= 3 /\ k <= disk[i].size /\ 1 \in 1..disk[i].size /\ 2 \in 1..disk[i].size
  BY <1>1, <1>2, <1>4
<1>7. dents'[i][1] = dents[i][1] /\ dents'[i][2] = dents[i][2]
  BY <1>6 DEF GoneEntry
<1>8. dents'[i][k][2] = 0
  BY DEF GoneEntry, FreeEnt
<1> QED BY <1>1, <1>2, <1>3, <1>4, <1>5, <1>6, <1>7, <1>8

\* The directory that goes.
GoneDirOK(i, k, c) ==
  /\ c # ROOTINO /\ Live(c) /\ dents[c][2][2] = i /\ \A l \in Places : Child(i, l, c) => l = k
  /\ disk[c].size \in Nat /\ disk[c].size >= 2 /\ dents[c][1][1] = "." /\ dents[c][2][1] = ".."
  /\ \A b \in 3..disk[c].size : dents[c][b][2] = 0
  /\ <<c, 2>> \in Ents(i) /\ 2 \in Places

LEMMA GoneDir ==
  ASSUME TypeOK, LinkInv, NEW i, NEW k, NEW c, GoneEntry(i, k, c), disk[c].type = "dir"
  PROVE  GoneDirOK(i, k, c)
<1>1. i \in Inums /\ c \in Inums /\ k \in Places /\ Child(i, k, c) /\ Live(c) /\ \A b \in 3..disk[c].size : dents[c][b][2] = 0
  BY DEF GoneEntry
<1>2. c # ROOTINO /\ Live(c) /\ dents[c][2][2] = i /\ \A l \in Places : Child(i, l, c) => l = k
  BY <1>1 DEF LinkInv, TreeOK
<1>3. disk[c].size \in Nat /\ disk[c].size >= 2 /\ dents[c][1] = <<".", c>> /\ dents[c][2][1] = ".."
  BY <1>1, DiskTypes DEF LinkInv, DirOK, Live
<1>4. 2 \in 1..disk[c].size /\ i # 0
  BY <1>1, <1>3, InumRange
<1>5. <<c, 2>> \in Ents(i) /\ 2 \in Places
  BY <1>1, <1>2, <1>4, Named
<1>6. dents[c][1][1] = "."
  BY <1>3
<1> QED BY <1>1, <1>2, <1>3, <1>5, <1>6 DEF GoneDirOK

LEMMA GoneParent ==
  ASSUME TypeOK, LinkInv, NEW i, NEW k, NEW c, GoneEntry(i, k, c)
  PROVE  /\ Live(i)' /\ disk'[i].nlink > 0 /\ \A j \in Inums \ {c} : Live(j)' <=> Live(j)
         /\ ~Live(c)' /\ (disk[c].type # "dir" => ~Live(c))
<1>1. /\ i \in Inums /\ c \in Inums /\ i # c /\ Live(i) /\ disk[i].nlink \in Int /\ CountOK(i) /\ disk[i].nlink > 0
      /\ disk'[i].nlink = disk[i].nlink - One(disk[c].type = "dir") /\ disk'[i].type = disk[i].type
      /\ \A j \in Inums \ {i} : disk'[j] = disk[j]
      /\ \A j \in Inums \ {c} : Removing(j)' <=> Removing(j)
      /\ Removing(c)'
  BY NlinkNat DEF GoneEntry, Child, LinkInv, Live
<1>2. disk'[i].nlink > 0
  <2>1. CASE disk[c].type # "dir"
    BY <1>1, <2>1 DEF One
  <2>2. CASE disk[c].type = "dir"
    <3>1. <<c, 2>> \in Ents(i)
      <4>1. GoneDirOK(i, k, c)
        BY <2>2, GoneDir
      <4> QED BY <4>1 DEF GoneDirOK
    <3>2. PICK x : x \in Ents(i) /\ x # <<c, 2>>
      <4>1. CASE i = ROOTINO
        <5>1. dents[i][2][2] = i /\ 2 \in 1..disk[i].size /\ i # 0
          BY <1>1, <4>1, GonePlace DEF LinkInv, TreeOK
        <5>2. <<i, 2>> \in Ents(i)
          BY <1>1, <5>1, Named
        <5> QED BY <1>1, <5>2
      <4>2. CASE i # ROOTINO
        <5>1. PICK b \in Places : Child(dents[i][2][2], b, i)
          BY <1>1, <4>2 DEF LinkInv, TreeOK
        <5>2. 2 \in 1..disk[i].size /\ dents[i][2][2] # 0
          BY GonePlace
        <5>3. PICK a \in Inums : a = dents[i][2][2]
          BY <1>1, <5>2, Named
        <5>4. Live(a) /\ b \in 3..disk[a].size /\ dents[a][b][2] = i /\ disk[a].size \in Nat
          BY <5>1, <5>3, DiskTypes DEF Child
        <5>5. b \in 1..disk[a].size /\ i # 0 /\ b # 2 /\ b >= 2
          BY <1>1, <5>4, InumRange
        <5>6. <<a, b>> \in Ents(i)
          BY <1>1, <5>3, <5>4, <5>5, Named
        <5> QED BY <5>5, <5>6
      <4> QED BY <4>1, <4>2
    <3>3. IsFiniteSet(Ents(i)) /\ Cardinality(Ents(i)) \in Nat /\ Cardinality(Pending(i)) \in Nat
      BY LinkSets
    <3>4. IsFiniteSet(Ents(i) \ {<<c, 2>>}) /\ Cardinality(Ents(i) \ {<<c, 2>>}) = Cardinality(Ents(i)) - 1
      BY <3>1, <3>3, FS_RemoveElement
    <3>5. Cardinality(Ents(i) \ {<<c, 2>>}) # 0 /\ Cardinality(Ents(i) \ {<<c, 2>>}) \in Nat
      BY <3>2, <3>4, FS_EmptySet, FS_CardinalityType
    <3>6. PICK m, n, h : m = Cardinality(Ents(i)) /\ n = Cardinality(Pending(i)) /\ h = Cardinality(Ents(i) \ {<<c, 2>>})
      OBVIOUS
    <3>7. disk[i].nlink = m + n /\ disk'[i].nlink = disk[i].nlink - 1
      BY <1>1, <2>2, <3>6 DEF CountOK, One
    <3> QED BY <3>3, <3>4, <3>5, <3>6, <3>7
  <2> QED BY <2>1, <2>2
<1>3. Live(i)'
  BY <1>1, <1>2 DEF Live
<1>4. \A j \in Inums \ {c} : Live(j)' <=> Live(j)
  <2>1. \A j \in Inums \ {i, c} : Live(j)' <=> Live(j)
    BY <1>1 DEF Live
  <2> QED BY <1>1, <1>3, <2>1
<1>5. ~Live(c)' /\ (disk[c].type # "dir" => ~Live(c))
  BY <1>1 DEF Live
<1> QED BY <1>2, <1>3, <1>4, <1>5

\* The entries that count as links, afterwards.
LEMMA GoneEnts ==
  ASSUME TypeOK, LinkInv, NEW i, NEW k, NEW c, GoneEntry(i, k, c)
  PROVE  /\ <<i, k>> \in Ents(c) /\ Ents(c)' = Ents(c) \ {<<i, k>>}
         /\ Ents(i)' = IF disk[c].type = "dir" THEN Ents(i) \ {<<c, 2>>} ELSE Ents(i)
         /\ \A z \in Inums \ {i, c} : Ents(z)' = Ents(z)
<1>1. /\ i \in Inums /\ c \in Inums /\ i # c /\ k \in Places /\ disk'[i].size = disk[i].size
      /\ \A b \in 1..disk[i].size : b # k => dents'[i][b] = dents[i][b]
      /\ \A j \in Inums \ {i} : disk'[j] = disk[j] /\ dents'[j] = dents[j]
  BY DEF GoneEntry
<1>2. /\ Live(i)' /\ Live(i) /\ (\A j \in Inums \ {c} : Live(j)' <=> Live(j)) /\ ~Live(c)' /\ (disk[c].type # "dir" => ~Live(c))
  BY GoneParent, GonePlace
<1>3. /\ k \in Nat /\ k >= 3 /\ k <= disk[i].size /\ dents[i][k][2] = c /\ disk[i].size \in Nat /\ dents[i][k][1] \notin {".", ".."}
      /\ dents'[i][k][2] = 0 /\ 0 \notin Inums
  BY GonePlace, InumRange
<1>4. ASSUME NEW z \in Inums, NEW b \in Places PROVE <<i, b>> \in Ents(z)' <=> <<i, b>> \in Ents(z) /\ ~(b = k /\ z = c)
  <2>0. b \in Nat /\ b >= 1
    BY PlacesFinite DEF Places
  <2>1. <<i, b>> \in Ents(z)' <=> b <= disk[i].size /\ dents'[i][b][1] # "." /\ dents'[i][b][2] = z
    BY <1>1, <1>2, EntsIs
  <2>2. <<i, b>> \in Ents(z) <=> b <= disk[i].size /\ dents[i][b][1] # "." /\ dents[i][b][2] = z
    BY <1>1, <1>2, EntsIs
  <2>3. CASE b = k
    BY <1>3, <2>1, <2>2, <2>3
  <2>4. CASE b # k
    BY <1>1, <1>3, <2>0, <2>1, <2>2, <2>4
  <2> QED BY <2>3, <2>4
<1>5. ASSUME NEW z \in Inums, NEW b \in Places PROVE <<c, b>> \notin Ents(z)' /\ (<<c, b>> \in Ents(z) <=> disk[c].type = "dir" /\ b = 2 /\ z = i)
  <2>0. b \in Nat /\ b >= 1
    BY PlacesFinite DEF Places
  <2>1. <<c, b>> \notin Ents(z)'
    BY <1>2, EntsIs
  <2>2. <<c, b>> \in Ents(z) <=> Live(c) /\ b <= disk[c].size /\ dents[c][b][1] # "." /\ dents[c][b][2] = z
    BY <1>1, EntsIs
  <2>3. CASE disk[c].type = "dir"
    <3>1. /\ Live(c) /\ dents[c][2][2] = i /\ disk[c].size \in Nat /\ disk[c].size >= 2 /\ dents[c][1][1] = "." /\ dents[c][2][1] = ".."
          /\ \A l \in 3..disk[c].size : dents[c][l][2] = 0
      <4>1. GoneDirOK(i, k, c)
        BY <2>3, GoneDir
      <4> QED BY <4>1 DEF GoneDirOK
    <3>2. CASE b = 1
      BY <2>1, <2>2, <3>1, <3>2
    <3>3. CASE b = 2
      BY <2>1, <2>2, <2>3, <3>1, <3>3
    <3>4. CASE b >= 3
      <4>1. ~(b <= disk[c].size /\ dents[c][b][2] = z)
        BY <1>3, <2>0, <3>1, <3>4
      <4> QED BY <2>1, <2>2, <3>4, <4>1
    <3> QED BY <2>0, <3>2, <3>3, <3>4
  <2>4. CASE disk[c].type # "dir"
    BY <1>2, <2>1, <2>2, <2>4
  <2> QED BY <2>3, <2>4
<1>6. ASSUME NEW z \in Inums, NEW a \in Inums \ {i, c}, NEW b \in Places PROVE <<a, b>> \in Ents(z)' <=> <<a, b>> \in Ents(z)
  BY <1>1, <1>2, EntsIs
<1>7. \A z : Ents(z) \subseteq Inums \X Places /\ Ents(z)' \subseteq Inums \X Places
  BY EntsIs
<1>8. ASSUME NEW z \in Inums, NEW x \in Inums \X Places
      PROVE  x \in Ents(z)' <=> x \in Ents(z) /\ ~(x = <<i, k>> /\ z = c) /\ ~(disk[c].type = "dir" /\ x = <<c, 2>> /\ z = i)
  <2>1. PICK a \in Inums, b \in Places : x = <<a, b>>
    OBVIOUS
  <2>2. CASE a = i
    BY <1>1, <1>4, <2>1, <2>2
  <2>3. CASE a = c
    BY <1>1, <1>5, <2>1, <2>3
  <2>4. CASE a \notin {i, c}
    BY <1>6, <2>1, <2>4
  <2> QED BY <2>2, <2>3, <2>4
<1>9. <<i, k>> \in Inums \X Places
  BY <1>1
<1>10. <<i, k>> \in Ents(c)
  BY <1>1, <1>2, <1>3, EntsIs
<1>11. Ents(c)' = Ents(c) \ {<<i, k>>}
  BY <1>1, <1>7, <1>8
<1>12. disk[c].type = "dir" => Ents(i)' = Ents(i) \ {<<c, 2>>}
  BY <1>1, <1>7, <1>8
<1>13. disk[c].type # "dir" => Ents(i)' = Ents(i)
  BY <1>1, <1>7, <1>8
<1>14. \A z \in Inums \ {i, c} : Ents(z)' = Ents(z)
  BY <1>1, <1>7, <1>8
<1> QED BY <1>10, <1>11, <1>12, <1>13, <1>14

LEMMA GoneTree ==
  ASSUME TypeOK, LinkInv, NEW i, NEW k, NEW c, GoneEntry(i, k, c)
  PROVE  TreeOK'
<1>1. /\ i \in Inums /\ c \in Inums /\ i # c /\ k \in Places /\ disk'[i].size = disk[i].size
      /\ \A b \in 1..disk[i].size : b # k => dents'[i][b] = dents[i][b]
      /\ \A j \in Inums \ {i} : disk'[j] = disk[j] /\ dents'[j] = dents[j]
      /\ \A j \in Inums : disk'[j].type = disk[j].type
  BY DEF GoneEntry
<1>2. /\ Live(i)' /\ Live(i) /\ (\A j \in Inums \ {c} : Live(j)' <=> Live(j)) /\ ~Live(c)' /\ (disk[c].type # "dir" => ~Live(c))
  BY GoneParent, GonePlace
<1>3. /\ k \in Nat /\ k >= 3 /\ k <= disk[i].size /\ dents[i][k][2] = c /\ disk[i].size \in Nat
      /\ dents'[i][k][2] = 0 /\ 0 \notin Inums /\ dents'[i][2] = dents[i][2]
  BY GonePlace, InumRange
<1>4. disk[c].type = "dir" => c # ROOTINO /\ dents[c][2][2] = i /\ (\A l \in Places : Child(i, l, c) => l = k) /\ \A b \in 3..disk[c].size : dents[c][b][2] = 0
  <2>1. disk[c].type = "dir" => GoneDirOK(i, k, c)
    BY GoneDir
  <2> QED BY <2>1 DEF GoneDirOK
<1>5. \A j \in Inums : dents'[j][2] = dents[j][2]
  BY <1>1, <1>3
<1>6. ASSUME NEW a \in Inums, NEW b \in Places, NEW z \in Inums
      PROVE  Child(a, b, z)' <=> Child(a, b, z) /\ ~(a = i /\ b = k)
  <2>0. b \in Nat
    BY PlacesFinite DEF Places
  <2>1. CASE a = i
    <3>1. CASE b = k
      BY <1>1, <1>3, <2>0, <2>1, <3>1 DEF Child
    <3>2. CASE b # k
      BY <1>1, <1>2, <1>3, <2>0, <2>1, <3>2 DEF Child
    <3> QED BY <3>1, <3>2
  <2>2. CASE a = c
    <3>1. ~Child(a, b, z)'
      BY <1>2, <2>2 DEF Child
    <3>2. ~Child(a, b, z)
      BY <1>2, <1>3, <1>4, <2>2 DEF Child
    <3> QED BY <3>1, <3>2
  <2>3. CASE a \notin {i, c}
    BY <1>1, <1>2, <2>3 DEF Child
  <2> QED BY <2>1, <2>2, <2>3
<1>7. ROOTINO \in Inums /\ Live(ROOTINO) /\ dents[ROOTINO][2][2] = ROOTINO
  BY FileSystemAssumption DEF LinkInv, TreeOK, ROOTINO, Inums
<1>8. ROOTINO # c
  BY <1>2, <1>4, <1>7
<1>9. Live(ROOTINO)' /\ dents'[ROOTINO][2][2] = ROOTINO
  BY <1>2, <1>5, <1>7, <1>8
<1>10. ASSUME NEW a \in Inums, NEW z \in Inums, NEW b \in Places, Child(a, b, z)', disk'[z].type = "dir"
       PROVE  z # ROOTINO /\ Live(z)' /\ dents'[z][2][2] = a /\ \A l \in Places : Child(a, l, z)' => l = b
  <2>1. disk[z].type = "dir" /\ Child(a, b, z) /\ ~(a = i /\ b = k)
    BY <1>1, <1>6, <1>10
  <2>2. z # ROOTINO /\ Live(z) /\ dents[z][2][2] = a /\ \A l \in Places : Child(a, l, z) => l = b
    BY <2>1 DEF LinkInv, TreeOK
  <2>3. z # c
    BY <1>4, <2>1, <2>2
  <2> QED BY <1>2, <1>5, <1>6, <2>2, <2>3
<1>11. ASSUME NEW z \in Inums \ {ROOTINO}, Live(z)' PROVE \E b \in Places : Child(dents[z][2][2], b, z)'
  <2>1. z # c /\ Live(z) /\ dents'[z][2] = dents[z][2]
    BY <1>2, <1>5, <1>11
  <2>2. dents[z][2][2] \in Inums
    <3>1. 2 \in 1..disk[z].size /\ dents[z][2][2] # 0
      BY <2>1, DiskTypes DEF LinkInv, DirOK, Live
    <3> QED BY <2>1, <3>1, Named
  <2>3. PICK b \in Places : Child(dents[z][2][2], b, z)
    BY <2>1 DEF LinkInv, TreeOK
  <2>4. PICK a \in Inums : a = dents[z][2][2] /\ a = dents'[z][2][2]
    BY <2>1, <2>2
  <2>5. Child(a, b, z) /\ ~(a = i /\ b = k)
    BY <1>3, <2>1, <2>3, <2>4 DEF Child
  <2>6. Child(a, b, z)'
    BY <1>6, <2>5
  <2> QED BY <2>4, <2>6
<1> QED BY <1>9, <1>10, <1>11 DEF TreeOK

LEMMA GoneLinks ==
  ASSUME TypeOK, LinkInv, NEW i, NEW k, NEW c, GoneEntry(i, k, c),
         Cardinality(Pending(c)') = Cardinality(Pending(c)) + 1, \A j \in Inums \ {c} : Pending(j)' = Pending(j)
  PROVE  LinkInv'
<1>1. /\ i \in Inums /\ c \in Inums /\ i # c /\ k \in Places /\ disk'[i].size = disk[i].size /\ disk'[i].type = disk[i].type
      /\ Len(dents'[i]) = Len(dents[i])
      /\ \A b \in 1..disk[i].size : b # k => dents'[i][b] = dents[i][b]
      /\ \A j \in Inums \ {i} : disk'[j] = disk[j] /\ dents'[j] = dents[j]
      /\ disk'[i].nlink = disk[i].nlink - One(disk[c].type = "dir")
  BY DEF GoneEntry
<1>2. TreeOK'
  BY GoneTree
<1>3. /\ <<i, k>> \in Ents(c) /\ Ents(c)' = Ents(c) \ {<<i, k>>}
      /\ Ents(i)' = (IF disk[c].type = "dir" THEN Ents(i) \ {<<c, 2>>} ELSE Ents(i))
      /\ \A z \in Inums \ {i, c} : Ents(z)' = Ents(z)
  BY GoneEnts
<1>4. \A z : IsFiniteSet(Ents(z)) /\ Cardinality(Ents(z)) \in Nat /\ Cardinality(Pending(z)) \in Nat /\ Cardinality(Pending(z)') \in Nat
  BY LinkSets
<1>5. CountOK(c) /\ CountOK(i) /\ DirOK(c) /\ DirOK(i) /\ disk[i].nlink \in Int /\ disk[c].nlink \in Int
  BY <1>1, DiskTypes DEF LinkInv
<1>6. CountOK(c)'
  <2>1. Cardinality(Ents(c)') = Cardinality(Ents(c)) - 1
    BY <1>3, <1>4, FS_RemoveElement
  <2>2. PICK a, b, h, g : /\ a \in Nat /\ b \in Nat /\ a = Cardinality(Ents(c)) /\ b = Cardinality(Pending(c))
                          /\ h = Cardinality(Ents(c)') /\ g = Cardinality(Pending(c)')
    BY <1>4
  <2>3. disk'[c] = disk[c] /\ disk[c].nlink = a + b /\ h = a - 1 /\ g = b + 1
    BY <1>1, <1>5, <2>1, <2>2 DEF CountOK
  <2>4. disk'[c].nlink = h + g
    BY <2>2, <2>3
  <2>5. disk'[c].nlink = Cardinality(Ents(c)') + Cardinality(Pending(c)')
    BY <2>2, <2>4
  <2> QED BY <1>5, <2>3, <2>5 DEF CountOK
<1>7. CountOK(i)'
  <2>1. Cardinality(Ents(i)') = Cardinality(Ents(i)) - One(disk[c].type = "dir")
    <3>1. CASE disk[c].type = "dir"
      <4>1. <<c, 2>> \in Ents(i)
        <5>1. GoneDirOK(i, k, c)
          BY <3>1, GoneDir
        <5> QED BY <5>1 DEF GoneDirOK
      <4>2. Cardinality(Ents(i) \ {<<c, 2>>}) = Cardinality(Ents(i)) - 1
        BY <1>4, <4>1, FS_RemoveElement
      <4> QED BY <1>3, <3>1, <4>2 DEF One
    <3>2. CASE disk[c].type # "dir"
      BY <1>3, <1>4, <3>2 DEF One
    <3> QED BY <3>1, <3>2
  <2>2. PICK a, b, h, e : /\ a \in Nat /\ b \in Nat /\ e \in {0, 1} /\ a = Cardinality(Ents(i)) /\ b = Cardinality(Pending(i))
                          /\ h = Cardinality(Ents(i)') /\ e = One(disk[c].type = "dir")
    BY <1>4 DEF One
  <2>3. disk[i].nlink = a + b /\ h = a - e /\ disk'[i].nlink = disk[i].nlink - e /\ Pending(i)' = Pending(i)
    BY <1>1, <1>5, <2>1, <2>2 DEF CountOK
  <2>4. disk'[i].nlink = h + b
    BY <2>2, <2>3
  <2>5. disk'[i].nlink = Cardinality(Ents(i)') + Cardinality(Pending(i)')
    BY <2>2, <2>3, <2>4
  <2>6. disk'[i].nlink <= NLINK_MAX
    <3>1. disk[i].nlink <= NLINK_MAX /\ NLINK_MAX \in Nat
      BY <1>5, FileSystemAssumption DEF CountOK
    <3> QED BY <1>5, <2>2, <2>3, <3>1
  <2>7. disk[i].type = "dir"
    BY GonePlace
  <2> QED BY <1>1, <2>5, <2>6, <2>7 DEF CountOK
<1>8. ASSUME NEW j \in Inums \ {i, c} PROVE CountOK(j)'
  <2>1. CountOK(j) /\ disk'[j] = disk[j] /\ Pending(j)' = Pending(j) /\ Ents(j)' = Ents(j)
    BY <1>1, <1>3, <1>8 DEF LinkInv
  <2> QED BY <2>1 DEF CountOK
<1>9. ASSUME NEW j \in Inums \ {i} PROVE DirOK(j)'
  <2>1. DirOK(j) /\ disk'[j] = disk[j] /\ dents'[j] = dents[j]
    BY <1>1, <1>9 DEF LinkInv
  <2> QED BY <2>1 DEF DirOK
<1>10. DirOK(i)'
  <2>1. /\ disk[i].size = Len(dents[i]) /\ disk[i].size >= 2 /\ disk[i].size <= MAXFILE * Dirents /\ disk[i].size \in Nat
        /\ dents[i][1] = <<".", i>> /\ dents[i][2][1] = ".." /\ dents[i][2][2] # 0
        /\ dents'[i][1] = dents[i][1] /\ dents'[i][2] = dents[i][2] /\ dents'[i][k][2] = 0 /\ disk[i].nlink > 0 /\ disk[i].type = "dir"
    BY GonePlace
  <2>2. disk'[i].nlink > 0
    BY GoneParent
  <2>3. \A b \in 3..disk[i].size : dents[i][b][2] # 0 => dents[i][b][1] \notin {".", ".."}
    BY <1>5, <2>1 DEF DirOK
  <2>4. ASSUME NEW b \in 3..disk[i].size, dents'[i][b][2] # 0 PROVE dents'[i][b][1] \notin {".", ".."}
    <3>1. b # k /\ b \in 1..disk[i].size
      BY <2>1, <2>4
    <3>2. dents'[i][b] = dents[i][b]
      BY <1>1, <3>1
    <3> QED BY <2>3, <2>4, <3>2
  <2>5. disk'[i].size = Len(dents'[i]) /\ dents'[i][1] = <<".", i>> /\ dents'[i][2][1] = ".." /\ dents'[i][2][2] # 0 /\ disk'[i].nlink # 0
    BY <1>1, <2>1, <2>2
  <2> QED BY <1>1, <2>1, <2>2, <2>4, <2>5 DEF DirOK
<1>11. \A j \in Inums : CountOK(j)' /\ DirOK(j)'
  BY <1>6, <1>7, <1>8, <1>9, <1>10
<1> QED BY <1>2, <1>11 DEF LinkInv

\* An empty directory has one link, its entry.
LEMMA EmptyDir ==
  ASSUME TypeOK, TableInv, LinkInv, boot = 0, NEW i \in Inums, NEW k \in Places, NEW c \in Inums, Child(i, k, c), disk[c].type = "dir",
         Live(c), mem[c].lock = None, \A b \in 3..disk[c].size : dents[c][b][2] = 0
  PROVE  disk[c].nlink = 1
<1>1. c # ROOTINO /\ Live(c) /\ dents[c][2][2] = i /\ \A l \in Places : Child(i, l, c) => l = k
  BY DEF LinkInv, TreeOK
<1>2. Pending(c) = {}
  <2>1. ASSUME NEW q \in Procs, Pends(pr[q], c) PROVE FALSE
    <3>1. ProcOK(q) /\ TableOK(c) /\ pr[q].ip = c /\ c # 0 /\ q # None
      BY <2>1, InumRange, FileSystemAssumption DEF TableInv, Pends
    <3>2. CASE pr[q].pc = "unlink_dec"
      <4>1. Locks(pr[q], c)
        BY <3>1, <3>2 DEF Locks
      <4> QED BY <3>1, <4>1 DEF TableOK
    <3>3. CASE pr[q].pc \in {"walk", "link_dp", "link_bad", "drop_dp"}
      BY <3>1, <3>3 DEF ProcOK
    <3> QED BY <2>1, <3>2, <3>3 DEF Pends
  <2> QED BY <2>1 DEF Pending
<1>3. <<i, k>> \in Ents(c)
  <2>1. Live(i) /\ k \in 3..disk[i].size /\ dents[i][k][2] = c /\ disk[i].size \in Nat /\ c # 0
    BY DiskTypes, InumRange DEF Child
  <2>2. k \in 1..disk[i].size /\ k >= 2
    BY <2>1
  <2> QED BY <2>1, <2>2, Named
<1>4. ASSUME NEW x \in Ents(c) PROVE x = <<i, k>>
  <2>1. PICK a \in Inums, b \in Places : x = <<a, b>>
    BY EntsIs
  <2>2. Live(a) /\ b <= disk[a].size /\ dents[a][b][1] # "." /\ dents[a][b][2] = c
    BY <1>4, <2>1, EntsIs
  <2>3. b \in Nat /\ b >= 1 /\ disk[a].size \in Nat /\ dents[a][1] = <<".", a>>
    BY <2>2, PlacesFinite, DiskTypes DEF Places, LinkInv, DirOK, Live
  <2>4. b # 1
    BY <2>2, <2>3
  <2>5. CASE b = 2
    <3>1. a # ROOTINO
      BY <1>1, <2>2, <2>5 DEF LinkInv, TreeOK
    <3>2. PICK l \in Places : Child(dents[a][2][2], l, a)
      BY <2>2, <3>1 DEF LinkInv, TreeOK
    <3>3. Child(c, l, a) /\ a # 0
      BY <2>2, <2>5, <3>2, InumRange
    <3> QED BY <3>3 DEF Child
  <2>6. CASE b # 2
    <3>1. b \in 3..disk[a].size
      BY <2>2, <2>3, <2>4, <2>6
    <3>2. Child(a, b, c)
      BY <2>2, <3>1 DEF Child
    <3>3. dents[c][2][2] = a
      BY <3>2 DEF LinkInv, TreeOK
    <3> QED BY <1>1, <2>1, <3>2, <3>3
  <2> QED BY <2>5, <2>6
<1>5. Ents(c) = {<<i, k>>}
  BY <1>3, <1>4
<1>6. Cardinality(Ents(c)) = 1 /\ Cardinality(Pending(c)) = 0
  BY <1>2, <1>5, FS_Singleton, FS_EmptySet
<1>7. CountOK(c)
  BY DEF LinkInv
<1> QED BY <1>6, <1>7 DEF CountOK


\* sys_unlink() under both locks: entry k of directory i, which names c, is cleared; e is what is written of i.
Unlinking(p, i, c, r, k, e, s) ==
  /\ UNCHANGED <<bitmap, boot, panicked>> /\ UNCHANGED <<cwd, fd>>
  /\ dents' = [dents EXCEPT ![i][k] = FreeEnt] /\ disk' = [disk EXCEPT ![i] = e]
  /\ e = (IF disk[c].type = "dir" THEN [disk[i] EXCEPT !.nlink = disk[i].nlink - 1] ELSE disk[i])
  /\ mem' = [Left(c, disk[c], p) EXCEPT ![i].d = e, ![i].lock = None]
  /\ pr' = [pr EXCEPT ![p] = s] /\ s = [r EXCEPT !.pc = "unlink_dec", !.puts = <<i>>, !.dp = 0]

\* Where it starts from.
UnlinkState(p, i, c, r, k) ==
  /\ TypeOK /\ TableInv /\ LinkInv /\ BlockInv /\ boot = 0 /\ p # None
  /\ r = pr[p] /\ r \in CallRec /\ Shape(r) /\ r.pc = "unlink_ip" /\ r.puts = <<>> /\ r.put = "start" /\ r.at = 0
  /\ r.dp = i /\ r.ip = c /\ i \in Inums /\ c \in Inums /\ i # c /\ i # 0 /\ c # 0 /\ r.call = "unlink"
  /\ mem[i].lock = p /\ mem[i].valid /\ mem[i].d = disk[i] /\ mem[c].lock = None
  /\ Held(p, i) >= 1 /\ Held(p, c) >= 1
  /\ k \in Places /\ Child(i, k, c) /\ k \in 1..Len(dents[i])
  /\ disk[c].type = "dir" => Live(c) /\ disk[c].nlink = 1 /\ \A b \in 3..disk[c].size : dents[c][b][2] = 0

LEMMA UnlinkFrom ==
  ASSUME FsInv, NEW p \in Procs, boot = 0, NEW i, NEW c, NEW r, NEW k,
         r = pr[p], r.pc = "unlink_ip", r.puts = <<>>, i = r.dp, c = r.ip, mem[c].lock = None,
         k = Min(Slots(i, r.name)), disk[c].nlink >= 1, disk[c].type = "dir" => isdirempty(c)
  PROVE  UnlinkState(p, i, c, r, k)
<1>1. /\ TypeOK /\ TableInv /\ LinkInv /\ BlockInv /\ ProcOK(p) /\ Shape(r) /\ p # None /\ r \in CallRec /\ r.put = "start"
      /\ (i # 0 => i \in Inums) /\ (c # 0 => c \in Inums) /\ \A j \in Inums : Inode(j) = disk[j]
  BY Ready
<1>2. /\ i # 0 /\ c # 0 /\ r.at = 0 /\ r.call = "unlink"
  BY <1>1 DEF Shape, HasDp, HasIp
<1>3. i \in Inums /\ c \in Inums
  BY <1>1, <1>2
<1>4. /\ disk[i].type = "dir" /\ disk[i].nlink > 0 /\ r.name \notin {".", ".."}
      /\ Found(i, r.name) # {} /\ dents[i][Min(Found(i, r.name))][2] = c
  BY <1>1 DEF ProcOK
<1>5. mem[i].lock = p /\ mem[i].valid /\ mem[i].d = disk[i]
  <2>1. Locks(r, i)
    BY DEF Locks
  <2>2. TableOK(i)
    BY <1>1, <1>3 DEF TableInv
  <2>3. mem[i].lock = p
    BY <2>1, <2>2 DEF TableOK
  <2> QED BY <1>1, <2>2, <2>3 DEF TableOK
<1>6. i # c
  BY <1>1, <1>5
<1>7. Held(p, i) >= 1 /\ Held(p, c) >= 1
  BY <1>1, <1>3, OwnHolds
<1>8. Live(i)
  <2>1. ASSUME NEW q \in Procs, Removes(pr[q], i) PROVE FALSE
    <3>1. Locks(pr[q], i)
      BY <2>1 DEF Removes, Locks
    <3>2. mem[i].lock = q
      BY <1>1, <1>3, <3>1 DEF TableInv, TableOK
    <3>3. q = p
      BY <1>5, <3>2
    <3> QED BY <2>1, <3>3 DEF Removes
  <2> QED BY <1>4, <2>1 DEF Live, Removing
<1>9. k \in Found(i, r.name) /\ dents[i][k][2] = c
  <2>1. Slots(i, r.name) = Found(i, r.name)
    BY <1>1, <1>3 DEF Slots, Found
  <2>2. Found(i, r.name) \in SUBSET Nat
    BY DEF Found
  <2>3. Min(Found(i, r.name)) \in Found(i, r.name)
    BY <1>4, <2>2, MinIsMember
  <2> QED BY <1>4, <2>1, <2>3
<1>10. /\ k \in 1..disk[i].size /\ dents[i][k][1] = r.name /\ dents[i][k][2] # 0
  BY <1>9 DEF Found
<1>11. /\ disk[i].size = Len(dents[i]) /\ disk[i].size >= 2 /\ disk[i].size \in Nat
       /\ dents[i][1] = <<".", i>> /\ dents[i][2][1] = ".."
  BY <1>1, <1>3, <1>4, DiskTypes DEF LinkInv, DirOK
<1>12. k \in Places
  BY <1>1, <1>3, <1>8, <1>10, Named
<1>13. k \in 3..disk[i].size
  <2>1. k # 1 /\ k # 2
    BY <1>4, <1>10, <1>11
  <2> QED BY <1>10, <1>11, <2>1
<1>14. Child(i, k, c) /\ k \in 1..Len(dents[i])
  BY <1>8, <1>9, <1>10, <1>11, <1>13 DEF Child
<1>15. disk[c].type = "dir" => Live(c) /\ disk[c].nlink = 1 /\ \A b \in 3..disk[c].size : dents[c][b][2] = 0
  <2> SUFFICES ASSUME disk[c].type = "dir" PROVE Live(c) /\ disk[c].nlink = 1 /\ \A b \in 3..disk[c].size : dents[c][b][2] = 0
    OBVIOUS
  <2>1. disk[c].nlink > 0
    BY <1>1, <1>3, DiskTypes
  <2>2. Live(c)
    BY <1>1, <1>3, <2>1, UnlockedLive
  <2>3. \A b \in 3..disk[c].size : dents[c][b][2] = 0
    BY <1>1, <1>3 DEF isdirempty
  <2>4. disk[c].nlink = 1
    BY <1>1, <1>3, <1>12, <1>14, <2>2, <2>3, EmptyDir
  <2> QED BY <2>2, <2>3, <2>4
<1> QED BY <1>1, <1>2, <1>3, <1>5, <1>6, <1>7, <1>12, <1>14, <1>15 DEF UnlinkState

\* What it writes.
UnlinkDone(p, i, c, k, e) ==
  /\ disk'[i] = e /\ dents'[c] = dents[c] /\ disk'[c] = disk[c]
  /\ Len(dents'[i]) = Len(dents[i]) /\ dents'[i][k] = FreeEnt
  /\ \A b \in 1..Len(dents[i]) : b # k => dents'[i][b] = dents[i][b]
  /\ \A j \in Inums \ {i} : disk'[j] = disk[j] /\ dents'[j] = dents[j]
  /\ \A j \in Inums \ {i, c} : mem'[j] = mem[j]
  /\ e \in Dinode /\ e.type = disk[i].type /\ e.size = disk[i].size /\ Owned(e) = Owned(disk[i])
  /\ e.nlink = disk[i].nlink - One(disk[c].type = "dir")
  /\ disk' \in [Inums -> Dinode] /\ dents' \in [Inums -> Seq(Entry)] /\ mem' \in [Inums -> Slot]
  /\ mem'[c].ref = mem[c].ref /\ mem'[c].valid /\ mem'[c].d = disk[c] /\ mem'[c].lock = p
  /\ mem'[i].ref = mem[i].ref /\ mem'[i].valid /\ mem'[i].d = e /\ mem'[i].lock = None

LEMMA UnlinkWrites ==
  ASSUME NEW p \in Procs, NEW i, NEW c, NEW r, NEW k, NEW e, NEW s,
         UnlinkState(p, i, c, r, k), Unlinking(p, i, c, r, k, e, s)
  PROVE  UnlinkDone(p, i, c, k, e)
<1>1. /\ TypeOK /\ i \in Inums /\ c \in Inums /\ i # c /\ mem[i].valid /\ k \in 1..Len(dents[i]) /\ p # None
  BY DEF UnlinkState
<1>2. disk[i] \in Dinode /\ disk[c] \in Dinode /\ dents[i] \in Seq(Entry) /\ disk[i].nlink \in Int
  BY <1>1, DiskTypes
<1>3. PICK D, n, x, m : D = disk[i] /\ n \in Int /\ n = D.nlink - 1 /\ x = (disk[c].type = "dir") /\ m = One(x)
  BY <1>2
<1>4. e = IF x THEN [D EXCEPT !.nlink = n] ELSE D
  BY <1>3 DEF Unlinking
<1>5. e \in Dinode /\ e.type = D.type /\ e.size = D.size /\ e.addrs = D.addrs /\ e.ind = D.ind /\ e.nlink = D.nlink - One(x)
  <2>1. CASE x
    <3>1. e \in Dinode /\ e.type = D.type /\ e.size = D.size /\ e.addrs = D.addrs /\ e.ind = D.ind /\ e.nlink = n
      BY <1>2, <1>3, <1>4, <2>1 DEF Dinode
    <3> QED BY <1>3, <2>1, <3>1 DEF One
  <2>2. CASE ~x
    BY <1>2, <1>3, <1>4, <2>2 DEF One
  <2> QED BY <2>1, <2>2
<1>6. Owned(e) = Owned(D)
  BY <1>5 DEF Owned
<1>7. PICK g : g = [dents[i] EXCEPT ![k] = FreeEnt]
  OBVIOUS
<1>8. FreeEnt \in Entry
  BY EmptyCall DEF FreeEnt, Entry
<1>9. g \in Seq(Entry) /\ Len(g) = Len(dents[i]) /\ g[k] = FreeEnt /\ \A b \in 1..Len(dents[i]) : b # k => g[b] = dents[i][b]
  BY <1>1, <1>2, <1>7, <1>8, SetFacts
<1>10. dents' = [dents EXCEPT ![i] = g] /\ disk' = [disk EXCEPT ![i] = e]
  BY <1>1, <1>7 DEF Unlinking, TypeOK
<1>11. /\ disk'[i] = e /\ dents'[i] = g /\ (\A j \in Inums \ {i} : disk'[j] = disk[j] /\ dents'[j] = dents[j])
       /\ disk' \in [Inums -> Dinode] /\ dents' \in [Inums -> Seq(Entry)]
  BY <1>1, <1>5, <1>9, <1>10 DEF TypeOK
<1>12. PICK M : M = Left(c, disk[c], p)
  OBVIOUS
<1>13. mem' = [M EXCEPT ![i].d = e, ![i].lock = None]
  BY <1>12 DEF Unlinking
<1>14. /\ M \in [Inums -> Slot] /\ M[c].ref = mem[c].ref /\ M[c].valid
       /\ M[c].d = disk[c] /\ M[c].lock = p /\ \A j \in Inums : j # c => M[j] = mem[j]
  <2>1. p \in Procs \union {None}
    OBVIOUS
  <2> QED BY <1>1, <1>2, <1>12, <2>1, LeftFacts
<1>15. M[i] = mem[i] /\ mem[i] \in Slot
  BY <1>1, <1>14 DEF TypeOK
<1>16. PICK y : y = [mem[i] EXCEPT !.d = e, !.lock = None]
  OBVIOUS
<1>17. y \in Slot /\ y.ref = mem[i].ref /\ y.valid = mem[i].valid /\ y.d = e /\ y.lock = None
  BY <1>5, <1>15, <1>16 DEF Slot
<1>18. mem' = [M EXCEPT ![i] = y]
  BY <1>1, <1>13, <1>14, <1>15, <1>16
<1>19. mem' \in [Inums -> Slot] /\ mem'[c] = M[c] /\ mem'[i] = y /\ \A j \in Inums \ {i, c} : mem'[j] = mem[j]
  BY <1>1, <1>14, <1>17, <1>18
<1>20. mem'[c].ref = mem[c].ref /\ mem'[c].valid /\ mem'[c].d = disk[c] /\ mem'[c].lock = p
  BY <1>14, <1>19
<1>21. mem'[i].ref = mem[i].ref /\ mem'[i].valid /\ mem'[i].d = e /\ mem'[i].lock = None
  BY <1>1, <1>17, <1>19
<1>22. /\ dents'[c] = dents[c] /\ disk'[c] = disk[c] /\ Len(dents'[i]) = Len(dents[i]) /\ dents'[i][k] = FreeEnt
       /\ \A b \in 1..Len(dents[i]) : b # k => dents'[i][b] = dents[i][b]
  BY <1>1, <1>9, <1>11
<1>23. e.type = disk[i].type /\ e.size = disk[i].size /\ Owned(e) = Owned(disk[i]) /\ e.nlink = disk[i].nlink - One(disk[c].type = "dir")
  BY <1>3, <1>5, <1>6
<1> QED BY <1>5, <1>11, <1>19, <1>20, <1>21, <1>22, <1>23 DEF UnlinkDone

\* How the call goes on.
UnlinkGoesOn(p, i, c, r, s) ==
  /\ s \in CallRec /\ Shape(s) /\ s.put = "start" /\ s.pc = "unlink_dec" /\ s.ip = c
  /\ \A j \in Inums : HeldBy(s, cwd[p], fd[p], j) = HeldBy(r, cwd[p], fd[p], j)
  /\ \A j \in Inums : ~Pends(r, j) /\ ~Removes(r, j) /\ (Pends(s, j) <=> j = c) /\ (Removes(s, j) <=> j = c)
  /\ ~Locks(s, i) /\ Locks(s, c)
  /\ \A j \in Inums \ {i, c} : (Locks(s, j) <=> Locks(r, j)) /\ ~Works(r, j)

LEMMA UnlinkNext ==
  ASSUME NEW p \in Procs, NEW i, NEW c, NEW r, NEW k, NEW e, NEW s,
         UnlinkState(p, i, c, r, k), Unlinking(p, i, c, r, k, e, s)
  PROVE  UnlinkGoesOn(p, i, c, r, s)
<1>1. /\ r \in CallRec /\ Shape(r) /\ r.pc = "unlink_ip" /\ r.puts = <<>> /\ r.put = "start" /\ r.at = 0 /\ r.dp = i /\ r.ip = c
      /\ i \in Inums /\ c \in Inums /\ i # c /\ i # 0 /\ c # 0 /\ r.call = "unlink"
  BY DEF UnlinkState
<1>2. <<i>> \in Seq(Inums) /\ Len(<<i>>) = 1 /\ <<i>>[1] = i /\ <<i>> # <<>> /\ Len(<<>>) = 0
  BY <1>1
<1>3. \A j \in Inums : ~Pends(r, j) /\ ~Removes(r, j) /\ (j # c => ~Works(r, j)) /\ (Locks(r, j) <=> j = i)
  BY <1>1 DEF Pends, Removes, Works, Locks
<1>4. s = [r EXCEPT !.pc = "unlink_dec", !.puts = <<i>>, !.dp = 0]
  BY DEF Unlinking
<1>5. /\ s.pc = "unlink_dec" /\ s.call = r.call /\ s.at = 0 /\ s.ip = c /\ s.dp = 0 /\ s.new = r.new /\ s.puts = <<i>> /\ s.put = "start"
  BY <1>1, <1>4 DEF CallRec
<1>6. s \in CallRec
  BY <1>1, <1>2, <1>4, EmptyCall DEF CallRec, Pcs
<1>7. Shape(s)
  BY <1>1, <1>2, <1>5 DEF Shape, HasDp, HasIp
<1>8. \A j \in Inums : HeldBy(s, cwd[p], fd[p], j) = HeldBy(r, cwd[p], fd[p], j)
  BY <1>1, <1>2, <1>5, InumRange DEF HeldBy, One
<1>9. \A j \in Inums : (Pends(s, j) <=> j = c) /\ (Removes(s, j) <=> j = c) /\ (Locks(s, j) <=> j = c)
  BY <1>1, <1>5, InumRange DEF Pends, Removes, Locks
<1> QED BY <1>1, <1>3, <1>5, <1>6, <1>7, <1>8, <1>9 DEF UnlinkGoesOn

LEMMA UnlinkLinks ==
  ASSUME NEW p \in Procs, NEW i, NEW c, NEW r, NEW k, NEW e, NEW s, Alone(p), pr'[p] = s,
         UnlinkState(p, i, c, r, k), UnlinkDone(p, i, c, k, e), UnlinkGoesOn(p, i, c, r, s)
  PROVE  LinkInv'
<1>1. /\ TypeOK /\ LinkInv /\ i \in Inums /\ c \in Inums /\ i # c /\ k \in Places /\ Child(i, k, c) /\ r = pr[p]
      /\ disk[c].type = "dir" => Live(c) /\ \A b \in 3..disk[c].size : dents[c][b][2] = 0
  BY DEF UnlinkState
<1>2. \A j \in Inums : ~Pends(pr[p], j) /\ ~Removes(pr[p], j) /\ (Pends(pr'[p], j) <=> j = c) /\ (Removes(pr'[p], j) <=> j = c)
  BY <1>1 DEF UnlinkGoesOn
<1>3. Cardinality(Pending(c)') = Cardinality(Pending(c)) + 1 /\ \A j \in Inums : j # c => Pending(j)' = Pending(j)
  BY <1>1, <1>2, PendMore
<1>4. Removing(c)' /\ \A j \in Inums \ {c} : Removing(j)' <=> Removing(j)
  BY <1>1, <1>2 DEF Removing, Alone
<1>5. disk[i].size = Len(dents[i])
  BY <1>1 DEF LinkInv, DirOK, Child, Live
<1>6. GoneEntry(i, k, c)
  <2>1. /\ Len(dents'[i]) = Len(dents[i]) /\ dents'[i][k] = FreeEnt
        /\ \A b \in 1..disk[i].size : b # k => dents'[i][b] = dents[i][b]
        /\ disk'[i].size = disk[i].size /\ disk'[i].type = disk[i].type
        /\ disk'[i].nlink = disk[i].nlink - One(disk[c].type = "dir")
        /\ \A j \in Inums \ {i} : disk'[j] = disk[j] /\ dents'[j] = dents[j]
    BY <1>5 DEF UnlinkDone
  <2> QED BY <1>1, <1>4, <2>1 DEF GoneEntry
<1> QED BY <1>1, <1>3, <1>6, GoneLinks

LEMMA UnlinkStep ==
  ASSUME FsInv, NEW p \in Procs, NEW i, NEW c, NEW r, NEW k, NEW e, NEW s,
         UnlinkState(p, i, c, r, k), Unlinking(p, i, c, r, k, e, s)
  PROVE  FsInv'
<1>1. UnlinkDone(p, i, c, k, e)
  BY UnlinkWrites, Zenon
<1>2. UnlinkGoesOn(p, i, c, r, s)
  BY UnlinkNext, Zenon
<1>3. /\ TypeOK /\ BlockInv /\ boot = 0 /\ p # None /\ r = pr[p] /\ i \in Inums /\ c \in Inums /\ i # c
      /\ mem[i].lock = p /\ mem[c].lock = None /\ Held(p, i) >= 1 /\ Held(p, c) >= 1
      /\ disk[c].type = "dir" => Live(c) /\ disk[c].nlink = 1 /\ \A b \in 3..disk[c].size : dents[c][b][2] = 0
  BY DEF UnlinkState
<1>4. /\ UNCHANGED <<bitmap, boot, panicked>> /\ UNCHANGED <<cwd, fd>> /\ disk' = [disk EXCEPT ![i] = e]
      /\ pr' = [pr EXCEPT ![p] = s]
  BY DEF Unlinking
<1>5. boot' = 0 /\ panicked' = "no" /\ pr'[p] = s /\ Alone(p)
  BY <1>3, <1>4 DEF TypeOK, Alone
<1>6. BlockInv' /\ bitmap' \subseteq Blocks
  <2>1. BlocksOK([disk EXCEPT ![i] = e], bitmap)
    <3>1. disk \in [Inums -> Dinode] /\ BlocksOK(disk, bitmap) /\ Owned(e) = Owned(disk[i])
      BY <1>1, <1>3 DEF TypeOK, BlockInv, UnlinkDone
    <3> QED BY <1>3, <3>1, BlocksSame
  <2> QED BY <1>3, <1>4, <2>1 DEF BlockInv, TypeOK
<1>7. LinkInv'
  BY <1>1, <1>2, <1>5, UnlinkLinks, Zenon
<1>8. ProcOK(p)'
  <2>1. /\ Shape(s) /\ s.put = "start" /\ s.pc = "unlink_dec" /\ s.ip = c
    BY <1>2 DEF UnlinkGoesOn
  <2>2. disk'[c] = disk[c] /\ dents'[c] = dents[c]
    BY <1>1 DEF UnlinkDone
  <2> QED BY <1>3, <1>5, <2>1, <2>2 DEF ProcOK
<1>9. WroteOne(p, s, i)
  <2>1. /\ disk'[i].type = disk[i].type /\ mem'[i].ref = mem[i].ref /\ mem'[i].valid /\ mem'[i].d = disk'[i] /\ mem'[i].lock = None
    BY <1>1 DEF UnlinkDone
  <2>2. ~Locks(s, i)
    BY <1>2 DEF UnlinkGoesOn
  <2> QED BY <1>3, <2>1, <2>2 DEF WroteOne
<1>10. WroteOne(p, s, c)
  <2>1. /\ disk'[c].type = disk[c].type /\ mem'[c].ref = mem[c].ref /\ mem'[c].valid /\ mem'[c].d = disk'[c] /\ mem'[c].lock = p
    BY <1>1 DEF UnlinkDone
  <2>2. Locks(s, c)
    BY <1>2 DEF UnlinkGoesOn
  <2> QED BY <1>3, <2>1, <2>2 DEF WroteOne
<1>11. WroteBoth(p, i, c, s)
  <2>1. /\ disk' \in [Inums -> Dinode] /\ dents' \in [Inums -> Seq(Entry)] /\ mem' \in [Inums -> Slot]
        /\ \A j \in Inums \ {i, c} : mem'[j] = mem[j] /\ disk'[j] = disk[j] /\ dents'[j] = dents[j]
    BY <1>1 DEF UnlinkDone
  <2>2. /\ s \in CallRec
        /\ \A j \in Inums : HeldBy(s, cwd[p], fd[p], j) = HeldBy(pr[p], cwd[p], fd[p], j)
        /\ \A j \in Inums \ {i, c} : (Locks(s, j) <=> Locks(pr[p], j)) /\ ~Works(pr[p], j)
    BY <1>2, <1>3 DEF UnlinkGoesOn
  <2> QED BY <1>3, <1>4, <1>9, <1>10, <2>1, <2>2 DEF WroteBoth
<1> QED BY <1>3, <1>5, <1>6, <1>7, <1>8, <1>11, WriteTwo

LEMMA UnlinkIpKeeps ==
  ASSUME FsInv, NEW p \in Procs, UnlinkIp(p)
  PROVE  FsInv'
<1> DEFINE i == pr[p].dp
           c == pr[p].ip
           dpd == IF Inode(c).type = "dir" THEN [mem[i].d EXCEPT !.nlink = @ - 1] ELSE mem[i].d
           refused == Inode(c).type = "dir" /\ ~isdirempty(c)
<1>1. /\ Running(p, "unlink_ip") /\ ilock(c) /\ Inode(c).nlink >= 1
      /\ \/ /\ refused
            /\ mem' = Left(c, Inode(c), None)
            /\ pr' = [pr EXCEPT ![p].pc = "drop_dp", ![p].puts = <<c>>, ![p].ip = 0]
            /\ UNCHANGED <<disk, dents>>
         \/ /\ ~refused
            /\ dents' = [dents EXCEPT ![i][Min(Slots(i, pr[p].name))] = FreeEnt]
            /\ disk' = iupdate(i, dpd)
            /\ mem' = [Left(c, Inode(c), p) EXCEPT ![i].d = dpd, ![i].lock = None]
            /\ pr' = [pr EXCEPT ![p].pc = "unlink_dec", ![p].puts = <<i>>, ![p].dp = 0]
      /\ UNCHANGED <<bitmap, boot, panicked>> /\ UNCHANGED <<cwd, fd>>
  BY Zenon DEF UnlinkIp, bootVars
<1>2. i = pr[p].dp /\ c = pr[p].ip
  OBVIOUS
<1> HIDE DEF i, c
<1>3. CASE refused
  <2>1. /\ mem' = Left(c, Inode(c), None) /\ pr' = [pr EXCEPT ![p].pc = "drop_dp", ![p].puts = <<c>>, ![p].ip = 0]
        /\ UNCHANGED <<disk, dents, bitmap, boot, panicked>>
    BY <1>1, <1>3
  <2> QED BY <1>1, <1>2, <2>1, UnlinkRefused
<1>4. CASE ~refused
  <2>1. PICK r, k : r = pr[p] /\ k = Min(Slots(i, r.name))
    OBVIOUS
  <2>2. boot = 0 /\ r.pc = "unlink_ip" /\ r.puts = <<>> /\ mem[c].lock = None /\ i = r.dp /\ c = r.ip
    BY <1>1, <1>2, <2>1 DEF Running, ilock
  <2>3. /\ TypeOK /\ r \in CallRec /\ Shape(r) /\ (i # 0 => i \in Inums) /\ (c # 0 => c \in Inums)
        /\ \A j \in Inums : Inode(j) = disk[j]
    BY <2>1, <2>2, Ready
  <2>4. i \in Inums /\ c \in Inums
    BY <2>2, <2>3 DEF Shape, HasDp, HasIp
  <2>5. Inode(c) = disk[c] /\ disk[c].nlink >= 1 /\ (disk[c].type = "dir" => isdirempty(c))
    BY <1>1, <1>4, <2>3, <2>4
  <2>6. UnlinkState(p, i, c, r, k)
    BY <2>1, <2>2, <2>5, UnlinkFrom
  <2>7. mem[i].d = disk[i]
    BY <2>6 DEF UnlinkState
  <2>8. PICK e, s : /\ e = (IF disk[c].type = "dir" THEN [disk[i] EXCEPT !.nlink = disk[i].nlink - 1] ELSE disk[i])
                    /\ s = [r EXCEPT !.pc = "unlink_dec", !.puts = <<i>>, !.dp = 0]
    OBVIOUS
  <2>9. dpd = e
    BY <2>5, <2>7, <2>8
  <2>10. /\ dents' = [dents EXCEPT ![i][k] = FreeEnt] /\ disk' = [disk EXCEPT ![i] = e]
         /\ mem' = [Left(c, disk[c], p) EXCEPT ![i].d = e, ![i].lock = None]
         /\ pr' = [pr EXCEPT ![p].pc = "unlink_dec", ![p].puts = <<i>>, ![p].dp = 0]
         /\ UNCHANGED <<bitmap, boot, panicked>> /\ UNCHANGED <<cwd, fd>>
    BY <1>1, <1>4, <2>1, <2>5, <2>9 DEF iupdate
  <2>11. pr' = [pr EXCEPT ![p] = s]
    BY <2>1, <2>3, <2>8, <2>10 DEF TypeOK, CallRec
  <2>12. Unlinking(p, i, c, r, k, e, s)
    BY <2>8, <2>10, <2>11 DEF Unlinking
  <2> QED BY <2>6, <2>12, UnlinkStep
<1> QED BY <1>3, <1>4


-----------------------------------------------------------------------------
(* Crash and recovery; the first boot.                                      *)

LEMMA IdleFacts ==
  /\ Idle \in CallRec /\ Shape(Idle) /\ Idle.put = "start" /\ Idle.pc = "idle"
  /\ \A i \in Inums : /\ ~Locks(Idle, i) /\ ~Works(Idle, i) /\ ~Pends(Idle, i) /\ ~Removes(Idle, i)
                      /\ HeldBy(Idle, ROOTINO, None, i) = One(i = ROOTINO)
<1>1. Idle \in CallRec /\ Shape(Idle) /\ Idle.put = "start" /\ Idle.pc = "idle"
  BY EmptyCall DEF CallRec, Idle, Pcs, Shape, HasDp, HasIp
<1>2. ASSUME NEW i \in Inums
      PROVE  /\ ~Locks(Idle, i) /\ ~Works(Idle, i) /\ ~Pends(Idle, i) /\ ~Removes(Idle, i)
             /\ HeldBy(Idle, ROOTINO, None, i) = One(i = ROOTINO)
  <2>1. i # 0
    BY InumRange
  <2>2. ~Locks(Idle, i) /\ ~Works(Idle, i) /\ ~Pends(Idle, i) /\ ~Removes(Idle, i)
    BY <1>1 DEF Locks, Works, Pends, Removes
  <2>3. HeldBy(Idle, ROOTINO, None, i) = One(i = ROOTINO)
    BY <2>1 DEF HeldBy, One, Idle
  <2> QED BY <2>2, <2>3
<1> QED BY <1>1, <1>2

LEMMA RootIn == ROOTINO \in Inums /\ 1 \in 0..NInodes /\ (\A i \in Inums : 1 <= i /\ i \in Nat /\ i <= NInodes) /\ NInodes \in Nat
  BY FileSystemAssumption DEF ROOTINO, Inums

LEMMA TableTypes ==
  /\ Blank \in Dinode /\ FreeSlot \in Slot /\ ~FreeSlot.valid /\ FreeSlot.lock = None /\ FreeSlot.ref = 0
  /\ BootTable \in [Inums -> Slot]
  /\ \A i \in Inums : /\ ~BootTable[i].valid /\ BootTable[i].lock = None
                      /\ BootTable[i].ref = IF i = ROOTINO THEN Cardinality(Procs) ELSE 0
<1>1. Blank \in Dinode
  BY DEF Blank, Dinode, Types
<1>2. FreeSlot \in Slot /\ ~FreeSlot.valid /\ FreeSlot.lock = None /\ FreeSlot.ref = 0
  BY <1>1 DEF FreeSlot, Slot
<1>3. PICK n : n = Cardinality(Procs)
  OBVIOUS
<1>4. n \in Int
  BY <1>3, FileSystemAssumption, FS_CardinalityType
<1>5. PICK R : R = [ref |-> n, valid |-> FALSE, lock |-> None, d |-> Blank]
  OBVIOUS
<1>6. R \in Slot /\ ~R.valid /\ R.lock = None /\ R.ref = n
  BY <1>1, <1>4, <1>5 DEF Slot
<1>7. BootTable = [i \in Inums |-> IF i = ROOTINO THEN R ELSE FreeSlot]
  BY <1>3, <1>5 DEF BootTable
<1> QED BY <1>1, <1>2, <1>3, <1>6, <1>7

\* All processes in the root directory.
LEMMA RootHeld ==
  ASSUME NEW i \in Inums, NEW F \in Counts, \A p \in Procs : F[p] = One(i = ROOTINO)
  PROVE  Cardinality(Tokens(F)) = BootTable[i].ref
<1>1. PICK A \in SUBSET Procs, B \in SUBSET Procs : A = (IF i = ROOTINO THEN Procs ELSE {}) /\ B = {}
  OBVIOUS
<1>2. \A p \in Procs : F[p] = One(p \in A) + One(p \in B)
  BY <1>1 DEF One
<1>3. Cardinality(Tokens(F)) = Cardinality(A) + Cardinality(B)
  BY <1>2, TokensTwo
<1>4. Cardinality(B) = 0 /\ (A = {} => Cardinality(A) = 0)
  BY <1>1, FS_EmptySet
<1>5. IsFiniteSet(Procs) /\ Cardinality(Procs) \in Nat
  BY FileSystemAssumption, FS_CardinalityType
<1> QED BY <1>1, <1>3, <1>4, <1>5, TableTypes

\* A step outside of calls.
LEMMA StillIdle ==
  ASSUME \A p \in Procs : pr[p] = Idle, UNCHANGED pr
  PROVE  PendingKept /\ \A p \in Procs : ProcOK(p)'
<1>1. PendingKept
  BY DEF PendingKept, Pending, Removing
<1>2. ASSUME NEW p \in Procs PROVE ProcOK(p)'
  <2>1. pr'[p] = Idle
    OBVIOUS
  <2> QED BY <2>1, IdleFacts, PlainProc
<1> QED BY <1>1, <1>2

LEMMA CrashKeeps ==
  ASSUME FsInv, Crash
  PROVE  FsInv'
<1>1. /\ TypeOK /\ TableInv /\ LinkInv /\ BlockInv /\ \A p \in Procs : pr[p] = Idle
  BY DEF FsInv, Crash, Quiescent
<1>2. /\ mem' = [i \in Inums |-> FreeSlot] /\ cwd' = [p \in Procs |-> ROOTINO] /\ fd' = [p \in Procs |-> None]
      /\ boot' = 1 /\ UNCHANGED <<disk, dents, bitmap, pr, panicked>>
  BY DEF Crash
<1>3. PendingKept /\ \A p \in Procs : ProcOK(p)'
  BY <1>1, <1>2, StillIdle
<1>4. TypeOK'
  BY <1>1, <1>2, TableTypes, RootIn DEF TypeOK
<1>5. TableInv'
  <2>1. \A i \in Inums : OrphanOK(i)'
    BY <1>2, RootIn DEF OrphanOK
  <2>2. BootOK'
    BY <1>1, <1>2 DEF BootOK
  <2>3. boot' # 0
    BY <1>2
  <2> QED BY <1>3, <2>1, <2>2, <2>3 DEF TableInv
<1>6. ASSUME NEW i \in Inums PROVE LinkKept(i)
  <2>1. CountOK(i) /\ DirOK(i)
    BY <1>1 DEF LinkInv
  <2>2. DirOK(i)'
    BY <1>2, <2>1 DEF DirOK
  <2> QED BY <1>2, <2>1, <2>2 DEF LinkKept, CountOK
<1>7. LinkInv'
  BY <1>1, <1>3, <1>6, LinkFrame
<1>8. BlockInv'
  BY <1>1, <1>2 DEF BlockInv
<1> QED BY <1>4, <1>5, <1>7, <1>8 DEF FsInv

\* What ireclaim() writes of inode i.
Reclaimed(i) ==
  /\ TypeOK' /\ BlockInv' /\ disk'[i].nlink = disk[i].nlink /\ ~Orphan(i)'
  /\ ~Orphan(i) => disk'[i] = disk[i] /\ dents'[i] = dents[i]
  /\ Orphan(i) => disk'[i].type = "none" /\ Owned(disk'[i]) = {} /\ disk[i].nlink = 0
  /\ \A j \in Inums : j # i => disk'[j] = disk[j] /\ dents'[j] = dents[j]

LEMMA ReclaimWrites ==
  ASSUME FsInv, Reclaim, NEW i \in Inums, i = boot
  PROVE  Reclaimed(i)
<1>1. TypeOK /\ BlockInv /\ boot # 0 /\ disk \in [Inums -> Dinode] /\ BlocksOK(disk, bitmap)
  BY DEF FsInv, Reclaim, TypeOK, BlockInv
<1>2. i = boot
  OBVIOUS
<1>3. /\ disk' = [disk EXCEPT ![i] = IF Orphan(i) THEN [itrunc(disk[i]) EXCEPT !.type = "none"] ELSE disk[i]]
      /\ dents' = [dents EXCEPT ![i] = IF Orphan(i) THEN <<>> ELSE dents[i]]
      /\ bitmap' = (IF Orphan(i) THEN bitmap \ Owned(disk[i]) ELSE bitmap)
      /\ panicked' = (IF Orphan(i) /\ ~(Owned(disk[i]) \subseteq bitmap) THEN "freeing free block" ELSE "no")
      /\ mem' = (IF i = NInodes THEN BootTable ELSE mem) /\ boot' = (IF i = NInodes THEN 0 ELSE i + 1)
      /\ UNCHANGED <<cwd, fd, pr>>
  BY <1>1, <1>2 DEF Reclaim, Orphan, TypeOK
<1>4. PICK t : t = itrunc(disk[i])
  OBVIOUS
<1>5. t \in Dinode /\ t.nlink = disk[i].nlink /\ t.addrs = <<>> /\ t.ind = <<>>
  BY <1>1, <1>2, <1>4, TruncFacts
<1>6. PICK d : d = IF Orphan(i) THEN [t EXCEPT !.type = "none"] ELSE disk[i]
  OBVIOUS
<1>7. disk[i] \in Dinode
  BY <1>1
<1>8. /\ d \in Dinode /\ d.nlink = disk[i].nlink /\ (~Orphan(i) => d = disk[i])
      /\ (Orphan(i) => d.type = "none" /\ d.addrs = <<>> /\ d.ind = <<>> /\ disk[i].nlink = 0)
  <2>1. CASE Orphan(i)
    <3>1. d = [t EXCEPT !.type = "none"] /\ "none" \in Types
      BY <1>6, <2>1 DEF Types
    <3>2. d \in Dinode /\ d.nlink = t.nlink /\ d.type = "none" /\ d.addrs = t.addrs /\ d.ind = t.ind
      BY <1>5, <3>1 DEF Dinode
    <3> QED BY <1>5, <2>1, <3>2 DEF Orphan
  <2>2. CASE ~Orphan(i)
    BY <1>6, <1>7, <2>2
  <2> QED BY <2>1, <2>2
<1>9. Orphan(i) => Owned(d) = {}
  BY <1>8 DEF Owned, Elements
<1>10. disk' = [disk EXCEPT ![i] = d]
  BY <1>3, <1>4, <1>6
<1>11. /\ disk'[i] = d /\ (\A j \in Inums : j # i => disk'[j] = disk[j] /\ dents'[j] = dents[j]) /\ disk' \in [Inums -> Dinode]
       /\ (~Orphan(i) => dents'[i] = dents[i])
  <2>1. disk'[i] = d /\ (\A j \in Inums : j # i => disk'[j] = disk[j]) /\ disk' \in [Inums -> Dinode]
    BY <1>1, <1>8, <1>10
  <2>2. (\A j \in Inums : j # i => dents'[j] = dents[j]) /\ (~Orphan(i) => dents'[i] = dents[i])
    BY <1>1, <1>3 DEF TypeOK
  <2> QED BY <2>1, <2>2
<1>12. dents' \in [Inums -> Seq(Entry)]
  <2>1. PICK g \in Seq(Entry) : g = IF Orphan(i) THEN <<>> ELSE dents[i]
    <3>1. <<>> \in Seq(Entry) /\ dents[i] \in Seq(Entry)
      BY <1>1, DiskTypes
    <3>2. CASE Orphan(i)
      BY <3>1, <3>2
    <3>3. CASE ~Orphan(i)
      BY <3>1, <3>3
    <3> QED BY <3>2, <3>3
  <2>2. dents' = [dents EXCEPT ![i] = g]
    BY <1>3, <2>1
  <2> QED BY <1>1, <2>1, <2>2 DEF TypeOK
<1>13. BlockInv' /\ bitmap' \subseteq Blocks /\ panicked' = "no"
  <2>1. CASE Orphan(i)
    <3>1. BlocksOK([disk EXCEPT ![i] = d], bitmap \ Owned(disk[i])) /\ Owned(disk[i]) \subseteq bitmap
      BY <1>1, <1>9, <2>1, BlocksShrink
    <3>2. bitmap' = bitmap \ Owned(disk[i]) /\ panicked' = "no"
      BY <1>3, <2>1, <3>1
    <3> QED BY <1>1, <1>10, <3>1, <3>2 DEF BlockInv, TypeOK
  <2>2. CASE ~Orphan(i)
    <3>1. bitmap' = bitmap /\ panicked' = "no" /\ disk' = disk
      BY <1>1, <1>3, <2>2
    <3> QED BY <1>1, <3>1 DEF BlockInv, TypeOK
  <2> QED BY <2>1, <2>2
<1>14. mem' \in [Inums -> Slot] /\ boot' \in 0..NInodes
  <2>1. mem' \in [Inums -> Slot]
    BY <1>1, <1>3, TableTypes DEF TypeOK
  <2>2. i \in Nat /\ i <= NInodes /\ NInodes \in Nat
    BY RootIn
  <2>3. boot' = IF i = NInodes THEN 0 ELSE i + 1
    BY <1>3
  <2>4. boot' \in 0..NInodes
    BY <2>2, <2>3
  <2> QED BY <2>1, <2>4
<1>15. TypeOK'
  BY <1>1, <1>3, <1>11, <1>12, <1>13, <1>14 DEF TypeOK
<1>16. ~Orphan(i)'
  BY <1>2, <1>8, <1>11 DEF Orphan
<1> QED BY <1>8, <1>9, <1>11, <1>13, <1>15, <1>16 DEF Reclaimed

LEMMA ReclaimKeeps ==
  ASSUME FsInv, Reclaim
  PROVE  FsInv'
<1>1. /\ TypeOK /\ TableInv /\ LinkInv /\ boot # 0 /\ UNCHANGED <<cwd, fd, pr>>
      /\ mem' = (IF boot = NInodes THEN BootTable ELSE mem) /\ boot' = (IF boot = NInodes THEN 0 ELSE boot + 1)
  BY DEF FsInv, Reclaim
<1>2. /\ \A p \in Procs : pr[p] = Idle /\ cwd[p] = ROOTINO /\ fd[p] = None
      /\ \A i \in Inums : mem[i] = FreeSlot
  BY <1>1 DEF TableInv, BootOK
<1>3. PICK i \in Inums : i = boot
  BY <1>1, InumRange DEF TypeOK
<1>4. /\ TypeOK' /\ BlockInv' /\ disk'[i].nlink = disk[i].nlink /\ ~Orphan(i)'
      /\ (~Orphan(i) => disk'[i] = disk[i] /\ dents'[i] = dents[i])
      /\ (Orphan(i) => disk'[i].type = "none" /\ Owned(disk'[i]) = {} /\ disk[i].nlink = 0)
      /\ \A j \in Inums : j # i => disk'[j] = disk[j] /\ dents'[j] = dents[j]
  <2>1. Reclaimed(i)
    BY <1>3, ReclaimWrites
  <2> QED BY <2>1 DEF Reclaimed
<1>5. PendingKept /\ \A p \in Procs : ProcOK(p)'
  BY <1>1, <1>2, StillIdle
<1>6. ASSUME NEW j \in Inums PROVE LinkKept(j)
  <2>1. CountOK(j) /\ DirOK(j)
    BY <1>1 DEF LinkInv
  <2>2. CASE j = i /\ Orphan(i)
    <3>1. DirOK(j)'
      BY <1>4, <2>2 DEF DirOK
    <3>2. disk'[j].nlink = 0 /\ disk[j].nlink = 0 /\ disk'[j].type = "none" /\ Owned(disk'[j]) = {}
      BY <1>4, <2>2
    <3> QED BY <3>1, <3>2 DEF LinkKept
  <2>3. CASE ~(j = i /\ Orphan(i))
    <3>1. disk'[j] = disk[j] /\ dents'[j] = dents[j]
      BY <1>4, <2>3
    <3>2. DirOK(j)'
      BY <2>1, <3>1 DEF DirOK
    <3> QED BY <2>1, <3>1, <3>2 DEF LinkKept, CountOK
  <2> QED BY <2>2, <2>3
<1>7. LinkInv'
  BY <1>1, <1>5, <1>6, LinkFrame
<1>8. ASSUME NEW j \in Inums, Orphan(j)' PROVE boot' # 0 /\ boot' <= j
  <2>1. j # i
    BY <1>4, <1>8
  <2>2. Orphan(j)
    BY <1>4, <1>8, <2>1 DEF Orphan
  <2>3. i <= j
    <3>1. OrphanOK(j) /\ ~mem[j].valid /\ \A p \in Procs : ~Works(pr[p], j)
      BY <1>1, <1>2, TableTypes, IdleFacts DEF TableInv
    <3> QED BY <1>3, <2>2, <3>1 DEF OrphanOK
  <2>4. i \in Nat /\ j \in Nat /\ j <= NInodes /\ NInodes \in Nat
    BY RootIn
  <2> QED BY <1>1, <1>3, <2>1, <2>3, <2>4
<1>9. \A j \in Inums : OrphanOK(j)'
  BY <1>8 DEF OrphanOK
<1>10. BootOK'
  <2>1. boot' # 0 => mem' = mem
    BY <1>1
  <2> QED BY <1>1, <1>2, <2>1 DEF BootOK
<1>11. ASSUME boot' = 0, NEW j \in Inums PROVE TableOK(j)'
  <2>1. mem' = BootTable
    BY <1>1, <1>3, <1>11, RootIn
  <2>2. Refs(j)' = BootTable[j].ref
    <3>1. \A p \in Procs : Held(p, j)' = One(j = ROOTINO)
      BY <1>1, <1>2, IdleFacts DEF Held
    <3>2. PICK F \in Counts : F = HeldAll(j)' /\ \A p \in Procs : F[p] = One(j = ROOTINO)
      BY <3>1, HeldCounts
    <3>3. Cardinality(Tokens(F)) = BootTable[j].ref
      BY <3>2, RootHeld
    <3>4. Refs(j)' = Cardinality(Tokens(F))
      BY <3>2 DEF Refs, Tokens
    <3> QED BY <3>3, <3>4
  <2>3. \A p \in Procs : p # None /\ ~Locks(pr'[p], j)
    BY <1>1, <1>2, IdleFacts, FileSystemAssumption
  <2>4. mem'[j].ref > 0 => disk'[j].type # "none"
    <3>1. mem'[j].ref > 0 => j = ROOTINO
      BY <2>1, TableTypes
    <3>2. disk'[ROOTINO].type = "dir"
      BY <1>7 DEF LinkInv, TreeOK, Live
    <3> QED BY <3>1, <3>2
  <2> QED BY <2>1, <2>2, <2>3, <2>4, TableTypes DEF TableOK
<1>12. TableInv'
  BY <1>5, <1>9, <1>10, <1>11 DEF TableInv
<1> QED BY <1>4, <1>7, <1>12 DEF FsInv


\* mkfs leaves a root directory whose only entries are "." and "..".
LEMMA InitRoot ==
  ASSUME Init
  PROVE  /\ disk[ROOTINO] = MkfsRoot /\ (\A i \in Inums : i # ROOTINO => disk[i] = Blank /\ dents[i] = <<>>)
         /\ disk \in [Inums -> Dinode] /\ dents \in [Inums -> Seq(Entry)]
         /\ MkfsRoot.type = "dir" /\ MkfsRoot.nlink = 1 /\ MkfsRoot.size = Dirents /\ Owned(MkfsRoot) = {1}
         /\ Blank.type = "none" /\ Blank.nlink = 0 /\ Owned(Blank) = {}
         /\ Len(dents[ROOTINO]) = Dirents /\ dents[ROOTINO][1] = <<".", ROOTINO>> /\ dents[ROOTINO][2] = <<"..", ROOTINO>>
         /\ \A k \in 3..Dirents : dents[ROOTINO][k] = FreeEnt
         /\ Dirents \in Nat /\ Dirents >= 2 /\ Dirents <= MAXFILE * Dirents
<1>1. /\ Dirents \in Nat /\ Dirents >= 2 /\ MAXFILE \in Nat /\ MAXFILE >= 1 /\ NBlocks \in Nat /\ NBlocks >= 1
  BY FileSystemAssumption
<1>2. Dirents <= MAXFILE * Dirents
  <2>1. PICK m \in Nat : MAXFILE = m + 1
    <3>1. MAXFILE - 1 \in Nat /\ MAXFILE = (MAXFILE - 1) + 1
      BY <1>1
    <3> QED BY <3>1
  <2>2. MAXFILE * Dirents = m * Dirents + Dirents /\ m * Dirents >= 0 /\ m * Dirents \in Int
    BY <1>1, <2>1
  <2> QED BY <1>1, <2>2
<1>3. Blank \in Dinode /\ Blank.type = "none" /\ Blank.nlink = 0 /\ Blank.addrs = <<>> /\ Blank.ind = <<>>
  BY TableTypes DEF Blank
<1>4. Owned(Blank) = {}
  BY <1>3 DEF Owned, Elements
<1>5. PICK B, D, a : B \in Dinode /\ B = Blank /\ D \in Nat /\ D = Dirents /\ a \in Seq(Blocks) /\ a = <<1>> /\ DOMAIN a = {1} /\ a[1] = 1
  <2>1. <<1>> \in Seq(Blocks)
    BY <1>1 DEF Blocks
  <2>2. DOMAIN <<1>> = {1} /\ <<1>>[1] = 1
    OBVIOUS
  <2>3. PICK a \in Seq(Blocks) : a = <<1>> /\ DOMAIN a = {1} /\ a[1] = 1
    BY <2>1, <2>2
  <2> QED BY <1>1, <1>3, <2>3
<1>6. MkfsRoot = [B EXCEPT !.type = "dir", !.nlink = 1, !.size = D, !.addrs = a] /\ "dir" \in Types
  BY <1>5 DEF MkfsRoot, Types
<1>7. /\ MkfsRoot \in Dinode /\ MkfsRoot.type = "dir" /\ MkfsRoot.nlink = 1 /\ MkfsRoot.size = D
      /\ MkfsRoot.addrs = a /\ MkfsRoot.ind = B.ind
  <2>1. PICK y \in Types, n \in Int : y = "dir" /\ n = 1
    BY <1>6
  <2>2. PICK C : C = [B EXCEPT !.type = y, !.nlink = n]
    OBVIOUS
  <2>3. C \in Dinode /\ C.type = y /\ C.nlink = n /\ C.ind = B.ind
    BY <1>5, <2>2 DEF Dinode
  <2>4. MkfsRoot = [C EXCEPT !.size = D, !.addrs = a]
    BY <1>5, <1>6, <2>1, <2>2 DEF Dinode
  <2>5. /\ MkfsRoot \in Dinode /\ MkfsRoot.type = C.type /\ MkfsRoot.nlink = C.nlink /\ MkfsRoot.size = D
        /\ MkfsRoot.addrs = a /\ MkfsRoot.ind = C.ind
    BY <1>5, <2>3, <2>4 DEF Dinode
  <2> QED BY <2>1, <2>3, <2>5
<1>8. Owned(MkfsRoot) = {1}
  <2>1. Elements(a) = {1}
    BY <1>5 DEF Elements
  <2>2. Elements(B.ind) = {}
    BY <1>3, <1>5 DEF Elements
  <2> QED BY <1>7, <2>1, <2>2 DEF Owned
<1>9. disk[ROOTINO] = MkfsRoot /\ (\A i \in Inums : i # ROOTINO => disk[i] = Blank) /\ disk \in [Inums -> Dinode]
  BY <1>3, <1>7, RootIn DEF Init
<1>10. PICK g : g = [k \in 1..Dirents |-> IF k = 1 THEN <<".", ROOTINO>> ELSE IF k = 2 THEN <<"..", ROOTINO>> ELSE FreeEnt]
  OBVIOUS
<1>11. <<".", ROOTINO>> \in Entry /\ <<"..", ROOTINO>> \in Entry /\ FreeEnt \in Entry
  BY EmptyCall, RootIn, InumRange DEF Entry, FreeEnt
<1>12. g \in [1..Dirents -> Entry] /\ \A k \in 1..Dirents : g[k] = IF k = 1 THEN <<".", ROOTINO>> ELSE IF k = 2 THEN <<"..", ROOTINO>> ELSE FreeEnt
  BY <1>10, <1>11
<1>13. g \in Seq(Entry) /\ Len(g) = Dirents
  BY <1>1, <1>12
<1>14. g[1] = <<".", ROOTINO>> /\ g[2] = <<"..", ROOTINO>> /\ \A k \in 3..Dirents : g[k] = FreeEnt
  <2>1. 1 \in 1..Dirents /\ 2 \in 1..Dirents /\ \A k \in 3..Dirents : k \in 1..Dirents /\ k # 1 /\ k # 2
    BY <1>1
  <2> QED BY <1>12, <2>1
<1>15. dents = [i \in Inums |-> IF i = ROOTINO THEN g ELSE <<>>]
  BY <1>10 DEF Init
<1>16. dents[ROOTINO] = g /\ (\A i \in Inums : i # ROOTINO => dents[i] = <<>>) /\ dents \in [Inums -> Seq(Entry)]
  <2>1. <<>> \in Seq(Entry)
    OBVIOUS
  <2> QED BY <1>13, <1>15, <2>1, RootIn
<1> QED BY <1>1, <1>2, <1>3, <1>4, <1>5, <1>7, <1>8, <1>9, <1>13, <1>14, <1>16

InitState ==
  /\ disk[ROOTINO].type = "dir" /\ disk[ROOTINO].nlink = 1 /\ disk[ROOTINO].size = Dirents /\ Owned(disk[ROOTINO]) = {1}
  /\ \A i \in Inums : i # ROOTINO => disk[i].type = "none" /\ disk[i].nlink = 0 /\ Owned(disk[i]) = {}
  /\ Len(dents[ROOTINO]) = Dirents /\ dents[ROOTINO][1] = <<".", ROOTINO>> /\ dents[ROOTINO][2] = <<"..", ROOTINO>>
  /\ \A k \in 3..Dirents : dents[ROOTINO][k] = FreeEnt
  /\ Dirents \in Nat /\ Dirents >= 2 /\ Dirents <= MAXFILE * Dirents
  /\ bitmap = {1} /\ mem = BootTable /\ boot = 0
  /\ \A p \in Procs : cwd[p] = ROOTINO /\ fd[p] = None /\ pr[p] = Idle

LEMMA InitFacts ==
  ASSUME Init
  PROVE  TypeOK /\ InitState
<1>1. /\ bitmap = {1} /\ mem = BootTable /\ boot = 0 /\ panicked = "no"
      /\ cwd = [p \in Procs |-> ROOTINO] /\ fd = [p \in Procs |-> None] /\ pr = [p \in Procs |-> Idle]
  BY DEF Init
<1>2. 1 \in Blocks /\ 0 \in 0..NInodes
  BY FileSystemAssumption DEF Blocks
<1>3. disk \in [Inums -> Dinode] /\ dents \in [Inums -> Seq(Entry)]
  BY InitRoot
<1>4. TypeOK
  BY <1>1, <1>2, <1>3, TableTypes, RootIn, IdleFacts DEF TypeOK
<1>5. InitState
  BY <1>1, InitRoot DEF InitState
<1> QED BY <1>4, <1>5

LEMMA InitTable ==
  ASSUME TypeOK, InitState
  PROVE  TableInv
<1>1. /\ mem = BootTable /\ boot = 0 /\ (\A p \in Procs : cwd[p] = ROOTINO /\ fd[p] = None /\ pr[p] = Idle)
      /\ disk[ROOTINO].type = "dir" /\ disk[ROOTINO].nlink = 1 /\ \A i \in Inums : i # ROOTINO => disk[i].type = "none"
  BY DEF InitState
<1>2. ASSUME NEW j \in Inums PROVE TableOK(j)
  <2>1. Refs(j) = BootTable[j].ref
    <3>1. \A p \in Procs : Held(p, j) = One(j = ROOTINO)
      BY <1>1, IdleFacts DEF Held
    <3>2. PICK F \in Counts : F = HeldAll(j) /\ \A p \in Procs : F[p] = One(j = ROOTINO)
      BY <3>1, HeldCounts
    <3>3. Cardinality(Tokens(F)) = BootTable[j].ref
      BY <3>2, RootHeld
    <3> QED BY <3>2, <3>3 DEF Refs
  <2>2. \A p \in Procs : p # None /\ ~Locks(pr[p], j)
    BY <1>1, IdleFacts, FileSystemAssumption
  <2>3. mem[j].ref > 0 => disk[j].type # "none"
    <3>1. mem[j].ref > 0 => j = ROOTINO
      BY <1>1, TableTypes
    <3> QED BY <1>1, <3>1
  <2> QED BY <1>1, <2>1, <2>2, <2>3, TableTypes DEF TableOK
<1>3. ASSUME NEW p \in Procs PROVE ProcOK(p)
  BY <1>1, IdleFacts DEF ProcOK
<1>4. \A j \in Inums : OrphanOK(j)
  BY <1>1 DEF OrphanOK, Orphan
<1>5. BootOK
  BY <1>1 DEF BootOK
<1> QED BY <1>2, <1>3, <1>4, <1>5 DEF TableInv

LEMMA InitLinks ==
  ASSUME TypeOK, InitState
  PROVE  LinkInv
<1>1. /\ disk[ROOTINO].type = "dir" /\ disk[ROOTINO].nlink = 1 /\ disk[ROOTINO].size = Dirents
      /\ \A i \in Inums : i # ROOTINO => disk[i].type = "none" /\ disk[i].nlink = 0 /\ Owned(disk[i]) = {}
      /\ Len(dents[ROOTINO]) = Dirents /\ dents[ROOTINO][1] = <<".", ROOTINO>> /\ dents[ROOTINO][2] = <<"..", ROOTINO>>
      /\ \A k \in 3..Dirents : dents[ROOTINO][k] = FreeEnt
      /\ Dirents \in Nat /\ Dirents >= 2 /\ Dirents <= MAXFILE * Dirents
      /\ \A p \in Procs : pr[p] = Idle
  BY DEF InitState
<1>2. ROOTINO \in Inums /\ ROOTINO # 0 /\ 0 \notin Inums
  BY RootIn, InumRange
<1>3. \A i \in Inums : Pending(i) = {} /\ ~Removing(i)
  BY <1>1, IdleFacts DEF Pending, Removing
<1>4. \A i \in Inums : Live(i) <=> i = ROOTINO
  BY <1>1, <1>2, <1>3 DEF Live
<1>5. \A k \in 3..Dirents : dents[ROOTINO][k][2] = 0
  BY <1>1 DEF FreeEnt
<1>6. \A k \in Places : k \in Nat /\ k >= 1
  BY DEF Places
<1>7. 2 \in Places
  BY <1>1, PlacesFinite DEF Places
<1>8. ASSUME NEW c \in Inums, NEW x PROVE x \in Ents(c) <=> c = ROOTINO /\ x = <<ROOTINO, 2>>
  <2>1. x \in Ents(c) <=> /\ x \in Inums \X Places /\ Live(x[1]) /\ x[2] <= disk[x[1]].size
                          /\ dents[x[1]][x[2]][1] # "." /\ dents[x[1]][x[2]][2] = c
    BY EntsIs
  <2>2. ASSUME x \in Ents(c) PROVE c = ROOTINO /\ x = <<ROOTINO, 2>>
    <3>1. PICK a \in Inums, k \in Places : x = <<a, k>>
      BY <2>1, <2>2
    <3>2. a = ROOTINO /\ k <= Dirents /\ dents[ROOTINO][k][1] # "." /\ dents[ROOTINO][k][2] = c
      BY <1>1, <1>4, <2>1, <2>2, <3>1
    <3>3. k \in Nat /\ k >= 1
      BY <1>6
    <3>4. k # 1
      BY <1>1, <3>2
    <3>5. ~(k >= 3)
      BY <1>1, <1>2, <1>5, <3>2, <3>3
    <3>6. k = 2
      BY <3>3, <3>4, <3>5
    <3> QED BY <1>1, <3>1, <3>2, <3>6
  <2>3. ASSUME c = ROOTINO, x = <<ROOTINO, 2>> PROVE x \in Ents(c)
    <3>1. x \in Inums \X Places /\ x[1] = ROOTINO /\ x[2] = 2
      BY <1>2, <1>7, <2>3
    <3>2. Live(ROOTINO) /\ 2 <= disk[ROOTINO].size /\ dents[ROOTINO][2][1] # "." /\ dents[ROOTINO][2][2] = ROOTINO
      BY <1>1, <1>2, <1>4
    <3> QED BY <2>1, <2>3, <3>1, <3>2
  <2> QED BY <2>2, <2>3
<1>9. Ents(ROOTINO) = {<<ROOTINO, 2>>} /\ \A c \in Inums : c # ROOTINO => Ents(c) = {}
  BY <1>2, <1>8
<1>10. Cardinality(Ents(ROOTINO)) = 1 /\ \A c \in Inums : c # ROOTINO => Cardinality(Ents(c)) = 0
  BY <1>9, FS_EmptySet, FS_Singleton
<1>11. \A c \in Inums : Cardinality(Pending(c)) = 0
  BY <1>3, FS_EmptySet
<1>12. NLINK_MAX \in Nat /\ NLINK_MAX >= 1
  BY FileSystemAssumption
<1>13. ASSUME NEW i \in Inums PROVE CountOK(i)
  <2>1. CASE i = ROOTINO
    BY <1>1, <1>10, <1>11, <1>12, <2>1 DEF CountOK
  <2>2. CASE i # ROOTINO
    <3>1. disk[i].type = "none" /\ disk[i].nlink = 0 /\ Owned(disk[i]) = {} /\ Cardinality(Ents(i)) = 0 /\ Cardinality(Pending(i)) = 0
      BY <1>1, <1>10, <1>11, <2>2
    <3> QED BY <1>12, <3>1 DEF CountOK
  <2> QED BY <2>1, <2>2
<1>14. ASSUME NEW i \in Inums PROVE DirOK(i)
  BY <1>1, <1>2, <1>5 DEF DirOK
<1>15. TreeOK
  <2>1. Live(ROOTINO) /\ dents[ROOTINO][2][2] = ROOTINO
    BY <1>1, <1>2, <1>4
  <2>2. \A i, c \in Inums : \A k \in Places : ~Child(i, k, c)
    BY <1>1, <1>2, <1>4, <1>5 DEF Child
  <2> QED BY <1>4, <2>1, <2>2 DEF TreeOK
<1> QED BY <1>13, <1>14, <1>15 DEF LinkInv

LEMMA InitKeeps ==
  ASSUME Init
  PROVE  FsInv
<1>1. TypeOK /\ InitState
  BY InitFacts
<1>2. BlockInv
  <2>1. /\ Owned(disk[ROOTINO]) = {1} /\ bitmap = {1} /\ \A i \in Inums : i # ROOTINO => Owned(disk[i]) = {}
    BY <1>1 DEF InitState
  <2>2. bitmap = UNION {Owned(disk[i]) : i \in Inums}
    BY <2>1, RootIn
  <2>3. \A i, j \in Inums : i # j => Owned(disk[i]) \intersect Owned(disk[j]) = {}
    BY <2>1
  <2> QED BY <2>2, <2>3 DEF BlockInv, BlocksOK
<1> QED BY <1>1, <1>2, InitTable, InitLinks DEF FsInv


-----------------------------------------------------------------------------
(* The invariant and what it says.                                          *)

LEMMA NextKeeps ==
  ASSUME FsInv, [Next]_vars
  PROVE  FsInv'
<1>1. CASE UNCHANGED vars
  <2>1. UNCHANGED <<disk, dents, bitmap, mem, cwd, fd, pr, boot, panicked>>
    BY <1>1 DEF vars
  <2>2. TypeOK /\ TableInv /\ LinkInv /\ BlockInv
    BY DEF FsInv
  <2>3. TypeOK' /\ BlockInv'
    BY <2>1, <2>2 DEF TypeOK, BlockInv
  <2>4. PendingKept
    BY <2>1 DEF PendingKept, Pending, Removing
  <2>5. ASSUME NEW i \in Inums PROVE LinkKept(i)
    <3>1. CountOK(i) /\ DirOK(i)
      BY <2>2 DEF LinkInv
    <3>2. DirOK(i)'
      BY <2>1, <3>1 DEF DirOK
    <3> QED BY <2>1, <3>1, <3>2 DEF LinkKept, CountOK
  <2>6. LinkInv'
    BY <2>2, <2>4, <2>5, LinkFrame
  <2>7. TableInv'
    <3>1. ASSUME NEW i \in Inums PROVE Refs(i)' = Refs(i) /\ (OrphanOK(i)' <=> OrphanOK(i))
      BY <2>1 DEF Refs, Tokens, HeldAll, Held, OrphanOK, Orphan
    <3>2. ASSUME NEW i \in Inums PROVE TableOK(i)' <=> TableOK(i)
      BY <2>1, <3>1 DEF TableOK
    <3>3. ASSUME NEW p \in Procs PROVE ProcOK(p)' <=> ProcOK(p)
      BY <2>1 DEF ProcOK, Found, Dying
    <3>4. BootOK' <=> BootOK
      BY <2>1 DEF BootOK
    <3> QED BY <2>1, <2>2, <3>1, <3>2, <3>3, <3>4 DEF TableInv
  <2> QED BY <2>3, <2>6, <2>7 DEF FsInv
<1>2. CASE Crash
  BY <1>2, CrashKeeps
<1>3. CASE Reclaim
  BY <1>3, ReclaimKeeps
<1>4. ASSUME NEW p \in Procs, NEW a \in Args, Begin(p, a) PROVE FsInv'
  BY <1>4, BeginKeeps
<1>5. ASSUME NEW p \in Procs, Namex(p) \/ Iput(p) \/ End(p) \/ DropDp(p) PROVE FsInv'
  BY <1>5, NamexKeeps, IputKeeps, EndKeeps, DropDpKeeps
<1>6. ASSUME NEW p \in Procs, CreateDp(p) \/ CreateFound(p) \/ CreateIp(p) \/ OpenIp(p) PROVE FsInv'
  BY <1>6, CreateDpKeeps, OpenIpKeeps, CreateIpKeeps
<1>7. ASSUME NEW p \in Procs, NEW ok \in BOOLEAN, OpenLocked(p, ok) PROVE FsInv'
  BY <1>7, OpenLockedKeeps
<1>8. ASSUME NEW p \in Procs, SysClose(p) \/ SysWrite(p) \/ SysRead(p) PROVE FsInv'
  BY <1>8, SysCloseKeeps, SysWriteKeeps, SysReadKeeps
<1>9. ASSUME NEW p \in Procs, UnlinkDp(p) \/ UnlinkIp(p) \/ UnlinkDec(p) PROVE FsInv'
  BY <1>9, UnlinkDpKeeps, UnlinkIpKeeps, UnlinkDecKeeps
<1>10. ASSUME NEW p \in Procs, LinkIp(p) \/ LinkDp(p) \/ LinkBad(p) \/ ChdirIp(p) PROVE FsInv'
  BY <1>10, LinkIpKeeps, LinkDpKeeps, LinkBadKeeps, ChdirKeeps
<1> QED BY <1>1, <1>2, <1>3, <1>4, <1>5, <1>6, <1>7, <1>8, <1>9, <1>10, Zenon DEF Next

\* The strengthened invariant: the types; the exact reference counts, locks and
\* what each call relies on between its steps (TableInv); the link counts, the
\* entries and the tree of live directories (LinkInv); the blocks (BlockInv). It
\* holds in every state of xv6's file system, through every call and crash.
THEOREM FsInvariant == Spec => []FsInv
<1>1. Init => FsInv
  BY InitKeeps
<1>2. FsInv /\ [Next]_vars => FsInv'
  BY NextKeeps
<1> QED BY <1>1, <1>2, PTL DEF Spec

LEMMA FsInvNoPanic ==
  ASSUME FsInv
  PROVE  NoPanic
<1>1. TypeOK /\ TableInv /\ LinkInv
  BY DEF FsInv
<1>2. ASSUME NEW p \in Procs, PanicAhead(p) PROVE FALSE
  <2>1. PICK i : /\ i = Wants(p) /\ i # 0 /\ mem[i].lock = None
                 /\ \/ mem[i].ref < 1 \/ Inode(i).type = "none"
                    \/ pr[p].pc \in {"create_dp", "unlink_dp", "link_dp"} /\ Inode(i).type # "dir"
                    \/ pr[p].pc = "unlink_ip" /\ Inode(i).nlink < 1
    BY <1>2 DEF PanicAhead
  <2>2. /\ pr[p].puts = <<>>
        /\ \/ pr[p].pc = "walk" /\ i = pr[p].at
           \/ pr[p].pc \in {"create_dp", "unlink_dp", "link_dp"} /\ i = pr[p].dp
           \/ pr[p].pc \in {"open_ip", "create_found", "create_ip", "link_ip", "link_bad", "chdir_ip", "unlink_ip"} /\ i = pr[p].ip
    <3>1. pr[p].puts = <<>>
      BY <2>1, Zenon DEF Wants
    <3>2. CASE pr[p].pc = "walk"
      <4>1. pr[p].path # <<>>
        BY <2>1, <3>1, <3>2 DEF Wants
      <4>2. Wants(p) = pr[p].at
        BY <3>1, <3>2, <4>1 DEF Wants
      <4> QED BY <2>1, <3>1, <3>2, <4>2
    <3>3. CASE pr[p].pc \in {"create_dp", "unlink_dp", "link_dp"}
      <4>1. Wants(p) = pr[p].dp
        BY <3>1, <3>3 DEF Wants
      <4> QED BY <2>1, <3>1, <3>3, <4>1
    <3>4. CASE pr[p].pc \in {"open_ip", "create_found", "create_ip", "link_ip", "link_bad", "chdir_ip", "unlink_ip"}
      <4>1. Wants(p) = pr[p].ip
        BY <3>1, <3>4 DEF Wants
      <4> QED BY <2>1, <3>1, <3>4, <4>1
    <3>5. CASE ~(\/ pr[p].pc = "walk" \/ pr[p].pc \in {"create_dp", "unlink_dp", "link_dp"}
                 \/ pr[p].pc \in {"open_ip", "create_found", "create_ip", "link_ip", "link_bad", "chdir_ip", "unlink_ip"})
      <4>1. Wants(p) = 0
        BY <3>1, <3>5 DEF Wants
      <4> QED BY <2>1, <4>1
    <3> QED BY <3>2, <3>3, <3>4, <3>5
  <2>3. boot = 0
    <3>1. boot # 0 => pr[p] = Idle
      BY <1>1 DEF TableInv, BootOK
    <3> QED BY <2>2, <3>1, IdleFacts
  <2>4. /\ ProcOK(p) /\ Shape(pr[p]) /\ (pr[p].at # 0 => pr[p].at \in Inums)
        /\ (pr[p].ip # 0 => pr[p].ip \in Inums) /\ (pr[p].dp # 0 => pr[p].dp \in Inums)
        /\ \A j \in Inums : Inode(j) = disk[j]
    BY <2>2, <2>3, Ready
  <2>5. i \in Inums
    BY <2>1, <2>2, <2>4
  <2>6. Held(p, i) >= 1
    BY <1>1, <2>2, <2>4, <2>5, OwnHolds
  <2>7. disk[i].type # "none" /\ mem[i].ref >= 1 /\ Inode(i) = disk[i]
    BY <1>1, <2>3, <2>4, <2>5, <2>6, HeldTyped
  <2>8. pr[p].pc \in {"create_dp", "unlink_dp", "link_dp"} => disk[i].type = "dir"
    BY <2>2, <2>4 DEF ProcOK
  <2>9. pr[p].pc = "unlink_ip" => disk[i].nlink >= 1
    <3> SUFFICES ASSUME pr[p].pc = "unlink_ip" PROVE disk[i].nlink >= 1
      OBVIOUS
    <3> DEFINE k == Min(Found(pr[p].dp, pr[p].name))
    <3>1. PICK j : j = pr[p].dp
      OBVIOUS
    <3>2. j \in Inums /\ i = pr[p].ip /\ disk[j].type = "dir" /\ disk[j].nlink > 0 /\ Found(j, pr[p].name) # {} /\ dents[j][k][2] = i
      BY <2>2, <2>4, <3>1 DEF ProcOK, Shape, HasDp
    <3>3. Live(j)
      <4>1. mem[j].lock = p
        <5>1. TableOK(j) /\ Locks(pr[p], j)
          BY <1>1, <2>3, <3>1, <3>2 DEF TableInv, Locks
        <5> QED BY <5>1 DEF TableOK
      <4>2. ASSUME NEW q \in Procs, Removes(pr[q], j) PROVE FALSE
        <5>1. Locks(pr[q], j)
          BY <4>2 DEF Removes, Locks
        <5>2. mem[j].lock = q
          BY <1>1, <2>3, <3>2, <5>1 DEF TableInv, TableOK
        <5> QED BY <4>1, <4>2, <5>2 DEF Removes
      <4> QED BY <3>2, <4>2 DEF Live, Removing
    <3>4. k \in Found(j, pr[p].name)
      <4>1. Found(j, pr[p].name) \in SUBSET Nat
        BY DEF Found
      <4> QED BY <3>1, <3>2, <4>1, MinIsMember
    <3>5. k \in 1..disk[j].size /\ dents[j][k][2] # 0
      BY <3>4 DEF Found
    <3> HIDE DEF k
    <3> QED BY <1>1, <3>2, <3>3, <3>5, Named
  <2>10. mem[i].ref \in Int /\ disk[i].nlink \in Int
    BY <1>1, <2>5 DEF TypeOK, Slot, Dinode
  <2> QED BY <2>1, <2>7, <2>8, <2>9, <2>10
<1>3. panicked = "no"
  BY <1>1 DEF TypeOK
<1> QED BY <1>2, <1>3 DEF NoPanic

\* No call of any process reaches a panic() of ilock(), iput(), bfree(),
\* dirlookup() or sys_unlink(), and ireclaim() reaches none after a crash.
THEOREM NoPanicCorrect == Spec => []NoPanic
<1>1. FsInv => NoPanic
  BY FsInvNoPanic
<1> QED BY <1>1, FsInvariant, PTL

\* The inode table's valid copy of an unlocked inode is the inode on the disk:
\* every change made under the sleep-lock was followed by iupdate().
THEOREM CacheCoherentCorrect == Spec => []CacheCoherent
<1>1. FsInv => CacheCoherent
  <2> SUFFICES ASSUME FsInv PROVE CacheCoherent
    OBVIOUS
  <2>1. CASE boot = 0
    BY <2>1 DEF FsInv, TableInv, TableOK, CacheCoherent
  <2>2. CASE boot # 0
    BY <2>2, TableTypes DEF FsInv, TableInv, BootOK, CacheCoherent
  <2> QED BY <2>1, <2>2
<1> QED BY <1>1, FsInvariant, PTL

\* Nobody is in a call: nothing is pending, and every live entry counts.
LEMMA QuietLinks ==
  ASSUME FsInv, Quiescent, NEW i \in Inums
  PROVE  Cardinality(Links(i)) = (IF disk[i].type = "none" THEN 0 ELSE disk[i].nlink)
<1>1. TypeOK /\ CountOK(i) /\ \A p \in Procs : pr[p] = Idle
  BY DEF FsInv, LinkInv, Quiescent
<1>2. Pending(i) = {} /\ \A j \in Inums : ~Removing(j)
  BY <1>1, IdleFacts DEF Pending, Removing
<1>3. Ents(i) = Links(i)
  <2>1. \A x \in Links(i) : x[1] \in Inums /\ disk[x[1]].type = "dir" /\ disk[x[1]].nlink > 0
    BY DEF Links
  <2>2. \A x \in Links(i) : Live(x[1])
    BY <1>2, <2>1 DEF Live
  <2> QED BY <2>2 DEF Ents
<1>4. PICK n \in Nat : n = Cardinality(Links(i)) /\ n = Cardinality(Ents(i))
  BY <1>3, LinkSets
<1>5. Cardinality(Pending(i)) = 0
  BY <1>2, FS_EmptySet
<1>6. disk[i].nlink = n /\ (disk[i].type = "none" => disk[i].nlink = 0)
  BY <1>1, <1>4, <1>5 DEF CountOK
<1> QED BY <1>4, <1>6

\* Link counts stay in the range of the code's short; whenever no call is in
\* progress the count of an allocated inode is the number of entries naming it.
THEOREM LinkCountsCorrect == Spec => []LinkCounts
<1>1. FsInv => LinkCounts
  <2> SUFFICES ASSUME FsInv PROVE LinkCounts
    OBVIOUS
  <2>1. ASSUME NEW i \in Inums PROVE disk[i].nlink \in 0..NLINK_MAX
    <3>1. LinkInv /\ CountOK(i)
      BY DEF FsInv, LinkInv
    <3>2. disk[i].nlink \in Int /\ disk[i].nlink >= 0
      BY <3>1, NlinkNat
    <3>3. disk[i].nlink <= NLINK_MAX /\ NLINK_MAX \in Nat
      BY <3>1, FileSystemAssumption DEF CountOK
    <3> QED BY <3>2, <3>3
  <2>2. Quiescent => \A i \in Inums : Cardinality(Links(i)) = (IF disk[i].type = "none" THEN 0 ELSE disk[i].nlink)
    BY QuietLinks
  <2> QED BY <2>1, <2>2, Zenon DEF LinkCounts
<1> QED BY <1>1, FsInvariant, PTL

\* Whenever no call is in progress the bitmap marks the blocks of the allocated
\* inodes and no others, and no block belongs to two inodes.
THEOREM BlocksAccountedCorrect == Spec => []BlocksAccounted
<1>1. FsInv => BlocksAccounted
  <2> SUFFICES ASSUME FsInv PROVE BlocksAccounted
    OBVIOUS
  <2>1. /\ bitmap = UNION {Owned(disk[i]) : i \in Inums}
        /\ \A i, j \in Inums : i # j => Owned(disk[i]) \intersect Owned(disk[j]) = {}
    BY DEF FsInv, BlockInv, BlocksOK
  <2>2. \A i \in Inums : disk[i].type = "none" => Owned(disk[i]) = {}
    BY DEF FsInv, LinkInv, CountOK
  <2>3. bitmap = UNION {Owned(disk[i]) : i \in {j \in Inums : disk[j].type # "none"}}
    BY <2>1, <2>2
  <2> QED BY <2>1, <2>3 DEF BlocksAccounted
<1> QED BY <1>1, FsInvariant, PTL

LEMMA QuietRefs ==
  ASSUME FsInv, Quiescent, boot = 0, NEW i \in Inums
  PROVE  /\ mem[i].ref = Holders(i) /\ mem[i].lock = None
         /\ (disk[i].type # "none" /\ disk[i].nlink = 0) => mem[i].ref > 0
<1>1. TypeOK /\ TableOK(i) /\ OrphanOK(i) /\ \A p \in Procs : pr[p] = Idle
  BY DEF FsInv, TableInv, Quiescent
<1>2. PICK A \in SUBSET Procs, B \in SUBSET Procs : A = {p \in Procs : cwd[p] = i} /\ B = {p \in Procs : fd[p] # None /\ fd[p].ip = i}
  OBVIOUS
<1>3. ASSUME NEW p \in Procs PROVE Held(p, i) = One(p \in A) + One(p \in B)
  <2>1. Held(p, i) = HeldBy(Idle, cwd[p], fd[p], i) /\ i # 0
    BY <1>1, InumRange DEF Held
  <2>2. HeldBy(Idle, cwd[p], fd[p], i) = One(cwd[p] = i) + One(fd[p] # None /\ fd[p].ip = i)
    BY <2>1 DEF HeldBy, One, Idle
  <2>3. (cwd[p] = i <=> p \in A) /\ (fd[p] # None /\ fd[p].ip = i <=> p \in B)
    BY <1>2
  <2>4. One(cwd[p] = i) = One(p \in A) /\ One(fd[p] # None /\ fd[p].ip = i) = One(p \in B)
    BY <2>3 DEF One
  <2> QED BY <2>1, <2>2, <2>4
<1>4. PICK F \in Counts : F = HeldAll(i) /\ \A p \in Procs : F[p] = One(p \in A) + One(p \in B)
  BY <1>3, HeldCounts
<1>5. Cardinality(Tokens(F)) = Cardinality(A) + Cardinality(B)
  BY <1>4, TokensTwo
<1>6. mem[i].ref = Holders(i)
  BY <1>1, <1>2, <1>4, <1>5 DEF TableOK, Refs, Holders
<1>7. mem[i].lock = None
  <2>1. \A p \in Procs : mem[i].lock # p
    BY <1>1, IdleFacts DEF TableOK
  <2>2. mem[i].lock \in Procs \union {None}
    BY <1>1 DEF TypeOK, Slot
  <2> QED BY <2>1, <2>2
<1>8. (disk[i].type # "none" /\ disk[i].nlink = 0) => mem[i].ref > 0
  <2>1. Orphan(i) => mem[i].valid
    BY <1>1, IdleFacts DEF OrphanOK
  <2> QED BY <1>1, <2>1 DEF Orphan, TableOK
<1> QED BY <1>6, <1>7, <1>8

\* Whenever no call is in progress and recovery is over, reference counts are
\* exact, no inode is locked, and an inode without links is one in use.
THEOREM RefsExactCorrect == Spec => []RefsExact
<1>1. FsInv => RefsExact
  BY QuietRefs DEF RefsExact
<1> QED BY <1>1, FsInvariant, PTL
===============================================================================
