-------------------------------- MODULE Log --------------------------------
(***************************************************************************)
(* The write-ahead log of xv6 (kernel/log.c): begin_op, log_write, end_op, *)
(* commit, sys_sync and the recovery at boot, with a crash between any two *)
(* block writes.                                                           *)
(*                                                                         *)
(* Processes run file system calls. A section under log.lock is one step;  *)
(* commit() runs without the lock and takes one step per block it writes.  *)
(* A disk block is written atomically (initlog() panics unless the header  *)
(* fits in one block). The contents of a block is the number of the call   *)
(* that wrote it last; cache is what bread() returns.                      *)
(***************************************************************************)
EXTENDS Integers, Sequences, FiniteSets

CONSTANTS Procs,        \* processes that make file system calls
          Blocks,       \* home blocks of the disk
          LOGBLOCKS,    \* data blocks of the log
          MAXOPBLOCKS,  \* blocks begin_op() reserves for a call
          OpBlocks,     \* blocks a call really writes at most
          MaxOps,       \* bound: calls in a behaviour
          MaxCrash      \* bound: crashes in a behaviour

ASSUME LogAssumption ==
  /\ LOGBLOCKS \in Nat /\ MAXOPBLOCKS \in Nat \ {0} /\ OpBlocks \in 0..MAXOPBLOCKS
  /\ MAXOPBLOCKS <= LOGBLOCKS
  /\ MaxOps \in Nat /\ MaxCrash \in Nat
ASSUME ProcsAssumption == IsFiniteSet(Procs)

VARIABLES
  home,         \* disk: home blocks
  logdisk,      \* disk: data blocks of the log
  hdr,          \* disk: block numbers in the log's header block
  cache,        \* buffer cache
  lh,           \* log.lh: block numbers logged in memory
  outstanding, committing, ncommit,   \* log.outstanding, ...
  pc,           \* where each process is
  tail,         \* loop variable of write_log and install_trans
  asleep,       \* processes sleeping on &log
  op,           \* number of the call each process is in
  wrote,        \* blocks that call has written
  target,       \* n of a sys_sync in progress
  boot,         \* "read", "install": recovery; "up": running
  panicked,
  nops, ncrash, \* calls and crashes so far
  pending,      \* calls that ended with writes and are not durable
  need          \* pending when a sys_sync in progress started

diskVars == <<home, logdisk, hdr>>
opVars   == <<op, wrote, nops>>
syncVars == <<target, need>>
vars == <<diskVars, cache, lh, outstanding, committing, ncommit, pc, tail, asleep,
          opVars, syncVars, boot, panicked, ncrash, pending>>

Values == 0..MaxOps

\* mkfs writes a file system whose log is empty; the first boot recovers it.
Init ==
  /\ home = [b \in Blocks |-> 0] /\ logdisk = [i \in 1..LOGBLOCKS |-> 0] /\ hdr = <<>>
  /\ cache = home /\ lh = <<>>
  /\ outstanding = 0 /\ committing = FALSE /\ ncommit = 0
  /\ pc = [p \in Procs |-> "idle"] /\ tail = 0 /\ asleep = {}
  /\ op = [p \in Procs |-> 0] /\ wrote = [p \in Procs |-> {}] /\ nops = 0
  /\ target = [p \in Procs |-> 0] /\ need = [p \in Procs |-> {}]
  /\ boot = "read" /\ panicked = FALSE /\ ncrash = 0 /\ pending = {}

Runs(p) == boot = "up" /\ ~panicked /\ p \notin asleep

-----------------------------------------------------------------------------
\* Plausible bug: the blocks already logged are left out of the sum.
MayBeginMutant == ~committing /\ (outstanding + 1) * MAXOPBLOCKS <= LOGBLOCKS

\* begin_op: no room while a commit runs or while this call might overflow the log.
MayBegin ==
  ~committing /\ Len(lh) + (outstanding + 1) * MAXOPBLOCKS <= LOGBLOCKS

begin_op(p) ==
  /\ Runs(p) /\ pc[p] \in {"idle", "begin"} /\ nops < MaxOps
  /\ IF MayBegin
     THEN /\ outstanding' = outstanding + 1
          /\ nops' = nops + 1
          /\ op' = [op EXCEPT ![p] = nops + 1]
          /\ wrote' = [wrote EXCEPT ![p] = {}]
          /\ pc' = [pc EXCEPT ![p] = "op"] /\ UNCHANGED asleep
     ELSE /\ pc' = [pc EXCEPT ![p] = "begin"] /\ asleep' = asleep \cup {p}
          /\ UNCHANGED <<outstanding, opVars>>
  /\ UNCHANGED <<diskVars, cache, lh, committing, ncommit, tail, syncVars, boot,
                 panicked, ncrash, pending>>

\* log_write of block b, which the call has just modified under its buffer lock;
\* a call keeps to OpBlocks different blocks. The test for a full log comes
\* before the search for a block already logged.
log_write(p, b) ==
  /\ Runs(p) /\ pc[p] = "op"
  /\ Cardinality(wrote[p] \cup {b}) <= OpBlocks
  /\ IF Len(lh) >= LOGBLOCKS \/ outstanding < 1
     THEN panicked' = TRUE /\ UNCHANGED <<cache, lh, wrote>>
     ELSE /\ cache' = [cache EXCEPT ![b] = op[p]]
          /\ lh' = IF \E i \in DOMAIN lh : lh[i] = b THEN lh ELSE Append(lh, b)
          /\ wrote' = [wrote EXCEPT ![p] = @ \cup {b}]
          /\ UNCHANGED panicked
  /\ UNCHANGED <<diskVars, outstanding, committing, ncommit, pc, tail, asleep, op,
                 nops, syncVars, boot, ncrash, pending>>

\* end_op up to the call of commit(): the last call out commits, unless nothing
\* was logged.
end_op(p) ==
  /\ Runs(p) /\ pc[p] = "op"
  /\ outstanding' = outstanding - 1
  /\ panicked' = committing
  /\ pending' = IF wrote[p] = {} THEN pending ELSE pending \cup {op[p]}
  /\ IF outstanding = 1
     THEN /\ committing' = TRUE /\ tail' = 0
          /\ pc' = [pc EXCEPT ![p] = IF lh = <<>> THEN "finish" ELSE "write_log"]
          /\ UNCHANGED asleep
     ELSE /\ asleep' = {}
          /\ pc' = [pc EXCEPT ![p] = "idle"]
          /\ UNCHANGED <<committing, tail>>
  /\ UNCHANGED <<diskVars, cache, lh, ncommit, opVars, syncVars, boot, ncrash>>

-----------------------------------------------------------------------------
(***************************************************************************)
(* commit().                                                               *)
(***************************************************************************)
write_log(p) ==
  /\ Runs(p) /\ pc[p] = "write_log" /\ tail < Len(lh)
  /\ logdisk' = [logdisk EXCEPT ![tail + 1] = cache[lh[tail + 1]]]
  /\ tail' = tail + 1
  /\ UNCHANGED <<home, hdr, cache, lh, outstanding, committing, ncommit, pc, asleep,
                 opVars, syncVars, boot, panicked, ncrash, pending>>

\* Plausible bug: the header may be written before the log blocks it describes.
write_headMutant(p) ==
  /\ Runs(p) /\ pc[p] = "write_log"
  /\ hdr' = lh /\ tail' = 0 /\ pending' = {}
  /\ pc' = [pc EXCEPT ![p] = "install"]
  /\ UNCHANGED <<home, logdisk, cache, lh, outstanding, committing, ncommit, asleep,
                 opVars, syncVars, boot, panicked, ncrash>>

\* write_head: the commit point.
write_head(p) ==
  /\ Runs(p) /\ pc[p] = "write_log" /\ tail = Len(lh)
  /\ hdr' = lh /\ tail' = 0 /\ pending' = {}
  /\ pc' = [pc EXCEPT ![p] = "install"]
  /\ UNCHANGED <<home, logdisk, cache, lh, outstanding, committing, ncommit, asleep,
                 opVars, syncVars, boot, panicked, ncrash>>

\* One round of install_trans: a log block goes to its home block.
InstallOne ==
  LET b == lh[tail + 1] IN
  /\ tail < Len(lh)
  /\ home' = [home EXCEPT ![b] = logdisk[tail + 1]]
  /\ cache' = [cache EXCEPT ![b] = logdisk[tail + 1]]
  /\ tail' = tail + 1
  /\ UNCHANGED <<logdisk, hdr, lh, outstanding, committing, ncommit, pc, asleep,
                 opVars, syncVars, boot, panicked, ncrash, pending>>

install_trans(p) == Runs(p) /\ pc[p] = "install" /\ InstallOne

\* log.lh.n = 0; write_head().
erase(p) ==
  /\ Runs(p) /\ pc[p] = "install" /\ tail = Len(lh)
  /\ lh' = <<>> /\ hdr' = <<>>
  /\ pc' = [pc EXCEPT ![p] = "finish"]
  /\ UNCHANGED <<home, logdisk, cache, outstanding, committing, ncommit, tail, asleep,
                 opVars, syncVars, boot, panicked, ncrash, pending>>

\* Plausible bug: no wakeup() after the commit.
finishSilent(p) ==
  /\ Runs(p) /\ pc[p] = "finish"
  /\ committing' = FALSE /\ ncommit' = ncommit + 1
  /\ pc' = [pc EXCEPT ![p] = "idle"]
  /\ UNCHANGED <<diskVars, cache, lh, outstanding, tail, asleep, opVars, syncVars,
                 boot, panicked, ncrash, pending>>

\* end_op after commit().
finish(p) ==
  /\ Runs(p) /\ pc[p] = "finish"
  /\ committing' = FALSE /\ ncommit' = ncommit + 1 /\ asleep' = {}
  /\ pc' = [pc EXCEPT ![p] = "idle"]
  /\ UNCHANGED <<diskVars, cache, lh, outstanding, tail, opVars, syncVars, boot,
                 panicked, ncrash, pending>>

-----------------------------------------------------------------------------
\* Plausible bug: the count of commits to wait for is off by one.
sys_syncMutant(p) ==
  /\ Runs(p) /\ pc[p] = "idle"
  /\ committing \/ outstanding > 0
  /\ target' = [target EXCEPT ![p] = ncommit]
  /\ need' = [need EXCEPT ![p] = pending]
  /\ pc' = [pc EXCEPT ![p] = "sync"] /\ asleep' = asleep \cup {p}
  /\ UNCHANGED <<diskVars, cache, lh, outstanding, committing, ncommit, tail, opVars,
                 boot, panicked, ncrash, pending>>

\* sys_sync waits for the commit that is running or that the calls in progress
\* will end with; with neither it returns at once.
sys_sync(p) ==
  /\ Runs(p) /\ pc[p] = "idle"
  /\ committing \/ outstanding > 0
  /\ target' = [target EXCEPT ![p] = ncommit + 1]
  /\ need' = [need EXCEPT ![p] = pending]
  /\ pc' = [pc EXCEPT ![p] = "sync"] /\ asleep' = asleep \cup {p}
  /\ UNCHANGED <<diskVars, cache, lh, outstanding, committing, ncommit, tail, opVars,
                 boot, panicked, ncrash, pending>>

SyncWoken(p) ==
  /\ Runs(p) /\ pc[p] = "sync"
  /\ IF ncommit < target[p]
     THEN asleep' = asleep \cup {p} /\ UNCHANGED <<pc, syncVars>>
     ELSE /\ pc' = [pc EXCEPT ![p] = "idle"]
          /\ need' = [need EXCEPT ![p] = {}]
          /\ target' = [target EXCEPT ![p] = 0]
          /\ UNCHANGED asleep
  /\ UNCHANGED <<diskVars, cache, lh, outstanding, committing, ncommit, tail, opVars,
                 boot, panicked, ncrash, pending>>

-----------------------------------------------------------------------------
(***************************************************************************)
(* A crash loses the memory and keeps the disk; recover_from_log.          *)
(***************************************************************************)
Crash ==
  /\ ncrash < MaxCrash /\ ncrash' = ncrash + 1
  /\ boot' = "read" /\ panicked' = FALSE
  /\ lh' = <<>> /\ outstanding' = 0 /\ committing' = FALSE /\ ncommit' = 0
  /\ pc' = [p \in Procs |-> "idle"] /\ tail' = 0 /\ asleep' = {}
  /\ op' = [p \in Procs |-> 0] /\ wrote' = [p \in Procs |-> {}]
  /\ target' = [p \in Procs |-> 0] /\ need' = [p \in Procs |-> {}]
  /\ pending' = {} /\ cache' = home
  /\ UNCHANGED <<diskVars, nops>>

read_head ==
  /\ boot = "read" /\ boot' = "install"
  /\ lh' = hdr /\ tail' = 0
  /\ UNCHANGED <<diskVars, cache, outstanding, committing, ncommit, pc, asleep,
                 opVars, syncVars, panicked, ncrash, pending>>

RecoverInstall == boot = "install" /\ InstallOne

RecoverErase ==
  /\ boot = "install" /\ tail = Len(lh)
  /\ lh' = <<>> /\ hdr' = <<>> /\ boot' = "up"
  /\ UNCHANGED <<home, logdisk, cache, outstanding, committing, ncommit, pc, tail,
                 asleep, opVars, syncVars, panicked, ncrash, pending>>

-----------------------------------------------------------------------------
Step(p) == \/ begin_op(p) \/ (\E b \in Blocks : log_write(p, b)) \/ end_op(p)
           \/ write_log(p) \/ write_head(p) \/ install_trans(p) \/ erase(p)
           \/ finish(p) \/ sys_sync(p) \/ SyncWoken(p)

Recover == read_head \/ RecoverInstall \/ RecoverErase

Next == (\E p \in Procs : Step(p)) \/ Recover \/ Crash

Spec == Init /\ [][Next]_vars

-----------------------------------------------------------------------------
(***************************************************************************)
(* Properties.                                                             *)
(***************************************************************************)

\* Types of the log's state on disk, in memory and in the processes.
DiskTypes ==
  /\ home \in [Blocks -> Values] /\ logdisk \in [1..LOGBLOCKS -> Values]
  /\ hdr \in Seq(Blocks) /\ Len(hdr) <= LOGBLOCKS
MemTypes ==
  /\ cache \in [Blocks -> Values] /\ lh \in Seq(Blocks) /\ Len(lh) <= LOGBLOCKS
  /\ outstanding \in Nat /\ ncommit \in Nat
  /\ tail \in 0..LOGBLOCKS /\ boot \in {"read", "install", "up"}
  /\ nops \in Values /\ ncrash \in 0..MaxCrash
  /\ pending \subseteq Values
ProcTypes ==
  /\ pc \in [Procs -> {"idle", "begin", "op", "write_log", "install", "finish", "sync"}]
  /\ asleep \subseteq Procs
  /\ op \in [Procs -> Values] /\ wrote \in [Procs -> SUBSET Blocks]
  /\ target \in [Procs -> Nat] /\ need \in [Procs -> SUBSET Values]
FlagTypes == committing \in BOOLEAN /\ panicked \in BOOLEAN
TypeOK == DiskTypes /\ MemTypes /\ ProcTypes /\ FlagTypes

\* The home contents that recovery would leave if the machine crashed now: a
\* block named in the header comes from the log.
Recovered ==
  [b \in Blocks |-> IF \E i \in DOMAIN hdr : hdr[i] = b
                    THEN logdisk[CHOOSE i \in DOMAIN hdr : hdr[i] = b]
                    ELSE home[b]]

(***************************************************************************)
(* The invariant the proofs rest on, in named parts.                       *)
(***************************************************************************)
Active == {p \in Procs : pc[p] = "op"}
InCommit(p) == pc[p] \in {"write_log", "install", "finish"}

\* A block is logged once: log_write() absorbs the second write of a block.
OnceLogged ==
  /\ \A i, j \in DOMAIN lh : lh[i] = lh[j] => i = j
  /\ \A i, j \in DOMAIN hdr : hdr[i] = hdr[j] => i = j

\* outstanding counts the calls; one process commits, and no call runs then.
Exclusion ==
  /\ outstanding = Cardinality(Active)
  /\ \A p, q \in Procs : InCommit(p) /\ InCommit(q) => p = q
  /\ committing <=> \E p \in Procs : InCommit(p)
  /\ committing => Active = {}
  /\ boot # "up" => \A p \in Procs : pc[p] = "idle"

\* Where memory, log and home blocks agree in each phase.
Phases ==
  /\ boot = "up" => \A b \in Blocks :
       (\A i \in DOMAIN lh : lh[i] # b) => cache[b] = home[b]
  /\ (boot = "up" /\ \A p \in Procs : pc[p] # "install") => hdr = <<>>
  /\ (boot = "up" /\ \A p \in Procs : pc[p] \notin {"op", "write_log", "install"})
       => lh = <<>>
  /\ \A p \in Procs : pc[p] = "write_log" =>
       tail <= Len(lh) /\ \A i \in 1..tail : logdisk[i] = cache[lh[i]]
  /\ \A p \in Procs : pc[p] = "install" =>
       /\ hdr = lh /\ tail <= Len(lh)
       /\ \A i \in DOMAIN lh : logdisk[i] = cache[lh[i]]
       /\ \A i \in 1..tail : home[lh[i]] = logdisk[i]
  /\ boot # "up" => cache = home
  /\ boot = "install" => /\ lh = hdr /\ tail <= Len(lh)
                         /\ \A i \in 1..tail : home[lh[i]] = logdisk[i]

\* TypeOK, OnceLogged, Exclusion and Phases together are inductive: the phases
\* of the commit determine what is on the disk, and the count of calls in
\* progress keeps everybody else out of them.
LogInv == TypeOK /\ OnceLogged /\ Exclusion /\ Phases

\* What the running system sees, or will see once it has recovered.
View == IF boot = "up" THEN cache ELSE Recovered

\* The log implements the atomic disk: whatever the calls, the commit and the
\* crashes, during recovery too, the blocks that a recovery would bring back
\* change only at the commit point, and then to everything that the finished
\* calls wrote.
Disk == INSTANCE AtomicDisk WITH
          durable <- Recovered,
          view    <- View,
          active  <- Active
Atomic == Disk!Spec

\* The blocks that the calls in progress may still add to the log, one pair
\* for each.
Unused == {u \in Active \X (1..MAXOPBLOCKS) : u[2] > Cardinality(wrote[u[1]])}

\* begin_op() reserves the space a call needs: the log always has room for all
\* that the calls in progress may still add to it, however they interleave, so
\* a block that is not logged yet never meets the panic for a full log.
SpaceReserved == Len(lh) + Cardinality(Unused) <= LOGBLOCKS

\* Whoever sleeps on the log has somebody to wake it: a call in progress, or a
\* commit, whose end_op() calls wakeup(). Otherwise all would wait for good.
SleeperHasWaker ==
  asleep # {} => \E p \in Procs : pc[p] \in {"op", "write_log", "install", "finish"}

\* sys_sync keeps its word: when it returns, every call that had ended before
\* it was made is durable; also when it returns at once.
SyncDurable ==
  boot = "up" =>
    /\ \A p \in Procs : pc[p] = "sync" /\ ncommit >= target[p] => need[p] \cap pending = {}
    /\ outstanding = 0 /\ ~committing => pending = {}

Busy == Active # {} \/ committing

\* Somebody asleep on the log, or still short of its commit in sys_sync, has a
\* call or a commit to wait for.
Waiting ==
  /\ asleep # {} => Busy
  /\ \A p \in Procs : pc[p] = "sync" =>
       /\ target[p] <= ncommit + 1
       /\ ncommit < target[p] => Busy

\* Calls are numbered once.
Numbers ==
  /\ \A n \in pending : n <= nops
  /\ \A p \in Procs : pc[p] = "sync" => \A n \in need[p] : n <= nops
  /\ \A p \in Active :
       /\ op[p] <= nops /\ op[p] \notin pending
       /\ \A q \in Active : op[p] = op[q] => p = q
       /\ \A q \in Procs : pc[q] = "sync" => op[p] \notin need[q]

\* What is pending is in the log and not past the commit point.
Pending ==
  /\ pending # {} => /\ lh # <<>> /\ boot = "up"
                     /\ \A p \in Procs : pc[p] \notin {"install", "finish"}
  /\ \A p \in Active : wrote[p] # {} => lh # <<>>
  /\ \A p \in Procs : pc[p] = "sync" /\ ncommit >= target[p] => need[p] \cap pending = {}

\* With LogInv, inductive; it implies SleeperHasWaker and SyncDurable.
SyncInv == Waiting /\ Numbers /\ Pending
=============================================================================
