----------------------------- MODULE LogProofs -----------------------------
(***************************************************************************)
(* Proofs about the write-ahead log, for every number of processes, blocks *)
(* and log blocks, calls and crashes: LogInv is inductive, and the log     *)
(* implements the atomic disk.                                             *)
(***************************************************************************)
EXTENDS Log, FiniteSetTheorems, TLAPS

\* The initial state satisfies the invariant: the first boot, with an empty log.
LEMMA InitLogInv == Init => LogInv
<1> SUFFICES ASSUME Init PROVE LogInv
  OBVIOUS
<1> USE DEF Init, Values
<1>1. TypeOK
  <2>1. DiskTypes
    BY LogAssumption DEF DiskTypes
  <2>2. MemTypes
    BY LogAssumption DEF MemTypes
  <2>3. ProcTypes
    BY LogAssumption DEF ProcTypes
  <2>4. FlagTypes
    BY DEF FlagTypes
  <2> QED
    BY <2>1, <2>2, <2>3, <2>4 DEF TypeOK
<1>2. OnceLogged
  BY DEF OnceLogged
<1>3. Active = {} /\ \A p \in Procs : ~InCommit(p)
  BY DEF Active, InCommit
<1>4. Exclusion
  BY <1>3, FS_EmptySet DEF Exclusion
<1>5. Phases
  BY LogAssumption DEF Phases
<1> QED
  BY <1>1, <1>2, <1>4, <1>5 DEF LogInv

\* The numbers of calls are block contents.
LEMMA ValuesType == 0 \in Values /\ \A n \in Values : n < MaxOps => n + 1 \in Values
BY LogAssumption DEF Values

\* A process inside a call is counted.
LEMMA CallCounted ==
  ASSUME Exclusion, NEW p \in Procs, pc[p] = "op"
  PROVE  IsFiniteSet(Active) /\ p \in Active /\ outstanding \in Nat \ {0} /\ ~committing
<1>1. p \in Active
  BY DEF Active
<1>2. IsFiniteSet(Active)
  BY ProcsAssumption, FS_Subset DEF Active
<1>3. Cardinality(Active) \in Nat /\ Cardinality(Active) # 0
  BY <1>1, <1>2, FS_CardinalityType, FS_EmptySet
<1> QED
  BY <1>1, <1>2, <1>3 DEF Exclusion

\* The disk keeps its type.
LEMMA DiskNext == TypeOK /\ [Next]_vars => DiskTypes'
<1> SUFFICES ASSUME TypeOK, [Next]_vars PROVE DiskTypes'
  OBVIOUS
<1>0. DiskTypes /\ MemTypes
  BY DEF TypeOK
<1>1. CASE UNCHANGED diskVars
  BY <1>0, <1>1 DEF DiskTypes, diskVars
<1>2. ASSUME NEW p \in Procs, write_log(p) PROVE DiskTypes'
  <2>1. tail + 1 \in 1..LOGBLOCKS /\ tail + 1 \in DOMAIN lh
    BY <1>0, <1>2, LogAssumption DEF write_log, MemTypes
  <2>2. lh[tail + 1] \in Blocks /\ cache[lh[tail + 1]] \in Values
    BY <1>0, <2>1 DEF MemTypes
  <2> QED
    BY <1>0, <1>2, <2>1, <2>2 DEF write_log, DiskTypes
<1>3. ASSUME NEW p \in Procs, write_head(p) PROVE DiskTypes'
  BY <1>0, <1>3 DEF write_head, DiskTypes, MemTypes
<1>4. ASSUME InstallOne PROVE DiskTypes'
  BY <1>0, <1>4, LogAssumption DEF InstallOne, DiskTypes, MemTypes
<1>5. ASSUME NEW p \in Procs, erase(p) PROVE DiskTypes'
  BY <1>0, <1>5, LogAssumption DEF erase, DiskTypes
<1>6. ASSUME RecoverErase PROVE DiskTypes'
  BY <1>0, <1>6, LogAssumption DEF RecoverErase, DiskTypes
<1> QED
  BY <1>1, <1>2, <1>3, <1>4, <1>5, <1>6
  DEF Next, Step, Recover, install_trans, RecoverInstall, begin_op, log_write, end_op,
      finish, sys_sync, SyncWoken, read_head, Crash, vars, diskVars

\* The memory keeps its type.
LEMMA MemNext == TypeOK /\ Exclusion /\ [Next]_vars => MemTypes'
<1> SUFFICES ASSUME TypeOK, Exclusion, [Next]_vars PROVE MemTypes'
  OBVIOUS
<1>0. DiskTypes /\ MemTypes /\ ProcTypes
  BY DEF TypeOK
<1> USE LogAssumption DEF MemTypes, diskVars, opVars, syncVars
<1>1. ASSUME NEW p \in Procs, begin_op(p) PROVE MemTypes'
  BY <1>0, <1>1, ValuesType DEF begin_op
<1>2. ASSUME NEW p \in Procs, NEW b \in Blocks, log_write(p, b) PROVE MemTypes'
  <2>1. CASE UNCHANGED <<cache, lh>>
    BY <1>0, <1>2, <2>1 DEF log_write
  <2>2. CASE /\ Len(lh) < LOGBLOCKS
             /\ cache' = [cache EXCEPT ![b] = op[p]]
             /\ lh' = lh \/ lh' = Append(lh, b)
    <3>1. lh' \in Seq(Blocks) /\ Len(lh') <= LOGBLOCKS
      BY <1>0, <2>2
    <3>2. cache' \in [Blocks -> Values]
      BY <1>0, <2>2 DEF ProcTypes
    <3> QED
      BY <1>0, <1>2, <3>1, <3>2 DEF log_write
  <2> QED
    BY <1>0, <1>2, <2>1, <2>2 DEF log_write
<1>3. ASSUME NEW p \in Procs, end_op(p) PROVE MemTypes'
  <2>1. outstanding \in Nat \ {0}
    BY <1>0, <1>3, CallCounted DEF end_op
  <2> QED
    BY <1>0, <1>3, <2>1 DEF end_op, ProcTypes
<1>4. ASSUME NEW p \in Procs, write_log(p) PROVE MemTypes'
  BY <1>0, <1>4 DEF write_log
<1>5. ASSUME NEW p \in Procs, write_head(p) PROVE MemTypes'
  BY <1>0, <1>5 DEF write_head
<1>6. ASSUME InstallOne PROVE MemTypes'
  BY <1>0, <1>6 DEF InstallOne, DiskTypes
<1>7. ASSUME NEW p \in Procs, erase(p) PROVE MemTypes'
  BY <1>0, <1>7 DEF erase
<1>8. ASSUME NEW p \in Procs, finish(p) PROVE MemTypes'
  BY <1>0, <1>8 DEF finish
<1>9. ASSUME NEW p \in Procs, sys_sync(p) PROVE MemTypes'
  BY <1>0, <1>9 DEF sys_sync
<1>10. ASSUME NEW p \in Procs, SyncWoken(p) PROVE MemTypes'
  BY <1>0, <1>10 DEF SyncWoken
<1>11. ASSUME read_head PROVE MemTypes'
  BY <1>0, <1>11 DEF read_head, DiskTypes
<1>12. ASSUME RecoverErase PROVE MemTypes'
  BY <1>0, <1>12 DEF RecoverErase
<1>13. ASSUME Crash PROVE MemTypes'
  BY <1>0, <1>13 DEF Crash, DiskTypes
<1>14. ASSUME UNCHANGED vars PROVE MemTypes'
  BY <1>0, <1>14 DEF vars
<1> QED
  BY <1>1, <1>2, <1>3, <1>4, <1>5, <1>6, <1>7, <1>8, <1>9, <1>10, <1>11, <1>12,
     <1>13, <1>14
  DEF Next, Step, Recover, install_trans, RecoverInstall

\* The processes keep their type.
LEMMA ProcNext == TypeOK /\ [Next]_vars => ProcTypes'
<1> SUFFICES ASSUME TypeOK, [Next]_vars PROVE ProcTypes'
  OBVIOUS
<1>0. MemTypes /\ ProcTypes
  BY DEF TypeOK
<1> USE DEF ProcTypes, opVars, syncVars
<1>1. ASSUME NEW p \in Procs, begin_op(p) PROVE ProcTypes'
  BY <1>0, <1>1, ValuesType DEF begin_op, MemTypes
<1>2. ASSUME NEW p \in Procs, NEW b \in Blocks, log_write(p, b) PROVE ProcTypes'
  BY <1>0, <1>2, SMTT(30) DEF log_write
<1>3. ASSUME NEW p \in Procs, end_op(p) PROVE ProcTypes'
  BY <1>0, <1>3 DEF end_op
<1>4. ASSUME NEW p \in Procs, write_log(p) PROVE ProcTypes'
  BY <1>0, <1>4 DEF write_log
<1>5. ASSUME NEW p \in Procs, write_head(p) PROVE ProcTypes'
  BY <1>0, <1>5 DEF write_head
<1>6. ASSUME InstallOne PROVE ProcTypes'
  BY <1>0, <1>6 DEF InstallOne
<1>7. ASSUME NEW p \in Procs, erase(p) PROVE ProcTypes'
  BY <1>0, <1>7 DEF erase
<1>8. ASSUME NEW p \in Procs, finish(p) PROVE ProcTypes'
  BY <1>0, <1>8 DEF finish
<1>9. ASSUME NEW p \in Procs, sys_sync(p) PROVE ProcTypes'
  BY <1>0, <1>9 DEF sys_sync, MemTypes
<1>10. ASSUME NEW p \in Procs, SyncWoken(p) PROVE ProcTypes'
  BY <1>0, <1>10 DEF SyncWoken
<1>11. ASSUME read_head \/ RecoverErase \/ UNCHANGED vars PROVE ProcTypes'
  BY <1>0, <1>11 DEF read_head, RecoverErase, vars
<1>12. ASSUME Crash PROVE ProcTypes'
  BY <1>0, <1>12, ValuesType DEF Crash
<1> QED
  BY <1>1, <1>2, <1>3, <1>4, <1>5, <1>6, <1>7, <1>8, <1>9, <1>10, <1>11, <1>12
  DEF Next, Step, Recover, install_trans, RecoverInstall

\* The flags stay Boolean.
LEMMA FlagNext == TypeOK /\ [Next]_vars => FlagTypes'
<1> SUFFICES ASSUME TypeOK, [Next]_vars PROVE FlagTypes'
  OBVIOUS
<1>0. FlagTypes
  BY DEF TypeOK
<1> USE DEF FlagTypes
<1>1. CASE UNCHANGED <<committing, panicked>>
  BY <1>0, <1>1
<1>2. ASSUME NEW p \in Procs, NEW b \in Blocks, log_write(p, b) PROVE FlagTypes'
  BY <1>0, <1>2 DEF log_write
<1>3. ASSUME NEW p \in Procs, end_op(p) PROVE FlagTypes'
  BY <1>0, <1>3 DEF end_op
<1>4. ASSUME NEW p \in Procs, finish(p) PROVE FlagTypes'
  BY <1>0, <1>4 DEF finish
<1>5. ASSUME Crash PROVE FlagTypes'
  BY <1>5 DEF Crash
<1>6. ASSUME NEW p \in Procs,
             begin_op(p) \/ write_log(p) \/ write_head(p) \/ erase(p)
             \/ sys_sync(p) \/ SyncWoken(p)
      PROVE  UNCHANGED <<committing, panicked>>
  BY <1>6 DEF begin_op, write_log, write_head, erase, sys_sync, SyncWoken
<1>7. ASSUME InstallOne \/ read_head \/ RecoverErase \/ UNCHANGED vars
      PROVE  UNCHANGED <<committing, panicked>>
  BY <1>7 DEF InstallOne, read_head, RecoverErase, vars
<1> QED
  BY <1>1, <1>2, <1>3, <1>4, <1>5, <1>6, <1>7
  DEF Next, Step, Recover, install_trans, RecoverInstall

\* What each step does to the header lists: a block is never logged twice.
LEMMA OnceNext == TypeOK /\ OnceLogged /\ [Next]_vars => OnceLogged'
<1> SUFFICES ASSUME TypeOK, OnceLogged, [Next]_vars PROVE OnceLogged'
  OBVIOUS
<1>0. lh \in Seq(Blocks) /\ hdr \in Seq(Blocks)
  BY DEF TypeOK, DiskTypes, MemTypes
<1> USE DEF OnceLogged
<1>1. CASE UNCHANGED <<lh, hdr>>
  BY <1>1
<1>2. ASSUME NEW p \in Procs, NEW b \in Blocks, log_write(p, b) PROVE OnceLogged'
  <2>1. CASE \/ lh' = lh
             \/ lh' = Append(lh, b) /\ \A i \in DOMAIN lh : lh[i] # b
    <3>1. CASE lh' = lh
      BY <1>2, <3>1 DEF log_write, diskVars
    <3>2. CASE lh' = Append(lh, b) /\ \A i \in DOMAIN lh : lh[i] # b
      <4>1. Len(lh) \in Nat /\ DOMAIN lh = 1..Len(lh) /\ DOMAIN lh' = 1..(Len(lh) + 1)
        BY <1>0, <3>2
      <4>2. \A i \in 1..Len(lh) : lh'[i] = lh[i] /\ lh'[i] # b
        BY <1>0, <3>2
      <4>3. lh'[Len(lh) + 1] = b
        BY <1>0, <3>2
      <4>4. \A i, j \in 1..(Len(lh) + 1) : lh'[i] = lh'[j] => i = j
        <5> SUFFICES ASSUME NEW i \in 1..(Len(lh) + 1), NEW j \in 1..(Len(lh) + 1),
                            lh'[i] = lh'[j]
                     PROVE  i = j
          OBVIOUS
        <5>1. \A k \in 1..(Len(lh) + 1) : k \in 1..Len(lh) \/ k = Len(lh) + 1
          BY <4>1
        <5>2. CASE i \in 1..Len(lh) /\ j \in 1..Len(lh)
          BY <4>1, <4>2, <5>2
        <5> QED
          BY <4>2, <4>3, <5>1, <5>2
      <4> QED
        BY <1>2, <4>1, <4>4 DEF log_write, diskVars
    <3> QED
      BY <2>1, <3>1, <3>2
  <2> QED
    BY <1>2, <2>1 DEF log_write
<1>3. ASSUME NEW p \in Procs, write_head(p) \/ erase(p) PROVE OnceLogged'
  BY <1>3 DEF write_head, erase
<1>4. ASSUME read_head \/ RecoverErase \/ Crash PROVE OnceLogged'
  BY <1>4 DEF read_head, RecoverErase, Crash, diskVars
<1>5. ASSUME NEW p \in Procs,
             begin_op(p) \/ end_op(p) \/ write_log(p) \/ finish(p) \/ sys_sync(p)
             \/ SyncWoken(p)
      PROVE  UNCHANGED <<lh, hdr>>
  BY <1>5 DEF begin_op, end_op, write_log, finish, sys_sync, SyncWoken, diskVars
<1>6. ASSUME InstallOne \/ UNCHANGED vars PROVE UNCHANGED <<lh, hdr>>
  BY <1>6 DEF InstallOne, vars, diskVars
<1> QED
  BY <1>1, <1>2, <1>3, <1>4, <1>5, <1>6
  DEF Next, Step, Recover, install_trans, RecoverInstall

\* Who is in a call and who commits: a step that leaves pc and the counters
\* alone, or that moves p among the places outside calls and commits.
LEMMA ExclusionNext == TypeOK /\ Exclusion /\ [Next]_vars => Exclusion'
<1> SUFFICES ASSUME TypeOK, Exclusion, [Next]_vars PROVE Exclusion'
  OBVIOUS
<1>0. /\ ProcTypes /\ FlagTypes /\ outstanding \in Nat
      /\ IsFiniteSet(Active) /\ Cardinality(Active) \in Nat
  BY ProcsAssumption, FS_Subset, FS_CardinalityType DEF TypeOK, MemTypes, Active
<1>1. CASE UNCHANGED <<pc, outstanding, committing, boot>>
  BY <1>1 DEF Exclusion, Active, InCommit
<1>2. ASSUME NEW p \in Procs, pc[p] \in {"idle", "begin", "sync"}, boot = "up",
             NEW to \in {"idle", "begin", "sync"}, pc' = [pc EXCEPT ![p] = to],
             UNCHANGED <<outstanding, committing, boot>>
      PROVE  Exclusion'
  <2>1. Active' = Active
    BY <1>0, <1>2 DEF Active, ProcTypes
  <2>2. \A q \in Procs : InCommit(q)' <=> InCommit(q)
    BY <1>0, <1>2 DEF InCommit, ProcTypes
  <2> QED
    BY <1>2, <2>1, <2>2 DEF Exclusion
<1>3. ASSUME NEW p \in Procs, begin_op(p), MayBegin PROVE Exclusion'
  <2>1. pc' = [pc EXCEPT ![p] = "op"] /\ outstanding' = outstanding + 1
    BY <1>3 DEF begin_op
  <2>2. Active' = Active \cup {p} /\ p \notin Active
    BY <1>0, <1>3, <2>1 DEF Active, ProcTypes, begin_op
  <2>3. Cardinality(Active') = outstanding'
    BY <1>0, <2>1, <2>2, FS_AddElement DEF Exclusion
  <2>4. \A q \in Procs : ~InCommit(q) /\ ~InCommit(q)'
    BY <1>0, <1>3, <2>1 DEF Exclusion, InCommit, MayBegin, ProcTypes
  <2> QED
    BY <1>3, <2>3, <2>4 DEF Exclusion, begin_op, MayBegin, Runs
<1>4. ASSUME NEW p \in Procs, end_op(p) PROVE Exclusion'
  <2>1. outstanding \in Nat \ {0} /\ p \in Active /\ ~committing /\ boot = "up"
    BY <1>4, CallCounted DEF end_op, Runs
  <2>2. PICK to \in {"idle", "finish", "write_log"} : pc' = [pc EXCEPT ![p] = to]
    BY <1>4 DEF end_op
  <2>3. Active' = Active \ {p}
    BY <1>0, <2>2 DEF Active, ProcTypes
  <2>4. Cardinality(Active') = outstanding'
    BY <1>0, <1>4, <2>1, <2>3, FS_RemoveElement DEF Exclusion, end_op
  <2>5. \A q \in Procs : ~InCommit(q)
    BY <2>1 DEF Exclusion
  <2>6. \A q \in Procs : q # p => ~InCommit(q)'
    BY <1>0, <2>2, <2>5 DEF InCommit, ProcTypes
  <2>7. CASE outstanding = 1
    <3>1. committing' /\ InCommit(p)' /\ boot' = boot
      BY <1>0, <1>4, <2>7 DEF end_op, InCommit, ProcTypes
    <3>2. Active' = {}
      <4>1. outstanding' = 0
        BY <1>4, <2>7 DEF end_op
      <4>2. IsFiniteSet(Active')
        BY <1>0, <2>3, FS_Subset
      <4> QED
        BY <2>4, <4>1, <4>2, FS_EmptySet
    <3> QED
      BY <2>1, <2>4, <2>6, <3>1, <3>2 DEF Exclusion
  <2>8. CASE outstanding # 1
    <3>1. committing' = committing /\ ~InCommit(p)' /\ boot' = boot
      BY <1>0, <1>4, <2>8 DEF end_op, InCommit, ProcTypes
    <3> QED
      BY <2>1, <2>4, <2>6, <3>1 DEF Exclusion
  <2> QED
    BY <2>7, <2>8
<1>5. ASSUME NEW p \in Procs, write_head(p) \/ erase(p) PROVE Exclusion'
  <2>1. /\ InCommit(p) /\ boot = "up" /\ UNCHANGED <<outstanding, committing, boot>>
        /\ \E to \in {"install", "finish"} : pc' = [pc EXCEPT ![p] = to]
    BY <1>5 DEF write_head, erase, Runs, InCommit
  <2>2. Active' = Active /\ \A q \in Procs : InCommit(q)' <=> InCommit(q)
    BY <1>0, <2>1 DEF Active, InCommit, ProcTypes
  <2> QED
    BY <2>1, <2>2 DEF Exclusion
<1>6. ASSUME NEW p \in Procs, finish(p) PROVE Exclusion'
  <2>1. /\ InCommit(p) /\ boot = "up" /\ UNCHANGED <<outstanding, boot>>
        /\ pc' = [pc EXCEPT ![p] = "idle"] /\ ~committing'
    BY <1>6 DEF finish, Runs, InCommit
  <2>2. Active' = Active /\ \A q \in Procs : ~InCommit(q)'
    BY <1>0, <2>1 DEF Active, InCommit, ProcTypes, Exclusion
  <2> QED
    BY <2>1, <2>2 DEF Exclusion
<1>7. ASSUME Crash PROVE Exclusion'
  <2>1. Active' = {} /\ \A q \in Procs : ~InCommit(q)'
    BY <1>7 DEF Crash, Active, InCommit
  <2> QED
    BY <1>7, <2>1, FS_EmptySet DEF Crash, Exclusion
<1>8. ASSUME read_head \/ RecoverErase PROVE Exclusion'
  <2>1. UNCHANGED <<pc, outstanding, committing>> /\ boot # "up"
    BY <1>8 DEF read_head, RecoverErase
  <2> QED
    BY <2>1 DEF Exclusion, Active, InCommit
<1>9. ASSUME NEW p \in Procs, begin_op(p), ~MayBegin PROVE Exclusion'
  BY <1>2, <1>9 DEF begin_op, Runs
<1>10. ASSUME NEW p \in Procs, sys_sync(p) \/ SyncWoken(p) PROVE Exclusion'
  BY <1>1, <1>2, <1>10 DEF sys_sync, SyncWoken, Runs
<1>11. ASSUME NEW p \in Procs,
              (\E b \in Blocks : log_write(p, b)) \/ write_log(p)
       PROVE  UNCHANGED <<pc, outstanding, committing, boot>>
  BY <1>11 DEF log_write, write_log
<1>12. ASSUME InstallOne \/ UNCHANGED vars
       PROVE  UNCHANGED <<pc, outstanding, committing, boot>>
  BY <1>12 DEF InstallOne, vars
<1> QED
  BY <1>1, <1>3, <1>4, <1>5, <1>6, <1>7, <1>8, <1>9, <1>10, <1>11, <1>12
  DEF Next, Step, Recover, install_trans, RecoverInstall

\* What the header entry of a recovered block is: a logged block comes from its
\* only log block, any other from its home block.
LEMMA RecoveredAt ==
  ASSUME OnceLogged, hdr \in Seq(Blocks)
  PROVE  /\ \A i \in DOMAIN hdr : hdr[i] \in Blocks /\ Recovered[hdr[i]] = logdisk[i]
         /\ \A b \in Blocks : (\A i \in DOMAIN hdr : hdr[i] # b) => Recovered[b] = home[b]
<1>1. ASSUME NEW i \in DOMAIN hdr
      PROVE  hdr[i] \in Blocks /\ Recovered[hdr[i]] = logdisk[i]
  <2>1. hdr[i] \in Blocks
    OBVIOUS
  <2> DEFINE j == CHOOSE k \in DOMAIN hdr : hdr[k] = hdr[i]
  <2>2. j \in DOMAIN hdr /\ hdr[j] = hdr[i]
    OBVIOUS
  <2>3. j = i
    BY <2>2 DEF OnceLogged
  <2> QED
    BY <2>1, <2>3 DEF Recovered
<1>2. ASSUME NEW b \in Blocks, \A i \in DOMAIN hdr : hdr[i] # b
      PROVE  Recovered[b] = home[b]
  BY <1>2 DEF Recovered
<1> QED
  BY <1>1, <1>2

\* Every phase of a commit and of a recovery leaves memory, log and home blocks
\* as the next phase needs them.
LEMMA PhasesNext == LogInv /\ [Next]_vars => Phases'
<1> SUFFICES ASSUME LogInv, [Next]_vars PROVE Phases'
  OBVIOUS
<1>0. /\ DiskTypes /\ MemTypes /\ ProcTypes /\ OnceLogged /\ Exclusion /\ Phases
  BY DEF LogInv, TypeOK
<1> USE DEF diskVars
<1>1. ASSUME NEW p \in Procs, begin_op(p) PROVE Phases'
  <2>1. /\ UNCHANGED <<home, logdisk, hdr, cache, lh, tail, boot>> /\ boot = "up"
        /\ pc[p] \in {"idle", "begin"}
        /\ \E to \in {"op", "begin"} : pc' = [pc EXCEPT ![p] = to]
    BY <1>1 DEF begin_op, Runs
  <2> QED
    BY <1>0, <2>1 DEF Phases, ProcTypes
<1>2. ASSUME NEW p \in Procs, NEW b \in Blocks, log_write(p, b) PROVE Phases'
  <2>1. /\ UNCHANGED <<home, logdisk, hdr, tail, boot, pc>> /\ boot = "up" /\ pc[p] = "op"
        /\ \A q \in Procs : pc[q] \notin {"write_log", "install"}
    BY <1>0, <1>2 DEF log_write, Runs, Exclusion, InCommit, Active
  <2>2. CASE UNCHANGED <<cache, lh>>
    BY <1>0, <2>1, <2>2 DEF Phases
  <2>3. CASE /\ cache' = [cache EXCEPT ![b] = op[p]]
             /\ \/ lh' = lh /\ \E i \in DOMAIN lh : lh[i] = b
                \/ lh' = Append(lh, b)
    <3>1. \A c \in Blocks : c # b => cache'[c] = cache[c]
      BY <1>0, <2>3 DEF MemTypes
    <3>2. \E i \in DOMAIN lh' : lh'[i] = b
      BY <1>0, <2>3 DEF MemTypes
    <3>3. \A i \in DOMAIN lh : i \in DOMAIN lh' /\ lh'[i] = lh[i]
      BY <1>0, <2>3 DEF MemTypes
    <3>4. \A c \in Blocks : (\A i \in DOMAIN lh' : lh'[i] # c) => cache'[c] = home'[c]
      BY <1>0, <2>1, <3>1, <3>2, <3>3 DEF Phases
    <3> QED
      BY <1>0, <2>1, <3>4 DEF Phases
  <2> QED
    BY <1>2, <2>2, <2>3 DEF log_write
<1>3. ASSUME NEW p \in Procs, end_op(p) PROVE Phases'
  <2>1. /\ UNCHANGED <<home, logdisk, hdr, cache, lh, boot>> /\ boot = "up" /\ pc[p] = "op"
        /\ \A q \in Procs : pc[q] \notin {"write_log", "install"}
        /\ hdr = <<>>
    BY <1>0, <1>3 DEF end_op, Runs, Exclusion, InCommit, Active, Phases
  <2>2. CASE outstanding = 1
    <3>1. Active' = {}
      BY <1>0, <1>3, <2>2, ExclusionNext DEF LogInv, Exclusion, end_op
    <3> QED
      BY <1>0, <1>3, <2>1, <2>2, <3>1 DEF Phases, end_op, ProcTypes, MemTypes, Active
  <2>3. CASE outstanding # 1
    <3>1. Active' # {}
      <4>1. outstanding \in Nat /\ outstanding' = outstanding - 1
        BY <1>0, <1>3 DEF end_op, MemTypes
      <4>2. Cardinality(Active') = outstanding'
        BY <1>0, ExclusionNext DEF LogInv, Exclusion
      <4> QED
        BY <2>3, <4>1, <4>2, FS_EmptySet
    <3> QED
      BY <1>0, <1>3, <2>1, <2>3, <3>1 DEF Phases, end_op, ProcTypes, Active
  <2> QED
    BY <2>2, <2>3
<1>4. ASSUME NEW p \in Procs, write_log(p) PROVE Phases'
  <2>1. /\ UNCHANGED <<home, hdr, cache, lh, boot, pc>> /\ boot = "up"
        /\ pc[p] = "write_log" /\ tail' = tail + 1 /\ tail < Len(lh)
        /\ tail \in Nat /\ Len(lh) \in Nat
        /\ \A q \in Procs : pc[q] # "install"
    BY <1>0, <1>4 DEF write_log, Runs, Exclusion, InCommit, MemTypes
  <2>2. \A i \in 1..tail' : logdisk'[i] = cache[lh[i]]
    <3>1. \A i \in 1..tail : logdisk'[i] = logdisk[i]
      BY <1>0, <1>4 DEF write_log, DiskTypes, MemTypes
    <3>2. logdisk'[tail + 1] = cache[lh[tail + 1]]
      BY <1>0, <1>4, LogAssumption DEF write_log, DiskTypes, MemTypes
    <3>3. \A i \in 1..tail : logdisk[i] = cache[lh[i]]
      BY <1>0, <2>1 DEF Phases
    <3> QED
      BY <2>1, <3>1, <3>2, <3>3
  <2> QED
    BY <1>0, <2>1, <2>2 DEF Phases
<1>5. ASSUME NEW p \in Procs, write_head(p) PROVE Phases'
  BY <1>0, <1>5 DEF write_head, Runs, Phases, MemTypes, ProcTypes
<1>6. ASSUME InstallOne, NEW p \in Procs, pc[p] = "install", boot = "up" PROVE Phases'
  BY <1>0, <1>6 DEF InstallOne, Phases, MemTypes, DiskTypes
<1>7. ASSUME NEW p \in Procs, erase(p) PROVE Phases'
  <2>1. /\ UNCHANGED <<home, logdisk, cache, boot>> /\ boot = "up" /\ pc[p] = "install"
        /\ lh' = <<>> /\ hdr' = <<>> /\ pc' = [pc EXCEPT ![p] = "finish"]
        /\ tail = Len(lh) /\ DOMAIN lh = 1..tail
    BY <1>0, <1>7 DEF erase, Runs, MemTypes
  <2>2. \A b \in Blocks : cache[b] = home[b]
    BY <1>0, <2>1 DEF Phases
  <2>3. \A q \in Procs : pc'[q] \notin {"write_log", "install"}
    BY <1>0, <2>1 DEF Exclusion, InCommit, ProcTypes
  <2> QED
    BY <2>1, <2>2, <2>3 DEF Phases
<1>8. ASSUME NEW p \in Procs, finish(p) PROVE Phases'
  BY <1>0, <1>8 DEF finish, Runs, Phases, ProcTypes
<1>9. ASSUME NEW p \in Procs, sys_sync(p) \/ SyncWoken(p) PROVE Phases'
  BY <1>0, <1>9 DEF sys_sync, SyncWoken, Runs, Phases, ProcTypes
<1>10. ASSUME read_head PROVE Phases'
  BY <1>0, <1>10 DEF read_head, Phases, Exclusion, DiskTypes
<1>11. ASSUME InstallOne, boot = "install" PROVE Phases'
  <2>1. /\ UNCHANGED <<logdisk, hdr, lh, pc, boot>> /\ tail' = tail + 1
        /\ tail < Len(lh) /\ tail \in Nat /\ Len(lh) \in Nat
        /\ lh[tail + 1] \in Blocks
        /\ home' = [home EXCEPT ![lh[tail + 1]] = logdisk[tail + 1]]
        /\ cache' = [cache EXCEPT ![lh[tail + 1]] = logdisk[tail + 1]]
    BY <1>0, <1>11 DEF InstallOne, MemTypes
  <2>2. cache' = home' /\ lh = hdr
    BY <1>0, <1>11, <2>1 DEF Phases
  <2>3. \A i \in 1..tail' : home'[lh[i]] = logdisk[i]
    <3>1. home'[lh[tail + 1]] = logdisk[tail + 1]
      BY <1>0, <2>1 DEF DiskTypes
    <3>2. ASSUME NEW i \in 1..tail PROVE home'[lh[i]] = logdisk[i]
      <4>1. lh[i] # lh[tail + 1] /\ lh[i] \in Blocks
        BY <1>0, <2>1 DEF OnceLogged, MemTypes
      <4> QED
        BY <1>0, <1>11, <2>1, <4>1 DEF DiskTypes, Phases
    <3> QED
      BY <2>1, <3>1, <3>2
  <2>4. \A q \in Procs : pc'[q] = "idle"
    BY <1>0, <1>11, <2>1 DEF Exclusion
  <2> QED
    <3>1. boot' = "install" /\ cache' = home'
      BY <1>11, <2>1, <2>2
    <3>2. lh' = hdr' /\ tail' <= Len(lh')
      BY <2>1, <2>2
    <3>3. \A i \in 1..tail' : home'[lh'[i]] = logdisk'[i]
      BY <2>1, <2>3
    <3> QED
      BY <2>4, <3>1, <3>2, <3>3 DEF Phases
<1>12. ASSUME RecoverErase PROVE Phases'
  BY <1>0, <1>12 DEF RecoverErase, Phases, Exclusion
<1>13. ASSUME Crash PROVE Phases'
  BY <1>13 DEF Crash, Phases
<1>14. ASSUME UNCHANGED vars PROVE Phases'
  BY <1>0, <1>14 DEF vars, Phases
<1> QED
  BY <1>1, <1>2, <1>3, <1>4, <1>5, <1>6, <1>7, <1>8, <1>9, <1>10, <1>11, <1>12,
     <1>13, <1>14
  DEF Next, Step, Recover, install_trans, RecoverInstall, Runs

\* LogInv is an invariant.
LEMMA LogInvariant == Spec => []LogInv
<1>1. LogInv /\ [Next]_vars => LogInv'
  BY DiskNext, MemNext, ProcNext, FlagNext, OnceNext, ExclusionNext, PhasesNext
  DEF LogInv, TypeOK
<1> QED
  BY InitLogInv, <1>1, PTL DEF Spec

\* The state of the log's disk, memory and processes stays within its types in
\* every behaviour, whatever crashes.
THEOREM LogTypeCorrect == Spec => []TypeOK
<1>1. LogInv => TypeOK
  BY DEF LogInv
<1> QED
  BY LogInvariant, <1>1, PTL

-----------------------------------------------------------------------------
(***************************************************************************)
(* Refinement of the atomic disk.                                          *)
(***************************************************************************)

\* With an empty header a recovery changes nothing.
LEMMA RecoveredClean == ASSUME hdr = <<>>, DiskTypes PROVE Recovered = home
BY DEF Recovered, DiskTypes

\* The first state of the log is a first state of the atomic disk.
LEMMA InitDisk == Init => Disk!Init
<1> SUFFICES ASSUME Init PROVE Disk!Init
  OBVIOUS
<1>1. LogInv
  BY InitLogInv
<1>2. Recovered = home /\ home \in [Blocks -> Values]
  BY <1>1, RecoveredClean DEF Init, LogInv, TypeOK, DiskTypes
<1>3. Active = {}
  BY DEF Init, Active
<1>4. boot # "up"
  BY DEF Init
<1> QED
  BY <1>2, <1>3, <1>4 DEF Disk!Init, View

\* A step that writes no disk block changes nothing of what a recovery brings.
LEMMA RecoveredSame == UNCHANGED diskVars => Recovered' = Recovered
BY DEF diskVars, Recovered

\* A step that keeps pc outside of calls.
LEMMA ActiveSame ==
  ASSUME ProcTypes, NEW p \in Procs, pc[p] # "op", NEW to, to # "op",
         pc' = [pc EXCEPT ![p] = to]
  PROVE  Active' = Active
BY DEF Active, ProcTypes

\* Every step of the log is a step of the atomic disk or leaves it alone.
LEMMA StepDisk == LogInv /\ LogInv' /\ [Next]_vars => [Disk!Next]_(Disk!vars)
<1> SUFFICES ASSUME LogInv, LogInv', [Next]_vars PROVE [Disk!Next]_(Disk!vars)
  OBVIOUS
<1>0. /\ DiskTypes /\ MemTypes /\ ProcTypes /\ OnceLogged /\ Exclusion /\ Phases
      /\ DiskTypes' /\ MemTypes' /\ OnceLogged' /\ Phases'
  BY DEF LogInv, TypeOK
<1> DEFINE Stutter == UNCHANGED <<Recovered, View, Active>>
<1>1. ASSUME Stutter PROVE [Disk!Next]_(Disk!vars)
  BY <1>1 DEF Disk!vars
<1>2. ASSUME NEW p \in Procs, begin_op(p) PROVE [Disk!Next]_(Disk!vars)
  <2>1. Recovered' = Recovered /\ View' = View
    BY <1>2, RecoveredSame DEF begin_op, View
  <2>2. CASE MayBegin
    <3>1. p \notin Active /\ Active' = Active \cup {p}
      BY <1>0, <1>2, <2>2 DEF begin_op, Active, ProcTypes
    <3>2. Disk!Begin(p)
      BY <2>1, <3>1 DEF Disk!Begin
    <3> QED
      BY <3>2 DEF Disk!Next
  <2>3. CASE ~MayBegin
    <3>1. Active' = Active
      BY <1>0, <1>2, <2>3, ActiveSame DEF begin_op
    <3> QED
      BY <1>1, <2>1, <3>1
  <2> QED
    BY <2>2, <2>3
<1>3. ASSUME NEW p \in Procs, NEW b \in Blocks, log_write(p, b)
      PROVE  [Disk!Next]_(Disk!vars)
  <2>1. Recovered' = Recovered /\ Active' = Active /\ p \in Active
    BY <1>3, RecoveredSame DEF log_write, Active
  <2>2. boot = "up" /\ boot' = "up" /\ op[p] \in Values
    BY <1>0, <1>3 DEF log_write, Runs, ProcTypes
  <2>3. CASE cache' = cache
    BY <1>1, <2>1, <2>2, <2>3 DEF View
  <2>4. CASE cache' = [cache EXCEPT ![b] = op[p]]
    <3>1. View' = [View EXCEPT ![b] = op[p]]
      BY <2>2, <2>4 DEF View
    <3>2. Disk!Write(p)
      BY <2>1, <2>2, <3>1 DEF Disk!Write
    <3> QED
      BY <3>2 DEF Disk!Next
  <2> QED
    BY <1>3, <2>3, <2>4 DEF log_write
<1>4. ASSUME NEW p \in Procs, end_op(p) PROVE [Disk!Next]_(Disk!vars)
  <2>1. Recovered' = Recovered /\ View' = View
    BY <1>4, RecoveredSame DEF end_op, View
  <2>2. p \in Active /\ Active' = Active \ {p}
    <3>1. PICK to \in {"idle", "finish", "write_log"} : pc' = [pc EXCEPT ![p] = to]
      BY <1>4 DEF end_op
    <3> QED
      BY <1>0, <1>4, <3>1 DEF end_op, Active, ProcTypes
  <2>3. Disk!End(p)
    BY <2>1, <2>2 DEF Disk!End
  <2> QED
    BY <2>3 DEF Disk!Next
<1>5. ASSUME NEW p \in Procs, write_log(p) PROVE Stutter
  <2>1. hdr = <<>> /\ hdr' = <<>> /\ home' = home /\ boot = "up"
    BY <1>0, <1>5 DEF write_log, Runs, Phases, Exclusion, InCommit
  <2>2. Recovered' = Recovered
    BY <2>1 DEF Recovered
  <2> QED
    BY <1>5, <2>1, <2>2 DEF write_log, View, Active
<1>6. ASSUME NEW p \in Procs, write_head(p) PROVE Disk!Commit
  <2>1. /\ boot = "up" /\ pc[p] = "write_log" /\ hdr' = lh /\ tail = Len(lh)
        /\ UNCHANGED <<home, logdisk, cache, lh, boot>>
        /\ pc' = [pc EXCEPT ![p] = "install"]
    BY <1>6 DEF write_head, Runs
  <2>2. Active = {} /\ Active' = Active
    <3>1. Active = {}
      BY <1>0, <2>1 DEF Exclusion, InCommit
    <3> QED
      BY <1>0, <2>1, <3>1, ActiveSame
  <2>3. View' = View /\ View = cache
    BY <2>1 DEF View
  <2>4. Recovered' = cache
    <3>1. \A i \in DOMAIN lh : lh[i] \in Blocks /\ logdisk[i] = cache[lh[i]]
      BY <1>0, <2>1 DEF Phases, MemTypes
    <3>2. \A b \in Blocks : (\A i \in DOMAIN lh : lh[i] # b) => cache[b] = home[b]
      BY <1>0, <2>1 DEF Phases
    <3>3. \A b \in Blocks : Recovered'[b] = cache[b]
      BY <2>1, <3>1, <3>2 DEF Recovered
    <3>4. DOMAIN Recovered' = Blocks /\ Recovered' = [b \in Blocks |-> Recovered'[b]]
      BY DEF Recovered
    <3> QED
      BY <1>0, <3>3, <3>4 DEF MemTypes
  <2> QED
    BY <2>2, <2>3, <2>4 DEF Disk!Commit
<1>7. ASSUME InstallOne, \/ boot = "install"
                         \/ \E p \in Procs : pc[p] = "install" /\ boot = "up"
      PROVE  Stutter
  <2>1. /\ UNCHANGED <<logdisk, hdr, lh, boot, pc>> /\ hdr = lh
        /\ tail + 1 \in DOMAIN hdr
        /\ home' = [home EXCEPT ![hdr[tail + 1]] = logdisk[tail + 1]]
        /\ cache' = [cache EXCEPT ![hdr[tail + 1]] = logdisk[tail + 1]]
    <3>1. hdr = lh
      BY <1>0, <1>7 DEF Phases
    <3>2. tail + 1 \in DOMAIN lh
      BY <1>0, <1>7 DEF InstallOne, MemTypes
    <3> QED
      BY <1>7, <3>1, <3>2 DEF InstallOne
  <2>2. Recovered' = Recovered
    <3>1. \A b \in Blocks : (\A i \in DOMAIN hdr : hdr[i] # b) => home'[b] = home[b]
      BY <1>0, <2>1 DEF DiskTypes
    <3> QED
      BY <2>1, <3>1 DEF Recovered
  <2>3. boot = "up" => cache' = cache
    BY <1>0, <1>7, <2>1 DEF Phases, MemTypes
  <2> QED
    BY <2>1, <2>2, <2>3 DEF View, Active
<1>8. ASSUME hdr' = <<>>, UNCHANGED <<home, logdisk>>,
             hdr = lh, DOMAIN lh = 1..tail,
             \A i \in 1..tail : home[lh[i]] = logdisk[i]
      PROVE  Recovered' = home /\ Recovered = home
  <2>1. Recovered' = home
    BY <1>0, <1>8 DEF Recovered, DiskTypes
  <2>2. \A b \in Blocks : Recovered[b] = home[b]
    BY <1>0, <1>8, RecoveredAt DEF DiskTypes
  <2>3. Recovered = [b \in Blocks |-> Recovered[b]]
    BY DEF Recovered
  <2> QED
    BY <1>0, <2>1, <2>2, <2>3 DEF DiskTypes
<1>9. ASSUME NEW p \in Procs, erase(p) PROVE Stutter
  <2>1. /\ hdr' = <<>> /\ UNCHANGED <<home, logdisk, cache, boot>> /\ boot = "up"
        /\ pc[p] = "install" /\ hdr = lh /\ DOMAIN lh = 1..tail
        /\ \A i \in 1..tail : home[lh[i]] = logdisk[i]
        /\ pc' = [pc EXCEPT ![p] = "finish"]
    BY <1>0, <1>9 DEF erase, Runs, Phases, MemTypes
  <2>2. Active' = Active
    BY <1>0, <2>1, ActiveSame
  <2> QED
    BY <1>8, <2>1, <2>2 DEF View
<1>10. ASSUME RecoverErase PROVE Stutter
  <2>1. /\ hdr' = <<>> /\ UNCHANGED <<home, logdisk, cache, pc>> /\ boot' = "up"
        /\ hdr = lh /\ DOMAIN lh = 1..tail /\ cache = home /\ boot # "up"
        /\ \A i \in 1..tail : home[lh[i]] = logdisk[i]
    BY <1>0, <1>10 DEF RecoverErase, Phases, MemTypes
  <2> QED
    BY <1>8, <2>1 DEF View, Active
<1>11. ASSUME NEW p \in Procs, finish(p) \/ sys_sync(p) \/ SyncWoken(p) PROVE Stutter
  <2>1. UNCHANGED diskVars /\ UNCHANGED <<cache, boot>>
    BY <1>11 DEF finish, sys_sync, SyncWoken
  <2>2. Active' = Active
    <3>1. CASE pc' = pc
      BY <3>1 DEF Active
    <3>2. CASE \E to \in {"idle", "sync"} : pc[p] # "op" /\ pc' = [pc EXCEPT ![p] = to]
      BY <1>0, <3>2, ActiveSame
    <3> QED
      BY <1>11, <3>1, <3>2 DEF finish, sys_sync, SyncWoken
  <2> QED
    BY <2>1, <2>2, RecoveredSame DEF View
<1>12. ASSUME read_head PROVE Stutter
  BY <1>12, RecoveredSame DEF read_head, View, Active
<1>13. ASSUME Crash PROVE Disk!Crash
  <2>1. Recovered' = Recovered /\ boot' = "read"
    BY <1>13, RecoveredSame DEF Crash
  <2>2. Active' = {}
    BY <1>13 DEF Crash, Active
  <2> QED
    BY <2>1, <2>2 DEF Disk!Crash, View
<1>14. ASSUME UNCHANGED vars PROVE Stutter
  BY <1>14, RecoveredSame DEF vars, View, Active
<1>15. ASSUME NEW p \in Procs, Step(p) PROVE [Disk!Next]_(Disk!vars)
  <2> HIDE DEF Stutter
  <2> QED
    BY <1>1, <1>2, <1>3, <1>4, <1>5, <1>6, <1>7, <1>9, <1>11, <1>15
    DEF Step, install_trans, Runs, Disk!Next
<1>16. ASSUME Recover PROVE Stutter
  BY <1>7, <1>10, <1>12, <1>16 DEF Recover, RecoverInstall
<1> HIDE DEF Stutter
<1> QED
  BY <1>1, <1>13, <1>14, <1>15, <1>16 DEF Next, Disk!Next

\* The log implements the atomic disk for every number of processes, blocks,
\* calls and crashes, crashes during recovery included: what a recovery brings
\* back changes only when the header is written, with no call in progress, and
\* then to everything the finished calls wrote.
THEOREM LogImplementsDisk == Spec => Atomic
<1>1. LogInv /\ LogInv' /\ [Next]_vars => [Disk!Next]_(Disk!vars)
  BY StepDisk
<1>2. Init => Disk!Init
  BY InitDisk
<1> QED
  BY LogInvariant, <1>1, <1>2, PTL DEF Spec, Atomic, Disk!Spec

-----------------------------------------------------------------------------
(***************************************************************************)
(* Sleeping and sys_sync.                                                  *)
(***************************************************************************)

\* Nobody sleeps, waits or is pending at the start.
LEMMA InitSync == Init => SyncInv
BY DEF Init, SyncInv, Waiting, Numbers, Pending, Active

\* Whoever goes to sleep has somebody to wait for, and the one who leaves last
\* wakes everybody.
LEMMA WaitingNext == LogInv /\ LogInv' /\ Waiting /\ [Next]_vars => Waiting'
<1> SUFFICES ASSUME LogInv, LogInv', Waiting, [Next]_vars PROVE Waiting'
  OBVIOUS
<1>0. /\ MemTypes /\ ProcTypes /\ Exclusion /\ Phases /\ MemTypes' /\ Exclusion'
  BY DEF LogInv, TypeOK
<1>1. ASSUME NEW p \in Procs, begin_op(p) PROVE Waiting'
  <2>1. CASE MayBegin
    <3>1. Active' # {} /\ pc' = [pc EXCEPT ![p] = "op"]
          /\ UNCHANGED <<ncommit, target>>
      BY <1>0, <1>1, <2>1 DEF begin_op, Active, ProcTypes, syncVars
    <3> QED
      BY <1>0, <3>1 DEF Waiting, Busy, ProcTypes
  <2>2. CASE ~MayBegin
    <3>1. Busy
      <4> SUFFICES ASSUME ~committing, Active = {} PROVE FALSE
        BY DEF Busy
      <4>1. outstanding = 0
        BY <1>0, FS_EmptySet DEF Exclusion
      <4>2. lh = <<>>
        BY <1>0, <1>1 DEF Phases, Exclusion, InCommit, Active, begin_op, Runs
      <4> QED
        BY <2>2, <4>1, <4>2, LogAssumption DEF MayBegin
    <3>2. Active' = Active /\ committing' = committing
      BY <1>0, <1>1, <2>2, ActiveSame DEF begin_op
    <3> QED
      BY <1>0, <1>1, <2>2, <3>1, <3>2 DEF begin_op, Waiting, Busy, ProcTypes, syncVars
  <2> QED
    BY <2>1, <2>2
<1>2. ASSUME UNCHANGED <<asleep, pc, ncommit, target, committing>> PROVE Waiting'
  BY <1>2 DEF Waiting, Busy, Active
<1>3. ASSUME NEW p \in Procs, end_op(p) PROVE Waiting'
  <2>1. Busy' \/ asleep' = {}
    BY <1>3 DEF end_op, Busy
  <2>2. Busy'
    <3>1. CASE outstanding = 1
      BY <1>3, <3>1 DEF end_op, Busy
    <3>2. CASE outstanding # 1
      <4>1. outstanding' # 0
        BY <1>0, <1>3, <3>2 DEF end_op, MemTypes
      <4> QED
        BY <1>0, <4>1, FS_EmptySet DEF Exclusion, Busy
    <3> QED
      BY <3>1, <3>2
  <2>3. \A q \in Procs : pc'[q] = "sync" => pc[q] = "sync"
    BY <1>0, <1>3 DEF end_op, ProcTypes
  <2> QED
    BY <1>3, <2>2, <2>3 DEF Waiting, end_op, syncVars
<1>4. ASSUME NEW p \in Procs, write_head(p) \/ erase(p) PROVE Waiting'
  <2>1. /\ InCommit(p) /\ UNCHANGED <<asleep, ncommit, target, committing>>
        /\ \E to \in {"install", "finish"} : pc' = [pc EXCEPT ![p] = to]
    BY <1>4 DEF write_head, erase, InCommit, syncVars
  <2>2. committing
    BY <1>0, <2>1 DEF Exclusion
  <2> QED
    BY <1>0, <2>1, <2>2 DEF Waiting, Busy, ProcTypes
<1>5. ASSUME NEW p \in Procs, finish(p) PROVE Waiting'
  BY <1>0, <1>5 DEF finish, Waiting, MemTypes, ProcTypes, syncVars
<1>6. ASSUME NEW p \in Procs, sys_sync(p) PROVE Waiting'
  <2>1. Busy
    <3>1. Active = {} => outstanding = 0
      BY <1>0, FS_EmptySet DEF Exclusion
    <3>2. committing \/ outstanding > 0
      BY <1>6 DEF sys_sync
    <3> QED
      BY <3>1, <3>2 DEF Busy
  <2>2. Active' = Active /\ committing' = committing
    BY <1>0, <1>6, ActiveSame DEF sys_sync
  <2> QED
    BY <1>0, <1>6, <2>1, <2>2 DEF sys_sync, Waiting, Busy, ProcTypes, MemTypes
<1>7. ASSUME NEW p \in Procs, SyncWoken(p) PROVE Waiting'
  <2>1. CASE ncommit < target[p]
    <3>1. Busy /\ Busy' /\ UNCHANGED <<pc, ncommit, target>>
      BY <1>0, <1>7, <2>1 DEF SyncWoken, Waiting, Busy, Active, syncVars
    <3> QED
      BY <3>1 DEF Waiting
  <2>2. CASE ~(ncommit < target[p])
    <3>1. Active' = Active /\ committing' = committing
      BY <1>0, <1>7, <2>2, ActiveSame DEF SyncWoken
    <3> QED
      BY <1>0, <1>7, <2>2, <3>1 DEF SyncWoken, Waiting, Busy, ProcTypes
  <2> QED
    BY <2>1, <2>2
<1>8. ASSUME Crash PROVE Waiting'
  BY <1>8 DEF Crash, Waiting
<1>9. ASSUME NEW p \in Procs, (\E b \in Blocks : log_write(p, b)) \/ write_log(p)
      PROVE  UNCHANGED <<asleep, pc, ncommit, target, committing>>
  BY <1>9 DEF log_write, write_log, syncVars
<1>10. ASSUME InstallOne \/ read_head \/ RecoverErase \/ UNCHANGED vars
       PROVE  UNCHANGED <<asleep, pc, ncommit, target, committing>>
  BY <1>10 DEF InstallOne, read_head, RecoverErase, vars, syncVars
<1> QED
  BY <1>1, <1>2, <1>3, <1>4, <1>5, <1>6, <1>7, <1>8, <1>9, <1>10
  DEF Next, Step, Recover, install_trans, RecoverInstall

\* A new call gets a number that nobody has.
LEMMA NumbersNext == LogInv /\ LogInv' /\ Numbers /\ [Next]_vars => Numbers'
<1> SUFFICES ASSUME LogInv, LogInv', Numbers, [Next]_vars PROVE Numbers'
  OBVIOUS
<1>0. /\ MemTypes /\ ProcTypes /\ Exclusion /\ Values \subseteq Nat
  BY LogAssumption DEF LogInv, TypeOK, Values
<1>1. ASSUME NEW p \in Procs, begin_op(p) PROVE Numbers'
  <2>1. CASE MayBegin
    <3>1. /\ Active' = Active \cup {p} /\ op' = [op EXCEPT ![p] = nops + 1]
          /\ nops' = nops + 1 /\ UNCHANGED <<pending, need>>
          /\ \A q \in Procs : pc'[q] = "sync" => pc[q] = "sync"
      BY <1>0, <1>1, <2>1 DEF begin_op, Active, ProcTypes, syncVars
    <3>2. \A q \in Procs : op[q] \in Nat /\ need[q] \subseteq Nat
      BY <1>0 DEF ProcTypes
    <3>3. nops \in Nat /\ pending \subseteq Nat
      BY <1>0 DEF MemTypes
    <3>4. p \notin Active
      BY <1>1 DEF Active, begin_op
    <3>5. op'[p] = nops + 1 /\ \A q \in Active : op'[q] = op[q]
      BY <1>0, <3>1, <3>4 DEF ProcTypes, Active
    <3>6. Active \subseteq Procs
      BY DEF Active
    <3> QED
      BY <3>1, <3>2, <3>3, <3>4, <3>5, <3>6 DEF Numbers
  <2>2. CASE ~MayBegin
    <3>1. Active' = Active
      BY <1>0, <1>1, <2>2, ActiveSame DEF begin_op
    <3>2. \A q \in Procs : pc'[q] = "sync" => pc[q] = "sync"
      BY <1>0, <1>1, <2>2 DEF begin_op, ProcTypes
    <3> QED
      BY <1>1, <2>2, <3>1, <3>2 DEF begin_op, Numbers, opVars, syncVars
  <2> QED
    BY <2>1, <2>2
<1>2. ASSUME UNCHANGED <<pc, op, nops, pending, need>> PROVE Numbers'
  BY <1>2 DEF Numbers, Active
<1>3. ASSUME NEW p \in Procs, end_op(p) PROVE Numbers'
  <2>1. /\ Active' = Active \ {p} /\ p \in Active /\ UNCHANGED <<op, nops, need>>
        /\ \A q \in Procs : pc'[q] = "sync" => pc[q] = "sync"
    <3>1. PICK to \in {"idle", "finish", "write_log"} : pc' = [pc EXCEPT ![p] = to]
      BY <1>3 DEF end_op
    <3> QED
      BY <1>0, <1>3, <3>1 DEF end_op, Active, ProcTypes, opVars, syncVars
  <2>2. pending' \subseteq pending \cup {op[p]}
    BY <1>3 DEF end_op
  <2> QED
    BY <2>1, <2>2 DEF Numbers
<1>4. ASSUME NEW p \in Procs, write_head(p) \/ erase(p) \/ finish(p) PROVE Numbers'
  <2>1. /\ UNCHANGED <<op, nops, need>> /\ pending' \subseteq pending /\ pc[p] # "op"
        /\ \E to \in {"install", "finish", "idle"} : pc' = [pc EXCEPT ![p] = to]
    BY <1>4 DEF write_head, erase, finish, opVars, syncVars
  <2>2. Active' = Active
    BY <1>0, <2>1, ActiveSame
  <2>3. \A q \in Procs : pc'[q] = "sync" => pc[q] = "sync"
    BY <1>0, <2>1 DEF ProcTypes
  <2> QED
    BY <2>1, <2>2, <2>3 DEF Numbers
<1>5. ASSUME NEW p \in Procs, sys_sync(p) PROVE Numbers'
  <2>1. /\ Active' = Active /\ UNCHANGED <<op, nops, pending>>
    BY <1>0, <1>5, ActiveSame DEF sys_sync, opVars
  <2>2. \A q \in Procs : pc'[q] = "sync" =>
          need'[q] = pending \/ (pc[q] = "sync" /\ need'[q] = need[q])
    BY <1>0, <1>5 DEF sys_sync, ProcTypes
  <2> QED
    BY <2>1, <2>2 DEF Numbers
<1>6. ASSUME NEW p \in Procs, SyncWoken(p), ~(ncommit < target[p]) PROVE Numbers'
  <2>1. /\ Active' = Active /\ UNCHANGED <<op, nops, pending>>
    BY <1>0, <1>6, ActiveSame DEF SyncWoken, opVars
  <2>2. \A q \in Procs : pc'[q] = "sync" => pc[q] = "sync" /\ need'[q] = need[q]
    BY <1>0, <1>6 DEF SyncWoken, ProcTypes
  <2> QED
    BY <2>1, <2>2 DEF Numbers
<1>7. ASSUME NEW p \in Procs, SyncWoken(p), ncommit < target[p]
      PROVE  UNCHANGED <<pc, op, nops, pending, need>>
  BY <1>7 DEF SyncWoken, opVars, syncVars
<1>8. ASSUME Crash PROVE Numbers'
  BY <1>8 DEF Crash, Numbers, Active
<1>9. ASSUME NEW p \in Procs, (\E b \in Blocks : log_write(p, b)) \/ write_log(p)
      PROVE  UNCHANGED <<pc, op, nops, pending, need>>
  BY <1>9 DEF log_write, write_log, opVars, syncVars
<1>10. ASSUME InstallOne \/ read_head \/ RecoverErase \/ UNCHANGED vars
       PROVE  UNCHANGED <<pc, op, nops, pending, need>>
  BY <1>10 DEF InstallOne, read_head, RecoverErase, vars, opVars, syncVars
<1> QED
  BY <1>1, <1>2, <1>3, <1>4, <1>5, <1>6, <1>7, <1>8, <1>9, <1>10
  DEF Next, Step, Recover, install_trans, RecoverInstall

\* A call's writes stay pending until the header is written; a sync that has
\* seen its commit finds none of them pending.
LEMMA PendingNext == LogInv /\ LogInv' /\ SyncInv /\ [Next]_vars => Pending'
<1> SUFFICES ASSUME LogInv, LogInv', SyncInv, [Next]_vars PROVE Pending'
  OBVIOUS
<1>0. /\ MemTypes /\ ProcTypes /\ Exclusion /\ Phases
      /\ Waiting /\ Numbers /\ Pending
  BY DEF LogInv, TypeOK, SyncInv
<1>1. ASSUME NEW p \in Procs, begin_op(p) PROVE Pending'
  <2>1. /\ UNCHANGED <<lh, ncommit, target, need, pending, boot>>
        /\ \E to \in {"op", "begin"} : pc' = [pc EXCEPT ![p] = to]
        /\ wrote' = wrote \/ wrote' = [wrote EXCEPT ![p] = {}]
        /\ pc'[p] = "op" => wrote'[p] = {}
    BY <1>0, <1>1 DEF begin_op, opVars, syncVars, ProcTypes
  <2> QED
    BY <1>0, <2>1 DEF Pending, Active, ProcTypes
<1>2. ASSUME UNCHANGED <<pc, lh, wrote, ncommit, target, need, pending, boot>> PROVE Pending'
  BY <1>0, <1>2 DEF Pending, Active
<1>3. ASSUME NEW p \in Procs, NEW b \in Blocks, log_write(p, b) PROVE Pending'
  <2>1. CASE UNCHANGED <<lh, wrote>>
    BY <1>2, <1>3, <2>1 DEF log_write, syncVars
  <2>2. CASE lh' # <<>>
    BY <1>0, <1>3, <2>2 DEF log_write, Pending, Active, syncVars
  <2>3. \/ UNCHANGED <<lh, wrote>>
        \/ lh' = lh /\ \E i \in DOMAIN lh : lh[i] = b
        \/ lh' = Append(lh, b)
    BY <1>3 DEF log_write
  <2>4. ASSUME lh' = lh, NEW i \in DOMAIN lh PROVE lh' # <<>>
    BY <2>4
  <2>5. ASSUME lh' = Append(lh, b) PROVE lh' # <<>>
    BY <1>0, <2>5 DEF MemTypes
  <2> QED
    BY <2>1, <2>2, <2>3, <2>4, <2>5
<1>4. ASSUME NEW p \in Procs, end_op(p) PROVE Pending'
  <2>1. /\ Active' = Active \ {p} /\ p \in Active
        /\ UNCHANGED <<lh, wrote, ncommit, target, need, boot>> /\ boot = "up"
        /\ \A q \in Procs : pc'[q] = "sync" => pc[q] = "sync"
    <3>1. PICK to \in {"idle", "finish", "write_log"} : pc' = [pc EXCEPT ![p] = to]
      BY <1>4 DEF end_op
    <3> QED
      BY <1>0, <1>4, <3>1 DEF end_op, Runs, Active, ProcTypes, opVars, syncVars
  <2>2. \/ pending' = pending
        \/ pending' = pending \cup {op[p]} /\ lh # <<>>
    BY <1>0, <1>4, <2>1 DEF end_op, Pending
  <2>3. \A q \in Procs : ~InCommit(q)
    BY <1>0, <1>4, CallCounted DEF Exclusion, end_op
  <2>4. ASSUME lh # <<>> PROVE \A q \in Procs : pc'[q] \notin {"install", "finish"}
    BY <1>0, <1>4, <2>3, <2>4 DEF InCommit, ProcTypes, end_op
  <2>5. \A q \in Procs : pc[q] = "sync" => op[p] \notin need[q]
    BY <1>0, <2>1 DEF Numbers
  <2>6. pending' # {} => lh # <<>>
    BY <1>0, <2>2 DEF Pending
  <2>7. \A q \in Procs : pc'[q] = "sync" /\ ncommit' >= target'[q]
                           => need'[q] \cap pending' = {}
    BY <1>0, <2>1, <2>2, <2>5 DEF Pending
  <2>8. \A q \in Active' : wrote'[q] # {} => lh' # <<>>
    BY <1>0, <2>1 DEF Pending
  <2> QED
    BY <2>1, <2>4, <2>6, <2>7, <2>8 DEF Pending
<1>5. ASSUME NEW p \in Procs, write_head(p) PROVE Pending'
  <2>1. Active' = Active /\ Active = {}
    BY <1>0, <1>5, ActiveSame DEF write_head, Exclusion, InCommit
  <2> QED
    BY <1>5, <2>1 DEF write_head, Pending
<1>6. ASSUME NEW p \in Procs, erase(p) \/ finish(p) PROVE Pending'
  <2>1. pending = {} /\ pending' = {}
    BY <1>0, <1>6 DEF erase, finish, Pending
  <2>2. Active' = Active /\ Active = {}
    BY <1>0, <1>6, ActiveSame DEF erase, finish, Exclusion, InCommit
  <2> QED
    BY <2>1, <2>2 DEF Pending
<1>7. ASSUME NEW p \in Procs, sys_sync(p) PROVE Pending'
  <2>1. /\ Active' = Active /\ UNCHANGED <<lh, wrote, ncommit, pending, boot>>
        /\ pc' = [pc EXCEPT ![p] = "sync"]
    BY <1>0, <1>7, ActiveSame DEF sys_sync, opVars
  <2>2. \A q \in Procs : pc'[q] = "sync" /\ ncommit' >= target'[q] =>
          pc[q] = "sync" /\ need'[q] = need[q] /\ target'[q] = target[q]
    BY <1>0, <1>7 DEF sys_sync, ProcTypes, MemTypes
  <2> QED
    BY <1>0, <2>1, <2>2 DEF Pending, ProcTypes
<1>8. ASSUME NEW p \in Procs, SyncWoken(p), ~(ncommit < target[p]) PROVE Pending'
  <2>1. /\ Active' = Active /\ UNCHANGED <<lh, wrote, ncommit, pending, boot>>
        /\ pc' = [pc EXCEPT ![p] = "idle"]
    BY <1>0, <1>8, ActiveSame DEF SyncWoken, opVars
  <2>2. \A q \in Procs : pc'[q] = "sync" =>
          pc[q] = "sync" /\ need'[q] = need[q] /\ target'[q] = target[q]
    BY <1>0, <1>8 DEF SyncWoken, ProcTypes
  <2> QED
    BY <1>0, <2>1, <2>2 DEF Pending, ProcTypes
<1>9. ASSUME NEW p \in Procs, SyncWoken(p), ncommit < target[p] PROVE Pending'
  BY <1>2, <1>9 DEF SyncWoken, opVars, syncVars
<1>10. ASSUME Crash PROVE Pending'
  BY <1>10 DEF Crash, Pending, Active
<1>11. ASSUME NEW p \in Procs, write_log(p) PROVE Pending'
  BY <1>2, <1>11 DEF write_log, opVars, syncVars
<1>12. ASSUME InstallOne \/ UNCHANGED vars PROVE Pending'
  BY <1>2, <1>12 DEF InstallOne, vars, opVars, syncVars
<1>13. ASSUME read_head \/ RecoverErase PROVE Pending'
  <2>1. pending' = {} /\ Active' = {}
    BY <1>0, <1>13 DEF read_head, RecoverErase, Pending, Exclusion, Active
  <2> QED
    BY <2>1 DEF Pending
<1> QED
  BY <1>1, <1>3, <1>4, <1>5, <1>6, <1>7, <1>8, <1>9, <1>10, <1>11, <1>12, <1>13
  DEF Next, Step, Recover, install_trans, RecoverInstall

\* SyncInv holds in every behaviour.
LEMMA SyncInvariant == Spec => [](LogInv /\ SyncInv)
<1>1. LogInv /\ LogInv' /\ SyncInv /\ [Next]_vars => SyncInv'
  BY WaitingNext, NumbersNext, PendingNext DEF SyncInv
<1> QED
  BY LogInvariant, InitSync, <1>1, PTL DEF Spec

\* Nobody is left asleep on the log with nothing in progress that would call
\* wakeup(): begin_op() and sys_sync() never block the system for good.
THEOREM SleeperCorrect == Spec => []SleeperHasWaker
<1>1. LogInv /\ SyncInv => SleeperHasWaker
  BY DEF LogInv, SyncInv, Waiting, Busy, Exclusion, InCommit, Active, SleeperHasWaker
<1> QED
  BY SyncInvariant, <1>1, PTL

\* When sys_sync() returns, every call that had ended before it is durable.
THEOREM SyncCorrect == Spec => []SyncDurable
<1>1. LogInv /\ SyncInv => SyncDurable
  <2> SUFFICES ASSUME LogInv, SyncInv, boot = "up" PROVE SyncDurable
    BY DEF SyncDurable
  <2>1. ASSUME outstanding = 0, ~committing PROVE pending = {}
    <3>1. Active = {} /\ \A p \in Procs : ~InCommit(p)
      <4>1. IsFiniteSet(Active)
        BY ProcsAssumption, FS_Subset DEF Active
      <4> QED
        BY <2>1, <4>1, FS_EmptySet DEF LogInv, Exclusion
    <3>2. lh = <<>>
      BY <3>1 DEF LogInv, Phases, Active, InCommit
    <3> QED
      BY <3>2 DEF SyncInv, Pending
  <2> QED
    BY <2>1 DEF SyncInv, Pending, SyncDurable
<1> QED
  BY SyncInvariant, <1>1, PTL

-----------------------------------------------------------------------------
(* The space begin_op() reserves.                                           *)

\* What a call in progress has written is in the log.
OpsLogged == \A p \in Active : IsFiniteSet(wrote[p]) /\ \A b \in wrote[p] : \E i \in DOMAIN lh : lh[i] = b

SpaceInv == OpsLogged /\ SpaceReserved

LEMMA UnusedFinite == IsFiniteSet(Unused) /\ Cardinality(Unused) \in Nat
<1>1. IsFiniteSet(Active) /\ IsFiniteSet(1..MAXOPBLOCKS)
  BY ProcsAssumption, LogAssumption, FS_Subset, FS_Interval DEF Active
<1>2. IsFiniteSet(Active \X (1..MAXOPBLOCKS)) /\ Unused \in SUBSET (Active \X (1..MAXOPBLOCKS))
  BY <1>1, FS_Product DEF Unused
<1> QED BY <1>2, FS_Subset, FS_CardinalityType

\* A step that adds no block and no claim to one.
LEMMA SpaceKept ==
  ASSUME SpaceReserved, lh \in Seq(Blocks), lh' \in Seq(Blocks), Len(lh') <= Len(lh), Unused' \subseteq Unused
  PROVE  SpaceReserved'
<1>1. PICK U : U = Unused'
  OBVIOUS
<1>2. U \in SUBSET Unused
  BY <1>1
<1>3. IsFiniteSet(U) /\ Cardinality(U) <= Cardinality(Unused) /\ Cardinality(U) \in Nat
  BY <1>2, UnusedFinite, FS_Subset, FS_CardinalityType
<1> QED BY <1>1, <1>3, UnusedFinite, LogAssumption DEF SpaceReserved

LEMMA OpsSame ==
  ASSUME OpsLogged, Active' \subseteq Active, \A p \in Active' : wrote'[p] = wrote[p], lh' = lh
  PROVE  OpsLogged' /\ Unused' \subseteq Unused
  BY DEF OpsLogged, Unused

LEMMA SpaceNext == LogInv /\ LogInv' /\ SpaceInv /\ [Next]_vars => SpaceInv'
<1> SUFFICES ASSUME LogInv, LogInv', SpaceInv, [Next]_vars PROVE SpaceInv'
  OBVIOUS
<1>0. /\ ProcTypes /\ Exclusion /\ lh \in Seq(Blocks) /\ lh' \in Seq(Blocks) /\ Len(lh') <= LOGBLOCKS
      /\ outstanding \in Nat /\ OpsLogged /\ SpaceReserved
  BY DEF LogInv, TypeOK, MemTypes, SpaceInv
<1>1. ASSUME lh' = lh, Active' \subseteq Active, \A p \in Active' : wrote'[p] = wrote[p] PROVE SpaceInv'
  BY <1>0, <1>1, OpsSame, SpaceKept DEF SpaceInv
<1>2. ASSUME UNCHANGED <<lh, pc, wrote>> PROVE SpaceInv'
  BY <1>1, <1>2 DEF Active
<1>3. ASSUME Active' = {} PROVE SpaceInv'
  <2>1. OpsLogged' /\ Unused' = {}
    BY <1>3 DEF OpsLogged, Unused
  <2> QED BY <1>0, <2>1, FS_EmptySet DEF SpaceReserved, SpaceInv
<1>4. ASSUME NEW p \in Procs, begin_op(p) PROVE SpaceInv'
  <2>1. CASE ~MayBegin
    <3>1. UNCHANGED <<lh, wrote>> /\ pc' = [pc EXCEPT ![p] = "begin"] /\ pc[p] # "op"
      BY <1>4, <2>1 DEF begin_op, opVars
    <3>2. Active' = Active
      BY <1>0, <3>1, ActiveSame
    <3> QED BY <1>1, <3>1, <3>2
  <2>2. CASE MayBegin
    <3>1. /\ lh' = lh /\ wrote' = [wrote EXCEPT ![p] = {}] /\ outstanding' = outstanding + 1
          /\ \A q \in Active' : q = p \/ q \in Active
      BY <1>0, <1>4, <2>2 DEF begin_op, Active, ProcTypes
    <3>2. OpsLogged'
      BY <1>0, <3>1, FS_EmptySet DEF OpsLogged, ProcTypes, Active
    <3>3. PICK A : A = Active'
      OBVIOUS
    <3>4. A \in SUBSET Procs /\ Cardinality(A) = outstanding + 1
      BY <3>1, <3>3 DEF LogInv, Exclusion, Active
    <3>5. IsFiniteSet(A) /\ IsFiniteSet(1..MAXOPBLOCKS) /\ Cardinality(1..MAXOPBLOCKS) = MAXOPBLOCKS
      BY <3>4, ProcsAssumption, LogAssumption, FS_Subset, FS_Interval
    <3>6. /\ IsFiniteSet(A \X (1..MAXOPBLOCKS))
          /\ Cardinality(A \X (1..MAXOPBLOCKS)) = (outstanding + 1) * MAXOPBLOCKS
      BY <3>4, <3>5, FS_Product, ZenonT(30)
    <3>7. PICK U : U = Unused'
      OBVIOUS
    <3>8. U \in SUBSET (A \X (1..MAXOPBLOCKS))
      BY <3>3, <3>7 DEF Unused
    <3>9. Cardinality(U) <= (outstanding + 1) * MAXOPBLOCKS /\ Cardinality(U) \in Nat
      BY <3>6, <3>8, FS_Subset, FS_CardinalityType
    <3>10. PICK m \in Int : m = (outstanding + 1) * MAXOPBLOCKS
      BY <1>0, LogAssumption
    <3>11. Len(lh) + m <= LOGBLOCKS /\ Len(lh) \in Nat
      BY <1>0, <2>2, <3>10 DEF MayBegin
    <3>12. Len(lh) + Cardinality(U) <= LOGBLOCKS
      BY <3>9, <3>10, <3>11, LogAssumption
    <3> QED BY <3>1, <3>2, <3>7, <3>12 DEF SpaceReserved, SpaceInv
  <2> QED BY <2>1, <2>2
<1>5. ASSUME NEW p \in Procs, NEW b \in Blocks, log_write(p, b) PROVE SpaceInv'
  <2>0. UNCHANGED pc /\ pc[p] = "op" /\ Active' = Active /\ p \in Active
    BY <1>5 DEF log_write, Active
  <2>1. CASE UNCHANGED <<lh, wrote>>
    BY <1>2, <2>0, <2>1
  <2>2. CASE /\ lh' = (IF \E i \in DOMAIN lh : lh[i] = b THEN lh ELSE Append(lh, b))
             /\ wrote' = [wrote EXCEPT ![p] = @ \cup {b}]
    <3> DEFINE W == wrote[p]
               c == Cardinality(W)
    <3>1. /\ IsFiniteSet(W) /\ c \in Nat /\ IsFiniteSet(W \cup {b})
          /\ Cardinality(W \cup {b}) = IF b \in W THEN c ELSE c + 1
      BY <1>0, <2>0, FS_AddElement, FS_CardinalityType DEF OpsLogged
    <3>2. wrote'[p] = W \cup {b} /\ \A q \in Procs \ {p} : wrote'[q] = wrote[q]
      BY <1>0, <2>2 DEF ProcTypes
    <3>3. Cardinality(W \cup {b}) <= MAXOPBLOCKS
      BY <1>5, <3>1, LogAssumption DEF log_write
    <3>4. OpsLogged'
      <4>1. \A a \in Blocks : (\E i \in DOMAIN lh : lh[i] = a) => \E i \in DOMAIN lh' : lh'[i] = a
        BY <1>0, <2>2
      <4>2. \E i \in DOMAIN lh' : lh'[i] = b
        BY <1>0, <2>2
      <4>3. \A q \in Active : wrote[q] \subseteq Blocks /\ q \in Procs
        BY <1>0 DEF ProcTypes, Active
      <4> QED BY <1>0, <2>0, <3>1, <3>2, <4>1, <4>2, <4>3 DEF OpsLogged
    <3>5. Unused' \subseteq Unused
      <4>1. \A q \in Active \ {p} : wrote'[q] = wrote[q]
        BY <3>2 DEF Active
      <4>2. \A j \in 1..MAXOPBLOCKS : j > Cardinality(wrote'[p]) => j > Cardinality(wrote[p])
        BY <3>1, <3>2, LogAssumption
      <4> QED BY <2>0, <4>1, <4>2 DEF Unused
    <3>6. CASE \E i \in DOMAIN lh : lh[i] = b
      BY <1>0, <2>2, <3>4, <3>5, <3>6, SpaceKept DEF SpaceInv
    <3>7. CASE ~\E i \in DOMAIN lh : lh[i] = b
      <4>1. b \notin W
        BY <1>0, <2>0, <3>7 DEF OpsLogged
      <4>2. lh' = Append(lh, b) /\ Len(lh') = Len(lh) + 1 /\ Len(lh) \in Nat
        BY <1>0, <2>2, <3>7
      <4> DEFINE u == <<p, c + 1>>
      <4>3. u \in Unused /\ u \notin Unused'
        <5>1. c + 1 \in 1..MAXOPBLOCKS /\ c + 1 > c /\ ~(c + 1 > Cardinality(W \cup {b}))
          BY <3>1, <3>3, <4>1, LogAssumption
        <5> HIDE DEF c
        <5>2. u[1] = p /\ u[2] = c + 1
          OBVIOUS
        <5>3. u \in Unused
          BY <2>0, <5>1, <5>2 DEF Unused, c
        <5>4. ~(u[2] > Cardinality(wrote'[u[1]]))
          BY <3>2, <5>1, <5>2
        <5> QED BY <5>3, <5>4 DEF Unused
      <4>4. PICK U : U = Unused'
        OBVIOUS
      <4> HIDE DEF u
      <4>5. U \in SUBSET (Unused \ {u})
        BY <3>5, <4>3, <4>4
      <4>6. IsFiniteSet(Unused \ {u}) /\ Cardinality(Unused \ {u}) = Cardinality(Unused) - 1
        BY <4>3, UnusedFinite, FS_RemoveElement
      <4>7. IsFiniteSet(U) /\ Cardinality(U) <= Cardinality(Unused) - 1 /\ Cardinality(U) \in Nat
        BY <4>5, <4>6, FS_Subset, FS_CardinalityType
      <4>8. Len(lh') + Cardinality(U) <= LOGBLOCKS
        BY <1>0, <4>2, <4>7, UnusedFinite, LogAssumption DEF SpaceReserved
      <4> QED BY <3>4, <4>4, <4>8 DEF SpaceReserved, SpaceInv
    <3> QED BY <3>6, <3>7
  <2> QED BY <1>5, <2>1, <2>2 DEF log_write
<1>6. ASSUME NEW p \in Procs, end_op(p) PROVE SpaceInv'
  <2>1. UNCHANGED <<lh, wrote>> /\ \E to \in {"idle", "finish", "write_log"} : pc' = [pc EXCEPT ![p] = to]
    BY <1>6 DEF end_op, opVars
  <2>2. Active' \subseteq Active
    BY <1>0, <2>1 DEF Active, ProcTypes
  <2> QED BY <1>1, <2>1, <2>2
<1>7. ASSUME NEW p \in Procs, erase(p) PROVE SpaceInv'
  <2>1. Active = {} /\ pc' = [pc EXCEPT ![p] = "finish"] /\ pc[p] # "op"
    BY <1>0, <1>7 DEF erase, Exclusion, InCommit
  <2>2. Active' = {}
    BY <1>0, <2>1, ActiveSame
  <2> QED BY <1>3, <2>2
<1>8. ASSUME NEW p \in Procs, write_head(p) \/ finish(p) \/ sys_sync(p) \/ SyncWoken(p) PROVE SpaceInv'
  <2>1. UNCHANGED <<lh, wrote>>
    BY <1>8 DEF write_head, finish, sys_sync, SyncWoken, opVars
  <2>2. Active' = Active
    BY <1>0, <1>8 DEF Active, ProcTypes, write_head, finish, sys_sync, SyncWoken
  <2> QED BY <1>1, <2>1, <2>2
<1>9. ASSUME NEW p \in Procs, write_log(p) PROVE SpaceInv'
  BY <1>2, <1>9 DEF write_log, opVars
<1>10. ASSUME InstallOne PROVE SpaceInv'
  BY <1>2, <1>10 DEF InstallOne, opVars
<1>11. ASSUME read_head \/ RecoverErase PROVE SpaceInv'
  <2>1. UNCHANGED pc /\ boot # "up"
    BY <1>11 DEF read_head, RecoverErase
  <2>2. Active' = {}
    BY <1>0, <2>1 DEF Exclusion, Active
  <2> QED BY <1>3, <2>2
<1>12. ASSUME Crash PROVE SpaceInv'
  BY <1>3, <1>12 DEF Crash, Active
<1>13. ASSUME UNCHANGED vars PROVE SpaceInv'
  BY <1>2, <1>13 DEF vars, opVars
<1> QED
  BY <1>4, <1>5, <1>6, <1>7, <1>8, <1>9, <1>10, <1>11, <1>12, <1>13
  DEF Next, Step, Recover, install_trans, RecoverInstall

\* begin_op() reserves enough: however the calls interleave, the log has room for every block
\* that the calls in progress may still add to it, so that log_write() of a block that is not
\* logged yet never finds the log full.
THEOREM SpaceCorrect == Spec => []SpaceReserved
<1>1. Init => SpaceInv
  <2> SUFFICES ASSUME Init PROVE SpaceInv
    OBVIOUS
  <2>1. Active = {} /\ lh = <<>>
    BY DEF Init, Active
  <2>2. OpsLogged /\ Unused = {}
    BY <2>1 DEF OpsLogged, Unused
  <2> QED BY <2>1, <2>2, FS_EmptySet, LogAssumption DEF SpaceReserved, SpaceInv
<1>2. SpaceInv => SpaceReserved
  BY DEF SpaceInv
<1> QED
  BY LogInvariant, SpaceNext, <1>1, <1>2, PTL DEF Spec
===============================================================================
