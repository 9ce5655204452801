---------------------------- MODULE ProcLifeProofs ----------------------------
(***************************************************************************)
(* Safety of fork, exit, wait and kill for any number of process slots.    *)
(***************************************************************************)
EXTENDS ProcLife, FiniteSetTheorems, TLAPS

\* The first of a non-empty set of slots is one of them: the search of allocproc(),
\* kwait() and kkill() for the lowest slot ends at a slot that fits.
LEMMA MinIsMember ==
  ASSUME NEW S \in SUBSET Nat, S # {}
  PROVE  Min(S) \in S /\ \A y \in S : Min(S) <= y
<1> DEFINE Below(x) == {y \in S : y <= x}
           F == {Below(x) : x \in S}
<1>1. \A x \in S : Below(x) \in FiniteSubsetsOf(Nat)
  BY FS_BoundedSetOfNaturals DEF FiniteSubsetsOf
<1>2. F \subseteq FiniteSubsetsOf(Nat) /\ F # {}
  BY <1>1
<1>3. PICK B \in F : \A C \in F : <<C, B>> \notin StrictSubsetOrdering(Nat)
  BY <1>2, FS_StrictSubsetOrderingWellFounded, WFMin, Zenon
<1>4. PICK x \in S : B = Below(x)
  OBVIOUS
<1>5. ASSUME NEW y \in S, y < x PROVE FALSE
  <2>1. Below(y) \in SUBSET Nat /\ Below(x) \in SUBSET Nat /\ Below(y) \in F
    OBVIOUS
  <2>2. \A z \in S : z <= y => z <= x
    BY <1>5
  <2>3. Below(y) \subseteq Below(x)
    BY <2>2
  <2>4. x \in Below(x) /\ x \notin Below(y)
    BY <1>5
  <2> QED BY <1>3, <1>4, <2>1, <2>3, <2>4 DEF StrictSubsetOrdering
<1>6. \A y \in S : x <= y
  BY <1>5
<1> QED BY <1>6 DEF Min

-----------------------------------------------------------------------------
(* The inductive invariant.                                                 *)

PCs == {"user", "fork-parent", "fork-run", "wait", "wait-zz", "pause", "pause-zz"}
ForkPCs == {"fork-parent", "fork-run"}

TypeOK ==
  /\ state \in [Slots -> {"unused", "used", "running", "sleeping", "zombie"}]
  /\ pid \in [Slots -> Nat] /\ parent \in [Slots -> 0..NPROC] /\ killed \in [Slots -> BOOLEAN]
  /\ chan \in [Slots -> {NoChan, Ticks} \union {ProcChan(p) : p \in Slots}]
  /\ call \in [Slots -> [pc : PCs, np : 0..NPROC]]
  /\ nextpid \in Nat /\ doomed \in SUBSET Nat /\ tainted \in SUBSET Slots

\* A slot that is being filled belongs to one fork, by a process that runs; once
\* it has its parent the parent is that process.
ForkOwned ==
  /\ \A p \in Slots : call[p].pc \in ForkPCs =>
       /\ state[p] = "running" /\ call[p].np \in Slots /\ state[call[p].np] = "used"
       /\ call[p].pc = "fork-run" => parent[call[p].np] = p
  /\ \A p, q \in Slots :
       call[p].pc \in ForkPCs /\ call[q].pc \in ForkPCs /\ call[p].np = call[q].np => p = q

\* What a process on its way to sleep, or asleep, waits for.
SleepsOn ==
  \A p \in Slots :
    /\ call[p].pc = "wait-zz" => chan[p] \in {NoChan, ProcChan(p)}
    /\ call[p].pc = "pause-zz" => chan[p] \in {NoChan, Ticks}
    /\ call[p].pc = "wait" /\ state[p] = "sleeping" => chan[p] = ProcChan(p)

\* init lives for ever.
InitLives == state[1] \in Live

\* A free slot has no pid; a mark comes from kill(0), or from the fate of the process there.
MarkedByPid ==
  \A p \in Slots : /\ state[p] = "unused" => pid[p] = 0
                   /\ killed[p] => p \in tainted \/ (state[p] # "unused" /\ pid[p] \in doomed)

LifeInv == TypeOK /\ ForkOwned /\ SleepsOn /\ InitLives /\ MarkedByPid /\ ParentAlive /\ NoZombieOverlooked

-----------------------------------------------------------------------------
(* The invariant holds.                                                     *)

LEMMA LifeInit == Init => LifeInv
<1> SUFFICES ASSUME Init PROVE LifeInv
  OBVIOUS
<1> USE ProcAssumption DEF Slots
<1>1. TypeOK
  BY DEF Init, TypeOK, User, PCs
<1>2. ForkOwned /\ SleepsOn /\ InitLives /\ MarkedByPid
  BY DEF Init, ForkOwned, SleepsOn, InitLives, MarkedByPid, User, ForkPCs, Live
<1>3. ParentAlive
  BY DEF Init, ParentAlive, Live
<1>4. NoZombieOverlooked
  BY DEF Init, NoZombieOverlooked, AsleepInWait, User
<1> QED BY <1>1, <1>2, <1>3, <1>4 DEF LifeInv

LEMMA Channels == \A p, q \in Slots : /\ ProcChan(p) # NoChan /\ ProcChan(p) # Ticks /\ Ticks # NoChan
                                      /\ ProcChan(p) = ProcChan(q) => p = q
  BY DEF ProcChan, NoChan, Ticks

\* Steps that leave the tree of processes alone: processes only fall asleep or wake up.
LEMMA TreeUnchanged ==
  ASSUME LifeInv, TypeOK', UNCHANGED <<pid, parent, killed, doomed, tainted>>,
         \A q \in Slots : state'[q] = state[q] \/ (state[q] \in Live /\ state'[q] \in Live /\ call[q].pc \notin ForkPCs),
         \A q \in Slots : call'[q] = call[q] \/ (call[q].pc \notin ForkPCs /\ call'[q].pc \notin ForkPCs)
  PROVE  ForkOwned' /\ InitLives' /\ MarkedByPid' /\ ParentAlive'
<1> USE DEF LifeInv
<1>1. ASSUME NEW q \in Slots, call'[q].pc \in ForkPCs
      PROVE  call'[q] = call[q] /\ call[q].pc \in ForkPCs /\ state'[q] = state[q]
  BY <1>1
<1>2. ASSUME NEW q \in Slots, state[q] = "used" PROVE state'[q] = "used"
  BY <1>2 DEF Live
<1>3. ForkOwned'
  BY <1>1, <1>2 DEF ForkOwned
<1>4. InitLives'
  BY ProcAssumption DEF InitLives, Slots
<1>5. MarkedByPid'
  BY DEF MarkedByPid, Live
<1>6. ParentAlive'
  BY ProcAssumption DEF ParentAlive, TypeOK, Slots, Live
<1> QED BY <1>3, <1>4, <1>5, <1>6

LEMMA SleepStep == ASSUME LifeInv, NEW p \in Slots, sleep(p) PROVE LifeInv'
<1> USE DEF LifeInv
<1>1. TypeOK'
  <2>1. In("wait") \in [pc : PCs, np : 0..NPROC] /\ In("pause") \in [pc : PCs, np : 0..NPROC]
    BY ProcAssumption DEF In, PCs
  <2>2. \E c \in {In("wait"), In("pause")} : call' = [call EXCEPT ![p] = c]
    BY DEF sleep
  <2> HIDE DEF In
  <2>3. call' \in [Slots -> [pc : PCs, np : 0..NPROC]]
    BY <2>1, <2>2 DEF TypeOK
  <2> QED BY <2>3 DEF TypeOK, sleep
<1>2. ForkOwned' /\ InitLives' /\ MarkedByPid' /\ ParentAlive'
  BY <1>1, TreeUnchanged DEF TypeOK, sleep, In, ForkPCs, At, Live
<1>3. SleepsOn'
  BY Channels DEF TypeOK, sleep, In, SleepsOn, At
<1>4. NoZombieOverlooked'
  BY Channels DEF TypeOK, sleep, In, NoZombieOverlooked, SleepsOn, At, AsleepInWait, Zombies, Kids, Live
<1> QED BY <1>1, <1>2, <1>3, <1>4

LEMMA WaitFailsStep == ASSUME LifeInv, NEW p \in Slots, WaitFails(p) \/ PauseEnds(p) PROVE LifeInv'
<1> USE DEF LifeInv
<1>1. TypeOK'
  <2>1. User \in [pc : PCs, np : 0..NPROC]
    BY ProcAssumption DEF User, PCs
  <2> QED BY <2>1 DEF TypeOK, WaitFails, PauseEnds
<1>2. ForkOwned' /\ InitLives' /\ MarkedByPid' /\ ParentAlive'
  BY <1>1, TreeUnchanged DEF TypeOK, WaitFails, PauseEnds, User, ForkPCs, At
<1>3. SleepsOn'
  BY DEF TypeOK, WaitFails, PauseEnds, User, SleepsOn
<1>4. NoZombieOverlooked'
  BY DEF TypeOK, WaitFails, PauseEnds, User, NoZombieOverlooked, AsleepInWait, Zombies, Kids, Live
<1> QED BY <1>1, <1>2, <1>3, <1>4

LEMMA WaitSleepsStep == ASSUME LifeInv, NEW p \in Slots, WaitSleeps(p) PROVE LifeInv'
<1> USE DEF LifeInv
<1>1. TypeOK'
  BY ProcAssumption DEF TypeOK, WaitSleeps, In, PCs
<1>2. ForkOwned' /\ InitLives' /\ MarkedByPid' /\ ParentAlive'
  BY <1>1, TreeUnchanged DEF TypeOK, WaitSleeps, Waiting, Starts, In, ForkPCs, At
<1>3. SleepsOn'
  BY DEF TypeOK, WaitSleeps, In, SleepsOn
<1>4. NoZombieOverlooked'
  BY DEF TypeOK, WaitSleeps, In, NoZombieOverlooked, AsleepInWait, Zombies, Kids
<1> QED BY <1>1, <1>2, <1>3, <1>4

LEMMA PauseStep == ASSUME LifeInv, NEW p \in Slots, Pause(p) \/ PauseSleeps(p) PROVE LifeInv'
<1> USE DEF LifeInv
<1>1. TypeOK'
  <2>1. In("pause") \in [pc : PCs, np : 0..NPROC] /\ In("pause-zz") \in [pc : PCs, np : 0..NPROC]
    BY ProcAssumption DEF In, PCs
  <2>2. \E c \in {In("pause"), In("pause-zz")} : call' = [call EXCEPT ![p] = c]
    BY DEF Pause, PauseSleeps
  <2>3. call' \in [Slots -> [pc : PCs, np : 0..NPROC]]
    BY <2>1, <2>2 DEF TypeOK
  <2> QED BY <2>3 DEF TypeOK, Pause, PauseSleeps
<1>2. ForkOwned' /\ InitLives' /\ MarkedByPid' /\ ParentAlive'
  BY <1>1, TreeUnchanged DEF TypeOK, Pause, PauseSleeps, Starts, In, ForkPCs, At
<1>3. SleepsOn'
  BY DEF TypeOK, Pause, PauseSleeps, In, SleepsOn
<1>4. NoZombieOverlooked'
  <2>1. \A q \in Slots : AsleepInWait(q)' => AsleepInWait(q)
    BY DEF TypeOK, Pause, PauseSleeps, In, AsleepInWait
  <2>2. \A q \in Slots : Zombies(q)' = Zombies(q) /\ state'[q] = state[q]
    BY DEF Pause, PauseSleeps, Zombies, Kids
  <2> QED BY <2>1, <2>2 DEF NoZombieOverlooked
<1> QED BY <1>1, <1>2, <1>3, <1>4

LEMMA ClockStep == ASSUME LifeInv, clockintr PROVE LifeInv'
<1> USE DEF LifeInv
<1>1. TypeOK'
  BY DEF TypeOK, clockintr, wakeup
<1>2. ForkOwned' /\ InitLives' /\ MarkedByPid' /\ ParentAlive'
  BY <1>1, TreeUnchanged DEF TypeOK, clockintr, wakeup, ForkOwned, Live
<1>3. SleepsOn'
  BY Channels DEF TypeOK, clockintr, wakeup, SleepsOn
<1>4. NoZombieOverlooked'
  BY Channels DEF TypeOK, clockintr, wakeup, NoZombieOverlooked, AsleepInWait, Zombies, Kids, Live, SleepsOn
<1> QED BY <1>1, <1>2, <1>3, <1>4

LEMMA KillStep == ASSUME LifeInv, NEW n \in KillPids, kkill(n) PROVE LifeInv'
<1> USE DEF LifeInv
<1> DEFINE S == {p \in Slots : pid[p] = n}
           v == Min(S)
<1>0. v \in Slots /\ pid[v] = n
  BY MinIsMember DEF kkill, Slots
<1>1. /\ killed' = [killed EXCEPT ![v] = TRUE]
      /\ IF n = 0 THEN tainted' = tainted \union {v} /\ doomed' = doomed
                  ELSE doomed' = doomed \union {n} /\ tainted' = tainted
      /\ state' = [state EXCEPT ![v] = IF @ = "sleeping" THEN "running" ELSE @]
      /\ UNCHANGED <<pid, parent, chan, call, nextpid>>
  BY DEF kkill
<1> HIDE DEF v
<1>2. TypeOK'
  BY <1>0, <1>1, ProcAssumption DEF TypeOK
<1>3. ForkOwned' /\ InitLives' /\ ParentAlive'
  <2>1. \A q \in Slots : state'[q] = state[q] \/ (state[q] \in Live /\ state'[q] \in Live /\ call[q].pc \notin ForkPCs)
    BY <1>0, <1>1 DEF TypeOK, ForkOwned, Live
  <2>2. ForkOwned'
    BY <1>1, <2>1 DEF ForkOwned, Live, TypeOK
  <2>3. InitLives'
    BY <2>1, ProcAssumption DEF InitLives, Slots
  <2>4. ParentAlive'
    BY <1>1, <2>1, ProcAssumption DEF ParentAlive, TypeOK, Slots, Live
  <2> QED BY <2>2, <2>3, <2>4
<1>4. MarkedByPid'
  BY <1>0, <1>1 DEF MarkedByPid, TypeOK
<1>5. SleepsOn'
  BY <1>0, <1>1 DEF TypeOK, SleepsOn
<1>6. NoZombieOverlooked'
  BY <1>0, <1>1 DEF TypeOK, NoZombieOverlooked, AsleepInWait, Zombies, Kids, Live
<1> QED BY <1>2, <1>3, <1>4, <1>5, <1>6

LEMMA FaultStep == ASSUME LifeInv, NEW p \in Slots, Fault(p) PROVE LifeInv'
<1> USE DEF LifeInv
<1>1. /\ killed' = [killed EXCEPT ![p] = TRUE] /\ doomed' = doomed \union {pid[p]}
      /\ UNCHANGED <<state, pid, parent, chan, call, nextpid, tainted>> /\ state[p] = "running"
  BY DEF Fault, At
<1>2. TypeOK'
  BY <1>1 DEF TypeOK
<1>3. MarkedByPid'
  BY <1>1 DEF MarkedByPid, TypeOK
<1>4. ForkOwned' /\ SleepsOn' /\ InitLives' /\ ParentAlive'
  BY <1>1 DEF ForkOwned, SleepsOn, InitLives, ParentAlive
<1>5. NoZombieOverlooked'
  BY <1>1 DEF NoZombieOverlooked, AsleepInWait, Zombies, Kids
<1> QED BY <1>2, <1>3, <1>4, <1>5

LEMMA ForkStep == ASSUME LifeInv, NEW p \in Slots, Fork(p) PROVE LifeInv'
<1> USE DEF LifeInv
<1> DEFINE S == {q \in Slots : state[q] = "unused"}
           np == Min(S)
           c == [pc |-> "fork-parent", np |-> np]
<1>0. np \in Slots /\ state[np] = "unused"
  BY MinIsMember DEF Fork, Slots
<1>1. /\ state' = [state EXCEPT ![np] = "used"] /\ pid' = [pid EXCEPT ![np] = nextpid]
      /\ call' = [call EXCEPT ![p] = c]
      /\ nextpid' = nextpid + 1
      /\ UNCHANGED <<parent, killed, chan, doomed, tainted>>
      /\ state[p] = "running" /\ call[p].pc = "user"
  BY DEF Fork, Starts, At
<1> HIDE DEF np
<1>2. TypeOK'
  <2>1. c \in [pc : PCs, np : 0..NPROC]
    BY <1>0 DEF PCs, Slots
  <2> QED BY <1>0, <1>1, <2>1 DEF TypeOK
<1>3. ForkOwned'
  <2>1. \A q \in Slots : call'[q].pc \in ForkPCs /\ q # p => call'[q] = call[q] /\ call[q].np # np
    BY <1>0, <1>1 DEF ForkOwned, TypeOK
  <2>2. call'[p].np = np /\ call'[p].pc = "fork-parent" /\ state'[np] = "used" /\ p # np
    BY <1>0, <1>1 DEF TypeOK
  <2>3. \A q \in Slots : q # np => state'[q] = state[q]
    BY <1>0, <1>1 DEF TypeOK
  <2> QED BY <1>0, <1>1, <2>1, <2>2, <2>3 DEF ForkOwned, ForkPCs
<1>4. SleepsOn'
  BY <1>0, <1>1 DEF TypeOK, SleepsOn
<1>5. InitLives'
  BY <1>0, <1>1 DEF TypeOK, InitLives, Live
<1>6. MarkedByPid'
  BY <1>0, <1>1 DEF TypeOK, MarkedByPid
<1>7. ParentAlive'
  <2>1. \A q \in Slots : q # np => state'[q] = state[q]
    BY <1>0, <1>1 DEF TypeOK
  <2>2. state'[np] = "used" /\ parent' = parent
    BY <1>0, <1>1 DEF TypeOK
  <2>3. ASSUME NEW r \in Slots \ {1}, state'[r] \in Live \union {"zombie"}
        PROVE  parent'[r] # 0 /\ state'[parent'[r]] \in Live
    <3>1. state'[r] = state[r]
      BY <2>1, <2>2, <2>3 DEF Live
    <3>2. parent[r] # 0 /\ state[parent[r]] \in Live
      BY <2>3, <3>1 DEF ParentAlive
    <3>3. parent[r] \in Slots
      BY <3>2, ProcAssumption DEF TypeOK, Slots
    <3>4. parent[r] # np
      BY <1>0, <3>2 DEF Live
    <3> QED BY <2>1, <2>2, <3>2, <3>3, <3>4
  <2> QED BY <2>3 DEF ParentAlive
<1>8. NoZombieOverlooked'
  <2>1. \A q \in Slots : AsleepInWait(q)' => AsleepInWait(q)
    BY <1>0, <1>1 DEF TypeOK, AsleepInWait
  <2>2. \A q \in Slots : Zombies(q)' = Zombies(q) /\ (state'[q] \in Live <=> state[q] \in Live)
    BY <1>0, <1>1 DEF Zombies, Kids, TypeOK, Live
  <2> QED BY <2>1, <2>2 DEF NoZombieOverlooked
<1> QED BY <1>2, <1>3, <1>4, <1>5, <1>6, <1>7, <1>8

LEMMA ForkParentStep == ASSUME LifeInv, NEW p \in Slots, ForkParent(p) PROVE LifeInv'
<1> USE DEF LifeInv
<1> DEFINE np == call[p].np
<1>0. np \in Slots /\ state[np] = "used"
  BY DEF ForkOwned, ForkParent, At, ForkPCs
<1>1. /\ parent' = [parent EXCEPT ![np] = p] /\ call' = [call EXCEPT ![p].pc = "fork-run"]
      /\ UNCHANGED <<state, pid, killed, chan, nextpid, doomed, tainted>>
      /\ state[p] = "running" /\ call[p].pc = "fork-parent"
  BY DEF ForkParent, At
<1>a. \A q \in Slots : /\ q # p => call'[q] = call[q]
                       /\ call'[q].np = call[q].np /\ (call'[q].pc \in ForkPCs <=> call[q].pc \in ForkPCs)
  BY <1>1 DEF TypeOK, ForkPCs
<1>2. TypeOK'
  <2>1. call' \in [Slots -> [pc : PCs, np : 0..NPROC]]
    BY <1>1 DEF TypeOK, PCs
  <2>2. parent' \in [Slots -> 0..NPROC]
    BY <1>0, <1>1 DEF TypeOK, Slots
  <2> QED BY <1>1, <2>1, <2>2 DEF TypeOK
<1>3. ForkOwned'
  <2>1. \A q \in Slots : call[q].pc \in ForkPCs /\ q # p => call[q].np # np
    BY <1>1 DEF ForkOwned, ForkPCs
  <2>2. \A q \in Slots : q # np => parent'[q] = parent[q]
    BY <1>0, <1>1 DEF TypeOK
  <2>3. parent'[np] = p
    BY <1>0, <1>1 DEF TypeOK
  <2> HIDE DEF np
  <2>4. call[p].np = np
    BY DEF np
  <2> QED BY <1>0, <1>1, <1>a, <2>1, <2>2, <2>3, <2>4 DEF ForkOwned
<1>4. SleepsOn'
  BY <1>1 DEF TypeOK, SleepsOn
<1>5. InitLives' /\ MarkedByPid'
  BY <1>1 DEF InitLives, MarkedByPid
<1>6. ParentAlive'
  BY <1>0, <1>1 DEF TypeOK, ParentAlive, Live
<1>7. NoZombieOverlooked'
  <2>1. \A q \in Slots : AsleepInWait(q)' => AsleepInWait(q)
    BY <1>1 DEF TypeOK, AsleepInWait
  <2>2. \A q \in Slots : Zombies(q)' = Zombies(q)
    BY <1>0, <1>1 DEF Zombies, Kids, TypeOK
  <2> QED BY <1>1, <2>1, <2>2 DEF NoZombieOverlooked
<1> QED BY <1>2, <1>3, <1>4, <1>5, <1>6, <1>7

LEMMA ForkRunStep == ASSUME LifeInv, NEW p \in Slots, ForkRun(p) PROVE LifeInv'
<1> USE DEF LifeInv
<1> DEFINE np == call[p].np
<1>0. np \in Slots /\ state[np] = "used" /\ parent[np] = p
  BY DEF ForkOwned, ForkRun, At, ForkPCs
<1>1. /\ state' = [state EXCEPT ![np] = "running"] /\ call' = [call EXCEPT ![p] = User]
      /\ UNCHANGED <<pid, parent, killed, chan, nextpid, doomed, tainted>>
      /\ state[p] = "running" /\ call[p].pc = "fork-run"
  BY DEF ForkRun, At
<1>2. TypeOK'
  <2>1. User \in [pc : PCs, np : 0..NPROC]
    BY ProcAssumption DEF PCs, User
  <2> QED BY <1>0, <1>1, <2>1 DEF TypeOK
<1>3. ForkOwned'
  <2>1. \A q \in Slots : call'[q].pc \in ForkPCs => q # p /\ call'[q] = call[q] /\ call[q].np # np
    BY <1>0, <1>1 DEF ForkOwned, TypeOK, ForkPCs, User
  <2>2. \A q \in Slots : q # np => state'[q] = state[q]
    BY <1>0, <1>1 DEF TypeOK
  <2>3. \A q \in Slots : call'[q].pc \in ForkPCs => q # np
    BY <1>0, <2>1 DEF ForkOwned
  <2> QED BY <1>0, <1>1, <2>1, <2>2, <2>3 DEF ForkOwned
<1>4. SleepsOn'
  BY <1>0, <1>1 DEF TypeOK, SleepsOn, User
<1>5. InitLives' /\ MarkedByPid'
  BY <1>0, <1>1 DEF InitLives, MarkedByPid, TypeOK, Live
<1>6. ParentAlive'
  BY <1>0, <1>1, ProcAssumption, SMTT(30) DEF TypeOK, ParentAlive, Live, Slots
<1>7. NoZombieOverlooked'
  <2>1. \A q \in Slots : q # np /\ AsleepInWait(q)' => AsleepInWait(q)
    BY <1>0, <1>1 DEF TypeOK, AsleepInWait, User
  <2>2. \A q \in Slots : Zombies(q)' = Zombies(q) /\ (q # np => state'[q] = state[q])
    BY <1>0, <1>1 DEF Zombies, Kids, TypeOK
  <2>3. Zombies(np) = {}
    BY <1>0, ProcAssumption DEF ParentAlive, Zombies, Kids, Live, Slots, InitLives
  <2> QED BY <2>1, <2>2, <2>3 DEF NoZombieOverlooked
<1> QED BY <1>2, <1>3, <1>4, <1>5, <1>6, <1>7

LEMMA ReapStep == ASSUME LifeInv, NEW p \in Slots, Reap(p) PROVE LifeInv'
<1> USE DEF LifeInv
<1> DEFINE c == Min(Zombies(p))
<1>0. c \in Slots /\ state[c] = "zombie" /\ parent[c] = p
  <2>1. Zombies(p) \in SUBSET Nat /\ Zombies(p) # {}
    BY DEF Zombies, Kids, Slots, Reap
  <2>2. c \in Zombies(p)
    BY <2>1, MinIsMember
  <2> QED BY <2>2 DEF Zombies, Kids
<1>1. /\ parent' = [parent EXCEPT ![c] = 0] /\ pid' = [pid EXCEPT ![c] = 0]
      /\ state' = [state EXCEPT ![c] = "unused"] /\ chan' = [chan EXCEPT ![c] = NoChan]
      /\ killed' = [killed EXCEPT ![c] = FALSE]
      /\ call' = [call EXCEPT ![p] = User, ![c] = User]
      /\ tainted' = tainted \ {c} /\ UNCHANGED <<nextpid, doomed>>
      /\ state[p] = "running" /\ call[p].pc \in {"user", "wait"}
  BY DEF Reap, KilledFreed, Waiting, Starts, At
<1> HIDE DEF c
<1>2. TypeOK'
  <2>1. User \in [pc : PCs, np : 0..NPROC]
    BY ProcAssumption DEF PCs, User
  <2> QED BY <1>0, <1>1, <2>1, ProcAssumption DEF TypeOK
<1>a. /\ \A q \in Slots \ {c} : state'[q] = state[q] /\ parent'[q] = parent[q] /\ chan'[q] = chan[q]
      /\ \A q \in Slots \ {p, c} : call'[q] = call[q]
      /\ call'[p] = User /\ call'[c] = User /\ state'[c] = "unused" /\ p # c
  BY <1>0, <1>1 DEF TypeOK
<1>3. ForkOwned'
  <2>1. \A q \in Slots : call'[q].pc \in ForkPCs =>
          q \notin {p, c} /\ call'[q] = call[q] /\ call[q].pc \in ForkPCs
    BY <1>a DEF User, ForkPCs
  <2>2. \A q \in Slots : call[q].pc \in ForkPCs => call[q].np \in Slots \ {c}
    BY <1>0 DEF ForkOwned
  <2> QED BY <1>a, <2>1, <2>2 DEF ForkOwned
<1>4. SleepsOn'
  <2>1. SleepsOn
    OBVIOUS
  <2> QED BY <1>a, <2>1 DEF SleepsOn, User
<1>5. InitLives'
  BY <1>0, <1>a, ProcAssumption DEF InitLives, Live, Slots
<1>6. MarkedByPid'
  BY <1>0, <1>1 DEF MarkedByPid, TypeOK
<1>7. ParentAlive'
  <2> SUFFICES ASSUME NEW r \in Slots \ {1}, state'[r] \in Live \union {"zombie"}
               PROVE  parent'[r] # 0 /\ state'[parent'[r]] \in Live
    BY DEF ParentAlive
  <2>1. state'[r] = state[r] /\ parent'[r] = parent[r]
    BY <1>a DEF Live
  <2>2. parent[r] # 0 /\ state[parent[r]] \in Live
    BY <2>1 DEF ParentAlive
  <2>3. parent[r] \in Slots
    BY <2>2, ProcAssumption DEF TypeOK, Slots
  <2>4. parent[r] # c
    BY <1>0, <2>2 DEF Live
  <2> QED BY <1>a, <2>1, <2>2, <2>3, <2>4
<1>8. NoZombieOverlooked'
  <2>1. \A q \in Slots : AsleepInWait(q)' => q # c /\ AsleepInWait(q)
    BY <1>a DEF AsleepInWait, User
  <2>2. \A q \in Slots : Zombies(q)' \subseteq Zombies(q)
    BY <1>a DEF Zombies, Kids
  <2> QED BY <1>a, <2>1, <2>2 DEF NoZombieOverlooked
<1> QED BY <1>2, <1>3, <1>4, <1>5, <1>6, <1>7, <1>8

\* kexit() wakes whoever may be waiting for one of the zombies it makes or hands on.
LEMMA ExitStep == ASSUME LifeInv, NEW p \in Slots, kexit(p) PROVE LifeInv'
<1> USE DEF LifeInv
<1> DEFINE C == ExitChans(p)
<1>1. /\ parent' = [r \in Slots |-> IF r \in Abandoned(p) THEN 1 ELSE parent[r]]
      /\ chan' = [q \in Slots |-> IF chan[q] \in C THEN NoChan ELSE chan[q]]
      /\ state' = [q \in Slots |-> IF q = p THEN "zombie"
                                   ELSE IF chan[q] \in C /\ state[q] = "sleeping" THEN "running" ELSE state[q]]
      /\ UNCHANGED <<pid, killed, call, nextpid, doomed, tainted>>
      /\ state[p] = "running" /\ call[p].pc = "user" /\ p # 1
  BY DEF kexit, At
<1>2. ProcChan(parent[p]) \in C /\ (Abandoned(p) # {} => ProcChan(1) \in C)
  BY DEF ExitChans
<1>3. C \subseteq {ProcChan(q) : q \in 0..NPROC}
  <2>1. 1 \in 0..NPROC
    BY ProcAssumption
  <2>2. parent[p] \in 0..NPROC
    BY DEF TypeOK
  <2> QED BY <2>1, <2>2 DEF ExitChans
<1> HIDE DEF C
<1>4. TypeOK'
  <2>1. 1 \in 0..NPROC
    BY ProcAssumption
  <2>2. parent' \in [Slots -> 0..NPROC]
    BY <1>1, <2>1 DEF TypeOK
  <2>3. chan' \in [Slots -> {NoChan, Ticks} \union {ProcChan(q) : q \in Slots}]
    BY <1>1 DEF TypeOK
  <2>4. state' \in [Slots -> {"unused", "used", "running", "sleeping", "zombie"}]
    BY <1>1 DEF TypeOK
  <2> QED BY <1>1, <2>2, <2>3, <2>4 DEF TypeOK
<1>a. \A q \in Slots \ {p} : /\ state[q] \in Live => state'[q] \in Live
                             /\ state[q] \notin Live => state'[q] = state[q]
                             /\ state'[q] \notin Live => state'[q] = state[q]
  BY <1>1 DEF TypeOK, Live
<1>5. ForkOwned'
  <2>1. \A q \in Slots : call[q].pc \in ForkPCs =>
          /\ q # p /\ state[q] = "running" /\ state'[q] = "running"
          /\ call[q].np \in Slots /\ call[q].np # p /\ state'[call[q].np] = "used"
    BY <1>1 DEF ForkOwned, ForkPCs
  <2>2. \A q \in Slots : call[q].pc = "fork-run" => parent'[call[q].np] = q
    BY <1>1, <2>1 DEF ForkOwned, ForkPCs, Abandoned, Kids
  <2> QED BY <1>1, <2>1, <2>2 DEF ForkOwned
<1>6. SleepsOn'
  BY <1>1 DEF SleepsOn, TypeOK
<1>7. InitLives'
  <2>1. 1 \in Slots /\ p # 1
    BY <1>1, ProcAssumption DEF Slots
  <2>2. state[1] \in Live
    BY DEF InitLives
  <2>3. state'[1] \in Live
    BY <1>a, <2>1, <2>2
  <2> QED BY <2>3 DEF InitLives
<1>8. MarkedByPid'
  BY <1>1 DEF MarkedByPid, TypeOK
<1>9. ParentAlive'
  <2> SUFFICES ASSUME NEW r \in Slots \ {1}, state'[r] \in Live \union {"zombie"}
               PROVE  parent'[r] # 0 /\ state'[parent'[r]] \in Live
    BY DEF ParentAlive
  <2>1. state[r] \in Live \union {"zombie"}
    BY <1>1, <1>a DEF Live
  <2>2. parent[r] # 0 /\ state[parent[r]] \in Live /\ parent[r] \in Slots
    BY <2>1, ProcAssumption, SMTT(30) DEF ParentAlive, TypeOK, Slots
  <2>3. parent'[r] = IF parent[r] = p THEN 1 ELSE parent[r]
    BY <1>1 DEF Abandoned, Kids
  <2>4. CASE parent[r] = p
    BY <1>7, <2>3, <2>4 DEF InitLives
  <2>5. CASE parent[r] # p
    BY <1>a, <2>2, <2>3, <2>5
  <2> QED BY <2>4, <2>5
<1>10. NoZombieOverlooked'
  <2> SUFFICES ASSUME NEW q \in Slots, state'[q] \in Live, AsleepInWait(q)', NEW z \in Zombies(q)'
               PROVE  FALSE
    BY DEF NoZombieOverlooked
  <2>1. q # p /\ state[q] \in Live
    BY <1>1, <1>a DEF Live
  <2>2. AsleepInWait(q) /\ chan[q] = ProcChan(q) /\ ProcChan(q) \notin C
    BY <1>1, <2>1, Channels DEF AsleepInWait, SleepsOn, TypeOK
  <2>3. z \in Slots /\ parent'[z] = q /\ state'[z] = "zombie"
    BY DEF Zombies, Kids
  <2>4. CASE z = p
    <3>1. CASE p \in Abandoned(p)
      <4>1. q = 1
        BY <1>1, <2>3, <2>4, <3>1
      <4> QED BY <1>2, <2>2, <3>1, <4>1
    <3>2. CASE p \notin Abandoned(p)
      <4>1. parent[p] = q
        BY <1>1, <2>3, <2>4, <3>2
      <4> QED BY <1>2, <2>2, <4>1
    <3> QED BY <3>1, <3>2
  <2>5. CASE z # p /\ parent[z] = p
    <3>1. z \in Abandoned(p) /\ q = 1
      BY <1>1, <2>3, <2>5 DEF Abandoned, Kids
    <3> QED BY <1>2, <2>2, <3>1
  <2>6. CASE z # p /\ parent[z] # p
    <3>1. parent[z] = q /\ state[z] = "zombie"
      BY <1>1, <1>a, <2>3, <2>6 DEF Abandoned, Kids, Live
    <3>2. z \in Zombies(q)
      BY <2>3, <3>1 DEF Zombies, Kids
    <3> QED BY <2>1, <2>2, <3>2 DEF NoZombieOverlooked
  <2> QED BY <2>4, <2>5, <2>6
<1> QED BY <1>4, <1>5, <1>6, <1>7, <1>8, <1>9, <1>10

LEMMA LifeNext == LifeInv /\ [Next]_vars => LifeInv'
<1> SUFFICES ASSUME LifeInv, [Next]_vars PROVE LifeInv'
  OBVIOUS
<1>1. ASSUME NEW p \in Slots, Step(p) \/ Begin(p) PROVE LifeInv'
  BY <1>1, SleepStep, ForkParentStep, ForkRunStep, ReapStep, WaitFailsStep, WaitSleepsStep, PauseStep,
     ForkStep, FaultStep, ExitStep DEF Step, Begin
<1>2. ASSUME UNCHANGED vars PROVE LifeInv'
  BY <1>2 DEF vars, LifeInv, TypeOK, ForkOwned, SleepsOn, InitLives, MarkedByPid, ParentAlive,
     NoZombieOverlooked, AsleepInWait, Zombies, Kids
<1> QED BY <1>1, <1>2, ClockStep, KillStep DEF Next

LEMMA LifeCorrect == Spec => []LifeInv
<1> QED BY LifeInit, LifeNext, PTL DEF Spec

-----------------------------------------------------------------------------
(* Theorems.                                                                *)

\* Every process but init has a parent that lives: reparent() in kexit() leaves no
\* process, running or zombie, without somebody to wait for it.
THEOREM ParentAliveCorrect == Spec => []ParentAlive
  BY LifeCorrect, PTL DEF LifeInv

\* Nobody sleeps in kwait() while one of its children is a zombie, whatever exits or is
\* handed to init between the scan and the sleep.
THEOREM NoZombieOverlookedCorrect == Spec => []NoZombieOverlooked
  BY LifeCorrect, PTL DEF LifeInv

\* A process is marked by a kill() that found its own pid or by its own fault, and the
\* mark does not pass to the next process in the slot; only the mark that kill(0) leaves
\* on a free slot does, and then for one process.
THEOREM KilledByPidCorrect == Spec => []KilledByPid
<1>1. LifeInv => KilledByPid
  BY DEF LifeInv, MarkedByPid, KilledByPid
<1> QED BY <1>1, LifeCorrect, PTL
===============================================================================
