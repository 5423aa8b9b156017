------------------------- MODULE ShadowMasterProofs -------------------------
(***************************************************************************)
(* Proofs about the failover of sge_qmaster, for any number of hosts and   *)
(* shadow daemons, any heartbeat counter and any number of disturbances.   *)
(***************************************************************************)
EXTENDS ShadowMaster, TLAPS

\* The steps of the disturbances, and those that leave the processes alone.
Disturbance(h) == Crash(h) \/ Hang(h) \/ Resume(h) \/ KillMaster(h) \/ StartMaster(h)

\* The counter stays in its range when it is incremented.
LEMMA NextBeatType == TypeOK => NextBeat \in 0..HBMax
BY ShadowAssumption DEF TypeOK, NextBeat

\* The rounds a shadow daemon can go on to from its round r.
LEMMA RoundTypes ==
  ASSUME NEW r \in Rounds
  PROVE  /\ \A p \in {"check", "valid", "latest", "ask"} : [r EXCEPT !.pc = p] \in Rounds
         /\ \A o \in Hosts : [r EXCEPT !.pc = "lock", !.old = o] \in Rounds
         /\ \A n \in 0..HBMax : /\ [r EXCEPT !.pc = "compare", !.latest = n] \in Rounds
                               /\ Idle(n) \in Rounds
         /\ Idle(r.last) \in Rounds
<1>1. r.last \in 0..HBMax /\ First \in Hosts /\ 0 \in 0..HBMax
  BY ShadowAssumption DEF Rounds
<1>2. \A n \in 0..HBMax : Idle(n) \in Rounds
  BY <1>1 DEF Rounds, Idle
<1>3. \A p \in {"check", "valid", "latest", "ask"} : [r EXCEPT !.pc = p] \in Rounds
  BY DEF Rounds
<1>4. \A o \in Hosts : [r EXCEPT !.pc = "lock", !.old = o] \in Rounds
  BY DEF Rounds
<1>5. \A n \in 0..HBMax : [r EXCEPT !.pc = "compare", !.latest = n] \in Rounds
  BY DEF Rounds
<1> QED BY <1>1, <1>2, <1>3, <1>4, <1>5

\* A disturbance is counted and the count stays below its bound.
LEMMA DisturbType ==
  ASSUME TypeOK, NEW what, Disturb(what), env' = env
  PROVE  faults' \in 0..MaxFaults[env']
<1>1. MaxFaults[env] \in Nat
  BY ShadowAssumption DEF TypeOK
<1> QED BY <1>1 DEF Disturb, TypeOK

\* Every step keeps the types.
LEMMA TypeStep == TypeOK /\ [Next]_vars => TypeOK'
<1> SUFFICES ASSUME TypeOK, [Next]_vars PROVE TypeOK'
  OBVIOUS
<1> USE DEF files, world
<1>1. ASSUME NEW h \in Shadows, Shadowd(h) PROVE TypeOK'
  <2> USE DEF TypeOK, Phases
  <2>0. /\ sd[h] \in Rounds /\ Idle(hb) \in Rounds /\ Idle(sd[h].last) \in Rounds
        /\ [sd[h] EXCEPT !.pc = "check"] \in Rounds
        /\ [sd[h] EXCEPT !.pc = "valid"] \in Rounds
        /\ [sd[h] EXCEPT !.pc = "lock", !.old = act] \in Rounds
        /\ [sd[h] EXCEPT !.pc = "latest"] \in Rounds
        /\ [sd[h] EXCEPT !.pc = "compare", !.latest = hb] \in Rounds
        /\ [sd[h] EXCEPT !.pc = "ask"] \in Rounds
    <3>1. PICK r : r = sd[h]
      OBVIOUS
    <3>2. r \in Rounds /\ act \in Hosts /\ hb \in 0..HBMax
      BY <3>1
    <3>3. /\ \A p \in {"check", "valid", "latest", "ask"} : [r EXCEPT !.pc = p] \in Rounds
          /\ \A o \in Hosts : [r EXCEPT !.pc = "lock", !.old = o] \in Rounds
          /\ \A n \in 0..HBMax : /\ [r EXCEPT !.pc = "compare", !.latest = n] \in Rounds
                                /\ Idle(n) \in Rounds
          /\ Idle(r.last) \in Rounds
      BY <3>2, RoundTypes, Zenon
    <3> QED BY <3>1, <3>2, <3>3
  <2>1. CASE ReadHeartbeat(h)
    BY <2>0, <2>1 DEF ReadHeartbeat
  <2>2. CASE CheckIfValidShadow(h)
    BY <2>0, <2>2 DEF CheckIfValidShadow, EndRound
  <2>3. CASE Lock(h)
    <3>1. sd' \in [Shadows -> Rounds]
      BY <2>0, <2>3 DEF Lock, EndRound
    <3>2. lock' \in BOOLEAN
      BY <2>3 DEF Lock
    <3> QED BY <2>3, <3>1, <3>2 DEF Lock
  <2>4. CASE ReadLatest(h)
    BY <2>0, <2>4 DEF ReadLatest
  <2>5. CASE CompareNames(h)
    <3>1. sd' \in [Shadows -> Rounds]
      BY <2>0, <2>5 DEF CompareNames, GiveUp, EndRound
    <3>2. lock' \in BOOLEAN /\ left' \in {"none", "stop", "start"}
      BY <2>5 DEF CompareNames, GiveUp
    <3>3. UNCHANGED <<act, hb, ex, qm, world, spoiled>>
      BY <2>5 DEF CompareNames, GiveUp
    <3> QED BY <3>1, <3>2, <3>3
  <2>6. CASE AskAndStart(h)
    <3>1. sd' \in [Shadows -> Rounds]
      BY <2>0, <2>6 DEF AskAndStart, GiveUp, EndRound
    <3>2. qm' \in [Hosts -> Phases] /\ left' \in {"none", "stop", "start"}
      BY <2>6, ShadowAssumption DEF AskAndStart, GiveUp
    <3>3. lock' \in BOOLEAN
      BY <2>6 DEF AskAndStart, GiveUp
    <3> QED BY <2>6, <3>1, <3>2, <3>3 DEF AskAndStart
  <2>7. CASE IsLocked(h)
    BY <2>0, <2>7 DEF IsLocked, EndRound
  <2> QED BY <1>1, <2>1, <2>2, <2>3, <2>4, <2>5, <2>6, <2>7 DEF Shadowd
<1>2. ASSUME NEW h \in Hosts, Qmaster(h) PROVE TypeOK'
  <2> USE <1>2, NextBeatType DEF TypeOK, Phases, Phase
  <2>1. CASE Bind(h)
    BY <2>1 DEF Bind
  <2>2. CASE PrepareEnroll(h)
    BY <2>2 DEF PrepareEnroll
  <2>3. CASE StartupHeartbeat(h)
    BY <2>3 DEF StartupHeartbeat
  <2>4. CASE Unlock(h)
    BY <2>4 DEF Unlock
  <2>5. CASE WriteQmName(h)
    BY <2>5 DEF WriteQmName
  <2>6. CASE QmasterInit(h)
    BY <2>6 DEF QmasterInit
  <2>7. CASE IncrementHeartbeat(h)
    BY <2>7 DEF IncrementHeartbeat
  <2>8. CASE Exit(h)
    BY <2>8 DEF Exit
  <2> QED BY <2>1, <2>2, <2>3, <2>4, <2>5, <2>6, <2>7, <2>8 DEF Qmaster
<1>3. ASSUME NEW h \in Hosts, Disturbance(h) PROVE TypeOK'
  <2> USE <1>3, DisturbType DEF TypeOK, Phases
  <2>1. CASE Crash(h)
    BY <2>1 DEF Crash
  <2>2. CASE Hang(h)
    BY <2>2 DEF Hang
  <2>3. CASE Resume(h)
    BY <2>3 DEF Resume
  <2>4. CASE KillMaster(h)
    BY <2>4 DEF KillMaster
  <2>5. CASE StartMaster(h)
    BY <2>5 DEF StartMaster
  <2> QED BY <2>1, <2>2, <2>3, <2>4, <2>5 DEF Disturbance
<1>4. CASE UNCHANGED vars
  BY <1>4 DEF vars, TypeOK
<1> QED BY <1>1, <1>2, <1>3, <1>4 DEF Next, Disturbance

-----------------------------------------------------------------------------
(* The lock file.                                                          *)

\* What each step of a shadow daemon does to the owners of the lock file.
LEMMA BidderSteps ==
  ASSUME TypeOK, NEW h \in Shadows
  PROVE  /\ ReadHeartbeat(h) \/ IsLocked(h) \/ CheckIfValidShadow(h) \/ ReadLatest(h) =>
              Bidders' = Bidders /\ Starting' = Starting
         /\ Lock(h) => /\ Starting' = Starting
                       /\ \/ lock /\ lock' = lock /\ Bidders' = Bidders
                          \/ ~lock /\ lock' /\ Bidders' = Bidders \cup {h}
         /\ CompareNames(h) =>
              /\ h \in Bidders /\ Starting' = Starting
              /\ \/ ~lock' /\ left' = "none" /\ Bidders' = Bidders \ {h}
                 \/ lock' = lock /\ left' = left /\ Bidders' = Bidders
         /\ AskAndStart(h) =>
              /\ h \in Bidders /\ Bidders' = Bidders \ {h}
              /\ \/ ~lock' /\ left' = "none" /\ Starting' = Starting
                 \/ lock' = lock /\ left' = left /\ Starting' = Starting \cup {h}
                 \/ lock' = lock /\ left' = "start" /\ Starting' = Starting
<1> USE DEF TypeOK, Rounds, files, Bidders
<1>1. ASSUME ReadHeartbeat(h) PROVE Bidders' = Bidders /\ Starting' = Starting
  BY <1>1 DEF ReadHeartbeat, Idle, Starting
<1>2. ASSUME CheckIfValidShadow(h) PROVE Bidders' = Bidders /\ Starting' = Starting
  <2>1. CASE act = h
    BY <1>2, <2>1 DEF CheckIfValidShadow, EndRound, Idle, Starting
  <2>2. CASE act # h
    <3>1. /\ sd[h].pc = "valid" /\ qm' = qm
          /\ sd' = [sd EXCEPT ![h] = [@ EXCEPT !.pc = "lock", !.old = act]]
      BY <1>2, <2>2 DEF CheckIfValidShadow
    <3> QED BY <3>1 DEF Starting
  <2> QED BY <2>1, <2>2
<1>3. ASSUME ReadLatest(h) PROVE Bidders' = Bidders /\ Starting' = Starting
  BY <1>3 DEF ReadLatest, Starting
<1>4. ASSUME Lock(h)
      PROVE  /\ Starting' = Starting
             /\ \/ lock /\ lock' = lock /\ Bidders' = Bidders
                \/ ~lock /\ lock' /\ Bidders' = Bidders \cup {h}
  <2>1. CASE lock
    BY <1>4, <2>1 DEF Lock, EndRound, Idle, Starting
  <2>2. CASE ~lock
    <3>1. lock' /\ sd' = [sd EXCEPT ![h].pc = "latest"] /\ qm' = qm
      BY <1>4, <2>2 DEF Lock
    <3>2. Bidders' = Bidders \cup {h}
      BY <3>1
    <3> QED BY <2>2, <3>1, <3>2 DEF Starting
  <2> QED BY <2>1, <2>2
<1>5. ASSUME CompareNames(h)
      PROVE  /\ h \in Bidders /\ Starting' = Starting
             /\ \/ ~lock' /\ left' = "none" /\ Bidders' = Bidders \ {h}
                \/ lock' = lock /\ left' = left /\ Bidders' = Bidders
  <2>1. CASE act # sd[h].old
    BY <1>5, <2>1 DEF CompareNames, GiveUp, EndRound, Idle, Starting
  <2>2. CASE act = sd[h].old
    BY <1>5, <2>2 DEF CompareNames, Starting
  <2> QED BY <2>1, <2>2
<1>6. ASSUME AskAndStart(h)
      PROVE  /\ h \in Bidders /\ Bidders' = Bidders \ {h}
             /\ \/ ~lock' /\ left' = "none" /\ Starting' = Starting
                \/ lock' = lock /\ left' = left /\ Starting' = Starting \cup {h}
                \/ lock' = lock /\ left' = "start" /\ Starting' = Starting
  <2>1. sd' = [sd EXCEPT ![h] = Idle(sd[h].last)] /\ sd[h].pc = "ask"
    BY <1>6 DEF AskAndStart, GiveUp, EndRound
  <2>2. h \in Bidders /\ Bidders' = Bidders \ {h}
    BY <2>1 DEF Idle
  <2>3. CASE sd[h].old \in Enrolled \/ sd[h].latest # sd[h].last
    BY <1>6, <2>2, <2>3 DEF AskAndStart, GiveUp, Starting
  <2>4. CASE ~(sd[h].old \in Enrolled \/ sd[h].latest # sd[h].last)
    BY <1>6, <2>2, <2>4, ShadowAssumption DEF AskAndStart, Starting
  <2> QED BY <2>2, <2>3, <2>4
<1>7. ASSUME IsLocked(h) PROVE Bidders' = Bidders /\ Starting' = Starting
  <2>1. CASE lock
    BY <1>7, <2>1 DEF IsLocked, EndRound, Idle, Starting
  <2>2. CASE ~lock
    BY <1>7, <2>2 DEF IsLocked, Starting
  <2> QED BY <2>1, <2>2
<1> QED BY <1>1, <1>2, <1>3, <1>4, <1>5, <1>6, <1>7

\* What each step of a qmaster, and what happens to a host, does to them.
LEMMA StarterSteps ==
  ASSUME TypeOK, NEW h \in Hosts, Qmaster(h) \/ Disturbance(h)
  PROVE  /\ Bidders' = Bidders /\ env' = env
         /\ \/ lock' = lock /\ left' = left /\ Starting' = Starting
            \/ /\ h \in Starting /\ Starting' = Starting \ {h} /\ lock' = lock
               /\ left' = IF lock THEN "start" ELSE left
            \/ h \in Starting /\ Starting' = Starting \ {h} /\ ~lock' /\ left' = "none"
            \/ ~lock /\ lock' /\ left' = "stop" /\ Starting' = Starting
            \/ "admin" \in env /\ Starting' = Starting \cup {h} /\ lock' = lock /\ left' = left
<1> USE DEF TypeOK, Phases, files, world, Phase
<1>1. Bidders' = Bidders /\ env' = env
  BY DEF Qmaster, Disturbance, Bidders, Bind, PrepareEnroll, StartupHeartbeat, Unlock,
         WriteQmName, QmasterInit, IncrementHeartbeat, Exit, Crash, Hang, Resume, KillMaster,
         StartMaster
<1>2. CASE \/ Bind(h) \/ StartupHeartbeat(h) \/ WriteQmName(h) \/ QmasterInit(h)
           \/ IncrementHeartbeat(h)
  BY <1>1, <1>2 DEF Starting, Serving, Bind, StartupHeartbeat, WriteQmName, QmasterInit,
                    IncrementHeartbeat
<1>3. CASE PrepareEnroll(h)
  BY <1>1, <1>3 DEF Starting, PrepareEnroll
<1>4. CASE Unlock(h)
  BY <1>1, <1>4 DEF Starting, Unlock
<1>5. CASE Exit(h)
  <2>1. Starting' = Starting
    BY <1>5 DEF Starting, Exit
  <2>2. CASE ex[h] = 0 /\ ~lock
    BY <1>1, <1>5, <2>1, <2>2 DEF Exit
  <2>3. CASE ~(ex[h] = 0 /\ ~lock)
    BY <1>1, <1>5, <2>1, <2>3 DEF Exit
  <2> QED BY <2>2, <2>3
<1>6. CASE Crash(h) \/ Hang(h) \/ Resume(h) \/ KillMaster(h)
  BY <1>1, <1>6 DEF Starting, Crash, Hang, Resume, KillMaster
<1>7. CASE StartMaster(h)
  BY <1>1, <1>7 DEF Starting, StartMaster, Disturb
<1> QED BY <1>2, <1>3, <1>4, <1>5, <1>6, <1>7 DEF Qmaster, Disturbance

\* Every step keeps the lock file with its one owner, and explained.
LEMMA LockStep ==
  TypeOK /\ LockExplained /\ LockOwned /\ [Next]_vars => LockExplained' /\ LockOwned'
<1> SUFFICES ASSUME TypeOK, LockExplained, LockOwned, [Next]_vars
             PROVE  LockExplained' /\ LockOwned'
  OBVIOUS
<1> USE DEF LockExplained, LockOwned
<1>1. ASSUME NEW h \in Shadows, Shadowd(h) PROVE LockExplained' /\ LockOwned'
  <2>0. env' = env
    BY <1>1 DEF Shadowd, world, ReadHeartbeat, IsLocked, CheckIfValidShadow, Lock,
                ReadLatest, CompareNames, AskAndStart
  <2>1. CASE ReadHeartbeat(h) \/ IsLocked(h) \/ CheckIfValidShadow(h) \/ ReadLatest(h)
    <3>1. lock' = lock /\ left' = left
      BY <2>1 DEF files, ReadHeartbeat, IsLocked, CheckIfValidShadow, ReadLatest
    <3>2. Bidders' = Bidders /\ Starting' = Starting
      BY <2>1, BidderSteps
    <3> QED BY <2>0, <3>1, <3>2
  <2>2. CASE Lock(h)
    <3>1. left' = left
      BY <2>2 DEF Lock
    <3> QED BY <2>0, <2>2, <3>1, BidderSteps
  <2>3. CASE CompareNames(h)
    BY <2>0, <2>3, BidderSteps
  <2>4. CASE AskAndStart(h)
    BY <2>0, <2>4, BidderSteps
  <2> QED BY <1>1, <2>1, <2>2, <2>3, <2>4 DEF Shadowd
<1>2. ASSUME NEW h \in Hosts, Qmaster(h) \/ Disturbance(h)
      PROVE  LockExplained' /\ LockOwned'
  BY <1>2, StarterSteps
<1>3. CASE UNCHANGED vars
  BY <1>3 DEF vars, Bidders, Starting
<1> QED BY <1>1, <1>2, <1>3 DEF Next, Disturbance

-----------------------------------------------------------------------------
(* One master.                                                             *)

\* A step of a shadow daemon other than its last one changes neither a qmaster
\* nor a file but the lock file, and the master stays visible.
LEMMA RoundShows ==
  ASSUME IInv, env \cap {"hang", "admin"} = {}, NEW h \in Shadows, NEW m \in Hosts,
         \/ ReadHeartbeat(h) \/ IsLocked(h) \/ CheckIfValidShadow(h) \/ Lock(h)
         \/ ReadLatest(h) \/ CompareNames(h)
  PROVE  MasterShows(m)' /\ qm' = qm
<1>1. sd \in [Shadows -> Rounds] /\ hung = {} /\ MasterShows(m)
  BY DEF IInv, TypeOK
<1>2. qm' = qm /\ act' = act /\ hb' = hb
  BY DEF ReadHeartbeat, IsLocked, CheckIfValidShadow, Lock, ReadLatest, CompareNames, GiveUp,
         files
<1> USE DEF MasterShows, Rounds
<1>3. CASE ReadHeartbeat(h)
  <2>1. CASE sd[h].last = hb
    <3>1. qm[m] \notin {"beaten", "unlocked"}
      BY <1>1, <1>3, <2>1 DEF ReadHeartbeat, IntervalOver
    <3>2. sd' = [sd EXCEPT ![h] = [@ EXCEPT !.pc = "check"]]
      BY <1>3, <2>1 DEF ReadHeartbeat
    <3> QED BY <1>1, <1>2, <3>1, <3>2
  <2>2. CASE sd[h].last # hb
    <3>1. sd' = [sd EXCEPT ![h] = Idle(hb)]
      BY <1>3, <2>2 DEF ReadHeartbeat
    <3> QED BY <1>1, <1>2, <3>1 DEF Idle
  <2> QED BY <2>1, <2>2
<1>4. CASE sd' = [sd EXCEPT ![h] = Idle(@.last)]
  BY <1>1, <1>2, <1>4 DEF Idle
<1>5. CASE CheckIfValidShadow(h)
  <2>1. CASE act # h
    <3>1. /\ sd[h].pc = "valid"
          /\ sd' = [sd EXCEPT ![h] = [@ EXCEPT !.pc = "lock", !.old = act]]
      BY <1>5, <2>1 DEF CheckIfValidShadow
    <3> QED BY <1>1, <1>2, <3>1
  <2> QED BY <1>4, <1>5, <2>1 DEF CheckIfValidShadow, EndRound
<1>6. CASE Lock(h)
  <2>1. CASE ~lock
    <3>1. sd[h].pc = "lock" /\ sd' = [sd EXCEPT ![h].pc = "latest"]
      BY <1>6, <2>1 DEF Lock
    <3> QED BY <1>1, <1>2, <3>1
  <2> QED BY <1>4, <1>6, <2>1 DEF Lock, EndRound
<1>7. CASE ReadLatest(h)
  <2>1. /\ sd[h].pc = "latest"
        /\ sd' = [sd EXCEPT ![h] = [@ EXCEPT !.pc = "compare", !.latest = hb]]
    BY <1>7 DEF ReadLatest
  <2> QED BY <1>1, <1>2, <2>1
<1>8. CASE CompareNames(h)
  <2>1. CASE act = sd[h].old
    <3>1. sd[h].pc = "compare" /\ sd' = [sd EXCEPT ![h].pc = "ask"]
      BY <1>8, <2>1 DEF CompareNames
    <3> QED BY <1>1, <1>2, <2>1, <3>1
  <2> QED BY <1>4, <1>8, <2>1 DEF CompareNames, GiveUp, EndRound
<1>9. CASE IsLocked(h)
  <2>1. CASE ~lock
    <3>1. sd[h].pc = "check" /\ sd' = [sd EXCEPT ![h].pc = "valid"]
      BY <1>9, <2>1 DEF IsLocked
    <3> QED BY <1>1, <1>2, <3>1
  <2> QED BY <1>4, <1>9, <2>1 DEF IsLocked, EndRound
<1> QED BY <1>2, <1>3, <1>5, <1>6, <1>7, <1>8, <1>9

\* A shadow daemon that does not give up finds every qmaster down.
LEMMA StartsAlone ==
  ASSUME IInv, env \cap {"hang", "admin"} = {}, NEW h \in Shadows, NEW m \in Hosts,
         sd[h].pc = "ask", sd[h].old \notin Enrolled, sd[h].latest = sd[h].last
  PROVE  qm[m] = "down"
<1>1. MasterShows(m) /\ hung = {} /\ qm[m] \in Phases
  BY DEF IInv, TypeOK
<1>2. m \notin Starting
  BY DEF IInv, LockOwned, Bidders
<1>3. qm[m] \notin {"start", "bound", "enrolled", "beaten"}
  BY <1>2 DEF Starting
<1>4. qm[m] # "unlocked"
  BY <1>1 DEF MasterShows
<1>5. qm[m] \notin {"named", "ready", "up", "stopping"}
  <2>1. SUFFICES ASSUME qm[m] \in {"named", "ready", "up", "stopping"} PROVE FALSE
    OBVIOUS
  <2>2. sd[h].old = m
    BY <1>1, <2>1 DEF MasterShows
  <2>3. m \in Enrolled
    BY <1>1, <2>1 DEF Enrolled
  <2> QED BY <2>2, <2>3
<1> QED BY <1>1, <1>3, <1>4, <1>5 DEF Phases

\* The last step of a bid starts a qmaster only where there is none.
LEMMA AskShows ==
  ASSUME IInv, env \cap {"hang", "admin"} = {}, NEW h \in Shadows, AskAndStart(h)
  PROVE  /\ \A g, m \in Hosts : qm'[g] # "down" /\ qm'[m] # "down" => g = m
         /\ \A m \in Hosts : MasterShows(m)'
<1>1. /\ sd \in [Shadows -> Rounds] /\ qm \in [Hosts -> Phases] /\ h \in Hosts
      /\ \A g, m \in Hosts : qm[g] # "down" /\ qm[m] # "down" => g = m
      /\ \A m \in Hosts : MasterShows(m)
  BY ShadowAssumption DEF IInv, TypeOK, OneMaster
<1>2. /\ sd' = [sd EXCEPT ![h] = Idle(sd[h].last)] /\ sd[h].pc = "ask"
      /\ act' = act /\ hb' = hb
  BY DEF AskAndStart, GiveUp, EndRound
<1>3. CASE sd[h].old \in Enrolled \/ sd[h].latest # sd[h].last
  <2>1. qm' = qm
    BY <1>3 DEF AskAndStart, GiveUp
  <2>2. ASSUME NEW m \in Hosts PROVE MasterShows(m)'
    BY <1>1, <1>2, <2>1 DEF MasterShows, Idle, Rounds
  <2> QED BY <1>1, <2>1, <2>2
<1>4. CASE ~(sd[h].old \in Enrolled \/ sd[h].latest # sd[h].last)
  <2>1. \A m \in Hosts : qm[m] = "down"
    BY <1>2, <1>4, StartsAlone
  <2>2. qm' = [qm EXCEPT ![h] = "start"]
    BY <1>1, <1>4, <2>1 DEF AskAndStart
  <2>3. \A m \in Hosts : qm'[m] = IF m = h THEN "start" ELSE "down"
    BY <1>1, <2>1, <2>2
  <2> QED BY <2>3 DEF MasterShows
<1> QED BY <1>3, <1>4

\* A qmaster shows itself as it starts: in the counter, then in act_qmaster.
LEMMA QmasterShows ==
  ASSUME IInv, env \cap {"hang", "admin"} = {}, NEW h \in Hosts,
         Qmaster(h) \/ Disturbance(h)
  PROVE  /\ \A g, m \in Hosts : qm'[g] # "down" /\ qm'[m] # "down" => g = m
         /\ \A m \in Hosts : MasterShows(m)'
<1>1. /\ sd \in [Shadows -> Rounds] /\ qm \in [Hosts -> Phases] /\ hung = {}
      /\ \A g, m \in Hosts : qm[g] # "down" /\ qm[m] # "down" => g = m
      /\ MasterShows(h)
  BY DEF IInv, TypeOK, OneMaster
<1>2. ~Hang(h) /\ ~Resume(h) /\ ~StartMaster(h)
  BY <1>1 DEF Hang, Resume, StartMaster, Disturb
<1>3. qm[h] # "down" /\ sd' = sd /\ \E p : qm' = [qm EXCEPT ![h] = p]
  BY <1>2 DEF Qmaster, Disturbance, Phase, Bind, PrepareEnroll, StartupHeartbeat, Unlock,
              WriteQmName, QmasterInit, IncrementHeartbeat, Exit, Crash, KillMaster, Serving
<1>4. \A m \in Hosts \ {h} : qm[m] = "down" /\ qm'[m] = "down"
  BY <1>1, <1>3
<1>5. \A m \in Hosts \ {h} : MasterShows(m)'
  BY <1>4 DEF MasterShows
<1>6. MasterShows(h)'
  <2> USE DEF MasterShows, Phase, files
  <2>1. CASE Bind(h)
    BY <1>1, <2>1 DEF Bind
  <2>2. CASE PrepareEnroll(h)
    BY <1>1, <2>2 DEF PrepareEnroll
  <2>3. CASE StartupHeartbeat(h)
    BY <1>1, <2>3 DEF StartupHeartbeat, NotRound
  <2>4. CASE Unlock(h)
    <3>1. h \in Starting
      BY <2>4 DEF Unlock, Starting
    <3>2. Bidders = {}
      BY <3>1 DEF IInv, LockOwned
    <3>3. qm'[h] = "unlocked" /\ hb' = hb /\ qm[h] = "beaten"
      BY <1>1, <2>4 DEF Unlock
    <3> QED BY <1>1, <1>3, <3>2, <3>3 DEF Bidders
  <2>5. CASE WriteQmName(h)
    BY <1>1, <2>5 DEF WriteQmName
  <2>6. CASE QmasterInit(h)
    BY <1>1, <2>6 DEF QmasterInit
  <2>7. CASE IncrementHeartbeat(h)
    BY <1>1, <2>7 DEF IncrementHeartbeat, Serving
  <2>8. CASE Exit(h)
    BY <1>1, <2>8 DEF Exit
  <2>9. CASE Crash(h)
    BY <1>1, <2>9 DEF Crash
  <2>10. CASE KillMaster(h)
    BY <1>1, <2>10 DEF KillMaster
  <2> QED BY <1>2, <2>1, <2>2, <2>3, <2>4, <2>5, <2>6, <2>7, <2>8, <2>9, <2>10
          DEF Qmaster, Disturbance
<1>7. \A g, m \in Hosts : qm'[g] # "down" /\ qm'[m] # "down" => g = m
  BY <1>4
<1> QED BY <1>5, <1>6, <1>7

\* Hosts hang only where that disturbance is there.
LEMMA HungStep == IInv /\ [Next]_vars => env' = env /\ (hung' # {} => "hang" \in env')
BY DEF IInv, Next, vars, world, Shadowd, Qmaster, ReadHeartbeat, IsLocked,
       CheckIfValidShadow, Lock, ReadLatest, CompareNames, AskAndStart, Bind, PrepareEnroll, StartupHeartbeat, Unlock,
       WriteQmName, QmasterInit, IncrementHeartbeat, Exit, Crash, Hang, Resume, KillMaster,
       StartMaster, Disturb

\* Every step of a shadow daemon, a qmaster or a host keeps the invariant.
LEMMA IInvStep == IInv /\ [Next]_vars => IInv'
<1> SUFFICES ASSUME IInv, [Next]_vars PROVE IInv'
  OBVIOUS
<1>1. TypeOK' /\ LockExplained' /\ LockOwned'
  BY TypeStep, LockStep DEF IInv
<1>2. env' = env /\ (hung' # {} => "hang" \in env')
  BY HungStep
<1>3. ASSUME env \cap {"hang", "admin"} = {}
      PROVE  /\ \A g, h \in Hosts : qm'[g] # "down" /\ qm'[h] # "down" => g = h
             /\ \A m \in Hosts : MasterShows(m)'
  <2>1. /\ \A g, h \in Hosts : qm[g] # "down" /\ qm[h] # "down" => g = h
        /\ \A m \in Hosts : MasterShows(m)
    BY <1>3 DEF IInv, OneMaster
  <2>2. ASSUME NEW h \in Shadows, Shadowd(h)
        PROVE  /\ \A g, m \in Hosts : qm'[g] # "down" /\ qm'[m] # "down" => g = m
               /\ \A m \in Hosts : MasterShows(m)'
    <3>1. CASE AskAndStart(h)
      BY <1>3, <3>1, AskShows
    <3>2. CASE \/ ReadHeartbeat(h) \/ IsLocked(h) \/ CheckIfValidShadow(h) \/ Lock(h)
               \/ ReadLatest(h) \/ CompareNames(h)
      <4>1. qm' = qm
        BY <3>2 DEF ReadHeartbeat, IsLocked, CheckIfValidShadow, Lock, ReadLatest, CompareNames,
                    GiveUp
      <4>2. ASSUME NEW m \in Hosts PROVE MasterShows(m)'
        BY <1>3, <3>2, RoundShows
      <4> QED BY <2>1, <4>1, <4>2
    <3> QED BY <2>2, <3>1, <3>2 DEF Shadowd
  <2>3. CASE UNCHANGED vars
    BY <2>1, <2>3 DEF vars, MasterShows
  <2> QED BY <1>3, <2>2, <2>3, QmasterShows DEF Next, Disturbance
<1> QED BY <1>1, <1>2, <1>3 DEF IInv, OneMaster

\* The state after the start of the first qmaster satisfies the invariant.
LEMMA InitIInv == Init => IInv
<1> SUFFICES ASSUME Init PROVE IInv
  OBVIOUS
<1>1. TypeOK
  <2>1. Idle(1) \in Rounds /\ 1 \in 0..HBMax
    BY ShadowAssumption DEF Idle, Rounds
  <2>2. MaxFaults[env] \in Nat
    BY ShadowAssumption DEF Init
  <2>3. sd \in [Shadows -> Rounds] /\ hb \in 0..HBMax /\ faults \in 0..MaxFaults[env]
    BY <2>1, <2>2 DEF Init
  <2>4. qm \in [Hosts -> Phases] /\ ex \in [Hosts -> {0, 100}] /\ act \in Hosts
        /\ beat \in Hosts
    BY ShadowAssumption DEF Init, Phases
  <2> QED BY <2>3, <2>4 DEF Init, TypeOK
<1>2. Bidders = {} /\ Starting = {}
  BY DEF Init, Idle, Bidders, Starting
<1>3. LockExplained /\ LockOwned
  BY <1>2 DEF Init, LockExplained, LockOwned
<1>4. OneMaster /\ \A m \in Hosts : MasterShows(m)
  BY DEF Init, Idle, OneMaster, MasterShows
<1> QED BY <1>1, <1>3, <1>4 DEF Init, IInv

\* The invariant holds in every state of the failover.
THEOREM Invariance == Spec => []IInv
<1>1. Init => IInv
  BY InitIInv
<1>2. IInv /\ [Next]_vars => IInv'
  BY IInvStep
<1> QED BY <1>1, <1>2, PTL DEF Spec

\* The lock file does its work (qmaster_lock, check_if_valid_shadow): at most one
\* shadow daemon takes over at a time; without hanging hosts and manual starts no
\* two qmasters run; a lock file that stays is explained.
THEOREM OnlyOneTakesOver == Spec => []OneTakesOver
<1>1. IInv => OneTakesOver
  BY DEF IInv, OneTakesOver, OneBidder, LockOwned
<1> QED BY <1>1, Invariance, PTL

\* A lock file that an orderly shutdown created (qmaster_lock_and_shutdown found
\* none) stays and no qmaster is started any more, unless one is started by hand:
\* whoever removes the file or gets past it owns it, and that file has no owner.
\* A shutdown that finds the lock file of a bidding daemon creates none; nothing
\* is stated about it.
THEOREM CreatedLockSticks == Spec => StopSticks
<1>1. IInv /\ [Next]_vars => [StopStays]_vars
  <2> SUFFICES ASSUME IInv, Next, left = "stop", "admin" \notin env
               PROVE  /\ lock' /\ left' = "stop"
                      /\ \A g \in Hosts : qm[g] = "down" => qm'[g] = "down"
    BY DEF StopStays
  <2>1. lock /\ Bidders = {} /\ Starting = {} /\ TypeOK
    BY DEF IInv, LockOwned
  <2>2. ASSUME NEW h \in Shadows, Shadowd(h)
        PROVE  lock' /\ left' = "stop" /\ qm' = qm
    <3>1. ~CompareNames(h) /\ ~AskAndStart(h)
      BY <2>1, BidderSteps
    <3>2. CASE ReadHeartbeat(h) \/ IsLocked(h) \/ CheckIfValidShadow(h) \/ ReadLatest(h)
      BY <2>1, <3>2 DEF files, ReadHeartbeat, IsLocked, CheckIfValidShadow, ReadLatest
    <3>3. CASE Lock(h)
      BY <2>1, <3>3 DEF Lock
    <3> QED BY <2>2, <3>1, <3>2, <3>3 DEF Shadowd
  <2>3. ASSUME NEW h \in Hosts, Qmaster(h) \/ Disturbance(h)
        PROVE  /\ lock' /\ left' = "stop"
               /\ \A g \in Hosts : qm[g] = "down" => qm'[g] = "down"
    <3>1. lock' /\ left' = "stop"
      BY <2>1, <2>3, StarterSteps
    <3>2. ~StartMaster(h)
      BY DEF StartMaster, Disturb
    <3>3. CASE Resume(h) \/ Hang(h)
      BY <3>1, <3>3 DEF Resume, Hang
    <3>4. CASE Qmaster(h) \/ Crash(h) \/ KillMaster(h)
      <4>1. qm[h] # "down" /\ \E p : qm' = [qm EXCEPT ![h] = p]
        BY <3>4 DEF Qmaster, Phase, Bind, PrepareEnroll, StartupHeartbeat, Unlock,
                    WriteQmName, QmasterInit, IncrementHeartbeat, Exit, Crash, KillMaster,
                    Serving
      <4> QED BY <2>1, <3>1, <4>1 DEF TypeOK
    <3> QED BY <2>3, <3>2, <3>3, <3>4 DEF Disturbance
  <2> QED BY <2>2, <2>3 DEF Next, Disturbance
<1> QED BY <1>1, Invariance, PTL DEF Spec, StopSticks
=============================================================================
