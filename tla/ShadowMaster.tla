---------------------------- MODULE ShadowMaster ----------------------------
(***************************************************************************)
(* Failover of sge_qmaster by the shadow daemons.                          *)
(*                                                                         *)
(* The hosts share three files: act_qmaster (the host of the master), the  *)
(* heartbeat counter the master increments, and a lock file.  A shadow     *)
(* daemon (shadowd.cc) that finds the counter unchanged over an interval   *)
(* bids for the mastership: it looks at the lock and at act_qmaster,       *)
(* creates the lock file exclusively, looks again, asks the old master for *)
(* its status, and starts a qmaster on its own host.  The new qmaster      *)
(* creates its communication handle, asks whether the master named in      *)
(* act_qmaster is alive, increments the counter, removes the lock file and *)
(* writes its own name into act_qmaster.  A master that was displaced      *)
(* finds out when it checks act_qmaster, at every CheckEvery-th heartbeat. *)
(*                                                                         *)
(* One action is one file or network operation, so that every order of the *)
(* operations of several hosts is covered.                                 *)
(***************************************************************************)
EXTENDS Integers, FiniteSets

CONSTANTS
  Hosts,        \* the hosts
  Shadows,      \* those with a shadow daemon (the file shadow_masters)
  First,        \* the host whose qmaster serves at the start
  Envs,         \* the sets of disturbances; a behaviour has one of them
  MaxFaults,    \* bound: how many of them there are, for each set
  HBMax,        \* the counter wraps to 1 after this value (99999)
  CheckEvery    \* act_qmaster is checked at the multiples of this (20)

ASSUME ShadowAssumption ==
  /\ First \in Hosts /\ Shadows \subseteq Hosts
  /\ HBMax \in Nat \ {0} /\ CheckEvery \in Nat \ {0} /\ MaxFaults \in [Envs -> Nat]

VARIABLES
  act,      \* content of the act_qmaster file
  lock,     \* does the lock file exist
  hb,       \* content of the heartbeat file
  qm,       \* phase of the qmaster process of each host
  ex,       \* exit state of each qmaster (Main_Control.exit_state)
  sd,       \* per shadow daemon: where it is, and its local variables
  hung,     \* hosts that do not run at the moment
  beat,     \* the master that incremented the counter last
  env,      \* disturbances of this behaviour
  faults,   \* how many there were
  left,     \* who left a lock file behind: "none", "stop" or "start"
  spoiled   \* a displaced master did the final spooling

vars == <<act, lock, hb, qm, ex, sd, hung, beat, env, faults, left, spoiled>>

files == <<act, lock, hb>>
world == <<env, faults, hung, beat>>

\* Phases of the start-up of a qmaster, in order, and of its end.
Phases == {"down", "start", "bound", "enrolled", "beaten", "unlocked",
           "named", "ready", "up", "stopping"}

Serving == {h \in Hosts : qm[h] \in {"ready", "up"}}

\* The hosts whose qmaster answers a status request: it has a handle.
Enrolled == {h \in Hosts \ hung : qm[h] \notin {"down", "start"}}

\* Mutant: the counter wraps to 0.
WrapToZero == IF hb + 1 > HBMax THEN 0 ELSE hb + 1

\* The counter after the next increment (inc_qmaster_heartbeat).
NextBeat == IF hb + 1 > HBMax THEN 1 ELSE hb + 1

\* A shadow daemon between two rounds; last is the counter it read before.
Idle(last) == [pc |-> "idle", last |-> last, latest |-> 0, old |-> First]

Init ==
  /\ act = First /\ lock = FALSE /\ hb = 1
  /\ qm = [h \in Hosts |-> IF h = First THEN "up" ELSE "down"]
  /\ ex = [h \in Hosts |-> 0]
  /\ sd = [h \in Shadows |-> Idle(hb)]
  /\ hung = {} /\ beat = First /\ env \in Envs /\ faults = 0
  /\ left = "none" /\ spoiled = FALSE

----------------------------------------------------------------------------
(* The shadow daemon of host h: one round of its main loop.                *)

\* Timing: the interval of a shadow daemon (240 s) is longer than the
\* heartbeat interval (30 s) and than the time a starting qmaster needs from
\* its first heartbeat to its name in act_qmaster.  So the counter does not
\* stand still over an interval because of those.
IntervalOver(h) ==
  ~\E m \in Hosts \ hung :
      qm[m] \in {"beaten", "unlocked", "up"} /\ sd[h].last = hb

\* The interval is over: read the counter; bid if it has not changed.
ReadHeartbeat(h) ==
  /\ h \notin hung /\ sd[h].pc = "idle" /\ IntervalOver(h)
  /\ sd' = [sd EXCEPT ![h] =
       IF @.last = hb THEN [@ EXCEPT !.pc = "check"] ELSE Idle(hb)]
  /\ UNCHANGED <<files, qm, ex, world, left, spoiled>>

\* The round ends: the counter read in this round is the next round's last.
EndRound(h) == sd' = [sd EXCEPT ![h] = Idle(@.last)]

\* check_if_valid_shadow: there must be no lock file (isLocked) ...
IsLocked(h) ==
  /\ h \notin hung /\ sd[h].pc = "check"
  /\ IF lock THEN EndRound(h) ELSE sd' = [sd EXCEPT ![h].pc = "valid"]
  /\ UNCHANGED <<files, qm, ex, world, left, spoiled>>

\* ... and then act_qmaster must name another host than this one.
CheckIfValidShadow(h) ==
  /\ h \notin hung /\ sd[h].pc = "valid"
  /\ IF act = h
     THEN EndRound(h)
     ELSE sd' = [sd EXCEPT ![h] = [@ EXCEPT !.pc = "lock", !.old = act]]
  /\ UNCHANGED <<files, qm, ex, world, left, spoiled>>

\* Mutant: the lock file is opened without O_EXCL.
LockShared(h) ==
  /\ h \notin hung /\ sd[h].pc = "lock"
  /\ lock' = TRUE /\ sd' = [sd EXCEPT ![h].pc = "latest"]
  /\ UNCHANGED <<act, hb, qm, ex, world, left, spoiled>>

\* qmaster_lock creates the file exclusively; else somebody was faster.
Lock(h) ==
  /\ h \notin hung /\ sd[h].pc = "lock"
  /\ IF lock
     THEN EndRound(h) /\ UNCHANGED lock
     ELSE lock' = TRUE /\ sd' = [sd EXCEPT ![h].pc = "latest"]
  /\ UNCHANGED <<act, hb, qm, ex, world, left, spoiled>>

\* The counter is read once more with the lock file held.
ReadLatest(h) ==
  /\ h \notin hung /\ sd[h].pc = "latest"
  /\ sd' = [sd EXCEPT ![h] = [@ EXCEPT !.pc = "compare", !.latest = hb]]
  /\ UNCHANGED <<files, qm, ex, world, left, spoiled>>

\* The bid is given up: the shadow daemon removes its lock file.
GiveUp(h) == EndRound(h) /\ lock' = FALSE /\ left' = "none" /\ UNCHANGED qm

\* compare_qmaster_names: does act_qmaster still name the old master.
CompareNames(h) ==
  /\ h \notin hung /\ sd[h].pc = "compare"
  /\ IF act # sd[h].old
     THEN GiveUp(h)
     ELSE sd' = [sd EXCEPT ![h].pc = "ask"] /\ UNCHANGED <<lock, qm, left>>
  /\ UNCHANGED <<act, hb, ex, world, spoiled>>

\* The old master is asked for its status; silence and a counter that has
\* not moved let the shadow daemon start a qmaster.  The lock file stays.
\* A qmaster that still runs on this host holds the port: the new process
\* ends after its enroll attempts, and the lock file stays, too.
AskAndStart(h) ==
  /\ h \notin hung /\ sd[h].pc = "ask"
  /\ IF sd[h].old \in Enrolled \/ sd[h].latest # sd[h].last
     THEN GiveUp(h)
     ELSE /\ EndRound(h)
          /\ qm' = [qm EXCEPT ![h] = IF @ = "down" THEN "start" ELSE @]
          /\ left' = IF qm[h] = "down" THEN left ELSE "start"
          /\ UNCHANGED lock
  /\ UNCHANGED <<act, hb, ex, world, spoiled>>

Shadowd(h) ==
  \/ ReadHeartbeat(h) \/ IsLocked(h) \/ CheckIfValidShadow(h) \/ Lock(h)
  \/ ReadLatest(h) \/ CompareNames(h) \/ AskAndStart(h)

----------------------------------------------------------------------------
(* The qmaster of host h.                                                  *)

\* Timing: every master has the same heartbeat interval, so two masters
\* increment the counter in turn.
InTurn(h) == beat = h => Serving \ hung = {h}

\* Timing: the counter does not come round (99999 heartbeats, 34 days)
\* between two readings of a shadow daemon.
NotRound(b) == \A h \in Shadows : b # sd[h].last

Phase(h, from, to) ==
  h \notin hung /\ qm[h] = from /\ qm' = [qm EXCEPT ![h] = to]

\* prepare_enroll: the communication handle is created ...
Bind(h) ==
  /\ Phase(h, "start", "bound")
  /\ UNCHANGED <<files, ex, sd, world, left, spoiled>>

\* Mutant: another name in act_qmaster is enough to end the start.
NameEnough(h) ==
  /\ Phase(h, "bound", IF act # h THEN "down" ELSE "enrolled")
  /\ left' = IF lock /\ act # h THEN "start" ELSE left
  /\ UNCHANGED <<files, ex, sd, world, spoiled>>

\* ... and if act_qmaster names another host whose master answers, the new
\* process exits; nobody removes the lock file then.
PrepareEnroll(h) ==
  /\ IF act # h /\ act \in Enrolled
     THEN /\ Phase(h, "bound", "down")
          /\ left' = IF lock THEN "start" ELSE left
     ELSE Phase(h, "bound", "enrolled") /\ UNCHANGED left
  /\ UNCHANGED <<files, ex, sd, world, spoiled>>

\* Mutant: the start-up heartbeat is left to the timer thread.
SkipStartupHeartbeat(h) ==
  /\ Phase(h, "enrolled", "beaten")
  /\ UNCHANGED <<files, ex, sd, world, left, spoiled>>

\* The start-up heartbeat, before the lock file is removed.
StartupHeartbeat(h) ==
  /\ Phase(h, "enrolled", "beaten") /\ NotRound(NextBeat)
  /\ hb' = NextBeat
  /\ UNCHANGED <<act, lock, ex, sd, world, left, spoiled>>

\* sge_setup_qmaster removes the lock file, whoever created it ...
Unlock(h) ==
  /\ Phase(h, "beaten", "unlocked")
  /\ lock' = FALSE /\ left' = "none"
  /\ UNCHANGED <<act, hb, ex, sd, world, spoiled>>

\* ... writes its host name into act_qmaster ...
WriteQmName(h) ==
  /\ Phase(h, "unlocked", "named")
  /\ act' = h
  /\ UNCHANGED <<lock, hb, ex, sd, world, left, spoiled>>

\* ... and reads the spooled data (qmaster_init), which may take long.
QmasterInit(h) ==
  /\ Phase(h, "named", "ready")
  /\ ex' = [ex EXCEPT ![h] = 0]
  /\ UNCHANGED <<files, sd, world, left, spoiled>>

\* increment_heartbeat: the timed event of a serving master.  At every
\* CheckEvery-th heartbeat it shuts down with exit state 100 if act_qmaster
\* names another host.
IncrementHeartbeat(h) ==
  /\ h \in Serving \ hung /\ InTurn(h) /\ NotRound(NextBeat)
  /\ hb' = NextBeat /\ beat' = h
  /\ IF NextBeat % CheckEvery = 0 /\ act # h
     THEN qm' = [qm EXCEPT ![h] = "stopping"] /\ ex' = [ex EXCEPT ![h] = 100]
     ELSE qm' = [qm EXCEPT ![h] = "up"] /\ UNCHANGED ex
  /\ UNCHANGED <<act, lock, sd, env, faults, hung, left, spoiled>>

\* The master has ended its threads: final spooling unless the exit state is
\* 100, and with exit state 0 the lock file, so that no shadow daemon takes
\* over after an orderly shutdown.
Exit(h) ==
  /\ Phase(h, "stopping", "down")
  /\ lock' = (lock \/ ex[h] = 0)
  /\ left' = IF ex[h] = 0 /\ ~lock THEN "stop" ELSE left
  /\ spoiled' = (spoiled \/ (ex[h] # 100 /\ act # h))
  /\ UNCHANGED <<act, hb, ex, sd, world>>

Qmaster(h) ==
  \/ Bind(h) \/ PrepareEnroll(h) \/ StartupHeartbeat(h) \/ Unlock(h)
  \/ WriteQmName(h) \/ QmasterInit(h) \/ IncrementHeartbeat(h) \/ Exit(h)

----------------------------------------------------------------------------
(* What happens to the hosts.                                              *)

Disturb(what) == what \in env /\ faults < MaxFaults[env] /\ faults' = faults + 1

\* A qmaster process dies, or gives up reading the spooled data.
Crash(h) ==
  /\ Disturb("crash") /\ h \notin hung /\ qm[h] \in {"named", "ready", "up"}
  /\ qm' = [qm EXCEPT ![h] = "down"]
  /\ UNCHANGED <<files, ex, sd, hung, beat, env, left, spoiled>>

\* A host stops running for longer than the shadow daemons wait ...
Hang(h) ==
  /\ Disturb("hang") /\ h \in Serving \ hung
  /\ hung' = hung \cup {h}
  /\ UNCHANGED <<files, qm, ex, sd, beat, env, left, spoiled>>

\* ... and goes on where it was.
Resume(h) ==
  /\ h \in hung
  /\ hung' = hung \ {h}
  /\ UNCHANGED <<files, qm, ex, sd, beat, env, faults, left, spoiled>>

\* An administrator shuts a master down: qconf -km (sge_gdi_kill_master)
\* sets exit state 0 as long as requests are answered.
KillMaster(h) ==
  /\ Disturb("stop") /\ h \notin hung /\ qm[h] \in {"ready", "up", "stopping"}
  /\ qm' = [qm EXCEPT ![h] = "stopping"] /\ ex' = [ex EXCEPT ![h] = 0]
  /\ UNCHANGED <<files, sd, hung, beat, env, left, spoiled>>

\* An administrator starts a qmaster by hand.
StartMaster(h) ==
  /\ Disturb("admin") /\ h \notin hung /\ qm[h] = "down"
  /\ qm' = [qm EXCEPT ![h] = "start"]
  /\ UNCHANGED <<files, ex, sd, hung, beat, env, left, spoiled>>

Next == \E h \in Hosts :
  \/ h \in Shadows /\ Shadowd(h)
  \/ Qmaster(h)
  \/ Crash(h) \/ Hang(h) \/ Resume(h) \/ KillMaster(h) \/ StartMaster(h)

Spec == Init /\ [][Next]_vars

\* Every process of a host that runs goes on, and a host that hangs resumes.
Fairness == \A h \in Hosts :
  WF_vars(h \in Shadows /\ Shadowd(h)) /\ WF_vars(Qmaster(h)) /\ WF_vars(Resume(h))

LiveSpec == Spec /\ Fairness

----------------------------------------------------------------------------
(* Properties.                                                             *)

\* A round of a shadow daemon: where it is, and its local variables.
Rounds == [pc : {"idle", "check", "valid", "lock", "latest", "compare", "ask"},
           last : 0..HBMax, latest : 0..HBMax, old : Hosts]

\* Every variable has its type.
TypeOK ==
  /\ act \in Hosts /\ lock \in BOOLEAN /\ hb \in 0..HBMax
  /\ qm \in [Hosts -> Phases] /\ ex \in [Hosts -> {0, 100}]
  /\ sd \in [Shadows -> Rounds]
  /\ hung \subseteq Hosts /\ beat \in Hosts /\ env \in Envs
  /\ faults \in 0..MaxFaults[env] /\ left \in {"none", "stop", "start"} /\ spoiled \in BOOLEAN

\* Only one of the shadow daemons starts a new master: while hosts neither
\* hang nor get a qmaster started by hand, no two qmaster processes run.
OneMaster ==
  env \cap {"hang", "admin"} = {} =>
    \A g, h \in Hosts : qm[g] # "down" /\ qm[h] # "down" => g = h

\* The shadow daemons that hold the lock file, and the hosts whose qmaster
\* has not come to removing it.
Bidders == {h \in Shadows : sd[h].pc \in {"latest", "compare", "ask"}}
Starting == {h \in Hosts : qm[h] \in {"start", "bound", "enrolled", "beaten"}}

\* No two shadow daemons are past the lock file, and none is while a
\* qmaster that one of them started has not removed it.
OneBidder ==
  "admin" \notin env =>
    /\ \A g, h \in Bidders : g = h
    /\ Bidders # {} => Starting = {}

\* A lock file is there only for a bid or a start under way, after an orderly
\* shutdown, or after a start that failed.  A displaced master that shuts
\* down (exit state 100) does not leave one and so block the next takeover.
LockExplained ==
  lock => \/ left # "none"
          \/ Bidders \cup Starting # {}

\* The lock file does its work: one shadow daemon takes over at a time, and
\* nothing but that or an administrator's stop keeps the others away.
OneTakesOver == OneMaster /\ OneBidder /\ LockExplained

\* The lock file has one owner: a shadow daemon that bids or a qmaster that
\* starts.  One that an orderly shutdown or a failed start left behind has none.
LockOwned ==
  "admin" \notin env =>
    /\ \A g, h \in Bidders : g = h
    /\ \A g, h \in Starting : g = h
    /\ Bidders = {} \/ Starting = {}
    /\ Bidders \cup Starting # {} => lock
    /\ left # "none" => lock /\ Bidders \cup Starting = {}

\* What keeps a shadow daemon from a second master while m starts or serves.
\* From its start-up heartbeat until its name is in act_qmaster, the counter
\* shows the new master: it differs from what a daemon in a round read before.
\* From then on act_qmaster names it, so that it is the one a daemon asks.
MasterShows(m) ==
  /\ qm[m] \in {"beaten", "unlocked"} =>
       \A h \in Shadows : sd[h].pc # "idle" => sd[h].last # hb
  /\ qm[m] = "unlocked" =>
       \A h \in Shadows : sd[h].pc \in {"compare", "ask"} => sd[h].latest # sd[h].last
  /\ qm[m] \in {"named", "ready", "up", "stopping"} =>
       /\ act = m
       /\ \A h \in Shadows :
            sd[h].pc = "ask" => sd[h].old = m \/ sd[h].latest # sd[h].last

\* The inductive invariant of the failover: types, who owns the lock file, and,
\* without hanging hosts and manual starts, one master that every daemon sees.
IInv ==
  /\ TypeOK /\ LockExplained /\ LockOwned
  /\ hung # {} => "hang" \in env
  /\ OneMaster
  /\ env \cap {"hang", "admin"} = {} => \A m \in Hosts : MasterShows(m)

\* What a step does after an orderly shutdown that created the lock file.
StopStays ==
  left = "stop" /\ "admin" \notin env =>
    /\ lock' /\ left' = "stop"
    /\ \A h \in Hosts : qm[h] = "down" => qm'[h] = "down"

\* A lock file that an orderly shutdown created (left = "stop") stays, and no
\* qmaster is started any more: neither a daemon that gives up its bid nor a
\* qmaster on its start removes the file, and no daemon gets past it.  Two cases
\* are outside: a shutdown that finds the lock file of a bidding daemon only logs
\* that (qmaster_lock_and_shutdown) and leaves the file to that daemon, which
\* starts a qmaster or removes it; and an administrator may start one by hand.
StopSticks == [][StopStays]_vars

\* A master that is gone without a lock file is replaced: some host serves.
TakenOver == (\A h \in Hosts : qm[h] = "down") /\ ~lock ~> Serving # {}

\* Two masters do not stay: a serving master that act_qmaster no longer
\* names ends (or hangs).  The counter they share wraps after an odd number
\* of heartbeats, so that each of them meets a multiple of CheckEvery.
SplitHeals == \A h \in Hosts :
  h \in Serving \ hung /\ act # h ~> h \notin Serving \ hung \/ act = h

\* The shadow daemons detect the failure of the current master and start a
\* new one: a cluster whose master was not shut down gets a master again.
MasterReplaced ==
  (\A h \in Hosts : qm[h] = "down") /\ left # "stop" ~> Serving # {} \/ left = "stop"

\* A master that another one replaced does no final spooling, which would
\* overwrite what that one has written (sge_qmaster_do_final_spooling).
SpoolKept == ~spoiled
=============================================================================
