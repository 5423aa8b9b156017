----------------------------- MODULE JobDelivery -----------------------------
(***************************************************************************)
(* How qmaster hands one job to execution daemons and gets it back:        *)
(* delivery with resend timers, the job reports an execd repeats until     *)
(* they are acknowledged, the slave tags of a tightly integrated parallel  *)
(* job, deletion, rescheduling and the reschedule-unknown (RU) list.       *)
(*                                                                         *)
(*   daemons/qmaster  sge_follow.cc, sge_give_jobs.cc, sge_c_report.cc,    *)
(*                    job_report_qmaster.cc, job_exit.cc, reschedule.cc,   *)
(*                    sge_job_qmaster.cc, sge_qmod_qmaster.cc              *)
(*   daemons/execd    dispatcher.cc, execd_job_exec.cc, reaper_execd.cc,   *)
(*                    job_report_execd.cc, execd_signal_queue.cc           *)
(*                                                                         *)
(* One array task of one job. A host's granted queues are one entry, as    *)
(* only the first entry of a host is ever tagged, and a host runs at most  *)
(* one task of a parallel job per run. Both directions between qmaster and *)
(* a host are FIFO channels that may lose a message: the sequence number   *)
(* check of sge_c_report turns a reordered report into a lost one. A queue *)
(* in unknown state, to which qmaster sends nothing but arms the timer, is *)
(* a lost message. Usage, accounting of parallel tasks, mail, queue states *)
(* and failures of the start of a job on the host are left out.            *)
(***************************************************************************)
EXTENDS Integers, Sequences, FiniteSets, SequencesExt

CONSTANTS
    Hosts,      \* execution hosts
    Kinds,      \* the kinds of job: a subset of {"serial", "tight"}
    Grants,     \* Grants[k]: granted lists of hosts (gdil), the master first
    MaxRuns,    \* MaxRuns[k]: bound on the start orders for the job
    MaxFinish,  \* MAX_MASTER_TASK_FINISH_BEFORE_EXIT, 20 in the code
    Ops,        \* Ops[k]: what users do, a subset of {"qdel", "force", "resched"}
    Outcomes,   \* how a job ends by itself: a subset of {"ok", "again", "failed"}
    Faults,     \* Faults[k]: a subset of {"lose", "send", "execd", "start", "qmaster"}
    MaxFaults,  \* bound on the number of faults
    Classic,    \* classic spooling keeps tags and RU lists, berkeleydb does not
    Prompt,     \* messages arrive before the next report or timer, see Quiet
    Partial,    \* the kinds whose hosts flush reports of other jobs in between
    MaxUp,      \* bound on the messages from a host in flight
    MaxDown     \* bound on the messages to a host in flight

ASSUME JobConstants ==
    /\ Kinds \subseteq {"serial", "tight"}
    /\ \A k \in Kinds : \A g \in Grants[k] :
          /\ g \in Seq(Hosts) /\ g # << >> /\ IsInjective(g)
          /\ (k = "serial") = (Len(g) = 1)
    /\ \A k \in Kinds :
          /\ Ops[k] \subseteq {"qdel", "force", "resched"}
          /\ Faults[k] \subseteq {"lose", "send", "execd", "start", "qmaster"}
    /\ Outcomes \subseteq {"ok", "again", "failed"}
    /\ MaxFinish \in Nat \ {0}

VARIABLES
    kind,    \* the kind of the job, fixed when it is submitted
    q,       \* qmaster's record of the job, see QRecord
    spooled, \* what the spool database holds of the tags
    ex,      \* ex[h]: what the execd of host h knows, see ERecord
    up,      \* up[h]: messages from host h to qmaster
    down,    \* down[h]: messages from qmaster to host h
    run,     \* number of start orders so far: history
    began,   \* began[r]: how often the master task of run r was started: history
    booked,  \* booked[r]: how often the end of run r was booked: history
    silent,  \* hosts that left their reports for the job out of a packet: history
    faults   \* number of faults so far

vars == <<kind, q, spooled, ex, up, down, run, began, booked, silent, faults>>

Runs == 1 .. (CHOOSE n \in {MaxRuns[k] : k \in Kinds} :
                \A k \in Kinds : MaxRuns[k] <= n)
NoTags == [h \in Hosts |-> 0]
NoRU == [h \in Hosts |-> << >>]

-----------------------------------------------------------------------------
(* The lists of reschedule.cc. RU_state is one of the five values of       *)
(* reschedule.h; a host's entries for the job are a sequence because       *)
(* add_to_reschedule_unknown_list appends without looking for one.         *)
REMOVE == "skip_jr_remove"
SEND_ACK == "skip_jr_send_ack"
SKIP == "skip_jr"
HANDLE_REMOVE == "handle_jr_remove"
WAIT == "handle_jr_wait"
RUStates == {REMOVE, SEND_ACK, SKIP, HANDLE_REMOVE, WAIT}

update_reschedule_unknown_list(l) ==
    [i \in DOMAIN l |-> CASE l[i] = SEND_ACK -> REMOVE
                          [] l[i] = SKIP -> SEND_ACK
                          [] OTHER -> l[i]]

delete_from_reschedule_unknown_list(l) ==
    SelectSeq(l, LAMBDA s : s \notin {REMOVE, HANDLE_REMOVE})

update_reschedule_unknown_list_for_job(l) ==
    IF l # << >> /\ Head(l) = WAIT THEN <<HANDLE_REMOVE>> \o Tail(l) ELSE l

\* Mutant: reports are processed although the job was rescheduled.
SkipNothing(l, state) == IF l # << >> /\ Head(l) = REMOVE THEN 2 ELSE 0

\* skip_restarted_job returns 0: process, 1: skip, 2: kill, 3: acknowledge.
skip_restarted_job(l, state) ==
    CASE l = << >> -> 0
      [] l # << >> /\ Head(l) = REMOVE -> 2
      [] l # << >> /\ Head(l) \in {SEND_ACK, SKIP} ->
            IF state = "exiting" THEN 3 ELSE 1
      [] OTHER -> 0

-----------------------------------------------------------------------------
(* Messages. An acknowledgement packet is the sequence of its entries;     *)
(* ACK_JOB_REPORT_RESEND only makes the execd report sooner and is left    *)
(* out. run is history: the start order a message stems from.              *)
Msg(k, r) == [kind |-> k, run |-> r, acks |-> << >>]
AckPacket(a) == [kind |-> "acks", run |-> 0, acks |-> a]
AckTypes == {"exit", "exit_task", "signal_job", "signal_slave"}

\* A job report packet: the reports of host record e for the job and for its
\* parallel task, or none of them.
Packet(e) ==
    [kind |-> "report", rep |-> e.rep, es |-> e.es, why |-> e.why,
     trep |-> e.trep, tfailed |-> e.tfailed]
SigAck == [kind |-> "sigack"]

Send(d, h, m) == [d EXCEPT ![h] = Append(@, m)]
SendAll(d, S, m) == [h \in Hosts |-> IF h \in S THEN Append(d[h], m) ELSE d[h]]
Fits(d) == \A h \in Hosts : Len(d[h]) <= MaxDown
Lossy(f) == f \in Faults[kind] /\ faults < MaxFaults
\* The sets of hosts a send may fail for.
Unreachable == {{}} \cup IF Lossy("send") THEN SUBSET Hosts \ {{}} ELSE {}
Count(S) == faults' = faults + IF S = {} THEN 0 ELSE 1

-----------------------------------------------------------------------------
(* qmaster: one record of the ja_task                                      *)
Idle == [status |-> "idle", deleted |-> FALSE, deferred |-> FALSE,
         gdil |-> << >>, tag |-> NoTags, sig |-> "none", resend |-> FALSE,
         ru |-> NoRU]
Active(m) == m.status \in {"transfering", "running"}
Tight(m) == Len(m.gdil) > 1
Master(m) == Head(m.gdil)
Slaves(m) == ToSet(Tail(m.gdil))

is_pe_master_task_send(m) == \A h \in ToSet(m.gdil) : m.tag[h] = 0
all_slave_jobs_finished(m) == \A h \in Slaves(m) : m.tag[h] # 1
tag_all_host_gdil(m) ==
    [m EXCEPT !.tag = [h \in Hosts |-> IF h \in ToSet(m.gdil) THEN 1 ELSE 0]]

\* send_slave_jobs goes through the tagged hosts and stops at the first one
\* it cannot reach; what it sent before stays sent.
Tagged(m) == {i \in DOMAIN m.gdil : m.tag[m.gdil[i]] # 0}
send_slave_jobs(m, r, off, d) ==
    LET failed == {i \in Tagged(m) : m.gdil[i] \in off}
        sent == {m.gdil[i] : i \in {j \in Tagged(m) : \A b \in failed : j < b}}
    IN [ok |-> failed = {}, down |-> SendAll(d, sent, Msg("slave", r))]

send_job(m, r, off, d) ==
    IF Master(m) \in off THEN [ok |-> FALSE, down |-> d]
    ELSE [ok |-> TRUE, down |-> Send(d, Master(m), Msg("job", r))]

\* sge_give_job: the slave containers first, the master task when no host of
\* the list is tagged any more.
sge_give_job(m, r, off, d) ==
    IF Tagged(m) # {} THEN send_slave_jobs(m, r, off, d) ELSE send_job(m, r, off, d)

\* sge_clear_granted_resources and the state bits that survive a reschedule.
Cleared(m, status) ==
    [m EXCEPT !.status = status, !.deleted = FALSE, !.gdil = << >>, !.tag = NoTags]

\* COMMIT_ST_FINISHED_FAILED_EE: the job leaves every list. The resend timer
\* may still be armed; its handler does not find the job.
Gone == [Idle EXCEPT !.status = "gone"]

\* Mutant: no entry is made for the hosts the job ran on.
NoEntries(m) == Cleared(m, "idle")

\* COMMIT_ST_RESCHEDULED and COMMIT_ST_USER_RESCHEDULED: the slave hosts of a
\* tight job, or the one host of any other, get an RU entry.
commit_rescheduled(m) ==
    LET entry == [h \in Hosts |->
            CASE Tight(m) /\ h \in Slaves(m) -> <<WAIT>>
              [] ~Tight(m) /\ h = Master(m) -> <<SKIP>>
              [] OTHER -> << >>]
    IN [Cleared(m, "idle") EXCEPT !.ru = [h \in Hosts |-> m.ru[h] \o entry[h]]]

\* sge_job_exit, called for an active job only: "again" stands for the exits
\* after which the job is rescheduled (cases 3 to 6), unless it was deleted.
sge_job_exit(m, why) ==
    IF why \in {"again", "no_pid"} /\ ~m.deleted
    THEN [commit_rescheduled(m) EXCEPT !.resend = FALSE]
    ELSE Gone

-----------------------------------------------------------------------------
(* process_job_report as functions of a record: the job m, the entries of  *)
(* the acknowledgement packet, the channels, and whether an end is booked. *)
Ack(s, a) == [s EXCEPT !.acks = Append(@, a)]

\* The reports that an RU entry of the host withholds from the job.
Withheld(s, h, state, exit) ==
    LET ret == skip_restarted_job(s.m.ru[h], state)
    IN CASE ret = 2 -> Ack([s EXCEPT !.m.ru[h][1] = SKIP], "signal_job")
         [] ret = 3 -> Ack([s EXCEPT !.m.deferred = FALSE,
                                     !.spool = @ \/ s.m.deferred], exit)
         [] OTHER -> s

\* SSTATE_FAILURE_AFTER_JOB of the master task or of a parallel task deletes the
\* rest of the job (job_mark_job_as_deleted, which spools it).
Failed(s, failed) ==
    IF failed /\ ~s.m.deleted THEN [s EXCEPT !.m.deleted = TRUE, !.spool = TRUE] ELSE s

\* A report for a parallel task: running or exiting. The list of finished tasks,
\* which keeps a repeated report from being counted again, needs no state here:
\* the first report has marked the job already.
TaskReport(s, h, p) ==
    CASE p.trep = "none" -> s
      [] p.trep # "none" /\ skip_restarted_job(s.m.ru[h], p.trep) > 0 ->
            Withheld(s, h, p.trep, "exit_task")
      [] p.trep = "exiting" ->
            Ack(IF Tight(s.m) /\ h \in ToSet(s.m.gdil) THEN Failed(s, p.tfailed) ELSE s,
                "exit_task")
      [] OTHER -> IF s.m.status = "gone" \/ (Active(s.m) /\ s.m.deleted)
                  THEN Ack(s, "signal_job") ELSE s

\* Mutant: a job that qmaster does not know is left running.
LetRun(s) ==
    IF s.m.status = "transfering"
    THEN [s EXCEPT !.m.status = "running", !.m.resend = FALSE, !.spool = TRUE]
    ELSE s

\* JWRITTEN, JRUNNING: the report of the master task acknowledges delivery. The
\* usage records, written online or once a day, are left out.
RunningReport(s) ==
    LET t == IF s.m.status = "gone" \/ (Active(s.m) /\ s.m.deleted)
             THEN Ack(s, "signal_job") ELSE s
    IN IF s.m.status = "transfering"
       THEN [t EXCEPT !.m.status = "running", !.m.resend = FALSE, !.spool = TRUE]
       ELSE t

\* JSLAVE: acknowledges the container while the job is transfering, later
\* tells whether the host is done with it. When the last host has answered
\* the resend event is armed for now.
SlaveReport(s, h, p) ==
    CASE s.m.status = "gone" -> Ack(s, "exit")
      [] s.m.status # "gone" /\ h \notin ToSet(s.m.gdil) ->
            Ack([s EXCEPT !.m.ru[h] = update_reschedule_unknown_list_for_job(@)], "exit")
      [] s.m.status = "transfering" /\ h \in ToSet(s.m.gdil) ->
            [s EXCEPT !.m.tag[h] = 0]
      [] OTHER -> CASE s.m.tag[h] = 0 -> s
                    [] s.m.tag[h] # 0 /\ p.es -> Ack([s EXCEPT !.m.tag[h] = 0], "exit")
                    [] OTHER -> Ack(s, "signal_slave")

Exit(s, why) ==
    Ack([s EXCEPT !.m = sge_job_exit(s.m, why), !.booked = TRUE, !.spool = TRUE], "exit")

\* Mutant: the reports of the master task are counted without a limit.
WaitOn(s, p) ==
    LET tag == s.m.tag[Master(s.m)]
    IN CASE ~Active(s.m) -> Ack(s, "exit")
         [] Active(s.m) /\ ~Tight(s.m) -> Exit(s, p.why)
         [] Active(s.m) /\ Tight(s.m) /\ tag = 0 -> [s EXCEPT !.m = tag_all_host_gdil(s.m)]
         [] Active(s.m) /\ Tight(s.m) /\ tag > 0 /\ ~all_slave_jobs_finished(s.m) ->
               [s EXCEPT !.m.tag[Master(s.m)] = tag + 1]
         [] OTHER -> Exit(s, p.why)

\* JEXITING of the master task: a tight job ends when every slave host has
\* said it is done, or after MaxFinish reports.
ExitingReport(s, p) ==
    LET m == s.m
        tag == m.tag[Master(m)]
    IN CASE ~Active(m) -> Ack(s, "exit")
         [] Active(m) /\ ~Tight(m) -> Exit(s, p.why)
         [] Active(m) /\ Tight(m) /\ tag = 0 ->
               Failed([s EXCEPT !.m = tag_all_host_gdil(m),
                     !.down = SendAll(@, ToSet(m.gdil), AckPacket(<<"signal_slave">>))],
                      p.why = "failed")
         [] Active(m) /\ Tight(m) /\ tag \in 1 .. MaxFinish - 1
               /\ ~all_slave_jobs_finished(m) ->
               Failed([s EXCEPT !.m.tag[Master(m)] = tag + 1], p.why = "failed")
         [] OTHER -> Exit(s, p.why)

MainReport(s, h, p) ==
    CASE p.rep = "none" -> s
      [] p.rep # "none" /\ skip_restarted_job(s.m.ru[h], p.rep) > 0 ->
            Withheld(s, h, p.rep, "exit")
      [] p.rep = "running" -> RunningReport(s)
      [] p.rep = "slave" -> SlaveReport(s, h, p)
      [] OTHER -> ExitingReport(s, p)

-----------------------------------------------------------------------------
(* Actions of qmaster                                                      *)
\* What a restart finds of the tags when the job was spooled with tags t.
Spool(t) == spooled' = IF Classic THEN t ELSE NoTags

\* ORT_start_job, ordered by the scheduler, which keeps the job away from
\* hosts with an RU entry. It looks for JDEFERRED_REQ in JAT_status, where
\* the bit is never set, so a deferred job is ordered like any other.
StartOrder(g, off) ==
    LET m == [q EXCEPT !.status = "transfering", !.gdil = g, !.resend = TRUE,
                       !.tag = [h \in Hosts |->
                                   IF Len(g) > 1 /\ h \in ToSet(Tail(g)) THEN 1 ELSE 0]]
        given == sge_give_job(m, run + 1, off, down)
    IN /\ q.status = "idle" /\ run < MaxRuns[kind]
       /\ g \in Grants[kind] /\ \A h \in ToSet(g) : q.ru[h] = << >>
       /\ off \in Unreachable /\ off \subseteq ToSet(g)
       /\ Fits(given.down) /\ down' = given.down
       /\ run' = run + 1
       /\ q' = IF given.ok THEN m ELSE [Cleared(q, "idle") EXCEPT !.deferred = FALSE]
       /\ IF given.ok THEN Spool(m.tag) ELSE UNCHANGED spooled
       /\ Count(off)
       /\ UNCHANGED <<kind, silent, ex, up, began, booked>>

\* What qmaster has sent to the hosts S was received: the timers, and the load
\* reports unless one is flushed, are far apart compared with a message.
Quiet(S) == Prompt => \A h \in S : down[h] = << >>

\* Mutant: the handler does not arm the timer again.
ResendOnce(off) ==
    LET given == sge_give_job(q, run, off, down)
    IN /\ q.resend /\ Quiet(Hosts)
       /\ q.status = "transfering" /\ off \in Unreachable
       /\ Fits(given.down) /\ down' = given.down
       /\ q' = [q EXCEPT !.resend = FALSE]
       /\ Count(off)
       /\ UNCHANGED <<kind, silent, spooled, ex, up, run, began, booked>>

\* sge_job_resend_event_handler: whatever sge_give_job returns, the timer is
\* armed again while the job is transfering.
Resend(off) ==
    LET given == sge_give_job(q, run, off, down)
    IN /\ q.resend /\ Quiet(Hosts)
       /\ q.status = "transfering" /\ off \in Unreachable /\ off \subseteq ToSet(q.gdil)
       /\ Fits(given.down) /\ down' = given.down
       /\ Count(off)
       /\ UNCHANGED <<kind, silent, q, spooled, ex, up, run, began, booked>>

\* sge_signal_queue with SGE_SIGKILL for the master queue and, through
\* signal_slave_tasks_of_job, the others. Nothing is packed while a host is
\* tagged; the pending signal is kept in any case.
sge_signal_queue(m, off, d) ==
    IF is_pe_master_task_send(m)
    THEN [ok |-> Master(m) \notin off,
          down |-> IF Master(m) \in off THEN d
                   ELSE SendAll(d, ToSet(m.gdil) \ off, Msg("kill", 0))]
    ELSE [ok |-> TRUE, down |-> d]

\* Bound: a signal is not sent again while one, or its answer, is on its way.
NoKillInFlight ==
    \A h \in Hosts : /\ \A i \in DOMAIN down[h] : down[h][i].kind # "kill"
                     /\ \A i \in DOMAIN up[h] : up[h][i].kind # "sigack"

\* resend_signal_event. A send that fails leaves the signal pending without
\* a timer.
SignalResend(off) ==
    LET sent == sge_signal_queue(q, off, down)
    IN /\ q.sig = "armed" /\ q.gdil # << >> /\ NoKillInFlight /\ Quiet(Hosts)
       /\ off \in Unreachable /\ off \subseteq ToSet(q.gdil)
       /\ Fits(sent.down) /\ down' = sent.down
       /\ q' = [q EXCEPT !.sig = IF sent.ok THEN "armed" ELSE "pending"]
       /\ Count(off)
       /\ UNCHANGED <<kind, silent, spooled, ex, up, run, began, booked>>

\* qdel. A job that waits, or one of whose hosts is still tagged, is removed
\* at once; any other is signalled and, when forced, removed as well.
Qdel(force, off) ==
    LET sent == sge_signal_queue(q, off, down)
    IN /\ (IF force THEN "force" ELSE "qdel") \in Ops[kind]
       /\ q.status # "gone" /\ ~q.deleted
       /\ off \in Unreachable /\ off \subseteq ToSet(q.gdil)
       /\ IF q.gdil = << >> \/ ~is_pe_master_task_send(q)
          THEN off = {} /\ q' = Gone /\ Spool(NoTags) /\ UNCHANGED <<down, booked>>
          ELSE /\ Fits(sent.down) /\ down' = sent.down
               /\ IF force
                  THEN /\ q' = Gone
                       /\ booked' = [booked EXCEPT ![run] = @ + IF sent.ok THEN 1 ELSE 0]
                       /\ Spool(NoTags)
                  ELSE /\ q' = [q EXCEPT !.deleted = TRUE,
                                         !.sig = IF sent.ok THEN "armed" ELSE @]
                       /\ Spool(q.tag)
                       /\ UNCHANGED booked
       /\ Count(off)
       /\ UNCHANGED <<kind, silent, ex, up, run, began>>

\* reschedule_job for qmod -rj (manual) or for a host not heard of for too
\* long: unless the master host has an RU entry, one is made and the end of
\* the job is simulated with a report that says SSTATE_AGAIN.
Reschedule(manual) ==
    LET h == Master(q)
    IN /\ "resched" \in Ops[kind]
       /\ q.gdil # << >> /\ ~q.deleted /\ Active(q) /\ q.ru[h] = << >>
       /\ q' = sge_job_exit([q EXCEPT !.ru[h] = <<REMOVE>>, !.deferred = manual], "again")
       /\ booked' = [booked EXCEPT ![run] = @ + 1]
       /\ Spool(NoTags)
       /\ UNCHANGED <<kind, silent, ex, up, down, run, began, faults>>

\* sge_c_report: age the RU entries of the host, process the reports, those
\* of parallel tasks first, delete the RU entries it is done with, answer.
sge_c_report(h) ==
    LET p == Head(up[h])
        s0 == [m |-> [q EXCEPT !.ru[h] = update_reschedule_unknown_list(@)],
               acks |-> << >>, down |-> down, booked |-> FALSE, spool |-> FALSE]
        s1 == MainReport(TaskReport(s0, h, p), h, p)
        d == IF s1.acks = << >> THEN s1.down ELSE Send(s1.down, h, AckPacket(s1.acks))
    IN /\ up[h] # << >> /\ p.kind = "report"
       /\ q' = [s1.m EXCEPT !.ru[h] = delete_from_reschedule_unknown_list(@)]
       /\ Fits(d) /\ down' = d
       /\ up' = [up EXCEPT ![h] = Tail(@)]
       /\ booked' = IF s1.booked THEN [booked EXCEPT ![run] = @ + 1] ELSE booked
       /\ IF s1.spool THEN Spool(s1.m.tag) ELSE UNCHANGED spooled
       /\ UNCHANGED <<kind, silent, ex, run, began, faults>>

\* sge_c_job_ack, ACK_SIGJOB: the answer of any one host takes the pending
\* signal back.
sge_c_job_ack(h) ==
    /\ up[h] # << >> /\ Head(up[h]).kind = "sigack"
    /\ up' = [up EXCEPT ![h] = Tail(@)]
    /\ IF q.status = "gone" THEN UNCHANGED <<q, spooled>>
       ELSE q' = [q EXCEPT !.sig = "none"] /\ Spool(q.tag)
    /\ UNCHANGED <<kind, silent, ex, down, run, began, booked, faults>>

\* A crash and restart of qmaster: sge_setup_job_resend and
\* rebuild_signal_events arm the timers again from the spooled job.
QmasterRestart ==
    /\ Lossy("qmaster")
    /\ q' = [q EXCEPT !.tag = IF Active(q) THEN spooled ELSE NoTags,
                      !.resend = q.status = "transfering",
                      !.sig = IF q.sig = "none" THEN "none" ELSE "armed",
                      !.ru = IF Classic THEN @ ELSE NoRU]
    /\ up' = [h \in Hosts |-> << >>]
    /\ faults' = faults + 1
    /\ UNCHANGED <<kind, silent, spooled, ex, down, run, began, booked>>

-----------------------------------------------------------------------------
(* execd: what a host knows of the job                                     *)
\* The task of a parallel job is in the list of the container while it is
\* "running", "exited" and not yet acknowledged, or "stale": read back from a
\* spool file that still had it. "done" is gone from the list and not yet
\* from the file, "cleared" from both.
NoJob == [job |-> "none", run |-> 0, dead |-> FALSE, task |-> "none",
          rep |-> "none", es |-> FALSE, why |-> "ok", trep |-> "none",
          tfailed |-> FALSE]
HasTask(e) == e.task \in {"running", "exited", "stale"}

\* handle_job for a job or a container that is not in the list; the job is
\* started in the same turn of the main loop. add_job_report appends: a report
\* left from job_unknown stays the one get_job_report finds.
handle_job(e, k, r) ==
    LET job == IF k = "slave" THEN "slave" ELSE "running"
    IN [e EXCEPT !.job = job, !.run = r,
                 !.rep = IF e.rep = "none" THEN job ELSE e.rep]

\* job_unknown after the reports for the job were dropped
job_unknown == [NoJob EXCEPT !.rep = "exiting", !.why = "unknown"]

\* sge_execd_deliver_signal and the write of the spool file after it. A
\* stale task has no process: signal_job fails and spools nothing.
Killed(e) ==
    [e EXCEPT !.dead = TRUE, !.task = IF @ = "done" THEN "cleared" ELSE @]

\* signal_job with SGE_SIGKILL and what follows when it fails
signal_job(e) ==
    CASE e.job = "none" -> job_unknown
      [] e.task = "stale" -> [Killed(e) EXCEPT !.trep = "exiting"]
      [] OTHER -> Killed(e)

\* Mutant: a container is removed although a task of it is still running.
RemoveAnyway(e) == IF e.rep = "none" THEN e ELSE NoJob

\* remove_acked_job_exit for the job: not while tasks are left.
remove_acked_job_exit(e) ==
    CASE e.rep = "none" -> e
      [] e.rep # "none" /\ e.job # "none" /\ HasTask(e) -> e
      [] OTHER -> NoJob

\* remove_acked_job_exit for a parallel task: the last task of a container
\* told to end completes the final slave report.
remove_acked_task_exit(e) ==
    CASE e.trep = "none" -> e
      [] e.trep # "none" /\ e.job = "none" -> NoJob
      [] e.trep = "exiting" /\ HasTask(e) ->
            [e EXCEPT !.task = "done", !.trep = "none", !.tfailed = FALSE,
                      !.es = @ \/ (e.rep = "slave" /\ e.dead)]
      [] OTHER -> [e EXCEPT !.trep = "none"]

\* execd_slave_job_exit: a container without tasks is done at once.
execd_slave_job_exit(e) ==
    IF e.job = "none" THEN e
    ELSE [Killed(e) EXCEPT !.es = @ \/ (e.rep = "slave" /\ ~HasTask(e))]

do_ack(e, a) == CASE a = "exit" -> remove_acked_job_exit(e)
                  [] a = "exit_task" -> remove_acked_task_exit(e)
                  [] a = "signal_job" -> signal_job(e)
                  [] OTHER -> execd_slave_job_exit(e)

-----------------------------------------------------------------------------
(* Actions of an execd                                                     *)
Receives(h, k) ==
    /\ down[h] # << >> /\ Head(down[h]).kind = k
    /\ down' = [down EXCEPT ![h] = Tail(@)]

Begin(r) == began' = [began EXCEPT ![r] = @ + 1]

\* Mutant: a job that is already in the list is started again.
StartAgain(h) ==
    /\ Receives(h, "job")
    /\ ex' = [ex EXCEPT ![h] = handle_job(@, "job", Head(down[h]).run)]
    /\ Begin(Head(down[h]).run)
    /\ UNCHANGED <<kind, silent, q, spooled, up, run, booked, faults>>

\* do_job_exec: a job that is already in the list is ignored.
do_job_exec(h) ==
    /\ Receives(h, "job")
    /\ IF ex[h].job # "none" THEN UNCHANGED <<ex, began>>
       ELSE /\ ex' = [ex EXCEPT ![h] = handle_job(@, "job", Head(down[h]).run)]
            /\ Begin(Head(down[h]).run)
    /\ UNCHANGED <<kind, silent, q, spooled, up, run, booked, faults>>

\* do_job_exec when the execd crashes after it spooled the job and before it
\* starts it. The restarted execd finds no pid file and reports the job as
\* failed; its status is still JIDLE, so sge_start_jobs starts it.
CrashBeforeStart(h) ==
    /\ Lossy("start") /\ ex[h].job = "none"
    /\ down[h] # << >> /\ Head(down[h]).kind = "job"
    /\ down' = [down EXCEPT ![h] = << >>]
    /\ ex' = [ex EXCEPT ![h] = [handle_job(@, "job", Head(down[h]).run)
                                  EXCEPT !.rep = "exiting", !.why = "no_pid"]]
    /\ Begin(Head(down[h]).run)
    /\ faults' = faults + 1
    /\ UNCHANGED <<kind, silent, q, spooled, up, run, booked>>

\* do_job_slave
do_job_slave(h) ==
    /\ Receives(h, "slave")
    /\ ex' = IF ex[h].job # "none" THEN ex
             ELSE [ex EXCEPT ![h] = handle_job(@, "slave", Head(down[h]).run)]
    /\ UNCHANGED <<kind, silent, q, spooled, up, run, began, booked, faults>>

\* do_ack for every entry of the packet in turn
do_acks(h) ==
    /\ Receives(h, "acks")
    /\ ex' = [ex EXCEPT ![h] = FoldLeft(do_ack, @, Head(down[h]).acks)]
    /\ UNCHANGED <<kind, silent, q, spooled, up, run, began, booked, faults>>

\* do_signal_queue with TAG_SIGJOB answers ACK_SIGJOB in any case.
do_signal_queue(h) ==
    /\ Receives(h, "kill")
    /\ ex' = [ex EXCEPT ![h] = signal_job(@)]
    /\ up' = [up EXCEPT ![h] = Append(@, SigAck)]
    /\ UNCHANGED <<kind, silent, q, spooled, run, began, booked, faults>>

\* handle_task: qrsh -inherit of the master task
handle_task(h) ==
    /\ kind = "tight" /\ ex[h].job \in {"slave", "running"}
    /\ ex[h].task = "none" /\ ~ex[h].dead
    /\ \E g \in Hosts : ex[g].job = "running"
    /\ ex' = [ex EXCEPT ![h].task = "running", ![h].trep = "running"]
    /\ UNCHANGED <<kind, silent, q, spooled, up, down, run, began, booked, faults>>

\* sge_reap_children_execd: the master task, or the parallel task, has ended.
\* A report that is already exiting keeps its reason.
MasterExit(h, why) ==
    /\ ex[h].job = "running"
    /\ why \in Outcomes \/ (ex[h].dead /\ why = "failed")
    /\ ex' = [ex EXCEPT ![h].job = "exited", ![h].rep = "exiting",
                        ![h].why = IF ex[h].rep = "exiting" THEN @ ELSE why]
    /\ UNCHANGED <<kind, silent, q, spooled, up, down, run, began, booked, faults>>

\* A process that dies through a signal has failed (reaper_execd.cc 727).
TaskExit(h, failed) ==
    /\ ex[h].task = "running"
    /\ failed => ex[h].dead \/ "failed" \in Outcomes
    /\ ex' = [ex EXCEPT ![h].task = "exited", ![h].trep = "exiting",
                        ![h].tfailed = failed]
    /\ UNCHANGED <<kind, silent, q, spooled, up, down, run, began, booked, faults>>

\* execd_add_job_report: the interval report holds every report, a flushed
\* one may hold none of this job; a load report is sent without any.
Report(h, all) ==
    /\ Len(up[h]) < MaxUp /\ Quiet({h})
    /\ all \/ (kind \in Partial /\ ex[h].rep # "none")
    /\ up' = [up EXCEPT ![h] = Append(@, Packet(IF all THEN ex[h] ELSE NoJob))]
    /\ silent' = IF all THEN silent ELSE silent \cup {h}
    /\ UNCHANGED <<kind, q, spooled, ex, down, run, began, booked, faults>>

\* A crash and restart of an execd: job_initialize_job makes reports for the
\* spooled job and tasks, clean_up_old_jobs finds what ended meanwhile. What
\* signal_job did to a job with a stale task may not be in the spool file.
ExecdRestart(h) ==
    LET e == ex[h]
        task == IF e.task = "done" THEN "stale" ELSE e.task
    IN \E dead \in {e.dead, e.dead /\ e.task # "stale"} :
       /\ Lossy("execd")
       /\ ex' = [ex EXCEPT ![h] =
             IF e.job = "none" THEN NoJob
             ELSE [e EXCEPT !.es = FALSE, !.task = task, !.dead = dead,
                      !.rep = CASE e.job = "slave" -> "slave"
                                [] e.job = "running" -> "running"
                                [] OTHER -> "exiting",
                      !.trep = CASE task \in {"running", "stale"} -> "running"
                                 [] task = "exited" -> "exiting"
                                 [] OTHER -> "none"]]
       /\ down' = [down EXCEPT ![h] = << >>]
       /\ faults' = faults + 1
       /\ UNCHANGED <<kind, silent, q, spooled, up, run, began, booked>>

\* A message to or from a host is lost.
Lose(h) ==
    /\ Lossy("lose")
    /\ \/ up[h] # << >> /\ up' = [up EXCEPT ![h] = Tail(@)] /\ UNCHANGED down
       \/ down[h] # << >> /\ down' = [down EXCEPT ![h] = Tail(@)] /\ UNCHANGED up
    /\ faults' = faults + 1
    /\ UNCHANGED <<kind, silent, q, spooled, ex, run, began, booked>>

-----------------------------------------------------------------------------
Statuses == {"idle", "transfering", "running", "gone"}
Reports == {"none", "slave", "running", "exiting"}
Reasons == {"ok", "again", "failed", "no_pid", "unknown"}

\* Type invariant: the fields of the job in qmaster and on the hosts.
TypeOK ==
    /\ kind \in Kinds
    /\ DOMAIN q = DOMAIN Idle /\ q.status \in Statuses /\ q.sig \in {"none", "pending", "armed"}
    /\ q.gdil \in Grants[kind] \cup {<< >>} /\ (Active(q) <=> q.gdil # << >>)
    /\ \A h \in Hosts :
          /\ q.tag[h] \in 0 .. MaxFinish /\ spooled[h] \in 0 .. MaxFinish
          /\ \A i \in DOMAIN q.ru[h] : q.ru[h][i] \in RUStates
          /\ ex[h].job \in {"none", "slave", "running", "exited"}
          /\ ex[h].task \in {"none", "running", "exited", "done", "cleared", "stale"}
          /\ ex[h].rep \in Reports /\ ex[h].trep \in Reports \ {"slave"}
          /\ ex[h].why \in Reasons /\ ex[h].tfailed \in BOOLEAN
          /\ Len(up[h]) <= MaxUp + 1 /\ Len(down[h]) <= MaxDown
    /\ run \in 0 .. MaxRuns[kind] /\ faults \in 0 .. MaxFaults

Init ==
    /\ kind \in Kinds
    /\ q = Idle /\ spooled = NoTags
    /\ ex = [h \in Hosts |-> NoJob]
    /\ up = [h \in Hosts |-> << >>] /\ down = [h \in Hosts |-> << >>]
    /\ run = 0 /\ faults = 0
    /\ began = [r \in Runs |-> 0] /\ booked = [r \in Runs |-> 0] /\ silent = {}

Next ==
    \/ \E g \in Grants[kind], off \in SUBSET Hosts : StartOrder(g, off)
    \/ \E off \in SUBSET Hosts : Resend(off) \/ SignalResend(off)
    \/ \E force \in BOOLEAN, off \in SUBSET Hosts : Qdel(force, off)
    \/ \E manual \in BOOLEAN : Reschedule(manual)
    \/ QmasterRestart
    \/ \E h \in Hosts :
          \/ sge_c_report(h) \/ sge_c_job_ack(h)
          \/ do_job_exec(h) \/ do_job_slave(h) \/ do_acks(h) \/ do_signal_queue(h)
          \/ CrashBeforeStart(h) \/ handle_task(h)
          \/ \E failed \in BOOLEAN : TaskExit(h, failed)
          \/ \E why \in Reasons : MasterExit(h, why)
          \/ \E all \in BOOLEAN : Report(h, all)
          \/ ExecdRestart(h) \/ Lose(h)

Spec == Init /\ [][Next]_vars

\* Every daemon gets to the messages it has received and to its timers. A
\* process that was sent SIGKILL ends.
Fairness ==
    /\ WF_vars(\E off \in SUBSET Hosts : Resend(off))
    /\ WF_vars(\E off \in SUBSET Hosts : SignalResend(off))
    /\ \A h \in Hosts :
          /\ SF_vars(sge_c_report(h)) /\ WF_vars(sge_c_job_ack(h))
          /\ WF_vars(do_job_exec(h)) /\ WF_vars(do_job_slave(h))
          /\ WF_vars(do_acks(h)) /\ WF_vars(do_signal_queue(h))
          /\ SF_vars(Report(h, TRUE))
          /\ WF_vars(ex[h].dead /\ \E why \in Reasons : MasterExit(h, why))
          /\ WF_vars(ex[h].dead /\ \E failed \in BOOLEAN : TaskExit(h, failed))
LiveSpec == Spec /\ Fairness

-----------------------------------------------------------------------------
\* A running master task of a tight job finds a container on every slave host
\* (sge_give_job sends it when no tag is left, job_report_qmaster.cc 142-146),
\* unless the job is being ended.
SlavesFirst ==
    (kind = "tight" /\ Active(q) /\ ~q.deleted /\ is_pe_master_task_send(q)
       /\ ex[Master(q)].job = "running")
    => \A h \in Slaves(q) : ex[h].job = "slave"

\* The master task of a start order is started once, however often the job is
\* sent and whatever restarts (handle_job ignores a job it has in its list).
RunsOnce == \A r \in Runs : began[r] <= 1

\* A start order leads to one start, after the containers are in place.
StartsRight == SlavesFirst /\ RunsOnce

RunningJobs == {h \in Hosts : ex[h].job = "running"}

\* Two master tasks of the job never run at the same time.
OneInstance == Cardinality(RunningJobs) <= 1

\* A report ends a run, which writes its accounting, only when the master task
\* of that run has ended: a late report of an earlier run on another host is
\* not taken for it (skip_restarted_job). The reports of a host that left the job
\* out of an earlier packet are not covered: see NotBackTooEarly.
EndIsReal ==
    [][(booked' # booked /\ \E g \in Hosts \ silent : up'[g] # up[g])
         => \A h \in RunningJobs : booked'[ex[h].run] = booked[ex[h].run]]_vars

\* A rescheduled job is not ordered to a host that still has it: the RU entries
\* last until the host is done with the earlier run (reschedule.cc 604-607). That
\* is so for jobs on one host, and for hosts that put the job into every packet: a
\* packet flushed for other jobs, or sent before the job came (more of them than
\* MaxUp), ages the entry as well and in the end removes it. The entries of a
\* tight job are gone after one packet.
NotBackTooEarly ==
    [][(run' # run /\ ~Tight(q'))
         => \A h \in ToSet(q'.gdil) \ silent : ex[h].job = "none"]_vars

\* After qmod -rj the job is not started anew while its earlier run still goes
\* on (JDEFERRED_REQ, reschedule.cc 552-567).
DeferredStart ==
    [][(run' # run /\ q.deferred) => RunningJobs = {}]_vars

\* An execd never forgets a running master task or a running parallel task
\* (remove_acked_job_exit takes out what has ended).
RunningNotDropped ==
    [][\A h \in Hosts :
          /\ ex[h].job = "running" => ex'[h].job # "none"
          /\ ex[h].task = "running" => ex'[h].task \in {"running", "exited"}]_vars

\* A tight job whose master task was reported running ends when no slave host
\* has a task left, or after MaxFinish reports of the master task.
FinishWaits ==
    [][(q.status = "running" /\ Tight(q) /\ booked' # booked /\ up' # up)
         => (q.tag[Master(q)] >= MaxFinish \/ \A h \in Slaves(q) : ~HasTask(ex[h]))]_vars

\* A run is booked when it is over on all hosts, and no earlier.
EndsRight == EndIsReal /\ FinishWaits

\* The same for every tight job, as the protocol says (job_report_qmaster.cc
\* 153-169), also when the end of the master task is the first qmaster hears.
TasksEndFirst ==
    [][(Active(q) /\ Tight(q) /\ booked' # booked /\ up' # up)
         => (q.tag[Master(q)] >= MaxFinish \/ \A h \in Slaves(q) : ~HasTask(ex[h]))]_vars

\* A job does not stay in transfer: the resend timer repeats what was lost.
Delivered == q.status = "transfering" ~> q.status # "transfering"

\* A job marked for deletion is removed, also when the signal or its answer is
\* lost or a daemon restarts (pending signals, ACK_SIGNAL_JOB).
Deleted == q.deleted ~> q.status = "gone"

\* A job that qmaster has removed is removed from every host (ACK_SIGNAL_JOB
\* and ACK_JOB_EXIT for jobs qmaster does not know).
HostsClean == q.status = "gone" ~> (q.status = "gone" /\ \A h \in Hosts : ex[h].job = "none")

\* The end of a master task is reported until qmaster acknowledges it, and the
\* host is then free of the job.
ExitSeen == (\E h \in Hosts : ex[h].job = "exited") ~> (\A h \in Hosts : ex[h].job # "exited")

\* Whatever ends, by itself or by qdel, leaves nothing in qmaster or on a host.
CleanedUp == Deleted /\ HostsClean /\ ExitSeen
=============================================================================
