----------------------------- MODULE ArrayTasks -----------------------------
(***************************************************************************)
(* Array jobs in qmaster.                                                  *)
(*                                                                         *)
(* A task of an array job has an element of its own only from its first    *)
(* start order on (it is enrolled); until then its id is in one or more of *)
(* five range lists of the job: n (no hold), or u, o, s, a for the holds   *)
(* of the user, the operator, the manager and the array dependency         *)
(* (-hold_jid_ad).  Every request that holds, releases, starts, reschedules*)
(* or deletes tasks moves ids between these lists and the elements, and    *)
(* every end of a task releases the jobs and tasks that wait for it.       *)
(*                                                                         *)
(* A range list is the set of its ids here; RangeList models the lists     *)
(* themselves.  The handlers run under the global lock, so one action is   *)
(* one request, order, report or timer tick.  They are composed from       *)
(* operators on one job or on the master job list js, each named after its *)
(* function; an operator on a set of tasks stands for the loop over them.  *)
(***************************************************************************)
EXTENDS Integers, FiniteSetsExt, Functions

CONSTANTS
  Jobs,        \* the jobs that may be submitted
  Lo,          \* the first task of every job
  Confs,       \* what is requested and configured; a behaviour has one of them:
               \*   jobs: the jobs submitted in it, hi: the last task of each
               \*   step: the step of the task range of each job
               \*   jid, ad: the jobs each job names with -hold_jid, -hold_jid_ad
               \*   retention: finished tasks are kept for a while
               \*   ops: bound on the number of qalter and qdel requests
               \*   faults: bound on orders that fail and tasks that are rescheduled
               \*   start: bound on the start orders of one scheduler run
  Targets,     \* the sets of holds that qalter -h, qhold and qrls are used with
  Ranges       \* the sets of tasks that qdel -t is used with

ASSUME ArrayAssumption ==
  /\ Lo \in Nat \ {0}
  /\ \A c \in Confs :
       /\ c.jobs \subseteq Jobs /\ c.hi \in Nat /\ c.hi > Lo
       /\ c.step \in [Jobs -> Nat \ {0}]
       /\ c.jid \in [Jobs -> SUBSET c.jobs] /\ c.ad \in [Jobs -> SUBSET c.jobs]
       /\ c.retention \in BOOLEAN
       /\ c.ops \in Nat /\ c.faults \in Nat /\ c.start \in Nat \ {0}
  /\ Targets \subseteq SUBSET {"u", "o", "s"}

VARIABLES
  jobs,        \* master job list: what qmaster knows of each existing job
  orders,      \* start orders of the last scheduler run not yet followed
  conf,        \* the element of Confs
  submitted,   \* jobs that were submitted
  ended,       \* per job, the tasks that ended: exited, or deleted on request
  told,        \* per job and task, the holds the users were told it has
  ops, faults  \* counters

vars == <<jobs, orders, conf, submitted, ended, told, ops, faults>>

Holds == {"u", "o", "s", "a"}
Lists == {"n"} \cup Holds
Tasks == Lo..conf.hi
Grid(j) == {t \in Tasks : (t - Lo) % conf.step[j] = 0}
Empty == [t \in {} |-> {}]

\* The list f with the element e added for x.
Added(f, x, e) == [y \in DOMAIN f \cup {x} |-> IF y = x THEN e ELSE f[y]]

-----------------------------------------------------------------------------
(* One job: the id lists and the task elements (libs/sgeobj/sge_job.cc).   *)

Listed(job) == UNION {job.ids[k] : k \in Lists}

job_is_enrolled(job, t) == t \notin Listed(job)

job_get_hold_state(job, t) ==
  IF job_is_enrolled(job, t)
  THEN IF t \in DOMAIN job.tasks THEN job.tasks[t].hold ELSE {}
  ELSE {k \in Holds : t \in job.ids[k]}

\* Mutant: the list of tasks without a hold keeps a task that gets one.
SetHoldKeepsN(job, hold) ==
  [job EXCEPT !.ids = [k \in Lists |->
                (IF k = "n" THEN job.ids[k] ELSE job.ids[k] \ DOMAIN hold) \cup
                {t \in Listed(job) \cap DOMAIN hold : k \in hold[t] \/ (k = "n" /\ hold[t] = {})}]]

\* hold gives the new hold state of each task in its domain.
job_set_hold_state(job, hold) ==
  [job EXCEPT
     !.ids = [k \in Lists |->
                (job.ids[k] \ DOMAIN hold) \cup
                {t \in Listed(job) \cap DOMAIN hold : k \in hold[t] \/ (k = "n" /\ hold[t] = {})}],
     !.tasks = [t \in DOMAIN @ |->
                  IF t \in DOMAIN hold /\ job_is_enrolled(job, t)
                  THEN [@[t] EXCEPT !.hold = hold[t]] ELSE @[t]]]

job_enroll(job, t) ==
  [job EXCEPT !.ids.n = @ \ {t}, !.tasks = Added(@, t, [status |-> "idle", hold |-> {}])]

\* Mutant: the element stays when the id goes back to the list.
UnenrollKeepsElement(job, t) == [job EXCEPT !.ids.n = @ \cup {t}]

job_unenroll(job, t) ==
  [job EXCEPT !.ids.n = @ \cup {t}, !.tasks = Restrict(@, DOMAIN @ \ {t})]

job_delete_not_enrolled_ja_task(job, t) ==
  [job EXCEPT !.ids = [k \in Lists |-> job.ids[k] \ {t}]]

job_get_not_enrolled_ja_tasks(job) ==
  Cardinality(job.ids.n) + Cardinality(UNION {job.ids[k] : k \in Holds})

job_get_ja_tasks(job) ==
  job_get_not_enrolled_ja_tasks(job) + Cardinality(DOMAIN job.tasks)

\* The smallest or biggest id without element, as qdel looks for it; 0 stands for
\* no id.  Ids of the last list replace the others.
job_get_extreme_unenrolled_task_id(job, find_min) ==
  LET Extreme(S) == IF S = {} THEN 0 ELSE IF find_min THEN Min(S) ELSE Max(S)
      four == UNION {job.ids[k] : k \in Lists \ {"a"}}
  IN IF job.ids.a = {} THEN Extreme(four)
     ELSE IF four = {} THEN Extreme({0, Extreme(job.ids.a)})
     ELSE Extreme(job.ids.a)

\* The lists qstat prints: the ids that have exactly the holds of each set.
job_create_hold_id_lists(job) ==
  LET u == job.ids.u  o == job.ids.o  s == job.ids.s  a == job.ids.a
      uo == u \cap o  us == u \cap s  ua == u \cap a
      os == o \cap s  oa == o \cap a  sa == s \cap a
      uos == uo \cap os  uoa == uo \cap oa  usa == us \cap sa  osa == os \cap sa
      all == uos \cap uoa
      osaU == osa \ all  usaO == usa \ all  uoaS == uoa \ all  uosA == uos \ all
      saUO == (sa \ usa) \ osaU
      oaU == oa \ uoa
      osU == os \ uos
      uaOS == (ua \ uoa) \ usaO
      usO == us \ uos
  IN [h \in SUBSET Holds |->
        CASE h = {} -> job.ids.n
          [] h = {"u"} -> ((u \ uo) \ usO) \ uaOS
          [] h = {"o"} -> ((o \ uo) \ osU) \ (oaU \ osaU)
          [] h = {"s"} -> ((s \ us) \ osU) \ saUO
          [] h = {"a"} -> ((a \ ua) \ oaU) \ saUO
          [] h = {"u", "o"} -> (uo \ uos) \ uoaS
          [] h = {"u", "s"} -> usO \ usaO
          [] h = {"u", "a"} -> uaOS
          [] h = {"o", "s"} -> osU \ osaU
          [] h = {"o", "a"} -> oaU \ osaU
          [] h = {"s", "a"} -> saUO
          [] h = {"u", "o", "s"} -> uosA
          [] h = {"u", "o", "a"} -> uoaS
          [] h = {"u", "s", "a"} -> usaO
          [] h = {"o", "s", "a"} -> osaU
          [] OTHER -> all]

-----------------------------------------------------------------------------
(* Dependencies between jobs and between tasks (sge_task_depend.cc,        *)
(* sge_job_qmaster.cc, sge_give_jobs.cc).                                  *)

\* The tasks of pre that task t of suc depends on; {} if that cannot be said.
sge_task_depend_get_range(pre, suc, t) ==
  LET Nearest(i) == Lo + ((i - Lo) \div conf.step[pre]) * conf.step[pre]
      max == Nearest(t + conf.step[suc] - 1)
  IN IF (t - Lo) % conf.step[suc] # 0 \/ max > conf.hi THEN {}
     ELSE {x \in Grid(pre) : Nearest(t) <= x /\ x <= max}

task_depend_is_finished(job, t) ==
  /\ job_is_enrolled(job, t)
  /\ t \in DOMAIN job.tasks => job.tasks[t].status = "finished"

\* Task t of job j has to wait for a task of one of the jobs it names.
Depends(js, j, t) ==
  \E p \in js[j].ad \cap DOMAIN js :
    LET range == sge_task_depend_get_range(p, j, t)
    IN range = {} \/ \E x \in range : ~task_depend_is_finished(js[p], x)

\* For the tasks of T that are not finished.
sge_task_depend_update(js, j, T) ==
  job_set_hold_state(js[j],
    [t \in {x \in T : ~task_depend_is_finished(js[j], x)} |->
       IF Depends(js, j, t) THEN job_get_hold_state(js[j], t) \cup {"a"}
       ELSE job_get_hold_state(js[j], t) \ {"a"}])

\* Mutant: the task is left without any hold.
FlushAll(job, j) ==
  IF conf.ad[j] = {} \/ job.ad # {} THEN job
  ELSE job_set_hold_state(job, [t \in job.ids.a \cup DOMAIN job.tasks |-> {}])

\* No array predecessor is left: every hold of the array dependency goes.
sge_task_depend_flush(job, j) ==
  IF conf.ad[j] = {} \/ job.ad # {} THEN job
  ELSE job_set_hold_state(job, [t \in job.ids.a \cup DOMAIN job.tasks |->
                                  job_get_hold_state(job, t) \ {"a"}])

sge_task_depend_init(js, j) ==
  IF conf.ad[j] = {} THEN js
  ELSE [js EXCEPT ![j] = IF @.ad = {} THEN sge_task_depend_flush(@, j)
                         ELSE sge_task_depend_update(js, j, Grid(j))]

Exited(job) == /\ Listed(job) = {}
               /\ \A t \in DOMAIN job.tasks : job.tasks[t].status = "finished"

\* Links a new job with its predecessors and drops those that are gone, for
\* -hold_jid (pre, suc = "jid", "jidsuc") and -hold_jid_ad ("ad", "adsuc").
job_suc_pre_doit(js, j, pre, suc) ==
  LET waits == {p \in js[j][pre] \cap DOMAIN js : ~Exited(js[p])}
  IN [i \in DOMAIN js |-> IF i \in waits THEN [js[i] EXCEPT ![suc] = @ \cup {j}]
                          ELSE IF i = j THEN [js[i] EXCEPT ![pre] = waits]
                          ELSE js[i]]

release_successor_jobs(js, j) ==
  [i \in DOMAIN js |-> IF i \in js[j].jidsuc THEN [js[i] EXCEPT !.jid = @ \ {j}]
                       ELSE js[i]]

\* Mutant: the predecessor is unlinked, the holds are left to the tasks.
UnlinkOnly(js, j) ==
  [i \in DOMAIN js |-> IF i \in js[j].adsuc THEN [js[i] EXCEPT !.ad = @ \ {j}] ELSE js[i]]

release_successor_jobs_ad(js, j) ==
  [i \in DOMAIN js |-> IF i \in js[j].adsuc
                       THEN sge_task_depend_flush([js[i] EXCEPT !.ad = @ \ {j}], i)
                       ELSE js[i]]

release_successor_tasks_ad(js, j, t) ==
  [i \in DOMAIN js |-> IF i \in js[j].adsuc
                       THEN sge_task_depend_update(js, i, sge_task_depend_get_range(i, j, t))
                       ELSE js[i]]

-----------------------------------------------------------------------------
(* The end of a task (sge_give_jobs.cc).                                   *)

\* Mutant: only the second of the two ways to be done.
DoneWhenFinished(job) ==
  /\ job_get_not_enrolled_ja_tasks(job) = 0
  /\ \A x \in DOMAIN job.tasks : job.tasks[x].status = "finished"

\* Nothing of the job is left to do, in the eyes of sge_finish_ja_task.
JobDone(job) ==
  \/ job_get_ja_tasks(job) = 1
  \/ /\ job_get_not_enrolled_ja_tasks(job) = 0
     /\ \A x \in DOMAIN job.tasks : job.tasks[x].status = "finished"

ReleaseIfDone(js, j) == IF JobDone(js[j]) THEN release_successor_jobs(js, j) ELSE js

sge_finish_ja_task(js, j, t) ==
  ReleaseIfDone(release_successor_tasks_ad(release_successor_jobs_ad(js, j), j, t), j)

sge_bury_ja_task(js, j, t) ==
  IF job_get_ja_tasks(js[j]) = 1 THEN Restrict(js, DOMAIN js \ {j})
  ELSE IF job_is_enrolled(js[j], t)
  THEN [js EXCEPT ![j].tasks = Restrict(@, DOMAIN @ \ {t})]
  ELSE [js EXCEPT ![j] = job_delete_not_enrolled_ja_task(@, t)]

sge_bury_job(js, j, t) == sge_bury_ja_task(sge_finish_ja_task(js, j, t), j, t)

\* sge_commit_job(COMMIT_ST_FINISHED_FAILED_EE): an enrolled task is over.
FinishedFailedEE(js, j, t) ==
  LET over == release_successor_tasks_ad([js EXCEPT ![j].tasks[t].status = "finished"], j, t)
  IN IF conf.retention THEN sge_finish_ja_task(over, j, t) ELSE sge_bury_job(over, j, t)

-----------------------------------------------------------------------------
(* Requests, scheduler runs, orders, reports and the sweep.                *)

\* The tasks that have not ended, wherever the job keeps them.
Unfinished(js, j) ==
  IF j \notin DOMAIN js THEN {}
  ELSE Listed(js[j]) \cup {t \in DOMAIN js[j].tasks : js[j].tasks[t].status # "finished"}

Init ==
  /\ conf \in Confs
  /\ jobs = Empty /\ orders = {} /\ submitted = {}
  /\ ended = [j \in Jobs |-> {}]
  /\ told = [j \in Jobs |-> [t \in Grid(j) |-> {}]]
  /\ ops = 0 /\ faults = 0

\* qsub -t: the id lists are set up and the dependencies resolved.
Submit(j) ==
  /\ j \in conf.jobs \ submitted /\ conf.jid[j] \cup conf.ad[j] \subseteq submitted
  /\ LET job == [ids |-> [k \in Lists |-> IF k = "n" THEN Grid(j) ELSE {}],
                 tasks |-> Empty, jid |-> conf.jid[j], jidsuc |-> {},
                 ad |-> conf.ad[j], adsuc |-> {}]
         verified == sge_task_depend_init(Added(jobs, j, job), j)
     IN jobs' = job_suc_pre_doit(job_suc_pre_doit(verified, j, "jid", "jidsuc"), j, "ad", "adsuc")
  /\ submitted' = submitted \cup {j}
  /\ UNCHANGED <<orders, conf, ended, told, ops, faults>>

\* The tasks that split_jobs leaves to the scheduler.
Pending(job) ==
  IF job.jid # {} THEN {}
  ELSE job.ids.n
         \cup {t \in DOMAIN job.tasks : job.tasks[t].status = "idle" /\ job.tasks[t].hold = {}}

\* A scheduler run; the next one waits until the orders of this one are followed.
Schedule ==
  /\ orders = {}
  /\ LET pending == UNION {{[job |-> j, task |-> t, old |-> FALSE] : t \in Pending(jobs[j])} :
                             j \in DOMAIN jobs}
     IN \E S \in SUBSET pending \ {{}} :
          /\ IsFiniteSet(S) /\ Cardinality(S) <= conf.start
          /\ orders' = S
  /\ UNCHANGED <<jobs, conf, submitted, ended, told, ops, faults>>

\* The task of an order, enrolled for it if it has no element yet.
ForOrder(job, t) == IF t \in DOMAIN job.tasks THEN job ELSE job_enroll(job, t)

\* Mutant: the version of the job is not compared.
AppliesToAnyVersion(o) ==
  /\ o.job \in DOMAIN jobs
  /\ o.task \in DOMAIN jobs[o.job].tasks => jobs[o.job].tasks[o.task].status = "idle"

\* An order still applies: the job is there and was not modified, and the task is
\* not under way.
Applies(o) ==
  /\ o.job \in DOMAIN jobs
  /\ ~o.old
  /\ o.task \in DOMAIN jobs[o.job].tasks => jobs[o.job].tasks[o.task].status = "idle"

Deleted(o) ==
  /\ o.task \notin DOMAIN jobs[o.job].tasks
  /\ o.task \notin jobs[o.job].ids.n

\* ORT_start_job.  After a failure the rest of the order list may be skipped.  A
\* queue that its calendar has disabled is a failed delivery, too: the task that
\* was enrolled for the order stays enrolled.
FollowOrder(o) ==
  /\ \/ /\ ~Applies(o)
        /\ orders' \in {{}, orders \ {o}}
        /\ UNCHANGED <<jobs, faults>>
     \/ /\ Applies(o) /\ Deleted(o)
        /\ orders' = orders \ {o}
        /\ UNCHANGED <<jobs, faults>>
     \/ /\ Applies(o) /\ ~Deleted(o)
        /\ orders' = orders \ {o}
        /\ jobs' = [jobs EXCEPT ![o.job] = [ForOrder(@, o.task) EXCEPT
                                              !.tasks[o.task].status = "running"]]
        /\ UNCHANGED faults
     \/ /\ Applies(o) /\ ~Deleted(o) /\ faults < conf.faults     \* delivery failed
        /\ orders' \in {{}, orders \ {o}}
        /\ jobs' = [jobs EXCEPT ![o.job] = ForOrder(@, o.task)]
        /\ faults' = faults + 1
     \/ /\ Applies(o) /\ ~Deleted(o) /\ faults < conf.faults     \* resources are gone
        /\ orders' \in {{}, orders \ {o}}
        /\ jobs' = [jobs EXCEPT ![o.job] =
                      IF o.task \in DOMAIN @.tasks THEN @
                      ELSE job_unenroll(job_enroll(@, o.task), o.task)]
        /\ faults' = faults + 1
  /\ UNCHANGED <<conf, submitted, ended, told, ops>>

Running(j) == {t \in DOMAIN jobs[j].tasks : jobs[j].tasks[t].status = "running"}

\* The report that a task exited.
Finish(j, t) ==
  /\ t \in Running(j)
  /\ jobs' = FinishedFailedEE(jobs, j, t)
  /\ ended' = [ended EXCEPT ![j] = @ \cup {t}]
  /\ UNCHANGED <<orders, conf, submitted, told, ops, faults>>

\* COMMIT_ST_RESCHEDULED: the task keeps its element.
Reschedule(j, t) ==
  /\ faults < conf.faults /\ t \in Running(j)
  /\ jobs' = [jobs EXCEPT ![j].tasks[t].status = "idle"]
  /\ faults' = faults + 1
  /\ UNCHANGED <<orders, conf, submitted, ended, told, ops>>

-----------------------------------------------------------------------------
\* For the tasks of T.
mod_task_attributes(job, T, add, target) ==
  job_set_hold_state(job, [t \in T |-> IF add THEN job_get_hold_state(job, t) \cup target
                                       ELSE job_get_hold_state(job, t) \ target])

\* A request without a task range: the loops over four of the id lists and over
\* the elements miss the tasks that only the array dependency holds.
AllTasks(job) == UNION {job.ids[k] : k \in Lists \ {"a"}} \cup DOMAIN job.tasks

\* qalter -h, for the tasks of T of a job whose tasks have not all finished; its
\* version grows, so that orders of the running scheduler run are obsolete.
ModJob(j, T, add, target) ==
  /\ ops < conf.ops /\ ~Exited(jobs[j])
  /\ jobs' = [jobs EXCEPT ![j] = mod_task_attributes(@, T, add, target)]
  /\ orders' = {[o EXCEPT !.old = @ \/ o.job = j] : o \in orders}
  /\ told' = [told EXCEPT ![j] = [t \in Grid(j) |->
                IF t \notin T \cap Unfinished(jobs, j) THEN @[t]
                ELSE IF add THEN @[t] \cup target ELSE @[t] \ target]]
  /\ ops' = ops + 1
  /\ UNCHANGED <<conf, submitted, ended, faults>>

HoldTask(j, t, add, target) == ModJob(j, {t}, add, target)
HoldAll(j, add, target) == ModJob(j, AllTasks(jobs[j]), add, target)

-----------------------------------------------------------------------------
\* The tasks without element that a request for the tasks R reaches: the loop
\* runs from the smallest to the biggest id that it believes to exist.
Reached(job, R) ==
  {t \in R \cap Listed(job) : /\ job_get_extreme_unenrolled_task_id(job, TRUE) <= t
                              /\ t <= job_get_extreme_unenrolled_task_id(job, FALSE)}

\* A loop of qdel over the tasks of S, with or without an element, in the order
\* of their ids.
DeleteTasks(js, j, S, enrolled) ==
  LET upto[t \in 0..conf.hi] ==
        IF t = 0 THEN js
        ELSE IF t \notin S THEN upto[t - 1]
        ELSE IF enrolled THEN FinishedFailedEE(upto[t - 1], j, t)
        ELSE sge_bury_job(upto[t - 1], j, t)
  IN upto[conf.hi]

\* The two loops of qdel over the ids of tasks without and with an element.  The
\* second one ends before task stop if the request takes too long; it only
\* registers running tasks for deletion.
sge_delete_all_tasks_of_job(js, j, R, stop) ==
  LET pending == Reached(js[j], R)
      idle == {t \in R \cap DOMAIN js[j].tasks : js[j].tasks[t].status = "idle" /\ t < stop}
  IN DeleteTasks(DeleteTasks(js, j, pending, FALSE), j, idle, TRUE)

Qdel(j, R, stop) ==
  /\ ops < conf.ops
  /\ jobs' = sge_delete_all_tasks_of_job(jobs, j, R, stop)
  /\ ended' = [ended EXCEPT ![j] = @ \cup ((Unfinished(jobs, j) \ Unfinished(jobs', j)) \cap R)]
  /\ ops' = ops + 1
  /\ UNCHANGED <<orders, conf, submitted, told, faults>>

\* sge_bury_ja_task for every task t with <<j, t>> in S, all of them finished:
\* each call takes its own element away, and the last one of a job the job.
Pruned(js, S) ==
  LET rest(j) == [js[j] EXCEPT !.tasks = Restrict(@, {t \in DOMAIN @ : <<j, t>> \notin S})]
  IN [j \in {i \in DOMAIN js : job_get_ja_tasks(rest(i)) # 0} |-> rest(j)]

\* The sweep prunes tasks that were kept long enough, or are too many.
Sweep ==
  /\ conf.retention
  /\ LET kept == UNION {{j} \X {t \in DOMAIN jobs[j].tasks : jobs[j].tasks[t].status = "finished"} :
                         j \in DOMAIN jobs}
     IN \E S \in SUBSET kept \ {{}} : jobs' = Pruned(jobs, S)
  /\ UNCHANGED <<orders, conf, submitted, ended, told, ops, faults>>

Next ==
  \/ \E j \in Jobs : Submit(j)
  \/ Schedule
  \/ \E o \in orders : FollowOrder(o)
  \/ \E j \in DOMAIN jobs, t \in Tasks : Finish(j, t) \/ Reschedule(j, t)
  \/ \E j \in DOMAIN jobs, add \in BOOLEAN, target \in Targets :
       HoldAll(j, add, target) \/ \E t \in Grid(j) : HoldTask(j, t, add, target)
  \/ \E j \in DOMAIN jobs, R \in Ranges \cup {Tasks}, stop \in Lo..conf.hi + 1 :
       Qdel(j, R, stop)
  \/ Sweep

Spec == Init /\ [][Next]_vars

\* Weak fairness: the scheduler runs again and again, orders are followed, and tasks
\* exit.  Each conjunct is WF_vars of its action with the guard in place of ENABLED,
\* which TLC cannot evaluate fast enough for the nested operators.
LiveSpec ==
  /\ Spec
  /\ \/ []<>~(orders = {} /\ \E j \in DOMAIN jobs : Pending(jobs[j]) # {})
     \/ []<><<Schedule>>_vars
  /\ \/ []<>(orders = {})
     \/ []<><<\E o \in orders : FollowOrder(o)>>_vars
  /\ \/ []<>~(\E j \in DOMAIN jobs : Running(j) # {})
     \/ []<><<\E j \in DOMAIN jobs, t \in Tasks : Finish(j, t)>>_vars

-----------------------------------------------------------------------------
\* What qmaster keeps of an enrolled task, and of a job.
Element == [status : {"idle", "running", "finished"}, hold : SUBSET Holds]
IsJob(j, job) ==
  /\ job \in [ids : [Lists -> SUBSET Grid(j)], tasks : [DOMAIN job.tasks -> Element],
              jid : SUBSET Jobs, jidsuc : SUBSET Jobs, ad : SUBSET Jobs, adsuc : SUBSET Jobs]
  /\ DOMAIN job.tasks \subseteq Grid(j)
  /\ j \notin job.jid \cup job.jidsuc \cup job.ad \cup job.adsuc

\* The tasks that a set of orders is for.
Ordered(S) == {<<o.job, o.task>> : o \in S}

\* Type invariant: what qmaster keeps of each job, and the orders of one run.
TypeOK ==
  /\ conf \in Confs /\ submitted \subseteq conf.jobs /\ DOMAIN jobs \subseteq submitted
  /\ jobs = [j \in DOMAIN jobs |-> jobs[j]]
  /\ \A j \in DOMAIN jobs : IsJob(j, jobs[j])
  /\ orders \subseteq [job : Jobs, task : Tasks, old : BOOLEAN]
  /\ IsFiniteSet(orders) /\ Cardinality(Ordered(orders)) <= conf.start
  /\ ended \in [Jobs -> SUBSET Tasks] /\ \A j \in Jobs : ended[j] \subseteq Grid(j)
  /\ told = [j \in Jobs |-> told[j]]
  /\ \A j \in Jobs : told[j] \in [Grid(j) -> SUBSET {"u", "o", "s"}]
  /\ ops \in 0..conf.ops /\ faults \in 0..conf.faults

\* The sixteen lists that job_create_hold_id_lists derives by intersections and
\* differences part the tasks without element by the holds they have, and the
\* count of these tasks, which decides about the removal of a job, is right.
HoldListsRight ==
  \A j \in DOMAIN jobs :
    /\ \A h \in SUBSET Holds : job_create_hold_id_lists(jobs[j])[h] =
                                 {t \in Listed(jobs[j]) : job_get_hold_state(jobs[j], t) = h}
    /\ job_get_not_enrolled_ja_tasks(jobs[j]) = Cardinality(Listed(jobs[j]))

\* No task is lost and none is duplicated: a task of a submitted job that neither
\* exited nor was deleted on request is in one place, and a task that ended is
\* in none, except for its retained element.  A job is in the master list as
\* long as a task of it is.
OnePlace ==
  \A j \in submitted :
    /\ ended[j] # Grid(j) => j \in DOMAIN jobs
    /\ j \in DOMAIN jobs =>
         LET job == jobs[j]
         IN /\ \A t \in Grid(j) \ ended[j] :
                 LET in == {k \in Lists : t \in job.ids[k]}
                 IN IF t \in DOMAIN job.tasks
                    THEN in = {} /\ job.tasks[t].status # "finished"
                    ELSE in = {"n"} \/ (in # {} /\ "n" \notin in)
            /\ \A t \in ended[j] :
                 /\ job_is_enrolled(job, t)
                 /\ t \in DOMAIN job.tasks =>
                      conf.retention /\ job.tasks[t].status = "finished"
            /\ job_get_ja_tasks(job) > 0

\* The holds a user set or released with qalter -h, qhold or qrls are exactly the
\* ones the task has, through all later moves between lists and elements, and
\* whatever the array dependency adds or removes.
HoldsKept ==
  \A j \in DOMAIN jobs : \A t \in Unfinished(jobs, j) :
    job_get_hold_state(jobs[j], t) \ {"a"} = told[j][t]

\* Which tasks of a job that job j names task t waits for cannot be said, and the
\* finished tasks of that job may still be there.
OpenRange(j, t) ==
  conf.retention /\ \E p \in conf.ad[j] : sge_task_depend_get_range(p, j, t) = {}

\* A task that the array dependency holds waits for something: one of the
\* predecessors still linked has a task that can end and release it.  Only a task
\* of OpenRange may be held for nothing, and only when its job waits for no
\* predecessor any more.
WaitsForSomething ==
  \A j \in DOMAIN jobs : \A t \in Unfinished(jobs, j) :
    "a" \in job_get_hold_state(jobs[j], t) =>
      \/ jobs[j].ad = {} /\ OpenRange(j, t)
      \/ \E p \in jobs[j].ad \cap DOMAIN jobs : j \in jobs[p].adsuc /\ Unfinished(jobs, p) # {}

Starts(j, t) ==
  /\ j \in DOMAIN jobs /\ j \in DOMAIN jobs'
  /\ t \in DOMAIN jobs'[j].tasks /\ jobs'[j].tasks[t].status = "running"
  /\ t \notin Running(j)

\* A start order that is followed late starts no task the user has put on hold in
\* the meantime, none that ended, and no task of a job while a job it names with
\* -hold_jid has a task left.
StartsFree ==
  [][\A j \in Jobs, t \in Tasks : Starts(j, t) =>
       /\ told[j][t] = {} /\ t \notin ended[j]
       /\ \A p \in conf.jid[j] : ended[p] = Grid(p)]_vars

\* -hold_jid_ad: a task starts only when the corresponding tasks of all jobs named
\* have ended.
DependencyKept ==
  [][\A j \in Jobs, t \in Tasks : Starts(j, t) =>
       \A p \in conf.ad[j] : sge_task_depend_get_range(p, j, t) \subseteq ended[p]]_vars

\* A whole job that is deleted keeps only its running tasks, which are killed.
DeletesAll ==
  [][\A j \in DOMAIN jobs : Qdel(j, Tasks, conf.hi + 1) =>
       Unfinished(jobs', j) \subseteq Running(j)]_vars

\* qhold of an array job without -t puts the hold on all of its tasks.
HoldsAll ==
  [][\A j \in DOMAIN jobs, target \in Targets : HoldAll(j, TRUE, target) =>
       \A t \in Unfinished(jobs', j) : target \subseteq job_get_hold_state(jobs'[j], t)]_vars

\* A task of j that ended, or a task somebody put on hold and left there.
EndedOrHeld(j) ==
  ended[j] = Grid(j) \/ \E i \in Jobs : \E t \in Grid(i) \ ended[i] : told[i][t] # {}

\* Every task of a submitted job ends, unless a task is left on hold: no request,
\* late order, failure or deletion makes the scheduler overlook a task, and no
\* dependency outlives the job or task it is on (sge_finish_ja_task), as long as
\* finished tasks are not retained.
EveryTaskEnds == \A j \in Jobs : j \in submitted /\ ~conf.retention ~> EndedOrHeld(j)

\* The same for every configuration: sge_finish_ja_task is to do the clean-up of
\* the job "when the JB has no more work pending" with retention, too.
RetainedTaskEnds == \A j \in Jobs : j \in submitted ~> EndedOrHeld(j)

-----------------------------------------------------------------------------
(* Why the properties hold: an invariant that every step preserves.        *)

\* The tasks of a job that are listed or have an element.
Present(job) == Listed(job) \cup DOMAIN job.tasks

\* A job of which the tasks E have ended and the users were told the holds T.
TasksRight(j, job, E, T) ==
  /\ IsJob(j, job)
  /\ Listed(job) \cap (E \cup DOMAIN job.tasks) = {}
  /\ \A k \in Holds : job.ids["n"] \cap job.ids[k] = {}
  /\ Grid(j) \subseteq E \cup Present(job)
  /\ \A t \in DOMAIN job.tasks : job.tasks[t].status = "finished" <=> t \in E
  /\ \A t \in Grid(j) \ E : job_get_hold_state(job, t) \ {"a"} = T[t]

\* Elements of tasks that ended are there with retention only, and no job
\* without a task.
JobRight(j, job, E, T) ==
  /\ TasksRight(j, job, E, T)
  /\ conf.retention \/ DOMAIN job.tasks \cap E = {}
  /\ Present(job) # {}

\* When job j waits for no job task by task any more, the array dependency holds
\* none of its tasks but those of OpenRange.
HoldsGone(j, job) ==
  job.ad = {} => \A t \in Present(job) :
                   "a" \in job_get_hold_state(job, t) => OpenRange(j, t)

\* The jobs that a job waits for task by task know of it, and each of them has a
\* task that can end, except for the jobs X, of which a task is just ending.
Linked(js, X) ==
  \A j \in DOMAIN js :
    /\ js[j].ad \subseteq conf.ad[j] \cap DOMAIN js /\ HoldsGone(j, js[j])
    /\ \A p \in js[j].ad : j \in js[p].adsuc /\ (p \in X \/ Unfinished(js, p) # {})

\* The master job list js, of which the jobs sub were submitted: a job leaves it
\* with its last task, and the jobs that name it do not wait for it from then on.
JobsRight(js, sub, E, T) ==
  /\ E \in [Jobs -> SUBSET Tasks] /\ \A j \in Jobs : E[j] \subseteq Grid(j)
  /\ js = [j \in DOMAIN js |-> js[j]] /\ DOMAIN js \subseteq sub /\ sub \subseteq conf.jobs
  /\ \A j \in DOMAIN js : JobRight(j, js[j], E[j], T[j])
  /\ \A j \in sub : E[j] # Grid(j) => j \in DOMAIN js
  /\ \A j \in DOMAIN js : \A p \in conf.jid[j] \ js[j].jid : E[p] = Grid(p)
  /\ Linked(js, {})

\* An order that is not obsolete is for a task without a hold of a job that waits
\* for no other.
OrdersRight ==
  \A o \in orders :
    /\ o.job \in submitted /\ o.task \in Grid(o.job)
    /\ ~o.old /\ o.job \in DOMAIN jobs =>
         /\ jobs[o.job].jid = {}
         /\ o.task \notin ended[o.job] => told[o.job][o.task] = {}

\* A job that was not submitted yet has no history.
NoHistory ==
  \A j \in Jobs \ submitted : ended[j] = {} /\ told[j] = [t \in Grid(j) |-> {}]

\* The inductive invariant of the array jobs.
IInv == TypeOK /\ JobsRight(jobs, submitted, ended, told) /\ OrdersRight /\ NoHistory

=============================================================================
