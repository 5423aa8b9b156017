# TLA+ models of the Cluster Scheduler qmaster

Models, model-checking runs and machine-checked proofs for the parts of the
Cluster Scheduler (Grid Engine) whose correctness rests on the order in which
threads, processes and messages take their steps.  All paths below are relative
to `src/source`.

## The system

`sge_qmaster` keeps all objects (jobs, queues, hosts, users, configuration) in
memory.  Its threads are

| threads | what they do | source |
|---|---|---|
| listeners (4 by default, at most 32) | read messages; serve acknowledgements and triggers themselves; choose a queue for every other request | `daemons/qmaster/sge_qmaster_process_message.cc` |
| workers (4, at most 32) | execute requests and reports on the main data store under `LOCK_GLOBAL` | `daemons/qmaster/sge_thread_worker.cc` |
| readers | answer read requests from a snapshot, the READER data store, under `LOCK_READER` | `daemons/qmaster/sge_thread_reader.cc` |
| mirrors | keep the READER and LISTENER data stores up to date from events | `libs/mir/ocs_MirrorDataStore.cc` |
| event master | numbers events, spools them for each event client and delivers them | `libs/evm/sge_event_master.cc` |
| scheduler | an internal event client that computes orders | `daemons/qmaster/sge_sched_thread.cc` |
| timer, signal | timed events; shutdown | `daemons/qmaster/sge_qmaster_timed_event.cc` |

Around it are `sge_execd` (starts and supervises jobs on a host, through
`sge_shepherd`), `sge_shadowd` (takes over when the qmaster fails), the command
line clients, and external event clients (qevent, DRMAA sessions) which use
`libs/evc` and `libs/mir`.  A client changes something in the qmaster through a
GDI request; every change becomes an event; events reach the mirrors, the
scheduler and the external clients.

`PROJECT.json` lists all components, the unmodelled ones with the reason, and
the hazards at the lines where they bite.  Modelled are

| component | modules | extent |
|---|---|---|
| FIFO reader/writer lock (every named lock of the qmaster) | `FifoLock`, `FifoRWLock`, `FifoLockProofs` | all operations |
| GDI sessions | `SessionReads`, `Lists`, `SessionRequestsProofs`, `SessionChangesProofs`, `SessionReadsProofs` | all operations of `SessionManager` |
| listener, worker, reader, mirror loops | `SessionReads` | the loops and queues; request contents abstract |
| event master, event client library, mirror library | `EventDelivery` | one external client |
| timed events and timer thread | `TimedEvents`, `TimedEventsProofs` | all operations on the event list, both waits, shutdown |
| job delivery between qmaster and execds | `JobDelivery` | one task, serial or parallel, with restarts of both daemons |
| failover by shadow daemons | `ShadowMaster`, `ShadowMasterProofs` | one step per file or network operation |
| array jobs, holds and dependencies, start orders, retention | `ArrayTasks`, `ArrayJobsProofs`, `ArrayTasksProofs` | several jobs of several tasks, one action per request |
| range lists | `RangeList`, `RangeListRight` | pure functions against sets |

They meet where the code does: `SessionReads` uses the abstract lock that
`FifoLock` implements; the resend timers of `JobDelivery` are one-time events of
`TimedEvents`; a start order that `ArrayTasks` follows is the `StartOrder` of
`JobDelivery`; and the id lists of `ArrayTasks`, sets there, are range lists.

## Modules

### FifoLock, FifoRWLock

`FifoLock` models `libs/uti/sge_lock_fifo.cc`.  Every function runs under the
mutex of the lock, so the code between two waits on a condition variable is one
action: `Lock` and `TryLock` up to the first wait or the return, `WakeOutside`
(the loop on `lock->cond`, signalled or spurious), `Dequeue` (the rest of
`sge_fifo_lock_internal` after the thread's own signal) and `Unlock`.
The variables `array`, `head`, `tail` and the six counters are the fields of
`sge_fifo_rw_lock_t`; `pc`, `is_reader`, `index` are where a thread is and its
locals; `hold` is what it holds; `woken` are the threads that
`pthread_cond_signal(&lock->cond)` has unblocked and that have not got the mutex
yet.  `NestedReads` says whether threads take a second read lock.

`FifoRWLock` is the promise: a queue of requests served strictly from its front.
The refinement mapping `WaitQueue` reads the circular array from `head` on.
`SessionReads` uses `FifoRWLock` for `LOCK_GLOBAL` and `LOCK_READER`.

### SessionReads

"Read your writes": readers answer from a snapshot that lags behind.  Every
transaction of events gets a unique id; `SessionManager` keeps the id of each
user's last write and the id up to which the mirror has processed events; a
read request of a user whose write is not in the snapshot waits in
`ReaderWaitingRequestQueue` until the mirror moves it.

The model has the listener (`Send`, `ChooseQueue`, `StoreReader`, `StoreGlobal`,
the triggers it serves itself), the worker's loop, the three steps of a commit
(`TakeUniqueId`, `SetWriteUniqueId`, `AppendRequest`), the event master, the
mirror's loop (`WaitForEvent` ... `ReleaseBusy`), the reader's loop and the
15-minute cleanup.  The choice of a queue and storing the request are separate
steps, as in the code.  A change is its unique id and a data store the set of
changes it holds; a session is its user (`get_session_id` hashes the user name
and is taken to be injective).  `Lists` has the few operators on queues that the
model uses.

### EventDelivery

Delivery to an external event client.  Registration replaces an older
registration of the same client, blocks changes and queues one `_LIST` event
per subscribed list (`sge_add_event_client`, `total_update`, `blockEvents`); the
event master takes the request list in batches and handles request by request
(`ProcessSend`, `ProcessAck`, `ProcessMod`), then makes a delivery round
(`SendReport`, `SendNothing`, `AckTimeout`); the client registers, commits its
subscription, fetches, checks the numbers, acknowledges and applies the events
(`Register`, `Commit`, `Get`, `GetTimeout`).  Acknowledgements are handled by
the listener threads, registrations go through a worker: they can pass each
other when there are two listeners.

A list is the number of changes made to it; a `_LIST` event carries that number
and a change event its own, so the mirror can tell a change that comes too
early, is missing or comes again.  These observations are recorded in `trouble`,
which nothing in the model reads.  `heard` stands for `EV_last_heard_from`: a
timeout takes at least ten minutes and a round one second, so at least one round
passes between hearing from a client and dropping it.

External, modelled from its use: the communication library.  Closing a
connection drops the reports that wait for the client and keeps the messages
that are on their way to the qmaster.

### TimedEvents

`daemons/qmaster/sge_qmaster_timed_event.cc` and the loop of the timer thread.
Every section under the mutex is one step.  A caller computes the due time of an
event before it takes the mutex (`New`) and inserts it afterwards
(`te_add_event`); it deletes one-time events by key (`Delete`) and replaces the
share-tree tick (`sge_reschedule_sharetree_tick`).  The timer thread looks at the
first event (`Loop`), waits (`WakeWaiting`, `TimeOut`, `SpuriousWakeup`),
delivers, and its handler re-arms the recurring heartbeat or queues the
self-rescheduling tick again (`HandlerReturns`).  `clock` is real time, `wall`
the system time the due times are written in, which may be set back; shutdown
and cancellation come at any point.

### JobDelivery

One task of one job on its way through qmaster and the execds of its hosts:
`StartOrder`, `Resend`, `sge_c_job_ack`, the job reports (`sge_c_report` with
the exits, tags and acknowledgements it leads to), `Qdel`, `SignalResend`,
`Reschedule`, `QmasterRestart`; on a host `do_job_exec`, `do_job_slave`,
`handle_task`, `do_acks`, `do_signal_queue`, the exits, `Report`, and
`ExecdRestart`.  `q` is the qmaster's record (status, tags of the slave hosts,
reschedule-unknown lists, timers), `ex[h]` that of a host, `up` and `down` the
messages.  Messages can be lost (`Lose`); a send can fail; either daemon can be
restarted with what it had spooled.  A master task or a parallel task that dies
through a signal is reported as failed, and qmaster then marks the job as deleted
(`Failed`), so that an exit that would reschedule it ends it.  `began` and
`booked` count how often a run was started and booked, `silent` has the hosts that
sent a packet without their reports for the job.

### ShadowMaster

The three shared files (`act_qmaster`, heartbeat, lock), the rounds of the
shadow daemons (`ReadHeartbeat`, `IsLocked` ... `AskAndStart`, one step for each
operation on a file), the start of a qmaster
(`Bind` ... `QmasterInit`), its heartbeat with the check of `act_qmaster`, and
its exit.  Disturbances: a crash, a host that hangs and resumes, an orderly
shutdown, a qmaster started by hand.  Reading and writing the heartbeat file in
`inc_qmaster_heartbeat` is one step.

### ArrayTasks, RangeList, RangeListRight

A task of an array job is an id in one or more of five lists (`n`: no hold; `u`,
`o`, `s`, `a`: the holds of user, operator, manager and array dependency) until
its first start order gives it an element.  `jobs` is the master job list; the
operators on a job or on the list carry the names of the functions.  Actions are
the requests (`Submit`, `HoldTask`, `HoldAll`, `Qdel`), a scheduler run
(`Schedule`), an order (`FollowOrder`: obsolete, for a deleted task, followed,
failed at delivery, failed before it), the end of a task (`Finish`), a
reschedule, and the sweep of retained tasks.  `ended` and `told` record what the
users were told; no action reads them.  An operator on a set of tasks stands for
the loop over them where the order does not matter; the loops of `qdel`, in which
each call may release successors or remove the job, are `DeleteTasks`, a
recursion over the ascending ids.

`RangeList` has the functions of `libs/sgeobj/sge_range.cc` on sequences of
ranges.  `RangeListRight` compares them with the sets of ids, for all sound
lists with ids up to `MaxId`, as assumptions that TLC evaluates when the run
`array_tasks` starts; this is what allows `ArrayTasks` to use sets.

## Runs

| run | instance | shows |
|---|---|---|
| `fifo_lock` | 4 threads, 3 positions | the inductive invariant of the proofs; exclusion, no forgotten waiter, no overtaking; every queued thread is served; the lock implements the fair `FifoRWLock` |
| `session_snapshot` | a command and an execd, 2 workers, triggers, 3 ids | the inductive invariant of the proofs; the snapshot holds every change up to the published id |
| `session_live` | two commands of one user, 2 workers, 1 reader, 2 ids | a read sees the writes of its user that were answered before it was sent; a read that waits while the snapshot is behind its session is answered |
| `event_delivery` | 2 listeners, 2 changes, 2 failures | no change before its list; none missing between two that are applied |
| `event_twice` | 1 listener, all failures, one change of the subscription | no change is applied twice |
| `event_live` | busy until acknowledged, 1 listener, 2 failures (lost acknowledgements and timeouts among them) | the mirror gets to hold what the qmaster holds; the event the client waits for is never purged |
| `timed_events` | one caller, a heartbeat, a tick, the clock set back once | the inductive invariant of the proofs; what is delivered is not deleted, due and first in line; the thread wakes in time; the tick is never lost; every event is served and the thread ends |
| `job_delivery` | a serial job with two runs, a tight job on two hosts, one fault | containers come first and a run starts once; a run is booked when it is over; a rescheduled serial job does not go to a host that still has it, if that host leaves it out of no packet; no execd forgets what runs |
| `job_live` | the same hosts; a serial job with qdel, with and without force, and one fault; a tight job whose tasks are killed when it ends | a job does not stay in transfer; what ends or is deleted leaves nothing in qmaster or on a host |
| `shadow_master` | three hosts, two shadow daemons; crash or shutdown, hang, or a master started by hand | the inductive invariant of the proofs; one takeover at a time and no unexplained lock file; the lock file of an orderly stop stays; a dead master is replaced; two masters do not stay |
| `array_tasks` | one job of four tasks; two jobs with either dependency, with retention or without; tasks with steps; a chain of three jobs | the inductive invariant of the proofs; no task is lost or duplicated; holds are kept; the lists of `qstat` are right; nothing waits for nothing; late orders start nothing they should not; every task ends.  Before, the range lists |

One run ends in a violation; `findings` in `PROJECT.json` quotes what the manual
says.

| run | what the code does |
|---|---|
| `array_depend` | with `-hold_jid_ad` the first task of the predecessor that ends releases all tasks of the successor, since `sge_finish_ja_task` drops the whole array dependency for every task (`daemons/qmaster/sge_give_jobs.cc:1897`) |

Further configurations of the same modules mark the limits of what the passing
runs show.  They are not in the list of runs; each of them ends in a
violation.

| configuration | property | what the code does |
|---|---|---|
| `MCFifoLockTry.cfg` | `TryLockNeverBlocks` | a reader that tries while another queued reader is being woken passes the test and is enqueued |
| `MCFifoLockNested.cfg` | `NestedReadersGoOn` | a second read lock behind a queued writer waits for itself |
| `MCFifoLockOverflow.cfg` | `FreedPositionTaken` | with more threads than positions a thread can be left asleep outside an empty queue |
| `MCSessionTrigger.cfg` | `ReadYourWrites` | a listener trigger beside a write of the same user lets the session's id fall back; a read misses an answered write |
| `MCSessionLostMove.cfg` | `ReadersServed` | a request stored in the waiting queue just after the mirror moved the requests stays there |
| `MCSessionForeign.cfg` | `StaleReadersServed` | an event for another client raises the session's id; the mirror never reaches it |
| `MCSessionCleanup.cfg` | `MissingSessionHasNoWrite` | a session is dropped although the mirror has not reached its write |
| `MCEventStaleReport.cfg` | `EveryChangeSeen` | a report of an earlier registration passes for one of the new one and a change is lost unnoticed |
| `MCEventSublist.cfg` | `ChangesFollowList` | array task events are not held back until the job list went out |
| `MCEventStaleAck.cfg` | `AwaitedEventKept` | with two listeners a late acknowledgement of an earlier registration purges events of the new one |
| `MCEventOldReport.cfg` | `OldReportRefused` | `ck_event_number` logs a report that is too old and accepts it |
| `MCJobFinish.cfg` | `TasksEndFirst` | a slave report that was on its way clears the tag that the end of the master task has set; the job ends with tasks left |
| `MCJobDeferred.cfg` | `DeferredStart` | `qmod -rj` of a job in transfer: the next run can be ordered while the first one starts |
| `MCJobRestart.cfg` | `SlavesFirst` | tags that are spooled late let a restarted qmaster take the job for complete while a slave host has no container |
| `MCJobStart.cfg` | `OneInstance` | an execd that stops between starting the shepherd and noting its pid reports the job as failed while it runs |
| `MCShadowLock.cfg` | `MasterReplaced` | a starting qmaster that finds the old one alive exits and leaves the lock file |
| `MCShadowSpool.cfg` | `SpoolKept` | a displaced master that is shut down by an administrator before it looks at `act_qmaster` does the final spooling |
| `MCArrayQdel.cfg` | `DeletesAll` | `qdel` of a whole job misses ids when the `a` list is not empty: its ends replace those of the other lists (`libs/sgeobj/sge_job.cc:1124`) |
| `MCArrayHold.cfg` | `HoldsAll` | `qhold` of a whole job skips the tasks that only the array dependency holds (`daemons/qmaster/sge_job_qmaster.cc:2024`) |
| `MCArrayRetain.cfg` | `RetainedTaskEnds` | with retention the deletion of the last pending task does not count as the end of the job, and its successors wait (`sge_give_jobs.cc:1918`) |

How far these reach in practice: `MCFifoLockOverflow.cfg` needs more threads than
`FIFO_LOCK_QUEUE_LENGTH`, which `libs/uti/ocs_Bootstrap.cc:310` warns of and the
limits on the thread pools prevent; the only caller of the try lock tries the
write lock, whose test is complete.  A request that is stuck with
`MCSessionLostMove.cfg` or `MCSessionForeign.cfg` goes on with the next change
that anybody makes, since that produces a later event; on an idle cluster there
may be none for a while.  `MCSessionCleanup.cfg` needs a mirror that is 15
minutes behind.  The client of `MCEventStaleAck.cfg` notices the gap and registers
again; the one of `MCEventStaleReport.cfg` does not notice.  It needs a
client-side timeout before anything was acknowledged, which the first synchronous
fetch counts as quickly, because `last_fetch_ok_time` starts at 0
(`libs/evc/sge_event_client.cc:2322`).

Five more limits need no configuration of their own.  With `OneTickPending` as
invariant of `MCTimedEvents.cfg`, TLC finds that a reschedule of the share-tree
tick while its handler runs starts a second chain of ticks.  Without its
exception `jobs[j].ad = {} /\ OpenRange(j, t)`, `WaitsForSomething` fails in the
world `OpenLate` of `MCArrayTasks.cfg`: a task whose range of predecessors is not
known is held although all of them have ended and are retained.  With `MaxMods` = 1 in `MCEventSublist.cfg` and the lists
of `MCEventTwice.cfg`, changes of a list that is subscribed later are not held
back at all.  `NotBackTooEarly` leaves out the hosts in `silent` and tight jobs.
Without the first exception it fails in `MCJobDelivery.cfg`, as `EndIsReal` does:
packets flushed for other jobs age the reschedule-unknown entry of a job that
still runs, although `reschedule.cc:605` says the job is not sent back before it
is sure that it runs there no more.  Without the second it fails as soon as a
tight job has two runs, since one packet, which may have been sent before the
reschedule, takes each of its entries away.  And with `MCQdel` and
`MCLose` for a serial job, `RunningNotDropped` fails: a kill that overtakes a
lost delivery is answered for an unknown job, and the job is delivered again and
its record removed while it runs.

One disagreement shows in the operators alone: `range_list_move_first_n_ids`
breaks out of the loop over one range when it has moved `n` ids, and goes on
with the next range (`libs/sgeobj/sge_range.cc:848`); `MoveFirstRight` therefore
speaks of lists of one range, as a job has before tasks are held or deleted.

### Bounds

* Lock: three positions and four threads make the array wrap, fill up and leave
  a thread outside; two readers and a writer in the queue with a holder are the
  smallest case of the reader chain.  The proofs remove these bounds for safety.
* Sessions: `MaxId` ids are handed out; two are needed for an order of two
  writes, three for a trigger between two.  Two clients and two workers are the
  smallest set in which commits overlap.  `MirrorKeepsUp` excludes a mirror that
  is 15 minutes behind.
* Events: `MaxChanges` = 2 lets a change be missing between two others;
  `MaxReports` = 2 and `MaxMessages` = 2 let reports be fetched together and
  messages pass each other; `MaxFaults` = 2 allows a failure during the recovery
  from another.  `UntilAck = FALSE` (`EV_BUSY_NO_HANDLING`) allows every
  behaviour of `EV_BUSY_UNTIL_ACK` and resending besides, so `event_delivery`
  and `event_twice` use it; `event_live` and the violations use
  `EV_BUSY_UNTIL_ACK`, which is what the clients of the repository set.  The runs
  use the `CQUEUE` list and changes of its sublist, which are blocked as the
  changes of the objects are; `MCEventOldReport.cfg` adds a second list,
  `MCEventSublist.cfg` uses the `JOB` list.
* Timed events: `MaxTime` = 3 covers a heartbeat, a tick and a caller's event
  that are due one after the other and at the same time; `MaxCalls` = 2 an
  addition and a deletion; `MaxBack` = 1 a clock that is set back once.
* Job delivery: two hosts, two runs of a serial job (`MaxRuns`), one fault
  (`MaxFaults`), one report and two messages to a host in flight (`MaxUp`,
  `MaxDown`); `MaxFinish` = 2 stands for the 20 reports after which a tight job
  ends anyway.  `Prompt` (with `Quiet`) says that a message arrives before the
  next timer or load report, which are seconds apart; without it two reports
  that were sent before the delivery arrived take a reschedule-unknown entry
  away.  `NoKillInFlight` sends no signal again while one or its answer is on
  its way.  `Outcomes`, `Ops` and `Faults` are chosen for each kind of job so
  that every action happens in one of the two runs.
* Failover: `HBMax` = 3 and `CheckEvery` = 2 keep what 99999 and 20 have in
  common, a counter that wraps after an odd number and is checked at even ones.
  `IntervalOver`, `InTurn` and `NotRound` state the timing: a shadow daemon's
  interval is longer than a heartbeat interval and than a start; masters beat in
  turn; the counter does not come round within an interval.
* Array jobs: each element of `MCConfs` is a small world with its own bounds on
  requests (`ops`), failures (`faults`) and orders of one scheduler run
  (`start`).  Four tasks and two requests move ids through all lists; two jobs
  of two tasks and one request and one failure are the smallest case of either
  dependency; three tasks against steps of two have a range that is open at
  its end; the chain has both dependencies at once.
* Range lists: `MaxId` = 6 allows steps up to five and an id before, on, between
  and behind those of a range; three ranges in a list give an insertion two neighbours.

Workers and commands of one user are interchangeable where a configuration
declares symmetry; runs with temporal properties declare none, except for
properties that have the form of safety properties.

`timed_events`, `shadow_master` and the array runs do not check for deadlock:
time, failures and requests are bounded, and the system may stop when they are
used up.

### Fairness

* `FifoLock`: a thread that was signalled gets the mutex, a holder gives the
  lock back (critical sections are finite).  Nothing is assumed of threads that
  ask for the lock.
* `SessionReads`: every thread's loop goes on.  Clients need not send anything.
  The event master wakes up every second, and queues for `LOCK_GLOBAL` behind
  the workers like any thread, so weak fairness is enough for it too.
* `EventDelivery`: threads and client go on (a client keeps calling `ec_get`);
  `SendReport` is strongly fair, since `EV_next_send_time` passes; losses and
  premature timeouts are never forced and bounded by `MaxFaults`.  When the
  acknowledgement of a busy client is really missing (`AckMissing`), the
  acknowledge timeout is strongly fair: the clock reaches it, and no message of
  the client moves it.
* `TimedEvents`: the timer thread and a started insertion go on, time passes, a
  shutdown that has started goes on to stop the timer thread.
* `JobDelivery`: each daemon gets to its messages and timers, and a process that
  was sent `SIGKILL` ends; jobs need not end by themselves.  Receiving a report
  and sending a full load report are strongly fair: the load report interval
  passes again and again, and the bound on messages in flight, which keeps
  disabling them, is the model's and not the code's.
* `ShadowMaster`: processes of a host that runs go on, a host that hangs resumes.
* `ArrayTasks`: scheduler runs that find pending tasks, orders and exits of
  running tasks happen in the end; requests, failures and the sweep need not.
  `LiveSpec` writes the three weak fairness conditions with the guard of each
  action in place of `ENABLED`, which TLC evaluates too slowly for the nested
  operators.

## Proofs

The proofs hold for all values of the constants that satisfy the named
assumptions of the modules: any number of threads, clients, hosts, shadow
daemons, callers, jobs and tasks, any length of the lock's queue, any bound on
ids, time, requests and faults.  Each follows the same argument.  `IInv` is an invariant that every step
preserves; a lemma per action (or per stretch of code) shows it; the properties
follow from `IInv`.  The runs check `IInv` on small instances, which is how the
invariants were found and where an error in one shows first.

| theorem | statement |
|---|---|
| `FifoLockProofs` | |
| `Invariance` | `Spec => []IInv` |
| `TypeCorrect` | `Spec => []TypeOK` |
| `WriterIsAlone` | `Spec => []MutualExclusion` |
| `OnlyHeadSignalled` | `Spec => []SignalledIsHead` |
| `WaitersAreNotForgotten` | `Spec => []NoLostWakeup` |
| `NobodyOvertakes` | `Spec => NoOvertaking` |
| `QueueIsLongEnough` | `Spec => []QueueSuffices` |
| `LockIsFifo` | `Spec => ImplementsFifoRWLock` |
| `SessionReadsProofs` | |
| `Invariance` | `Spec => []IInv` |
| `SnapshotIsReached` | `Spec => []SnapshotReached` |
| `PublishedIdGrows` | `Spec => ProcessIdGrows` |
| `ReadersSeeTheirWrites` | `Spec => []ReadYourWrites`, assuming `SessionsReliable` |
| `TimedEventsProofs` | |
| `Invariance` | `Spec => []IInv` |
| `TimerWakesInTime` | `Spec => []WakesInTime` |
| `TickStaysAlive` | `Spec => []TickAlive` |
| `TimerDeliversRight` | `Spec => DeliversRight` |
| `ShadowMasterProofs` | |
| `Invariance` | `Spec => []IInv` |
| `OnlyOneTakesOver` | `Spec => []OneTakesOver` |
| `CreatedLockSticks` | `Spec => StopSticks` |
| `ArrayTasksProofs` | |
| `ArrayInvariance` | `Spec => []IInv` |
| `HoldListsRightAlways` | `Spec => []HoldListsRight` |
| `OnePlaceAlways` | `Spec => []OnePlace` |
| `HoldsKeptAlways` | `Spec => []HoldsKept` |
| `WaitsForSomethingAlways` | `Spec => []WaitsForSomething` |
| `StartsFreeAlways` | `Spec => StartsFree` |

### The lock

None of the safety properties is inductive.  `MutualExclusion` speaks of
threads, while the code decides by counters; so `IInv`
says that the counters count the threads (`CountersMatch`).  A thread that is
woken takes the lock without looking at the counters again; so `Exclusion` says
that a thread is signalled only when the holders leave room for it, and
`SignalsMatch` that the flags in the array and `signaled` agree and concern the
head.  That the head is the thread that was signalled, also when the array wraps,
is `QueueShape`: the queued threads sit one per position from `head` to `tail`.
`HeadKeptOut` gives `NoLostWakeup`.  There is one lemma per stretch of code:
`OverflowStep`, `EnqueueStep` and `DirectStep` for the three ways out of
`LockInternal`, `DequeueStep`, `UnlockStep`; the cardinality lemmas at the top
serve all of them.  `NobodyOvertakes` is an action property that follows from
`IInv` and its next state.

`LockIsFifo` is the refinement, step by step: a request that is enqueued appends
to `WaitQueue`, one that is dequeued takes its front, the holds agree, and all
other steps stutter.  What makes it work is how the circular array is read:
`SlotAt` says that the k-th waiting request is k positions behind `head` modulo
the length, and that enqueueing and dequeueing move nothing else.  The fairness
of the abstract lock stays with TLC.

`TypeOK`, `SignalledIsHead` and `QueueSuffices` follow from `IInv`, which the run
`fifo_lock` checks in their place.

### Sessions

The argument of `SessionReads` goes along the way of a change.  The lock
(`LockRight`, `ModesRight`): a worker that commits is alone, so the id it takes
is larger than those of all changes made and appended before (`CommitsRight`).
The requests (`QueuesRight`, `WorkersRight`, `ReadersRight`): a request is in one
place and with one thread.  The events (`PipelineOrdered`): each list on the way
from the request list of the event master to the mirror ascends, and what is
further on its way has smaller ids; so publishing the last id of a batch is right
for all smaller ones, and no step takes the published id back.
`PipelineComplete`: a change is in the snapshot, on its way, or about to be
appended; with the order this gives `SnapshotReached`.  These parts hold with
listener triggers too, which commit without the lock but change no mirrored list.

`ReadYourWrites` needs what sessions are for: the session of a user stands for
every change the user was told of (`WritesNoted`), so that a request that
`is_uptodate` lets through sees them (`ReadsSee`).  That is true only when no
listener trigger overwrites a session's id with a smaller one and no session is
dropped before the mirror has caught up.  `SessionsReliable` says so, and
`MCSessionTrigger.cfg` and `MCSessionCleanup.cfg` show that the property fails
without either half; the assumption is no weaker than the code needs.

The proof needs induction over the queues in a few places (an element of what is
picked from a sequence, the last one stored, the concatenation of ascending
lists).  The provers cannot instantiate an induction theorem that takes an
operator; `NatSetInduction` states induction for *sets* (a set that has 0 and
with n also n + 1 has all numbers), which they can use.  From it follows
`PickRight`: `Pick`, the selection of a subsequence in `Lists`, exists as a
recursive function and returns the right elements in their order.

The proof is in three modules.  `SessionRequestsProofs` has the requests, queues
and threads, `SessionChangesProofs` the lock, the types and the way of a change;
both take what `Pick` returns as the hypothesis `PicksRight`.
`SessionReadsProofs` proves `PicksRight`, the parts about the sessions, and puts
the steps together.

### Timed events

An event has a due time in real time and a record in system time, which may be
set back and is moved by `te_check_time`; `TimesRight` bounds how far they differ
in either direction.  `WaitRight` says what the waiting timer thread may rely on
although the list changes under it: `next` is at most the time of every queued
event, it is the time of the awaited event unless the thread was signalled, and
the awaited event is still queued unless `deleted` says otherwise.  From it follow
`WakesInTime` (with the bound `back`, by which an event can be late when the clock
was set back while the thread waits) and, through `DeliveryRight`, that what is
delivered is due, not deleted and first.

### Failover

`LockOwned`: the lock file has one owner, a daemon that bids or a qmaster that
starts.  Two masters are kept apart by three different things one after the other
(`MasterShows`): the lock file while the new master starts, the counter of the
heartbeat file between its start-up heartbeat and the entry in `act_qmaster`, and
from then on the name in `act_qmaster`, which is what a daemon asks.

`StopSticks` says of a shutdown that created the lock file itself that the file
stays and that no qmaster that is down is started again.  A shutdown that finds
the lock file of a bidder there (`setup_qmaster.cc:688`) is another matter: the
bidder goes on and takes over, and nothing in the code prevents it.  `StopSticks`
also excludes runs with a qmaster started by hand.  Without that restriction it
is false with a crash, a manual start and a shutdown: the qmaster
started by hand removes the lock file of a daemon whose bid goes on, is shut
down, and the daemon still starts a qmaster.

### Array jobs

The functions of qmaster are proved one by one, bottom up, as they call each
other, and each in terms of the one job or the list it gets.  `ArrayJobsProofs`
has these lemmas; `ArrayTasksProofs` has the loops of `qdel`, one lemma per
action and the theorems.  `TasksRight` says
how a job agrees with its history: every task that has not ended has an id in a
list or an element, never both; no id is both without hold and on hold; an
element is finished exactly when its task has ended; and the holds are the ones
the users were told, apart from that of the array dependency.  `JobRight` adds
that retained elements are there with retention only and that a job has a task,
`JobsRight` that a job leaves the master list with its last task and that a
`-hold_jid` that was taken away stands for a job that is over.

`TasksRight` is not enough while a task ends: `sge_finish_ja_task` and
`sge_bury_ja_task` look at the counts of a job whose task is still there, release
the successors, and only then remove the task.  The predicate `Ending` of the
proofs describes the list in between, and `DoneMeansEnded` is the heart of it: when
the counts say that the job is done, every other task of it has ended, so the
successors are released for good.  The counts add up the sizes of lists that
overlap; `CountsRight` shows that they count each task once.  It is the one fact
about finite sets here: the lemmas of `ArrayJobsProofs` take it as the hypothesis
`CountsTell`, and `CountsAreRight` of `ArrayTasksProofs` discharges it.

`qdel` is a loop over ids in which every call may change the whole list.
`LoopRight` is its invariant, proved with `NatSetInduction`; the set of jobs in
it may shrink when the last task goes.  `Pruned`, the sweep, removes any set of
finished elements at once.

`WaitsForSomething` needs both ends of a link.  `Linked` says that the jobs a job
waits for task by task are in the master list, know of it and have a task that
can end, and that a job without such links has no hold of the array dependency
left (`HoldsGone`), except for tasks of `OpenRange`.  While the last task of a
job ends its successors are unlinked one after the other; `Linked` therefore
takes the set of jobs of which a task is just ending.  A new job is linked in
two passes over the master list, `-hold_jid` and `-hold_jid_ad`; `SubmitRight`
follows them with `LinkJobs` and `LinkTasks`.

`StartsFree` needs to know about orders: one that is not obsolete is for a job
that waits for no other and for a task without a hold (`OrdersRight`), since
every change of holds makes the orders of the job obsolete.  `HoldListsRight` is
set algebra in sixteen cases (`HoldListIs`).

### Only model-checked

Liveness (`QueuedThreadsServed`, `StaleReadersServed`, `MirrorCatchesUp`,
`TimerServes`, `Delivered`, `CleanedUp`, `TakenOver`, `SplitHeals`,
`EveryTaskEnds`) and the fairness of the abstract lock, which are out of the
prover's reach; and the range lists, which are written with recursive operators
that the prover does not take.

The safety properties of `EventDelivery` (`TypeOK`, `ChangesFollowList`,
`EveryChangeSeen`, `NoChangeTwice`, `AwaitedEventKept`) and of `JobDelivery`
(`TypeOK`, `StartsRight`, `EndsRight`, `NotBackTooEarly`, `RunningNotDropped`)
are checked on small instances only.  Both models walk
through lists with `SelectSeq` and `FoldLeft`.  What these return for every list
takes an induction with an operator as parameter, which the provers cannot
instantiate, and `tlapm` does not take `EventDelivery` as it is written.  A proof
would first replace them by recursive functions, as `Pick` does in `Lists`.

## Not modelled

* In `SessionReads`: the LISTENER mirror (the same code without sessions),
  registration and shutdown of the mirrors, failures of
  `sge_mirror_process_event_list`, permission checks.
* In `EventDelivery`: several clients and the reuse of a dynamic id by another
  client, deregistration and the shutdown events, filters (`where`, `what`,
  session), flush times, the mirror's registration after repeated callback
  failures, the scheduler's resynchronisation, 32-bit wrap of event numbers.
* In `TimedEvents`: what the handlers do besides queueing themselves again; the
  spool and sweep events, which are rescheduled as the tick is.
* In `JobDelivery`: usage and accounting records, among them the intermediate
  ones of running jobs, which spool the job once more a day; suspend and
  resume, checkpointing, advance reservations, queue states, failures of the
  start on the host; combinations of two faults.
* In `ShadowMaster`: errors of single file operations and a failing start
  script; that reading and writing the heartbeat file are two operations.
* In `ArrayTasks`: restarts of qmaster, tasks of parallel jobs, `qalter` of the
  dependencies, `qdel -f` and requests with several ranges, submission on hold,
  error states and the limits on task instances (`-tc`, `max_aj_instances`);
  retained tasks counting as instances is a question of those limits.
* The components with status `not_modelled` in `PROJECT.json`, with the reason:
  ticket policy, validation of configuration objects, command line parsing,
  sockets, spooling formats and process control have no small state space or
  are pure input and output; the others are in the plan.

## Plan

1. More proofs: `NoChangeTwice` and `ChangesFollowList` of `EventDelivery`;
   `StartsRight` of `JobDelivery`.
2. More of the system:
   * `TaskQueue` (`libs/uti/sge_tq.cc`): waiting consumers, priorities,
     `sge_tq_move_from_to_if`, termination packets; then in place of the
     sequences of `SessionReads`.
   * `EventDelivery` with two clients, deregistration, shutdown and a small
     width of the event numbers; an abstract specification of a mirror (it shows
     a past state of the list and never goes back) as a refinement.
   * Resource diagrams (`libs/sched/sge_resource_utilization.cc`) against a
     reference definition; the states of advance reservations.
