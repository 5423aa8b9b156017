----------------------------- MODULE TimedEvents -----------------------------
(***************************************************************************)
(* The timed events of sge_qmaster (daemons/qmaster/                       *)
(* sge_qmaster_timed_event.cc) and the timer thread that delivers them     *)
(* (sge_timer_main in sge_thread_timer.cc).                                *)
(*                                                                         *)
(* Event_Control is a list sorted by due time, one mutex and one condition *)
(* variable.  Worker threads add and delete events; the timer thread waits *)
(* for the first one, takes it out, gives up the mutex and calls the       *)
(* handler.  A section under the mutex is one step; computing the due time *)
(* (te_new_event, before the mutex) and inserting the event (te_add_event) *)
(* are two.  The list is kept as a set: lInsertSorted puts a new event     *)
(* before those due at the same time, so FirstEvent is determined.         *)
(*                                                                         *)
(* Two clocks: "clock" is real (monotonic) time, which condition_timedwait *)
(* measures; "wall" is what sge_get_gmt64 returns and what due times are   *)
(* written in.  An administrator may set wall back.                        *)
(***************************************************************************)
EXTENDS Integers, FiniteSets

CONSTANTS
    Callers,           \* threads that add and delete events
    Timer,             \* the timer thread
    Keys,              \* keys of the one-time events of one type
    Heartbeat, Tick,   \* the recurring event, the self-rescheduling one
    Delays,            \* after how long a caller's event is due
    HeartbeatInterval, TickInterval, RescheduleDelay,
    MaxTime,           \* bound on the real clock
    MaxCalls,          \* bound on the operations callers start
    MaxBack            \* bound on how far wall is set back in total

ASSUME TimingAssumption ==
    /\ Delays \subseteq Nat \ {0}
    /\ {HeartbeatInterval, TickInterval, RescheduleDelay} \subseteq Nat \ {0}
    /\ {MaxTime, MaxCalls, MaxBack} \subseteq Nat
    /\ Timer \notin Callers \cup Keys \cup {Heartbeat, Tick}
    /\ Heartbeat # Tick /\ {Heartbeat, Tick} \cap Keys = {}

VARIABLES
    list, next, deleted, last, seq_no,   \* Event_Control
    te,          \* the timer thread's copy of the event it waits for or delivers
    timer,       \* where the timer thread is
    deadline,    \* real time at which its timed wait ends
    signalled,   \* the condition variable was signalled while it waits
    call,        \* per thread: the event it is about to add, or NoEvent
    clock, wall, \* real time; sge_get_gmt64()
    shutdown,    \* sge_thread_has_shutdown_started()
    cancel,      \* sge_timer_terminate() has cancelled the thread
    calls, back, dead   \* calls started; total set back; seq numbers deleted

control == <<next, deleted, last, seq_no>>
time == <<clock, wall, back>>
vars == <<list, next, deleted, last, seq_no, te, timer, deadline, signalled,
          call, clock, wall, shutdown, cancel, calls, back, dead>>

EventKeys == Keys \cup {Heartbeat, Tick}
Threads == Callers \cup {Timer}
NoEvent == [key |-> Timer]

\* TE_mode: only the heartbeat of this model is a RECURRING_EVENT.
OneTime(e) == e.key # Heartbeat

\* An event due d from now.  "due" is that moment in real time; "behind"
\* records that wall was behind the timer thread's last look when it was taken.
te_new_event(k, d) ==
    [key |-> k, when |-> wall + d, seq |-> 0, due |-> clock + d,
     behind |-> wall < last]

\* lFirst of the list: earliest due, the latest inserted among equals.
FirstEvent(l) ==
    CHOOSE e \in l : \A f \in l :
        e.when < f.when \/ (e.when = f.when /\ e.seq >= f.seq)

Waiting == timer = "waiting"

\* pthread_cond_signal and _broadcast, lost unless the timer thread waits.
Signal == signalled' = (signalled \/ Waiting)

\* Mutant: the pending events are moved the wrong way.
CheckTimeForward ==
    LET delta == last - wall IN
    IF last > wall THEN {[e EXCEPT !.when = @ + delta] : e \in list} ELSE list

\* te_check_time: all pending events move with a wall clock that was set back.
te_check_time ==
    LET delta == last - wall IN
    IF last > wall THEN {[e EXCEPT !.when = @ - delta] : e \in list} ELSE list

Init ==
    /\ wall = MaxBack + 1
    /\ clock = 0 /\ back = 0 /\ calls = 0 /\ dead = {}
    /\ list = {[key |-> Heartbeat, when |-> wall + HeartbeatInterval, seq |-> 1,
                due |-> HeartbeatInterval, behind |-> FALSE],
               [key |-> Tick, when |-> wall + TickInterval, seq |-> 2,
                due |-> TickInterval, behind |-> FALSE]}
    /\ seq_no = 3
    /\ next = FirstEvent(list).when
    /\ deleted = FALSE /\ last = 0
    /\ te = NoEvent /\ timer = "loop" /\ deadline = 0 /\ signalled = FALSE
    /\ call = [t \in Threads |-> NoEvent]
    /\ shutdown = FALSE /\ cancel = FALSE

-----------------------------------------------------------------------------
(* Adding and deleting events.                                             *)

\* Mutant: the timer thread is only woken when it waits for nothing.
AddWithoutSignal(t) ==
    LET e == [call[t] EXCEPT !.seq = seq_no] IN
    /\ call[t] # NoEvent
    /\ list' = list \cup {e}
    /\ seq_no' = seq_no + 1
    /\ IF next = 0
       THEN next' = e.when /\ Signal
       ELSE UNCHANGED <<next, signalled>>
    /\ call' = [call EXCEPT ![t] = NoEvent]
    /\ timer' = IF t = Timer THEN "cancel" ELSE timer
    /\ UNCHANGED <<deleted, last, te, deadline, shutdown, cancel, calls, dead, time>>

\* te_add_event: insert, and wake the timer thread if this event is the next.
te_add_event(t) ==
    LET e == [call[t] EXCEPT !.seq = seq_no] IN
    /\ call[t] # NoEvent
    /\ list' = list \cup {e}
    /\ seq_no' = seq_no + 1
    /\ IF next = 0 \/ e.when < next
       THEN next' = e.when /\ Signal
       ELSE UNCHANGED <<next, signalled>>
    /\ call' = [call EXCEPT ![t] = NoEvent]
    /\ timer' = IF t = Timer THEN "cancel" ELSE timer
    /\ UNCHANGED <<deleted, last, te, deadline, shutdown, cancel, calls, dead, time>>

\* Mutant: the deletion wakes the timer thread without telling it why.
DeleteUnnoticed(ks) ==
    LET gone == {e \in list : e.key \in ks /\ OneTime(e)} IN
    /\ list' = list \ gone
    /\ dead' = dead \cup {e.seq : e \in gone}
    /\ IF gone # {} THEN Signal ELSE UNCHANGED signalled
    /\ UNCHANGED deleted

\* te_delete_all_or_one_time_event for the events with a key in ks.
DeleteOneTime(ks) ==
    LET gone == {e \in list : e.key \in ks /\ OneTime(e)} IN
    /\ list' = list \ gone
    /\ dead' = dead \cup {e.seq : e \in gone}
    /\ IF gone # {} THEN deleted' = TRUE /\ Signal
                    ELSE UNCHANGED <<deleted, signalled>>

Start(c) ==
    /\ call[c] = NoEvent
    /\ calls < MaxCalls
    /\ calls' = calls + 1
    /\ UNCHANGED <<next, last, seq_no, te, timer, deadline, shutdown, cancel, time>>

\* A caller computes when its event is due ...
New(c, k, d) ==
    /\ Start(c)
    /\ call' = [call EXCEPT ![c] = te_new_event(k, d)]
    /\ UNCHANGED <<list, deleted, signalled, dead>>

\* ... or deletes one event (te_delete_one_time_event) or all of its type
\* (te_delete_all_one_time_events).
Delete(c, ks) ==
    /\ Start(c)
    /\ DeleteOneTime(ks)
    /\ UNCHANGED call

\* sge_reschedule_sharetree_tick: drop the pending tick and queue a fresh one.
\* Called under the global write lock: one caller at a time is in it.
sge_reschedule_sharetree_tick(c) ==
    /\ Start(c)
    /\ \A d \in Callers : call[d].key # Tick
    /\ DeleteOneTime({Tick})
    /\ call' = [call EXCEPT ![c] = te_new_event(Tick, RescheduleDelay)]

-----------------------------------------------------------------------------
(* The timer thread.                                                       *)

\* From te_wait_empty to the wait in te_wait_next or the unlock before the
\* delivery, on the list l.  The wait for an empty list to be filled is not
\* modelled: WakesInTime shows that it is never entered, since the heartbeat is
\* queued before the thread starts and again before each of its loops.
PickFirst(l) ==
    IF l = {}
    THEN /\ next' = 0 /\ list' = l
         /\ timer' = "empty"
         /\ UNCHANGED <<te, deadline, deleted>>
    ELSE LET e == FirstEvent(l) IN
         /\ te' = e
         /\ IF e.when > wall
            THEN /\ next' = e.when /\ deleted' = FALSE /\ list' = l
                 /\ deadline' = clock + (e.when - wall)
                 /\ timer' = "waiting"
            ELSE /\ next' = wall /\ list' = l \ {e}
                 /\ timer' = "deliver"
                 /\ UNCHANGED <<deleted, deadline>>

Loop ==
    /\ timer = "loop"
    /\ last' = wall
    /\ PickFirst(te_check_time)
    /\ UNCHANGED <<seq_no, signalled, call, shutdown, cancel, calls, dead, time>>

\* Mutant: a deletion during the wait is not noticed.
IgnoreDeleted ==
    /\ deadline' = 0
    /\ IF next < te.when
       THEN timer' = (IF shutdown THEN "cancel" ELSE "loop") /\ te' = NoEvent /\ UNCHANGED list
       ELSE timer' = "deliver" /\ list' = list \ {te} /\ UNCHANGED te

\* After te_wait_next: start over if the list changed, else take the event out.
AfterWait ==
    /\ deadline' = 0
    /\ IF next < te.when \/ deleted
       THEN timer' = (IF shutdown THEN "cancel" ELSE "loop") /\ te' = NoEvent /\ UNCHANGED list
       ELSE timer' = "deliver" /\ list' = list \ {te} /\ UNCHANGED te

\* te_wait_next is woken: it waits on unless an earlier event was added, the
\* event is due or the shutdown has started.
WakeWaiting ==
    /\ timer = "waiting" /\ signalled
    /\ signalled' = FALSE
    /\ IF ~shutdown /\ next = te.when /\ te.when > wall
       THEN deadline' = clock + (te.when - wall) /\ UNCHANGED <<timer, list, te>>
       ELSE AfterWait
    /\ UNCHANGED <<control, call, shutdown, cancel, calls, dead, time>>

\* Its timed wait ends.
TimeOut ==
    /\ timer = "waiting" /\ clock >= deadline
    /\ signalled' = FALSE
    /\ AfterWait
    /\ UNCHANGED <<control, call, shutdown, cancel, calls, dead, time>>

\* A wakeup nobody sent, which POSIX allows.
SpuriousWakeup ==
    /\ Waiting /\ ~signalled
    /\ signalled' = TRUE
    /\ UNCHANGED <<list, control, te, timer, deadline, call, shutdown, cancel, calls, dead, time>>

\* te_scan_table_and_deliver calls the handler, unless the shutdown has started.
Deliver ==
    /\ timer = "deliver"
    /\ IF shutdown THEN timer' = "cancel" /\ te' = NoEvent
                   ELSE timer' = "handler" /\ UNCHANGED te
    /\ UNCHANGED <<list, control, deadline, signalled, call, shutdown, cancel, calls, dead, time>>

\* Mutant: the share-tree tick is not queued again.
ForgetTick ==
    /\ timer = "handler"
    /\ te' = NoEvent
    /\ IF te.key = Heartbeat
       THEN /\ call' = [call EXCEPT ![Timer] = te_new_event(Heartbeat, HeartbeatInterval)]
            /\ timer' = "readd"
       ELSE timer' = "cancel" /\ UNCHANGED call
    /\ UNCHANGED <<list, control, deadline, signalled, shutdown, cancel, calls, dead, time>>

\* The handler returns: a recurring event is queued again after its interval,
\* and sge_sharetree_tick_handler ends by queueing the next tick.
HandlerReturns ==
    /\ timer = "handler"
    /\ te' = NoEvent
    /\ IF te.key \in {Heartbeat, Tick}
       THEN /\ call' = [call EXCEPT ![Timer] = te_new_event(te.key,
                          IF te.key = Tick THEN TickInterval ELSE HeartbeatInterval)]
            /\ timer' = "readd"
       ELSE timer' = "cancel" /\ UNCHANGED call
    /\ UNCHANGED <<list, control, deadline, signalled, shutdown, cancel, calls, dead, time>>

\* The cancellation point at the end of the loop, left only while no shutdown
\* has started.
CancellationPoint ==
    /\ timer = "cancel"
    /\ \/ cancel /\ timer' = "ended"
       \/ ~cancel /\ ~shutdown /\ timer' = "loop"
    /\ UNCHANGED <<list, control, te, deadline, signalled, call, shutdown, cancel, calls, dead, time>>

-----------------------------------------------------------------------------
(* Time and shutdown.                                                      *)

TimePasses ==
    /\ clock < MaxTime
    /\ clock' = clock + 1 /\ wall' = wall + 1
    /\ UNCHANGED <<list, control, te, timer, deadline, signalled, call,
                   shutdown, cancel, calls, back, dead>>

SetBack(d) ==
    /\ back + d <= MaxBack
    /\ wall' = wall - d /\ back' = back + d
    /\ UNCHANGED <<list, control, te, timer, deadline, signalled, call,
                   shutdown, cancel, calls, clock, dead>>

ShutdownStarted ==
    /\ ~shutdown
    /\ shutdown' = TRUE
    /\ UNCHANGED <<list, control, te, timer, deadline, signalled, call, cancel, calls, dead, time>>

\* sge_timer_terminate: cancel the thread, then wake it.
sge_timer_terminate ==
    /\ shutdown /\ ~cancel
    /\ cancel' = TRUE
    /\ Signal
    /\ UNCHANGED <<list, control, te, timer, deadline, call, shutdown, calls, dead, time>>

TimerStep ==
    \/ Loop \/ WakeWaiting \/ TimeOut \/ Deliver \/ HandlerReturns
    \/ te_add_event(Timer) \/ CancellationPoint

CallerStep(c) ==
    \/ \E k \in Keys, d \in Delays : New(c, k, d)
    \/ \E ks \in {{k} : k \in Keys} \cup {Keys} : Delete(c, ks)
    \/ sge_reschedule_sharetree_tick(c)
    \/ te_add_event(c)

Next ==
    \/ TimerStep
    \/ \E c \in Callers : CallerStep(c)
    \/ TimePasses
    \/ \E d \in 1 .. MaxBack : SetBack(d)
    \/ SpuriousWakeup
    \/ ShutdownStarted
    \/ sge_timer_terminate

Spec == Init /\ [][Next]_vars

\* The timer thread runs, a started insertion ends, time passes, and a
\* shutdown that has started goes on to stop the timer thread.
FairSpec ==
    /\ Spec
    /\ WF_vars(TimerStep)
    /\ \A c \in Callers : WF_vars(te_add_event(c))
    /\ WF_vars(TimePasses)
    /\ WF_vars(sge_timer_terminate)

-----------------------------------------------------------------------------
(* Properties.                                                             *)

Event == [key : EventKeys, when : Int, seq : Nat, due : Nat, behind : BOOLEAN]

\* Types; only a thread that waits can have been signalled.
TypeOK ==
    /\ list \subseteq Event
    /\ next \in Int /\ deleted \in BOOLEAN /\ last \in Int /\ seq_no \in Nat
    /\ te \in Event \cup {NoEvent}
    /\ timer \in {"loop", "empty", "waiting", "deliver", "handler", "readd", "cancel", "ended"}
    /\ deadline \in Int /\ signalled \in BOOLEAN /\ (signalled => Waiting)
    /\ call \in [Threads -> Event \cup {NoEvent}]
    /\ clock \in Nat /\ wall \in Int /\ back \in Nat /\ calls \in Nat
    /\ shutdown \in BOOLEAN /\ cancel \in BOOLEAN
    /\ dead \subseteq Nat

\* An event somebody deleted while it was queued is never delivered, although
\* the timer thread holds a copy of it during the whole wait (sge_timer_main
\* starts over when Event_Control.deleted is set).
DeletedNotDelivered ==
    timer = "handler" => te.seq \notin dead

\* No event is delivered before its delay has passed in real time, whatever
\* happens to the list and although the clock may be set back; excepted are
\* events whose due time was computed after the clock was set back and before
\* the timer thread noticed, which te_check_time moves as well.
NotBeforeDue ==
    timer = "handler" /\ ~te.behind => clock >= te.due

\* A timer thread that waits and is not about to wake up ends its wait before
\* any queued event is late by more than the clock was set back (te_add_event
\* signals it); it never waits, without a time, for an empty list to be filled.
WakesInTime ==
    /\ timer # "empty"
    /\ timer = "waiting" /\ ~signalled =>
         \A e \in list : deadline <= e.due + back

\* The share-tree tick is never lost: it is queued, being delivered or about
\* to be queued, through every delivery, deletion and reschedule.
TickAlive ==
    ~shutdown =>
        \/ \E e \in list : e.key = Tick
        \/ timer \in {"deliver", "handler"} /\ te.key = Tick
        \/ \E t \in Threads : call[t].key = Tick

\* How the due time of an event in real time and the one in its record differ:
\* its record is never too early, before and after te_check_time moves it.
TimesRight(e) ==
    /\ ~e.behind => e.when >= e.due + wall - clock /\ e.when >= e.due + last - clock
    /\ e.when <= e.due + MaxBack + 1

\* The queued events: sequence numbers identify them, no deleted one is left.
ListRight ==
    /\ IsFiniteSet(list)
    /\ \A e, f \in list : e.seq = f.seq => e = f
    /\ \A e \in list : TimesRight(e) /\ e.seq < seq_no /\ e.seq \notin dead
    /\ \A n \in dead : n < seq_no
    /\ next >= 1

\* The events that threads are about to add.
CallsRight ==
    /\ \A t \in Threads : call[t] # NoEvent =>
          TimesRight(call[t]) /\ call[t].when >= 1
    /\ timer = "readd" <=> call[Timer] # NoEvent

\* During the wait for te the list may change, and next and deleted tell how.
WaitRight ==
    timer = "waiting" =>
        /\ te \in Event /\ TimesRight(te)
        /\ deleted \/ te \in list
        /\ next <= te.when /\ \A e \in list : next <= e.when
        /\ signalled \/ next = te.when
        /\ te.behind \/ te.due <= deadline
        /\ deadline <= te.when - (MaxBack + 1) + back

\* The event that was taken out is in no list, was not deleted and is due.
DeliveryRight ==
    timer \in {"deliver", "handler"} =>
        /\ te \in Event /\ te.seq < seq_no /\ te.seq \notin dead
        /\ \A e \in list : e.seq # te.seq
        /\ \/ te.behind \/ clock >= te.due
           \/ timer = "deliver" /\ shutdown

\* The heartbeat is queued, being delivered or about to be queued again, until
\* the shutdown stops the timer thread.
HeartbeatAlive ==
    \/ \E e \in list : e.key = Heartbeat
    \/ timer \in {"deliver", "handler"} /\ te.key = Heartbeat
    \/ call[Timer].key = Heartbeat
    \/ shutdown /\ timer \in {"cancel", "ended"}

\* The inductive invariant of the timed events.
IInv ==
    /\ TypeOK
    /\ wall = clock + MaxBack + 1 - back /\ back <= MaxBack
    /\ ListRight /\ CallsRight /\ WaitRight /\ DeliveryRight
    /\ HeartbeatAlive /\ timer # "empty" /\ TickAlive

\* The event taken out for delivery is due no later than any other queued one.
InDueOrder ==
    [][timer' = "deliver" /\ timer # "deliver"
         => \A e \in list' : te'.when <= e.when]_vars

\* What the timer thread hands to a handler is wanted, due and first in line,
\* although it picked the event before a wait in which the list may change.
DeliversRight == [](DeletedNotDelivered /\ NotBeforeDue) /\ InDueOrder

\* There is one share-tree tick: rescheduling replaces the pending tick.
OneTickPending ==
    Cardinality({e \in list : e.key = Tick})
      + Cardinality({t \in Threads : call[t].key = Tick}) <= 1

\* Events due early enough before the bound on time all leave the list,
\* delivered or deleted, unless the shutdown comes first.
EventsServed ==
    LET InTime(e) == e.due + MaxBack <= MaxTime IN
    (\E e \in list : InTime(e)) ~> (shutdown \/ ~\E e \in list : InTime(e))

\* A cancelled timer thread ends, wherever the shutdown met it: in a wait, in
\* a handler or on its way to the next wait, where it misses the broadcast and
\* waits for the next event, at most until the next heartbeat.
TimerEnds ==
    (cancel /\ clock + HeartbeatInterval + MaxBack <= MaxTime) ~> timer = "ended"

\* The timer thread serves what is queued (sge_timer_main, te_wait_next) and ends
\* when it is told to (sge_timer_terminate).
TimerServes == EventsServed /\ TimerEnds
=============================================================================
