-------------------------- MODULE TimedEventsProofs --------------------------
(***************************************************************************)
(* Proofs about the timed events of sge_qmaster, for any callers, keys and *)
(* delays, and any number of additions, deletions and clock changes.       *)
(***************************************************************************)
EXTENDS TimedEvents, FiniteSetTheorems, TLAPS

-----------------------------------------------------------------------------
(* Finite sets.                                                            *)

\* A collection that contains the empty set and, with each subset of a finite
\* set S, the subset with one more member, contains S.
LEMMA FiniteSetInduction ==
    ASSUME NEW S, IsFiniteSet(S), NEW C, {} \in C,
           \A T \in SUBSET S : \A x \in S \ T : T \in C => T \cup {x} \in C
    PROVE  S \in C
<1> DEFINE Left == {T \in FiniteSubsetsOf(S) : T \notin C}
<1>1. SUFFICES ASSUME S \notin C PROVE FALSE
  OBVIOUS
<1>2. S \in Left
  BY <1>1 DEF FiniteSubsetsOf
<1>3. PICK T \in Left : \A U \in Left : ~(<<U, T>> \in StrictSubsetOrdering(S))
  <2>1. Left \subseteq FiniteSubsetsOf(S) /\ Left # {}
    BY <1>2
  <2> HIDE DEF Left
  <2> QED BY <2>1, FS_StrictSubsetOrderingWellFounded, WFMin
<1>4. PICK x \in T : TRUE
  BY <1>3
<1>5. /\ T \ {x} \in SUBSET S /\ x \in S \ (T \ {x}) /\ T = (T \ {x}) \cup {x}
      /\ IsFiniteSet(T)
  BY <1>3, <1>4 DEF FiniteSubsetsOf
<1>6. IsFiniteSet(T \ {x})
  BY <1>5, FS_Subset
<1>7. T \ {x} \notin Left
  <2>1. T \ {x} \in SUBSET S /\ T \in SUBSET S /\ T \ {x} \subseteq T /\ T \ {x} # T
    BY <1>3, <1>4, <1>5 DEF FiniteSubsetsOf
  <2> DEFINE U == T \ {x}
  <2> HIDE DEF U
  <2>2. <<U, T>> \in StrictSubsetOrdering(S)
    BY <2>1 DEF StrictSubsetOrdering, U
  <2>3. U \notin Left
    BY <1>3, <2>2
  <2> QED BY <2>3 DEF U
<1>8. T \ {x} \in C
  BY <1>5, <1>6, <1>7 DEF FiniteSubsetsOf
<1> QED BY <1>3, <1>5, <1>8

\* The image of a finite set under a function is finite.
LEMMA FiniteImage ==
    ASSUME NEW S, IsFiniteSet(S), NEW g
    PROVE  IsFiniteSet({g[x] : x \in S})
<1> DEFINE T == {g[x] : x \in S}
           h == [x \in S |-> g[x]]
<1>1. h \in Surjection(S, T)
  BY DEF Surjection
<1> HIDE DEF T, h
<1>2. IsFiniteSet(T)
  BY <1>1, FS_Surjection
<1> QED BY <1>2 DEF T

-----------------------------------------------------------------------------
(* Event records.                                                          *)

\* The fields of an event, and that it is not NoEvent.
LEMMA EventFields ==
    ASSUME NEW e \in Event
    PROVE  /\ e.key \in EventKeys /\ e.when \in Int /\ e.seq \in Nat /\ e.due \in Nat
           /\ e.behind \in BOOLEAN
           /\ e # NoEvent /\ e.key # Timer
BY TimingAssumption DEF Event, EventKeys, NoEvent

\* te_add_event gives an event its sequence number.
LEMMA NumberedEvent ==
    ASSUME NEW e \in Event, NEW n \in Nat
    PROVE  LET f == [e EXCEPT !.seq = n]
           IN  /\ f \in Event /\ f.seq = n /\ f.key = e.key /\ f.when = e.when
               /\ f.due = e.due /\ f.behind = e.behind
BY DEF Event

\* te_check_time moves an event.
LEMMA MovedEvent ==
    ASSUME NEW e \in Event, NEW d \in Int
    PROVE  LET f == [e EXCEPT !.when = @ - d]
           IN  /\ f \in Event /\ f.seq = e.seq /\ f.key = e.key /\ f.when = e.when - d
               /\ f.due = e.due /\ f.behind = e.behind
BY DEF Event

\* The lists of events have a first one, which is due before all others.
LEMMA FirstEventIsFirst ==
    ASSUME NEW l \in SUBSET Event, IsFiniteSet(l), l # {}
    PROVE  FirstEvent(l) \in l /\ \A f \in l : FirstEvent(l).when <= f.when
<1> DEFINE Precedes(e, f) == e.when < f.when \/ (e.when = f.when /\ e.seq >= f.seq)
           HasFirst(T) == T # {} => \E e \in T : \A f \in T : Precedes(e, f)
           C == {T \in SUBSET l : HasFirst(T)}
<1>1. {} \in C
  OBVIOUS
<1>2. ASSUME NEW T \in SUBSET l, NEW x \in l \ T, T \in C PROVE T \cup {x} \in C
  <2>1. CASE T = {}
    BY <2>1 DEF Event
  <2>2. CASE T # {}
    <3>1. PICK e \in T : \A f \in T : Precedes(e, f)
      BY <1>2, <2>2
    <3>2. e \in Event /\ x \in Event /\ \A f \in T : f \in Event
      OBVIOUS
    <3>3. CASE Precedes(e, x)
      BY <3>1, <3>3
    <3>4. CASE ~Precedes(e, x)
      <4>1. \A f \in T : Precedes(x, f)
        BY <3>1, <3>2, <3>4, EventFields
      <4>2. Precedes(x, x)
        BY <3>2, EventFields
      <4> QED BY <4>1, <4>2
    <3> QED BY <3>3, <3>4
  <2> QED BY <2>1, <2>2
<1>3. l \in C
  <2> HIDE DEF C
  <2> QED BY <1>1, <1>2, FiniteSetInduction
<1>4. \E e \in l : \A f \in l : Precedes(e, f)
  BY <1>3
<1>5. FirstEvent(l) \in l /\ \A f \in l : Precedes(FirstEvent(l), f)
  BY <1>4 DEF FirstEvent
<1> QED BY <1>5, EventFields

\* te_check_time keeps the events, and their due times right for the wall clock
\* of this look.
LEMMA CheckTimeRight ==
    ASSUME IInv
    PROVE  /\ te_check_time \in SUBSET Event /\ IsFiniteSet(te_check_time)
           /\ \A e, f \in te_check_time : e.seq = f.seq => e = f
           /\ \A e \in te_check_time :
                 /\ ~e.behind => e.when >= e.due + wall - clock
                 /\ e.when <= e.due + MaxBack + 1
                 /\ e.seq < seq_no /\ e.seq \notin dead
           /\ \A k : (\E e \in list : e.key = k) => \E e \in te_check_time : e.key = k
<1>1. /\ list \in SUBSET Event /\ IsFiniteSet(list) /\ wall \in Int /\ last \in Int
      /\ clock \in Int /\ MaxBack \in Nat /\ seq_no \in Nat
      /\ \A e, f \in list : e.seq = f.seq => e = f
      /\ \A e \in list : TimesRight(e) /\ e.seq < seq_no /\ e.seq \notin dead
  BY TimingAssumption DEF IInv, TypeOK, ListRight
<1>2. CASE ~(last > wall)
  <2>1. te_check_time = list
    BY <1>2 DEF te_check_time
  <2> QED BY <1>1, <2>1 DEF TimesRight
<1>3. CASE last > wall
  <2> DEFINE d == last - wall
             moved(e) == [e EXCEPT !.when = @ - d]
  <2>1. d \in Int /\ te_check_time = {moved(e) : e \in list}
    BY <1>1, <1>3 DEF te_check_time
  <2>2. \A e \in list : /\ moved(e) \in Event /\ moved(e).seq = e.seq
                        /\ moved(e).key = e.key /\ moved(e).when = e.when - d
                        /\ moved(e).due = e.due /\ moved(e).behind = e.behind
    BY <1>1, <2>1, MovedEvent
  <2> HIDE DEF moved
  <2>3. te_check_time \in SUBSET Event
    BY <2>1, <2>2
  <2>4. IsFiniteSet(te_check_time)
    <3> DEFINE g == [e \in list |-> moved(e)]
    <3>1. te_check_time = {g[e] : e \in list}
      BY <2>1
    <3> HIDE DEF g
    <3> QED BY <1>1, <3>1, FiniteImage
  <2>5. \A e, f \in te_check_time : e.seq = f.seq => e = f
    BY <1>1, <2>1, <2>2
  <2>6. ASSUME NEW f \in te_check_time
        PROVE  /\ ~f.behind => f.when >= f.due + wall - clock
               /\ f.when <= f.due + MaxBack + 1
               /\ f.seq < seq_no /\ f.seq \notin dead
    <3>1. PICK e \in list : f = moved(e)
      BY <2>1
    <3>2. TimesRight(e) /\ e.seq < seq_no /\ e.seq \notin dead /\ e \in Event
      BY <1>1
    <3>3. e.when \in Int /\ e.due \in Nat
      BY <3>2, EventFields
    <3> QED BY <1>1, <1>3, <2>2, <3>1, <3>2, <3>3 DEF TimesRight
  <2>7. \A k : (\E e \in list : e.key = k) => \E e \in te_check_time : e.key = k
    BY <2>1, <2>2
  <2> QED BY <2>3, <2>4, <2>5, <2>6, <2>7
<1> QED BY <1>2, <1>3

-----------------------------------------------------------------------------
(* The invariant through the operations of the callers.                    *)

\* A freshly computed event is right, and is not due at time 0.
LEMMA NewEventRight ==
    ASSUME IInv, NEW k \in EventKeys, NEW d \in Nat \ {0}
    PROVE  LET e == te_new_event(k, d)
           IN  e \in Event /\ e.key = k /\ TimesRight(e) /\ e.when >= 1
<1>1. /\ wall \in Int /\ last \in Int /\ clock \in Nat /\ back \in Nat /\ MaxBack \in Nat
      /\ wall = clock + MaxBack + 1 - back /\ back <= MaxBack
  BY TimingAssumption DEF IInv, TypeOK
<1> DEFINE e == te_new_event(k, d)
<1>2. /\ e.key = k /\ e.when = wall + d /\ e.due = clock + d /\ e.behind = (wall < last)
      /\ e \in Event
  BY <1>1 DEF te_new_event, Event
<1>3. e.when >= 1 /\ e.when <= e.due + MaxBack + 1
  BY <1>1, <1>2
<1>4. ~e.behind => e.when >= e.due + wall - clock /\ e.when >= e.due + last - clock
  <2>1. ~e.behind => ~(wall < last)
    BY <1>2, Zenon
  <2> QED BY <1>1, <1>2, <2>1
<1> QED BY <1>2, <1>3, <1>4 DEF TimesRight

\* What signalling the condition variable does.
LEMMA SignalSets ==
    ASSUME Signal
    PROVE  signalled' \in BOOLEAN /\ (signalled' <=> signalled \/ Waiting)
<1>1. CASE signalled \/ Waiting
  BY <1>1 DEF Signal
<1>2. CASE ~(signalled \/ Waiting)
  BY <1>2 DEF Signal
<1> QED BY <1>1, <1>2

\* te_add_event keeps the invariant: the timer thread is woken when the new
\* event is to be delivered before the one it waits for.
LEMMA AddStep ==
    ASSUME IInv, NEW t \in Threads, te_add_event(t)
    PROVE  IInv'
<1> DEFINE e == [call[t] EXCEPT !.seq = seq_no]
<1>0. TypeOK /\ ListRight /\ CallsRight /\ WaitRight /\ DeliveryRight /\ HeartbeatAlive /\ TickAlive
  BY DEF IInv
<1>1. /\ call[t] \in Event /\ TimesRight(call[t]) /\ call[t].when >= 1
      /\ seq_no \in Nat /\ call[t].key # Timer
  BY <1>0, EventFields DEF TypeOK, CallsRight, te_add_event
<1>2. /\ e \in Event /\ e.seq = seq_no /\ e.key = call[t].key /\ e.when = call[t].when
      /\ e.due = call[t].due /\ e.behind = call[t].behind
  BY <1>1, NumberedEvent
<1>3. e.when \in Int /\ e.when >= 1 /\ TimesRight(e)
  BY <1>1, <1>2, EventFields DEF TimesRight
<1>4. /\ list' = list \cup {e} /\ seq_no' = seq_no + 1
      /\ call' = [call EXCEPT ![t] = NoEvent]
      /\ timer' = IF t = Timer THEN "cancel" ELSE timer
      /\ IF next = 0 \/ e.when < next
         THEN next' = e.when /\ Signal
         ELSE UNCHANGED <<next, signalled>>
      /\ UNCHANGED <<deleted, last, te, deadline, shutdown, cancel, calls, dead, clock, wall, back>>
  BY DEF te_add_event, time
<1> HIDE DEF e
<1>5. next \in Int /\ next >= 1
  BY <1>0 DEF TypeOK, ListRight
<1>6. /\ next' \in Int /\ next' >= 1 /\ next' <= next /\ next' <= e.when
      /\ \/ UNCHANGED <<next, signalled>>
         \/ signalled' \in BOOLEAN /\ (signalled' <=> signalled \/ Waiting)
  BY <1>3, <1>4, <1>5, SignalSets
<1>7. t = Timer => timer = "readd"
  BY <1>0, <1>1, EventFields DEF CallsRight
<1>8. signalled' \in BOOLEAN /\ (signalled' => Waiting')
  <2>1. signalled \in BOOLEAN /\ (signalled => Waiting)
    BY <1>0 DEF TypeOK
  <2>2. Waiting => Waiting'
    BY <1>4, <1>7 DEF Waiting
  <2> QED BY <1>6, <2>1, <2>2
<1>9. call' \in [Threads -> Event \cup {NoEvent}]
  BY <1>0, <1>4 DEF TypeOK
<1>10. TypeOK'
  BY <1>0, <1>2, <1>4, <1>6, <1>8, <1>9 DEF TypeOK
<1>11. ListRight'
  <2>1. IsFiniteSet(list')
    BY <1>0, <1>4, FS_AddElement DEF ListRight
  <2>2. \A f, g \in list' : f.seq = g.seq => f = g
    BY <1>0, <1>2, <1>4, EventFields DEF ListRight, TypeOK
  <2>3. \A f \in list' : TimesRight(f)' /\ f.seq < seq_no' /\ f.seq \notin dead'
    BY <1>0, <1>1, <1>2, <1>3, <1>4, EventFields DEF ListRight, TypeOK, TimesRight
  <2>4. \A n \in dead' : n < seq_no'
    BY <1>0, <1>4 DEF ListRight, TypeOK
  <2> QED BY <1>6, <2>1, <2>2, <2>3, <2>4 DEF ListRight
<1>12. CallsRight'
  <2>1. \A s \in Threads :
           (call[s] # NoEvent => TimesRight(call[s]) /\ call[s].when >= 1)'
    BY <1>0, <1>4 DEF CallsRight, TypeOK, TimesRight
  <2>2. timer' = "readd" <=> call'[Timer] # NoEvent
    BY <1>0, <1>4, <1>7 DEF CallsRight, TypeOK, Threads
  <2> QED BY <2>1, <2>2 DEF CallsRight
<1>13. WaitRight'
  <2> SUFFICES ASSUME timer' = "waiting" PROVE WaitRight'
    BY DEF WaitRight
  <2>1. timer = "waiting"
    BY <1>4
  <2>2. te \in Event /\ TimesRight(te)' /\ (deleted' \/ te' \in list')
    BY <1>0, <1>4, <2>1 DEF WaitRight, TimesRight
  <2>3. next' <= te.when /\ \A f \in list' : next' <= f.when
    BY <1>0, <1>4, <1>5, <1>6, <2>1, EventFields DEF WaitRight, TypeOK
  <2>4. signalled' \/ next' = te.when
    <3>1. signalled \/ next = te.when
      BY <1>0, <2>1 DEF WaitRight
    <3> QED BY <1>6, <2>1, <3>1 DEF Waiting
  <2> QED BY <1>0, <1>4, <2>1, <2>2, <2>3, <2>4 DEF WaitRight
<1>14. DeliveryRight'
  BY <1>0, <1>1, <1>2, <1>4, <1>7, EventFields DEF DeliveryRight
<1>15. HeartbeatAlive' /\ TickAlive'
  BY <1>0, <1>2, <1>4, <1>7 DEF HeartbeatAlive, TickAlive, TypeOK, Threads
<1> QED BY <1>4, <1>7, <1>10, <1>11, <1>12, <1>13, <1>14, <1>15 DEF IInv

\* te_delete_all_or_one_time_event: what is left is right, and a timer thread
\* that waits finds out that the list changed.
LEMMA DeleteRight ==
    ASSUME IInv, NEW ks, DeleteOneTime(ks),
           UNCHANGED <<next, last, seq_no, te, timer, deadline, shutdown, clock, wall, back>>
    PROVE  /\ list' \subseteq list /\ dead' \subseteq Nat /\ deleted' \in BOOLEAN
           /\ signalled' \in BOOLEAN /\ (signalled' => Waiting')
           /\ ListRight' /\ WaitRight' /\ DeliveryRight'
           /\ \A e \in list : e.key \notin ks \/ e.key = Heartbeat => e \in list'
<1> DEFINE gone == {e \in list : e.key \in ks /\ OneTime(e)}
<1>0. TypeOK /\ ListRight /\ WaitRight /\ DeliveryRight
  BY DEF IInv
<1>1. /\ list' = list \ gone
      /\ dead' = dead \cup {e.seq : e \in gone}
      /\ IF gone # {} THEN deleted' = TRUE /\ Signal ELSE UNCHANGED <<deleted, signalled>>
  BY DEF DeleteOneTime
<1>2. \A e \in list : e.key \notin ks \/ e.key = Heartbeat => e \in list'
  BY <1>1 DEF OneTime
<1>3. gone \subseteq list
  OBVIOUS
<1> HIDE DEF gone
<1>4. \/ gone = {} /\ UNCHANGED <<deleted, signalled>>
      \/ deleted' = TRUE /\ signalled' \in BOOLEAN /\ (signalled' <=> signalled \/ Waiting)
  BY <1>1, SignalSets
<1>5. list' \subseteq list /\ list \subseteq Event /\ dead' \subseteq Nat
  BY <1>0, <1>1, <1>3, EventFields DEF TypeOK
<1>6. deleted' \in BOOLEAN /\ signalled' \in BOOLEAN /\ (signalled' => Waiting')
  <2>1. signalled \in BOOLEAN /\ deleted \in BOOLEAN /\ (signalled => Waiting)
    BY <1>0 DEF TypeOK
  <2>2. deleted' \in BOOLEAN /\ signalled' \in BOOLEAN
    BY <1>4, <2>1
  <2>3. signalled' => Waiting
    BY <1>4, <2>1
  <2> QED BY <2>2, <2>3 DEF Waiting
<1>7. ListRight'
  <2>1. IsFiniteSet(list')
    BY <1>0, <1>5, FS_Subset DEF ListRight
  <2>2. \A e \in list' : e.seq \notin dead'
    BY <1>0, <1>1, <1>3, <1>5 DEF ListRight
  <2>3. \A e \in list' : TimesRight(e)' /\ e.seq < seq_no'
    BY <1>0, <1>5 DEF ListRight, TimesRight
  <2>4. \A n \in dead' : n < seq_no'
    BY <1>0, <1>1, <1>3 DEF ListRight
  <2> QED BY <1>0, <1>5, <2>1, <2>2, <2>3, <2>4 DEF ListRight
<1>8. WaitRight'
  <2> SUFFICES ASSUME timer' = "waiting" PROVE WaitRight'
    BY DEF WaitRight
  <2>1. /\ te \in Event /\ TimesRight(te) /\ (deleted \/ te \in list)
        /\ next <= te.when /\ (\A e \in list : next <= e.when)
        /\ (signalled \/ next = te.when) /\ (te.behind \/ te.due <= deadline)
        /\ deadline <= te.when - (MaxBack + 1) + back
    BY <1>0 DEF WaitRight
  <2>2. deleted' \/ te' \in list'
    BY <1>1, <1>4, <2>1
  <2>3. signalled' \/ next' = te'.when
    BY <1>4, <2>1 DEF Waiting
  <2>4. TimesRight(te)'
    BY <2>1 DEF TimesRight
  <2> QED BY <1>5, <2>1, <2>2, <2>3, <2>4 DEF WaitRight
<1>9. DeliveryRight'
  BY <1>0, <1>1, <1>3 DEF DeliveryRight
<1> QED BY <1>2, <1>5, <1>6, <1>7, <1>8, <1>9

\* A caller that is about to add an event leaves the other threads' events alone.
LEMMA CallRight ==
    ASSUME IInv, NEW c \in Callers, NEW e \in Event, TimesRight(e), e.when >= 1,
           call[c] = NoEvent, call' = [call EXCEPT ![c] = e],
           UNCHANGED <<timer, last, clock, wall, back>>
    PROVE  /\ call' \in [Threads -> Event \cup {NoEvent}] /\ CallsRight'
           /\ call'[Timer] = call[Timer]
           /\ \A t \in Threads : call[t].key = Tick => call'[t].key = Tick
           /\ call'[c] = e
<1>0. call \in [Threads -> Event \cup {NoEvent}] /\ CallsRight
  BY DEF IInv, TypeOK
<1>1. c \in Threads /\ c # Timer /\ Timer \in Threads
  BY TimingAssumption DEF Threads
<1>2. call[c].key # Tick
  BY TimingAssumption DEF NoEvent
<1>3. \A t \in Threads : (call[t] # NoEvent => TimesRight(call[t]) /\ call[t].when >= 1)'
  BY <1>0, <1>1 DEF CallsRight, TimesRight
<1>4. (timer = "readd" <=> call[Timer] # NoEvent)'
  BY <1>0, <1>1 DEF CallsRight
<1> QED BY <1>0, <1>1, <1>2, <1>3, <1>4 DEF CallsRight

\* te_new_event keeps the invariant: nothing but the caller's own event changes.
LEMMA NewStep ==
    ASSUME IInv, NEW c \in Callers, NEW k \in Keys, NEW d \in Delays, New(c, k, d)
    PROVE  IInv'
<1> DEFINE e == te_new_event(k, d)
<1>1. e \in Event /\ TimesRight(e) /\ e.when >= 1
  BY NewEventRight, TimingAssumption DEF EventKeys
<1>2. /\ call[c] = NoEvent /\ call' = [call EXCEPT ![c] = e] /\ calls' = calls + 1
      /\ UNCHANGED <<list, next, deleted, last, seq_no, te, timer, deadline, signalled,
                     clock, wall, shutdown, cancel, back, dead>>
  BY DEF New, Start, time
<1> HIDE DEF e
<1>3. /\ call' \in [Threads -> Event \cup {NoEvent}] /\ CallsRight'
      /\ call'[Timer] = call[Timer]
      /\ \A t \in Threads : call[t].key = Tick => call'[t].key = Tick
  BY <1>1, <1>2, CallRight
<1>4. TypeOK'
  BY <1>2, <1>3 DEF IInv, TypeOK, Waiting
<1>5. ListRight' /\ WaitRight' /\ DeliveryRight'
  BY <1>2 DEF IInv, ListRight, WaitRight, DeliveryRight, TimesRight
<1>6. HeartbeatAlive' /\ TickAlive'
  BY <1>2, <1>3 DEF IInv, HeartbeatAlive, TickAlive
<1> QED BY <1>2, <1>3, <1>4, <1>5, <1>6 DEF IInv

\* te_delete_one_time_event and te_delete_all_one_time_events keep the
\* invariant: they touch neither the heartbeat nor the tick.
LEMMA DeleteStep ==
    ASSUME IInv, NEW c \in Callers, NEW ks \in SUBSET Keys, Delete(c, ks)
    PROVE  IInv'
<1>1. /\ DeleteOneTime(ks) /\ calls' = calls + 1
      /\ UNCHANGED <<next, last, seq_no, te, timer, deadline, call, clock, wall, shutdown,
                     cancel, back>>
  BY DEF Delete, Start, time
<1>2. /\ list' \subseteq list /\ dead' \subseteq Nat /\ deleted' \in BOOLEAN
      /\ signalled' \in BOOLEAN /\ (signalled' => Waiting')
      /\ ListRight' /\ WaitRight' /\ DeliveryRight'
      /\ \A e \in list : e.key \in {Heartbeat, Tick} => e \in list'
  BY <1>1, DeleteRight, TimingAssumption
<1>3. TypeOK' /\ CallsRight'
  BY <1>1, <1>2 DEF IInv, TypeOK, CallsRight, TimesRight
<1>4. HeartbeatAlive' /\ TickAlive'
  BY <1>1, <1>2 DEF IInv, HeartbeatAlive, TickAlive
<1> QED BY <1>1, <1>2, <1>3, <1>4 DEF IInv

\* sge_reschedule_sharetree_tick keeps the invariant: the caller holds the new
\* tick when it has deleted the pending one.
LEMMA RescheduleStep ==
    ASSUME IInv, NEW c \in Callers, sge_reschedule_sharetree_tick(c)
    PROVE  IInv'
<1> DEFINE e == te_new_event(Tick, RescheduleDelay)
<1>1. e \in Event /\ TimesRight(e) /\ e.when >= 1 /\ e.key = Tick
  BY NewEventRight, TimingAssumption DEF EventKeys
<1>2. /\ DeleteOneTime({Tick}) /\ calls' = calls + 1
      /\ call[c] = NoEvent /\ call' = [call EXCEPT ![c] = e]
      /\ UNCHANGED <<next, last, seq_no, te, timer, deadline, clock, wall, shutdown,
                     cancel, back>>
  BY DEF sge_reschedule_sharetree_tick, Start, time
<1> HIDE DEF e
<1>3. /\ list' \subseteq list /\ dead' \subseteq Nat /\ deleted' \in BOOLEAN
      /\ signalled' \in BOOLEAN /\ (signalled' => Waiting')
      /\ ListRight' /\ WaitRight' /\ DeliveryRight'
      /\ \A f \in list : f.key = Heartbeat => f \in list'
  BY <1>2, DeleteRight
<1>4. /\ call' \in [Threads -> Event \cup {NoEvent}] /\ CallsRight'
      /\ call'[Timer] = call[Timer] /\ call'[c].key = Tick /\ c \in Threads
  BY <1>1, <1>2, CallRight DEF Threads
<1>5. TypeOK'
  BY <1>2, <1>3, <1>4 DEF IInv, TypeOK
<1>6. HeartbeatAlive' /\ TickAlive'
  BY <1>2, <1>3, <1>4 DEF IInv, HeartbeatAlive, TickAlive
<1> QED BY <1>2, <1>3, <1>4, <1>5, <1>6 DEF IInv

-----------------------------------------------------------------------------
(* The invariant through the steps of the timer thread.                    *)

\* te_check_time and the look for the first event keep the invariant: the wait
\* ends when the first event is due, and none is taken out before it is.
LEMMA LoopStep ==
    ASSUME IInv, Loop
    PROVE  IInv'
<1> DEFINE l == te_check_time
           e == FirstEvent(l)
<1>0. /\ TypeOK /\ ListRight /\ CallsRight /\ HeartbeatAlive /\ TickAlive
      /\ wall = clock + MaxBack + 1 - back /\ back <= MaxBack /\ MaxBack \in Nat
  BY TimingAssumption DEF IInv
<1>1. /\ l \in SUBSET Event /\ IsFiniteSet(l)
      /\ \A f, g \in l : f.seq = g.seq => f = g
      /\ \A f \in l : /\ ~f.behind => f.when >= f.due + wall - clock
                      /\ f.when <= f.due + MaxBack + 1
                      /\ f.seq < seq_no /\ f.seq \notin dead
      /\ \A k : (\E f \in list : f.key = k) => \E f \in l : f.key = k
  BY CheckTimeRight
<1>2. /\ timer = "loop" /\ last' = wall /\ PickFirst(l)
      /\ UNCHANGED <<seq_no, signalled, call, shutdown, cancel, calls, dead, clock, wall, back>>
  BY DEF Loop, time
<1>3. ~signalled /\ call[Timer] = NoEvent /\ NoEvent.key = Timer
  BY <1>0, <1>2 DEF TypeOK, Waiting, CallsRight, NoEvent
<1>4. (\E f \in l : f.key = Heartbeat) /\ l # {}
  <2>1. call[Timer].key # Heartbeat
    BY <1>3, TimingAssumption
  <2> QED BY <1>0, <1>1, <1>2, <2>1 DEF HeartbeatAlive
<1>5. e \in l /\ \A f \in l : e.when <= f.when
  BY <1>1, <1>4, FirstEventIsFirst
<1>6. /\ te' = e
      /\ IF e.when > wall
         THEN /\ next' = e.when /\ deleted' = FALSE /\ list' = l
              /\ deadline' = clock + (e.when - wall)
              /\ timer' = "waiting"
         ELSE /\ next' = wall /\ list' = l \ {e}
              /\ timer' = "deliver"
              /\ UNCHANGED <<deleted, deadline>>
  BY <1>2, <1>4 DEF PickFirst
<1> HIDE DEF l, e
<1>7. /\ e \in Event /\ e.when \in Int /\ e.due \in Nat /\ e.seq \in Nat
      /\ list' \subseteq l /\ wall \in Int /\ clock \in Nat /\ back \in Nat /\ wall >= 1
  BY <1>0, <1>1, <1>5, <1>6, EventFields DEF TypeOK
<1>8. TypeOK'
  <2>1. next' \in Int /\ deadline' \in Int
    BY <1>0, <1>6, <1>7 DEF TypeOK
  <2>2. deleted' \in BOOLEAN
    <3>1. deleted' = FALSE \/ deleted' = deleted
      BY <1>6
    <3> QED BY <1>0, <3>1 DEF TypeOK
  <2> QED BY <1>0, <1>1, <1>2, <1>3, <1>6, <1>7, <2>1, <2>2 DEF TypeOK
<1>9. \A f \in l : TimesRight(f)'
  BY <1>1, <1>2 DEF TimesRight
<1>10. ListRight'
  <2>1. IsFiniteSet(list')
    BY <1>1, <1>7, FS_Subset
  <2>2. next' >= 1
    BY <1>6, <1>7
  <2> QED BY <1>0, <1>1, <1>2, <1>7, <1>9, <2>1, <2>2 DEF ListRight
<1>11. CallsRight'
  <2> SUFFICES ASSUME NEW t \in Threads, call[t] # NoEvent
               PROVE  TimesRight(call[t])' /\ call[t].when >= 1
    BY <1>0, <1>2, <1>6 DEF CallsRight
  <2>1. TimesRight(call[t]) /\ call[t].when >= 1 /\ call[t] \in Event
    BY <1>0 DEF CallsRight, TypeOK
  <2> QED BY <1>2, <2>1 DEF TimesRight
<1>12. WaitRight'
  <2> SUFFICES ASSUME timer' = "waiting" PROVE WaitRight'
    BY DEF WaitRight
  <2>1. /\ e.when > wall /\ next' = e.when /\ list' = l
        /\ deadline' = clock + (e.when - wall)
    BY <1>6
  <2>2. te'.behind \/ te'.due <= deadline'
    BY <1>1, <1>5, <1>6, <1>7, <2>1
  <2>3. deadline' <= te'.when - (MaxBack + 1) + back'
    BY <1>0, <1>2, <1>6, <1>7, <2>1
  <2>4. TimesRight(te)'
    BY <1>5, <1>6, <1>9 DEF TimesRight
  <2> QED BY <1>5, <1>6, <1>7, <2>1, <2>2, <2>3, <2>4 DEF WaitRight
<1>13. DeliveryRight'
  <2> SUFFICES ASSUME timer' \in {"deliver", "handler"} PROVE DeliveryRight'
    BY DEF DeliveryRight
  <2>1. e.when <= wall /\ list' = l \ {e}
    BY <1>6, <1>7
  <2>2. e.behind \/ clock >= e.due
    BY <1>1, <1>5, <1>7, <2>1
  <2> QED BY <1>1, <1>2, <1>5, <1>6, <1>7, <2>1, <2>2 DEF DeliveryRight
<1>14. ASSUME NEW k, \E f \in l : f.key = k
       PROVE  \/ \E f \in list' : f.key = k
              \/ timer' \in {"deliver", "handler"} /\ te'.key = k
  BY <1>6, <1>14
<1>15. HeartbeatAlive'
  BY <1>4, <1>14 DEF HeartbeatAlive
<1>16. TickAlive'
  BY <1>0, <1>1, <1>2, <1>14 DEF TickAlive
<1> QED
  BY <1>0, <1>2, <1>6, <1>8, <1>10, <1>11, <1>12, <1>13, <1>15, <1>16 DEF IInv

\* After its wait the timer thread either starts over or takes out the event it
\* waited for, which is still queued, was not deleted and is due.
LEMMA AfterWaitStep ==
    ASSUME IInv, timer = "waiting", AfterWait, signalled' = FALSE,
           UNCHANGED <<control, call, shutdown, cancel, calls, dead, time>>,
           shutdown \/ next # te.when \/ te.when <= wall \/ clock >= deadline
    PROVE  IInv'
<1>0. /\ TypeOK /\ ListRight /\ CallsRight /\ WaitRight /\ HeartbeatAlive /\ TickAlive
      /\ wall = clock + MaxBack + 1 - back /\ back <= MaxBack /\ MaxBack \in Nat
  BY TimingAssumption DEF IInv
<1>1. /\ deadline' = 0
      /\ IF next < te.when \/ deleted
         THEN timer' = (IF shutdown THEN "cancel" ELSE "loop") /\ te' = NoEvent /\ UNCHANGED list
         ELSE timer' = "deliver" /\ list' = list \ {te} /\ UNCHANGED te
      /\ UNCHANGED <<next, deleted, last, seq_no, clock, wall, back>>
  BY DEF AfterWait, control, time
<1>2. /\ te \in Event /\ TimesRight(te) /\ (deleted \/ te \in list) /\ next <= te.when
      /\ te.behind \/ te.due <= deadline
  BY <1>0 DEF WaitRight
<1>3. /\ te.when \in Int /\ te.due \in Nat /\ next \in Int /\ wall \in Int /\ clock \in Int
      /\ deadline \in Int
  BY <1>0, <1>2, EventFields DEF TypeOK
<1>4. call[Timer].key # Heartbeat
  <2>1. call[Timer] = NoEvent
    BY <1>0 DEF CallsRight
  <2> QED BY <2>1, TimingAssumption DEF NoEvent
<1>5. timer' \in {"cancel", "loop", "deliver"} /\ list' \subseteq list
  BY <1>1
<1>6. TypeOK'
  <2>1. signalled' \in BOOLEAN /\ (signalled' => Waiting')
    OBVIOUS
  <2>2. te' \in Event \cup {NoEvent}
    BY <1>1, <1>2
  <2> QED BY <1>0, <1>1, <1>5, <2>1, <2>2 DEF TypeOK
<1>7. ListRight'
  <2>1. IsFiniteSet(list')
    BY <1>0, <1>5, FS_Subset DEF ListRight
  <2> QED BY <1>0, <1>1, <1>5, <2>1 DEF ListRight, TimesRight
<1>8. CallsRight'
  BY <1>0, <1>1, <1>5 DEF CallsRight, TimesRight
<1>9. WaitRight'
  BY <1>5 DEF WaitRight
<1>10. DeliveryRight'
  <2> SUFFICES ASSUME timer' = "deliver" PROVE DeliveryRight'
    BY <1>5 DEF DeliveryRight
  <2>1. next = te.when /\ te \in list /\ list' = list \ {te} /\ te' = te
    BY <1>1, <1>2, <1>3
  <2>2. te.behind \/ clock >= te.due \/ shutdown
    BY <1>2, <1>3, <2>1 DEF TimesRight
  <2> QED BY <1>0, <1>1, <1>2, <2>1, <2>2 DEF DeliveryRight, ListRight
<1>11. ASSUME NEW k, \E f \in list : f.key = k
       PROVE  \/ \E f \in list' : f.key = k
              \/ timer' \in {"deliver", "handler"} /\ te'.key = k
  BY <1>1, <1>11
<1>12. HeartbeatAlive' /\ TickAlive'
  BY <1>0, <1>4, <1>11 DEF HeartbeatAlive, TickAlive
<1> QED BY <1>0, <1>1, <1>5, <1>6, <1>7, <1>8, <1>9, <1>10, <1>12 DEF IInv

\* te_wait_next is woken: it goes on waiting for the same event, or ends.
LEMMA WakeStep ==
    ASSUME IInv, WakeWaiting
    PROVE  IInv'
<1>0. /\ TypeOK /\ ListRight /\ CallsRight /\ WaitRight /\ DeliveryRight
      /\ HeartbeatAlive /\ TickAlive
      /\ wall = clock + MaxBack + 1 - back /\ back <= MaxBack /\ MaxBack \in Nat
  BY TimingAssumption DEF IInv
<1>1. /\ timer = "waiting" /\ signalled' = FALSE
      /\ UNCHANGED <<control, call, shutdown, cancel, calls, dead, time>>
  BY DEF WakeWaiting
<1>2. te \in Event /\ te.when \in Int /\ te.due \in Nat /\ wall \in Int /\ next \in Int
  BY <1>0, <1>1, EventFields DEF WaitRight, TypeOK
<1>3. CASE ~shutdown /\ next = te.when /\ te.when > wall
  <2>1. /\ deadline' = clock + (te.when - wall)
        /\ UNCHANGED <<timer, list, te, next, deleted, last, seq_no, clock, wall, back>>
    BY <1>1, <1>3 DEF WakeWaiting, control, time
  <2>2. TypeOK'
    <3>1. signalled' \in BOOLEAN /\ (signalled' => Waiting')
      BY <1>1
    <3>2. deadline' \in Int
      BY <1>0, <1>2, <2>1 DEF TypeOK
    <3> QED BY <1>0, <1>1, <2>1, <3>1, <3>2 DEF TypeOK
  <2>3. ListRight' /\ CallsRight' /\ DeliveryRight'
    BY <1>0, <1>1, <2>1 DEF ListRight, CallsRight, DeliveryRight, TimesRight
  <2>4. WaitRight'
    <3>1. te.behind \/ te.due <= deadline'
      BY <1>0, <1>1, <1>2, <2>1 DEF WaitRight, TimesRight, TypeOK
    <3>2. deadline' <= te.when - (MaxBack + 1) + back
      BY <1>0, <1>2, <2>1 DEF TypeOK
    <3> QED BY <1>0, <1>1, <1>3, <2>1, <3>1, <3>2 DEF WaitRight, TimesRight
  <2>5. HeartbeatAlive' /\ TickAlive'
    BY <1>0, <1>1, <2>1 DEF HeartbeatAlive, TickAlive
  <2> QED BY <1>0, <1>1, <2>1, <2>2, <2>3, <2>4, <2>5 DEF IInv
<1>4. CASE ~(~shutdown /\ next = te.when /\ te.when > wall)
  <2>1. AfterWait
    BY <1>4 DEF WakeWaiting
  <2>2. shutdown \/ next # te.when \/ te.when <= wall
    BY <1>2, <1>4
  <2> QED BY <1>1, <2>1, <2>2, AfterWaitStep
<1> QED BY <1>3, <1>4

\* The timed wait ends at its deadline.
LEMMA TimeOutStep ==
    ASSUME IInv, TimeOut
    PROVE  IInv'
BY AfterWaitStep DEF TimeOut

\* Spurious wakeups, the delivery, its end and the cancellation point.
LEMMA SpuriousStep ==
    ASSUME IInv, SpuriousWakeup
    PROVE  IInv'
<1>1. /\ signalled' = TRUE /\ timer = "waiting"
      /\ UNCHANGED <<list, next, deleted, last, seq_no, te, timer, deadline, call, shutdown,
                     cancel, calls, dead, clock, wall, back>>
  BY DEF SpuriousWakeup, control, time, Waiting
<1>2. TypeOK'
  BY <1>1 DEF IInv, TypeOK, Waiting
<1>3. ListRight' /\ CallsRight' /\ WaitRight' /\ DeliveryRight'
  BY <1>1 DEF IInv, ListRight, CallsRight, WaitRight, DeliveryRight, TimesRight
<1> QED BY <1>1, <1>2, <1>3 DEF IInv, HeartbeatAlive, TickAlive

\* te_scan_table_and_deliver calls the handler of an event that is due, or
\* after the shutdown none.
LEMMA DeliverStep ==
    ASSUME IInv, Deliver
    PROVE  IInv'
<1>1. /\ timer = "deliver"
      /\ IF shutdown THEN timer' = "cancel" /\ te' = NoEvent
                     ELSE timer' = "handler" /\ UNCHANGED te
      /\ UNCHANGED <<list, next, deleted, last, seq_no, deadline, signalled, call, shutdown,
                     cancel, calls, dead, clock, wall, back>>
  BY DEF Deliver, control, time
<1>2. ~signalled
  BY <1>1 DEF IInv, TypeOK, Waiting
<1>3. TypeOK'
  BY <1>1, <1>2 DEF IInv, TypeOK, Waiting
<1>4. ListRight' /\ CallsRight' /\ WaitRight' /\ DeliveryRight'
  BY <1>1 DEF IInv, ListRight, CallsRight, WaitRight, DeliveryRight, TimesRight
<1>5. HeartbeatAlive' /\ TickAlive'
  BY <1>1 DEF IInv, HeartbeatAlive, TickAlive
<1> QED BY <1>1, <1>3, <1>4, <1>5 DEF IInv

\* When the handler returns, the heartbeat and the tick are about to be queued
\* again.
LEMMA ReturnStep ==
    ASSUME IInv, HandlerReturns
    PROVE  IInv'
<1>0. /\ TypeOK /\ ListRight /\ CallsRight /\ DeliveryRight /\ HeartbeatAlive /\ TickAlive
  BY DEF IInv
<1>1. /\ timer = "handler" /\ te' = NoEvent
      /\ UNCHANGED <<list, next, deleted, last, seq_no, deadline, signalled, shutdown, cancel,
                     calls, dead, clock, wall, back>>
  BY DEF HandlerReturns, control, time
<1>2. ~signalled /\ call[Timer] = NoEvent /\ te.key \in EventKeys
  BY <1>0, <1>1, EventFields DEF TypeOK, Waiting, CallsRight, DeliveryRight
<1>3. Timer \in Threads /\ NoEvent.key \notin {Heartbeat, Tick}
  BY TimingAssumption DEF Threads, NoEvent
<1>4. CASE te.key \in {Heartbeat, Tick}
  <2> DEFINE d == IF te.key = Tick THEN TickInterval ELSE HeartbeatInterval
             e == te_new_event(te.key, d)
  <2>1. e \in Event /\ e.key = te.key /\ TimesRight(e) /\ e.when >= 1
    <3>1. d \in Nat \ {0}
      BY TimingAssumption
    <3> HIDE DEF d
    <3> QED BY <1>2, <3>1, NewEventRight
  <2>2. call' = [call EXCEPT ![Timer] = e] /\ timer' = "readd"
    BY <1>4 DEF HandlerReturns
  <2> HIDE DEF e
  <2>3. TypeOK'
    BY <1>0, <1>1, <1>2, <2>1, <2>2 DEF TypeOK
  <2>4. CallsRight'
    <3>1. \A s \in Threads : (call[s] # NoEvent => TimesRight(call[s]) /\ call[s].when >= 1)'
      BY <1>0, <1>1, <1>3, <2>1, <2>2 DEF CallsRight, TypeOK, TimesRight
    <3>2. (timer = "readd" <=> call[Timer] # NoEvent)'
      BY <1>0, <1>3, <2>1, <2>2, EventFields DEF TypeOK
    <3> QED BY <3>1, <3>2 DEF CallsRight
  <2>5. ListRight' /\ WaitRight' /\ DeliveryRight'
    BY <1>0, <1>1, <2>2 DEF ListRight, WaitRight, DeliveryRight, TimesRight
  <2>6. call'[Timer].key = te.key /\ \A s \in Threads : s # Timer => call'[s] = call[s]
    BY <1>0, <1>3, <2>1, <2>2 DEF TypeOK
  <2>7. HeartbeatAlive' /\ TickAlive'
    BY <1>0, <1>1, <1>2, <1>3, <2>2, <2>6 DEF HeartbeatAlive, TickAlive
  <2> QED BY <1>1, <2>2, <2>3, <2>4, <2>5, <2>7 DEF IInv
<1>5. CASE te.key \notin {Heartbeat, Tick}
  <2>1. timer' = "cancel" /\ call' = call
    BY <1>5 DEF HandlerReturns
  <2>2. TypeOK' /\ CallsRight'
    BY <1>0, <1>1, <1>2, <2>1 DEF TypeOK, CallsRight, TimesRight
  <2>3. ListRight' /\ WaitRight' /\ DeliveryRight'
    BY <1>0, <1>1, <2>1 DEF ListRight, WaitRight, DeliveryRight, TimesRight
  <2>4. HeartbeatAlive' /\ TickAlive'
    BY <1>0, <1>1, <1>5, <2>1 DEF HeartbeatAlive, TickAlive
  <2> QED BY <1>1, <2>1, <2>2, <2>3, <2>4 DEF IInv
<1> QED BY <1>4, <1>5

\* At its cancellation point the timer thread goes back to its loop, or ends.
LEMMA CancelStep ==
    ASSUME IInv, CancellationPoint
    PROVE  IInv'
<1>1. /\ timer = "cancel" /\ (timer' = "ended" \/ (~shutdown /\ timer' = "loop"))
      /\ UNCHANGED <<list, next, deleted, last, seq_no, te, deadline, signalled, call, shutdown,
                     cancel, calls, dead, clock, wall, back>>
  BY DEF CancellationPoint, control, time
<1>2. ~signalled
  BY <1>1 DEF IInv, TypeOK, Waiting
<1>3. TypeOK'
  BY <1>1, <1>2 DEF IInv, TypeOK
<1>4. ListRight' /\ CallsRight' /\ WaitRight' /\ DeliveryRight'
  BY <1>1 DEF IInv, ListRight, CallsRight, WaitRight, DeliveryRight, TimesRight
<1>5. HeartbeatAlive' /\ TickAlive'
  BY <1>1 DEF IInv, HeartbeatAlive, TickAlive
<1> QED BY <1>1, <1>3, <1>4, <1>5 DEF IInv

-----------------------------------------------------------------------------
(* The invariant when time passes, the clock is set back, and at shutdown. *)

\* Setting the clock back only moves the due times of the records further away.
LEMMA TimeStep ==
    ASSUME IInv, TimePasses \/ \E d \in 1 .. MaxBack : SetBack(d)
    PROVE  IInv'
<1>0. /\ TypeOK /\ ListRight /\ CallsRight /\ WaitRight /\ DeliveryRight
      /\ wall = clock + MaxBack + 1 - back /\ back <= MaxBack /\ MaxBack \in Nat
      /\ wall \in Int /\ clock \in Nat /\ back \in Nat /\ last \in Int
  BY TimingAssumption DEF IInv, TypeOK
<1>1. /\ clock' \in Nat /\ back' \in Nat /\ wall' \in Int /\ clock' >= clock /\ back' >= back
      /\ wall' = clock' + MaxBack + 1 - back' /\ back' <= MaxBack
      /\ wall' - clock' <= wall - clock
  BY <1>0 DEF TimePasses, SetBack
<1>2. UNCHANGED <<list, next, deleted, last, seq_no, te, timer, deadline, signalled, call,
                  shutdown, cancel, calls, dead>>
  BY DEF TimePasses, SetBack, control
<1>3. TypeOK'
  BY <1>0, <1>1, <1>2 DEF TypeOK, Waiting
<1>4. \A e \in Event : TimesRight(e) => TimesRight(e)'
  BY <1>0, <1>1, <1>2, EventFields DEF TimesRight
<1>5. ListRight'
  BY <1>0, <1>2, <1>4 DEF ListRight, TypeOK
<1>6. CallsRight'
  <2> SUFFICES ASSUME NEW t \in Threads, call[t] # NoEvent
               PROVE  TimesRight(call[t])' /\ call[t].when >= 1
    BY <1>0, <1>2 DEF CallsRight
  <2>1. call[t] \in Event /\ TimesRight(call[t]) /\ call[t].when >= 1
    BY <1>0 DEF CallsRight, TypeOK
  <2> QED BY <1>2, <1>4, <2>1 DEF TimesRight
<1>7. WaitRight'
  <2> SUFFICES ASSUME timer = "waiting" PROVE WaitRight'
    BY <1>2 DEF WaitRight
  <2>1. te \in Event /\ te.when \in Int /\ deadline \in Int
    BY <1>0, EventFields DEF WaitRight, TypeOK
  <2>2. TimesRight(te)'
    BY <1>0, <1>2, <1>4, <2>1 DEF WaitRight, TimesRight
  <2>3. deadline' <= te'.when - (MaxBack + 1) + back'
    BY <1>0, <1>1, <1>2, <2>1 DEF WaitRight
  <2> QED BY <1>0, <1>2, <2>2, <2>3 DEF WaitRight
<1>8. DeliveryRight'
  BY <1>0, <1>1, <1>2, EventFields DEF DeliveryRight
<1>9. HeartbeatAlive' /\ TickAlive' /\ timer' # "empty"
  BY <1>2 DEF IInv, HeartbeatAlive, TickAlive
<1> QED BY <1>1, <1>3, <1>5, <1>6, <1>7, <1>8, <1>9 DEF IInv

\* The shutdown of the timer thread keeps the invariant: it leaves the list alone.
LEMMA ShutdownStep ==
    ASSUME IInv, ShutdownStarted \/ sge_timer_terminate
    PROVE  IInv'
<1>0. TypeOK
  BY DEF IInv
<1>1. /\ UNCHANGED <<list, next, deleted, last, seq_no, te, timer, deadline, call, calls, dead,
                     clock, wall, back>>
      /\ shutdown => shutdown'
  BY DEF ShutdownStarted, sge_timer_terminate, control, time
<1>2. signalled' \in BOOLEAN /\ (signalled' => Waiting') /\ (signalled => signalled')
  <2>1. signalled \in BOOLEAN /\ (signalled => Waiting)
    BY <1>0 DEF TypeOK
  <2>2. UNCHANGED signalled \/ (signalled' \in BOOLEAN /\ (signalled' <=> signalled \/ Waiting))
    BY SignalSets DEF ShutdownStarted, sge_timer_terminate
  <2> QED BY <1>1, <2>1, <2>2 DEF Waiting
<1>3. shutdown' \in BOOLEAN /\ cancel' \in BOOLEAN
  <2>1. shutdown' = TRUE \/ shutdown' = shutdown
    BY DEF ShutdownStarted, sge_timer_terminate
  <2>2. cancel' = TRUE \/ cancel' = cancel
    BY DEF ShutdownStarted, sge_timer_terminate
  <2> QED BY <1>0, <2>1, <2>2 DEF TypeOK
<1>4. TypeOK'
  BY <1>0, <1>1, <1>2, <1>3 DEF TypeOK
<1>5. ListRight' /\ CallsRight' /\ WaitRight' /\ DeliveryRight'
  BY <1>1, <1>2 DEF IInv, ListRight, CallsRight, WaitRight, DeliveryRight, TimesRight
<1>6. HeartbeatAlive' /\ TickAlive'
  BY <1>1 DEF IInv, HeartbeatAlive, TickAlive
<1> QED BY <1>1, <1>4, <1>5, <1>6 DEF IInv

-----------------------------------------------------------------------------
(* The theorems.                                                           *)

\* At the start the heartbeat and the tick are queued and nobody waits.
LEMMA InitIInv ==
    ASSUME Init
    PROVE  IInv
<1> DEFINE h == [key |-> Heartbeat, when |-> wall + HeartbeatInterval, seq |-> 1,
                 due |-> HeartbeatInterval, behind |-> FALSE]
           k == [key |-> Tick, when |-> wall + TickInterval, seq |-> 2,
                 due |-> TickInterval, behind |-> FALSE]
<1>1. /\ wall = MaxBack + 1 /\ clock = 0 /\ back = 0 /\ calls = 0 /\ dead = {}
      /\ list = {h, k} /\ seq_no = 3 /\ next = FirstEvent(list).when
      /\ deleted = FALSE /\ last = 0 /\ te = NoEvent /\ timer = "loop" /\ deadline = 0
      /\ signalled = FALSE /\ call = [t \in Threads |-> NoEvent]
      /\ shutdown = FALSE /\ cancel = FALSE
  BY DEF Init
<1>2. MaxBack \in Nat /\ HeartbeatInterval \in Nat \ {0} /\ TickInterval \in Nat \ {0}
  BY TimingAssumption
<1>3. h \in Event /\ h.when \in Int /\ h.when >= 1 /\ TimesRight(h) /\ h.seq = 1 /\ h.key = Heartbeat
  <2>1. h \in Event /\ h.when \in Int /\ h.when >= 1 /\ h.seq = 1 /\ h.key = Heartbeat
    BY <1>1, <1>2 DEF Event, EventKeys
  <2>2. h.when = wall + HeartbeatInterval /\ h.due = HeartbeatInterval /\ h.behind = FALSE
    OBVIOUS
  <2> HIDE DEF h
  <2>3. TimesRight(h)
    BY <1>1, <1>2, <2>2 DEF TimesRight
  <2> QED BY <2>1, <2>3
<1>4. k \in Event /\ k.when \in Int /\ k.when >= 1 /\ TimesRight(k) /\ k.seq = 2 /\ k.key = Tick
  <2>1. k \in Event /\ k.when \in Int /\ k.when >= 1 /\ k.seq = 2 /\ k.key = Tick
    BY <1>1, <1>2 DEF Event, EventKeys
  <2>2. k.when = wall + TickInterval /\ k.due = TickInterval /\ k.behind = FALSE
    OBVIOUS
  <2> HIDE DEF k
  <2>3. TimesRight(k)
    BY <1>1, <1>2, <2>2 DEF TimesRight
  <2> QED BY <2>1, <2>3
<1> HIDE DEF h, k
<1>5. IsFiniteSet(list) /\ list \in SUBSET Event /\ list # {}
  <2>1. IsFiniteSet({h})
    BY FS_Singleton
  <2>2. IsFiniteSet({h} \cup {k})
    BY <2>1, FS_AddElement
  <2>3. list = {h} \cup {k}
    BY <1>1
  <2> QED BY <1>3, <1>4, <2>2, <2>3
<1>6. next \in Int /\ next >= 1
  BY <1>1, <1>3, <1>4, <1>5, FirstEventIsFirst
<1>7. TypeOK
  <2>1. deleted \in BOOLEAN /\ signalled \in BOOLEAN /\ shutdown \in BOOLEAN /\ cancel \in BOOLEAN
    BY <1>1
  <2>2. ~signalled
    BY <1>1
  <2> QED BY <1>1, <1>2, <1>5, <1>6, <2>1, <2>2 DEF TypeOK
<1>8. ListRight
  BY <1>1, <1>3, <1>4, <1>5, <1>6 DEF ListRight
<1>9. CallsRight /\ WaitRight /\ DeliveryRight
  BY <1>1 DEF CallsRight, WaitRight, DeliveryRight, Threads
<1>10. HeartbeatAlive /\ TickAlive
  BY <1>1, <1>3, <1>4 DEF HeartbeatAlive, TickAlive
<1> QED BY <1>1, <1>2, <1>7, <1>8, <1>9, <1>10 DEF IInv

\* Every step of a caller, of the timer thread, of time and of the shutdown
\* keeps the invariant.
LEMMA IInvStep ==
    ASSUME IInv, [Next]_vars
    PROVE  IInv'
<1>1. CASE TimerStep
  BY <1>1, LoopStep, WakeStep, TimeOutStep, DeliverStep, ReturnStep, AddStep, CancelStep
     DEF TimerStep, Threads
<1>2. ASSUME NEW c \in Callers, CallerStep(c) PROVE IInv'
  <2>1. CASE \E k \in Keys, d \in Delays : New(c, k, d)
    BY <2>1, NewStep
  <2>2. CASE \E ks \in {{k} : k \in Keys} \cup {Keys} : Delete(c, ks)
    BY <2>2, DeleteStep
  <2>3. CASE sge_reschedule_sharetree_tick(c)
    BY <2>3, RescheduleStep
  <2>4. CASE te_add_event(c)
    BY <2>4, AddStep DEF Threads
  <2> QED BY <1>2, <2>1, <2>2, <2>3, <2>4 DEF CallerStep
<1>3. CASE TimePasses \/ \E d \in 1 .. MaxBack : SetBack(d)
  BY <1>3, TimeStep
<1>4. CASE SpuriousWakeup \/ ShutdownStarted \/ sge_timer_terminate
  BY <1>4, SpuriousStep, ShutdownStep
<1>5. CASE UNCHANGED vars
  <2> USE <1>5 DEF vars
  <2>1. TypeOK' /\ HeartbeatAlive' /\ TickAlive'
    BY DEF IInv, TypeOK, Waiting, HeartbeatAlive, TickAlive
  <2>2. ListRight' /\ CallsRight' /\ WaitRight' /\ DeliveryRight'
    BY DEF IInv, ListRight, CallsRight, WaitRight, DeliveryRight, TimesRight
  <2> QED BY <2>1, <2>2 DEF IInv
<1> QED BY <1>1, <1>2, <1>3, <1>4, <1>5 DEF Next

\* The inductive invariant holds in every reachable state.
THEOREM Invariance == Spec => []IInv
<1>1. Init => IInv
  BY InitIInv
<1>2. IInv /\ [Next]_vars => IInv'
  BY IInvStep
<1> QED BY <1>1, <1>2, PTL DEF Spec

\* A waiting timer thread that nobody has woken (te_wait_next) ends its wait
\* before any queued event is late by more than the clock was set back, and
\* never waits for an empty list to be filled.
THEOREM TimerWakesInTime == Spec => []WakesInTime
<1>1. IInv => WakesInTime
  <2> SUFFICES ASSUME IInv, timer = "waiting", ~signalled, NEW e \in list
               PROVE  deadline <= e.due + back
    BY DEF IInv, WakesInTime
  <2>1. /\ te \in Event /\ next <= e.when /\ next = te.when
        /\ deadline <= te.when - (MaxBack + 1) + back
        /\ e \in Event /\ e.when <= e.due + MaxBack + 1
    BY DEF IInv, WaitRight, ListRight, TimesRight, TypeOK
  <2>2. /\ e.when \in Int /\ e.due \in Int /\ te.when \in Int /\ MaxBack \in Int
        /\ back \in Int /\ deadline \in Int
    <3>1. e.when \in Int /\ e.due \in Int /\ te.when \in Int
      BY <2>1, EventFields
    <3>2. MaxBack \in Int /\ back \in Int /\ deadline \in Int
      BY TimingAssumption DEF IInv, TypeOK
    <3> QED BY <3>1, <3>2
  <2> QED BY <2>1, <2>2
<1> QED BY <1>1, Invariance, PTL

\* The share-tree tick is never lost before the shutdown, through every
\* delivery, deletion and sge_reschedule_sharetree_tick.
THEOREM TickStaysAlive == Spec => []TickAlive
<1>1. IInv => TickAlive
  BY DEF IInv
<1> QED BY <1>1, Invariance, PTL

\* A step that takes an event out for delivery takes the first one.
LEMMA TakesFirst ==
    ASSUME IInv, Next, timer' = "deliver", timer # "deliver"
    PROVE  \A e \in list' : te'.when <= e.when
<1>1. CASE Loop
  <2> DEFINE l == te_check_time
  <2>1. l \in SUBSET Event /\ IsFiniteSet(l)
    BY CheckTimeRight
  <2>2. PickFirst(l)
    BY <1>1 DEF Loop
  <2> HIDE DEF l
  <2>3. l # {} /\ te' = FirstEvent(l) /\ list' \subseteq l
    BY <2>2 DEF PickFirst
  <2> QED BY <2>1, <2>3, FirstEventIsFirst
<1>2. CASE WakeWaiting \/ TimeOut
  <2>1. timer = "waiting" /\ AfterWait
    BY <1>2 DEF WakeWaiting, TimeOut
  <2>2. te' = te /\ list' \subseteq list /\ ~(next < te.when)
    BY <2>1 DEF AfterWait
  <2>3. te \in Event /\ next <= te.when /\ \A e \in list : next <= e.when
    BY <2>1 DEF IInv, WaitRight
  <2>4. next \in Int /\ te.when \in Int
    BY <2>3, EventFields DEF IInv, TypeOK
  <2>5. te.when = next
    BY <2>2, <2>3, <2>4
  <2> QED BY <2>2, <2>3, <2>5
<1>3. CASE Deliver \/ HandlerReturns \/ CancellationPoint \/ \E t \in Threads : te_add_event(t)
  BY <1>3 DEF Deliver, HandlerReturns, CancellationPoint, te_add_event
<1>4. CASE \/ \E c \in Callers : CallerStep(c)
           \/ TimePasses \/ (\E d \in 1 .. MaxBack : SetBack(d))
           \/ SpuriousWakeup \/ ShutdownStarted \/ sge_timer_terminate
  BY <1>3, <1>4 DEF CallerStep, Threads, New, Delete, sge_reschedule_sharetree_tick, Start,
                    TimePasses, SetBack, SpuriousWakeup, ShutdownStarted, sge_timer_terminate
<1> QED BY <1>1, <1>2, <1>3, <1>4 DEF Next, TimerStep, Threads

\* What the timer thread hands to a handler (te_scan_table_and_deliver) was not
\* deleted and is due, and it is the first of the queued events when
\* sge_timer_main takes it out.
THEOREM TimerDeliversRight == Spec => DeliversRight
<1>1. IInv => DeletedNotDelivered /\ NotBeforeDue
  BY DEF IInv, DeliveryRight, DeletedNotDelivered, NotBeforeDue
<1>2. IInv /\ [Next]_vars =>
        [timer' = "deliver" /\ timer # "deliver" => \A e \in list' : te'.when <= e.when]_vars
  BY TakesFirst
<1> QED BY <1>1, <1>2, Invariance, PTL DEF Spec, DeliversRight, InDueOrder
=============================================================================
