---------------------------- MODULE EventDelivery ----------------------------
(* Event delivery to an external event client: the event master of the qmaster *)
(* (registration, total update, subscriptions, request list, delivery rounds,  *)
(* acknowledgements, timeout), the listener and worker threads that feed it,   *)
(* the client library (registering, fetching, checking of event numbers,       *)
(* acknowledging) and the mirror that applies the events.  A list of objects   *)
(* is identified with the number of changes made to it: a _LIST event carries  *)
(* that number, a change event its own.  There is one event client, so it gets *)
(* the same lowest free dynamic id at every registration and ids are left out. *)
EXTENDS Integers, Sequences, FiniteSets, SequencesExt

CONSTANTS
    Lists,          \* the lists of objects, a subset of DOMAIN block_events
    Kinds,          \* changes of an object ("obj"), of its sublist ("sub")
    NoClient,       \* no event client is registered
    Subscriptions,  \* the sets of lists that the client may subscribe
    UntilAck,       \* EV_busy_handling: EV_BUSY_UNTIL_ACK or _NO_HANDLING?
    Listeners,      \* number of listener threads
    Faults,         \* what may go wrong: "ack_timeout", "get_timeout", "ack_lost"
    MaxFaults,      \* bound: how often something goes wrong
    MaxChanges,     \* bound: changes of each list
    MaxMods,        \* bound: changes of the client's subscription
    MaxReports,     \* bound: reports that wait for the client in the commlib
    MaxMessages     \* bound: messages of the client that wait in the qmaster

ASSUME SubscriptionsAssumption ==
    Subscriptions \subseteq SUBSET Lists /\ Subscriptions # {}
ASSUME FaultsAssumption == Faults \subseteq {"ack_timeout", "get_timeout", "ack_lost"}
ASSUME BoundsAssumption ==
    {Listeners, MaxFaults, MaxChanges, MaxMods, MaxReports, MaxMessages} \subseteq Nat

VARIABLES
    \* qmaster: the lists, the packet of the worker, Event_Master_Control,
    \* the requests that the event master took, its place in the main loop
    data, GlobalRequestQueue, ev, requests, batch, event_master,
    \* commlib: is there a connection, messages to the qmaster, reports
    connected, messages, reports,
    \* event client: is it waiting for an answer, its sge_evc_t and EV_Type
    waiting, need_register, next_event, subscribed, changed,
    \* mirror: the lists received since the registration, the contents
    listed, copy,
    \* bookkeeping: what went wrong at the client; the bounded counters
    trouble, faults, mods

serverVars == <<data, GlobalRequestQueue, ev, requests, batch, event_master>>
clientVars == <<waiting, need_register, next_event, subscribed, changed>>
mirrorVars == <<listed, copy, trouble>>
netVars == <<connected, messages, reports>>
vars == <<serverVars, clientVars, mirrorVars, netVars, faults, mods>>

\* The changes that wait for the _LIST event of a list.  The job list has the
\* array tasks as its sublist, the cluster queue list the queue instances.
block_events == [JOB |-> {"obj"}, CQUEUE |-> {"obj", "sub"}]
Blocked(lists) == {<<l, k>> \in lists \X Kinds : k \in block_events[l]}

Events ==
    [type : {"LIST", "CHANGE"}, list : Lists, n : 0 .. MaxChanges, number : Nat]
        \cup [type : {"ACK_TIMEOUT"}, number : Nat]

TypeOK ==
    /\ data \in [Lists -> 0 .. MaxChanges]
    /\ Len(GlobalRequestQueue) <= 1
    /\ ev # NoClient =>
        /\ ev.next_number \in Nat \ {0}
        /\ ev.events \in Seq(Events)
        /\ ev.subscribed \in Subscriptions
        /\ ev.blocked \subseteq Lists \X Kinds
        /\ ev.busy \in BOOLEAN
        /\ ev.heard \in BOOLEAN
    /\ event_master \in {"wait", "process"}
    /\ connected \in BOOLEAN
    /\ Len(messages) <= MaxMessages + 1
    /\ \A i \in DOMAIN reports : reports[i] \in Seq(Events)
    /\ waiting \in BOOLEAN
    /\ need_register \in BOOLEAN
    /\ next_event \in Nat \ {0}
    /\ subscribed \in Subscriptions
    /\ changed \in BOOLEAN
    /\ listed \subseteq subscribed
    /\ copy \in [Lists -> 0 .. MaxChanges]
    /\ trouble \subseteq {"early", "gap", "again", "old_report"}
    /\ faults \in 0 .. MaxFaults
    /\ mods \in 0 .. MaxMods

\* The client has been created with its first subscription.
Init ==
    /\ data = [l \in Lists |-> 0]
    /\ GlobalRequestQueue = <<>>
    /\ ev = NoClient
    /\ requests = <<>>
    /\ batch = <<>>
    /\ event_master = "wait"
    /\ connected = FALSE
    /\ messages = <<>>
    /\ reports = <<>>
    /\ waiting = FALSE
    /\ need_register = TRUE
    /\ next_event = 1
    /\ subscribed \in Subscriptions
    /\ changed = TRUE
    /\ listed = {}
    /\ copy = [l \in Lists |-> 0]
    /\ trouble = {}
    /\ faults = 0
    /\ mods = 0

Fault(f) == f \in Faults /\ faults < MaxFaults /\ faults' = faults + 1
-----------------------------------------------------------------------------
(* Listener and worker threads *)

\* An event acknowledgement goes straight to the event master, a GDI request
\* to the worker threads.  Each listener thread has one message in hand.
Listen(i) ==
    /\ i \in DOMAIN messages
    /\ messages' = RemoveAt(messages, i)
    /\ IF messages[i].op = "ack"
       THEN /\ requests' = Append(requests, messages[i])
            /\ UNCHANGED GlobalRequestQueue
       ELSE /\ GlobalRequestQueue' = Append(GlobalRequestQueue, messages[i])
            /\ UNCHANGED requests
    /\ UNCHANGED <<data, ev, batch, event_master, connected, reports,
                   clientVars, mirrorVars, faults, mods>>

\* A worker changes an object and commits the event, all under LOCK_GLOBAL.
Change(l, k) ==
    /\ data[l] < MaxChanges
    /\ data' = [data EXCEPT ![l] = @ + 1]
    /\ requests' = Append(requests, [op |-> "event", list |-> l, kind |-> k,
                                     n |-> data[l] + 1])
    /\ UNCHANGED <<GlobalRequestQueue, ev, batch, event_master, clientVars,
                   mirrorVars, netVars, faults, mods>>

total_update_event(l) == [op |-> "list", list |-> l, n |-> data[l]]
total_update(lists) == [i \in 1 .. Cardinality(lists) |->
                            total_update_event(SetToSeq(lists)[i])]

\* Mutant: changes are not blocked until the lists went out.
AddUnblocked(packet) ==
    /\ ev' = [next_number |-> 1, events |-> <<>>, busy |-> FALSE, heard |-> TRUE,
              subscribed |-> packet.subscribed, blocked |-> {}]
    /\ requests' = requests \o total_update(packet.subscribed)

\* Mutant: the event numbers go on from 0.
AddNumberZero(packet) ==
    /\ ev' = [next_number |-> 0, events |-> <<>>, busy |-> FALSE, heard |-> TRUE,
              subscribed |-> packet.subscribed,
              blocked |-> Blocked(packet.subscribed)]
    /\ requests' = requests \o total_update(packet.subscribed)

\* A previous registration from the same address is replaced at once, without
\* a look at the requests that are still queued for it.
sge_add_event_client(packet) ==
    /\ ev' = [next_number |-> 1, events |-> <<>>, busy |-> FALSE, heard |-> TRUE,
              subscribed |-> packet.subscribed,
              blocked |-> Blocked(packet.subscribed)]
    /\ requests' = requests \o total_update(packet.subscribed)

sge_mod_event_client(packet) ==
    /\ requests' = Append(requests, packet)
    /\ UNCHANGED ev

\* The client, which waited for the answer, is registered or has committed.
Worker ==
    /\ GlobalRequestQueue # <<>>
    /\ LET packet == Head(GlobalRequestQueue)
       IN \/ packet.op = "add" /\ sge_add_event_client(packet)
          \/ packet.op = "mod" /\ sge_mod_event_client(packet)
    /\ GlobalRequestQueue' = Tail(GlobalRequestQueue)
    /\ waiting' = FALSE
    /\ need_register' = FALSE
    /\ changed' = FALSE
    /\ UNCHANGED <<data, batch, event_master, next_event, subscribed,
                   mirrorVars, netVars, faults, mods>>
-----------------------------------------------------------------------------
(* Event master thread *)

TakeRequests ==
    /\ event_master = "wait"
    /\ event_master' = "process"
    /\ batch' = requests
    /\ requests' = <<>>
    /\ UNCHANGED <<data, GlobalRequestQueue, ev, clientVars, mirrorVars,
                   netVars, faults, mods>>

\* The client's record with one more event; a _LIST event unblocks its list.
add_list_event_direct(type, l, n) ==
    [ev EXCEPT !.next_number = @ + 1,
               !.events = Append(@, [type |-> type, list |-> l, n |-> n,
                                     number |-> ev.next_number]),
               !.blocked = IF type = "LIST" THEN @ \ ({l} \X Kinds) ELSE @]

\* The head of the batch is a request with this operation and is taken off.
Processing(op) ==
    /\ event_master = "process"
    /\ batch # <<>>
    /\ Head(batch).op = op
    /\ batch' = Tail(batch)
    /\ UNCHANGED <<data, GlobalRequestQueue, event_master, clientVars,
                   mirrorVars, netVars, faults, mods>>

eventclient_subscribed(request) ==
    /\ ev # NoClient
    /\ request.list \in ev.subscribed
    /\ request.op = "event" => <<request.list, request.kind>> \notin ev.blocked

ProcessSend ==
    /\ Processing("event") \/ Processing("list")
    /\ LET request == Head(batch)
       IN ev' = IF eventclient_subscribed(request)
                THEN add_list_event_direct(
                        IF request.op = "list" THEN "LIST" ELSE "CHANGE",
                        request.list, request.n)
                ELSE ev
    /\ UNCHANGED requests

\* Mutant: one event too many is purged.
PurgeOneMore(events, number) ==
    IF number = 0 THEN events
    ELSE SelectSeq(events, LAMBDA e : e.number > number + 1)

purge_event_list(events, number) ==
    IF number = 0 THEN events
    ELSE SelectSeq(events, LAMBDA e : e.number > number)

\* Mutant: the busy state outlives the acknowledgement.
ProcessAckStayBusy ==
    /\ Processing("ack")
    /\ ev' = IF ev = NoClient THEN ev
             ELSE [ev EXCEPT
                    !.events = purge_event_list(@, Head(batch).number),
                    !.heard = TRUE]
    /\ UNCHANGED requests

ProcessAck ==
    /\ Processing("ack")
    /\ ev' = IF ev = NoClient THEN ev
             ELSE [ev EXCEPT
                    !.events = purge_event_list(@, Head(batch).number),
                    !.busy = @ /\ ~UntilAck, !.heard = TRUE]
    /\ UNCHANGED requests

\* Newly subscribed lists are queued behind all requests, and the new
\* subscription holds at once, with nothing blocked.
ProcessMod ==
    /\ Processing("mod")
    /\ IF ev = NoClient THEN UNCHANGED <<ev, requests>>
       ELSE /\ ev' = [ev EXCEPT !.subscribed = Head(batch).subscribed,
                                !.blocked = {}, !.busy = FALSE]
            /\ requests' = requests
                    \o total_update(Head(batch).subscribed \ ev.subscribed)

\* The round of sge_event_master_send_events that follows the requests.
Sending ==
    /\ event_master = "process"
    /\ batch = <<>>
    /\ event_master' = "wait"
    /\ UNCHANGED <<data, GlobalRequestQueue, requests, batch, connected,
                   messages, clientVars, mirrorVars, mods>>

\* All events that are not acknowledged are sent, again if need be.
SendReport ==
    /\ Sending
    /\ ev # NoClient /\ ~ev.busy
    /\ connected
    /\ Len(reports) < MaxReports
    /\ reports' = Append(reports, ev.events)
    /\ ev' = [ev EXCEPT !.busy = UntilAck, !.heard = FALSE]
    /\ UNCHANGED faults

\* There is no client, it is not due, it is busy or it cannot be reached.
SendNothing ==
    /\ Sending
    /\ ev' = IF ev = NoClient THEN ev ELSE [ev EXCEPT !.heard = FALSE]
    /\ UNCHANGED <<reports, faults>>

\* The client was sent events and no acknowledgement is on its way any more.
AckMissing ==
    /\ ev # NoClient /\ ev.busy
    /\ messages = <<>> /\ reports = <<>>
    /\ \A i \in DOMAIN requests : requests[i].op # "ack"

\* The client has been silent for too long: it is told so and removed.  That
\* takes minutes and a round a second, so a round has passed since it was heard.
\* It is a fault if the client did answer, or is about to.
AckTimeout ==
    /\ Sending
    /\ ev # NoClient /\ ~ev.heard
    /\ (AckMissing /\ UNCHANGED faults) \/ Fault("ack_timeout")
    /\ reports' = IF connected
                  THEN Append(reports, Append(ev.events,
                            [type |-> "ACK_TIMEOUT", number |-> ev.next_number]))
                  ELSE reports
    /\ ev' = NoClient
-----------------------------------------------------------------------------
(* Event client library and mirror *)

Idle == ~waiting

\* The sge_gdi request of a registration; numbers start again.
Register ==
    /\ Idle /\ need_register
    /\ next_event' = 1
    /\ connected' = TRUE
    /\ messages' = Append(messages, [op |-> "add", subscribed |-> subscribed])
    /\ waiting' = TRUE
    /\ listed' = {}
    /\ UNCHANGED <<serverVars, need_register, subscribed, changed, copy,
                   trouble, reports, faults, mods>>

ChangeSubscription(lists) ==
    /\ Idle
    /\ mods < MaxMods /\ mods' = mods + 1
    /\ lists # subscribed
    /\ subscribed' = lists
    /\ changed' = TRUE
    /\ listed' = listed \cap lists
    /\ UNCHANGED <<serverVars, waiting, need_register, next_event, copy,
                   trouble, netVars, faults>>

Commit ==
    /\ Idle /\ ~need_register /\ changed
    /\ messages' = Append(messages, [op |-> "mod", subscribed |-> subscribed])
    /\ waiting' = TRUE
    /\ UNCHANGED <<serverVars, need_register, next_event, subscribed, changed,
                   mirrorVars, connected, reports, faults, mods>>

\* Mutant: a first event above the awaited one is not noticed.
CheckWithoutGap(events, waiting_for) ==
    LET kept == SelectSeq(events, LAMBDA e : e.number >= waiting_for)
    IN [ok |-> TRUE, events |-> kept,
        next |-> IF kept = <<>> THEN waiting_for ELSE Last(kept).number + 1]

\* Mutant: events that were handled before are not skipped.
CheckWithoutSkip(events, waiting_for) ==
    [ok |-> events = <<>> \/ events[1].number <= waiting_for, events |-> events,
     next |-> IF events = <<>> THEN waiting_for ELSE Last(events).number + 1]

\* A report is fine if it does not begin after the awaited event; events before
\* that one are skipped and the others have to be numbered consecutively.
ck_event_number(events, waiting_for) ==
    LET kept == SelectSeq(events, LAMBDA e : e.number >= waiting_for)
        ok == /\ events # <<>> => events[1].number <= waiting_for
              /\ \A i \in DOMAIN kept : kept[i].number = waiting_for + i - 1
    IN [ok |-> ok, events |-> kept,
        next |-> IF ok THEN waiting_for + Len(kept) ELSE waiting_for]

\* Reports are fetched one after the other until one is wrong.
FetchReport(got, events) ==
    IF ~got.ok THEN got
    ELSE LET new == ck_event_number(events, got.next)
             last == IF events = <<>> THEN got.next ELSE Last(events).number
         IN [ok |-> new.ok, next |-> new.next,
             events |-> got.events \o new.events,
             old |-> got.old \/ (new.ok /\ last < got.next - 1)]

\* What an event does to the mirrored lists, and what is wrong with it.
sge_mirror_process_event(mirror, e) ==
    CASE e.type = "ACK_TIMEOUT" -> mirror
      [] e.type = "LIST" ->
            [mirror EXCEPT !.listed = @ \cup ({e.list} \cap subscribed),
                           !.copy[e.list] = e.n]
      [] e.type = "CHANGE" ->
            [mirror EXCEPT
                !.copy[e.list] = e.n,
                !.trouble = @ \cup
                    (IF e.list \notin mirror.listed
                     THEN IF e.list \in subscribed THEN {"early"} ELSE {}
                     ELSE IF e.n > mirror.copy[e.list] + 1 THEN {"gap"}
                     ELSE IF e.n <= mirror.copy[e.list] THEN {"again"} ELSE {})]

\* The acknowledgement of all events below next; sending it may fail.
sge_send_ack_to_qmaster(next) ==
    \/ /\ messages' = Append(messages, [op |-> "ack", number |-> next - 1])
       /\ UNCHANGED faults
    \/ Fault("ack_lost") /\ UNCHANGED messages

\* ec2_mark4registration closes the connection and drops what arrived on it.
Mark4registration ==
    /\ need_register' = TRUE
    /\ changed' = TRUE
    /\ reports' = <<>>

\* ec2_get, called by sge_mirror_process_events, finds n reports.  After a wrong
\* report everything it fetched is dropped, but an acknowledgement is still sent
\* before sge_mirror_process_events marks the client once more.
Get(n) ==
    /\ Idle /\ ~need_register /\ ~changed
    /\ n \in DOMAIN reports
    /\ Len(messages) < MaxMessages
    /\ LET got == FoldLeft(FetchReport,
                    [ok |-> TRUE, next |-> next_event, events |-> <<>>,
                     old |-> FALSE], SubSeq(reports, 1, n))
           mirror == FoldLeft(sge_mirror_process_event,
                    [listed |-> listed, copy |-> copy, trouble |-> trouble],
                    got.events)
           timed_out == \E i \in DOMAIN got.events :
                            got.events[i].type = "ACK_TIMEOUT"
       IN /\ sge_send_ack_to_qmaster(got.next)
          /\ next_event' = got.next
          /\ IF got.ok
             THEN /\ listed' = mirror.listed
                  /\ copy' = mirror.copy
                  /\ trouble' = mirror.trouble
                                \cup (IF got.old THEN {"old_report"} ELSE {})
             ELSE UNCHANGED mirrorVars
          /\ IF got.ok /\ ~timed_out
             THEN /\ reports' = SubSeq(reports, n + 1, Len(reports))
                  /\ UNCHANGED <<need_register, changed, connected>>
             ELSE /\ Mark4registration
                  /\ connected' = FALSE
    /\ UNCHANGED <<serverVars, waiting, subscribed, mods>>

\* Nothing arrived for ten delivery intervals.
GetTimeout ==
    /\ Idle /\ ~need_register /\ ~changed
    /\ reports = <<>>
    /\ Fault("get_timeout")
    /\ Mark4registration
    /\ connected' = FALSE
    /\ UNCHANGED <<serverVars, waiting, next_event, subscribed, mirrorVars,
                   messages, mods>>
-----------------------------------------------------------------------------
EventMaster ==
    \/ TakeRequests
    \/ ProcessSend
    \/ ProcessAck
    \/ ProcessMod
    \/ SendReport
    \/ SendNothing
    \/ AckTimeout

Client ==
    \/ Register
    \/ Commit
    \/ \E n \in 1 .. MaxReports + 1 : Get(n)
    \/ GetTimeout
    \/ \E lists \in Subscriptions : ChangeSubscription(lists)

Next ==
    \/ \E i \in 1 .. Listeners : Listen(i)
    \/ \E l \in Lists, k \in Kinds : Change(l, k)
    \/ Worker
    \/ EventMaster
    \/ Client

Spec == Init /\ [][Next]_vars

\* The threads run.  next_send_time passes, so a client that can be sent to
\* again and again is due in one of the rounds; so does the acknowledge timeout.
Fairness ==
    /\ WF_vars(\E i \in 1 .. Listeners : Listen(i))
    /\ WF_vars(Worker)
    /\ WF_vars(TakeRequests \/ ProcessSend \/ ProcessAck \/ ProcessMod \/ SendNothing)
    /\ SF_vars(SendReport)
    /\ SF_vars(AckMissing /\ AckTimeout)
    /\ WF_vars(Register \/ Commit \/ \E n \in 1 .. MaxReports + 1 : Get(n))

FairSpec == Spec /\ Fairness
-----------------------------------------------------------------------------
(* Properties *)

\* A change reaches the client only after the list that it belongs to, so that
\* it can be applied (total_update, blockEvents and the order of the requests).
ChangesFollowList == "early" \notin trouble

\* No change is missing between two that the client applies: what is lost,
\* purged or dropped is noticed from the numbers (ck_event_number) and repaired
\* by a registration before the next change of the list is applied.
EveryChangeSeen == "gap" \notin trouble

\* No change is applied again to a list that holds it already, although events
\* are sent until they are acknowledged and lists are copied while earlier
\* changes are still queued.
NoChangeTwice == "again" \notin trouble

\* A report whose last event is older than the one before the awaited event is
\* refused (ck_event_number).
OldReportRefused == "old_report" \notin trouble

\* The event that a registered client waits for is still spooled or yet to
\* come: acknowledgements purge only what the client has got (process_ack).
AwaitedEventKept ==
    ev # NoClient /\ ~need_register =>
        IF ev.events = <<>> THEN ev.next_number <= next_event
        ELSE ev.events[1].number <= next_event

\* Once the lists stay as they are the mirror gets to hold what they hold.
MirrorCatchesUp ==
    <>[](\A l \in subscribed : l \in listed /\ copy[l] = data[l])
=============================================================================
