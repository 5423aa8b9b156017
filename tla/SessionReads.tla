---------------------------- MODULE SessionReads ----------------------------
(* GDI sessions: how the qmaster lets a client read its own writes although    *)
(* reader threads answer from a snapshot (the READER data store) that a mirror *)
(* thread updates from events.  Modelled are the listener threads              *)
(* (do_gdi_packet), the worker, event master, mirror and reader threads, the   *)
(* three request queues, ocs::SessionManager and the two locks involved.  A    *)
(* change of the data is identified with the unique id of the transaction      *)
(* that carries its events, a data store with the set of changes it holds.     *)
EXTENDS Integers, Sequences, FiniteSets, Lists

CONSTANTS
    Users,              \* the session ids (get_session_id of the user names)
    GDI_SESSION_NONE,   \* the session of execd reports, member of Users
    Clients, UserOf,    \* commands that send one request at a time; their user
    Kinds,              \* the kinds of requests that the clients send
    Workers, Readers,   \* worker and reader threads
    Mirror,             \* the mirror thread of the READER data store
    EventMaster,        \* the event master thread
    None,
    MirrorKeepsUp,      \* is the mirror never 15 minutes behind?
    MaxId               \* bound: unique ids that are handed out

AllKinds == {"write", "get", "get_global", "trigger"}

ASSUME KindsAssumption == Kinds \subseteq AllKinds
ASSUME UsersAssumption ==
    GDI_SESSION_NONE \in Users /\ UserOf \in [Clients -> Users]
ASSUME MaxIdAssumption == MaxId \in Nat \ {0}
ASSUME ThreadsAssumption ==
    /\ Mirror \notin Readers
    /\ EventMaster \notin Workers
    /\ None \notin Clients
    /\ Workers \cap Clients = {}
    /\ Workers \cap Readers = {}

VARIABLES
    \* oge_get_next_unique_event_id, ocs::SessionManager
    next_unique_id, write_unique_id, process_unique_id,
    \* the request a client has under way, and where it is
    kind, request, GlobalRequestQueue, ReaderRequestQueue,
    ReaderWaitingRequestQueue,
    \* worker and reader threads: place, the packet in hand
    worker, reader, packet,
    \* a thread inside add_list_event_for_client_after_commit: place and id
    commit, commit_id,
    \* event master: the request list, the requests it has taken from there, the
    \* events queued for the mirror, EV_busy
    requests, batch, EV_events, EV_busy,
    \* mirror thread
    mirror, new_events, triggered, event_list,
    \* LOCK_GLOBAL and LOCK_READER
    global_queue, global_hold, reader_queue, reader_hold,
    \* the data stores
    global_ds, reader_ds,
    \* what the properties speak of: the changes each user has been told about,
    \* and those a request that was sent later has to see
    answered, must_see

sessionVars == <<next_unique_id, write_unique_id, process_unique_id>>
queueVars == <<GlobalRequestQueue, ReaderRequestQueue,
               ReaderWaitingRequestQueue>>
threadVars == <<worker, reader, packet>>
commitVars == <<commit, commit_id>>
eventVars == <<requests, batch, EV_events, EV_busy>>
mirrorVars == <<mirror, new_events, triggered, event_list>>
globalLock == <<global_queue, global_hold>>
readerLock == <<reader_queue, reader_hold>>
storeVars == <<global_ds, reader_ds>>
clientVars == <<kind, request, answered, must_see>>
vars == <<sessionVars, queueVars, threadVars, commitVars, eventVars,
          mirrorVars, globalLock, readerLock, storeVars, clientVars>>

\* Both locks keep the promises of FifoRWLock, which FifoLock implements.
GlobalLock == INSTANCE FifoRWLock WITH
    Threads <- Workers \cup {EventMaster}, NestedReads <- FALSE,
    queue <- global_queue, hold <- global_hold
ReaderLock == INSTANCE FifoRWLock WITH
    Threads <- Readers \cup {Mirror}, NestedReads <- FALSE,
    queue <- reader_queue, hold <- reader_hold

Ids == 0 .. MaxId
NoSession == -1
Committers == Workers \cup Clients
Requests == [op : {"add"}, id : Ids, mirrored : BOOLEAN] \cup [op : {"release"}]

TypeOK ==
    /\ next_unique_id \in 0 .. MaxId + 1
    /\ write_unique_id \in [Users -> Ids \cup {NoSession}]
    /\ process_unique_id \in Ids
    /\ kind \in [Clients -> AllKinds]
    /\ request \in [Clients -> {"idle", "arrived", "to_reader", "to_waiting",
                                "queued", "served"}]
    /\ GlobalRequestQueue \in Seq(Clients)
    /\ ReaderRequestQueue \in Seq(Clients)
    /\ ReaderWaitingRequestQueue \in Seq(Clients)
    /\ worker \in [Workers -> {"wait", "process", "commit", "unlock"}]
    /\ reader \in [Readers -> {"wait", "process"}]
    /\ packet \in [Workers \cup Readers -> Clients \cup {None}]
    /\ commit \in [Committers -> {"none", "session", "append", "done"}]
    /\ commit_id \in [Committers -> Ids]
    /\ requests \in Seq(Requests)
    /\ batch \in Seq(Requests)
    /\ EV_events \in Seq(Ids)
    /\ EV_busy \in BOOLEAN
    /\ mirror \in {"wait", "lock", "process", "move", "unlock", "release"}
    /\ new_events \in Seq(Ids)
    /\ triggered \in BOOLEAN
    /\ event_list \in Seq(Ids)
    /\ global_ds \subseteq Ids
    /\ reader_ds \subseteq Ids
    /\ answered \in [Users -> SUBSET Ids]
    /\ must_see \in [Clients -> SUBSET Ids]

\* The qmaster has started: the transaction with id 0 belongs to the start-up
\* and the mirror has handled the initial lists.
Init ==
    /\ next_unique_id = 1
    /\ write_unique_id = [u \in Users |-> NoSession]
    /\ process_unique_id = 0
    /\ kind = [c \in Clients |-> "get"]
    /\ request = [c \in Clients |-> "idle"]
    /\ GlobalRequestQueue = <<>>
    /\ ReaderRequestQueue = <<>>
    /\ ReaderWaitingRequestQueue = <<>>
    /\ worker = [w \in Workers |-> "wait"]
    /\ reader = [r \in Readers |-> "wait"]
    /\ packet = [t \in Workers \cup Readers |-> None]
    /\ commit = [t \in Committers |-> "none"]
    /\ commit_id = [t \in Committers |-> 0]
    /\ requests = <<>>
    /\ batch = <<>>
    /\ EV_events = <<>>
    /\ EV_busy = FALSE
    /\ mirror = "wait"
    /\ new_events = <<>>
    /\ triggered = FALSE
    /\ event_list = <<>>
    /\ GlobalLock!Init
    /\ ReaderLock!Init
    /\ global_ds = {0}
    /\ reader_ds = {0}
    /\ answered = [u \in Users |-> {}]
    /\ must_see = [c \in Clients |-> {}]
-----------------------------------------------------------------------------
(* ocs::SessionManager *)

\* Mutant: one id too generous.
UpToDateOffByOne(user) ==
    write_unique_id[user] <= process_unique_id + 1

is_uptodate(user) ==
    \/ user = GDI_SESSION_NONE
    \/ write_unique_id[user] = NoSession
    \/ write_unique_id[user] <= process_unique_id

\* remove_unused: the session is dropped 15 minutes after its last write.
RemoveUnused(user) ==
    /\ write_unique_id[user] # NoSession
    /\ MirrorKeepsUp => write_unique_id[user] <= process_unique_id
    /\ write_unique_id' = [write_unique_id EXCEPT ![user] = NoSession]
    /\ UNCHANGED <<next_unique_id, process_unique_id, queueVars, threadVars,
                   commitVars, eventVars, mirrorVars, globalLock, readerLock,
                   storeVars, clientVars>>
-----------------------------------------------------------------------------
(* add_list_event_for_client_after_commit: take an id, note it in the session, *)
(* then append the events to the event master's list.                          *)

TakeUniqueId(t) ==
    /\ next_unique_id <= MaxId
    /\ commit_id' = [commit_id EXCEPT ![t] = next_unique_id]
    /\ next_unique_id' = next_unique_id + 1
    /\ commit' = [commit EXCEPT ![t] = "session"]

\* Mutant: the session notes the counter after it was increased.
SetWriteNextId(t, user) ==
    /\ commit[t] = "session"
    /\ write_unique_id' =
          IF user = GDI_SESSION_NONE THEN write_unique_id
          ELSE [write_unique_id EXCEPT ![user] = next_unique_id]
    /\ commit' = [commit EXCEPT ![t] = "append"]
    /\ UNCHANGED <<next_unique_id, process_unique_id, queueVars, threadVars,
                   commit_id, eventVars, mirrorVars, globalLock, readerLock,
                   storeVars, clientVars>>

SetWriteUniqueId(t, user) ==
    /\ commit[t] = "session"
    /\ write_unique_id' =
          IF user = GDI_SESSION_NONE THEN write_unique_id
          ELSE [write_unique_id EXCEPT ![user] = commit_id[t]]
    /\ commit' = [commit EXCEPT ![t] = "append"]
    /\ UNCHANGED <<next_unique_id, process_unique_id, queueVars, threadVars,
                   commit_id, eventVars, mirrorVars, globalLock, readerLock,
                   storeVars, clientVars>>

AppendRequest(t, mirrored) ==
    /\ commit[t] = "append"
    /\ requests' = Append(requests, [op |-> "add", id |-> commit_id[t],
                                     mirrored |-> mirrored])
    /\ commit' = [commit EXCEPT ![t] = "done"]
    /\ UNCHANGED <<sessionVars, queueVars, threadVars, commit_id, batch,
                   EV_events, EV_busy, mirrorVars, globalLock, readerLock,
                   storeVars, clientVars>>
-----------------------------------------------------------------------------
(* Clients and listener threads *)

Send(c, k) ==
    /\ request[c] = "idle"
    /\ UserOf[c] = GDI_SESSION_NONE => k = "write"
    /\ kind' = [kind EXCEPT ![c] = k]
    /\ request' = [request EXCEPT ![c] = "arrived"]
    /\ must_see' = [must_see EXCEPT ![c] = answered[UserOf[c]]]
    /\ UNCHANGED <<sessionVars, queueVars, threadVars, commitVars, eventVars,
                   mirrorVars, globalLock, readerLock, storeVars, answered>>

\* do_gdi_packet, GLOBAL data store; ocs_store_packet for the reports.
StoreGlobal(c) ==
    /\ request[c] = "arrived"
    /\ kind[c] \in {"write", "get_global"}
    /\ GlobalRequestQueue' = Append(GlobalRequestQueue, c)
    /\ request' = [request EXCEPT ![c] = "queued"]
    /\ UNCHANGED <<sessionVars, ReaderRequestQueue, ReaderWaitingRequestQueue,
                   threadVars, commitVars, eventVars, mirrorVars, globalLock,
                   readerLock, storeVars, kind, answered, must_see>>

\* do_gdi_packet, READER data store: the choice of the queue ...
ChooseQueue(c) ==
    /\ request[c] = "arrived"
    /\ kind[c] = "get"
    /\ request' = [request EXCEPT ![c] =
                      IF is_uptodate(UserOf[c]) THEN "to_reader"
                                                ELSE "to_waiting"]
    /\ UNCHANGED <<sessionVars, queueVars, threadVars, commitVars, eventVars,
                   mirrorVars, globalLock, readerLock, storeVars, kind,
                   answered, must_see>>

\* ... and the store, some time later.
StoreReader(c) ==
    /\ \/ /\ request[c] = "to_reader"
          /\ ReaderRequestQueue' = Append(ReaderRequestQueue, c)
          /\ UNCHANGED ReaderWaitingRequestQueue
       \/ /\ request[c] = "to_waiting"
          /\ ReaderWaitingRequestQueue' = Append(ReaderWaitingRequestQueue, c)
          /\ UNCHANGED ReaderRequestQueue
    /\ request' = [request EXCEPT ![c] = "queued"]
    /\ UNCHANGED <<sessionVars, GlobalRequestQueue, threadVars, commitVars,
                   eventVars, mirrorVars, globalLock, readerLock, storeVars,
                   kind, answered, must_see>>

\* do_gdi_packet, LISTENER data store: qconf -tsm and -kec send an event that
\* is addressed to another event client.
Trigger(c) ==
    /\ request[c] = "arrived"
    /\ kind[c] = "trigger"
    /\ TakeUniqueId(c)
    /\ request' = [request EXCEPT ![c] = "served"]
    /\ UNCHANGED <<write_unique_id, process_unique_id, queueVars, threadVars,
                   eventVars, mirrorVars, globalLock, readerLock, storeVars,
                   kind, answered, must_see>>

\* The request is rejected without an event.
TriggerRefused(c) ==
    /\ request[c] = "arrived"
    /\ kind[c] = "trigger"
    /\ request' = [request EXCEPT ![c] = "idle"]
    /\ kind' = [kind EXCEPT ![c] = "get"]
    /\ must_see' = [must_see EXCEPT ![c] = {}]
    /\ UNCHANGED <<sessionVars, queueVars, threadVars, commitVars, eventVars,
                   mirrorVars, globalLock, readerLock, storeVars, answered>>

TriggerAnswer(c) ==
    /\ commit[c] = "done"
    /\ commit' = [commit EXCEPT ![c] = "none"]
    /\ commit_id' = [commit_id EXCEPT ![c] = 0]
    /\ request' = [request EXCEPT ![c] = "idle"]
    /\ kind' = [kind EXCEPT ![c] = "get"]
    /\ must_see' = [must_see EXCEPT ![c] = {}]
    /\ UNCHANGED <<sessionVars, queueVars, threadVars, eventVars, mirrorVars,
                   globalLock, readerLock, storeVars, answered>>
-----------------------------------------------------------------------------
(* sge_worker_main *)

\* Mutant: a write takes the read lock.
NeverWriteLock(c) == TRUE

is_only_read_request(c) == kind[c] = "get_global"

\* A packet is taken from the queue, and the lock asked for.
WorkerTake(w) ==
    LET c == Head(GlobalRequestQueue) IN
    /\ worker[w] = "wait"
    /\ GlobalRequestQueue # <<>>
    /\ packet' = [packet EXCEPT ![w] = c]
    /\ GlobalRequestQueue' = Tail(GlobalRequestQueue)
    /\ \/ GlobalLock!Enter(w, is_only_read_request(c))
       \/ /\ GlobalLock!Blocked(is_only_read_request(c))
          /\ GlobalLock!Wait(w, is_only_read_request(c))
    /\ worker' = [worker EXCEPT ![w] = "process"]
    /\ UNCHANGED <<sessionVars, ReaderRequestQueue, ReaderWaitingRequestQueue,
                   reader, commitVars, eventVars, mirrorVars, readerLock,
                   storeVars, clientVars>>

\* The request changes data: the transaction is committed at the end.
WorkerWrite(w) ==
    /\ worker[w] = "process"
    /\ global_hold[w] # "none"
    /\ kind[packet[w]] = "write"
    /\ TakeUniqueId(w)
    /\ global_ds' = global_ds \cup {next_unique_id}
    /\ worker' = [worker EXCEPT ![w] = "commit"]
    /\ UNCHANGED <<write_unique_id, process_unique_id, queueVars, reader,
                   packet, eventVars, mirrorVars, globalLock, readerLock,
                   reader_ds, clientVars>>

\* A read, or a request that changes nothing: sge_commit has nothing to send.
WorkerRead(w) ==
    /\ worker[w] = "process"
    /\ global_hold[w] # "none"
    /\ worker' = [worker EXCEPT ![w] = "unlock"]
    /\ UNCHANGED <<sessionVars, queueVars, reader, packet, commitVars,
                   eventVars, mirrorVars, globalLock, readerLock, storeVars,
                   clientVars>>

WorkerAnswer(w) ==
    LET c == packet[w]
        changed == commit[w] = "done"
    IN
    /\ worker[w] = "unlock" \/ changed
    /\ GlobalLock!Release(w)
    /\ answered' = [answered EXCEPT ![UserOf[c]] =
                       @ \cup IF changed THEN {commit_id[w]} ELSE {}]
    /\ request' = [request EXCEPT ![c] = "idle"]
    /\ kind' = [kind EXCEPT ![c] = "get"]
    /\ must_see' = [must_see EXCEPT ![c] = {}]
    /\ commit' = [commit EXCEPT ![w] = "none"]
    /\ commit_id' = [commit_id EXCEPT ![w] = 0]
    /\ packet' = [packet EXCEPT ![w] = None]
    /\ worker' = [worker EXCEPT ![w] = "wait"]
    /\ UNCHANGED <<sessionVars, queueVars, reader, eventVars, mirrorVars,
                   readerLock, storeVars>>
-----------------------------------------------------------------------------
(* The event master thread: sge_event_master_process_requests, then            *)
(* sge_event_master_send_events.                                               *)

\* The requests that carry events the mirror subscribes to.
MirroredAdds == [op : {"add"}, id : Ids, mirrored : {TRUE}]

Mirrored(reqs) ==
    LET adds == Pick(reqs, MirroredAdds)
    IN  [i \in DOMAIN adds |-> adds[i].id]

Released(reqs) == \E i \in DOMAIN reqs : reqs[i].op = "release"

\* The request list is taken.  A modification of an event client is processed
\* under a read lock.
TakeRequests ==
    /\ batch = <<>>
    /\ requests # <<>>
    /\ batch' = requests
    /\ requests' = <<>>
    /\ IF Released(requests)
       THEN \/ GlobalLock!Enter(EventMaster, TRUE)
            \/ GlobalLock!Blocked(TRUE) /\ GlobalLock!Wait(EventMaster, TRUE)
       ELSE UNCHANGED globalLock
    /\ UNCHANGED <<sessionVars, queueVars, threadVars, commitVars, EV_events,
                   EV_busy, mirrorVars, readerLock, storeVars, clientVars>>

ProcessRequests ==
    /\ batch # <<>>
    /\ IF Released(batch) THEN GlobalLock!Release(EventMaster)
                          ELSE UNCHANGED globalLock
    /\ EV_events' = EV_events \o Mirrored(batch)
    /\ EV_busy' = (EV_busy /\ ~Released(batch))
    /\ batch' = <<>>
    /\ UNCHANGED <<sessionVars, queueVars, threadVars, commitVars, requests,
                   mirrorVars, readerLock, storeVars, clientVars>>

\* The mirror subscribes with flush: what is queued is due at once; and an
\* empty report is due every second.  event_mirror_update_func takes the list.
SendEvents ==
    /\ batch = <<>>
    /\ ~EV_busy
    /\ new_events' = new_events \o EV_events
    /\ triggered' = TRUE
    /\ EV_events' = <<>>
    /\ EV_busy' = TRUE
    /\ UNCHANGED <<sessionVars, queueVars, threadVars, commitVars, requests,
                   batch, mirror, event_list, globalLock, readerLock, storeVars,
                   clientVars>>
-----------------------------------------------------------------------------
(* MirrorDataStore::main for the READER data store *)

WaitForEvent ==
    /\ mirror = "wait"
    /\ triggered
    /\ event_list' = new_events
    /\ new_events' = <<>>
    /\ triggered' = FALSE
    /\ mirror' = "lock"
    /\ UNCHANGED <<sessionVars, queueVars, threadVars, commitVars, eventVars,
                   globalLock, readerLock, storeVars, clientVars>>

\* MirrorDataStore::lock: a try that succeeds, or the hard lock later on.
MirrorLock ==
    /\ mirror = "lock"
    /\ \/ ReaderLock!Enter(Mirror, FALSE)
       \/ ReaderLock!Blocked(FALSE) /\ ReaderLock!Wait(Mirror, FALSE)
    /\ mirror' = "process"
    /\ UNCHANGED <<sessionVars, queueVars, threadVars, commitVars, eventVars,
                   new_events, triggered, event_list, globalLock, storeVars,
                   clientVars>>

\* sge_mirror_process_event_list and set_process_unique_id.
ProcessEvents ==
    /\ mirror = "process"
    /\ reader_hold[Mirror] = "write"
    /\ IF event_list = <<>>
       THEN /\ mirror' = "unlock"
            /\ UNCHANGED <<reader_ds, process_unique_id>>
       ELSE /\ reader_ds' = reader_ds \cup Elements(event_list)
            /\ process_unique_id' = event_list[Len(event_list)]
            /\ mirror' = "move"
    /\ UNCHANGED <<next_unique_id, write_unique_id, queueVars, threadVars,
                   commitVars, eventVars, new_events, triggered, event_list,
                   globalLock, readerLock, global_ds, clientVars>>

\* sge_tq_move_from_to_if
MoveRequests ==
    LET ready == {c \in Clients : is_uptodate(UserOf[c])} IN
    /\ mirror = "move"
    /\ ReaderRequestQueue' =
          ReaderRequestQueue \o Pick(ReaderWaitingRequestQueue, ready)
    /\ ReaderWaitingRequestQueue' =
          Pick(ReaderWaitingRequestQueue, Clients \ ready)
    /\ mirror' = "unlock"
    /\ UNCHANGED <<sessionVars, GlobalRequestQueue, threadVars, commitVars,
                   eventVars, new_events, triggered, event_list, globalLock,
                   readerLock, storeVars, clientVars>>

MirrorUnlock ==
    /\ mirror = "unlock"
    /\ ReaderLock!Release(Mirror)
    /\ event_list' = <<>>
    /\ mirror' = "release"
    /\ UNCHANGED <<sessionVars, queueVars, threadVars, commitVars, eventVars,
                   new_events, triggered, globalLock, storeVars, clientVars>>

\* ec_set_busy(0), ec_commit: sge_mod_event_client queues the change.
ReleaseBusy ==
    /\ mirror = "release"
    /\ requests' = Append(requests, [op |-> "release"])
    /\ mirror' = "wait"
    /\ UNCHANGED <<sessionVars, queueVars, threadVars, commitVars, batch,
                   EV_events, EV_busy, new_events, triggered, event_list,
                   globalLock, readerLock, storeVars, clientVars>>
-----------------------------------------------------------------------------
(* sge_reader_main *)

ReaderTake(r) ==
    /\ reader[r] = "wait"
    /\ ReaderRequestQueue # <<>>
    /\ packet' = [packet EXCEPT ![r] = Head(ReaderRequestQueue)]
    /\ ReaderRequestQueue' = Tail(ReaderRequestQueue)
    /\ \/ ReaderLock!Enter(r, TRUE)
       \/ ReaderLock!Blocked(TRUE) /\ ReaderLock!Wait(r, TRUE)
    /\ reader' = [reader EXCEPT ![r] = "process"]
    /\ UNCHANGED <<sessionVars, GlobalRequestQueue, ReaderWaitingRequestQueue,
                   worker, commitVars, eventVars, mirrorVars, globalLock,
                   storeVars, clientVars>>

ReaderAnswer(r) ==
    /\ reader[r] = "process"
    /\ ReaderLock!Release(r)
    /\ request' = [request EXCEPT ![packet[r]] = "idle"]
    /\ must_see' = [must_see EXCEPT ![packet[r]] = {}]
    /\ packet' = [packet EXCEPT ![r] = None]
    /\ reader' = [reader EXCEPT ![r] = "wait"]
    /\ UNCHANGED <<sessionVars, queueVars, worker, commitVars, eventVars,
                   mirrorVars, globalLock, storeVars, kind, answered>>
-----------------------------------------------------------------------------
ServeGlobalLock ==
    /\ GlobalLock!Serve
    /\ UNCHANGED <<sessionVars, queueVars, threadVars, commitVars, eventVars,
                   mirrorVars, readerLock, storeVars, clientVars>>

ServeReaderLock ==
    /\ ReaderLock!Serve
    /\ UNCHANGED <<sessionVars, queueVars, threadVars, commitVars, eventVars,
                   mirrorVars, globalLock, storeVars, clientVars>>

ListenerStep(c) ==
    \/ StoreGlobal(c)
    \/ ChooseQueue(c)
    \/ StoreReader(c)
    \/ Trigger(c)
    \/ TriggerRefused(c)
    \/ SetWriteUniqueId(c, UserOf[c])
    \/ AppendRequest(c, FALSE)
    \/ TriggerAnswer(c)

WorkerStep(w) ==
    \/ WorkerTake(w)
    \/ WorkerWrite(w)
    \/ WorkerRead(w)
    \/ packet[w] # None /\ SetWriteUniqueId(w, UserOf[packet[w]])
    \/ AppendRequest(w, TRUE)
    \/ WorkerAnswer(w)

EventMasterStep == TakeRequests \/ ProcessRequests \/ SendEvents

MirrorStep ==
    \/ WaitForEvent
    \/ MirrorLock
    \/ ProcessEvents
    \/ MoveRequests
    \/ MirrorUnlock
    \/ ReleaseBusy

ReaderStep(r) == ReaderTake(r) \/ ReaderAnswer(r)

Next ==
    \/ \E c \in Clients, k \in Kinds : Send(c, k)
    \/ \E c \in Clients : ListenerStep(c)
    \/ \E w \in Workers : WorkerStep(w)
    \/ EventMasterStep
    \/ MirrorStep
    \/ \E r \in Readers : ReaderStep(r)
    \/ \E u \in Users : RemoveUnused(u)
    \/ ServeGlobalLock
    \/ ServeReaderLock

Spec == Init /\ [][Next]_vars

\* Every thread of the qmaster goes on; clients need not send anything.
Fairness ==
    /\ \A c \in Clients : WF_vars(ListenerStep(c))
    /\ \A w \in Workers : WF_vars(WorkerStep(w))
    /\ WF_vars(EventMasterStep)
    /\ WF_vars(MirrorStep)
    /\ \A r \in Readers : WF_vars(ReaderStep(r))
    /\ WF_vars(ServeGlobalLock)
    /\ WF_vars(ServeReaderLock)

FairSpec == Spec /\ Fairness
-----------------------------------------------------------------------------
(* Properties *)

\* A read sees every write of its user that was answered before the read was
\* sent, whether a reader thread answers it from the READER data store or a
\* worker from the GLOBAL one (do_gdi_packet, is_uptodate,
\* update_sessions_and_move_requests).
ReadYourWrites ==
    /\ \A r \in Readers :
          reader[r] = "process" /\ reader_hold[r] # "none"
             => must_see[packet[r]] \subseteq reader_ds
    /\ \A w \in Workers :
          worker[w] = "process" /\ global_hold[w] # "none"
             => must_see[packet[w]] \subseteq global_ds

\* When the mirror has published an id, the READER data store holds every
\* change up to it: the id of the last event of a batch is the biggest one, and
\* no change with a smaller id is still under way (MirrorDataStore::main,
\* add_list_event_for_client_after_commit under LOCK_GLOBAL).
SnapshotReached ==
    \A id \in global_ds : id <= process_unique_id => id \in reader_ds

\* The published id never falls back (set_process_unique_id overwrites it with
\* the id of the last event of the batch).
ProcessIdGrows == [][process_unique_id' >= process_unique_id]_vars

\* A read that is in the waiting queue while its session is still behind is
\* answered eventually (update_sessions_and_move_requests).
StaleReadersServed ==
    \A c \in Clients :
        (/\ In(c, ReaderWaitingRequestQueue)
         /\ ~is_uptodate(UserOf[c])) ~> request[c] = "idle"

\* Stated by the comment of update_sessions_and_move_requests: a request waits
\* until the snapshot reaches the id it needs.
ReadersServed ==
    \A c \in Clients :
        In(c, ReaderWaitingRequestQueue) ~> request[c] = "idle"

\* Stated in is_uptodate: if there is no session, there is no previous write
\* that the snapshot could still be missing.
MissingSessionHasNoWrite ==
    \A c \in Clients :
        /\ request[c] = "arrived"
        /\ kind[c] = "get"
        /\ write_unique_id[UserOf[c]] = NoSession
        => must_see[c] \subseteq reader_ds
-----------------------------------------------------------------------------
(* Why the properties hold: an invariant that every step preserves.            *)

\* LOCK_GLOBAL: who waits for it, who holds it; a writer holds it alone.
LockRight ==
    /\ global_queue \in Seq([thread : Workers \cup {EventMaster}, is_reader : BOOLEAN])
    /\ global_hold \in [Workers \cup {EventMaster} -> {"none", "read", "nested", "write"}]
    /\ \A t, u \in Workers \cup {EventMaster} :
          t # u /\ global_hold[t] = "write" => global_hold[u] = "none"

\* A worker asks for the lock in the mode that its packet calls for, and holds
\* it in no other.
ModesRight ==
    \A w \in Workers :
        worker[w] # "wait" =>
           /\ global_hold[w] = "write" => ~is_only_read_request(packet[w])
           /\ global_hold[w] \in {"read", "nested"} => is_only_read_request(packet[w])
           /\ \A i \in 1 .. Len(global_queue) :
                 global_queue[i].thread = w =>
                    global_queue[i].is_reader = is_only_read_request(packet[w])

\* A queued request for the workers, and one for the readers.
ForWorkers(c) == request[c] = "queued" /\ kind[c] \in {"write", "get_global"}
ForReaders(c) == request[c] = "queued" /\ kind[c] = "get"

\* A request is in one queue at most, and at the right place for its kind.
QueuesRight ==
    /\ Distinct(GlobalRequestQueue)
    /\ Distinct(ReaderRequestQueue)
    /\ Distinct(ReaderWaitingRequestQueue)
    /\ \A c \in Clients :
          /\ In(c, GlobalRequestQueue) => ForWorkers(c)
          /\ In(c, ReaderRequestQueue) => ForReaders(c)
          /\ In(c, ReaderWaitingRequestQueue) => ForReaders(c)
          /\ ~(In(c, ReaderRequestQueue) /\ In(c, ReaderWaitingRequestQueue))
          /\ request[c] \in {"to_reader", "to_waiting"} => kind[c] = "get"
          /\ commit[c] # "none" => request[c] = "served"

\* A request in the hands of a thread is in no queue and with no other thread.
WorkersRight ==
    \A w \in Workers :
        worker[w] # "wait" =>
           /\ packet[w] \in Clients
           /\ ForWorkers(packet[w])
           /\ ~In(packet[w], GlobalRequestQueue)
           /\ \A v \in Workers :
                 v # w /\ worker[v] # "wait" => packet[v] # packet[w]

\* The same for the readers.
ReadersRight ==
    \A r \in Readers :
        reader[r] # "wait" =>
           /\ packet[r] \in Clients
           /\ ForReaders(packet[r])
           /\ ~In(packet[r], ReaderRequestQueue)
           /\ ~In(packet[r], ReaderWaitingRequestQueue)
           /\ \A v \in Readers :
                 v # r /\ reader[v] # "wait" => packet[v] # packet[r]

\* A worker that commits holds the lock for writing, and its change is the last.
CommitsRight ==
    \A w \in Workers :
        commit[w] # "none" =>
           /\ worker[w] = "commit"
           /\ global_hold[w] = "write"
           /\ commit_id[w] \in global_ds
           /\ \A id \in global_ds : id <= commit_id[w]

\* A change whose events have not been appended yet.
Pending(w) == commit[w] \in {"session", "append"}

\* The ids of the changes in a list of requests, which ascend.
AddIds(reqs) ==
    {reqs[i].id : i \in {j \in 1 .. Len(reqs) : reqs[j] \in MirroredAdds}}

AddsAscend(q) ==
    \A i, j \in 1 .. Len(q) :
        i < j /\ q[i] \in MirroredAdds /\ q[j] \in MirroredAdds => q[i].id < q[j].id

\* The changes that the mirror has in hand.
InHand == IF mirror \in {"lock", "process"} THEN Elements(event_list) ELSE {}

\* The changes behind them, from the mirror's list back to the request list.
Behind == Elements(new_events) \cup Elements(EV_events) \cup AddIds(batch)
             \cup AddIds(requests)

\* The changes that have been sent off, and the id that is published.
Sent == {process_unique_id} \cup Elements(event_list) \cup Behind

\* Every list on the way ascends.
ListsSorted ==
    /\ Ascending(event_list) /\ Ascending(new_events) /\ Ascending(EV_events)
    /\ AddsAscend(batch) /\ AddsAscend(requests)

\* What is further on its way has smaller ids.
StagesOrdered ==
    /\ Before(Elements(event_list), Behind)
    /\ Before(Elements(new_events),
              Elements(EV_events) \cup AddIds(batch) \cup AddIds(requests))
    /\ Before(Elements(EV_events), AddIds(batch) \cup AddIds(requests))
    /\ Before(AddIds(batch), AddIds(requests))
    /\ Before({process_unique_id}, InHand \cup Behind)

\* Changes reach the mirror in the order of their ids, none twice.
PipelineOrdered ==
    /\ ListsSorted
    /\ StagesOrdered
    /\ mirror \in {"wait", "release"} => event_list = <<>>
    /\ global_ds \cup Sent \subseteq 0 .. next_unique_id - 1
    /\ \A w \in Workers : Pending(w) => Before(Sent, {commit_id[w]})

\* No change is lost on its way.
PipelineComplete ==
    global_ds \subseteq reader_ds \cup InHand \cup Behind
                           \cup {commit_id[w] : w \in {v \in Workers : Pending(v)}}

\* What a user was told of, and a later request has to see, is in the GLOBAL
\* data store.
AnswersRight ==
    /\ \A u \in Users : answered[u] \subseteq global_ds
    /\ \A c \in Clients : must_see[c] \subseteq answered[UserOf[c]]

\* The session stands for the change.
Noted(user, id) ==
    id \in reader_ds \/ (write_unique_id[user] # NoSession /\ id <= write_unique_id[user])

\* Without triggers no listener commits; a read of the READER data store has a
\* session.
ClientsKnown ==
    \A c \in Clients :
        /\ kind[c] # "trigger" /\ commit[c] = "none"
        /\ request[c] # "idle" /\ kind[c] = "get" => UserOf[c] # GDI_SESSION_NONE

\* The session of a user stands for every change the user was told of.
WritesNoted ==
    \A u \in Users \ {GDI_SESSION_NONE} :
        /\ \A id \in answered[u] : Noted(u, id)
        /\ \A w \in Workers :
              commit[w] \in {"append", "done"} /\ UserOf[packet[w]] = u
                 => Noted(u, commit_id[w])

\* A read that is with the readers sees all it has to see.
ReadsSee ==
    /\ \A c \in Clients :
          request[c] = "to_reader" \/ In(c, ReaderRequestQueue)
             => must_see[c] \subseteq reader_ds
    /\ \A r \in Readers :
          reader[r] # "wait" => must_see[packet[r]] \subseteq reader_ds

\* The part of the invariant that is about sessions.
SessionsRight == ClientsKnown /\ WritesNoted /\ ReadsSee

\* Sessions are kept until the mirror has caught up, and no listener notes ids.
SessionsReliable == MirrorKeepsUp /\ "trigger" \notin Kinds

\* The inductive invariant of the session protocol: lock, queues and threads
\* agree on who has a request; changes go from commit to snapshot in the order
\* of their ids and none is lost; and, where sessions are reliable, the session
\* of a user stands for every change that the user was told of.
IInv ==
    /\ TypeOK
    /\ LockRight
    /\ ModesRight
    /\ QueuesRight
    /\ WorkersRight
    /\ ReadersRight
    /\ CommitsRight
    /\ PipelineOrdered
    /\ PipelineComplete
    /\ AnswersRight
    /\ SessionsReliable => SessionsRight
=============================================================================
