----------------------- MODULE SessionRequestsProofs ------------------------
(* The requests, the queues they wait in, the threads that serve them and the   *)
(* clients: every step keeps the parts of the invariant of SessionReads that    *)
(* speak of these.                                                              *)
EXTENDS SessionReads, TLAPS

-----------------------------------------------------------------------------
(* The queues as lists *)

\* A request stored at the end of a queue.
LEMMA StoredLast ==
    ASSUME NEW X, NEW q \in Seq(X), NEW c \in X, Distinct(q), ~In(c, q)
    PROVE  /\ Append(q, c) \in Seq(X)
           /\ Distinct(Append(q, c))
           /\ \A d \in X : In(d, Append(q, c)) <=> In(d, q) \/ d = c
<1> DEFINE n == Append(q, c)
<1>1. /\ n \in Seq(X) /\ Len(q) \in Nat /\ Len(n) = Len(q) + 1
      /\ \A i \in 1 .. Len(q) : n[i] = q[i]
      /\ n[Len(q) + 1] = c
  OBVIOUS
<1> HIDE DEF n
<1>2. Distinct(n)
  <2>1. \A i \in 1 .. Len(n) : i \in 1 .. Len(q) \/ i = Len(q) + 1
    BY <1>1
  <2> QED BY <1>1, <2>1 DEF Distinct, In
<1>3. ASSUME NEW d \in X PROVE In(d, n) <=> In(d, q) \/ d = c
  <2>1. \A i \in 1 .. Len(n) : i \in 1 .. Len(q) \/ i = Len(q) + 1
    BY <1>1
  <2>2. \A i \in 1 .. Len(q) : i \in 1 .. Len(n)
    BY <1>1
  <2>3. Len(q) + 1 \in 1 .. Len(n)
    BY <1>1
  <2> QED BY <1>1, <2>1, <2>2, <2>3 DEF In
<1> QED BY <1>1, <1>2, <1>3 DEF n

\* A request taken from the front of a queue.
LEMMA TakenFirst ==
    ASSUME NEW X, NEW q \in Seq(X), q # <<>>, Distinct(q)
    PROVE  /\ Head(q) \in X /\ In(Head(q), q)
           /\ Tail(q) \in Seq(X)
           /\ Distinct(Tail(q))
           /\ \A d \in X : In(d, Tail(q)) <=> In(d, q) /\ d # Head(q)
<1> DEFINE n == Tail(q)
<1>1. /\ Head(q) \in X /\ Head(q) = q[1]
      /\ n \in Seq(X) /\ Len(n) = Len(q) - 1 /\ Len(q) \in Nat /\ Len(q) > 0
      /\ \A i \in 1 .. Len(n) : n[i] = q[i + 1]
  <2>1. Len(q) \in Nat /\ Len(q) > 0
    OBVIOUS
  <2> QED BY <2>1
<1> HIDE DEF n
<1>2. 1 \in 1 .. Len(q) /\ \A i \in 1 .. Len(n) : i + 1 \in 1 .. Len(q) /\ i + 1 # 1
  BY <1>1
<1>3. Distinct(n)
  BY <1>1, <1>2 DEF Distinct
<1>4. ASSUME NEW d \in X PROVE In(d, n) <=> In(d, q) /\ d # Head(q)
  <2>1. ASSUME In(d, n) PROVE In(d, q) /\ d # Head(q)
    BY <1>1, <1>2, <2>1 DEF In, Distinct
  <2>2. ASSUME In(d, q), d # Head(q) PROVE In(d, n)
    <3>1. PICK i \in 1 .. Len(q) : q[i] = d
      BY <2>2 DEF In
    <3>2. i # 1
      BY <1>1, <2>2, <3>1
    <3>3. i - 1 \in 1 .. Len(n) /\ (i - 1) + 1 = i
      BY <1>1, <3>2
    <3> QED BY <1>1, <3>1, <3>3 DEF In
  <2> QED BY <2>1, <2>2
<1> QED BY <1>1, <1>2, <1>3, <1>4 DEF n, In

\* The part of a queue that is moved, and the part that stays.
LEMMA PickedQueue ==
    ASSUME PicksRight, NEW X, NEW q \in Seq(X), NEW G, Distinct(q)
    PROVE  /\ Pick(q, G) \in Seq(X)
           /\ Distinct(Pick(q, G))
           /\ \A d \in X : In(d, Pick(q, G)) <=> In(d, q) /\ d \in G
<1>1. Pick(q, G) \in Seq(X) /\ \E h : PickedFrom(Pick(q, G), h, q, G, Len(q))
  BY DEF PicksRight
<1>2. PICK h : PickedFrom(Pick(q, G), h, q, G, Len(q))
  BY <1>1
<1> DEFINE n == Pick(q, G)
<1>3. Len(n) \in Nat /\ Len(q) \in Nat
  BY <1>1
<1>4. \A k \in 1 .. Len(n) : h[k] \in 1 .. Len(q) /\ n[k] = q[h[k]] /\ n[k] \in G
  BY <1>2 DEF PickedFrom
<1>5. \A k, l \in 1 .. Len(n) : k < l => h[k] < h[l]
  BY <1>2 DEF PickedFrom
<1>6. \A j \in 1 .. Len(q) : q[j] \in G => \E k \in 1 .. Len(n) : h[k] = j
  BY <1>2 DEF PickedFrom
<1> HIDE DEF n
<1>7. ASSUME NEW k \in 1 .. Len(n), NEW l \in 1 .. Len(n), k # l PROVE n[k] # n[l]
  <2>1. h[k] # h[l]
    <3>1. k < l \/ l < k
      BY <1>3, <1>7
    <3>2. h[k] < h[l] \/ h[l] < h[k]
      BY <1>5, <3>1
    <3> QED BY <1>3, <1>4, <3>2
  <2>2. PICK a \in 1 .. Len(q), b \in 1 .. Len(q) :
           a = h[k] /\ b = h[l] /\ n[k] = q[a] /\ n[l] = q[b]
    BY <1>4
  <2>3. q[a] # q[b]
    BY <2>1, <2>2 DEF Distinct
  <2> QED BY <2>2, <2>3
<1>8. ASSUME NEW d \in X PROVE In(d, n) <=> In(d, q) /\ d \in G
  BY <1>4, <1>6 DEF In
<1> QED BY <1>1, <1>7, <1>8 DEF Distinct, n

\* A queue behind another one.
LEMMA JoinedQueues ==
    ASSUME NEW X, NEW p \in Seq(X), NEW q \in Seq(X), Distinct(p), Distinct(q),
           \A d \in X : ~(In(d, p) /\ In(d, q))
    PROVE  /\ p \o q \in Seq(X)
           /\ Distinct(p \o q)
           /\ \A d \in X : In(d, p \o q) <=> In(d, p) \/ In(d, q)
<1>1. /\ p \o q \in Seq(X) /\ Len(p) \in Nat /\ Len(q) \in Nat
      /\ Len(p \o q) = Len(p) + Len(q)
      /\ \A i \in 1 .. Len(p) + Len(q) :
            (p \o q)[i] = IF i <= Len(p) THEN p[i] ELSE q[i - Len(p)]
  OBVIOUS
<1> DEFINE n == p \o q
<1>2. ASSUME NEW d \in X, In(d, n) PROVE In(d, p) \/ In(d, q)
  <2>1. PICK i \in 1 .. Len(p) + Len(q) : n[i] = d
    BY <1>1, <1>2 DEF In
  <2>2. i \in 1 .. Len(p) \/ i - Len(p) \in 1 .. Len(q)
    BY <1>1
  <2> QED BY <1>1, <2>1, <2>2 DEF In
<1>3. ASSUME NEW d \in X, In(d, p) \/ In(d, q) PROVE In(d, n)
  <2>1. ASSUME NEW i \in 1 .. Len(p), p[i] = d PROVE In(d, n)
    <3>1. i \in 1 .. Len(n) /\ n[i] = d
      BY <1>1, <2>1
    <3> QED BY <3>1 DEF In
  <2>2. ASSUME NEW i \in 1 .. Len(q), q[i] = d PROVE In(d, n)
    <3>1. Len(p) + i \in 1 .. Len(n) /\ n[Len(p) + i] = d
      BY <1>1, <2>2
    <3> QED BY <3>1 DEF In
  <2> QED BY <1>3, <2>1, <2>2 DEF In
<1> HIDE DEF n
<1>4. ASSUME NEW i \in 1 .. Len(n), NEW j \in 1 .. Len(n), i < j PROVE n[i] # n[j]
  <2>1. /\ i \in 1 .. Len(p) /\ n[i] = p[i] /\ In(n[i], p) /\ n[i] \in X
        \/ /\ i - Len(p) \in 1 .. Len(q) /\ i > Len(p) /\ n[i] = q[i - Len(p)]
    <3>1. CASE i <= Len(p)
      <4>1. i \in 1 .. Len(p) /\ n[i] = p[i]
        BY <1>1, <3>1 DEF n
      <4>2. p[i] \in X /\ In(p[i], p)
        BY <4>1 DEF In
      <4> QED BY <4>1, <4>2
    <3>2. CASE i > Len(p)
      BY <1>1, <3>2 DEF n
    <3> QED BY <1>1, <3>1, <3>2
  <2>2. \/ j \in 1 .. Len(p) /\ n[j] = p[j]
        \/ /\ j - Len(p) \in 1 .. Len(q) /\ j > Len(p) /\ n[j] = q[j - Len(p)]
           /\ In(n[j], q)
    <3>1. CASE j <= Len(p)
      BY <1>1, <3>1 DEF n
    <3>2. CASE j > Len(p)
      <4>1. j - Len(p) \in 1 .. Len(q) /\ n[j] = q[j - Len(p)]
        BY <1>1, <3>2 DEF n
      <4> QED BY <3>2, <4>1 DEF In
    <3> QED BY <1>1, <3>1, <3>2
  <2>3. CASE j \in 1 .. Len(p) /\ n[j] = p[j]
    <3>1. i \in 1 .. Len(p) /\ n[i] = p[i] /\ i # j
      BY <1>1, <1>4, <2>1, <2>3
    <3> QED BY <2>3, <3>1 DEF Distinct
  <2>4. CASE /\ j - Len(p) \in 1 .. Len(q) /\ j > Len(p) /\ n[j] = q[j - Len(p)]
             /\ In(n[j], q)
    <3>1. CASE i \in 1 .. Len(p) /\ n[i] = p[i] /\ In(n[i], p) /\ n[i] \in X
      BY <2>4, <3>1
    <3>2. CASE i - Len(p) \in 1 .. Len(q) /\ i > Len(p) /\ n[i] = q[i - Len(p)]
      <4>1. i - Len(p) # j - Len(p)
        BY <1>1, <1>4
      <4> QED BY <2>4, <3>2, <4>1 DEF Distinct
    <3> QED BY <2>1, <3>1, <3>2
  <2> QED BY <2>2, <2>3, <2>4
<1>5. Distinct(n)
  <2>1. \A i, j \in 1 .. Len(n) : i # j => i < j \/ j < i
    BY <1>1 DEF n
  <2> QED BY <1>4, <2>1 DEF Distinct
<1> QED BY <1>1, <1>2, <1>3, <1>5 DEF n

-----------------------------------------------------------------------------
(* The packets of the threads *)

\* The steps that change a place, a packet or a request.
LEMMA PacketFrame ==
    Next => \/ UNCHANGED <<worker, packet, kind, request>>
            \/ \E c \in Clients, k \in Kinds : Send(c, k)
            \/ \E c \in Clients : 
                  \/ StoreGlobal(c)
                  \/ ChooseQueue(c)
                  \/ StoreReader(c)
                  \/ Trigger(c)
                  \/ TriggerRefused(c)
                  \/ TriggerAnswer(c)
            \/ \E w \in Workers : 
                  \/ WorkerTake(w)
                  \/ WorkerWrite(w)
                  \/ WorkerRead(w)
                  \/ WorkerAnswer(w)
            \/ \E r \in Readers : ReaderTake(r) \/ ReaderAnswer(r)
<1> USE DEF threadVars, clientVars
<1>1. ASSUME NEW c \in Clients, ListenerStep(c)
      PROVE  \/ UNCHANGED <<worker, packet, kind, request>>
             \/ StoreGlobal(c) \/ ChooseQueue(c) \/ StoreReader(c) \/ Trigger(c)
             \/ TriggerRefused(c) \/ TriggerAnswer(c)
  BY <1>1 DEF ListenerStep, SetWriteUniqueId, AppendRequest
<1>2. ASSUME NEW w \in Workers, WorkerStep(w)
      PROVE  \/ UNCHANGED <<worker, packet, kind, request>>
             \/ WorkerTake(w) \/ WorkerWrite(w) \/ WorkerRead(w) \/ WorkerAnswer(w)
  BY <1>2 DEF WorkerStep, SetWriteUniqueId, AppendRequest
<1>3. ASSUME EventMasterStep
      PROVE  UNCHANGED <<worker, packet, kind, request>>
  BY <1>3 DEF EventMasterStep, TakeRequests, ProcessRequests, SendEvents
<1>4. ASSUME MirrorStep
      PROVE  UNCHANGED <<worker, packet, kind, request>>
  BY <1>4 DEF MirrorStep, WaitForEvent, MirrorLock, ProcessEvents, MoveRequests,
     MirrorUnlock, ReleaseBusy
<1>5. ASSUME NEW u \in Users, RemoveUnused(u)
      PROVE  UNCHANGED <<worker, packet, kind, request>>
  BY <1>5 DEF RemoveUnused
<1>6. ASSUME ServeGlobalLock
      PROVE  UNCHANGED <<worker, packet, kind, request>>
  BY <1>6 DEF ServeGlobalLock
<1>7. ASSUME ServeReaderLock
      PROVE  UNCHANGED <<worker, packet, kind, request>>
  BY <1>7 DEF ServeReaderLock
<1> QED BY <1>1, <1>2, <1>3, <1>4, <1>5, <1>6, <1>7 DEF Next, ReaderStep

\* A worker that answers had a packet in hand.
LEMMA AnswersPacket ==
    ASSUME IInv, NEW w \in Workers, WorkerAnswer(w)
    PROVE  worker[w] # "wait" /\ packet[w] \in Clients /\ ForWorkers(packet[w])
<1>1. worker[w] # "wait"
  BY DEF WorkerAnswer, IInv, CommitsRight
<1> QED BY <1>1 DEF IInv, WorkersRight

\* A worker keeps its packet, and the packet stays as it is, until the answer.
LEMMA PacketKept ==
    ASSUME IInv, Next, NEW w \in Workers
    PROVE  \/ WorkerTake(w)
           \/ WorkerAnswer(w) /\ worker'[w] = "wait"
           \/ /\ worker'[w] # "wait" <=> worker[w] # "wait"
              /\ packet'[w] = packet[w]
              /\ worker[w] # "wait" =>
                    /\ kind'[packet[w]] = kind[packet[w]]
                    /\ request'[packet[w]] = request[packet[w]]
<1> DEFINE c == packet[w]
           Same == /\ worker'[w] # "wait" <=> worker[w] # "wait"
                   /\ packet'[w] = c
                   /\ worker[w] # "wait" => kind'[c] = kind[c] /\ request'[c] = request[c]
<1> SUFFICES WorkerTake(w) \/ (WorkerAnswer(w) /\ worker'[w] = "wait") \/ Same
  OBVIOUS
<1>1. worker[w] # "wait" => c \in Clients /\ request[c] = "queued"
                            /\ kind[c] \in {"write", "get_global"}
  BY DEF IInv, WorkersRight, ForWorkers
<1>2. TypeOK
  BY DEF IInv
<1>3. w \notin Readers /\ w \in Workers \cup Readers
  BY ThreadsAssumption
<1>4. CASE UNCHANGED <<worker, packet, kind, request>>
  BY <1>4
<1>5. ASSUME NEW d \in Clients, request[d] # "queued",
             UNCHANGED <<worker, packet>>,
             \A e \in Clients : e # d => kind'[e] = kind[e] /\ request'[e] = request[e]
      PROVE  Same
  BY <1>1, <1>5
<1>6. ASSUME NEW d \in Clients, NEW k \in Kinds, Send(d, k) PROVE Same
  BY <1>2, <1>5, <1>6 DEF Send, TypeOK, threadVars
<1>7. ASSUME NEW d \in Clients, StoreGlobal(d) PROVE Same
  BY <1>2, <1>5, <1>7 DEF StoreGlobal, TypeOK, threadVars
<1>8. ASSUME NEW d \in Clients, ChooseQueue(d) PROVE Same
  BY <1>2, <1>5, <1>8 DEF ChooseQueue, TypeOK, threadVars
<1>9. ASSUME NEW d \in Clients, StoreReader(d) PROVE Same
  BY <1>2, <1>5, <1>9 DEF StoreReader, TypeOK, threadVars
<1>10. ASSUME NEW d \in Clients, Trigger(d) \/ TriggerRefused(d) PROVE Same
  BY <1>2, <1>5, <1>10 DEF Trigger, TriggerRefused, TypeOK, threadVars
<1>11. ASSUME NEW d \in Clients, TriggerAnswer(d) PROVE Same
  <2>1. request[d] = "served"
    BY <1>11 DEF TriggerAnswer, IInv, QueuesRight
  <2> QED BY <1>2, <1>5, <1>11, <2>1 DEF TriggerAnswer, TypeOK, threadVars
<1>12. ASSUME NEW v \in Workers, WorkerTake(v), v # w PROVE Same
  BY <1>2, <1>3, <1>12 DEF WorkerTake, TypeOK, clientVars
<1>13. ASSUME NEW v \in Workers, WorkerWrite(v) PROVE Same
  BY <1>2, <1>3, <1>13 DEF WorkerWrite, TypeOK, clientVars
<1>14. ASSUME NEW v \in Workers, WorkerRead(v) PROVE Same
  BY <1>2, <1>3, <1>14 DEF WorkerRead, TypeOK, clientVars
<1>15. ASSUME NEW v \in Workers, WorkerAnswer(v), v # w PROVE Same
  <2>1. worker[w] # "wait" => c # packet[v]
    BY <1>15, AnswersPacket DEF IInv, WorkersRight
  <2> QED BY <1>1, <1>2, <1>3, <1>15, <2>1 DEF WorkerAnswer, TypeOK
<1>16. WorkerAnswer(w) => worker'[w] = "wait"
  BY <1>2 DEF WorkerAnswer, TypeOK
<1>17. ASSUME NEW r \in Readers, ReaderTake(r) PROVE Same
  BY <1>2, <1>3, <1>17 DEF ReaderTake, TypeOK, clientVars
<1>18. ASSUME NEW r \in Readers, ReaderAnswer(r) PROVE Same
  <2>1. worker[w] # "wait" => c # packet[r]
    BY <1>1, <1>18 DEF ReaderAnswer, IInv, ReadersRight, ForReaders
  <2> QED BY <1>1, <1>2, <1>3, <1>18, <2>1 DEF ReaderAnswer, TypeOK
<1> HIDE DEF Same
<1> QED BY <1>4, <1>6, <1>7, <1>8, <1>9, <1>10, <1>11, <1>12, <1>13, <1>14, <1>15,
          <1>16, <1>17, <1>18, PacketFrame

-----------------------------------------------------------------------------
(* The request queues *)

\* The steps that change a queue, a request or where a client's commit is.
LEMMA QueueFrame ==
    Next => \/ UNCHANGED <<GlobalRequestQueue, ReaderRequestQueue,
                            ReaderWaitingRequestQueue, kind, request, commit>>
            \/ \E c \in Clients, k \in Kinds : Send(c, k)
            \/ \E c \in Clients : 
                  \/ StoreGlobal(c)
                  \/ ChooseQueue(c)
                  \/ StoreReader(c)
                  \/ Trigger(c)
                  \/ TriggerRefused(c)
                  \/ SetWriteUniqueId(c, UserOf[c])
                  \/ AppendRequest(c, FALSE)
                  \/ TriggerAnswer(c)
            \/ \E w \in Workers : 
                  \/ WorkerTake(w)
                  \/ WorkerWrite(w)
                  \/ packet[w] # None /\ SetWriteUniqueId(w, UserOf[packet[w]])
                  \/ AppendRequest(w, TRUE)
                  \/ WorkerAnswer(w)
            \/ MoveRequests
            \/ \E r \in Readers : ReaderTake(r) \/ ReaderAnswer(r)
<1> USE DEF queueVars, commitVars, clientVars
<1>1. ASSUME NEW w \in Workers, WorkerStep(w)
      PROVE  \/ UNCHANGED <<GlobalRequestQueue, ReaderRequestQueue,
                             ReaderWaitingRequestQueue, kind, request, commit>>
             \/ WorkerTake(w) \/ WorkerWrite(w)
             \/ packet[w] # None /\ SetWriteUniqueId(w, UserOf[packet[w]])
             \/ AppendRequest(w, TRUE) \/ WorkerAnswer(w)
  BY <1>1 DEF WorkerStep, WorkerRead
<1>2. ASSUME EventMasterStep
      PROVE  UNCHANGED <<GlobalRequestQueue, ReaderRequestQueue,
                          ReaderWaitingRequestQueue, kind, request, commit>>
  BY <1>2 DEF EventMasterStep, TakeRequests, ProcessRequests, SendEvents
<1>3. ASSUME MirrorStep
      PROVE  \/ UNCHANGED <<GlobalRequestQueue, ReaderRequestQueue,
                             ReaderWaitingRequestQueue, kind, request, commit>>
             \/ MoveRequests
  BY <1>3 DEF MirrorStep, WaitForEvent, MirrorLock, ProcessEvents, MirrorUnlock,
     ReleaseBusy
<1>4. ASSUME NEW u \in Users, RemoveUnused(u)
      PROVE  UNCHANGED <<GlobalRequestQueue, ReaderRequestQueue,
                          ReaderWaitingRequestQueue, kind, request, commit>>
  BY <1>4 DEF RemoveUnused
<1>5. ASSUME ServeGlobalLock
      PROVE  UNCHANGED <<GlobalRequestQueue, ReaderRequestQueue,
                          ReaderWaitingRequestQueue, kind, request, commit>>
  BY <1>5 DEF ServeGlobalLock
<1>6. ASSUME ServeReaderLock
      PROVE  UNCHANGED <<GlobalRequestQueue, ReaderRequestQueue,
                          ReaderWaitingRequestQueue, kind, request, commit>>
  BY <1>6 DEF ServeReaderLock
<1> QED BY <1>1, <1>2, <1>3, <1>4, <1>5, <1>6 DEF Next, ListenerStep, ReaderStep

\* What QueuesRight says of one client.
ClientRight(c) ==
    /\ In(c, GlobalRequestQueue) => ForWorkers(c)
    /\ In(c, ReaderRequestQueue) => ForReaders(c)
    /\ In(c, ReaderWaitingRequestQueue) => ForReaders(c)
    /\ ~(In(c, ReaderRequestQueue) /\ In(c, ReaderWaitingRequestQueue))
    /\ request[c] \in {"to_reader", "to_waiting"} => kind[c] = "get"
    /\ commit[c] # "none" => request[c] = "served"

\* A client whose request is not queued is in no queue.
LEMMA NotQueued ==
    ASSUME QueuesRight, NEW c \in Clients, request[c] # "queued"
    PROVE  /\ ~In(c, GlobalRequestQueue)
           /\ ~In(c, ReaderRequestQueue)
           /\ ~In(c, ReaderWaitingRequestQueue)
  BY DEF QueuesRight, ForWorkers, ForReaders

\* A step that leaves the queues alone and changes a client that is in none.
LEMMA QueuesSame ==
    ASSUME QueuesRight, UNCHANGED queueVars, NEW d \in Clients,
           \/ request[d] # "queued"
           \/ ~In(d, GlobalRequestQueue) /\ ~In(d, ReaderRequestQueue)
                 /\ ~In(d, ReaderWaitingRequestQueue),
           \A c \in Clients : c # d => /\ kind'[c] = kind[c] /\ request'[c] = request[c]
                                       /\ commit'[c] = commit[c],
           request'[d] \in {"to_reader", "to_waiting"} => kind'[d] = "get",
           commit'[d] # "none" => request'[d] = "served"
    PROVE  QueuesRight'
<1>1. UNCHANGED <<GlobalRequestQueue, ReaderRequestQueue, ReaderWaitingRequestQueue>>
  BY DEF queueVars
<1>2. ~In(d, GlobalRequestQueue) /\ ~In(d, ReaderRequestQueue)
         /\ ~In(d, ReaderWaitingRequestQueue)
  BY NotQueued
<1>3. ASSUME NEW c \in Clients PROVE ClientRight(c)'
  <2>1. CASE c = d
    BY <1>1, <1>2, <2>1 DEF ClientRight, In
  <2>2. CASE c # d
    <3>1. ClientRight(c)
      BY DEF QueuesRight, ClientRight
    <3> QED BY <1>1, <2>2, <3>1 DEF ClientRight, In, ForWorkers, ForReaders
  <2> QED BY <2>1, <2>2
<1>4. (Distinct(GlobalRequestQueue) /\ Distinct(ReaderRequestQueue)
          /\ Distinct(ReaderWaitingRequestQueue))'
  BY <1>1 DEF QueuesRight, Distinct
<1> QED BY <1>3, <1>4 DEF QueuesRight, ClientRight

\* Only commits of workers change.
LEMMA QueuesUntouched ==
    ASSUME QueuesRight, UNCHANGED <<queueVars, kind, request>>,
           \A c \in Clients : commit'[c] = commit[c]
    PROVE  QueuesRight'
<1>1. UNCHANGED <<GlobalRequestQueue, ReaderRequestQueue, ReaderWaitingRequestQueue, kind, request>>
  BY DEF queueVars
<1>2. ASSUME NEW c \in Clients PROVE ClientRight(c)'
  <2>1. ClientRight(c)
    BY DEF QueuesRight, ClientRight
  <2> QED BY <1>1, <2>1 DEF ClientRight, In, ForWorkers, ForReaders
<1>3. (Distinct(GlobalRequestQueue) /\ Distinct(ReaderRequestQueue)
          /\ Distinct(ReaderWaitingRequestQueue))'
  BY <1>1 DEF QueuesRight, Distinct
<1> QED BY <1>2, <1>3 DEF QueuesRight, ClientRight

\* A thread touches no commit but its own.
LEMMA OwnCommit ==
    ASSUME TypeOK, NEW t \in Committers, NEW w \in Committers, t # w,
           \/ Trigger(t) \/ TriggerAnswer(t) \/ WorkerTake(t) \/ WorkerWrite(t) \/ WorkerRead(t)
           \/ SetWriteUniqueId(t, UserOf[t]) \/ SetWriteUniqueId(t, UserOf[packet[t]])
           \/ AppendRequest(t, FALSE) \/ AppendRequest(t, TRUE) \/ WorkerAnswer(t)
    PROVE  commit'[w] = commit[w] /\ commit_id'[w] = commit_id[w]
<1>1. /\ commit = [v \in Committers |-> commit[v]]
      /\ commit_id = [v \in Committers |-> commit_id[v]]
  BY DEF TypeOK
<1>2. CASE Trigger(t)
  BY <1>1, <1>2 DEF Trigger, TakeUniqueId
<1>3. CASE TriggerAnswer(t)
  BY <1>1, <1>3 DEF TriggerAnswer
<1>4. CASE WorkerTake(t)
  BY <1>4 DEF WorkerTake, commitVars
<1>5. CASE WorkerWrite(t)
  BY <1>1, <1>5 DEF WorkerWrite, TakeUniqueId
<1>6. CASE WorkerRead(t)
  BY <1>6 DEF WorkerRead, commitVars
<1>7. CASE SetWriteUniqueId(t, UserOf[t]) \/ SetWriteUniqueId(t, UserOf[packet[t]])
  BY <1>1, <1>7 DEF SetWriteUniqueId
<1>8. CASE AppendRequest(t, FALSE) \/ AppendRequest(t, TRUE)
  BY <1>1, <1>8 DEF AppendRequest
<1>9. CASE WorkerAnswer(t)
  BY <1>1, <1>9 DEF WorkerAnswer
<1> QED BY <1>2, <1>3, <1>4, <1>5, <1>6, <1>7, <1>8, <1>9

\* A step keeps the queues right.
LEMMA QueuesStep == PicksRight /\ IInv /\ Next => QueuesRight'
<1> SUFFICES ASSUME PicksRight, IInv, Next PROVE QueuesRight'
  OBVIOUS
<1>1. TypeOK /\ QueuesRight
  BY DEF IInv
<1>2. \A w \in Workers : w \notin Clients /\ w \in Committers
  BY ThreadsAssumption DEF Committers
<1>3. Distinct(GlobalRequestQueue) /\ Distinct(ReaderRequestQueue)
         /\ Distinct(ReaderWaitingRequestQueue) /\ \A c \in Clients : ClientRight(c)
  BY <1>1 DEF QueuesRight, ClientRight
<1>4. CASE UNCHANGED <<GlobalRequestQueue, ReaderRequestQueue,
                       ReaderWaitingRequestQueue, kind, request, commit>>
  BY <1>1, <1>4, QueuesUntouched DEF queueVars
<1>5. ASSUME NEW d \in Clients, NEW k \in Kinds, Send(d, k) PROVE QueuesRight'
  <2>1. request[d] = "idle" /\ commit[d] = "none"
    BY <1>3, <1>5 DEF Send, ClientRight
  <2> QED BY <1>1, <1>5, <2>1, QueuesSame DEF Send, TypeOK, commitVars
<1>6. ASSUME NEW d \in Clients, StoreGlobal(d) PROVE QueuesRight'
  <2>1. ~In(d, GlobalRequestQueue) /\ ~In(d, ReaderRequestQueue)
           /\ ~In(d, ReaderWaitingRequestQueue)
    BY <1>1, <1>6, NotQueued DEF StoreGlobal
  <2>2. /\ Distinct(GlobalRequestQueue')
        /\ \A c \in Clients : In(c, GlobalRequestQueue') <=> In(c, GlobalRequestQueue) \/ c = d
    BY <1>1, <1>3, <1>6, <2>1, StoredLast DEF StoreGlobal, TypeOK
  <2>3. /\ request' = [request EXCEPT ![d] = "queued"]
        /\ kind[d] \in {"write", "get_global"} /\ request[d] = "arrived"
        /\ UNCHANGED <<ReaderRequestQueue, ReaderWaitingRequestQueue, kind, commit>>
    BY <1>6 DEF StoreGlobal, commitVars
  <2>4. request'[d] = "queued" /\ \A c \in Clients : c # d => request'[c] = request[c]
    BY <1>1, <2>3 DEF TypeOK
  <2>5. ASSUME NEW c \in Clients PROVE ClientRight(c)'
    BY <1>3, <2>1, <2>2, <2>3, <2>4 DEF ClientRight, ForWorkers, ForReaders
  <2> QED BY <1>3, <2>2, <2>3, <2>5 DEF QueuesRight, ClientRight
<1>7. ASSUME NEW d \in Clients, ChooseQueue(d) PROVE QueuesRight'
  <2>1. commit[d] = "none"
    BY <1>3, <1>7 DEF ChooseQueue, ClientRight
  <2> QED BY <1>1, <1>7, <2>1, QueuesSame DEF ChooseQueue, TypeOK, commitVars
<1>8. ASSUME NEW d \in Clients, StoreReader(d) PROVE QueuesRight'
  <2>1. ~In(d, GlobalRequestQueue) /\ ~In(d, ReaderRequestQueue)
           /\ ~In(d, ReaderWaitingRequestQueue)
    BY <1>1, <1>8, NotQueued DEF StoreReader
  <2>2. /\ request' = [request EXCEPT ![d] = "queued"]
        /\ kind[d] = "get" /\ commit[d] = "none"
        /\ UNCHANGED <<GlobalRequestQueue, kind, commit>>
    BY <1>3, <1>8 DEF StoreReader, commitVars, ClientRight
  <2>3. request'[d] = "queued" /\ \A c \in Clients : c # d => request'[c] = request[c]
    BY <1>1, <2>2 DEF TypeOK
  <2>4. CASE /\ ReaderRequestQueue' = Append(ReaderRequestQueue, d)
             /\ UNCHANGED ReaderWaitingRequestQueue
    <3>1. /\ Distinct(ReaderRequestQueue')
          /\ \A c \in Clients : In(c, ReaderRequestQueue') <=> In(c, ReaderRequestQueue) \/ c = d
      BY <1>1, <1>3, <2>1, <2>4, StoredLast DEF TypeOK
    <3>2. ASSUME NEW c \in Clients PROVE ClientRight(c)'
      BY <1>3, <2>1, <2>2, <2>3, <2>4, <3>1 DEF ClientRight, ForWorkers, ForReaders
    <3> QED BY <1>3, <2>2, <2>4, <3>1, <3>2 DEF QueuesRight, ClientRight
  <2>5. CASE /\ ReaderWaitingRequestQueue' = Append(ReaderWaitingRequestQueue, d)
             /\ UNCHANGED ReaderRequestQueue
    <3>1. /\ Distinct(ReaderWaitingRequestQueue')
          /\ \A c \in Clients : In(c, ReaderWaitingRequestQueue')
                                   <=> In(c, ReaderWaitingRequestQueue) \/ c = d
      BY <1>1, <1>3, <2>1, <2>5, StoredLast DEF TypeOK
    <3>2. ASSUME NEW c \in Clients PROVE ClientRight(c)'
      BY <1>3, <2>1, <2>2, <2>3, <2>5, <3>1 DEF ClientRight, ForWorkers, ForReaders
    <3> QED BY <1>3, <2>2, <2>5, <3>1, <3>2 DEF QueuesRight, ClientRight
  <2> QED BY <1>8, <2>4, <2>5 DEF StoreReader
<1>9. ASSUME NEW d \in Clients, Trigger(d) PROVE QueuesRight'
  <2>1. commit' = [commit EXCEPT ![d] = "session"]
    BY <1>9 DEF Trigger, TakeUniqueId
  <2> QED BY <1>1, <1>9, <2>1, QueuesSame DEF Trigger, TypeOK, Committers
<1>10. ASSUME NEW d \in Clients, TriggerRefused(d) PROVE QueuesRight'
  <2>1. commit[d] = "none"
    BY <1>3, <1>10 DEF TriggerRefused, ClientRight
  <2> QED BY <1>1, <1>10, <2>1, QueuesSame DEF TriggerRefused, TypeOK, commitVars
<1>11. ASSUME NEW d \in Clients, TriggerAnswer(d) PROVE QueuesRight'
  <2>1. request[d] = "served"
    BY <1>3, <1>11 DEF TriggerAnswer, ClientRight
  <2> QED BY <1>1, <1>11, <2>1, QueuesSame DEF TriggerAnswer, TypeOK, Committers
<1>12. ASSUME NEW d \in Clients, SetWriteUniqueId(d, UserOf[d]) \/ AppendRequest(d, FALSE)
       PROVE  QueuesRight'
  <2>1. request[d] = "served" /\ UNCHANGED <<kind, request, queueVars>>
    BY <1>3, <1>12 DEF SetWriteUniqueId, AppendRequest, ClientRight, clientVars
  <2>2. \A c \in Clients : c # d => commit'[c] = commit[c]
    BY <1>1, <1>12 DEF SetWriteUniqueId, AppendRequest, TypeOK, Committers
  <2> QED BY <1>1, <2>1, <2>2, QueuesSame
<1>13. ASSUME NEW w \in Workers,
              SetWriteUniqueId(w, UserOf[packet[w]]) \/ AppendRequest(w, TRUE) \/ WorkerWrite(w)
       PROVE  QueuesRight'
  <2>1. UNCHANGED <<kind, request, queueVars>>
    BY <1>13 DEF SetWriteUniqueId, AppendRequest, WorkerWrite, clientVars
  <2>2. ASSUME NEW c \in Clients PROVE commit'[c] = commit[c]
    <3>1. w \in Committers /\ c \in Committers /\ w # c
      BY <1>2 DEF Committers
    <3> QED BY <1>1, <1>13, <3>1, OwnCommit
  <2> QED BY <1>1, <2>1, <2>2, QueuesUntouched
<1>14. ASSUME NEW w \in Workers, WorkerTake(w) PROVE QueuesRight'
  <2>1. /\ Distinct(GlobalRequestQueue')
        /\ \A c \in Clients : In(c, GlobalRequestQueue') => In(c, GlobalRequestQueue)
    BY <1>1, <1>3, <1>14, TakenFirst DEF WorkerTake, TypeOK
  <2>2. UNCHANGED <<ReaderRequestQueue, ReaderWaitingRequestQueue, kind, request, commit>>
    BY <1>14 DEF WorkerTake, clientVars, commitVars
  <2>3. ASSUME NEW c \in Clients PROVE ClientRight(c)'
    BY <1>3, <2>1, <2>2 DEF ClientRight, ForWorkers, ForReaders
  <2> QED BY <1>3, <2>1, <2>2, <2>3 DEF QueuesRight, ClientRight
<1>15. ASSUME NEW w \in Workers, WorkerAnswer(w) PROVE QueuesRight'
  <2>1. packet[w] \in Clients /\ ForWorkers(packet[w]) /\ ~In(packet[w], GlobalRequestQueue)
    BY <1>15, AnswersPacket DEF IInv, WorkersRight
  <2>2. ~In(packet[w], ReaderRequestQueue) /\ ~In(packet[w], ReaderWaitingRequestQueue)
    BY <1>3, <2>1 DEF ClientRight, ForWorkers, ForReaders
  <2>3. \A c \in Clients : commit'[c] = commit[c]
    BY <1>1, <1>2, <1>15 DEF WorkerAnswer, TypeOK, Committers
  <2>4. commit[packet[w]] = "none"
    BY <1>3, <2>1 DEF ClientRight, ForWorkers
  <2> QED BY <1>1, <1>15, <2>1, <2>2, <2>3, <2>4, QueuesSame DEF WorkerAnswer, TypeOK
<1>16. CASE MoveRequests
  <2> DEFINE ready == {c \in Clients : is_uptodate(UserOf[c])}
             moved == Pick(ReaderWaitingRequestQueue, ready)
             kept == Pick(ReaderWaitingRequestQueue, Clients \ ready)
  <2>1. /\ ReaderRequestQueue' = ReaderRequestQueue \o moved
        /\ ReaderWaitingRequestQueue' = kept
        /\ UNCHANGED <<GlobalRequestQueue, kind, request, commit>>
    BY <1>16 DEF MoveRequests, clientVars, commitVars
  <2> HIDE DEF ready
  <2>2. /\ moved \in Seq(Clients) /\ Distinct(moved) /\ Distinct(kept)
        /\ \A c \in Clients : In(c, moved) <=> In(c, ReaderWaitingRequestQueue) /\ c \in ready
        /\ \A c \in Clients :
              In(c, kept) <=> In(c, ReaderWaitingRequestQueue) /\ c \in Clients \ ready
    BY <1>1, <1>3, PickedQueue DEF TypeOK
  <2> HIDE DEF moved, kept
  <2>3. /\ Distinct(ReaderRequestQueue \o moved)
        /\ \A c \in Clients :
              In(c, ReaderRequestQueue \o moved) <=> In(c, ReaderRequestQueue) \/ In(c, moved)
    <3>1. \A c \in Clients : ~(In(c, ReaderRequestQueue) /\ In(c, moved))
      BY <1>3, <2>2 DEF ClientRight
    <3>2. ReaderRequestQueue \in Seq(Clients)
      BY <1>1 DEF TypeOK
    <3> QED BY <1>3, <2>2, <3>1, <3>2, JoinedQueues
  <2>4. ASSUME NEW c \in Clients PROVE ClientRight(c)'
    <3>1. /\ In(c, ReaderRequestQueue') <=>
                 In(c, ReaderRequestQueue) \/ (In(c, ReaderWaitingRequestQueue) /\ c \in ready)
          /\ In(c, ReaderWaitingRequestQueue') <=>
                 In(c, ReaderWaitingRequestQueue) /\ c \notin ready
      BY <2>1, <2>2, <2>3
    <3> QED BY <1>3, <2>1, <3>1 DEF ClientRight, ForWorkers, ForReaders
  <2>5. (Distinct(GlobalRequestQueue) /\ Distinct(ReaderRequestQueue)
            /\ Distinct(ReaderWaitingRequestQueue))'
    BY <1>3, <2>1, <2>2, <2>3
  <2> QED BY <2>4, <2>5 DEF QueuesRight, ClientRight
<1>17. ASSUME NEW r \in Readers, ReaderTake(r) PROVE QueuesRight'
  <2>1. /\ Distinct(ReaderRequestQueue')
        /\ \A c \in Clients : In(c, ReaderRequestQueue') => In(c, ReaderRequestQueue)
    BY <1>1, <1>3, <1>17, TakenFirst DEF ReaderTake, TypeOK
  <2>2. UNCHANGED <<GlobalRequestQueue, ReaderWaitingRequestQueue, kind, request, commit>>
    BY <1>17 DEF ReaderTake, clientVars, commitVars
  <2>3. ASSUME NEW c \in Clients PROVE ClientRight(c)'
    BY <1>3, <2>1, <2>2 DEF ClientRight, ForWorkers, ForReaders
  <2> QED BY <1>3, <2>1, <2>2, <2>3 DEF QueuesRight, ClientRight
<1>18. ASSUME NEW r \in Readers, ReaderAnswer(r) PROVE QueuesRight'
  <2>1. /\ packet[r] \in Clients /\ ForReaders(packet[r])
        /\ ~In(packet[r], ReaderRequestQueue) /\ ~In(packet[r], ReaderWaitingRequestQueue)
    BY <1>18 DEF ReaderAnswer, IInv, ReadersRight
  <2>2. ~In(packet[r], GlobalRequestQueue) /\ commit[packet[r]] = "none"
    BY <1>3, <2>1 DEF ClientRight, ForWorkers, ForReaders
  <2> QED BY <1>1, <1>18, <2>1, <2>2, QueuesSame DEF ReaderAnswer, TypeOK, commitVars
<1> QED BY <1>4, <1>5, <1>6, <1>7, <1>8, <1>9, <1>10, <1>11, <1>12, <1>13, <1>14,
          <1>15, <1>16, <1>17, <1>18, QueueFrame

-----------------------------------------------------------------------------
(* Requests in the hands of threads *)

\* The GLOBAL queue grows by a listener and shrinks by a worker.
LEMMA GlobalQueueFrame ==
    Next => \/ UNCHANGED <<GlobalRequestQueue>>
            \/ \E c \in Clients : StoreGlobal(c)
            \/ \E w \in Workers : WorkerTake(w)
<1> USE DEF queueVars
<1>1. ASSUME NEW c \in Clients, NEW k \in Kinds, Send(c, k)
      PROVE  UNCHANGED <<GlobalRequestQueue>>
  BY <1>1 DEF Send
<1>2. ASSUME NEW c \in Clients, ListenerStep(c)
      PROVE  \/ UNCHANGED <<GlobalRequestQueue>>
             \/ StoreGlobal(c)
  BY <1>2 DEF ListenerStep, ChooseQueue, StoreReader, Trigger, TriggerRefused,
     SetWriteUniqueId, AppendRequest, TriggerAnswer
<1>3. ASSUME NEW w \in Workers, WorkerStep(w)
      PROVE  \/ UNCHANGED <<GlobalRequestQueue>>
             \/ WorkerTake(w)
  BY <1>3 DEF WorkerStep, WorkerWrite, WorkerRead, SetWriteUniqueId, AppendRequest,
     WorkerAnswer
<1>4. ASSUME EventMasterStep
      PROVE  UNCHANGED <<GlobalRequestQueue>>
  BY <1>4 DEF EventMasterStep, TakeRequests, ProcessRequests, SendEvents
<1>5. ASSUME MirrorStep
      PROVE  UNCHANGED <<GlobalRequestQueue>>
  BY <1>5 DEF MirrorStep, WaitForEvent, MirrorLock, ProcessEvents, MoveRequests,
     MirrorUnlock, ReleaseBusy
<1>6. ASSUME NEW r \in Readers, ReaderStep(r)
      PROVE  UNCHANGED <<GlobalRequestQueue>>
  BY <1>6 DEF ReaderStep, ReaderTake, ReaderAnswer
<1>7. ASSUME NEW u \in Users, RemoveUnused(u)
      PROVE  UNCHANGED <<GlobalRequestQueue>>
  BY <1>7 DEF RemoveUnused
<1>8. ASSUME ServeGlobalLock
      PROVE  UNCHANGED <<GlobalRequestQueue>>
  BY <1>8 DEF ServeGlobalLock
<1>9. ASSUME ServeReaderLock
      PROVE  UNCHANGED <<GlobalRequestQueue>>
  BY <1>9 DEF ServeReaderLock
<1> QED BY <1>1, <1>2, <1>3, <1>4, <1>5, <1>6, <1>7, <1>8, <1>9 DEF Next

\* A step keeps the workers' packets right.
LEMMA WorkersStep == IInv /\ Next => WorkersRight'
<1> SUFFICES ASSUME IInv, Next PROVE WorkersRight'
  OBVIOUS
<1>1. TypeOK /\ QueuesRight /\ WorkersRight
  BY DEF IInv
<1>2. Distinct(GlobalRequestQueue) /\ GlobalRequestQueue \in Seq(Clients)
  BY <1>1 DEF QueuesRight, TypeOK
\* A worker that has a packet took it now, or has had it.
<1>3. ASSUME NEW w \in Workers, worker'[w] # "wait"
      PROVE  \/ WorkerTake(w)
             \/ /\ worker[w] # "wait" /\ packet'[w] = packet[w]
                /\ kind'[packet[w]] = kind[packet[w]]
                /\ request'[packet[w]] = request[packet[w]]
  BY <1>3, PacketKept
<1>4. ASSUME NEW w \in Workers, WorkerTake(w)
      PROVE  /\ packet'[w] \in Clients /\ ForWorkers(packet[w])'
             /\ ~In(packet'[w], GlobalRequestQueue')
             /\ In(packet'[w], GlobalRequestQueue)
             /\ \A v \in Workers : v # w => worker'[v] = worker[v] /\ packet'[v] = packet[v]
  <2> DEFINE c == Head(GlobalRequestQueue)
  <2>1. /\ GlobalRequestQueue # <<>> /\ GlobalRequestQueue' = Tail(GlobalRequestQueue)
        /\ packet' = [packet EXCEPT ![w] = c] /\ worker' = [worker EXCEPT ![w] = "process"]
        /\ UNCHANGED <<kind, request>>
    BY <1>4 DEF WorkerTake, clientVars
  <2>2. /\ c \in Clients /\ In(c, GlobalRequestQueue)
        /\ ~In(c, Tail(GlobalRequestQueue))
    BY <1>2, <2>1, TakenFirst
  <2> HIDE DEF c
  <2>3. packet'[w] = c
    BY <1>1, <2>1 DEF TypeOK
  <2>4. \A v \in Workers : v # w => worker'[v] = worker[v] /\ packet'[v] = packet[v]
    BY <1>1, <2>1 DEF TypeOK
  <2>5. ForWorkers(c)
    BY <1>1, <2>2 DEF QueuesRight
  <2> QED BY <2>1, <2>2, <2>3, <2>4, <2>5 DEF ForWorkers
\* A packet that a worker has had is not stored a second time.
<1>5. ASSUME NEW w \in Workers, worker[w] # "wait"
      PROVE  ~In(packet[w], GlobalRequestQueue')
  <2>1. packet[w] \in Clients /\ request[packet[w]] = "queued" /\ ~In(packet[w], GlobalRequestQueue)
    BY <1>1, <1>5 DEF WorkersRight, ForWorkers
  <2>2. CASE UNCHANGED GlobalRequestQueue
    BY <2>1, <2>2
  <2>3. ASSUME NEW d \in Clients, StoreGlobal(d) PROVE ~In(packet[w], GlobalRequestQueue')
    <3>1. d # packet[w] /\ request[d] # "queued"
      BY <2>1, <2>3 DEF StoreGlobal
    <3>2. ~In(d, GlobalRequestQueue)
      BY <1>1, <3>1, NotQueued
    <3> QED BY <1>2, <2>1, <2>3, <3>1, <3>2, StoredLast DEF StoreGlobal
  <2>4. ASSUME NEW v \in Workers, WorkerTake(v) PROVE ~In(packet[w], GlobalRequestQueue')
    BY <1>2, <2>1, <2>4, TakenFirst DEF WorkerTake
  <2> QED BY <2>2, <2>3, <2>4, GlobalQueueFrame
<1>6. ASSUME NEW w \in Workers, worker'[w] # "wait"
      PROVE  packet'[w] \in Clients /\ ForWorkers(packet[w])' /\ ~In(packet'[w], GlobalRequestQueue')
  <2>1. CASE WorkerTake(w)
    BY <1>4, <2>1
  <2>2. CASE /\ worker[w] # "wait" /\ packet'[w] = packet[w]
             /\ kind'[packet[w]] = kind[packet[w]]
             /\ request'[packet[w]] = request[packet[w]]
    <3>1. packet[w] \in Clients /\ ForWorkers(packet[w])
      BY <1>1, <2>2 DEF WorkersRight
    <3> QED BY <1>5, <2>2, <3>1 DEF ForWorkers
  <2> QED BY <1>3, <1>6, <2>1, <2>2
<1>7. ASSUME NEW w \in Workers, NEW v \in Workers, v # w, worker'[w] # "wait", worker'[v] # "wait"
      PROVE  packet'[v] # packet'[w]
  <2>1. CASE WorkerTake(w)
    <3>1. worker[v] # "wait" /\ packet'[v] = packet[v] /\ In(packet'[w], GlobalRequestQueue)
      BY <1>4, <1>7, <2>1
    <3> QED BY <1>1, <3>1 DEF WorkersRight
  <2>2. CASE WorkerTake(v)
    <3>1. worker[w] # "wait" /\ packet'[w] = packet[w] /\ In(packet'[v], GlobalRequestQueue)
      BY <1>4, <1>7, <2>2
    <3> QED BY <1>1, <3>1 DEF WorkersRight
  <2>3. CASE ~WorkerTake(w) /\ ~WorkerTake(v)
    <3>1. worker[w] # "wait" /\ packet'[w] = packet[w] /\ worker[v] # "wait" /\ packet'[v] = packet[v]
      BY <1>3, <1>7, <2>3
    <3> QED BY <1>1, <1>7, <3>1 DEF WorkersRight
  <2> QED BY <2>1, <2>2, <2>3
<1> QED BY <1>6, <1>7 DEF WorkersRight

\* The steps that change a reader's place, a packet or a request.
LEMMA ReaderFrame ==
    Next => \/ UNCHANGED <<reader, packet, kind, request>>
            \/ \E c \in Clients, k \in Kinds : Send(c, k)
            \/ \E c \in Clients : 
                  \/ StoreGlobal(c)
                  \/ ChooseQueue(c)
                  \/ StoreReader(c)
                  \/ Trigger(c)
                  \/ TriggerRefused(c)
                  \/ TriggerAnswer(c)
            \/ \E w \in Workers : WorkerTake(w) \/ WorkerAnswer(w)
            \/ \E r \in Readers : ReaderTake(r) \/ ReaderAnswer(r)
<1> USE DEF threadVars, clientVars
<1>1. ASSUME NEW c \in Clients, ListenerStep(c)
      PROVE  \/ UNCHANGED <<reader, packet, kind, request>>
             \/ StoreGlobal(c) \/ ChooseQueue(c) \/ StoreReader(c) \/ Trigger(c)
             \/ TriggerRefused(c) \/ TriggerAnswer(c)
  BY <1>1 DEF ListenerStep, SetWriteUniqueId, AppendRequest
<1>2. ASSUME NEW w \in Workers, WorkerStep(w)
      PROVE  \/ UNCHANGED <<reader, packet, kind, request>>
             \/ WorkerTake(w) \/ WorkerAnswer(w)
  BY <1>2 DEF WorkerStep, WorkerWrite, WorkerRead, SetWriteUniqueId, AppendRequest
<1>3. ASSUME EventMasterStep
      PROVE  UNCHANGED <<reader, packet, kind, request>>
  BY <1>3 DEF EventMasterStep, TakeRequests, ProcessRequests, SendEvents
<1>4. ASSUME MirrorStep
      PROVE  UNCHANGED <<reader, packet, kind, request>>
  BY <1>4 DEF MirrorStep, WaitForEvent, MirrorLock, ProcessEvents, MoveRequests,
     MirrorUnlock, ReleaseBusy
<1>5. ASSUME NEW u \in Users, RemoveUnused(u)
      PROVE  UNCHANGED <<reader, packet, kind, request>>
  BY <1>5 DEF RemoveUnused
<1>6. ASSUME ServeGlobalLock
      PROVE  UNCHANGED <<reader, packet, kind, request>>
  BY <1>6 DEF ServeGlobalLock
<1>7. ASSUME ServeReaderLock
      PROVE  UNCHANGED <<reader, packet, kind, request>>
  BY <1>7 DEF ServeReaderLock
<1> QED BY <1>1, <1>2, <1>3, <1>4, <1>5, <1>6, <1>7 DEF Next, ReaderStep

\* A reader keeps its packet, and the packet stays as it is, until the answer.
LEMMA ReaderKept ==
    ASSUME IInv, Next, NEW r \in Readers
    PROVE  \/ ReaderTake(r)
           \/ ReaderAnswer(r) /\ reader'[r] = "wait"
           \/ /\ reader'[r] # "wait" <=> reader[r] # "wait"
              /\ packet'[r] = packet[r]
              /\ reader[r] # "wait" =>
                    /\ kind'[packet[r]] = kind[packet[r]]
                    /\ request'[packet[r]] = request[packet[r]]
<1> DEFINE c == packet[r]
           Same == /\ reader'[r] # "wait" <=> reader[r] # "wait"
                   /\ packet'[r] = c
                   /\ reader[r] # "wait" => kind'[c] = kind[c] /\ request'[c] = request[c]
<1> SUFFICES ReaderTake(r) \/ (ReaderAnswer(r) /\ reader'[r] = "wait") \/ Same
  OBVIOUS
<1>1. reader[r] # "wait" => c \in Clients /\ request[c] = "queued" /\ kind[c] = "get"
  BY DEF IInv, ReadersRight, ForReaders
<1>2. TypeOK
  BY DEF IInv
<1>3. r \notin Workers /\ r \in Workers \cup Readers
  BY ThreadsAssumption
<1>4. CASE UNCHANGED <<reader, packet, kind, request>>
  BY <1>4
<1>5. ASSUME NEW d \in Clients, request[d] # "queued", UNCHANGED <<reader, packet>>,
             \A e \in Clients : e # d => kind'[e] = kind[e] /\ request'[e] = request[e]
      PROVE  Same
  BY <1>1, <1>5
<1>6. ASSUME NEW d \in Clients, NEW k \in Kinds, Send(d, k) PROVE Same
  BY <1>2, <1>5, <1>6 DEF Send, TypeOK, threadVars
<1>7. ASSUME NEW d \in Clients, StoreGlobal(d) PROVE Same
  BY <1>2, <1>5, <1>7 DEF StoreGlobal, TypeOK, threadVars
<1>8. ASSUME NEW d \in Clients, ChooseQueue(d) PROVE Same
  BY <1>2, <1>5, <1>8 DEF ChooseQueue, TypeOK, threadVars
<1>9. ASSUME NEW d \in Clients, StoreReader(d) PROVE Same
  BY <1>2, <1>5, <1>9 DEF StoreReader, TypeOK, threadVars
<1>10. ASSUME NEW d \in Clients, Trigger(d) \/ TriggerRefused(d) PROVE Same
  BY <1>2, <1>5, <1>10 DEF Trigger, TriggerRefused, TypeOK, threadVars
<1>11. ASSUME NEW d \in Clients, TriggerAnswer(d) PROVE Same
  <2>1. request[d] = "served"
    BY <1>11 DEF TriggerAnswer, IInv, QueuesRight
  <2> QED BY <1>2, <1>5, <1>11, <2>1 DEF TriggerAnswer, TypeOK, threadVars
<1>12. ASSUME NEW w \in Workers, WorkerTake(w) PROVE Same
  BY <1>2, <1>3, <1>12 DEF WorkerTake, TypeOK, clientVars
<1>13. ASSUME NEW w \in Workers, WorkerAnswer(w) PROVE Same
  <2>1. reader[r] # "wait" => c # packet[w]
    BY <1>1, <1>13, AnswersPacket DEF ForWorkers
  <2> QED BY <1>1, <1>2, <1>3, <1>13, <2>1 DEF WorkerAnswer, TypeOK
<1>14. ASSUME NEW v \in Readers, ReaderTake(v), v # r PROVE Same
  BY <1>2, <1>3, <1>14 DEF ReaderTake, TypeOK, clientVars
<1>15. ASSUME NEW v \in Readers, ReaderAnswer(v), v # r PROVE Same
  <2>1. reader[r] # "wait" => c # packet[v]
    BY <1>15 DEF ReaderAnswer, IInv, ReadersRight
  <2> QED BY <1>1, <1>2, <1>3, <1>15, <2>1 DEF ReaderAnswer, TypeOK
<1>16. ReaderAnswer(r) => reader'[r] = "wait"
  BY <1>2 DEF ReaderAnswer, TypeOK
<1> HIDE DEF Same
<1> QED BY <1>4, <1>6, <1>7, <1>8, <1>9, <1>10, <1>11, <1>12, <1>13, <1>14, <1>15,
          <1>16, ReaderFrame

\* The queues of the readers grow by a listener, shrink by a reader, and the mirror
\* moves requests from one to the other.
LEMMA ReaderQueueFrame ==
    Next => \/ UNCHANGED <<ReaderRequestQueue, ReaderWaitingRequestQueue>>
            \/ \E c \in Clients : StoreReader(c)
            \/ MoveRequests
            \/ \E r \in Readers : ReaderTake(r)
<1> USE DEF queueVars
<1>1. ASSUME NEW c \in Clients, NEW k \in Kinds, Send(c, k)
      PROVE  UNCHANGED <<ReaderRequestQueue, ReaderWaitingRequestQueue>>
  BY <1>1 DEF Send
<1>2. ASSUME NEW c \in Clients, ListenerStep(c)
      PROVE  \/ UNCHANGED <<ReaderRequestQueue, ReaderWaitingRequestQueue>>
             \/ StoreReader(c)
  BY <1>2 DEF ListenerStep, StoreGlobal, ChooseQueue, Trigger, TriggerRefused,
     SetWriteUniqueId, AppendRequest, TriggerAnswer
<1>3. ASSUME NEW w \in Workers, WorkerStep(w)
      PROVE  UNCHANGED <<ReaderRequestQueue, ReaderWaitingRequestQueue>>
  BY <1>3 DEF WorkerStep, WorkerTake, WorkerWrite, WorkerRead, SetWriteUniqueId,
     AppendRequest, WorkerAnswer
<1>4. ASSUME EventMasterStep
      PROVE  UNCHANGED <<ReaderRequestQueue, ReaderWaitingRequestQueue>>
  BY <1>4 DEF EventMasterStep, TakeRequests, ProcessRequests, SendEvents
<1>5. ASSUME MirrorStep
      PROVE  \/ UNCHANGED <<ReaderRequestQueue, ReaderWaitingRequestQueue>>
             \/ MoveRequests
  BY <1>5 DEF MirrorStep, WaitForEvent, MirrorLock, ProcessEvents, MirrorUnlock,
     ReleaseBusy
<1>6. ASSUME NEW r \in Readers, ReaderStep(r)
      PROVE  \/ UNCHANGED <<ReaderRequestQueue, ReaderWaitingRequestQueue>>
             \/ ReaderTake(r)
  BY <1>6 DEF ReaderStep, ReaderAnswer
<1>7. ASSUME NEW u \in Users, RemoveUnused(u)
      PROVE  UNCHANGED <<ReaderRequestQueue, ReaderWaitingRequestQueue>>
  BY <1>7 DEF RemoveUnused
<1>8. ASSUME ServeGlobalLock
      PROVE  UNCHANGED <<ReaderRequestQueue, ReaderWaitingRequestQueue>>
  BY <1>8 DEF ServeGlobalLock
<1>9. ASSUME ServeReaderLock
      PROVE  UNCHANGED <<ReaderRequestQueue, ReaderWaitingRequestQueue>>
  BY <1>9 DEF ServeReaderLock
<1> QED BY <1>1, <1>2, <1>3, <1>4, <1>5, <1>6, <1>7, <1>8, <1>9 DEF Next

\* What a step adds to the queues of the readers.
LEMMA ReaderQueuesGrow ==
    ASSUME PicksRight, IInv, Next, NEW c \in Clients
    PROVE  /\ In(c, ReaderWaitingRequestQueue') =>
                 In(c, ReaderWaitingRequestQueue) \/ request[c] = "to_waiting"
           /\ In(c, ReaderRequestQueue') =>
                 \/ In(c, ReaderRequestQueue)
                 \/ request[c] = "to_reader"
                 \/ MoveRequests /\ In(c, ReaderWaitingRequestQueue) /\ is_uptodate(UserOf[c])
<1>1. TypeOK /\ QueuesRight
  BY DEF IInv
<1>2. /\ ReaderRequestQueue \in Seq(Clients) /\ ReaderWaitingRequestQueue \in Seq(Clients)
      /\ Distinct(ReaderRequestQueue) /\ Distinct(ReaderWaitingRequestQueue)
      /\ \A d \in Clients : ~(In(d, ReaderRequestQueue) /\ In(d, ReaderWaitingRequestQueue))
  BY <1>1 DEF TypeOK, QueuesRight
<1>3. CASE UNCHANGED <<ReaderRequestQueue, ReaderWaitingRequestQueue>>
  BY <1>3
<1>4. ASSUME NEW d \in Clients, StoreReader(d)
      PROVE  /\ In(c, ReaderWaitingRequestQueue') =>
                   In(c, ReaderWaitingRequestQueue) \/ request[c] = "to_waiting"
             /\ In(c, ReaderRequestQueue') => In(c, ReaderRequestQueue) \/ request[c] = "to_reader"
  <2>1. ~In(d, ReaderRequestQueue) /\ ~In(d, ReaderWaitingRequestQueue)
    BY <1>1, <1>4, NotQueued DEF StoreReader
  <2>2. CASE /\ request[d] = "to_reader"
             /\ ReaderRequestQueue' = Append(ReaderRequestQueue, d)
             /\ UNCHANGED ReaderWaitingRequestQueue
    BY <1>2, <2>1, <2>2, StoredLast
  <2>3. CASE /\ request[d] = "to_waiting"
             /\ ReaderWaitingRequestQueue' = Append(ReaderWaitingRequestQueue, d)
             /\ UNCHANGED ReaderRequestQueue
    BY <1>2, <2>1, <2>3, StoredLast
  <2> QED BY <1>4, <2>2, <2>3 DEF StoreReader
<1>5. ASSUME NEW r \in Readers, ReaderTake(r)
      PROVE  /\ UNCHANGED ReaderWaitingRequestQueue
             /\ In(c, ReaderRequestQueue') => In(c, ReaderRequestQueue)
  BY <1>2, <1>5, TakenFirst DEF ReaderTake
<1>6. ASSUME MoveRequests
      PROVE  /\ In(c, ReaderWaitingRequestQueue') => In(c, ReaderWaitingRequestQueue)
             /\ In(c, ReaderRequestQueue') =>
                   \/ In(c, ReaderRequestQueue)
                   \/ In(c, ReaderWaitingRequestQueue) /\ is_uptodate(UserOf[c])
  <2> DEFINE ready == {d \in Clients : is_uptodate(UserOf[d])}
             moved == Pick(ReaderWaitingRequestQueue, ready)
             kept == Pick(ReaderWaitingRequestQueue, Clients \ ready)
  <2>1. ReaderRequestQueue' = ReaderRequestQueue \o moved /\ ReaderWaitingRequestQueue' = kept
    BY <1>6 DEF MoveRequests
  <2>2. c \in ready => is_uptodate(UserOf[c])
    OBVIOUS
  <2> HIDE DEF ready
  <2>3. /\ moved \in Seq(Clients) /\ Distinct(moved)
        /\ \A d \in Clients : In(d, moved) <=> In(d, ReaderWaitingRequestQueue) /\ d \in ready
        /\ \A d \in Clients :
              In(d, kept) <=> In(d, ReaderWaitingRequestQueue) /\ d \in Clients \ ready
    BY <1>2, PickedQueue
  <2> HIDE DEF moved, kept
  <2>4. \A d \in Clients :
           In(d, ReaderRequestQueue \o moved) <=> In(d, ReaderRequestQueue) \/ In(d, moved)
    <3>1. \A d \in Clients : ~(In(d, ReaderRequestQueue) /\ In(d, moved))
      BY <1>2, <2>3
    <3> QED BY <1>2, <2>3, <3>1, JoinedQueues
  <2> QED BY <2>1, <2>2, <2>3, <2>4
<1> QED BY <1>3, <1>4, <1>5, <1>6, ReaderQueueFrame

\* A step keeps the readers' packets right.
LEMMA ReadersStep == PicksRight /\ IInv /\ Next => ReadersRight'
<1> SUFFICES ASSUME PicksRight, IInv, Next PROVE ReadersRight'
  OBVIOUS
<1>1. TypeOK /\ QueuesRight /\ ReadersRight
  BY DEF IInv
<1>2. Distinct(ReaderRequestQueue) /\ ReaderRequestQueue \in Seq(Clients)
  BY <1>1 DEF QueuesRight, TypeOK
<1>3. ASSUME NEW r \in Readers, reader'[r] # "wait"
      PROVE  \/ ReaderTake(r)
             \/ /\ reader[r] # "wait" /\ packet'[r] = packet[r]
                /\ kind'[packet[r]] = kind[packet[r]]
                /\ request'[packet[r]] = request[packet[r]]
  BY <1>3, ReaderKept
<1>4. ASSUME NEW r \in Readers, ReaderTake(r)
      PROVE  /\ packet'[r] \in Clients /\ ForReaders(packet[r])'
             /\ ~In(packet'[r], ReaderRequestQueue') /\ ~In(packet'[r], ReaderWaitingRequestQueue')
             /\ In(packet'[r], ReaderRequestQueue)
             /\ \A v \in Readers : v # r => reader'[v] = reader[v] /\ packet'[v] = packet[v]
  <2> DEFINE c == Head(ReaderRequestQueue)
  <2>1. /\ ReaderRequestQueue # <<>> /\ ReaderRequestQueue' = Tail(ReaderRequestQueue)
        /\ packet' = [packet EXCEPT ![r] = c] /\ reader' = [reader EXCEPT ![r] = "process"]
        /\ UNCHANGED <<kind, request, ReaderWaitingRequestQueue>>
    BY <1>4 DEF ReaderTake, clientVars
  <2>2. /\ c \in Clients /\ In(c, ReaderRequestQueue)
        /\ ~In(c, Tail(ReaderRequestQueue))
    BY <1>2, <2>1, TakenFirst
  <2> HIDE DEF c
  <2>3. packet'[r] = c
    BY <1>1, <2>1 DEF TypeOK
  <2>4. \A v \in Readers : v # r => reader'[v] = reader[v] /\ packet'[v] = packet[v]
    BY <1>1, <2>1 DEF TypeOK
  <2>5. ForReaders(c) /\ ~In(c, ReaderWaitingRequestQueue)
    BY <1>1, <2>2 DEF QueuesRight
  <2> QED BY <2>1, <2>2, <2>3, <2>4, <2>5 DEF ForReaders
<1>5. ASSUME NEW r \in Readers, reader[r] # "wait"
      PROVE  ~In(packet[r], ReaderRequestQueue') /\ ~In(packet[r], ReaderWaitingRequestQueue')
  <2>1. /\ packet[r] \in Clients /\ request[packet[r]] = "queued"
        /\ ~In(packet[r], ReaderRequestQueue) /\ ~In(packet[r], ReaderWaitingRequestQueue)
    BY <1>1, <1>5 DEF ReadersRight, ForReaders
  <2> QED BY <2>1, ReaderQueuesGrow
<1>6. ASSUME NEW r \in Readers, reader'[r] # "wait"
      PROVE  /\ packet'[r] \in Clients /\ ForReaders(packet[r])'
             /\ ~In(packet'[r], ReaderRequestQueue') /\ ~In(packet'[r], ReaderWaitingRequestQueue')
  <2>1. CASE ReaderTake(r)
    BY <1>4, <2>1
  <2>2. CASE /\ reader[r] # "wait" /\ packet'[r] = packet[r]
             /\ kind'[packet[r]] = kind[packet[r]]
             /\ request'[packet[r]] = request[packet[r]]
    <3>1. packet[r] \in Clients /\ ForReaders(packet[r])
      BY <1>1, <2>2 DEF ReadersRight
    <3> QED BY <1>5, <2>2, <3>1 DEF ForReaders
  <2> QED BY <1>3, <1>6, <2>1, <2>2
<1>7. ASSUME NEW r \in Readers, NEW v \in Readers, v # r, reader'[r] # "wait", reader'[v] # "wait"
      PROVE  packet'[v] # packet'[r]
  <2>1. CASE ReaderTake(r)
    <3>1. reader[v] # "wait" /\ packet'[v] = packet[v] /\ In(packet'[r], ReaderRequestQueue)
      BY <1>4, <1>7, <2>1
    <3> QED BY <1>1, <3>1 DEF ReadersRight
  <2>2. CASE ReaderTake(v)
    <3>1. reader[r] # "wait" /\ packet'[r] = packet[r] /\ In(packet'[v], ReaderRequestQueue)
      BY <1>4, <1>7, <2>2
    <3> QED BY <1>1, <3>1 DEF ReadersRight
  <2>3. CASE ~ReaderTake(r) /\ ~ReaderTake(v)
    <3>1. reader[r] # "wait" /\ packet'[r] = packet[r] /\ reader[v] # "wait" /\ packet'[v] = packet[v]
      BY <1>3, <1>7, <2>3
    <3> QED BY <1>1, <1>7, <3>1 DEF ReadersRight
  <2> QED BY <2>1, <2>2, <2>3
<1> QED BY <1>6, <1>7 DEF ReadersRight

-----------------------------------------------------------------------------
(* The clients and their sessions *)

\* The steps that change a commit, a worker's place or the GLOBAL data store.
LEMMA CommitFrame ==
    Next => \/ UNCHANGED <<commit, commit_id, worker, global_ds>>
            \/ \E c \in Clients : 
                  \/ Trigger(c)
                  \/ SetWriteUniqueId(c, UserOf[c])
                  \/ AppendRequest(c, FALSE)
                  \/ TriggerAnswer(c)
            \/ \E w \in Workers : 
                  \/ WorkerTake(w)
                  \/ WorkerWrite(w)
                  \/ WorkerRead(w)
                  \/ packet[w] # None /\ SetWriteUniqueId(w, UserOf[packet[w]])
                  \/ AppendRequest(w, TRUE)
                  \/ WorkerAnswer(w)
<1> USE DEF threadVars, commitVars, storeVars
<1>1. ASSUME NEW c \in Clients, NEW k \in Kinds, Send(c, k)
      PROVE  UNCHANGED <<commit, commit_id, worker, global_ds>>
  BY <1>1 DEF Send
<1>2. ASSUME NEW c \in Clients, ListenerStep(c)
      PROVE  \/ UNCHANGED <<commit, commit_id, worker, global_ds>>
             \/ Trigger(c) \/ SetWriteUniqueId(c, UserOf[c])
             \/ AppendRequest(c, FALSE) \/ TriggerAnswer(c)
  BY <1>2 DEF ListenerStep, StoreGlobal, ChooseQueue, StoreReader, TriggerRefused
<1>3. ASSUME EventMasterStep
      PROVE  UNCHANGED <<commit, commit_id, worker, global_ds>>
  BY <1>3 DEF EventMasterStep, TakeRequests, ProcessRequests, SendEvents
<1>4. ASSUME MirrorStep
      PROVE  UNCHANGED <<commit, commit_id, worker, global_ds>>
  BY <1>4 DEF MirrorStep, WaitForEvent, MirrorLock, ProcessEvents, MoveRequests,
     MirrorUnlock, ReleaseBusy
<1>5. ASSUME NEW r \in Readers, ReaderStep(r)
      PROVE  UNCHANGED <<commit, commit_id, worker, global_ds>>
  BY <1>5 DEF ReaderStep, ReaderTake, ReaderAnswer
<1>6. ASSUME NEW u \in Users, RemoveUnused(u)
      PROVE  UNCHANGED <<commit, commit_id, worker, global_ds>>
  BY <1>6 DEF RemoveUnused
<1>7. ASSUME ServeGlobalLock
      PROVE  UNCHANGED <<commit, commit_id, worker, global_ds>>
  BY <1>7 DEF ServeGlobalLock
<1>8. ASSUME ServeReaderLock
      PROVE  UNCHANGED <<commit, commit_id, worker, global_ds>>
  BY <1>8 DEF ServeReaderLock
<1> QED BY <1>1, <1>2, <1>3, <1>4, <1>5, <1>6, <1>7, <1>8 DEF Next, WorkerStep

\* Without triggers the listeners never commit.
LEMMA ClientsStep ==
    ASSUME IInv, Next, SessionsReliable
    PROVE  ClientsKnown'
<1>1. TypeOK /\ ClientsKnown /\ "trigger" \notin Kinds
  BY DEF IInv, SessionsRight, SessionsReliable
<1>2. \A w \in Workers : w \notin Clients
  BY ThreadsAssumption
<1>3. \A c \in Clients : /\ ~Trigger(c) /\ ~TriggerRefused(c) /\ ~TriggerAnswer(c)
                         /\ ~SetWriteUniqueId(c, UserOf[c]) /\ ~AppendRequest(c, FALSE)
  BY <1>1 DEF ClientsKnown, Trigger, TriggerRefused, TriggerAnswer, SetWriteUniqueId,
     AppendRequest
<1>4. ASSUME NEW c \in Clients PROVE commit'[c] = "none"
  <2>1. commit[c] = "none" /\ c \in Committers
    BY <1>1 DEF ClientsKnown, Committers
  <2>2. ASSUME NEW w \in Workers,
               \/ WorkerTake(w) \/ WorkerWrite(w) \/ WorkerRead(w)
               \/ SetWriteUniqueId(w, UserOf[packet[w]])
               \/ AppendRequest(w, TRUE) \/ WorkerAnswer(w)
        PROVE  commit'[c] = commit[c]
    <3>1. w # c
      BY <1>2
    <3>2. w \in Committers
      BY DEF Committers
    <3> QED BY <1>1, <2>1, <2>2, <3>1, <3>2, OwnCommit
  <2> QED BY <1>3, <2>1, <2>2, CommitFrame
<1>5. ASSUME NEW c \in Clients
      PROVE  /\ kind'[c] # "trigger"
             /\ request'[c] # "idle" /\ kind'[c] = "get" => UserOf[c] # GDI_SESSION_NONE
  <2>1. /\ kind[c] # "trigger"
        /\ request[c] # "idle" /\ kind[c] = "get" => UserOf[c] # GDI_SESSION_NONE
    BY <1>1 DEF ClientsKnown
  <2>2. CASE UNCHANGED <<kind, request>>
    BY <2>1, <2>2
  <2>3. ASSUME NEW d \in Clients, NEW k \in Kinds, Send(d, k)
        PROVE  /\ kind'[c] # "trigger"
               /\ request'[c] # "idle" /\ kind'[c] = "get" => UserOf[c] # GDI_SESSION_NONE
    <3>1. CASE c = d
      BY <1>1, <2>3, <3>1 DEF Send, TypeOK
    <3>2. CASE c # d
      BY <1>1, <2>1, <2>3, <3>2 DEF Send, TypeOK
    <3> QED BY <3>1, <3>2
  <2>4. ASSUME NEW d \in Clients, StoreGlobal(d) \/ ChooseQueue(d) \/ StoreReader(d)
        PROVE  kind' = kind /\ (request'[c] # "idle" => request[c] # "idle")
    BY <1>1, <2>4 DEF StoreGlobal, ChooseQueue, StoreReader, TypeOK
  <2>5. ASSUME NEW d, request' = [request EXCEPT ![d] = "idle"],
               kind' = [kind EXCEPT ![d] = "get"] \/ kind' = kind
        PROVE  /\ kind'[c] # "trigger"
               /\ request'[c] # "idle" /\ kind'[c] = "get" => UserOf[c] # GDI_SESSION_NONE
    BY <1>1, <2>1, <2>5 DEF TypeOK
  <2>6. ASSUME NEW w \in Workers, WorkerAnswer(w)
        PROVE  /\ kind'[c] # "trigger"
               /\ request'[c] # "idle" /\ kind'[c] = "get" => UserOf[c] # GDI_SESSION_NONE
    <3>1. PICK d : d = packet[w]
      OBVIOUS
    <3>2. request' = [request EXCEPT ![d] = "idle"] /\ kind' = [kind EXCEPT ![d] = "get"]
      BY <2>6, <3>1 DEF WorkerAnswer
    <3> QED BY <2>5, <3>2
  <2>7. ASSUME NEW r \in Readers, ReaderAnswer(r)
        PROVE  /\ kind'[c] # "trigger"
               /\ request'[c] # "idle" /\ kind'[c] = "get" => UserOf[c] # GDI_SESSION_NONE
    <3>1. PICK d : d = packet[r]
      OBVIOUS
    <3>2. request' = [request EXCEPT ![d] = "idle"] /\ kind' = kind
      BY <2>7, <3>1 DEF ReaderAnswer
    <3> QED BY <2>5, <3>2
  <2>8. ASSUME NEW w \in Workers, WorkerTake(w) \/ WorkerWrite(w) \/ WorkerRead(w)
        PROVE  UNCHANGED <<kind, request>>
    BY <2>8 DEF WorkerTake, WorkerWrite, WorkerRead, clientVars
  <2>9. ASSUME NEW r \in Readers, ReaderTake(r) PROVE UNCHANGED <<kind, request>>
    BY <2>9 DEF ReaderTake, clientVars
  <2> QED BY <1>3, <2>1, <2>2, <2>3, <2>4, <2>6, <2>7, <2>8, <2>9, PacketFrame
<1> QED BY <1>4, <1>5 DEF ClientsKnown

\* A request that goes to the readers was going there, or its session was found
\* to be reached.
LEMMA ToReaderFrom ==
    ASSUME IInv, Next, NEW c \in Clients, request'[c] = "to_reader"
    PROVE  \/ request[c] = "to_reader"
           \/ request[c] = "arrived" /\ kind[c] = "get" /\ is_uptodate(UserOf[c])
<1>1. TypeOK
  BY DEF IInv
<1>2. ASSUME NEW d, NEW x, x # "to_reader", request' = [request EXCEPT ![d] = x]
      PROVE  request[c] = "to_reader"
  BY <1>1, <1>2 DEF TypeOK
<1>3. ASSUME NEW d \in Clients, NEW k \in Kinds, Send(d, k) PROVE request[c] = "to_reader"
  BY <1>2, <1>3 DEF Send
<1>4. ASSUME NEW d \in Clients, \/ StoreGlobal(d) \/ StoreReader(d) \/ Trigger(d)
                                \/ TriggerRefused(d) \/ TriggerAnswer(d)
      PROVE  request[c] = "to_reader"
  BY <1>2, <1>4 DEF StoreGlobal, StoreReader, Trigger, TriggerRefused, TriggerAnswer
<1>5. ASSUME NEW d \in Clients, ChooseQueue(d)
      PROVE  \/ request[c] = "to_reader"
             \/ request[c] = "arrived" /\ kind[c] = "get" /\ is_uptodate(UserOf[c])
  BY <1>1, <1>5 DEF ChooseQueue, TypeOK
<1>6. ASSUME NEW w \in Workers, WorkerTake(w) \/ WorkerWrite(w) \/ WorkerRead(w)
      PROVE  request[c] = "to_reader"
  BY <1>6 DEF WorkerTake, WorkerWrite, WorkerRead, clientVars
<1>7. ASSUME NEW w \in Workers, WorkerAnswer(w) PROVE request[c] = "to_reader"
  <2>1. PICK d : request' = [request EXCEPT ![d] = "idle"]
    BY <1>7 DEF WorkerAnswer
  <2> QED BY <1>2, <2>1
<1>8. ASSUME NEW r \in Readers, ReaderAnswer(r) PROVE request[c] = "to_reader"
  <2>1. PICK d : request' = [request EXCEPT ![d] = "idle"]
    BY <1>8 DEF ReaderAnswer
  <2> QED BY <1>2, <2>1
<1>9. ASSUME NEW r \in Readers, ReaderTake(r) PROVE request[c] = "to_reader"
  BY <1>9 DEF ReaderTake, clientVars
<1> QED BY <1>3, <1>4, <1>5, <1>6, <1>7, <1>8, <1>9, PacketFrame
=============================================================================
