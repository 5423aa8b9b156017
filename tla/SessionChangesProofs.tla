------------------------ MODULE SessionChangesProofs ------------------------
(* LOCK_GLOBAL, the types, the way of a change from its commit to the mirror    *)
(* and the answers: every step keeps the parts of the invariant of SessionReads *)
(* that speak of these.                                                         *)
EXTENDS SessionReads, TLAPS

-----------------------------------------------------------------------------
(* LOCK_GLOBAL *)

\* LOCK_GLOBAL is taken and given back by the workers and the event master.
LEMMA LockFrame ==
    Next => \/ UNCHANGED <<global_queue, global_hold>>
            \/ \E w \in Workers : WorkerTake(w) \/ WorkerAnswer(w)
            \/ TakeRequests \/ ProcessRequests
            \/ ServeGlobalLock
<1> USE DEF globalLock
<1>1. ASSUME NEW c \in Clients, NEW k \in Kinds, Send(c, k)
      PROVE  UNCHANGED <<global_queue, global_hold>>
  BY <1>1 DEF Send
<1>2. ASSUME NEW c \in Clients, ListenerStep(c)
      PROVE  UNCHANGED <<global_queue, global_hold>>
  BY <1>2 DEF ListenerStep, StoreGlobal, ChooseQueue, StoreReader, Trigger,
     TriggerRefused, SetWriteUniqueId, AppendRequest, TriggerAnswer
<1>3. ASSUME NEW w \in Workers, WorkerStep(w)
      PROVE  \/ UNCHANGED <<global_queue, global_hold>>
             \/ WorkerTake(w) \/ WorkerAnswer(w)
  BY <1>3 DEF WorkerStep, WorkerWrite, WorkerRead, SetWriteUniqueId, AppendRequest
<1>4. ASSUME EventMasterStep
      PROVE  \/ UNCHANGED <<global_queue, global_hold>>
             \/ TakeRequests \/ ProcessRequests
  BY <1>4 DEF EventMasterStep, SendEvents
<1>5. ASSUME MirrorStep
      PROVE  UNCHANGED <<global_queue, global_hold>>
  BY <1>5 DEF MirrorStep, WaitForEvent, MirrorLock, ProcessEvents, MoveRequests,
     MirrorUnlock, ReleaseBusy
<1>6. ASSUME NEW r \in Readers, ReaderStep(r)
      PROVE  UNCHANGED <<global_queue, global_hold>>
  BY <1>6 DEF ReaderStep, ReaderTake, ReaderAnswer
<1>7. ASSUME NEW u \in Users, RemoveUnused(u)
      PROVE  UNCHANGED <<global_queue, global_hold>>
  BY <1>7 DEF RemoveUnused
<1>8. ASSUME ServeReaderLock
      PROVE  UNCHANGED <<global_queue, global_hold>>
  BY <1>8 DEF ServeReaderLock
<1> QED BY <1>1, <1>2, <1>3, <1>4, <1>5, <1>6, <1>7, <1>8 DEF Next

LockThreads == Workers \cup {EventMaster}

LockModes == {"none", "read", "nested", "write"}

\* A lock that is granted at once, or to the first that waits.
LEMMA LockTaken ==
    ASSUME LockRight, NEW t \in LockThreads, NEW r \in BOOLEAN,
           GlobalLock!Compatible(r), GlobalLock!Take(t, r)
    PROVE  /\ global_hold' \in [LockThreads -> LockModes]
           /\ \A u, v \in LockThreads :
                 u # v /\ global_hold'[u] = "write" => global_hold'[v] = "none"
           /\ \A u \in LockThreads : u # t => global_hold'[u] = global_hold[u]
           /\ ~r => global_hold'[t] = "write"
           /\ r => global_hold'[t] \in {"read", "nested"}
<1> DEFINE m == IF ~r THEN "write" ELSE IF global_hold[t] = "read" THEN "nested" ELSE "read"
<1>1. global_hold' = [global_hold EXCEPT ![t] = m]
  BY DEF GlobalLock!Take
<1>2. m \in LockModes /\ m # "none" /\ (~r => m = "write") /\ (r => m \in {"read", "nested"})
  BY DEF LockModes
<1> HIDE DEF m
<1>3. global_hold \in [LockThreads -> LockModes]
  BY DEF LockRight, LockThreads, LockModes
<1>4. \A u \in LockThreads : global_hold[u] # "write" /\ (~r => global_hold[u] = "none")
  BY DEF GlobalLock!Compatible, LockThreads
<1>5. /\ global_hold' \in [LockThreads -> LockModes]
      /\ global_hold'[t] = m
      /\ \A u \in LockThreads : u # t => global_hold'[u] = global_hold[u]
  BY <1>1, <1>2, <1>3
<1> QED BY <1>2, <1>4, <1>5

\* A request that is put at the end of the queue.
LEMMA LockWaits ==
    ASSUME LockRight, NEW t \in LockThreads, NEW r \in BOOLEAN, GlobalLock!Wait(t, r)
    PROVE  /\ LockRight'
           /\ UNCHANGED global_hold
           /\ Len(global_queue') = Len(global_queue) + 1 /\ Len(global_queue) \in Nat
           /\ global_queue'[Len(global_queue) + 1] = [thread |-> t, is_reader |-> r]
           /\ \A i \in 1 .. Len(global_queue) : global_queue'[i] = global_queue[i]
<1> DEFINE E == [thread : LockThreads, is_reader : BOOLEAN]
           e == [thread |-> t, is_reader |-> r]
<1>1. global_queue \in Seq(E) /\ e \in E
  BY DEF LockRight, LockThreads
<1>2. global_queue' = Append(global_queue, e) /\ UNCHANGED global_hold
  BY DEF GlobalLock!Wait
<1> HIDE DEF E, e
<1>3. /\ global_queue' \in Seq(E) /\ Len(global_queue) \in Nat
      /\ Len(global_queue') = Len(global_queue) + 1
      /\ global_queue'[Len(global_queue) + 1] = e
      /\ \A i \in 1 .. Len(global_queue) : global_queue'[i] = global_queue[i]
  BY <1>1, <1>2
<1>4. LockRight'
  BY <1>2, <1>3 DEF LockRight, LockThreads, E
<1> QED BY <1>2, <1>3, <1>4 DEF e

\* A request that is granted at once.
LEMMA LockEntered ==
    ASSUME LockRight, NEW t \in LockThreads, NEW r \in BOOLEAN, GlobalLock!Enter(t, r)
    PROVE  LockRight' /\ UNCHANGED global_queue
<1>1. GlobalLock!Compatible(r) /\ GlobalLock!Take(t, r) /\ UNCHANGED global_queue
  BY DEF GlobalLock!Enter
<1>2. /\ global_hold' \in [LockThreads -> LockModes]
      /\ \A u, v \in LockThreads :
            u # v /\ global_hold'[u] = "write" => global_hold'[v] = "none"
  BY <1>1, LockTaken
<1> QED BY <1>1, <1>2 DEF LockRight, LockThreads, LockModes

\* The lock is given back.
LEMMA LockReleased ==
    ASSUME LockRight, NEW t \in LockThreads, GlobalLock!Release(t)
    PROVE  /\ LockRight'
           /\ UNCHANGED global_queue
           /\ \A u \in LockThreads : u # t => global_hold'[u] = global_hold[u]
<1> DEFINE m == IF global_hold[t] = "nested" THEN "read" ELSE "none"
<1>1. global_hold' = [global_hold EXCEPT ![t] = m] /\ UNCHANGED global_queue
  BY DEF GlobalLock!Release
<1>2. global_hold \in [LockThreads -> LockModes] /\ m \in LockModes /\ m # "write"
  BY DEF LockRight, LockThreads, LockModes
<1>3. \A u, v \in LockThreads : u # v /\ global_hold[u] = "write" => global_hold[v] = "none"
  BY DEF LockRight, LockThreads
<1>4. global_hold[t] # "nested" => m = "none"
  OBVIOUS
<1> HIDE DEF m
<1>5. /\ global_hold' \in [LockThreads -> LockModes]
      /\ global_hold'[t] = m
      /\ \A u \in LockThreads : u # t => global_hold'[u] = global_hold[u]
  BY <1>1, <1>2
<1>6. \A u, v \in LockThreads : u # v /\ global_hold'[u] = "write" => global_hold'[v] = "none"
  BY <1>2, <1>3, <1>4, <1>5
<1> QED BY <1>1, <1>5, <1>6 DEF LockRight, LockThreads, LockModes

\* The first that waits gets the lock.
LEMMA LockServed ==
    ASSUME LockRight, GlobalLock!Serve
    PROVE  /\ LockRight'
           /\ \A i \in 1 .. Len(global_queue') :
                 i + 1 \in 1 .. Len(global_queue) /\ global_queue'[i] = global_queue[i + 1]
           /\ 1 \in 1 .. Len(global_queue) /\ global_queue[1].thread \in LockThreads
           /\ global_queue[1].is_reader \in BOOLEAN
           /\ GlobalLock!Compatible(global_queue[1].is_reader)
           /\ GlobalLock!Take(global_queue[1].thread, global_queue[1].is_reader)
<1> DEFINE E == [thread : LockThreads, is_reader : BOOLEAN]
<1>1. global_queue \in Seq(E) /\ global_queue # <<>> /\ global_queue' = Tail(global_queue)
  BY DEF LockRight, LockThreads, GlobalLock!Serve
<1> HIDE DEF E
<1>2. Len(global_queue) \in Nat /\ Len(global_queue) > 0
  BY <1>1
<1>3. /\ Head(global_queue) = global_queue[1]
      /\ global_queue' \in Seq(E) /\ Len(global_queue') = Len(global_queue) - 1
      /\ \A i \in 1 .. Len(global_queue') : global_queue'[i] = global_queue[i + 1]
  BY <1>1, <1>2
<1>4. global_queue[1] \in E
  BY <1>1, <1>2
<1>5. /\ GlobalLock!Compatible(global_queue[1].is_reader)
      /\ GlobalLock!Take(global_queue[1].thread, global_queue[1].is_reader)
  BY <1>3 DEF GlobalLock!Serve
<1>6. global_queue[1].thread \in LockThreads /\ global_queue[1].is_reader \in BOOLEAN
  BY <1>4 DEF E
<1>7. /\ global_hold' \in [LockThreads -> LockModes]
      /\ \A u, v \in LockThreads :
            u # v /\ global_hold'[u] = "write" => global_hold'[v] = "none"
  BY <1>5, <1>6, LockTaken
<1>8. LockRight'
  BY <1>3, <1>7 DEF LockRight, LockThreads, LockModes, E
<1>9. 1 \in 1 .. Len(global_queue) /\ \A i \in 1 .. Len(global_queue') : i + 1 \in 1 .. Len(global_queue)
  BY <1>2, <1>3
<1> QED BY <1>3, <1>5, <1>6, <1>8, <1>9

\* A step keeps the lock right.
LEMMA LockStep == IInv /\ Next => LockRight'
<1> SUFFICES ASSUME IInv, Next PROVE LockRight'
  OBVIOUS
<1>1. LockRight
  BY DEF IInv
<1>2. CASE UNCHANGED <<global_queue, global_hold>>
  BY <1>1, <1>2 DEF LockRight
<1>3. ASSUME NEW t \in LockThreads, NEW r \in BOOLEAN,
             GlobalLock!Enter(t, r) \/ GlobalLock!Wait(t, r)
      PROVE  LockRight'
  BY <1>1, <1>3, LockEntered, LockWaits
<1>4. ASSUME NEW w \in Workers, WorkerTake(w) PROVE LockRight'
  <2> DEFINE r == is_only_read_request(Head(GlobalRequestQueue))
  <2>1. GlobalLock!Enter(w, r) \/ GlobalLock!Wait(w, r)
    BY <1>4 DEF WorkerTake
  <2>2. r \in BOOLEAN
    BY DEF is_only_read_request
  <2> HIDE DEF r
  <2> QED BY <1>3, <2>1, <2>2 DEF LockThreads
<1>5. ASSUME NEW w \in Workers, WorkerAnswer(w) PROVE LockRight'
  <2>1. GlobalLock!Release(w)
    BY <1>5 DEF WorkerAnswer
  <2> QED BY <1>1, <2>1, LockReleased DEF LockThreads
<1>6. CASE TakeRequests
  <2>1. \/ UNCHANGED globalLock
        \/ GlobalLock!Enter(EventMaster, TRUE) \/ GlobalLock!Wait(EventMaster, TRUE)
    BY <1>6 DEF TakeRequests
  <2>2. UNCHANGED globalLock => UNCHANGED <<global_queue, global_hold>>
    BY DEF globalLock
  <2>3. EventMaster \in LockThreads /\ TRUE \in BOOLEAN
    BY DEF LockThreads
  <2> QED BY <1>2, <1>3, <2>1, <2>2, <2>3
<1>7. CASE ProcessRequests
  <2>1. UNCHANGED globalLock \/ GlobalLock!Release(EventMaster)
    BY <1>7 DEF ProcessRequests
  <2>2. UNCHANGED globalLock => UNCHANGED <<global_queue, global_hold>>
    BY DEF globalLock
  <2> QED BY <1>1, <1>2, <2>1, <2>2, LockReleased DEF LockThreads
<1>8. CASE ServeGlobalLock
  BY <1>1, <1>8, LockServed DEF ServeGlobalLock
<1> QED BY <1>2, <1>4, <1>5, <1>6, <1>7, <1>8, LockFrame

\* The mode in which a worker asks for the lock fits a packet with request kind
\* "only reads" = r.
Fits(w, r) ==
    /\ global_hold[w] = "write" => ~r
    /\ global_hold[w] \in {"read", "nested"} => r
    /\ \A i \in 1 .. Len(global_queue) :
          global_queue[i].thread = w => global_queue[i].is_reader = r

\* The lock operations of other threads leave a worker's mode alone.
LEMMA FitsKept ==
    ASSUME LockRight, NEW w \in Workers, NEW r \in BOOLEAN, Fits(w, r),
           NEW t \in LockThreads, NEW m \in BOOLEAN, t # w,
           GlobalLock!Enter(t, m) \/ GlobalLock!Wait(t, m) \/ GlobalLock!Release(t)
    PROVE  Fits(w, r)'
<1>1. w \in LockThreads
  BY DEF LockThreads
<1>2. CASE GlobalLock!Enter(t, m)
  <2>1. GlobalLock!Compatible(m) /\ GlobalLock!Take(t, m) /\ UNCHANGED global_queue
    BY <1>2 DEF GlobalLock!Enter
  <2>2. global_hold'[w] = global_hold[w]
    BY <1>1, <2>1, LockTaken
  <2> QED BY <2>1, <2>2 DEF Fits
<1>3. CASE GlobalLock!Wait(t, m)
  <2>1. /\ UNCHANGED global_hold
        /\ Len(global_queue') = Len(global_queue) + 1 /\ Len(global_queue) \in Nat
        /\ global_queue'[Len(global_queue) + 1] = [thread |-> t, is_reader |-> m]
        /\ \A i \in 1 .. Len(global_queue) : global_queue'[i] = global_queue[i]
    BY <1>3, LockWaits
  <2>2. ASSUME NEW i \in 1 .. Len(global_queue'), global_queue'[i].thread = w
        PROVE  global_queue'[i].is_reader = r
    <3>1. PICK n, q, last :
            n = Len(global_queue) /\ q = global_queue' /\ last = [thread |-> t, is_reader |-> m]
      OBVIOUS
    <3>2. /\ n \in Nat /\ i \in 1 .. n + 1 /\ q[i].thread = w /\ q[n + 1] = last
          /\ \A k \in 1 .. n : q[k] = global_queue[k]
      BY <2>1, <2>2, <3>1
    <3>3. last.thread = t
      BY <3>1
    <3>4. i # n + 1
      BY <3>2, <3>3
    <3>5. i \in 1 .. n
      BY <3>2, <3>4
    <3>6. i \in 1 .. Len(global_queue) /\ global_queue'[i] = global_queue[i]
      BY <3>1, <3>2, <3>5
    <3> QED BY <2>2, <3>6 DEF Fits
  <2> QED BY <2>1, <2>2 DEF Fits
<1>4. CASE GlobalLock!Release(t)
  BY <1>1, <1>4, LockReleased DEF Fits
<1> QED BY <1>2, <1>3, <1>4

\* The lock is served.
LEMMA FitsServed ==
    ASSUME LockRight, NEW w \in Workers, NEW r \in BOOLEAN, Fits(w, r), GlobalLock!Serve
    PROVE  Fits(w, r)'
<1>1. w \in LockThreads
  BY DEF LockThreads
<1> DEFINE t == global_queue[1].thread
           m == global_queue[1].is_reader
<1>2. /\ \A i \in 1 .. Len(global_queue') :
            i + 1 \in 1 .. Len(global_queue) /\ global_queue'[i] = global_queue[i + 1]
      /\ 1 \in 1 .. Len(global_queue) /\ t \in LockThreads /\ m \in BOOLEAN
      /\ GlobalLock!Compatible(m) /\ GlobalLock!Take(t, m)
  BY LockServed
<1>3. t = w => m = r
  BY <1>2 DEF Fits
<1> HIDE DEF t, m
<1>4. /\ t # w => global_hold'[w] = global_hold[w]
      /\ ~m => global_hold'[t] = "write"
      /\ m => global_hold'[t] \in {"read", "nested"}
  BY <1>1, <1>2, LockTaken
<1>5. /\ global_hold'[w] = "write" => ~r
      /\ global_hold'[w] \in {"read", "nested"} => r
  BY <1>2, <1>3, <1>4 DEF Fits
<1>6. \A i \in 1 .. Len(global_queue') :
         global_queue'[i].thread = w => global_queue'[i].is_reader = r
  BY <1>2 DEF Fits
<1> QED BY <1>5, <1>6 DEF Fits

\* A worker asks for the lock.
LEMMA FitsTaken ==
    ASSUME LockRight, NEW w \in Workers, NEW r \in BOOLEAN,
           GlobalLock!Enter(w, r) \/ GlobalLock!Wait(w, r)
    PROVE  Fits(w, r)'
<1>1. w \in LockThreads
  BY DEF LockThreads
<1>2. /\ \A i \in 1 .. Len(global_queue) : global_queue[i].thread # w
      /\ global_hold[w] = "none"
  BY DEF GlobalLock!Enter, GlobalLock!Wait, GlobalLock!MayRequest
<1>3. CASE GlobalLock!Enter(w, r)
  <2>1. GlobalLock!Compatible(r) /\ GlobalLock!Take(w, r) /\ UNCHANGED global_queue
    BY <1>3 DEF GlobalLock!Enter
  <2>2. (~r => global_hold'[w] = "write") /\ (r => global_hold'[w] \in {"read", "nested"})
    BY <1>1, <2>1, LockTaken
  <2> QED BY <1>2, <2>1, <2>2 DEF Fits
<1>4. CASE GlobalLock!Wait(w, r)
  <2>1. /\ UNCHANGED global_hold
        /\ Len(global_queue') = Len(global_queue) + 1 /\ Len(global_queue) \in Nat
        /\ global_queue'[Len(global_queue) + 1] = [thread |-> w, is_reader |-> r]
        /\ \A i \in 1 .. Len(global_queue) : global_queue'[i] = global_queue[i]
    BY <1>1, <1>4, LockWaits
  <2>2. ASSUME NEW i \in 1 .. Len(global_queue'), global_queue'[i].thread = w
        PROVE  global_queue'[i].is_reader = r
    <3>1. i \notin 1 .. Len(global_queue)
      BY <1>2, <2>1, <2>2
    <3>2. i = Len(global_queue) + 1
      BY <2>1, <3>1
    <3> QED BY <2>1, <3>2
  <2> QED BY <1>2, <2>1, <2>2 DEF Fits
<1> QED BY <1>3, <1>4

-----------------------------------------------------------------------------
(* Lists of changes and requests *)

\* A list read as a set: what an append, a take and a concatenation do to it.
LEMMA ElementsOf ==
    ASSUME NEW X, NEW p \in Seq(X), NEW q \in Seq(X)
    PROVE  /\ Elements(<<>>) = {}
           /\ p \o q \in Seq(X)
           /\ Elements(p \o q) = Elements(p) \cup Elements(q)
<1>1. Elements(<<>>) = {}
  BY DEF Elements
<1>2. /\ p \o q \in Seq(X) /\ Len(p) \in Nat /\ Len(q) \in Nat
      /\ Len(p \o q) = Len(p) + Len(q)
      /\ \A i \in 1 .. Len(p) + Len(q) :
            (p \o q)[i] = IF i <= Len(p) THEN p[i] ELSE q[i - Len(p)]
  OBVIOUS
<1>3. ASSUME NEW x \in Elements(p \o q) PROVE x \in Elements(p) \cup Elements(q)
  <2>1. PICK i \in 1 .. Len(p) + Len(q) : x = (p \o q)[i]
    BY <1>2 DEF Elements
  <2>2. CASE i <= Len(p)
    BY <1>2, <2>1, <2>2 DEF Elements
  <2>3. CASE i > Len(p)
    <3>1. i - Len(p) \in 1 .. Len(q) /\ x = q[i - Len(p)]
      BY <1>2, <2>1, <2>3
    <3> QED BY <3>1 DEF Elements
  <2> QED BY <1>2, <2>2, <2>3
<1>4. ASSUME NEW x \in Elements(p) PROVE x \in Elements(p \o q)
  <2>1. PICK i \in 1 .. Len(p) : x = p[i]
    BY DEF Elements
  <2>2. i \in 1 .. Len(p) + Len(q) /\ (p \o q)[i] = x
    BY <1>2, <2>1
  <2> QED BY <1>2, <2>2 DEF Elements
<1>5. ASSUME NEW x \in Elements(q) PROVE x \in Elements(p \o q)
  <2>1. PICK i \in 1 .. Len(q) : x = q[i]
    BY DEF Elements
  <2>2. Len(p) + i \in 1 .. Len(p) + Len(q) /\ (p \o q)[Len(p) + i] = x
    BY <1>2, <2>1
  <2> QED BY <1>2, <2>2 DEF Elements
<1> QED BY <1>1, <1>2, <1>3, <1>4, <1>5

\* Lists in ascending order, one before the other, make up such a list.
LEMMA AscendingConcat ==
    ASSUME NEW p \in Seq(Int), NEW q \in Seq(Int), Ascending(p), Ascending(q),
           Before(Elements(p), Elements(q))
    PROVE  Ascending(p \o q)
<1>1. /\ Len(p) \in Nat /\ Len(q) \in Nat
      /\ Len(p \o q) = Len(p) + Len(q)
      /\ \A i \in 1 .. Len(p) + Len(q) :
            (p \o q)[i] = IF i <= Len(p) THEN p[i] ELSE q[i - Len(p)]
  OBVIOUS
<1>2. SUFFICES ASSUME NEW i \in 1 .. Len(p) + Len(q), NEW j \in 1 .. Len(p) + Len(q), i < j
               PROVE  (p \o q)[i] < (p \o q)[j]
  BY <1>1 DEF Ascending
<1>3. CASE j <= Len(p)
  BY <1>1, <1>2, <1>3 DEF Ascending
<1>4. CASE i > Len(p)
  <2>1. i - Len(p) \in 1 .. Len(q) /\ j - Len(p) \in 1 .. Len(q) /\ i - Len(p) < j - Len(p)
    BY <1>1, <1>2, <1>4
  <2>2. (p \o q)[i] = q[i - Len(p)] /\ (p \o q)[j] = q[j - Len(p)]
    BY <1>1, <1>2, <1>4
  <2> QED BY <2>1, <2>2 DEF Ascending
<1>5. CASE i <= Len(p) /\ j > Len(p)
  <2>1. i \in 1 .. Len(p) /\ j - Len(p) \in 1 .. Len(q)
    BY <1>1, <1>2, <1>5
  <2>2. (p \o q)[i] = p[i] /\ (p \o q)[j] = q[j - Len(p)]
    BY <1>1, <1>2, <1>5
  <2>3. p[i] \in Elements(p) /\ q[j - Len(p)] \in Elements(q)
    BY <2>1 DEF Elements
  <2> QED BY <2>2, <2>3 DEF Before
<1>6. j <= Len(p) \/ i > Len(p) \/ (i <= Len(p) /\ j > Len(p))
  BY <1>1, <1>2
<1> QED BY <1>3, <1>4, <1>5, <1>6, Zenon

\* The events of a batch are the changes of its requests, in their order.
LEMMA MirroredRight ==
    ASSUME PicksRight, NEW reqs \in Seq(Requests), AddsAscend(reqs)
    PROVE  /\ Mirrored(reqs) \in Seq(Ids)
           /\ Elements(Mirrored(reqs)) = AddIds(reqs)
           /\ Ascending(Mirrored(reqs))
<1> DEFINE adds == Pick(reqs, MirroredAdds)
<1>1. adds \in Seq(Requests) /\ \E h : PickedFrom(adds, h, reqs, MirroredAdds, Len(reqs))
  BY DEF PicksRight
<1>2. PICK h : PickedFrom(adds, h, reqs, MirroredAdds, Len(reqs))
  BY <1>1
<1> HIDE DEF adds
<1>3. Len(adds) \in Nat /\ Len(reqs) \in Nat /\ DOMAIN adds = 1 .. Len(adds)
  BY <1>1
<1>4. \A k \in 1 .. Len(adds) : /\ adds[k] = reqs[h[k]] /\ adds[k] \in MirroredAdds
                                /\ adds[k].id \in Ids /\ h[k] \in 1 .. Len(reqs)
  BY <1>2 DEF PickedFrom, MirroredAdds
<1> DEFINE m == [i \in 1 .. Len(adds) |-> adds[i].id]
<1>5. Mirrored(reqs) = m
  BY <1>3 DEF Mirrored, adds
<1>6. m \in Seq(Ids) /\ Len(m) = Len(adds)
  <2>1. m \in [1 .. Len(adds) -> Ids]
    BY <1>4
  <2> QED BY <1>3, <2>1
<1>7. \A i \in 1 .. Len(m) : m[i] = adds[i].id
  BY <1>6
<1> HIDE DEF m
<1>8. ASSUME NEW x \in Elements(m) PROVE x \in AddIds(reqs)
  <2>1. PICK i \in 1 .. Len(m) : x = m[i]
    BY DEF Elements
  <2>2. x = reqs[h[i]].id /\ h[i] \in 1 .. Len(reqs) /\ reqs[h[i]] \in MirroredAdds
    BY <1>4, <1>6, <1>7, <2>1
  <2> QED BY <2>2 DEF AddIds
<1>9. ASSUME NEW x \in AddIds(reqs) PROVE x \in Elements(m)
  <2>1. PICK j \in 1 .. Len(reqs) : reqs[j] \in MirroredAdds /\ x = reqs[j].id
    BY DEF AddIds
  <2>2. PICK k \in 1 .. Len(adds) : h[k] = j
    BY <1>2, <2>1 DEF PickedFrom
  <2>3. x = m[k] /\ k \in 1 .. Len(m)
    BY <1>4, <1>6, <1>7, <2>1, <2>2
  <2> QED BY <2>3 DEF Elements
<1>10. ASSUME NEW i \in 1 .. Len(m), NEW j \in 1 .. Len(m), i < j PROVE m[i] < m[j]
  <2>1. h[i] < h[j] /\ h[i] \in 1 .. Len(reqs) /\ h[j] \in 1 .. Len(reqs)
    BY <1>2, <1>4, <1>6, <1>10 DEF PickedFrom
  <2>2. reqs[h[i]] \in MirroredAdds /\ reqs[h[j]] \in MirroredAdds
    BY <1>4, <1>6
  <2>3. reqs[h[i]].id < reqs[h[j]].id
    BY <2>1, <2>2 DEF AddsAscend
  <2> QED BY <1>4, <1>6, <1>7, <2>3
<1> QED BY <1>5, <1>6, <1>8, <1>9, <1>10 DEF Ascending

\* A request appended to the request list: an addition with the biggest id, or
\* one that is not for the mirror.
LEMMA AddAppended ==
    ASSUME NEW reqs \in Seq(Requests), NEW q \in Requests, AddsAscend(reqs),
           q \in MirroredAdds => Before(AddIds(reqs), {q.id})
    PROVE  /\ Append(reqs, q) \in Seq(Requests)
           /\ AddIds(Append(reqs, q)) =
                 AddIds(reqs) \cup IF q \in MirroredAdds THEN {q.id} ELSE {}
           /\ AddsAscend(Append(reqs, q))
<1> DEFINE n == Append(reqs, q)
<1>1. /\ n \in Seq(Requests) /\ Len(reqs) \in Nat /\ Len(n) = Len(reqs) + 1
      /\ \A i \in 1 .. Len(reqs) : n[i] = reqs[i]
      /\ n[Len(reqs) + 1] = q
  OBVIOUS
<1> HIDE DEF n
<1>2. AddIds(n) \subseteq AddIds(reqs) \cup IF q \in MirroredAdds THEN {q.id} ELSE {}
  <2>1. SUFFICES ASSUME NEW i \in 1 .. Len(n), n[i] \in MirroredAdds
                 PROVE  n[i].id \in AddIds(reqs) \cup IF q \in MirroredAdds THEN {q.id} ELSE {}
    BY DEF AddIds
  <2>2. CASE i = Len(reqs) + 1
    BY <1>1, <2>1, <2>2
  <2>3. CASE i \in 1 .. Len(reqs)
    BY <1>1, <2>1, <2>3 DEF AddIds
  <2> QED BY <1>1, <2>2, <2>3
<1>3. AddIds(reqs) \subseteq AddIds(n)
  <2>1. SUFFICES ASSUME NEW i \in 1 .. Len(reqs), reqs[i] \in MirroredAdds
                 PROVE  reqs[i].id \in AddIds(n)
    BY DEF AddIds
  <2>2. i \in 1 .. Len(n) /\ n[i] = reqs[i]
    BY <1>1
  <2> QED BY <2>1, <2>2 DEF AddIds
<1>4. q \in MirroredAdds => q.id \in AddIds(n)
  <2>1. Len(reqs) + 1 \in 1 .. Len(n)
    BY <1>1
  <2> QED BY <1>1, <2>1 DEF AddIds
<1>5. ASSUME NEW i \in 1 .. Len(n), NEW j \in 1 .. Len(n), i < j,
             n[i] \in MirroredAdds, n[j] \in MirroredAdds
      PROVE  n[i].id < n[j].id
  <2>1. i \in 1 .. Len(reqs) /\ n[i] = reqs[i]
    BY <1>1, <1>5
  <2>2. CASE j = Len(reqs) + 1
    <3>1. n[i].id \in AddIds(reqs)
      BY <1>5, <2>1 DEF AddIds
    <3> QED BY <1>1, <1>5, <2>2, <3>1 DEF Before
  <2>3. CASE j \in 1 .. Len(reqs)
    BY <1>1, <1>5, <2>1, <2>3 DEF AddsAscend
  <2> QED BY <1>1, <2>2, <2>3
<1>6. AddsAscend(n)
  BY <1>5 DEF AddsAscend
<1> QED BY <1>1, <1>2, <1>3, <1>4, <1>6 DEF n

\* The empty list carries nothing.
LEMMA NoAdds ==
    AddIds(<<>>) = {} /\ AddsAscend(<<>>) /\ Elements(<<>>) = {} /\ Ascending(<<>>)
  BY DEF AddIds, AddsAscend, Elements, Ascending

-----------------------------------------------------------------------------
(* Types *)

\* Unique ids are natural numbers up to the bound.
LEMMA IdsAreNumbers == \A id \in Ids : id \in Nat /\ id \in Int /\ id <= MaxId
  BY MaxIdAssumption DEF Ids

\* Elements put into a list, or taken from it keep the list's type.
LEMMA QueueTypes ==
    ASSUME NEW X, NEW q \in Seq(X)
    PROVE  /\ <<>> \in Seq(X)
           /\ \A x \in X : Append(q, x) \in Seq(X)
           /\ \A p \in Seq(X) : q \o p \in Seq(X)
           /\ q # <<>> => Head(q) \in X /\ Tail(q) \in Seq(X)
           /\ Elements(q) \subseteq X
           /\ q # <<>> => q[Len(q)] \in X
<1>1. /\ <<>> \in Seq(X)
      /\ \A x \in X : Append(q, x) \in Seq(X)
      /\ \A p \in Seq(X) : q \o p \in Seq(X)
      /\ q # <<>> => Head(q) \in X /\ Tail(q) \in Seq(X)
  OBVIOUS
<1>2. \A i \in 1 .. Len(q) : q[i] \in X
  OBVIOUS
<1>3. Elements(q) \subseteq X
  BY <1>2 DEF Elements
<1>4. q # <<>> => q[Len(q)] \in X
  BY <1>2
<1> QED BY <1>1, <1>3, <1>4

\* A transaction id that is taken is in range, and so is the next one.
LEMMA IdTaken ==
    ASSUME TypeOK, next_unique_id <= MaxId
    PROVE  next_unique_id \in Ids /\ next_unique_id + 1 \in 0 .. MaxId + 1
  BY MaxIdAssumption DEF TypeOK, Ids

\* Clients and listeners.
LEMMA TypeListener ==
    ASSUME IInv, NEW c \in Clients,
           (\E k \in Kinds : Send(c, k)) \/ ListenerStep(c)
    PROVE  TypeOK'
<1>1. TypeOK
  BY DEF IInv
<1>2. c \in Committers /\ UserOf[c] \in Users /\ 0 \in Ids
  BY UsersAssumption, MaxIdAssumption DEF Committers, Ids
<1>3. ASSUME NEW k \in Kinds, Send(c, k) PROVE TypeOK'
  <2>1. k \in AllKinds
    BY KindsAssumption
  <2> QED BY <1>1, <1>2, <1>3, <2>1 DEF TypeOK, Send, sessionVars, queueVars, threadVars,
            commitVars, eventVars, mirrorVars, storeVars
<1>4. CASE StoreGlobal(c)
  <2>1. GlobalRequestQueue' \in Seq(Clients)
    BY <1>1, <1>4, QueueTypes DEF StoreGlobal, TypeOK
  <2> QED BY <1>1, <1>4, <2>1 DEF TypeOK, StoreGlobal, sessionVars, threadVars,
            commitVars, eventVars, mirrorVars, storeVars
<1>5. CASE ChooseQueue(c)
  BY <1>1, <1>5 DEF TypeOK, ChooseQueue, sessionVars, queueVars, threadVars, commitVars,
     eventVars, mirrorVars, storeVars
<1>6. CASE StoreReader(c)
  <2>1. ReaderRequestQueue' \in Seq(Clients) /\ ReaderWaitingRequestQueue' \in Seq(Clients)
    <3>1. ReaderRequestQueue \in Seq(Clients) /\ ReaderWaitingRequestQueue \in Seq(Clients)
      BY <1>1 DEF TypeOK
    <3>2. /\ Append(ReaderRequestQueue, c) \in Seq(Clients)
          /\ Append(ReaderWaitingRequestQueue, c) \in Seq(Clients)
      BY <3>1, QueueTypes
    <3> QED BY <1>6, <3>1, <3>2 DEF StoreReader
  <2> QED BY <1>1, <1>6, <2>1 DEF TypeOK, StoreReader, sessionVars, threadVars,
            commitVars, eventVars, mirrorVars, storeVars
<1>7. CASE Trigger(c)
  <2>1. next_unique_id \in Ids /\ next_unique_id' \in 0 .. MaxId + 1
    BY <1>1, <1>7, IdTaken DEF Trigger, TakeUniqueId
  <2> QED BY <1>1, <1>2, <1>7, <2>1 DEF TypeOK, Trigger, TakeUniqueId, queueVars, threadVars,
            eventVars, mirrorVars, storeVars
<1>8. CASE TriggerRefused(c)
  BY <1>1, <1>8 DEF TypeOK, TriggerRefused, sessionVars, queueVars, threadVars, commitVars,
     eventVars, mirrorVars, storeVars, AllKinds
<1>9. CASE SetWriteUniqueId(c, UserOf[c])
  <2>1. commit_id[c] \in Ids
    BY <1>1, <1>2 DEF TypeOK
  <2> QED BY <1>1, <1>2, <1>9, <2>1 DEF TypeOK, SetWriteUniqueId, queueVars, threadVars,
            eventVars, mirrorVars, storeVars, clientVars
<1>10. CASE AppendRequest(c, FALSE)
  <2>1. commit_id[c] \in Ids
    BY <1>1, <1>2 DEF TypeOK
  <2>2. [op |-> "add", id |-> commit_id[c], mirrored |-> FALSE] \in Requests
    BY <2>1 DEF Requests
  <2>3. requests' \in Seq(Requests)
    BY <1>1, <1>10, <2>2, QueueTypes DEF AppendRequest, TypeOK
  <2> QED BY <1>1, <1>2, <1>10, <2>3 DEF TypeOK, AppendRequest, sessionVars, queueVars,
            threadVars, mirrorVars, storeVars, clientVars
<1>11. CASE TriggerAnswer(c)
  BY <1>1, <1>2, <1>11 DEF TypeOK, TriggerAnswer, sessionVars, queueVars, threadVars,
     eventVars, mirrorVars, storeVars, AllKinds
<1> QED BY <1>3, <1>4, <1>5, <1>6, <1>7, <1>8, <1>9, <1>10, <1>11 DEF ListenerStep

\* Workers.
LEMMA TypeWorker ==
    ASSUME IInv, NEW w \in Workers, WorkerStep(w)
    PROVE  TypeOK'
<1>1. TypeOK
  BY DEF IInv
<1>2. w \in Committers /\ 0 \in Ids /\ w \in Workers \cup Readers
  BY MaxIdAssumption DEF Committers, Ids
<1>3. CASE WorkerTake(w)
  <2>1. Head(GlobalRequestQueue) \in Clients /\ GlobalRequestQueue' \in Seq(Clients)
    BY <1>1, <1>3, QueueTypes DEF WorkerTake, TypeOK
  <2> QED BY <1>1, <1>2, <1>3, <2>1 DEF TypeOK, WorkerTake, sessionVars, commitVars, eventVars,
            mirrorVars, storeVars, clientVars
<1>4. CASE WorkerWrite(w)
  <2>1. next_unique_id \in Ids /\ next_unique_id' \in 0 .. MaxId + 1
    BY <1>1, <1>4, IdTaken DEF WorkerWrite, TakeUniqueId
  <2> QED BY <1>1, <1>2, <1>4, <2>1 DEF TypeOK, WorkerWrite, TakeUniqueId, queueVars,
            eventVars, mirrorVars, clientVars
<1>5. CASE WorkerRead(w)
  BY <1>1, <1>5 DEF TypeOK, WorkerRead, sessionVars, queueVars, commitVars, eventVars,
     mirrorVars, storeVars, clientVars
<1>6. CASE packet[w] # None /\ SetWriteUniqueId(w, UserOf[packet[w]])
  <2>1. commit_id[w] \in Ids
    BY <1>1, <1>2 DEF TypeOK
  <2> QED BY <1>1, <1>2, <1>6, <2>1 DEF TypeOK, SetWriteUniqueId, queueVars, threadVars,
            eventVars, mirrorVars, storeVars, clientVars
<1>7. CASE AppendRequest(w, TRUE)
  <2>1. commit_id[w] \in Ids
    BY <1>1, <1>2 DEF TypeOK
  <2>2. [op |-> "add", id |-> commit_id[w], mirrored |-> TRUE] \in Requests
    BY <2>1 DEF Requests
  <2>3. requests' \in Seq(Requests)
    BY <1>1, <1>7, <2>2, QueueTypes DEF AppendRequest, TypeOK
  <2> QED BY <1>1, <1>2, <1>7, <2>3 DEF TypeOK, AppendRequest, sessionVars, queueVars,
            threadVars, mirrorVars, storeVars, clientVars
<1>8. CASE WorkerAnswer(w)
  <2>1. commit_id[w] \in Ids
    BY <1>1, <1>2 DEF TypeOK
  <2>2. answered' \in [Users -> SUBSET Ids]
    BY <1>1, <1>8, <2>1 DEF WorkerAnswer, TypeOK
  <2>3. /\ kind' \in [Clients -> AllKinds] /\ must_see' \in [Clients -> SUBSET Ids]
        /\ request' \in [Clients -> {"idle", "arrived", "to_reader", "to_waiting",
                                     "queued", "served"}]
    BY <1>1, <1>8 DEF WorkerAnswer, TypeOK, AllKinds
  <2> QED BY <1>1, <1>2, <1>8, <2>2, <2>3 DEF TypeOK, WorkerAnswer, sessionVars, queueVars,
            eventVars, mirrorVars, storeVars
<1> QED BY <1>3, <1>4, <1>5, <1>6, <1>7, <1>8 DEF WorkerStep

\* The event master and the mirror.
LEMMA TypeMirror ==
    ASSUME PicksRight, IInv, EventMasterStep \/ MirrorStep
    PROVE  TypeOK'
<1>1. TypeOK /\ ListsSorted
  BY DEF IInv, PipelineOrdered
<1>2. CASE TakeRequests
  <2>1. requests' \in Seq(Requests)
    BY <1>1, <1>2, QueueTypes DEF TakeRequests, TypeOK
  <2> QED BY <1>1, <1>2, <2>1 DEF TypeOK, TakeRequests, sessionVars, queueVars, threadVars,
            commitVars, mirrorVars, storeVars, clientVars
<1>3. CASE ProcessRequests
  <2>1. EV_events' \in Seq(Ids)
    <3>1. Mirrored(batch) \in Seq(Ids)
      BY <1>1, MirroredRight DEF TypeOK, ListsSorted
    <3> QED BY <1>1, <1>3, <3>1, QueueTypes DEF ProcessRequests, TypeOK
  <2>2. batch' \in Seq(Requests) /\ EV_busy' \in BOOLEAN
    BY <1>1, <1>3, QueueTypes DEF ProcessRequests, TypeOK
  <2> QED BY <1>1, <1>3, <2>1, <2>2 DEF TypeOK, ProcessRequests, sessionVars, queueVars,
            threadVars, commitVars, mirrorVars, storeVars, clientVars
<1>4. CASE SendEvents
  <2>1. new_events' \in Seq(Ids) /\ EV_events' \in Seq(Ids)
    BY <1>1, <1>4, QueueTypes DEF SendEvents, TypeOK
  <2> QED BY <1>1, <1>4, <2>1 DEF TypeOK, SendEvents, sessionVars, queueVars, threadVars,
            commitVars, storeVars, clientVars
<1>5. CASE WaitForEvent
  <2>1. new_events' \in Seq(Ids)
    BY <1>1, <1>5, QueueTypes DEF WaitForEvent, TypeOK
  <2> QED BY <1>1, <1>5, <2>1 DEF TypeOK, WaitForEvent, sessionVars, queueVars, threadVars,
            commitVars, eventVars, storeVars, clientVars
<1>6. CASE MirrorLock
  BY <1>1, <1>6 DEF TypeOK, MirrorLock, sessionVars, queueVars, threadVars, commitVars,
     eventVars, storeVars, clientVars
<1>7. CASE ProcessEvents
  <2>1. reader_ds' \subseteq Ids /\ process_unique_id' \in Ids
    <3>1. event_list \in Seq(Ids) /\ reader_ds \subseteq Ids /\ process_unique_id \in Ids
      BY <1>1 DEF TypeOK
    <3>2. /\ Elements(event_list) \subseteq Ids
          /\ event_list # <<>> => event_list[Len(event_list)] \in Ids
      BY <3>1, QueueTypes
    <3> QED BY <1>7, <3>1, <3>2 DEF ProcessEvents
  <2> QED BY <1>1, <1>7, <2>1 DEF TypeOK, ProcessEvents, queueVars, threadVars, commitVars,
            eventVars, clientVars
<1>8. CASE MoveRequests
  <2>1. ReaderRequestQueue' \in Seq(Clients) /\ ReaderWaitingRequestQueue' \in Seq(Clients)
    <3>1. \A q \in Seq(Clients) : \A G : Pick(q, G) \in Seq(Clients)
      BY DEF PicksRight
    <3> QED BY <1>1, <1>8, <3>1, QueueTypes DEF MoveRequests, TypeOK
  <2> QED BY <1>1, <1>8, <2>1 DEF TypeOK, MoveRequests, sessionVars, threadVars, commitVars,
            eventVars, storeVars, clientVars
<1>9. CASE MirrorUnlock
  <2>1. event_list' \in Seq(Ids)
    BY <1>1, <1>9, QueueTypes DEF MirrorUnlock, TypeOK
  <2> QED BY <1>1, <1>9, <2>1 DEF TypeOK, MirrorUnlock, sessionVars, queueVars, threadVars,
            commitVars, eventVars, storeVars, clientVars
<1>10. CASE ReleaseBusy
  <2>1. [op |-> "release"] \in Requests
    BY DEF Requests
  <2>2. requests' \in Seq(Requests)
    BY <1>1, <1>10, <2>1, QueueTypes DEF ReleaseBusy, TypeOK
  <2> QED BY <1>1, <1>10, <2>2 DEF TypeOK, ReleaseBusy, sessionVars, queueVars, threadVars,
            commitVars, storeVars, clientVars
<1> QED BY <1>2, <1>3, <1>4, <1>5, <1>6, <1>7, <1>8, <1>9, <1>10
          DEF EventMasterStep, MirrorStep

\* A step keeps the types.
LEMMA TypeStep == PicksRight /\ IInv /\ Next => TypeOK'
<1> SUFFICES ASSUME PicksRight, IInv, Next PROVE TypeOK'
  OBVIOUS
<1>1. TypeOK
  BY DEF IInv
<1>2. ASSUME NEW r \in Readers, ReaderTake(r) PROVE TypeOK'
  <2>1. Head(ReaderRequestQueue) \in Clients /\ ReaderRequestQueue' \in Seq(Clients)
    BY <1>1, <1>2, QueueTypes DEF ReaderTake, TypeOK
  <2> QED BY <1>1, <1>2, <2>1 DEF TypeOK, ReaderTake, sessionVars, commitVars, eventVars,
            mirrorVars, storeVars, clientVars
<1>3. ASSUME NEW r \in Readers, ReaderAnswer(r) PROVE TypeOK'
  BY <1>1, <1>3 DEF TypeOK, ReaderAnswer, sessionVars, queueVars, commitVars, eventVars,
     mirrorVars, storeVars
<1>4. ASSUME NEW u \in Users, RemoveUnused(u) PROVE TypeOK'
  BY <1>1, <1>4 DEF TypeOK, RemoveUnused, queueVars, threadVars, commitVars, eventVars,
     mirrorVars, storeVars, clientVars
<1>5. CASE ServeGlobalLock \/ ServeReaderLock
  BY <1>1, <1>5 DEF TypeOK, ServeGlobalLock, ServeReaderLock, sessionVars, queueVars,
     threadVars, commitVars, eventVars, mirrorVars, storeVars, clientVars
<1> QED BY <1>2, <1>3, <1>4, <1>5, TypeListener, TypeWorker, TypeMirror DEF Next, ReaderStep

-----------------------------------------------------------------------------
(* The way of a change to the mirror *)

\* A worker that begins to commit holds the lock for writing, nobody else is in
\* the middle of a commit, and its id is the biggest so far.
LEMMA WriteBegins ==
    ASSUME IInv, NEW w \in Workers, WorkerWrite(w)
    PROVE  /\ global_hold[w] = "write"
           /\ \A v \in Workers : commit[v] = "none"
           /\ \A id \in global_ds : id < next_unique_id
           /\ next_unique_id \in Ids
           /\ commit_id' = [commit_id EXCEPT ![w] = next_unique_id]
           /\ commit' = [commit EXCEPT ![w] = "session"]
           /\ worker' = [worker EXCEPT ![w] = "commit"]
           /\ next_unique_id' = next_unique_id + 1
           /\ global_ds' = global_ds \cup {next_unique_id}
<1>1. TypeOK /\ LockRight
  BY DEF IInv
<1>2. global_hold[w] # "none" /\ worker[w] = "process" /\ kind[packet[w]] = "write"
  BY DEF WorkerWrite
<1>3. global_hold[w] = "write"
  <2>1. ~is_only_read_request(packet[w])
    BY <1>2 DEF is_only_read_request
  <2>2. global_hold[w] \notin {"read", "nested"}
    BY <1>2, <2>1 DEF IInv, ModesRight
  <2> QED BY <1>1, <1>2, <2>2 DEF LockRight
<1>4. ASSUME NEW v \in Workers PROVE commit[v] = "none"
  <2>1. CASE v = w
    BY <1>2, <2>1 DEF IInv, CommitsRight
  <2>2. CASE v # w
    <3>1. global_hold[v] # "write"
      BY <1>1, <1>3, <2>2 DEF LockRight
    <3> QED BY <3>1 DEF IInv, CommitsRight
  <2> QED BY <2>1, <2>2
<1>5. next_unique_id <= MaxId /\ next_unique_id \in 0 .. MaxId + 1
  BY <1>1 DEF WorkerWrite, TakeUniqueId, TypeOK
<1>6. next_unique_id \in Ids
  BY <1>5, MaxIdAssumption DEF Ids
<1>7. ASSUME NEW id \in global_ds PROVE id < next_unique_id
  <2>1. id \in 0 .. next_unique_id - 1
    BY DEF IInv, PipelineOrdered
  <2> QED BY <1>5, <2>1, MaxIdAssumption
<1> QED BY <1>3, <1>4, <1>6, <1>7 DEF WorkerWrite, TakeUniqueId

\* The steps that move a change on.
LEMMA PipelineFrame ==
    Next => \/ UNCHANGED <<requests, batch, EV_events, new_events, event_list,
                            mirror, process_unique_id, next_unique_id, commit,
                            commit_id, global_ds, reader_ds>>
            \/ \E c \in Clients : 
                  \/ Trigger(c)
                  \/ SetWriteUniqueId(c, UserOf[c])
                  \/ AppendRequest(c, FALSE)
                  \/ TriggerAnswer(c)
            \/ \E w \in Workers : 
                  \/ WorkerWrite(w)
                  \/ packet[w] # None /\ SetWriteUniqueId(w, UserOf[packet[w]])
                  \/ AppendRequest(w, TRUE)
                  \/ WorkerAnswer(w)
            \/ TakeRequests \/ ProcessRequests \/ SendEvents
            \/ WaitForEvent \/ MirrorLock \/ ProcessEvents \/ MoveRequests \/ MirrorUnlock \/ ReleaseBusy
<1> USE DEF sessionVars, commitVars, eventVars, mirrorVars, storeVars
<1>1. ASSUME NEW c \in Clients, NEW k \in Kinds, Send(c, k)
      PROVE  UNCHANGED <<requests, batch, EV_events, new_events, event_list,
                          mirror, process_unique_id, next_unique_id, commit,
                          commit_id, global_ds, reader_ds>>
  BY <1>1 DEF Send
<1>2. ASSUME NEW c \in Clients, ListenerStep(c)
      PROVE  \/ UNCHANGED <<requests, batch, EV_events, new_events, event_list,
                             mirror, process_unique_id, next_unique_id, commit,
                             commit_id, global_ds, reader_ds>>
             \/ Trigger(c) \/ SetWriteUniqueId(c, UserOf[c])
             \/ AppendRequest(c, FALSE) \/ TriggerAnswer(c)
  BY <1>2 DEF ListenerStep, StoreGlobal, ChooseQueue, StoreReader, TriggerRefused
<1>3. ASSUME NEW w \in Workers, WorkerStep(w)
      PROVE  \/ UNCHANGED <<requests, batch, EV_events, new_events, event_list,
                             mirror, process_unique_id, next_unique_id, commit,
                             commit_id, global_ds, reader_ds>>
             \/ WorkerWrite(w)
             \/ packet[w] # None /\ SetWriteUniqueId(w, UserOf[packet[w]])
             \/ AppendRequest(w, TRUE) \/ WorkerAnswer(w)
  BY <1>3 DEF WorkerStep, WorkerTake, WorkerRead
<1>4. ASSUME NEW r \in Readers, ReaderStep(r)
      PROVE  UNCHANGED <<requests, batch, EV_events, new_events, event_list,
                          mirror, process_unique_id, next_unique_id, commit,
                          commit_id, global_ds, reader_ds>>
  BY <1>4 DEF ReaderStep, ReaderTake, ReaderAnswer
<1>5. ASSUME NEW u \in Users, RemoveUnused(u)
      PROVE  UNCHANGED <<requests, batch, EV_events, new_events, event_list,
                          mirror, process_unique_id, next_unique_id, commit,
                          commit_id, global_ds, reader_ds>>
  BY <1>5 DEF RemoveUnused
<1>6. ASSUME ServeGlobalLock
      PROVE  UNCHANGED <<requests, batch, EV_events, new_events, event_list,
                          mirror, process_unique_id, next_unique_id, commit,
                          commit_id, global_ds, reader_ds>>
  BY <1>6 DEF ServeGlobalLock
<1>7. ASSUME ServeReaderLock
      PROVE  UNCHANGED <<requests, batch, EV_events, new_events, event_list,
                          mirror, process_unique_id, next_unique_id, commit,
                          commit_id, global_ds, reader_ds>>
  BY <1>7 DEF ServeReaderLock
<1> QED BY <1>1, <1>2, <1>3, <1>4, <1>5, <1>6, <1>7 DEF Next, EventMasterStep, MirrorStep

\* The ids handed out so far are among those of the next state.
LEMMA IdsGrow ==
    ASSUME NEW n \in Int, NEW m, m = n \/ m = n + 1
    PROVE  0 .. n - 1 \subseteq 0 .. m - 1
  OBVIOUS

\* Only one worker is in the middle of a commit.
LEMMA OneCommits ==
    ASSUME IInv, NEW w \in Workers, NEW v \in Workers, commit[w] # "none", commit[v] # "none"
    PROVE  v = w
  BY DEF IInv, CommitsRight, LockRight

\* A step that leaves the stages alone and lets no new commit begin.
LEMMA PipelineSame ==
    ASSUME IInv,
           UNCHANGED <<requests, batch, EV_events, new_events, event_list, mirror,
                       process_unique_id, global_ds, reader_ds>>,
           next_unique_id' \in {next_unique_id, next_unique_id + 1},
           \A w \in Workers : /\ Pending(w)' => Pending(w) /\ commit_id'[w] = commit_id[w]
                              /\ Pending(w) => Pending(w)'
    PROVE  PipelineOrdered' /\ PipelineComplete'
<1>1. PipelineOrdered /\ PipelineComplete /\ TypeOK
  BY DEF IInv
<1>2. /\ UNCHANGED <<Sent, Behind, InHand>>
      /\ ListsSorted => ListsSorted'
      /\ StagesOrdered => StagesOrdered'
  BY DEF Sent, Behind, InHand, ListsSorted, StagesOrdered
<1>3. 0 .. next_unique_id - 1 \subseteq 0 .. next_unique_id' - 1
  <2>1. next_unique_id \in Int
    BY <1>1 DEF TypeOK
  <2>2. next_unique_id' = next_unique_id \/ next_unique_id' = next_unique_id + 1
    OBVIOUS
  <2> QED BY <2>1, <2>2, IdsGrow
<1>4. PipelineOrdered'
  <2>1. (global_ds \cup Sent)' \subseteq 0 .. next_unique_id' - 1
    BY <1>1, <1>2, <1>3 DEF PipelineOrdered
  <2>2. \A w \in Workers : Pending(w)' => Before(Sent, {commit_id[w]})'
    BY <1>1, <1>2 DEF PipelineOrdered
  <2> QED BY <1>1, <1>2, <2>1, <2>2 DEF PipelineOrdered
<1>5. PipelineComplete'
  <2>1. \A w \in Workers : Pending(w) => Pending(w)' /\ commit_id'[w] = commit_id[w]
    OBVIOUS
  <2>2. {commit_id[w] : w \in {v \in Workers : Pending(v)}}
           \subseteq {commit_id'[w] : w \in {v \in Workers : Pending(v)'}}
    BY <2>1
  <2> QED BY <1>1, <1>2, <2>2 DEF PipelineComplete
<1> QED BY <1>4, <1>5

\* A worker begins to commit: its change gets an id above all others.
LEMMA PipelineWrite ==
    ASSUME IInv, NEW w \in Workers, WorkerWrite(w)
    PROVE  PipelineOrdered' /\ PipelineComplete'
<1>1. PipelineOrdered /\ PipelineComplete /\ TypeOK
  BY DEF IInv
<1>2. /\ \A v \in Workers : commit[v] = "none"
      /\ next_unique_id \in Ids
      /\ commit_id' = [commit_id EXCEPT ![w] = next_unique_id]
      /\ commit' = [commit EXCEPT ![w] = "session"]
      /\ next_unique_id' = next_unique_id + 1
      /\ global_ds' = global_ds \cup {next_unique_id}
  BY WriteBegins
<1>3. UNCHANGED <<requests, batch, EV_events, new_events, event_list, mirror,
                  process_unique_id, reader_ds>>
  BY DEF WorkerWrite, eventVars, mirrorVars
<1>4. /\ UNCHANGED <<Sent, Behind, InHand>>
      /\ ListsSorted => ListsSorted'
      /\ StagesOrdered => StagesOrdered'
  BY <1>3 DEF Sent, Behind, InHand, ListsSorted, StagesOrdered
<1>5. next_unique_id \in Nat /\ global_ds \cup Sent \subseteq 0 .. next_unique_id - 1
  BY <1>1, <1>2, IdsAreNumbers DEF PipelineOrdered
<1>6. /\ Pending(w)' /\ commit_id'[w] = next_unique_id
      /\ \A v \in Workers : Pending(v)' => v = w
  BY <1>1, <1>2 DEF Pending, TypeOK, Committers
<1>7. PipelineOrdered'
  <2>1. (global_ds \cup Sent)' \subseteq 0 .. next_unique_id' - 1
    BY <1>2, <1>4, <1>5
  <2>2. Before(Sent, {next_unique_id})
    BY <1>5 DEF Before
  <2>3. \A v \in Workers : Pending(v)' => Before(Sent, {commit_id[v]})'
    BY <1>4, <1>6, <2>2
  <2> QED BY <1>1, <1>3, <1>4, <2>1, <2>3 DEF PipelineOrdered
<1>8. PipelineComplete'
  <2>1. \A v \in Workers : ~Pending(v)
    BY <1>2 DEF Pending
  <2>2. global_ds \subseteq reader_ds \cup InHand \cup Behind
    BY <1>1, <2>1 DEF PipelineComplete
  <2>3. next_unique_id \in {commit_id'[v] : v \in {u \in Workers : Pending(u)'}}
    BY <1>6
  <2> QED BY <1>2, <1>3, <1>4, <2>2, <2>3 DEF PipelineComplete
<1> QED BY <1>7, <1>8

\* What a worker appends to the request list goes behind everything sent off.
LEMMA PipelineAppend ==
    ASSUME IInv, NEW w \in Workers, AppendRequest(w, TRUE)
    PROVE  PipelineOrdered' /\ PipelineComplete'
<1> DEFINE q == [op |-> "add", id |-> commit_id[w], mirrored |-> TRUE]
<1>1. PipelineOrdered /\ PipelineComplete /\ TypeOK
  BY DEF IInv
<1>2. /\ commit[w] = "append" /\ commit' = [commit EXCEPT ![w] = "done"]
      /\ requests' = Append(requests, q)
      /\ UNCHANGED <<batch, EV_events, new_events, event_list, mirror, process_unique_id,
                     next_unique_id, commit_id, global_ds, reader_ds>>
  BY DEF AppendRequest, sessionVars, mirrorVars, storeVars
<1>3. Pending(w) /\ \A v \in Workers : Pending(v) => v = w
  BY <1>2, OneCommits DEF Pending
<1>4. \A v \in Workers : ~Pending(v)'
  BY <1>1, <1>2, <1>3 DEF Pending, TypeOK, Committers
<1>5. Before(Sent, {commit_id[w]}) /\ commit_id[w] \in global_ds
  BY <1>1, <1>2, <1>3 DEF PipelineOrdered, IInv, CommitsRight
<1>6. q \in MirroredAdds /\ q.id = commit_id[w] /\ q \in Requests
  BY <1>1 DEF MirroredAdds, Requests, TypeOK, Committers
<1> HIDE DEF q
<1>7. AddIds(requests') = AddIds(requests) \cup {commit_id[w]} /\ AddsAscend(requests')
  <2>1. Before(AddIds(requests), {q.id})
    BY <1>5, <1>6 DEF Before, Sent, Behind
  <2>2. requests \in Seq(Requests) /\ AddsAscend(requests)
    BY <1>1 DEF TypeOK, PipelineOrdered, ListsSorted
  <2>3. AddIds(Append(requests, q)) =
           AddIds(requests) \cup IF q \in MirroredAdds THEN {q.id} ELSE {}
    BY <1>6, <2>1, <2>2, AddAppended
  <2>4. AddsAscend(Append(requests, q))
    BY <1>6, <2>1, <2>2, AddAppended
  <2> QED BY <1>2, <1>6, <2>3, <2>4
<1>8. /\ Behind' = Behind \cup {commit_id[w]} /\ InHand' = InHand
      /\ Sent' = Sent \cup {commit_id[w]}
  BY <1>2, <1>7 DEF Behind, InHand, Sent
<1>9. PipelineOrdered'
  <2>1. ListsSorted'
    BY <1>1, <1>2, <1>7 DEF PipelineOrdered, ListsSorted
  <2>2. StagesOrdered'
    <3>1. StagesOrdered
      BY <1>1 DEF PipelineOrdered
    <3>2. /\ Before(Elements(event_list), {commit_id[w]}) /\ Before(Elements(new_events), {commit_id[w]})
          /\ Before(Elements(EV_events), {commit_id[w]}) /\ Before(AddIds(batch), {commit_id[w]})
          /\ Before({process_unique_id}, {commit_id[w]})
      BY <1>5 DEF Before, Sent, Behind
    <3> QED BY <1>2, <1>7, <1>8, <3>1, <3>2 DEF StagesOrdered, Before
  <2>3. (global_ds \cup Sent)' \subseteq 0 .. next_unique_id' - 1
    BY <1>1, <1>2, <1>5, <1>8 DEF PipelineOrdered
  <2> QED BY <1>1, <1>2, <1>4, <2>1, <2>2, <2>3 DEF PipelineOrdered
<1>10. PipelineComplete'
  <2>1. {commit_id[v] : v \in {u \in Workers : Pending(u)}} \subseteq {commit_id[w]}
    BY <1>3
  <2> QED BY <1>1, <1>2, <1>8, <2>1 DEF PipelineComplete
<1> QED BY <1>9, <1>10

\* A request that is not for the mirror.
LEMMA PipelineOther ==
    ASSUME IInv, NEW q \in Requests, q \notin MirroredAdds,
           requests' = Append(requests, q),
           UNCHANGED <<batch, EV_events, new_events, event_list, process_unique_id,
                       next_unique_id, commit_id, global_ds, reader_ds>>,
           mirror' \in {"wait", "release"} => event_list' = <<>>,
           \/ mirror' = mirror
           \/ mirror \notin {"lock", "process"} /\ mirror' \notin {"lock", "process"},
           \A w \in Workers : commit'[w] = commit[w]
    PROVE  PipelineOrdered' /\ PipelineComplete'
<1>1. PipelineOrdered /\ PipelineComplete /\ TypeOK
  BY DEF IInv
<1>2. requests \in Seq(Requests) /\ AddsAscend(requests)
  BY <1>1 DEF TypeOK, PipelineOrdered, ListsSorted
<1>3. AddIds(requests') = AddIds(requests) /\ AddsAscend(requests')
  <2>1. AddIds(Append(requests, q)) =
           AddIds(requests) \cup IF q \in MirroredAdds THEN {q.id} ELSE {}
    BY <1>2, AddAppended
  <2>2. AddsAscend(Append(requests, q))
    BY <1>2, AddAppended
  <2> QED BY <2>1, <2>2
<1>4. UNCHANGED <<Behind, InHand, Sent>>
  BY <1>3 DEF Behind, InHand, Sent
<1>5. \A w \in Workers : Pending(w)' <=> Pending(w)
  BY DEF Pending
<1>6. PipelineOrdered'
  <2>1. ListsSorted'
    BY <1>1, <1>3 DEF PipelineOrdered, ListsSorted
  <2>2. StagesOrdered'
    BY <1>1, <1>3, <1>4 DEF PipelineOrdered, StagesOrdered
  <2> QED BY <1>1, <1>4, <1>5, <2>1, <2>2 DEF PipelineOrdered
<1>7. PipelineComplete'
  BY <1>1, <1>4, <1>5 DEF PipelineComplete
<1> QED BY <1>6, <1>7

\* A step that moves changes on from one stage to the next.
LEMMA PipelineMoved ==
    ASSUME IInv, UNCHANGED <<next_unique_id, commit, commit_id, global_ds>>,
           ListsSorted', StagesOrdered', Sent' \subseteq Sent,
           mirror' \in {"wait", "release"} => event_list' = <<>>,
           reader_ds \cup InHand \cup Behind \subseteq reader_ds' \cup InHand' \cup Behind'
    PROVE  PipelineOrdered' /\ PipelineComplete'
<1>1. PipelineOrdered /\ PipelineComplete
  BY DEF IInv
<1>2. \A w \in Workers : Pending(w)' <=> Pending(w)
  BY DEF Pending
<1>3. (global_ds \cup Sent)' \subseteq 0 .. next_unique_id' - 1
  BY <1>1 DEF PipelineOrdered
<1>4. \A w \in Workers : Pending(w)' => Before(Sent, {commit_id[w]})'
  BY <1>1, <1>2 DEF PipelineOrdered, Before
<1>5. PipelineComplete'
  BY <1>1, <1>2 DEF PipelineComplete
<1> QED BY <1>3, <1>4, <1>5 DEF PipelineOrdered

\* The event master takes the list, processes it and sends the events.
LEMMA PipelineEventMaster ==
    ASSUME PicksRight, IInv, EventMasterStep
    PROVE  PipelineOrdered' /\ PipelineComplete'
<1>1. TypeOK /\ ListsSorted /\ StagesOrdered
         /\ (mirror \in {"wait", "release"} => event_list = <<>>)
  BY DEF IInv, PipelineOrdered
<1>2. CASE TakeRequests
  <2>1. /\ batch = <<>> /\ batch' = requests /\ requests' = <<>>
        /\ UNCHANGED <<EV_events, new_events, event_list, mirror, process_unique_id,
                       next_unique_id, commit, commit_id, global_ds, reader_ds>>
    BY <1>2 DEF TakeRequests, sessionVars, commitVars, mirrorVars, storeVars
  <2>2. /\ AddIds(batch) = {} /\ AddIds(batch') = AddIds(requests)
        /\ AddIds(requests') = {} /\ AddsAscend(requests')
    BY <2>1, NoAdds
  <2>3. Behind' = Behind /\ InHand' = InHand /\ Sent' = Sent
    BY <2>1, <2>2 DEF Behind, InHand, Sent
  <2>4. ListsSorted'
    BY <1>1, <2>1, <2>2 DEF ListsSorted
  <2>5. StagesOrdered'
    BY <1>1, <2>1, <2>2, <2>3 DEF StagesOrdered, Before
  <2> QED BY <1>1, <2>1, <2>3, <2>4, <2>5, PipelineMoved
<1>3. CASE ProcessRequests
  <2>1. /\ EV_events' = EV_events \o Mirrored(batch) /\ batch' = <<>>
        /\ UNCHANGED <<requests, new_events, event_list, mirror, process_unique_id,
                       next_unique_id, commit, commit_id, global_ds, reader_ds>>
    BY <1>3 DEF ProcessRequests, sessionVars, commitVars, mirrorVars, storeVars
  <2>2. /\ Mirrored(batch) \in Seq(Ids) /\ Elements(Mirrored(batch)) = AddIds(batch)
        /\ Ascending(Mirrored(batch))
    BY <1>1, MirroredRight DEF TypeOK, ListsSorted
  <2>3. EV_events \in Seq(Ids) /\ Before(Elements(EV_events), AddIds(batch))
    BY <1>1 DEF TypeOK, StagesOrdered, Before
  <2>4. Elements(EV_events') = Elements(EV_events) \cup AddIds(batch)
    BY <2>1, <2>2, <2>3, ElementsOf
  <2>5. Ascending(EV_events')
    <3>1. ASSUME NEW s \in Seq(Ids) PROVE s \in Seq(Int)
      <4>1. \A i \in 1 .. Len(s) : s[i] \in Int
        BY IdsAreNumbers
      <4> QED BY <4>1
    <3> QED BY <1>1, <2>1, <2>2, <2>3, <3>1, AscendingConcat DEF ListsSorted
  <2>6. AddIds(batch') = {} /\ AddsAscend(batch')
    BY <2>1, NoAdds
  <2>7. Behind' = Behind /\ InHand' = InHand /\ Sent' = Sent
    BY <2>1, <2>4, <2>6 DEF Behind, InHand, Sent
  <2>8. ListsSorted'
    BY <1>1, <2>1, <2>5, <2>6 DEF ListsSorted
  <2>9. StagesOrdered'
    BY <1>1, <2>1, <2>4, <2>6, <2>7 DEF StagesOrdered, Before
  <2> QED BY <1>1, <2>1, <2>7, <2>8, <2>9, PipelineMoved
<1>4. CASE SendEvents
  <2>1. /\ batch = <<>> /\ new_events' = new_events \o EV_events /\ EV_events' = <<>>
        /\ UNCHANGED <<requests, batch, event_list, mirror, process_unique_id,
                       next_unique_id, commit, commit_id, global_ds, reader_ds>>
    BY <1>4 DEF SendEvents, sessionVars, commitVars, storeVars
  <2>2. /\ EV_events \in Seq(Ids) /\ new_events \in Seq(Ids)
        /\ Before(Elements(new_events), Elements(EV_events))
    BY <1>1 DEF TypeOK, StagesOrdered, Before
  <2>3. Elements(new_events') = Elements(new_events) \cup Elements(EV_events)
           /\ Elements(EV_events') = {}
    BY <2>1, <2>2, ElementsOf
  <2>4. Ascending(new_events') /\ Ascending(EV_events')
    <3>1. ASSUME NEW s \in Seq(Ids) PROVE s \in Seq(Int)
      <4>1. \A i \in 1 .. Len(s) : s[i] \in Int
        BY IdsAreNumbers
      <4> QED BY <4>1
    <3> QED BY <1>1, <2>1, <2>2, <3>1, AscendingConcat, NoAdds DEF ListsSorted
  <2>5. AddIds(batch) = {}
    BY <2>1, NoAdds
  <2>6. Behind' = Behind /\ InHand' = InHand /\ Sent' = Sent
    BY <2>1, <2>3 DEF Behind, InHand, Sent
  <2>7. ListsSorted'
    BY <1>1, <2>1, <2>4 DEF ListsSorted
  <2>8. StagesOrdered'
    BY <1>1, <2>1, <2>3, <2>5, <2>6 DEF StagesOrdered, Before
  <2> QED BY <1>1, <2>1, <2>6, <2>7, <2>8, PipelineMoved
<1> QED BY <1>2, <1>3, <1>4 DEF EventMasterStep

\* The mirror fetches the events, processes and publishes them.
LEMMA PipelineMirror ==
    ASSUME IInv, MirrorStep, ~ReleaseBusy
    PROVE  PipelineOrdered' /\ PipelineComplete'
<1>1. TypeOK /\ ListsSorted /\ StagesOrdered
         /\ (mirror \in {"wait", "release"} => event_list = <<>>)
  BY DEF IInv, PipelineOrdered
<1>2. CASE WaitForEvent
  <2>1. /\ mirror = "wait" /\ event_list' = new_events /\ new_events' = <<>> /\ mirror' = "lock"
        /\ UNCHANGED <<requests, batch, EV_events, process_unique_id,
                       next_unique_id, commit, commit_id, global_ds, reader_ds>>
    BY <1>2 DEF WaitForEvent, sessionVars, commitVars, eventVars, storeVars
  <2>2. Elements(event_list) = {} /\ Elements(new_events') = {} /\ Ascending(new_events')
    BY <1>1, <2>1, NoAdds
  <2>3. /\ Elements(event_list') = Elements(new_events) /\ InHand' = Elements(new_events)
        /\ Behind = Behind' \cup Elements(new_events) /\ Sent' = Sent /\ InHand = {}
    BY <2>1, <2>2 DEF Behind, InHand, Sent
  <2>4. ListsSorted'
    BY <1>1, <2>1, <2>2 DEF ListsSorted
  <2>5. StagesOrdered'
    <3>1. Behind' = Elements(EV_events) \cup AddIds(batch) \cup AddIds(requests)
      BY <2>1, <2>2 DEF Behind
    <3> QED BY <1>1, <2>1, <2>2, <2>3, <3>1 DEF StagesOrdered, Before
  <2> QED BY <2>1, <2>3, <2>4, <2>5, PipelineMoved
<1>3. CASE MirrorLock
  <2>1. /\ mirror = "lock" /\ mirror' = "process"
        /\ UNCHANGED <<requests, batch, EV_events, new_events, event_list, process_unique_id,
                       next_unique_id, commit, commit_id, global_ds, reader_ds>>
    BY <1>3 DEF MirrorLock, sessionVars, commitVars, eventVars, storeVars
  <2>2. Behind' = Behind /\ InHand' = InHand /\ Sent' = Sent
    BY <2>1 DEF Behind, InHand, Sent
  <2>3. ListsSorted' /\ StagesOrdered'
    BY <1>1, <2>1, <2>2 DEF ListsSorted, StagesOrdered
  <2> QED BY <2>1, <2>2, <2>3, PipelineMoved
<1>4. CASE ProcessEvents
  <2>1. /\ mirror = "process"
        /\ UNCHANGED <<requests, batch, EV_events, new_events, event_list,
                       next_unique_id, commit, commit_id, global_ds>>
    BY <1>4 DEF ProcessEvents, commitVars, eventVars
  <2>2. ListsSorted' /\ Behind' = Behind /\ InHand = Elements(event_list)
    BY <1>1, <2>1 DEF ListsSorted, Behind, InHand
  <2>3. CASE event_list = <<>>
    <3>1. mirror' = "unlock" /\ UNCHANGED <<reader_ds, process_unique_id>>
      BY <1>4, <2>3 DEF ProcessEvents
    <3>2. Elements(event_list) = {}
      BY <2>3, NoAdds
    <3>3. InHand' = {} /\ Sent' = Sent
      BY <2>1, <2>2, <3>1 DEF InHand, Sent
    <3>4. StagesOrdered'
      BY <1>1, <2>1, <2>2, <3>1, <3>3 DEF StagesOrdered, Before
    <3> QED BY <2>1, <2>2, <3>1, <3>2, <3>3, <3>4, PipelineMoved
  <2>4. CASE event_list # <<>>
    <3>1. /\ mirror' = "move" /\ reader_ds' = reader_ds \cup Elements(event_list)
          /\ process_unique_id' = event_list[Len(event_list)]
      BY <1>4, <2>4 DEF ProcessEvents
    <3>2. process_unique_id' \in Elements(event_list)
      <4>1. event_list \in Seq(Ids)
        BY <1>1 DEF TypeOK
      <4>2. Len(event_list) \in 1 .. Len(event_list)
        BY <2>4, <4>1
      <4> QED BY <3>1, <4>2 DEF Elements
    <3>3. InHand' = {} /\ Sent' \subseteq Sent
      BY <2>1, <2>2, <3>1, <3>2 DEF InHand, Sent
    <3>4. StagesOrdered'
      BY <1>1, <2>1, <2>2, <3>2, <3>3 DEF StagesOrdered, Before
    <3> QED BY <2>1, <2>2, <3>1, <3>3, <3>4, PipelineMoved
  <2> QED BY <2>3, <2>4
<1>5. CASE MoveRequests \/ MirrorUnlock
  <2>1. /\ mirror \in {"move", "unlock"} /\ mirror' \in {"unlock", "release"}
        /\ UNCHANGED <<requests, batch, EV_events, new_events, process_unique_id,
                       next_unique_id, commit, commit_id, global_ds, reader_ds>>
        /\ \/ event_list' = event_list /\ mirror' = "unlock"
           \/ event_list' = <<>>
    BY <1>5 DEF MoveRequests, MirrorUnlock, sessionVars, commitVars, eventVars, storeVars
  <2>2. Elements(<<>>) = {} /\ Ascending(<<>>)
    BY NoAdds
  <2>3. Elements(event_list') \subseteq Elements(event_list) /\ ListsSorted'
    BY <1>1, <2>1, <2>2 DEF ListsSorted
  <2>4. Behind' = Behind /\ InHand' = {} /\ InHand = {} /\ Sent' \subseteq Sent
    BY <2>1, <2>3 DEF Behind, InHand, Sent
  <2>5. StagesOrdered'
    BY <1>1, <2>1, <2>3, <2>4 DEF StagesOrdered, Before
  <2> QED BY <2>1, <2>3, <2>4, <2>5, PipelineMoved
<1> QED BY <1>2, <1>3, <1>4, <1>5 DEF MirrorStep

\* A step keeps the order of the changes on their way, and loses none.
LEMMA PipelineStep == PicksRight /\ IInv /\ Next => PipelineOrdered' /\ PipelineComplete'
<1> SUFFICES ASSUME PicksRight, IInv, Next PROVE PipelineOrdered' /\ PipelineComplete'
  OBVIOUS
<1>1. TypeOK /\ CommitsRight
         /\ (mirror \in {"wait", "release"} => event_list = <<>>)
  BY DEF IInv, PipelineOrdered
<1>2. \A w \in Workers : w \notin Clients /\ w \in Committers
  BY ThreadsAssumption DEF Committers
<1>3. CASE UNCHANGED <<requests, batch, EV_events, new_events, event_list, mirror,
                       process_unique_id, next_unique_id, commit, commit_id, global_ds,
                       reader_ds>>
  <2>1. next_unique_id' \in {next_unique_id, next_unique_id + 1}
    BY <1>3
  <2>2. \A w \in Workers : /\ Pending(w)' => Pending(w) /\ commit_id'[w] = commit_id[w]
                           /\ Pending(w) => Pending(w)'
    BY <1>3 DEF Pending
  <2> QED BY <1>3, <2>1, <2>2, PipelineSame
<1>4. ASSUME NEW c \in Clients, Trigger(c) PROVE PipelineOrdered' /\ PipelineComplete'
  <2>1. /\ next_unique_id' \in {next_unique_id, next_unique_id + 1}
        /\ UNCHANGED <<requests, batch, EV_events, new_events, event_list, mirror,
                       process_unique_id, global_ds, reader_ds>>
    BY <1>4 DEF Trigger, TakeUniqueId, eventVars, mirrorVars, storeVars
  <2>2. \A w \in Workers : commit'[w] = commit[w] /\ commit_id'[w] = commit_id[w]
    BY <1>1, <1>2, <1>4 DEF Trigger, TakeUniqueId, TypeOK
  <2>3. \A w \in Workers : /\ Pending(w)' => Pending(w) /\ commit_id'[w] = commit_id[w]
                           /\ Pending(w) => Pending(w)'
    BY <2>2 DEF Pending
  <2> QED BY <2>1, <2>3, PipelineSame
<1>5. ASSUME NEW c \in Clients, TriggerAnswer(c) PROVE PipelineOrdered' /\ PipelineComplete'
  <2>1. /\ next_unique_id' \in {next_unique_id, next_unique_id + 1}
        /\ UNCHANGED <<requests, batch, EV_events, new_events, event_list, mirror,
                       process_unique_id, global_ds, reader_ds>>
    BY <1>5 DEF TriggerAnswer, sessionVars, eventVars, mirrorVars, storeVars
  <2>2. \A w \in Workers : commit'[w] = commit[w] /\ commit_id'[w] = commit_id[w]
    BY <1>1, <1>2, <1>5 DEF TriggerAnswer, TypeOK
  <2>3. \A w \in Workers : /\ Pending(w)' => Pending(w) /\ commit_id'[w] = commit_id[w]
                           /\ Pending(w) => Pending(w)'
    BY <2>2 DEF Pending
  <2> QED BY <2>1, <2>3, PipelineSame
<1>6. ASSUME NEW t \in Committers,
             SetWriteUniqueId(t, UserOf[t]) \/ SetWriteUniqueId(t, UserOf[packet[t]])
      PROVE  PipelineOrdered' /\ PipelineComplete'
  <2>1. /\ next_unique_id' \in {next_unique_id, next_unique_id + 1}
        /\ UNCHANGED <<requests, batch, EV_events, new_events, event_list, mirror,
                       process_unique_id, global_ds, reader_ds, commit_id>>
    BY <1>6 DEF SetWriteUniqueId, eventVars, mirrorVars, storeVars
  <2>2. commit[t] = "session" /\ commit' = [commit EXCEPT ![t] = "append"]
    BY <1>6 DEF SetWriteUniqueId
  <2>3. \A w \in Workers : commit'[w] = IF w = t THEN "append" ELSE commit[w]
    BY <1>1, <1>2, <2>2 DEF TypeOK
  <2>4. \A w \in Workers : /\ Pending(w)' => Pending(w) /\ commit_id'[w] = commit_id[w]
                           /\ Pending(w) => Pending(w)'
    BY <2>1, <2>2, <2>3 DEF Pending
  <2> QED BY <2>1, <2>4, PipelineSame
<1>7. ASSUME NEW c \in Clients, AppendRequest(c, FALSE)
      PROVE  PipelineOrdered' /\ PipelineComplete'
  <2>0. PICK q : q = [op |-> "add", id |-> commit_id[c], mirrored |-> FALSE]
    OBVIOUS
  <2>1. /\ requests' = Append(requests, q)
        /\ UNCHANGED <<batch, EV_events, new_events, event_list, process_unique_id, mirror,
                       next_unique_id, commit_id, global_ds, reader_ds>>
    BY <1>7, <2>0 DEF AppendRequest, sessionVars, mirrorVars, storeVars
  <2>2. q \in Requests /\ q \notin MirroredAdds
    <3>1. q.mirrored = FALSE /\ commit_id[c] \in Ids
      BY <1>1, <2>0 DEF TypeOK, Committers
    <3> QED BY <2>0, <3>1 DEF Requests, MirroredAdds
  <2>3. \A w \in Workers : commit'[w] = commit[w]
    BY <1>1, <1>2, <1>7 DEF AppendRequest, TypeOK
  <2>4. mirror' \in {"wait", "release"} => event_list' = <<>>
    BY <1>1, <2>1
  <2> QED BY <2>1, <2>2, <2>3, <2>4, PipelineOther
<1>8. ASSUME NEW w \in Workers, WorkerAnswer(w) PROVE PipelineOrdered' /\ PipelineComplete'
  <2>1. /\ next_unique_id' \in {next_unique_id, next_unique_id + 1}
        /\ UNCHANGED <<requests, batch, EV_events, new_events, event_list, mirror,
                       process_unique_id, global_ds, reader_ds>>
    BY <1>8 DEF WorkerAnswer, sessionVars, eventVars, mirrorVars, storeVars
  <2>2. \A v \in Workers : v # w => commit'[v] = commit[v] /\ commit_id'[v] = commit_id[v]
    BY <1>1, <1>2, <1>8 DEF WorkerAnswer, TypeOK
  <2>3. commit[w] \in {"none", "done"} /\ commit'[w] = "none"
    BY <1>1, <1>2, <1>8 DEF WorkerAnswer, TypeOK, CommitsRight
  <2>4. \A v \in Workers : /\ Pending(v)' => Pending(v) /\ commit_id'[v] = commit_id[v]
                           /\ Pending(v) => Pending(v)'
    BY <2>2, <2>3 DEF Pending
  <2> QED BY <2>1, <2>4, PipelineSame
<1>9. CASE ReleaseBusy
  <2> DEFINE q == [op |-> "release"]
  <2>1. /\ requests' = Append(requests, q) /\ mirror = "release" /\ mirror' = "wait"
        /\ UNCHANGED <<batch, EV_events, new_events, event_list, process_unique_id,
                       next_unique_id, commit, commit_id, global_ds, reader_ds>>
    BY <1>9 DEF ReleaseBusy, sessionVars, commitVars, storeVars
  <2>2. q \in Requests /\ q \notin MirroredAdds
    <3>1. q.op = "release"
      OBVIOUS
    <3> QED BY <3>1 DEF Requests, MirroredAdds
  <2> HIDE DEF q
  <2> QED BY <1>1, <2>1, <2>2, PipelineOther
<1>10. \A t \in Workers \cup Clients : t \in Committers
  BY DEF Committers
<1> QED BY <1>3, <1>4, <1>5, <1>6, <1>7, <1>8, <1>9, <1>10, PipelineWrite, PipelineAppend,
          PipelineEventMaster, PipelineMirror, PipelineFrame DEF EventMasterStep, MirrorStep

-----------------------------------------------------------------------------
(* The data stores and the answers *)

\* What users know changes with requests, answers and writes.
LEMMA AnswersFrame ==
    Next => \/ UNCHANGED <<answered, must_see, global_ds>>
            \/ \E c \in Clients, k \in Kinds : Send(c, k)
            \/ \E c \in Clients : TriggerRefused(c) \/ TriggerAnswer(c)
            \/ \E w \in Workers : WorkerWrite(w) \/ WorkerAnswer(w)
            \/ \E r \in Readers : ReaderAnswer(r)
<1> USE DEF storeVars, clientVars
<1>1. ASSUME NEW c \in Clients, ListenerStep(c)
      PROVE  \/ UNCHANGED <<answered, must_see, global_ds>>
             \/ TriggerRefused(c) \/ TriggerAnswer(c)
  BY <1>1 DEF ListenerStep, StoreGlobal, ChooseQueue, StoreReader, Trigger,
     SetWriteUniqueId, AppendRequest
<1>2. ASSUME NEW w \in Workers, WorkerStep(w)
      PROVE  \/ UNCHANGED <<answered, must_see, global_ds>>
             \/ WorkerWrite(w) \/ WorkerAnswer(w)
  BY <1>2 DEF WorkerStep, WorkerTake, WorkerRead, SetWriteUniqueId, AppendRequest
<1>3. ASSUME EventMasterStep
      PROVE  UNCHANGED <<answered, must_see, global_ds>>
  BY <1>3 DEF EventMasterStep, TakeRequests, ProcessRequests, SendEvents
<1>4. ASSUME MirrorStep
      PROVE  UNCHANGED <<answered, must_see, global_ds>>
  BY <1>4 DEF MirrorStep, WaitForEvent, MirrorLock, ProcessEvents, MoveRequests,
     MirrorUnlock, ReleaseBusy
<1>5. ASSUME NEW r \in Readers, ReaderStep(r)
      PROVE  \/ UNCHANGED <<answered, must_see, global_ds>>
             \/ ReaderAnswer(r)
  BY <1>5 DEF ReaderStep, ReaderTake
<1>6. ASSUME NEW u \in Users, RemoveUnused(u)
      PROVE  UNCHANGED <<answered, must_see, global_ds>>
  BY <1>6 DEF RemoveUnused
<1>7. ASSUME ServeGlobalLock
      PROVE  UNCHANGED <<answered, must_see, global_ds>>
  BY <1>7 DEF ServeGlobalLock
<1>8. ASSUME ServeReaderLock
      PROVE  UNCHANGED <<answered, must_see, global_ds>>
  BY <1>8 DEF ServeReaderLock
<1> QED BY <1>1, <1>2, <1>3, <1>4, <1>5, <1>6, <1>7, <1>8 DEF Next

\* What the sessions stand for changes with ids, events and the clean-up.
LEMMA NotesFrame ==
    Next => \/ UNCHANGED <<write_unique_id, reader_ds>>
            \/ \E c \in Clients : SetWriteUniqueId(c, UserOf[c])
            \/ \E w \in Workers : packet[w] # None /\ SetWriteUniqueId(w, UserOf[packet[w]])
            \/ ProcessEvents
            \/ \E u \in Users : RemoveUnused(u)
<1> USE DEF sessionVars, storeVars
<1>1. ASSUME NEW c \in Clients, NEW k \in Kinds, Send(c, k)
      PROVE  UNCHANGED <<write_unique_id, reader_ds>>
  BY <1>1 DEF Send
<1>2. ASSUME NEW c \in Clients, ListenerStep(c)
      PROVE  \/ UNCHANGED <<write_unique_id, reader_ds>>
             \/ SetWriteUniqueId(c, UserOf[c])
  BY <1>2 DEF ListenerStep, StoreGlobal, ChooseQueue, StoreReader, Trigger,
     TriggerRefused, AppendRequest, TriggerAnswer
<1>3. ASSUME NEW w \in Workers, WorkerStep(w)
      PROVE  \/ UNCHANGED <<write_unique_id, reader_ds>>
             \/ packet[w] # None /\ SetWriteUniqueId(w, UserOf[packet[w]])
  BY <1>3 DEF WorkerStep, WorkerTake, WorkerWrite, WorkerRead, AppendRequest,
     WorkerAnswer
<1>4. ASSUME EventMasterStep
      PROVE  UNCHANGED <<write_unique_id, reader_ds>>
  BY <1>4 DEF EventMasterStep, TakeRequests, ProcessRequests, SendEvents
<1>5. ASSUME MirrorStep
      PROVE  \/ UNCHANGED <<write_unique_id, reader_ds>>
             \/ ProcessEvents
  BY <1>5 DEF MirrorStep, WaitForEvent, MirrorLock, MoveRequests, MirrorUnlock,
     ReleaseBusy
<1>6. ASSUME NEW r \in Readers, ReaderStep(r)
      PROVE  UNCHANGED <<write_unique_id, reader_ds>>
  BY <1>6 DEF ReaderStep, ReaderTake, ReaderAnswer
<1>7. ASSUME ServeGlobalLock
      PROVE  UNCHANGED <<write_unique_id, reader_ds>>
  BY <1>7 DEF ServeGlobalLock
<1>8. ASSUME ServeReaderLock
      PROVE  UNCHANGED <<write_unique_id, reader_ds>>
  BY <1>8 DEF ServeReaderLock
<1> QED BY <1>1, <1>2, <1>3, <1>4, <1>5, <1>6, <1>7, <1>8 DEF Next

\* A change in the GLOBAL data store up to the published id is in the READER one.
LEMMA PublishedSeen == IInv => SnapshotReached
<1> SUFFICES ASSUME IInv, NEW id \in global_ds, id <= process_unique_id
             PROVE  id \in reader_ds
  BY DEF SnapshotReached
<1>1. TypeOK /\ PipelineOrdered /\ PipelineComplete
  BY DEF IInv
<1>2. id \in Int /\ process_unique_id \in Int
  <2>1. id \in Ids /\ process_unique_id \in Ids
    BY <1>1 DEF TypeOK
  <2> QED BY <2>1, IdsAreNumbers
<1>3. id \notin InHand \cup Behind
  <2>1. Before({process_unique_id}, InHand \cup Behind)
    BY <1>1 DEF PipelineOrdered, StagesOrdered
  <2> QED BY <1>2, <2>1 DEF Before
<1>4. ASSUME NEW w \in Workers, Pending(w) PROVE id # commit_id[w]
  <2>1. Before(Sent, {commit_id[w]})
    BY <1>1, <1>4 DEF PipelineOrdered
  <2>2. process_unique_id \in Sent
    BY DEF Sent
  <2> QED BY <1>2, <2>1, <2>2 DEF Before
<1> QED BY <1>1, <1>3, <1>4 DEF PipelineComplete

\* A step adds to the data stores and takes nothing away.
LEMMA StoresGrow ==
    ASSUME IInv, Next
    PROVE  global_ds \subseteq global_ds' /\ reader_ds \subseteq reader_ds'
<1>1. global_ds \subseteq global_ds'
  BY AnswersFrame DEF Send, TriggerRefused, TriggerAnswer, WorkerWrite, WorkerAnswer,
     ReaderAnswer, storeVars
<1>2. reader_ds \subseteq reader_ds'
  BY NotesFrame DEF SetWriteUniqueId, ProcessEvents, RemoveUnused, storeVars
<1> QED BY <1>1, <1>2

\* What users have been told grows by the change of a worker that answers.
LEMMA AnsweredFrom ==
    ASSUME IInv, Next, NEW u \in Users, NEW id \in answered'[u]
    PROVE  \/ id \in answered[u]
           \/ \E w \in Workers : /\ WorkerAnswer(w) /\ commit[w] = "done"
                                 /\ UserOf[packet[w]] = u /\ id = commit_id[w]
<1>1. TypeOK
  BY DEF IInv
<1>2. CASE UNCHANGED answered
  BY <1>2
<1>3. ASSUME NEW w \in Workers, WorkerAnswer(w), id \notin answered[u]
      PROVE  commit[w] = "done" /\ UserOf[packet[w]] = u /\ id = commit_id[w]
  <2>1. answered' = [answered EXCEPT ![UserOf[packet[w]]] =
                        @ \cup IF commit[w] = "done" THEN {commit_id[w]} ELSE {}]
    BY <1>3 DEF WorkerAnswer
  <2> QED BY <1>1, <1>3, <2>1 DEF TypeOK
<1>4. ASSUME \A w \in Workers : ~WorkerAnswer(w) PROVE UNCHANGED answered
  BY <1>4, AnswersFrame DEF Send, TriggerRefused, TriggerAnswer, WorkerWrite, ReaderAnswer,
     clientVars
<1> QED BY <1>2, <1>3, <1>4

\* What a request has to see is fixed when it is sent, and given up when it is
\* answered.
LEMMA MustSeeFrom ==
    ASSUME IInv, Next, NEW c \in Clients
    PROVE  \/ must_see'[c] = must_see[c]
           \/ must_see'[c] = {}
           \/ /\ request[c] = "idle" /\ request'[c] = "arrived"
              /\ must_see'[c] = answered[UserOf[c]] /\ answered' = answered
<1>1. TypeOK
  BY DEF IInv
<1>2. CASE UNCHANGED <<answered, must_see, global_ds>>
  BY <1>2
<1>3. ASSUME NEW d \in Clients, NEW k \in Kinds, Send(d, k)
      PROVE  \/ must_see'[c] = must_see[c]
             \/ /\ request[c] = "idle" /\ request'[c] = "arrived"
                /\ must_see'[c] = answered[UserOf[c]] /\ answered' = answered
  BY <1>1, <1>3 DEF Send, TypeOK
<1>4. ASSUME NEW d, must_see' = [must_see EXCEPT ![d] = {}]
      PROVE  must_see'[c] = must_see[c] \/ must_see'[c] = {}
  BY <1>1, <1>4 DEF TypeOK
<1>5. ASSUME NEW d \in Clients, TriggerRefused(d) \/ TriggerAnswer(d)
      PROVE  must_see'[c] = must_see[c] \/ must_see'[c] = {}
  BY <1>4, <1>5 DEF TriggerRefused, TriggerAnswer
<1>6. ASSUME NEW w \in Workers, WorkerWrite(w) PROVE must_see'[c] = must_see[c]
  BY <1>6 DEF WorkerWrite, clientVars
<1>7. ASSUME NEW w \in Workers, WorkerAnswer(w)
      PROVE  must_see'[c] = must_see[c] \/ must_see'[c] = {}
  <2>1. must_see' = [must_see EXCEPT ![packet[w]] = {}]
    BY <1>7 DEF WorkerAnswer
  <2> QED BY <1>1, <2>1 DEF TypeOK
<1>8. ASSUME NEW r \in Readers, ReaderAnswer(r)
      PROVE  must_see'[c] = must_see[c] \/ must_see'[c] = {}
  <2>1. must_see' = [must_see EXCEPT ![packet[r]] = {}]
    BY <1>8 DEF ReaderAnswer
  <2> QED BY <1>1, <2>1 DEF TypeOK
<1> QED BY <1>2, <1>3, <1>5, <1>6, <1>7, <1>8, AnswersFrame

\* A step tells users and requests of nothing that is not in the GLOBAL data
\* store.
LEMMA AnswersStep == IInv /\ Next => AnswersRight'
<1> SUFFICES ASSUME IInv, Next PROVE AnswersRight'
  OBVIOUS
<1>1. TypeOK /\ AnswersRight /\ CommitsRight
  BY DEF IInv
<1>2. ASSUME NEW u \in Users, NEW id \in answered'[u] PROVE id \in global_ds'
  <2>1. id \in global_ds
    <3>1. CASE id \in answered[u]
      BY <1>1, <3>1 DEF AnswersRight
    <3>2. ASSUME NEW w \in Workers, commit[w] = "done", id = commit_id[w] PROVE id \in global_ds
      BY <1>1, <3>2 DEF CommitsRight
    <3>3. \/ id \in answered[u]
          \/ \E w \in Workers : commit[w] = "done" /\ id = commit_id[w]
      BY <1>2, AnsweredFrom
    <3> QED BY <3>1, <3>2, <3>3
  <2> QED BY <2>1, StoresGrow
<1>3. ASSUME NEW u \in Users PROVE answered[u] \subseteq answered'[u]
  <2>1. CASE \E w \in Workers : WorkerAnswer(w)
    <3>1. PICK w \in Workers : WorkerAnswer(w)
      BY <2>1
    <3>2. PICK D : D = IF commit[w] = "done" THEN {commit_id[w]} ELSE {}
      OBVIOUS
    <3>3. answered' = [answered EXCEPT ![UserOf[packet[w]]] = @ \cup D]
      BY <3>1, <3>2 DEF WorkerAnswer
    <3>4. answered = [v \in Users |-> answered[v]]
      BY <1>1 DEF TypeOK
    <3> QED BY <3>3, <3>4
  <2>2. CASE \A w \in Workers : ~WorkerAnswer(w)
    BY <2>2, AnswersFrame DEF Send, TriggerRefused, TriggerAnswer, WorkerWrite, ReaderAnswer,
       clientVars
  <2> QED BY <2>1, <2>2
<1>4. ASSUME NEW c \in Clients PROVE must_see'[c] \subseteq answered'[UserOf[c]]
  <2>1. UserOf[c] \in Users
    BY UsersAssumption
  <2> QED BY <1>1, <1>3, <2>1, MustSeeFrom DEF AnswersRight
<1> QED BY <1>2, <1>4 DEF AnswersRight
=============================================================================
