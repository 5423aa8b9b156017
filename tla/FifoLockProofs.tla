--------------------------- MODULE FifoLockProofs ---------------------------
(* Proofs of the safety properties of the FIFO reader/writer lock, for any     *)
(* number of threads, any length of the waiting queue, and with or without     *)
(* nested read locks.                                                          *)
EXTENDS FifoLock, FiniteSetTheorems, SequenceTheorems, TLAPS

\* A set of threads has a cardinality, since there are finitely many threads.
LEMMA CardNat ==
    ASSUME NEW S \in SUBSET Threads
    PROVE  IsFiniteSet(S) /\ Cardinality(S) \in Nat
BY ThreadsAssumption, FS_Subset, FS_CardinalityType

\* A thread that joins a set of threads adds one to its cardinality.
LEMMA CardPlus ==
    ASSUME NEW S \in SUBSET Threads, NEW x \in Threads, x \notin S
    PROVE  Cardinality(S \cup {x}) = Cardinality(S) + 1
BY CardNat, FS_AddElement

\* A thread that leaves a set of threads takes one from its cardinality.
LEMMA CardMinus ==
    ASSUME NEW S \in SUBSET Threads, NEW x \in S
    PROVE  /\ Cardinality(S \ {x}) = Cardinality(S) - 1
           /\ Cardinality(S) >= 1
<1>1. Cardinality(S \ {x}) = Cardinality(S) - 1
  BY CardNat, FS_RemoveElement
<1>2. Cardinality(S \ {x}) \in Nat /\ Cardinality(S) \in Nat
  BY CardNat
<1> QED BY <1>1, <1>2

\* Two different members make the cardinality at least two.
LEMMA CardTwo ==
    ASSUME NEW S \in SUBSET Threads, NEW x \in S, NEW y \in S, x # y
    PROVE  Cardinality(S) >= 2
<1>1. Cardinality(S \ {x}) = Cardinality(S) - 1
  BY CardMinus
<1>2. Cardinality(S \ {x}) >= 1
  BY CardMinus
<1>3. Cardinality(S) \in Nat
  BY CardNat
<1> QED BY <1>1, <1>2, <1>3

\* The empty set of threads has no members to count.
LEMMA CardZero ==
    ASSUME NEW S \in SUBSET Threads, Cardinality(S) = 0
    PROVE  S = {}
BY CardNat, FS_EmptySet

\* The sum of two counters is a counter.
LEMMA NatSum == \A a, b \in Nat : a + b \in Nat
OBVIOUS

\* The sets of threads that the counters count.
LEMMA ThreadSets ==
    /\ Queued \in SUBSET Threads
    /\ Outside \in SUBSET Threads
    /\ QueuedReaders \in SUBSET Threads
    /\ QueuedWriters \in SUBSET Threads
    /\ Readers \in SUBSET Threads
    /\ NestedReaders \in SUBSET Threads
    /\ Writers \in SUBSET Threads
BY DEF Queued, Outside, QueuedReaders, QueuedWriters, Readers, NestedReaders,
       Writers

\* The initial state of sge_fifo_lock_init satisfies the invariant.
LEMMA InitIInv == Init => IInv
<1> SUFFICES ASSUME Init PROVE IInv
  OBVIOUS
<1> USE DEF Init
<1>1. TypeOK
  BY QueueLengthAssumption DEF TypeOK, Slots, EmptySlot, HoldStates
<1>2. /\ Queued = {} /\ Outside = {} /\ QueuedReaders = {}
      /\ QueuedWriters = {} /\ Readers = {} /\ NestedReaders = {}
      /\ Writers = {}
  BY DEF Queued, Outside, QueuedReaders, QueuedWriters, Readers,
         NestedReaders, Writers
<1>3. CountersMatch
  BY <1>2, FS_EmptySet DEF CountersMatch
<1>4. QueueShape
  BY <1>2, QueueLengthAssumption DEF QueueShape, Waiters, L, Dist, Slots
<1>5. WaitersHold
  BY DEF WaitersHold
<1>6. SignalsMatch
  BY DEF SignalsMatch, EmptySlot
<1>7. Exclusion /\ HeadKeptOut
  BY DEF Exclusion, HeadKeptOut, Waiters
<1> QED BY <1>1, <1>3, <1>4, <1>5, <1>6, <1>7 DEF IInv

\* A thread waits outside the queue: nothing but the set of those threads and
\* their counter changes.
LEMMA OverflowStep ==
    ASSUME IInv, NEW t \in Threads, NEW r \in BOOLEAN,
           pc[t] # "queued",
           hold[t] = "none" \/ (NestedReads /\ r /\ hold[t] = "read"),
           trying' \in SUBSET Threads,
           woken' = woken \ {t},
           is_reader' = [is_reader EXCEPT ![t] = r],
           waiting' = Cardinality(Outside \ {t}) + 1,
           pc' = [pc EXCEPT ![t] = "outside"],
           UNCHANGED <<array, head, tail, reader_active, reader_waiting,
                       writer_active, writer_waiting, signaled, index, hold>>
    PROVE  IInv'
<1> USE DEF IInv
<1>1. Outside' = (Outside \ {t}) \cup {t} /\ Outside \ {t} \in SUBSET Threads
  BY DEF Outside, TypeOK
<1>2. waiting' = Cardinality(Outside') /\ waiting' \in Nat
  <2> HIDE DEF IInv
  <2>1. PICK S : S = Outside \ {t}
    OBVIOUS
  <2>2. S \in SUBSET Threads /\ t \notin S
    BY <1>1, <2>1
  <2>3. Cardinality(S) \in Nat /\ Cardinality(S \cup {t}) = Cardinality(S) + 1
    BY <2>2, CardPlus, CardNat
  <2>4. waiting' = Cardinality(S) + 1 /\ Outside' = S \cup {t}
    BY <1>1, <2>1
  <2> QED BY <2>3, <2>4
<1>3. TypeOK'
  BY <1>2 DEF TypeOK
<1>4. Queued' = Queued /\ QueuedReaders' = QueuedReaders
      /\ QueuedWriters' = QueuedWriters
  BY DEF Queued, QueuedReaders, QueuedWriters, TypeOK
<1>5. Readers' = Readers /\ NestedReaders' = NestedReaders
      /\ Writers' = Writers
  BY DEF Readers, NestedReaders, Writers
<1>6. CountersMatch'
  BY <1>2, <1>4, <1>5 DEF CountersMatch
<1>7. \A u \in Queued : is_reader'[u] = is_reader[u]
  BY DEF Queued, TypeOK
<1>8. QueueShape'
  BY <1>4, <1>7 DEF QueueShape, Waiters, Dist
<1>9. WaitersHold'
  BY DEF WaitersHold, TypeOK
<1>10. SignalsMatch' /\ Exclusion' /\ HeadKeptOut'
  BY DEF SignalsMatch, Exclusion, HeadKeptOut, Waiters
<1> QED BY <1>3, <1>6, <1>8, <1>9, <1>10

\* A thread joins the queue at tail: the threads already queued keep their
\* slots, and if it is the first one then some thread holds the lock.
LEMMA EnqueueStep ==
    ASSUME IInv, NEW t \in Threads, NEW r \in BOOLEAN,
           pc[t] # "queued",
           hold[t] = "none" \/ (NestedReads /\ r /\ hold[t] = "read"),
           trying' \in SUBSET Threads,
           woken' = woken \ {t},
           is_reader' = [is_reader EXCEPT ![t] = r],
           ~QueueFull, MustQueue(r),
           waiting' = Cardinality(Outside \ {t}),
           Enqueue(t, r),
           UNCHANGED <<head, reader_active, writer_active, signaled, hold>>
    PROVE  IInv'
<1> USE DEF IInv, Enqueue
<1>1. Outside' = Outside \ {t} /\ Outside \ {t} \in SUBSET Threads
  BY DEF Outside, TypeOK
<1>2. waiting' = Cardinality(Outside') /\ waiting' \in Nat
  BY <1>1, CardNat
<1>3. TypeOK'
  <2>1. tail' \in Slots
    BY QueueLengthAssumption DEF TypeOK, Slots, Advance
  <2>2. array' \in [Slots -> [is_reader : BOOLEAN, is_signaled : BOOLEAN]]
    BY DEF TypeOK
  <2>3. reader_waiting' \in Nat /\ writer_waiting' \in Nat
    BY DEF TypeOK
  <2> QED BY <1>2, <2>1, <2>2, <2>3 DEF TypeOK
<1>4. Queued' = Queued \cup {t} /\ t \notin Queued
  BY DEF Queued, TypeOK
<1>5. /\ QueuedReaders' = IF r THEN QueuedReaders \cup {t} ELSE QueuedReaders
      /\ QueuedWriters' = IF r THEN QueuedWriters ELSE QueuedWriters \cup {t}
      /\ t \notin QueuedReaders /\ t \notin QueuedWriters
  BY DEF QueuedReaders, QueuedWriters, TypeOK
<1>6. Readers' = Readers /\ NestedReaders' = NestedReaders
      /\ Writers' = Writers
  BY DEF Readers, NestedReaders, Writers
<1>7. CountersMatch'
  <2>1. /\ Cardinality(QueuedReaders \cup {t}) = Cardinality(QueuedReaders) + 1
        /\ Cardinality(QueuedWriters \cup {t}) = Cardinality(QueuedWriters) + 1
    BY <1>5, CardPlus, ThreadSets
  <2>2. Cardinality(QueuedReaders) \in Nat /\ Cardinality(QueuedWriters) \in Nat
    BY CardNat, ThreadSets
  <2>3. reader_waiting' = Cardinality(QueuedReaders')
        /\ writer_waiting' = Cardinality(QueuedWriters')
    BY <1>5, <2>1, <2>2 DEF CountersMatch
  <2> QED BY <1>2, <1>6, <2>3 DEF CountersMatch
<1>8. Waiters \in Nat /\ Waiters < L /\ Waiters' = Waiters + 1
  BY QueueLengthAssumption DEF QueueShape, QueueFull, Waiters, L, TypeOK
<1>9. /\ head \in Slots /\ tail \in Slots /\ L \in Nat \ {0}
      /\ Slots = 0 .. L - 1
  BY QueueLengthAssumption DEF TypeOK, L, Slots
<1>10. Dist(tail) = Waiters /\ \A s \in Slots : Dist(s) = Waiters => s = tail
  <2>1. tail = IF head + Waiters < L THEN head + Waiters ELSE head + Waiters - L
    BY DEF QueueShape
  <2>2. head \in 0 .. L - 1 /\ Waiters \in Nat /\ Waiters < L /\ L \in Nat
    BY <1>8, <1>9
  <2> HIDE DEF IInv, Enqueue
  <2>3. Dist(tail) = Waiters
    BY <2>1, <2>2 DEF Dist
  <2>4. \A s \in Slots : Dist(s) = Waiters => s = tail
    BY <2>1, <2>2, <1>9 DEF Dist
  <2> QED BY <2>3, <2>4
<1>11. \A s \in Slots : Dist(s)' = Dist(s) /\ Dist(s) \in Nat
  BY <1>9 DEF Dist
<1>12. \A u \in Queued :
           /\ index[u] \in Slots /\ index[u] # tail
           /\ index'[u] = index[u]
           /\ is_reader'[u] = is_reader[u]
  BY <1>4, <1>10, <1>8, <1>9 DEF QueueShape, TypeOK, Queued
<1>13. index'[t] = tail /\ is_reader'[t] = r /\ array'[tail].is_reader = r
       /\ ~array'[tail].is_signaled
  BY DEF TypeOK
<1>14. \A s \in Slots : s # tail => array'[s] = array[s]
  BY DEF TypeOK
<1>15. QueueShape'
  <2>1. Waiters' <= L'
    BY <1>8, <1>9 DEF L
  <2>2. tail' = IF head' + Waiters' < L THEN head' + Waiters'
                ELSE head' + Waiters' - L
    <3>1. /\ tail = IF head + Waiters < L THEN head + Waiters ELSE head + Waiters - L
          /\ tail' = IF tail + 1 = L THEN 0 ELSE tail + 1
          /\ head' = head
      BY DEF QueueShape, Advance, L
    <3>2. head \in 0 .. L - 1 /\ L \in Nat
      BY <1>9
    <3> HIDE DEF IInv, Enqueue
    <3> QED BY <1>8, <3>1, <3>2
  <2>3. \A u \in Queued' :
            /\ Dist(index[u])' < Waiters'
            /\ array'[index'[u]].is_reader = is_reader'[u]
    <3>1. ASSUME NEW u \in Queued
          PROVE  Dist(index[u])' < Waiters' /\ array'[index'[u]].is_reader = is_reader'[u]
      <4>1. Dist(index[u]) < Waiters /\ array[index[u]].is_reader = is_reader[u]
        BY DEF QueueShape
      <4>2. PICK s \in Slots : s = index[u] /\ s # tail /\ index'[u] = s
        BY <1>12
      <4>3. Dist(s)' = Dist(s) /\ Dist(s) \in Nat /\ array'[s] = array[s]
        BY <1>11, <1>14, <4>2
      <4>4. Dist(index[u])' = Dist(s)'
        BY <4>2 DEF Dist
      <4> HIDE DEF IInv, Enqueue
      <4>5. Dist(index[u])' < Waiters'
        BY <1>8, <4>1, <4>2, <4>3, <4>4
      <4> QED BY <1>12, <4>1, <4>2, <4>3, <4>5
    <3>2. Dist(index[t])' < Waiters' /\ array'[index'[t]].is_reader = is_reader'[t]
      <4>1. Dist(index[t])' = Dist(tail)
        BY <1>9, <1>13 DEF Dist
      <4> HIDE DEF IInv, Enqueue
      <4> QED BY <1>8, <1>10, <1>13, <4>1
    <3> QED BY <1>4, <3>1, <3>2
  <2>4. \A u, v \in Queued' : index'[u] = index'[v] => u = v
    BY <1>4, <1>12, <1>13 DEF QueueShape
  <2>5. \A s \in Slots : Dist(s)' < Waiters' => \E u \in Queued' : index'[u] = s
    BY <1>4, <1>8, <1>10, <1>11, <1>12, <1>13 DEF QueueShape
  <2> QED BY <2>1, <2>2, <2>3, <2>4, <2>5 DEF QueueShape, L, Slots
<1>16. WaitersHold'
  BY DEF WaitersHold, TypeOK
<1>17. Waiters > 0 => head # tail
  BY <1>8, <1>9, <1>10 DEF Dist
<1>18. SignalsMatch'
  BY <1>8, <1>9, <1>13, <1>14, <1>17 DEF SignalsMatch
<1>19. Exclusion'
  BY <1>9, <1>14, <1>17 DEF Exclusion, SignalsMatch
<1>20. HeadKeptOut'
  <2>1. CASE Waiters > 0
    BY <2>1, <1>9, <1>14, <1>17 DEF HeadKeptOut
  <2>2. CASE Waiters = 0
    <3>1. tail = head
      BY <2>2, <1>8, <1>9 DEF QueueShape
    <3>2. writer_waiting = 0
      BY <2>2 DEF Waiters, TypeOK
    <3> QED BY <3>1, <3>2, <1>13 DEF HeadKeptOut, MustQueue, TypeOK
  <2> QED BY <2>1, <2>2, <1>8
<1> QED BY <1>3, <1>7, <1>15, <1>16, <1>18, <1>19, <1>20

\* Giving a thread the lock keeps the counters of holders in step with hold.
LEMMA GrantCounts ==
    ASSUME TypeOK, CountersMatch, NEW t \in Threads, NEW r \in BOOLEAN,
           hold[t] = "none" \/ (r /\ hold[t] = "read"),
           Grant(t, r)
    PROVE  /\ reader_active' = Cardinality(Readers') + Cardinality(NestedReaders')
           /\ writer_active' = Cardinality(Writers')
           /\ reader_active' \in Nat /\ writer_active' \in Nat
           /\ hold' \in [Threads -> HoldStates]
<1> USE DEF Grant
<1>0. /\ hold' \in [Threads -> HoldStates]
      /\ reader_active' \in Nat /\ writer_active' \in Nat
  BY DEF TypeOK, HoldStates
<1>1. /\ Cardinality(Readers) \in Nat /\ Cardinality(NestedReaders) \in Nat
      /\ Cardinality(Writers) \in Nat
  BY CardNat, ThreadSets
<1>2. CASE r /\ hold[t] = "none"
  <2>1. Readers' = Readers \cup {t} /\ t \notin Readers
        /\ NestedReaders' = NestedReaders /\ Writers' = Writers
    BY <1>2 DEF Readers, NestedReaders, Writers, TypeOK
  <2>2. Cardinality(Readers') = Cardinality(Readers) + 1
    BY <2>1, CardPlus, ThreadSets
  <2> QED BY <1>0, <1>1, <1>2, <2>1, <2>2 DEF CountersMatch
<1>3. CASE r /\ hold[t] = "read"
  <2>1. NestedReaders' = NestedReaders \cup {t} /\ t \notin NestedReaders
        /\ Readers' = Readers /\ Writers' = Writers
    BY <1>3 DEF Readers, NestedReaders, Writers, TypeOK
  <2>2. Cardinality(NestedReaders') = Cardinality(NestedReaders) + 1
    BY <2>1, CardPlus, ThreadSets
  <2> QED BY <1>0, <1>1, <1>3, <2>1, <2>2 DEF CountersMatch
<1>4. CASE ~r
  <2>1. Writers' = Writers \cup {t} /\ t \notin Writers
        /\ Readers' = Readers /\ NestedReaders' = NestedReaders
    BY <1>4 DEF Readers, NestedReaders, Writers, TypeOK
  <2>2. Cardinality(Writers') = Cardinality(Writers) + 1
    BY <2>1, CardPlus, ThreadSets
  <2> QED BY <1>0, <1>1, <1>4, <2>1, <2>2 DEF CountersMatch, TypeOK
<1> QED BY <1>2, <1>3, <1>4

\* A thread gets the lock without waiting: no thread is signalled, and a writer
\* finds the queue empty.
LEMMA DirectStep ==
    ASSUME IInv, NEW t \in Threads, NEW r \in BOOLEAN,
           pc[t] # "queued",
           hold[t] = "none" \/ (NestedReads /\ r /\ hold[t] = "read"),
           trying' \in SUBSET Threads,
           woken' = woken \ {t},
           is_reader' = [is_reader EXCEPT ![t] = FALSE],
           ~MustQueue(r),
           waiting' = Cardinality(Outside \ {t}),
           Grant(t, r),
           pc' = [pc EXCEPT ![t] = "run"],
           UNCHANGED <<array, head, tail, reader_waiting, writer_waiting,
                       signaled, index>>
    PROVE  IInv'
<1> USE DEF IInv
<1>1. Outside' = Outside \ {t} /\ Outside \ {t} \in SUBSET Threads
  BY DEF Outside, TypeOK
<1>2. waiting' = Cardinality(Outside') /\ waiting' \in Nat
  BY <1>1, CardNat
<1>3. TypeOK'
  BY <1>2, GrantCounts DEF TypeOK
<1>4. Queued' = Queued /\ QueuedReaders' = QueuedReaders
      /\ QueuedWriters' = QueuedWriters
  BY DEF Queued, QueuedReaders, QueuedWriters, TypeOK
<1>5. CountersMatch'
  BY <1>2, <1>4, GrantCounts DEF CountersMatch
<1>6. \A u \in Queued : is_reader'[u] = is_reader[u]
  BY DEF Queued, TypeOK
<1>7. QueueShape'
  BY <1>4, <1>6 DEF QueueShape, Waiters, Dist
<1>8. WaitersHold'
  BY DEF WaitersHold, TypeOK, Grant
<1>9. SignalsMatch'
  BY DEF SignalsMatch, Waiters
<1>10. writer_active = 0 /\ signaled = 0 /\ (~r => reader_active = 0)
  BY DEF MustQueue, TypeOK
<1>11. Exclusion'
  BY <1>10 DEF Exclusion, Grant, TypeOK
<1>12. HeadKeptOut'
  BY <1>10 DEF HeadKeptOut, Grant, TypeOK, Waiters
<1> QED BY <1>3, <1>5, <1>7, <1>8, <1>9, <1>11, <1>12

\* The three outcomes of sge_fifo_lock_internal before it waits or returns.
LEMMA LockInternalStep ==
    ASSUME IInv, NEW t \in Threads, NEW r \in BOOLEAN,
           pc[t] # "queued",
           hold[t] = "none" \/ (NestedReads /\ r /\ hold[t] = "read"),
           trying' \in SUBSET Threads,
           LockInternal(t, r, Cardinality(Outside \ {t}))
    PROVE  IInv'
BY OverflowStep, EnqueueStep, DirectStep DEF LockInternal

\* Waking the slot n and clearing the slot h of the queue leaves a queue of slots.
LEMMA SlotsUpdated ==
    ASSUME NEW D, NEW n \in D, NEW h \in D, NEW c \in BOOLEAN,
           NEW f \in [D -> [is_reader : BOOLEAN, is_signaled : BOOLEAN]]
    PROVE  [f EXCEPT ![n].is_signaled = @ \/ c, ![h] = EmptySlot]
               \in [D -> [is_reader : BOOLEAN, is_signaled : BOOLEAN]]
<1> DEFINE Slot == [is_reader : BOOLEAN, is_signaled : BOOLEAN]
           v == [f[n] EXCEPT !.is_signaled = @ \/ c]
<1>1. v \in Slot
  <2>1. f[n] \in Slot
    OBVIOUS
  <2>2. (f[n].is_signaled \/ c) \in BOOLEAN
    OBVIOUS
  <2> QED BY <2>1, <2>2
<1>2. EmptySlot \in Slot
  BY DEF EmptySlot
<1>3. [f EXCEPT ![n].is_signaled = @ \/ c, ![h] = EmptySlot]
          = [[f EXCEPT ![n] = v] EXCEPT ![h] = EmptySlot]
  OBVIOUS
<1>4. f \in [D -> Slot]
  OBVIOUS
<1> HIDE DEF Slot, v
<1>5. [[f EXCEPT ![n] = v] EXCEPT ![h] = EmptySlot] \in [D -> Slot]
  BY <1>1, <1>2, <1>4
<1> QED BY <1>3, <1>5 DEF Slot

\* A signalled thread leaves the queue: it is the one in the slot at head, the
\* slots behind it move up by one, and a reader wakes the reader behind it.
LEMMA DequeueStep ==
    ASSUME IInv, NEW t \in Threads, Dequeue(t)
    PROVE  IInv'
<1> DEFINE r == is_reader[t]
           rw == reader_waiting - (IF r THEN 1 ELSE 0)
           next == Advance(head)
           chain == Chain(rw, next)
           NewDist(s) == IF s >= next THEN s - next ELSE s - next + L
<1> USE DEF IInv
<1>1. /\ pc[t] = "queued" /\ array[index[t]].is_signaled
      /\ reader_waiting' = rw
      /\ writer_waiting' = writer_waiting - (IF r THEN 0 ELSE 1)
      /\ signaled' = signaled - 1 + (IF chain THEN 1 ELSE 0)
      /\ head' = next
      /\ array' = [array EXCEPT ![next].is_signaled = @ \/ chain,
                                ![head] = EmptySlot]
      /\ SignalOutside
      /\ Grant(t, r)
      /\ pc' = [pc EXCEPT ![t] = "run"]
      /\ is_reader' = [is_reader EXCEPT ![t] = FALSE]
      /\ index' = [index EXCEPT ![t] = 0]
      /\ trying' = trying \ {t}
      /\ UNCHANGED <<tail, waiting>>
  BY DEF Dequeue
<1>2. r \in BOOLEAN /\ chain \in BOOLEAN /\ t \in Queued /\ index[t] \in Slots
  BY <1>1 DEF TypeOK, Chain, Queued
<1>3. index[t] = head /\ signaled = 1 /\ array[head].is_reader = r
  BY <1>1, <1>2 DEF SignalsMatch, QueueShape
<1>4. hold[t] = "none" \/ (r /\ hold[t] = "read")
  BY <1>1 DEF WaitersHold
<1>a. /\ rw = reader_waiting - (IF r THEN 1 ELSE 0)
      /\ next = IF head + 1 = L THEN 0 ELSE head + 1
      /\ chain <=> r /\ rw > 0 /\ array[next].is_reader
      /\ r <=> is_reader[t]
  BY <1>3 DEF Chain, Advance, L
<1>5. /\ QueuedReaders' = IF r THEN QueuedReaders \ {t} ELSE QueuedReaders
      /\ QueuedWriters' = IF r THEN QueuedWriters ELSE QueuedWriters \ {t}
      /\ r => t \in QueuedReaders
      /\ ~r => t \in QueuedWriters
      /\ Queued' = Queued \ {t}
      /\ Outside' = Outside
  BY <1>1 DEF QueuedReaders, QueuedWriters, Queued, Outside, TypeOK
<1>6. /\ reader_waiting' = Cardinality(QueuedReaders')
      /\ writer_waiting' = Cardinality(QueuedWriters')
  <2>1. CASE r
    BY <1>1, <1>5, <2>1, CardMinus, ThreadSets DEF CountersMatch, TypeOK
  <2>2. CASE ~r
    BY <1>1, <1>5, <2>2, CardMinus, ThreadSets DEF CountersMatch, TypeOK
  <2> QED BY <2>1, <2>2
<1>7. reader_waiting' \in Nat /\ writer_waiting' \in Nat
  <2>1. QueuedReaders' \in SUBSET Threads /\ QueuedWriters' \in SUBSET Threads
    BY DEF QueuedReaders, QueuedWriters
  <2> QED BY <1>6, <2>1, CardNat
<1>8. CountersMatch'
  BY <1>1, <1>2, <1>4, <1>5, <1>6, GrantCounts DEF CountersMatch
<1>9. /\ head \in Slots /\ tail \in Slots /\ L \in Nat \ {0}
      /\ Slots = 0 .. L - 1 /\ next \in Slots
  BY QueueLengthAssumption DEF TypeOK, L, Slots, Advance
<1> HIDE DEF r, rw, next, chain, NewDist
<1>10. Waiters \in Nat /\ Waiters' = Waiters - 1 /\ Waiters' \in Nat
       /\ Waiters <= L
  <2>1. Waiters <= L
    BY DEF QueueShape
  <2>3. reader_waiting \in Nat /\ writer_waiting \in Nat
    BY DEF TypeOK
  <2>5. Waiters \in Nat
    BY <2>3 DEF Waiters
  <2>6. Waiters' \in Nat
    BY <1>7, NatSum DEF Waiters
  <2>7. Waiters' = Waiters - 1
    BY <1>1, <1>2, <1>a, <2>3 DEF Waiters
  <2> QED BY <2>1, <2>5, <2>6, <2>7
<1>11. TypeOK'
  <2>1. array' \in [Slots -> [is_reader : BOOLEAN, is_signaled : BOOLEAN]]
    <3>1. array \in [Slots -> [is_reader : BOOLEAN, is_signaled : BOOLEAN]]
      BY DEF TypeOK
    <3>2. array' = [array EXCEPT ![next].is_signaled = @ \/ chain,
                                 ![head] = EmptySlot]
      BY <1>1
    <3> QED BY ONLY <1>2, <1>9, <3>1, <3>2, SlotsUpdated
  <2>2. signaled' \in Nat
    BY <1>1, <1>2, <1>3
  <2>3. woken' \in SUBSET Threads
    BY <1>1 DEF TypeOK, SignalOutside, Outside
  <2>4. index' \in [Threads -> Slots]
    BY <1>1, <1>9 DEF TypeOK
  <2>5. /\ reader_active' \in Nat /\ writer_active' \in Nat
        /\ hold' \in [Threads -> HoldStates]
    BY <1>1, <1>2, <1>4, GrantCounts
  <2> QED BY <1>1, <1>7, <1>9, <2>1, <2>2, <2>3, <2>4, <2>5 DEF TypeOK
<1>12. \A u \in Queued' :
           /\ u \in Queued /\ u # t
           /\ index'[u] = index[u] /\ index[u] \in Slots
           /\ index[u] # head
           /\ is_reader'[u] = is_reader[u]
  BY <1>1, <1>2, <1>3, <1>5 DEF QueueShape, TypeOK, Queued
<1>13. \A s \in Slots : s # head =>
           /\ array'[s].is_reader = array[s].is_reader
           /\ s # next => (array'[s].is_signaled <=> array[s].is_signaled)
           /\ s = next =>
                 (array'[s].is_signaled <=> array[s].is_signaled \/ chain)
  BY <1>1, <1>9 DEF TypeOK
<1>14. array'[head] = EmptySlot
  BY <1>1, <1>9 DEF TypeOK
<1>15. \A s \in Slots : s # head => NewDist(s) = Dist(s) - 1
  BY <1>9, <1>a DEF Dist, NewDist
<1>16. \A s \in Slots : Dist(s) \in Nat /\ (Dist(s) = 0 <=> s = head)
  BY <1>9 DEF Dist
<1>17. NewDist(head) = L - 1 /\ NewDist(next) = 0
  BY <1>9, <1>a DEF NewDist
<1>b. \A s \in Slots : Dist(s)' = NewDist(s)
  BY <1>1 DEF Dist, L, NewDist
<1>18. QueueShape'
  <2>1. Waiters' <= L
    BY <1>10, <1>9
  <2>2. tail' = IF head' + Waiters' < L THEN head' + Waiters'
                ELSE head' + Waiters' - L
    <3>1. tail = IF head + Waiters < L THEN head + Waiters
                 ELSE head + Waiters - L
      BY DEF QueueShape
    <3> HIDE DEF IInv
    <3> QED BY SMTT(30), <3>1, <1>1, <1>9, <1>10, <1>a
  <2>3. \A u \in Queued' :
            /\ NewDist(index'[u]) < Waiters'
            /\ array'[index'[u]].is_reader = is_reader'[u]
    <3> SUFFICES ASSUME NEW u \in Queued'
                 PROVE  /\ NewDist(index'[u]) < Waiters'
                        /\ array'[index'[u]].is_reader = is_reader'[u]
      OBVIOUS
    <3>1. Dist(index[u]) < Waiters /\ array[index[u]].is_reader = is_reader[u]
      BY <1>12 DEF QueueShape
    <3>2. NewDist(index'[u]) = Dist(index[u]) - 1
      BY <1>12, <1>15
    <3> QED BY SMTT(30), <3>1, <3>2, <1>10, <1>12, <1>13, <1>16
  <2>4. \A u, v \in Queued' : index'[u] = index'[v] => u = v
    BY <1>12 DEF QueueShape
  <2>5. \A s \in Slots : Dist(s)' < Waiters' => \E u \in Queued' : index'[u] = s
    <3> SUFFICES ASSUME NEW s \in Slots, NewDist(s) < Waiters'
                 PROVE  \E u \in Queued' : index'[u] = s
      BY <1>b
    <3>1. s # head
      BY <1>9, <1>10, <1>17
    <3>2. Dist(s) < Waiters
      BY <3>1, <1>10, <1>15, <1>16
    <3>3. PICK u \in Queued : index[u] = s
      BY <3>2 DEF QueueShape
    <3>4. u # t
      BY <3>1, <3>3, <1>3
    <3> QED BY <3>3, <3>4, <1>5, <1>12
  <2>6. \A u \in Queued' : Dist(index[u])' = NewDist(index'[u])
    BY <1>1 DEF Dist, L, NewDist
  <2> QED BY <2>1, <2>2, <2>3, <2>4, <2>5, <2>6 DEF QueueShape, L, Slots
<1>19. WaitersHold'
  BY <1>1 DEF WaitersHold, TypeOK, Grant
<1>20. chain => r /\ rw > 0 /\ array[next].is_reader /\ next # head
  <2>1. chain => r /\ rw > 0 /\ array[next].is_reader
    BY <1>a
  <2>2. chain => Waiters' > 0
    BY <2>1, <1>1, <1>7 DEF Waiters
  <2>3. Waiters' > 0 => next # head
    BY <1>9, <1>10, <1>a
  <2> QED BY <2>1, <2>2, <2>3
<1>21. SignalsMatch'
  <2>1. signaled' \in {0, 1} /\ (signaled' = 1 <=> chain)
    BY <1>1, <1>2, <1>3
  <2>2. \A s \in Slots : array'[s].is_signaled => s = next /\ chain
    <3>1. ~array'[head].is_signaled
      BY <1>14 DEF EmptySlot
    <3>2. \A s \in Slots : array[s].is_signaled => s = head
      BY DEF SignalsMatch
    <3> HIDE DEF IInv
    <3> QED BY <3>1, <3>2, <1>13
  <2>3. chain => Waiters' > 0 /\ array'[next].is_signaled
    <3>1. chain => Waiters' > 0
      BY <1>1, <1>7, <1>20 DEF Waiters
    <3> HIDE DEF IInv
    <3> QED BY <3>1, <1>9, <1>13, <1>20
  <2> QED BY <1>1, <2>1, <2>2, <2>3 DEF SignalsMatch, Slots
<1>22. writer_active = 0 /\ (~r => reader_active = 0)
  BY <1>2, <1>3 DEF Exclusion, TypeOK
<1>23. Exclusion'
  <2>1. writer_active' = (IF r THEN 0 ELSE 1) /\ (~r => reader_active' = 0)
    BY <1>1, <1>2, <1>22 DEF Grant, TypeOK
  <2>2. signaled' = 1 => r /\ array'[head'].is_reader
    <3>1. signaled' = 1 => chain
      BY <1>1, <1>2, <1>3
    <3>2. head' = next
      BY <1>1
    <3> HIDE DEF IInv
    <3> QED BY <3>1, <3>2, <1>9, <1>13, <1>20
  <2>3. writer_active' = 1 => signaled' = 0
    BY <2>1, <1>1, <1>2, <1>3, <1>20
  <2> QED BY <2>1, <2>2, <2>3, <1>2 DEF Exclusion
<1>24. HeadKeptOut'
  <2>1. reader_active' + writer_active' > 0
    BY <1>1, <1>2, <1>22 DEF Grant, TypeOK
  <2>2. ~r => writer_active' > 0
    BY <1>1, <1>2, <1>22 DEF Grant
  <2>3. ASSUME r, ~chain, Waiters' > 0, array'[next].is_reader
        PROVE  FALSE
    <3>1. next # head
      BY <2>3, <1>9, <1>10, <1>a
    <3>2. array[next].is_reader
      BY <2>3, <3>1, <1>9, <1>13
    <3>3. Dist(next) < Waiters
      BY <3>1, <2>3, <1>9, <1>10, <1>15, <1>16, <1>17
    <3>4. PICK u \in Queued : index[u] = next
      BY <3>3, <1>9 DEF QueueShape
    <3>5. u # t /\ is_reader[u]
      BY <3>1, <3>2, <3>4, <1>3 DEF QueueShape
    <3>6. t \in QueuedReaders /\ u \in QueuedReaders
      BY <2>3, <3>5, <1>5 DEF QueuedReaders, Queued
    <3>7. reader_waiting >= 2
      BY <3>5, <3>6, CardTwo, ThreadSets DEF CountersMatch
    <3> QED BY <2>3, <3>2, <3>7, <1>a DEF TypeOK
  <2> QED BY <2>1, <2>2, <2>3, <1>1, <1>2, <1>3 DEF HeadKeptOut
<1> QED BY <1>8, <1>11, <1>18, <1>19, <1>21, <1>23, <1>24

\* Taking the lock back from a thread keeps the counters of holders in step.
LEMMA ReleaseCounts ==
    ASSUME TypeOK, CountersMatch, NEW t \in Threads, hold[t] # "none",
           reader_active' = reader_active - (IF hold[t] # "write" THEN 1 ELSE 0),
           writer_active' = writer_active - (IF hold[t] # "write" THEN 0 ELSE 1),
           hold' = [hold EXCEPT ![t] = IF @ = "nested" THEN "read" ELSE "none"]
    PROVE  /\ reader_active' = Cardinality(Readers') + Cardinality(NestedReaders')
           /\ writer_active' = Cardinality(Writers')
           /\ reader_active' \in Nat /\ writer_active' \in Nat
           /\ hold' \in [Threads -> HoldStates]
<1>0. hold' \in [Threads -> HoldStates]
  BY DEF TypeOK, HoldStates
<1>1. /\ Cardinality(Readers) \in Nat /\ Cardinality(NestedReaders) \in Nat
      /\ Cardinality(Writers) \in Nat
  BY CardNat, ThreadSets
<1>2. CASE hold[t] = "read"
  <2>1. Readers' = Readers \ {t} /\ t \in Readers
        /\ NestedReaders' = NestedReaders /\ Writers' = Writers
    BY <1>2 DEF Readers, NestedReaders, Writers, TypeOK
  <2>2. Cardinality(Readers') = Cardinality(Readers) - 1
        /\ Cardinality(Readers) >= 1
    BY <2>1, CardMinus, ThreadSets
  <2> QED BY <1>0, <1>1, <1>2, <2>1, <2>2 DEF CountersMatch, TypeOK
<1>3. CASE hold[t] = "nested"
  <2>1. NestedReaders' = NestedReaders \ {t} /\ t \in NestedReaders
        /\ Readers' = Readers /\ Writers' = Writers
    BY <1>3 DEF Readers, NestedReaders, Writers, TypeOK
  <2>2. Cardinality(NestedReaders') = Cardinality(NestedReaders) - 1
        /\ Cardinality(NestedReaders) >= 1
    BY <2>1, CardMinus, ThreadSets
  <2> QED BY <1>0, <1>1, <1>3, <2>1, <2>2 DEF CountersMatch, TypeOK
<1>4. CASE hold[t] = "write"
  <2>1. Writers' = Writers \ {t} /\ t \in Writers
        /\ Readers' = Readers /\ NestedReaders' = NestedReaders
    BY <1>4 DEF Readers, NestedReaders, Writers, TypeOK
  <2>2. Cardinality(Writers') = Cardinality(Writers) - 1
        /\ Cardinality(Writers) >= 1
    BY <2>1, CardMinus, ThreadSets
  <2> QED BY <1>0, <1>1, <1>4, <2>1, <2>2 DEF CountersMatch, TypeOK
<1> QED BY <1>2, <1>3, <1>4 DEF TypeOK, HoldStates

\* A thread gives the lock back: the last holder signals the head of the queue.
LEMMA UnlockStep ==
    ASSUME IInv, NEW t \in Threads, Unlock(t)
    PROVE  IInv'
<1> DEFINE r == hold[t] # "write"
           ra == reader_active - (IF r THEN 1 ELSE 0)
           wa == writer_active - (IF r THEN 0 ELSE 1)
           notify == Notify(r, ra, wa)
<1> USE DEF IInv
<1>1. /\ pc[t] = "run" /\ hold[t] # "none"
      /\ reader_active' = ra
      /\ writer_active' = wa
      /\ array' = [array EXCEPT ![head].is_signaled = @ \/ notify]
      /\ signaled' = signaled + (IF notify THEN 1 ELSE 0)
      /\ hold' = [hold EXCEPT ![t] = IF @ = "nested" THEN "read" ELSE "none"]
      /\ UNCHANGED <<head, tail, reader_waiting, writer_waiting, waiting,
                     pc, is_reader, index, trying, woken>>
  BY DEF Unlock
<1>2. /\ reader_active' = Cardinality(Readers') + Cardinality(NestedReaders')
      /\ writer_active' = Cardinality(Writers')
      /\ hold' \in [Threads -> HoldStates]
      /\ ra \in Nat /\ wa \in Nat
  BY <1>1, ReleaseCounts
<1>3. notify <=> ra + wa + signaled = 0 /\ Waiters > 0
  BY DEF Notify, Waiters
<1>4. r \in BOOLEAN /\ notify \in BOOLEAN /\ head \in Slots
  BY DEF Notify, TypeOK
<1>5. /\ ra = reader_active - (IF r THEN 1 ELSE 0)
      /\ wa = writer_active - (IF r THEN 0 ELSE 1)
      /\ reader_active \in Nat /\ writer_active \in Nat /\ signaled \in Nat
      /\ Waiters \in Nat
  BY DEF TypeOK, Waiters
<1> HIDE DEF r, ra, wa, notify
<1>6. TypeOK'
  <2>1. array' \in [Slots -> [is_reader : BOOLEAN, is_signaled : BOOLEAN]]
    BY <1>1, <1>4 DEF TypeOK
  <2>2. signaled' \in Nat
    BY <1>1, <1>4, <1>5
  <2> QED BY <1>1, <1>2, <2>1, <2>2 DEF TypeOK
<1>7. /\ Queued' = Queued /\ QueuedReaders' = QueuedReaders
      /\ QueuedWriters' = QueuedWriters /\ Outside' = Outside
  BY <1>1 DEF Queued, QueuedReaders, QueuedWriters, Outside
<1>8. CountersMatch'
  BY <1>1, <1>2, <1>7 DEF CountersMatch
<1>9. \A s \in Slots :
          /\ array'[s].is_reader = array[s].is_reader
          /\ s # head => (array'[s].is_signaled <=> array[s].is_signaled)
  BY <1>1, <1>4 DEF TypeOK
<1>10. array'[head].is_signaled <=> array[head].is_signaled \/ notify
  BY <1>1, <1>4 DEF TypeOK
<1>11. Waiters' = Waiters
  BY <1>1 DEF Waiters
<1>12. QueueShape'
  <2>1. \A u \in Queued : index[u] \in Slots
    BY DEF Queued, TypeOK
  <2> QED BY <1>1, <1>7, <1>9, <1>11, <2>1 DEF QueueShape, Dist, Slots, L
<1>13. WaitersHold'
  BY <1>1 DEF WaitersHold, TypeOK
<1>14. notify => signaled = 0
  BY <1>2, <1>3, <1>5
<1>15. SignalsMatch'
  <2>1. signaled' \in {0, 1} /\ (signaled' = 1 <=> signaled = 1 \/ notify)
    BY <1>1, <1>4, <1>14 DEF SignalsMatch
  <2>2. \A s \in Slots : array'[s].is_signaled => s = head /\ signaled' = 1
    <3>1. \A s \in Slots : array[s].is_signaled => s = head /\ signaled = 1
      BY DEF SignalsMatch
    <3> HIDE DEF IInv
    <3>2. \A s \in Slots : s # head => ~array'[s].is_signaled
      BY <3>1, <1>9
    <3>3. array'[head].is_signaled => signaled' = 1
      BY <3>1, <2>1, <1>4, <1>10
    <3> QED BY <3>2, <3>3
  <2>3. signaled' = 1 => Waiters > 0 /\ array'[head].is_signaled
    BY <2>1, <1>3, <1>10 DEF SignalsMatch
  <2> QED BY <2>1, <2>2, <2>3, <1>1, <1>11 DEF SignalsMatch, Slots
<1>16. Exclusion'
  <2>1. wa <= 1 /\ (wa = 1 => r /\ ra = 0 /\ signaled = 0 /\ ~notify)
    BY <1>2, <1>3, <1>4, <1>5 DEF Exclusion
  <2>2. notify => ra = 0
    BY <1>2, <1>3, <1>5
  <2>3. signaled = 1 /\ ~array[head].is_reader => ra = 0
    BY <1>2, <1>4, <1>5 DEF Exclusion
  <2>4. signaled' = 1 /\ ~array'[head].is_reader => ra = 0
    BY <2>2, <2>3, <1>1, <1>4, <1>9 DEF SignalsMatch
  <2>5. wa = 1 => signaled' = 0
    BY <2>1, <1>1
  <2> QED BY <2>1, <2>4, <2>5, <1>1 DEF Exclusion
<1>17. HeadKeptOut'
  <2> SUFFICES ASSUME signaled' = 0, Waiters > 0
               PROVE  ra + wa > 0 /\ (array[head].is_reader => wa > 0)
    BY <1>1, <1>4, <1>9, <1>11 DEF HeadKeptOut
  <2>1. ~notify /\ signaled = 0
    BY <1>1, <1>4, <1>5
  <2>2. ra + wa > 0
    BY <2>1, <1>2, <1>3
  <2>3. array[head].is_reader => writer_active > 0
    BY <2>1 DEF HeadKeptOut
  <2>4. writer_active > 0 => wa > 0
    BY <2>2, <1>2, <1>4, <1>5 DEF Exclusion
  <2> QED BY <2>2, <2>3, <2>4
<1> QED BY <1>6, <1>8, <1>12, <1>13, <1>15, <1>16, <1>17

\* Every operation of the lock keeps the invariant.
LEMMA IInvStep == IInv /\ [Next]_vars => IInv'
<1> SUFFICES ASSUME IInv, [Next]_vars PROVE IInv'
  OBVIOUS
<1>1. ASSUME NEW t \in Threads, NEW r \in BOOLEAN,
             MayRequest(t, r), LockInternal(t, r, waiting),
             trying' \in SUBSET Threads
      PROVE  IInv'
  <2>1. Outside \ {t} = Outside
    BY <1>1 DEF MayRequest, Outside
  <2>2. waiting = Cardinality(Outside \ {t})
    BY <2>1 DEF IInv, CountersMatch
  <2> QED BY <1>1, <2>2, LockInternalStep DEF MayRequest
<1>2. ASSUME NEW t \in Threads, NEW r \in BOOLEAN, Lock(t, r)
      PROVE  IInv'
  BY <1>1, <1>2 DEF Lock, IInv, TypeOK
<1>3. ASSUME NEW t \in Threads, NEW r \in BOOLEAN, TryLock(t, r)
      PROVE  IInv'
  BY <1>1, <1>3 DEF TryLock, IInv, TypeOK
<1>4. ASSUME NEW t \in Threads, WakeOutside(t)
      PROVE  IInv'
  <2>1. t \in Outside
    BY <1>4 DEF WakeOutside, Outside
  <2>2. waiting - 1 = Cardinality(Outside \ {t})
    BY <2>1, CardMinus, ThreadSets DEF IInv, CountersMatch
  <2>3. is_reader[t] \in BOOLEAN /\ trying' \in SUBSET Threads
    BY <1>4 DEF IInv, TypeOK, WakeOutside
  <2>4. pc[t] # "queued"
        /\ (hold[t] = "none" \/ (NestedReads /\ is_reader[t] /\ hold[t] = "read"))
    <3>1. pc[t] = "outside"
      BY <1>4 DEF WakeOutside
    <3>2. WaitersHold
      BY DEF IInv
    <3> QED BY <3>1, <3>2 DEF WaitersHold
  <2> QED BY <1>4, <2>2, <2>3, <2>4, LockInternalStep DEF WakeOutside
<1>5. CASE UNCHANGED vars
  <2> USE <1>5 DEF vars, lockVars, threadVars
  <2>1. TypeOK'
    BY DEF IInv, TypeOK
  <2>2. QueueShape'
    BY DEF IInv, QueueShape, Waiters, Dist, Queued
  <2>3. CountersMatch'
    BY DEF IInv, CountersMatch, Outside, QueuedReaders, QueuedWriters, Readers,
       NestedReaders, Writers
  <2>4. WaitersHold'
    BY DEF IInv, WaitersHold
  <2>5. SignalsMatch' /\ Exclusion' /\ HeadKeptOut'
    BY DEF IInv, SignalsMatch, Exclusion, HeadKeptOut, Waiters
  <2> QED BY <2>1, <2>2, <2>3, <2>4, <2>5 DEF IInv
<1> QED BY <1>2, <1>3, <1>4, <1>5, DequeueStep, UnlockStep DEF Next

\* The invariant holds in every reachable state of the lock.
THEOREM Invariance == Spec => []IInv
BY InitIInv, IInvStep, PTL DEF Spec

\* Every variable of the lock keeps its type; in particular head, tail and the
\* slots of the waiting threads stay inside the array, and no counter of
\* sge_fifo_rw_lock_t becomes negative.
THEOREM TypeCorrect == Spec => []TypeOK
<1>1. IInv => TypeOK
  BY DEF IInv
<1> QED BY <1>1, Invariance, PTL

\* A thread that holds the write lock is alone.
THEOREM WriterIsAlone == Spec => []MutualExclusion
<1>1. IInv => MutualExclusion
  <2> SUFFICES ASSUME IInv, NEW t \in Threads, NEW u \in Threads, t # u,
                      hold[t] = "write", hold[u] # "none"
               PROVE  FALSE
    BY DEF MutualExclusion
  <2> USE DEF IInv
  <2>1. t \in Writers
    BY DEF Writers
  <2>2. writer_active = 1 /\ reader_active = 0
    <3>1. writer_active >= 1
      BY <2>1, CardMinus, ThreadSets DEF CountersMatch
    <3> QED BY <3>1 DEF Exclusion, TypeOK
  <2>3. u \notin Writers
    <3>1. u \in Writers => writer_active >= 2
      BY <2>1, CardTwo, ThreadSets DEF CountersMatch
    <3> QED BY <3>1, <2>2
  <2>4. u \in Readers
    BY <2>3 DEF Readers, Writers, TypeOK, HoldStates
  <2>5. Cardinality(Readers) >= 1 /\ Cardinality(NestedReaders) \in Nat
        /\ Cardinality(Readers) \in Nat
    BY <2>4, CardMinus, CardNat, ThreadSets
  <2> QED BY <2>2, <2>5 DEF CountersMatch
<1> QED BY <1>1, Invariance, PTL

\* The thread that is being woken is the one at the head of the queue.
THEOREM OnlyHeadSignalled == Spec => []SignalledIsHead
<1>1. IInv => SignalledIsHead
  <2> SUFFICES ASSUME IInv PROVE SignalledIsHead
    OBVIOUS
  <2> USE DEF IInv
  <2> DEFINE S == {i \in Slots : array[i].is_signaled}
  <2>1. head \in Slots /\ Waiters \in Nat /\ Dist(head) = 0
    BY QueueLengthAssumption DEF TypeOK, Waiters, Dist, Slots
  <2>2. signaled = 1 => \E t \in Queued : index[t] = head
    BY <2>1 DEF SignalsMatch, QueueShape
  <2>3. S = IF signaled = 1 THEN {head} ELSE {}
    BY <2>1 DEF SignalsMatch
  <2>4. Cardinality(S) = signaled
    BY <2>3, FS_Singleton, FS_EmptySet DEF SignalsMatch
  <2> QED BY <2>2, <2>4 DEF SignalledIsHead, SignalsMatch
<1> QED BY <1>1, Invariance, PTL

\* Whenever threads wait in the queue, one of them has been signalled or some
\* thread holds the lock in a way that keeps the head of the queue out.
THEOREM WaitersAreNotForgotten == Spec => []NoLostWakeup
<1>1. IInv => NoLostWakeup
  <2> SUFFICES ASSUME IInv, Queued # {}, signaled = 0
               PROVE  /\ \E t \in Threads : hold[t] # "none"
                      /\ array[head].is_reader =>
                            \E t \in Threads : hold[t] = "write"
    BY DEF NoLostWakeup
  <2> USE DEF IInv
  <2>1. Waiters > 0
    <3>1. PICK t \in Queued : TRUE
      OBVIOUS
    <3>2. Dist(index[t]) < Waiters /\ index[t] \in Slots /\ head \in Slots
      BY DEF QueueShape, Queued, TypeOK
    <3>3. Dist(index[t]) \in Nat
      BY <3>2, QueueLengthAssumption DEF Dist, Slots, L
    <3>4. Waiters \in Nat
      BY DEF Waiters, TypeOK
    <3> QED BY <3>2, <3>3, <3>4
  <2>2. Writers # {} \/ Readers # {}
    <3>1. ASSUME Writers = {}, Readers = {} PROVE FALSE
      <4>1. NestedReaders = {}
        BY <3>1 DEF Readers, NestedReaders
      <4>2. reader_active = 0 /\ writer_active = 0
        BY <3>1, <4>1, FS_EmptySet DEF CountersMatch
      <4> QED BY <2>1, <4>2 DEF HeadKeptOut
    <3> QED BY <3>1
  <2>3. array[head].is_reader => Writers # {}
    <3>1. Writers = {} => writer_active = 0
      BY FS_EmptySet DEF CountersMatch
    <3> QED BY <2>1, <3>1 DEF HeadKeptOut
  <2> QED BY <2>2, <2>3 DEF Writers, Readers
<1> QED BY <1>1, Invariance, PTL

\* A thread that need not queue finds the queue empty: the head of the queue is
\* kept out by a writer that is active, or is a writer itself.
LEMMA NobodyWaits ==
    ASSUME IInv, NEW r \in BOOLEAN, ~MustQueue(r)
    PROVE  Waiters = 0
<1> USE DEF IInv
<1>1. signaled = 0 /\ writer_active = 0
      /\ (reader_active = 0 \/ writer_waiting = 0)
  BY DEF MustQueue, TypeOK
<1>2. CASE reader_active = 0
  BY SMTT(30), <1>1, <1>2 DEF HeadKeptOut, Waiters, TypeOK
<1>3. CASE writer_waiting = 0
  <2> SUFFICES ASSUME Waiters > 0 PROVE FALSE
    BY DEF Waiters, TypeOK
  <2>1. ~array[head].is_reader
    BY <1>1 DEF HeadKeptOut
  <2>2. head \in Slots /\ Dist(head) = 0
    BY QueueLengthAssumption DEF TypeOK, Dist, Slots
  <2>3. PICK u \in Queued : index[u] = head
    BY <2>2 DEF QueueShape
  <2>4. u \in QueuedWriters
    BY <2>1, <2>3 DEF QueueShape, QueuedWriters, Queued
  <2>5. writer_waiting >= 1
    BY <2>4, CardMinus, ThreadSets DEF CountersMatch
  <2> QED BY <2>5, <1>3
<1> QED BY <1>1, <1>2, <1>3

\* A thread that gets the lock without having queued finds the queue empty.
LEMMA DirectGrantEmptyQueue ==
    ASSUME IInv, [Next]_vars, NEW t \in Threads, Gets(t)
    PROVE  Queued = {}
<1> USE DEF IInv, Gets
<1>2. Waiters = 0 => Queued = {}
  <2> SUFFICES ASSUME Waiters = 0, NEW u \in Queued PROVE FALSE
    OBVIOUS
  <2>1. Dist(index[u]) < 0 /\ index[u] \in Slots /\ head \in Slots
    BY DEF QueueShape, Queued, TypeOK
  <2> QED BY <2>1, QueueLengthAssumption DEF Dist, Slots, L
<1>3. ASSUME NEW u \in Threads, NEW r \in BOOLEAN, NEW w,
             LockInternal(u, r, w)
      PROVE  Queued = {}
  <2>1. u = t /\ ~MustQueue(r)
    BY <1>3 DEF LockInternal, Grant, TypeOK
  <2> QED BY <2>1, <1>2, NobodyWaits
<1>4. ASSUME NEW u \in Threads, Dequeue(u) PROVE FALSE
  BY <1>4 DEF Dequeue, Grant, TypeOK
<1>5. ASSUME NEW u \in Threads, Unlock(u) PROVE FALSE
  BY <1>5 DEF Unlock, TypeOK, HoldStates
<1>6. ASSUME UNCHANGED vars PROVE FALSE
  BY <1>6 DEF vars, threadVars
<1>7. ASSUME NEW u \in Threads, WakeOutside(u) PROVE Queued = {}
  <2>1. is_reader[u] \in BOOLEAN
    BY DEF TypeOK
  <2> QED BY <1>3, <1>7, <2>1 DEF WakeOutside
<1> QED BY <1>3, <1>4, <1>5, <1>6, <1>7 DEF Next, Lock, TryLock

\* A thread that did not wait in the queue gets the lock only while the queue is
\* empty: sge_fifo_lock and sge_fifo_try_lock overtake nobody.
THEOREM NobodyOvertakes == Spec => NoOvertaking
<1>1. IInv /\ [Next]_vars =>
        [\A t \in Threads : Gets(t) => Queued = {}]_vars
  BY DirectGrantEmptyQueue
<1> QED BY <1>1, Invariance, PTL DEF Spec, NoOvertaking

\* With no more threads than slots in the queue nobody has to wait outside it,
\* so FIFO_LOCK_QUEUE_LENGTH = MAX_TOTAL_COMPONENT_THREADS keeps the arrival
\* order for every thread of a component.
THEOREM QueueIsLongEnough == Spec => []QueueSuffices
<1>1. ASSUME IInv, QueueFull, NEW t \in Threads, pc[t] # "queued"
      PROVE  Cardinality(Threads) > FIFO_LOCK_QUEUE_LENGTH
  <2> USE <1>1 DEF IInv
  <2>1. QueuedReaders \cup QueuedWriters = Queued
        /\ QueuedReaders \cap QueuedWriters = {}
        /\ t \notin Queued
    BY DEF QueuedReaders, QueuedWriters, Queued, TypeOK
  <2>2. IsFiniteSet(QueuedReaders) /\ IsFiniteSet(QueuedWriters)
    BY CardNat, ThreadSets
  <2>3. Cardinality(Queued) = Cardinality(QueuedReaders)
                              + Cardinality(QueuedWriters)
    <3>1. Cardinality(QueuedReaders) \in Nat /\ Cardinality(QueuedWriters) \in Nat
      BY CardNat, ThreadSets
    <3> QED BY <3>1, <2>1, <2>2, FS_Union, FS_EmptySet
  <2>4. Cardinality(Queued) = FIFO_LOCK_QUEUE_LENGTH
    BY <2>3 DEF CountersMatch, QueueFull
  <2>5. Cardinality(Queued \cup {t}) = FIFO_LOCK_QUEUE_LENGTH + 1
    BY <2>1, <2>4, CardPlus, ThreadSets
  <2>6. Queued \cup {t} \in SUBSET Threads
    BY ThreadSets
  <2>7. Cardinality(Queued \cup {t}) <= Cardinality(Threads)
        /\ Cardinality(Threads) \in Nat
    BY <2>6, ThreadsAssumption, FS_Subset, FS_CardinalityType
  <2> QED BY <2>5, <2>7, QueueLengthAssumption
<1>2. Init => QueueSuffices
  BY DEF Init, QueueSuffices, Outside
<1>3. IInv /\ QueueSuffices /\ [Next]_vars => QueueSuffices'
  <2> SUFFICES ASSUME IInv, QueueSuffices, [Next]_vars,
                      Cardinality(Threads) <= FIFO_LOCK_QUEUE_LENGTH
               PROVE  Outside' = {}
    BY DEF QueueSuffices
  <2> USE DEF IInv
  <2>0. Outside = {}
    BY SMTT(30) DEF QueueSuffices
  <2>1. ASSUME NEW t \in Threads, NEW r \in BOOLEAN,
               MayRequest(t, r), LockInternal(t, r, waiting)
        PROVE  Outside' = {}
    <3>1. ~QueueFull
      <4>1. Cardinality(Threads) \in Nat
        BY ThreadsAssumption, FS_CardinalityType
      <4> QED BY <2>1, <4>1, <1>1, QueueLengthAssumption DEF MayRequest
    <3> QED BY <2>0, <2>1, <3>1 DEF LockInternal, Enqueue, Outside, TypeOK
  <2>2. ASSUME NEW t \in Threads, WakeOutside(t) PROVE FALSE
    BY <2>0, <2>2 DEF WakeOutside, Outside
  <2>3. ASSUME NEW t \in Threads, Dequeue(t) PROVE Outside' = {}
    BY <2>0, <2>3 DEF Dequeue, Outside, TypeOK
  <2>4. ASSUME NEW t \in Threads, Unlock(t) PROVE Outside' = {}
    BY <2>0, <2>4 DEF Unlock, Outside
  <2>5. ASSUME UNCHANGED vars PROVE Outside' = {}
    BY <2>0, <2>5 DEF vars, threadVars, Outside
  <2> QED BY <2>1, <2>2, <2>3, <2>4, <2>5 DEF Next, Lock, TryLock
<1> QED BY <1>2, <1>3, Invariance, PTL DEF Spec

-----------------------------------------------------------------------------
(* The circular array implements the abstract queue.                           *)

Entries == [thread : Threads, is_reader : BOOLEAN]

\* The i-th slot behind head is the slot of a queued thread, and of only one.
LEMMA SlotTaken ==
    ASSUME IInv, NEW i \in 1 .. Waiters
    PROVE  /\ SlotAt(i) \in Slots /\ Dist(SlotAt(i)) = i - 1
           /\ Occupant(SlotAt(i)) \in Queued
           /\ index[Occupant(SlotAt(i))] = SlotAt(i)
<1>1. head \in Slots /\ Waiters \in Nat /\ Waiters <= L /\ L \in Nat \ {0}
  BY QueueLengthAssumption DEF IInv, TypeOK, QueueShape, Waiters, L
<1>2. SlotAt(i) \in Slots /\ Dist(SlotAt(i)) = i - 1
  BY <1>1 DEF SlotAt, Dist, Slots, L
<1>3. \E t \in Queued : index[t] = SlotAt(i)
  BY <1>1, <1>2 DEF IInv, QueueShape
<1> QED BY <1>2, <1>3 DEF Occupant

\* What the abstract queue holds at its i-th place.
QueueIs ==
    /\ WaitQueue \in Seq(Entries) /\ Len(WaitQueue) = Waiters
    /\ \A t \in Queued, i \in 1 .. Waiters :
          index[t] = SlotAt(i) => WaitQueue[i] = [thread |-> t, is_reader |-> is_reader[t]]
    /\ \A i \in 1 .. Waiters : \E t \in Queued : index[t] = SlotAt(i)

LEMMA WaitQueueIs == IInv => QueueIs
<1> SUFFICES ASSUME IInv PROVE QueueIs
  OBVIOUS
<1> DEFINE entry(i) == [thread |-> Occupant(SlotAt(i)), is_reader |-> is_reader[Occupant(SlotAt(i))]]
<1>1. Waiters \in Nat /\ WaitQueue = [i \in 1 .. Waiters |-> entry(i)]
  BY DEF IInv, TypeOK, Waiters, WaitQueue
<1>2. \A i \in 1 .. Waiters : entry(i) \in Entries
  BY SlotTaken DEF IInv, TypeOK, Queued, Entries
<1>3. WaitQueue \in Seq(Entries) /\ Len(WaitQueue) = Waiters
  <2> HIDE DEF entry
  <2> QED BY <1>1, <1>2
<1>4. ASSUME NEW t \in Queued, NEW i \in 1 .. Waiters, index[t] = SlotAt(i)
      PROVE  WaitQueue[i] = [thread |-> t, is_reader |-> is_reader[t]]
  <2>1. Occupant(SlotAt(i)) = t
    BY <1>4, SlotTaken DEF IInv, QueueShape
  <2> QED BY <1>1, <2>1
<1> QED BY <1>3, <1>4, SlotTaken DEF QueueIs

LEMMA WaitQueueIsNext == IInv' => QueueIs'
BY WaitQueueIs, PTL

\* Steps that leave the queued threads and their slots alone.
LEMMA QueueSame ==
    ASSUME IInv, IInv', head' = head, Waiters' = Waiters, Queued' = Queued,
           \A u \in Queued : index'[u] = index[u] /\ is_reader'[u] = is_reader[u]
    PROVE  WaitQueue' = WaitQueue
<1>1. QueueIs /\ QueueIs'
  BY WaitQueueIs, WaitQueueIsNext
<1>2. \A i \in 1 .. Waiters : SlotAt(i)' = SlotAt(i)
  BY DEF SlotAt
<1>3. ASSUME NEW i \in 1 .. Waiters PROVE WaitQueue'[i] = WaitQueue[i]
  <2>1. PICK u \in Queued : index[u] = SlotAt(i)
    BY <1>1 DEF QueueIs
  <2>2. WaitQueue[i] = [thread |-> u, is_reader |-> is_reader[u]]
    BY <1>1, <2>1 DEF QueueIs
  <2>3. u \in Queued' /\ i \in 1 .. Waiters' /\ index'[u] = SlotAt(i)'
    BY <1>2, <2>1
  <2>4. WaitQueue'[i] = [thread |-> u, is_reader |-> is_reader'[u]]
    BY <1>1, <2>3 DEF QueueIs
  <2> QED BY <2>2, <2>4
<1>4. PICK p, q, n : p = WaitQueue /\ q = WaitQueue' /\ n = Waiters
  OBVIOUS
<1>5. /\ p \in Seq(Entries) /\ q \in Seq(Entries) /\ Len(p) = n /\ Len(q) = n
      /\ \A i \in 1 .. n : q[i] = p[i]
  BY <1>1, <1>3, <1>4 DEF QueueIs
<1> QED BY <1>4, <1>5, SeqEqual

\* A thread that joins the queue stands behind all others.
LEMMA QueueGrows ==
    ASSUME IInv, IInv', NEW t \in Threads, NEW r \in BOOLEAN, t \notin Queued,
           head' = head, Waiters' = Waiters + 1, Queued' = Queued \cup {t},
           index' = [index EXCEPT ![t] = tail], is_reader' = [is_reader EXCEPT ![t] = r]
    PROVE  WaitQueue' = Append(WaitQueue, [thread |-> t, is_reader |-> r])
<1>1. QueueIs /\ QueueIs'
  BY WaitQueueIs, WaitQueueIsNext
<1>2. PICK p, n : p = WaitQueue /\ n = Waiters /\ p \in Seq(Entries) /\ Len(p) = n
  BY <1>1 DEF QueueIs
<1>3. PICK q, m : q = WaitQueue' /\ m = Waiters' /\ q \in Seq(Entries) /\ Len(q) = m
  BY <1>1 DEF QueueIs
<1>4. /\ n \in Nat /\ m = n + 1 /\ head \in Slots /\ m <= L /\ L \in Nat \ {0}
      /\ tail = IF head + n < L THEN head + n ELSE head + n - L
  <2>1. head \in Slots /\ Waiters \in Nat
    BY DEF IInv, TypeOK, Waiters
  <2>2. Waiters' <= L /\ tail = IF head + Waiters < L THEN head + Waiters ELSE head + Waiters - L
    BY DEF IInv, QueueShape, L
  <2> QED BY <1>2, <1>3, <2>1, <2>2, QueueLengthAssumption DEF L
<1>5. \A i : SlotAt(i)' = SlotAt(i)
  BY DEF SlotAt
<1>6. SlotAt(m) = tail
  BY <1>4 DEF SlotAt, L, Slots
<1>7. /\ index'[t] = tail /\ is_reader'[t] = r
      /\ \A u \in Queued : index'[u] = index[u] /\ is_reader'[u] = is_reader[u]
  BY DEF IInv, TypeOK, Queued
<1>8. \A u \in Queued', i \in 1 .. m :
         index'[u] = SlotAt(i) => q[i] = [thread |-> u, is_reader |-> is_reader'[u]]
  <2>1. \A u \in Queued', i \in 1 .. m :
           index'[u] = SlotAt(i)' => q[i] = [thread |-> u, is_reader |-> is_reader'[u]]
    BY <1>1, <1>3 DEF QueueIs
  <2> QED BY <1>5, <2>1
<1>9. ASSUME NEW i \in 1 .. n PROVE q[i] = p[i]
  <2>1. PICK u \in Queued : index[u] = SlotAt(i)
    BY <1>1, <1>2 DEF QueueIs
  <2>2. p[i] = [thread |-> u, is_reader |-> is_reader[u]]
    BY <1>1, <1>2, <2>1 DEF QueueIs
  <2>3. i \in 1 .. m /\ u \in Queued' /\ index'[u] = SlotAt(i) /\ is_reader'[u] = is_reader[u]
    BY <1>4, <1>7, <2>1
  <2>4. q[i] = [thread |-> u, is_reader |-> is_reader'[u]]
    BY <1>8, <2>3
  <2> QED BY <2>2, <2>3, <2>4
<1>10. q[m] = [thread |-> t, is_reader |-> r]
  <2>1. m \in 1 .. m /\ t \in Queued' /\ index'[t] = SlotAt(m)
    BY <1>4, <1>6, <1>7
  <2>2. q[m] = [thread |-> t, is_reader |-> is_reader'[t]]
    BY <1>8, <2>1
  <2> QED BY <1>7, <2>2
<1>11. PICK x \in Entries : x = [thread |-> t, is_reader |-> r]
  BY DEF Entries
<1>12. PICK s : s = Append(p, x)
  OBVIOUS
<1>13. /\ s \in Seq(Entries) /\ Len(s) = m
       /\ \A i \in 1 .. n : s[i] = p[i]
       /\ s[m] = x
  <2>1. /\ Append(p, x) \in Seq(Entries) /\ Len(Append(p, x)) = m
        /\ \A i \in 1 .. n : Append(p, x)[i] = p[i]
        /\ Append(p, x)[m] = x
    BY <1>2, <1>4
  <2> QED BY <1>12, <2>1, Zenon
<1>14. ASSUME NEW i \in 1 .. m PROVE q[i] = s[i]
  <2>1. i \in 1 .. n \/ i = m
    BY <1>4
  <2>2. CASE i \in 1 .. n
    BY <1>9, <1>13, <2>2, Zenon
  <2>3. CASE i = m
    BY <1>10, <1>11, <1>13, <2>3, Zenon
  <2> QED BY <2>1, <2>2, <2>3, Zenon
<1>15. q = s
  BY <1>3, <1>13, <1>14, SeqEqual
<1> QED BY <1>2, <1>3, <1>11, <1>12, <1>15

\* The thread that leaves the queue stood at its front.
LEMMA QueueShrinks ==
    ASSUME IInv, IInv', NEW t \in Queued, index[t] = head,
           head' = Advance(head), Waiters' = Waiters - 1, Queued' = Queued \ {t},
           \A u \in Queued : u # t => index'[u] = index[u] /\ is_reader'[u] = is_reader[u]
    PROVE  /\ WaitQueue # <<>> /\ WaitQueue' = Tail(WaitQueue)
           /\ Head(WaitQueue) = [thread |-> t, is_reader |-> is_reader[t]]
<1>1. QueueIs /\ QueueIs'
  BY WaitQueueIs, WaitQueueIsNext
<1>2. PICK p, n : p = WaitQueue /\ n = Waiters /\ p \in Seq(Entries) /\ Len(p) = n
  BY <1>1 DEF QueueIs
<1>3. PICK q, m : q = WaitQueue' /\ m = Waiters' /\ q \in Seq(Entries) /\ Len(q) = m
  BY <1>1 DEF QueueIs
<1>4. head \in Slots /\ n \in Nat /\ m \in Nat /\ m = n - 1 /\ n <= L /\ L \in Nat \ {0}
  <2>1. head \in Slots /\ Waiters \in Nat
    BY DEF IInv, TypeOK, Waiters
  <2>2. Waiters <= L
    BY DEF IInv, QueueShape
  <2> QED BY <1>2, <1>3, <2>1, <2>2, QueueLengthAssumption DEF L
<1>5. \A u \in Queued, i \in 1 .. n :
         index[u] = SlotAt(i) => p[i] = [thread |-> u, is_reader |-> is_reader[u]]
  BY <1>1, <1>2 DEF QueueIs
<1>6. n >= 1 /\ SlotAt(1) = head
  BY <1>4 DEF SlotAt, L, Slots
<1>7. p[1] = [thread |-> t, is_reader |-> is_reader[t]]
  <2>1. 1 \in 1 .. n
    BY <1>4, <1>6
  <2> QED BY <1>5, <1>6, <2>1
<1>8. ASSUME NEW i \in 1 .. m PROVE q[i] = p[i + 1]
  <2>1. PICK u \in Queued' : index'[u] = SlotAt(i)'
    BY <1>1, <1>3 DEF QueueIs
  <2>2. q[i] = [thread |-> u, is_reader |-> is_reader'[u]]
    BY <1>1, <1>3, <2>1 DEF QueueIs
  <2>3. PICK k \in 1 .. n : k = i + 1
    BY <1>4
  <2>4. SlotAt(i)' = SlotAt(k)
    BY <1>4, <2>3 DEF SlotAt, L, Slots, Advance
  <2>5. u \in Queued /\ u # t
    OBVIOUS
  <2>6. index[u] = SlotAt(k) /\ is_reader'[u] = is_reader[u]
    BY <2>1, <2>4, <2>5
  <2>7. p[k] = [thread |-> u, is_reader |-> is_reader[u]]
    BY <1>5, <2>5, <2>6
  <2> QED BY <2>2, <2>3, <2>6, <2>7
<1>9. p # <<>> /\ Head(p) = p[1]
  <2>1. p \in Seq(Entries) /\ Len(p) >= 1
    BY <1>2, <1>6
  <2> QED BY <2>1
<1>10. q = Tail(p)
  <2>1. /\ Tail(p) \in Seq(Entries) /\ Len(Tail(p)) = m
        /\ \A i \in 1 .. m : Tail(p)[i] = p[i + 1]
    BY <1>2, <1>4, <1>6
  <2>2. \A i \in 1 .. m : q[i] = Tail(p)[i]
    BY <1>8, <2>1
  <2> QED BY <1>3, <2>1, <2>2, SeqEqual
<1> QED BY <1>2, <1>3, <1>7, <1>9, <1>10

\* The holders that the counters count leave room for another one.
LEMMA RoomFor ==
    ASSUME IInv, NEW r \in BOOLEAN, writer_active = 0, ~r => reader_active = 0
    PROVE  Abstract!Compatible(r)
<1>1. Writers = {}
  BY CardZero, ThreadSets DEF IInv, CountersMatch
<1>2. ~r => Readers = {}
  <2> SUFFICES ASSUME ~r PROVE Readers = {}
    OBVIOUS
  <2>1. Cardinality(Readers) = 0
    BY CardNat, ThreadSets DEF IInv, CountersMatch
  <2> QED BY <2>1, CardZero, ThreadSets
<1> QED BY <1>1, <1>2 DEF Abstract!Compatible, Writers, Readers, IInv, TypeOK, HoldStates

\* A thread that is not queued has no entry in the abstract queue.
LEMMA NotInQueue ==
    ASSUME IInv, NEW t \in Threads, t \notin Queued
    PROVE  \A i \in 1 .. Len(WaitQueue) : WaitQueue[i].thread # t
BY WaitQueueIs DEF QueueIs

\* LockInternal of a thread that is not queued: it sleeps outside, waits in the
\* queue or enters.
LEMMA LockInternalMaps ==
    ASSUME IInv, IInv', NEW t \in Threads, NEW r \in BOOLEAN, NEW w,
           pc[t] # "queued",
           hold[t] = "none" \/ (NestedReads /\ r /\ hold[t] = "read"),
           LockInternal(t, r, w)
    PROVE  \/ UNCHANGED <<WaitQueue, hold>>
           \/ Abstract!Enter(t, r) \/ Abstract!Wait(t, r)
<1>0. t \notin Queued /\ pc \in [Threads -> {"run", "outside", "queued"}]
      /\ is_reader \in [Threads -> BOOLEAN] /\ Waiters \in Nat
  BY DEF Queued, IInv, TypeOK, Waiters
<1>1. Abstract!MayRequest(t, r)
  BY <1>0, NotInQueue DEF Abstract!MayRequest
<1>2. CASE /\ QueueFull /\ is_reader' = [is_reader EXCEPT ![t] = r]
           /\ pc' = [pc EXCEPT ![t] = "outside"]
           /\ UNCHANGED <<head, reader_waiting, writer_waiting, index, hold>>
  <2>1. Queued' = Queued /\ Waiters' = Waiters
    BY <1>0, <1>2 DEF Queued, Waiters
  <2>2. \A u \in Queued : index'[u] = index[u] /\ is_reader'[u] = is_reader[u]
    BY <1>0, <1>2 DEF Queued
  <2> QED BY <1>2, <2>1, <2>2, QueueSame
<1>3. CASE /\ ~QueueFull /\ MustQueue(r) /\ is_reader' = [is_reader EXCEPT ![t] = r]
           /\ Enqueue(t, r) /\ UNCHANGED <<head, hold>>
  <2>1. Queued' = Queued \cup {t} /\ index' = [index EXCEPT ![t] = tail]
    BY <1>0, <1>3 DEF Queued, Enqueue
  <2>2. Waiters' = Waiters + 1
    <3>1. /\ reader_waiting' = reader_waiting + (IF r THEN 1 ELSE 0)
          /\ writer_waiting' = writer_waiting + (IF r THEN 0 ELSE 1)
          /\ reader_waiting \in Nat /\ writer_waiting \in Nat
      BY <1>3 DEF Enqueue, IInv, TypeOK
    <3> QED BY <3>1 DEF Waiters
  <2>3. WaitQueue' = Append(WaitQueue, [thread |-> t, is_reader |-> r])
    BY <1>0, <1>3, <2>1, <2>2, QueueGrows
  <2> QED BY <1>1, <1>3, <2>3 DEF Abstract!Wait
<1>4. CASE /\ ~QueueFull /\ ~MustQueue(r) /\ is_reader' = [is_reader EXCEPT ![t] = FALSE]
           /\ Grant(t, r) /\ pc' = [pc EXCEPT ![t] = "run"]
           /\ UNCHANGED <<head, reader_waiting, writer_waiting, index>>
  <2>1. Queued' = Queued /\ Waiters' = Waiters
    BY <1>0, <1>4 DEF Queued, Waiters
  <2>2. \A u \in Queued : index'[u] = index[u] /\ is_reader'[u] = is_reader[u]
    BY <1>0, <1>4 DEF Queued
  <2>3. WaitQueue' = WaitQueue
    BY <1>4, <2>1, <2>2, QueueSame
  <2>4. Waiters = 0
    BY <1>4, NobodyWaits
  <2>5. WaitQueue = <<>>
    BY <2>4, WaitQueueIs, EmptySeq DEF QueueIs
  <2>6. writer_active = 0 /\ (~r => reader_active = 0)
    BY <1>4 DEF MustQueue, IInv, TypeOK
  <2>7. Abstract!Take(t, r)
    BY <1>4 DEF Grant, Abstract!Take
  <2> QED BY <1>1, <2>3, <2>5, <2>6, <2>7, RoomFor DEF Abstract!Enter
<1> QED BY <1>2, <1>3, <1>4 DEF LockInternal

\* A queued thread that gets the lock is the one the abstract lock serves.
LEMMA DequeueMaps ==
    ASSUME IInv, IInv', NEW t \in Threads, Dequeue(t)
    PROVE  Abstract!Serve
<1> DEFINE r == is_reader[t]
<1>1. /\ t \in Queued /\ r \in BOOLEAN /\ array[index[t]].is_signaled
      /\ index[t] \in Slots /\ index[t] = head /\ signaled = 1
  BY DEF Dequeue, Queued, IInv, TypeOK, SignalsMatch
<1>2. /\ reader_waiting' = reader_waiting - (IF r THEN 1 ELSE 0)
      /\ writer_waiting' = writer_waiting - (IF r THEN 0 ELSE 1)
      /\ head' = Advance(head) /\ Grant(t, r)
      /\ pc' = [pc EXCEPT ![t] = "run"]
      /\ is_reader' = [is_reader EXCEPT ![t] = FALSE]
      /\ index' = [index EXCEPT ![t] = 0]
  BY DEF Dequeue
<1>3. Waiters' = Waiters - 1
  <2>1. reader_waiting \in Nat /\ writer_waiting \in Nat
    BY DEF IInv, TypeOK
  <2> QED BY <1>1, <1>2, <2>1 DEF Waiters
<1>4. Queued' = Queued \ {t}
  BY <1>2 DEF Queued, IInv, TypeOK
<1>5. \A u \in Queued : u # t => index'[u] = index[u] /\ is_reader'[u] = is_reader[u]
  BY <1>2 DEF Queued, IInv, TypeOK
<1>6. /\ WaitQueue # <<>> /\ WaitQueue' = Tail(WaitQueue)
      /\ Head(WaitQueue) = [thread |-> t, is_reader |-> r]
  BY <1>1, <1>2, <1>3, <1>4, <1>5, QueueShrinks
<1>7. writer_active = 0 /\ (~r => reader_active = 0)
  <2>1. array[head].is_reader = r
    BY <1>1 DEF IInv, QueueShape
  <2>2. /\ writer_active <= 1 /\ writer_active \in Nat
        /\ writer_active = 1 => reader_active = 0 /\ signaled = 0
        /\ signaled = 1 /\ ~array[head].is_reader => reader_active = 0
    BY DEF IInv, Exclusion, TypeOK
  <2>3. writer_active = 0 \/ writer_active = 1
    BY <2>2
  <2> QED BY <1>1, <2>1, <2>2, <2>3
<1>8. Abstract!Compatible(r) /\ Abstract!Take(t, r)
  BY <1>1, <1>2, <1>7, RoomFor DEF Grant, Abstract!Take
<1>9. Head(WaitQueue).thread = t /\ Head(WaitQueue).is_reader = r
  BY <1>6
<1> QED BY <1>6, <1>8, <1>9 DEF Abstract!Serve

\* sge_fifo_ulock releases the abstract lock.
LEMMA UnlockMaps ==
    ASSUME IInv, IInv', NEW t \in Threads, Unlock(t)
    PROVE  Abstract!Release(t)
<1>1. /\ pc[t] = "run" /\ hold[t] # "none"
      /\ hold' = [hold EXCEPT ![t] = IF @ = "nested" THEN "read" ELSE "none"]
      /\ UNCHANGED <<head, reader_waiting, writer_waiting, pc, is_reader, index>>
  BY DEF Unlock
<1>2. Queued' = Queued /\ Waiters' = Waiters /\ t \notin Queued
  BY <1>1 DEF Queued, Waiters
<1>3. WaitQueue' = WaitQueue
  BY <1>1, <1>2, QueueSame
<1> QED BY <1>1, <1>2, <1>3, NotInQueue DEF Abstract!Release

\* Every step of the lock is a step of the abstract lock or changes nothing in it.
LEMMA StepMaps ==
    ASSUME IInv, IInv', [Next]_vars
    PROVE  [Abstract!Next]_(Abstract!vars)
<1>1. ASSUME NEW t \in Threads, NEW r \in BOOLEAN, Lock(t, r) \/ TryLock(t, r)
      PROVE  [Abstract!Next]_(Abstract!vars)
  <2>1. /\ pc[t] # "queued" /\ (hold[t] = "none" \/ (NestedReads /\ r /\ hold[t] = "read"))
        /\ LockInternal(t, r, waiting)
    BY <1>1 DEF Lock, TryLock, MayRequest
  <2> QED BY <2>1, LockInternalMaps DEF Abstract!Next, Abstract!vars
<1>2. ASSUME NEW t \in Threads, WakeOutside(t)
      PROVE  [Abstract!Next]_(Abstract!vars)
  <2>1. /\ pc[t] # "queued" /\ is_reader[t] \in BOOLEAN
        /\ LockInternal(t, is_reader[t], waiting - 1)
    BY <1>2 DEF WakeOutside, IInv, TypeOK
  <2>2. hold[t] = "none" \/ (NestedReads /\ is_reader[t] /\ hold[t] = "read")
    BY <1>2 DEF WakeOutside, IInv, WaitersHold
  <2> QED BY <2>1, <2>2, LockInternalMaps DEF Abstract!Next, Abstract!vars
<1>3. ASSUME NEW t \in Threads, Dequeue(t) PROVE Abstract!Next
  BY <1>3, DequeueMaps DEF Abstract!Next
<1>4. ASSUME NEW t \in Threads, Unlock(t) PROVE Abstract!Next
  BY <1>4, UnlockMaps DEF Abstract!Next
<1>5. CASE UNCHANGED vars
  <2>1. Queued' = Queued /\ Waiters' = Waiters
    BY <1>5 DEF Queued, Waiters, vars, lockVars, threadVars
  <2>2. WaitQueue' = WaitQueue
    BY <1>5, <2>1, QueueSame DEF vars, lockVars, threadVars
  <2> QED BY <1>5, <2>2 DEF Abstract!vars, vars, threadVars
<1> QED BY <1>1, <1>2, <1>3, <1>4, <1>5 DEF Next

\* The lock of sge_lock_fifo.cc, a circular array of slots with counters, flags
\* and condition variables, is a queue of requests that are granted strictly
\* from its front, several readers at a time or a single writer.
THEOREM LockIsFifo == Spec => ImplementsFifoRWLock
<1>1. Init => Abstract!Init
  <2> SUFFICES ASSUME Init PROVE Abstract!Init
    OBVIOUS
  <2>1. Waiters = 0 /\ hold = [t \in Threads |-> "none"]
    BY DEF Init, Waiters
  <2>2. WaitQueue = <<>>
    BY <2>1, InitIInv, WaitQueueIs, EmptySeq DEF QueueIs
  <2> QED BY <2>1, <2>2 DEF Abstract!Init
<1>2. IInv /\ IInv' /\ [Next]_vars => [Abstract!Next]_(Abstract!vars)
  BY StepMaps
<1> QED BY <1>1, <1>2, Invariance, PTL DEF Spec, ImplementsFifoRWLock, Abstract!Spec
=============================================================================
