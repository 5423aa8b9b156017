------------------------------ MODULE FifoLock ------------------------------
(* The FIFO reader/writer lock of libs/uti/sge_lock_fifo.cc, on which every    *)
(* lock of the qmaster (LOCK_GLOBAL, LOCK_SCHEDULER, LOCK_READER, ...) is      *)
(* built.  Every function of the lock runs under lock->mutex, so each stretch  *)
(* of code between two waits on a condition variable is one atomic step.       *)
EXTENDS Integers, FiniteSets

CONSTANTS
    Threads,                 \* the threads that use the lock
    FIFO_LOCK_QUEUE_LENGTH,  \* slots of the waiting queue
    NestedReads              \* may a thread take a second read lock?

ASSUME QueueLengthAssumption == FIFO_LOCK_QUEUE_LENGTH \in Nat \ {0}
ASSUME NestedReadsAssumption == NestedReads \in BOOLEAN
ASSUME ThreadsAssumption == IsFiniteSet(Threads)

VARIABLES
    \* sge_fifo_rw_lock_t
    array, head, tail,
    reader_active, reader_waiting, writer_active, writer_waiting,
    waiting, signaled,
    \* the threads: where each one is, the locals of the call it waits in (both
    \* reset when it returns), and the locks it holds
    pc, is_reader, index, hold,
    trying,                  \* the threads that wait inside sge_fifo_try_lock
    woken                    \* threads unblocked from lock->cond, mutex pending

lockVars == <<array, head, tail, reader_active, reader_waiting,
              writer_active, writer_waiting, waiting, signaled>>
threadVars == <<pc, is_reader, index, hold, trying, woken>>
vars == <<lockVars, threadVars>>

Slots == 0 .. FIFO_LOCK_QUEUE_LENGTH - 1
EmptySlot == [is_reader |-> FALSE, is_signaled |-> FALSE]
HoldStates == {"none", "read", "nested", "write"}

Queued == {t \in Threads : pc[t] = "queued"}
Outside == {t \in Threads : pc[t] = "outside"}

TypeOK ==
    /\ array \in [Slots -> [is_reader : BOOLEAN, is_signaled : BOOLEAN]]
    /\ head \in Slots
    /\ tail \in Slots
    /\ reader_active \in Nat
    /\ reader_waiting \in Nat
    /\ writer_active \in Nat
    /\ writer_waiting \in Nat
    /\ waiting \in Nat
    /\ signaled \in Nat
    /\ pc \in [Threads -> {"run", "outside", "queued"}]
    /\ is_reader \in [Threads -> BOOLEAN]
    /\ index \in [Threads -> Slots]
    /\ hold \in [Threads -> HoldStates]
    /\ trying \in SUBSET Threads
    /\ woken \in SUBSET Threads

Init ==
    /\ array = [i \in Slots |-> EmptySlot]
    /\ head = 0
    /\ tail = 0
    /\ reader_active = 0
    /\ reader_waiting = 0
    /\ writer_active = 0
    /\ writer_waiting = 0
    /\ waiting = 0
    /\ signaled = 0
    /\ pc = [t \in Threads |-> "run"]
    /\ is_reader = [t \in Threads |-> FALSE]
    /\ index = [t \in Threads |-> 0]
    /\ hold = [t \in Threads |-> "none"]
    /\ trying = {}
    /\ woken = {}

-----------------------------------------------------------------------------
Advance(i) == IF i + 1 = FIFO_LOCK_QUEUE_LENGTH THEN 0 ELSE i + 1

QueueFull == reader_waiting + writer_waiting = FIFO_LOCK_QUEUE_LENGTH

\* Mutant: a reader ignores that another thread is just waking up.
MustQueueIgnoringSignaled(r) ==
    IF r THEN writer_active + writer_waiting > 0
         ELSE writer_active + reader_active > 0

\* Mutant: a reader does not give way to the writers that wait.
MustQueueReaderFirst(r) ==
    IF r THEN writer_active + signaled > 0
         ELSE writer_active + reader_active + signaled > 0

\* do_wait_in_queue
MustQueue(r) ==
    IF r THEN writer_active + writer_waiting + signaled > 0
         ELSE writer_active + reader_active + signaled > 0

\* The thread has the lock: the counter of its mode goes up.
Grant(t, r) ==
    /\ reader_active' = reader_active + (IF r THEN 1 ELSE 0)
    /\ writer_active' = writer_active + (IF r THEN 0 ELSE 1)
    /\ hold' = [hold EXCEPT ![t] = IF ~r THEN "write"
                                   ELSE IF @ = "read" THEN "nested" ELSE "read"]

\* The thread takes the slot at tail and waits there for its signal.
Enqueue(t, r) ==
    /\ array' = [array EXCEPT ![tail] = [is_reader |-> r, is_signaled |-> FALSE]]
    /\ tail' = Advance(tail)
    /\ reader_waiting' = reader_waiting + (IF r THEN 1 ELSE 0)
    /\ writer_waiting' = writer_waiting + (IF r THEN 0 ELSE 1)
    /\ index' = [index EXCEPT ![t] = tail]
    /\ pc' = [pc EXCEPT ![t] = "queued"]

\* sge_fifo_lock_internal from the loop on lock->cond up to the first wait or
\* the return; w is lock->waiting without this thread.
LockInternal(t, r, w) ==
    /\ woken' = woken \ {t}
    /\ \/ /\ QueueFull
          /\ is_reader' = [is_reader EXCEPT ![t] = r]
          /\ waiting' = w + 1
          /\ pc' = [pc EXCEPT ![t] = "outside"]
          /\ UNCHANGED <<array, head, tail, reader_active, reader_waiting,
                         writer_active, writer_waiting, signaled, index, hold>>
       \/ /\ ~QueueFull /\ MustQueue(r)
          /\ is_reader' = [is_reader EXCEPT ![t] = r]
          /\ waiting' = w
          /\ Enqueue(t, r)
          /\ UNCHANGED <<head, reader_active, writer_active, signaled, hold>>
       \/ /\ ~QueueFull /\ ~MustQueue(r)
          /\ is_reader' = [is_reader EXCEPT ![t] = FALSE]
          /\ waiting' = w
          /\ Grant(t, r)
          /\ pc' = [pc EXCEPT ![t] = "run"]
          /\ UNCHANGED <<array, head, tail, reader_waiting, writer_waiting,
                         signaled, index>>

\* A thread that holds nothing may ask for either lock; one that holds a read
\* lock may ask for a second one where that usage is allowed.
MayRequest(t, r) ==
    /\ pc[t] = "run"
    /\ hold[t] = "none" \/ (NestedReads /\ r /\ hold[t] = "read")

\* sge_fifo_lock
Lock(t, r) ==
    /\ MayRequest(t, r)
    /\ LockInternal(t, r, waiting)
    /\ UNCHANGED trying

\* someone_blocks_us
BlocksTry(r) ==
    IF r THEN writer_active + writer_waiting > 0
         ELSE writer_active + reader_active + signaled > 0

\* sge_fifo_try_lock, the call that does not return false at once (that one
\* changes nothing).
TryLock(t, r) ==
    /\ MayRequest(t, r)
    /\ ~QueueFull /\ ~BlocksTry(r)
    /\ LockInternal(t, r, waiting)
    /\ trying' = IF pc'[t] = "run" THEN trying ELSE trying \cup {t}

\* A thread returns from the wait on lock->cond, signalled or spuriously, and
\* goes round the loop again.
WakeOutside(t) ==
    /\ pc[t] = "outside"
    /\ LockInternal(t, is_reader[t], waiting - 1)
    /\ UNCHANGED trying

\* pthread_cond_signal(&lock->cond), if (lock->waiting > 0)
SignalOutside ==
    IF waiting > 0 /\ Outside \ woken # {}
    THEN \E u \in Outside \ woken : woken' = woken \cup {u}
    ELSE UNCHANGED woken

\* Mutant: the reader that leaves the queue does not look behind it.
NoChain(rw, next) == FALSE

\* The thread that leaves the queue wakes the one behind it: both are readers.
Chain(rw, next) == array[head].is_reader /\ rw > 0 /\ array[next].is_reader

\* A queued thread returns from the wait on its own condition variable, finds
\* is_signaled set, leaves the queue and has the lock.  (A wakeup that finds it
\* unset goes back to the wait and changes nothing.)
Dequeue(t) ==
    /\ pc[t] = "queued"
    /\ array[index[t]].is_signaled
    /\ LET r == is_reader[t]
           rw == reader_waiting - (IF r THEN 1 ELSE 0)
           next == Advance(head)
           chain == Chain(rw, next)
       IN  /\ reader_waiting' = rw
           /\ writer_waiting' = writer_waiting - (IF r THEN 0 ELSE 1)
           /\ signaled' = signaled - 1 + (IF chain THEN 1 ELSE 0)
           /\ head' = next
           /\ array' = [array EXCEPT ![next].is_signaled = @ \/ chain,
                                     ![head] = EmptySlot]
           /\ SignalOutside
           /\ Grant(t, r)
    /\ pc' = [pc EXCEPT ![t] = "run"]
    /\ is_reader' = [is_reader EXCEPT ![t] = FALSE]
    /\ index' = [index EXCEPT ![t] = 0]
    /\ trying' = trying \ {t}
    /\ UNCHANGED <<tail, waiting>>

\* Mutant: only a thread that releases the write lock notifies the queue.
NotifyAfterWriteOnly(r, ra, wa) ==
    ~r /\ ra + wa + signaled = 0 /\ reader_waiting + writer_waiting > 0

\* Mutant: the last reader out does not look for a thread waking up already.
NotifyAlways(r, ra, wa) == reader_waiting + writer_waiting > 0

\* sge_fifo_ulock notifies the head of the queue
Notify(r, ra, wa) ==
    ra + wa + signaled = 0 /\ reader_waiting + writer_waiting > 0

\* sge_fifo_ulock
Unlock(t) ==
    /\ pc[t] = "run"
    /\ hold[t] # "none"
    /\ LET r == hold[t] # "write"
           ra == reader_active - (IF r THEN 1 ELSE 0)
           wa == writer_active - (IF r THEN 0 ELSE 1)
           notify == Notify(r, ra, wa)
       IN  /\ reader_active' = ra
           /\ writer_active' = wa
           /\ array' = [array EXCEPT ![head].is_signaled = @ \/ notify]
           /\ signaled' = signaled + (IF notify THEN 1 ELSE 0)
    /\ hold' = [hold EXCEPT ![t] = IF @ = "nested" THEN "read" ELSE "none"]
    /\ UNCHANGED <<head, tail, reader_waiting, writer_waiting, waiting,
                   pc, is_reader, index, trying, woken>>

Next ==
    \E t \in Threads :
        \/ \E r \in BOOLEAN : Lock(t, r) \/ TryLock(t, r)
        \/ WakeOutside(t)
        \/ Dequeue(t)
        \/ Unlock(t)

Spec == Init /\ [][Next]_vars

\* A thread that was signalled gets the mutex in the end, and a thread that
\* holds the lock gives it back: the critical sections of the qmaster are finite.
Fairness ==
    \A t \in Threads :
        /\ WF_vars(Dequeue(t))
        /\ WF_vars(t \in woken /\ WakeOutside(t))
        /\ WF_vars(Unlock(t))

FairSpec == Spec /\ Fairness

-----------------------------------------------------------------------------
\* The slots of array are taken in arrival order: the i-th waiting thread sits
\* i - 1 slots behind head.
SlotAt(i) ==
    LET s == head + i - 1
    IN  IF s < FIFO_LOCK_QUEUE_LENGTH THEN s ELSE s - FIFO_LOCK_QUEUE_LENGTH
Occupant(s) == CHOOSE t \in Queued : index[t] = s
WaitQueue ==
    [i \in 1 .. reader_waiting + writer_waiting |->
        LET t == Occupant(SlotAt(i))
        IN  [thread |-> t, is_reader |-> is_reader[t]]]

\* While a thread holds the write lock no other thread holds the lock in any
\* mode ("only one thread can have the write lock at the same time").
MutualExclusion ==
    \A t, u \in Threads : t # u /\ hold[t] = "write" => hold[u] = "none"

\* At most one queued thread is being woken at any time, and it is the one in
\* the slot at head: the thread that increments head is the thread whose slot
\* that is, so sge_fifo_lock_internal never frees another thread's slot.
SignalledIsHead ==
    /\ signaled = Cardinality({i \in Slots : array[i].is_signaled})
    /\ signaled <= 1
    /\ \A i \in Slots : array[i].is_signaled =>
          /\ i = head
          /\ \E t \in Queued : index[t] = i

\* Nobody is forgotten in the queue: when threads wait in it then one of them
\* is being woken, or some thread holds the lock and keeps the head out, so
\* that its sge_fifo_ulock will look at the queue again.
NoLostWakeup ==
    Queued # {} /\ signaled = 0 =>
        /\ \E t \in Threads : hold[t] # "none"
        /\ array[head].is_reader => \E t \in Threads : hold[t] = "write"

\* FIFO_LOCK_QUEUE_LENGTH is the largest number of threads of a component:
\* with no more threads than slots nobody waits outside the queue, where the
\* arrival order is lost.
QueueSuffices ==
    Cardinality(Threads) <= FIFO_LOCK_QUEUE_LENGTH => Outside = {}

\* A thread gets the lock in a step in which it was not in the queue.
Gets(t) ==
    /\ pc[t] # "queued"
    /\ hold'[t] \notin {"none", hold[t]}
    /\ ~(hold[t] = "nested" /\ hold'[t] = "read")

\* A thread that did not wait in the queue gets the lock only when the queue is
\* empty: neither a new reader nor sge_fifo_try_lock overtakes a queued thread.
NoOvertaking == [][\A t \in Threads : Gets(t) => Queued = {}]_vars

\* What the lock promises: the threads get it in arrival order.
Abstract == INSTANCE FifoRWLock WITH queue <- WaitQueue

\* The circular array with its counters and signals implements a queue of
\* requests that are granted strictly from its front.
ImplementsFifoRWLock == Abstract!Spec

\* With fair scheduling it also implements the fair abstract lock.
ImplementsFairFifoRWLock == Abstract!FairSpec

\* A thread that waits in the queue gets the lock, however the other threads
\* keep asking for it.
QueuedThreadsServed ==
    \A t \in Threads : pc[t] = "queued" ~> pc[t] = "run"

\* "does not block the calling thread if the lock cannot be acquired now":
\* no thread waits inside sge_fifo_try_lock.
TryLockNeverBlocks == trying = {}

\* "A thread my hold multiple concurrent read locks": as long as some thread
\* waits for the lock there is a thread that can go on.
NestedReadersGoOn ==
    Queued # {} => \/ \E t \in Queued : array[index[t]].is_signaled
                   \/ \E t \in Threads : pc[t] = "run" /\ hold[t] # "none"

\* "Threads that arrive when the queue is full wait on sge_fifo_rw_lock_t::cond
\* instead and take a position as one frees up": a thread sleeps outside the
\* queue only while positions are taken or another one is on its way in.
FreedPositionTaken == Outside # {} => Queued # {} \/ woken # {}

-----------------------------------------------------------------------------
(* The inductive invariant, from which the safety properties are proved.        *)

L == FIFO_LOCK_QUEUE_LENGTH
Waiters == reader_waiting + writer_waiting

\* How far a slot lies behind head in the circular array.
Dist(s) == IF s >= head THEN s - head ELSE s - head + L

QueuedReaders == {t \in Threads : pc[t] = "queued" /\ is_reader[t]}
QueuedWriters == {t \in Threads : pc[t] = "queued" /\ ~is_reader[t]}
Readers == {t \in Threads : hold[t] \in {"read", "nested"}}
NestedReaders == {t \in Threads : hold[t] = "nested"}
Writers == {t \in Threads : hold[t] = "write"}

\* The queued threads sit, one per slot, in the slots from head up to tail.
QueueShape ==
    /\ Waiters <= L
    /\ tail = IF head + Waiters < L THEN head + Waiters ELSE head + Waiters - L
    /\ \A t \in Queued : /\ Dist(index[t]) < Waiters
                         /\ array[index[t]].is_reader = is_reader[t]
    /\ \A t, u \in Queued : index[t] = index[u] => t = u
    /\ \A s \in Slots : Dist(s) < Waiters => \E t \in Queued : index[t] = s

\* The counters of the lock count the threads.
CountersMatch ==
    /\ reader_waiting = Cardinality(QueuedReaders)
    /\ writer_waiting = Cardinality(QueuedWriters)
    /\ reader_active = Cardinality(Readers) + Cardinality(NestedReaders)
    /\ writer_active = Cardinality(Writers)
    /\ waiting = Cardinality(Outside)

\* A thread that waits holds nothing, or, where the usage is allowed, a read lock
\* and asks for another one.
WaitersHold ==
    \A t \in Threads : pc[t] # "run" =>
        hold[t] = "none" \/ (NestedReads /\ is_reader[t] /\ hold[t] = "read")

\* The flags in the array and the counter of signalled threads agree.
SignalsMatch ==
    /\ signaled \in {0, 1}
    /\ \A s \in Slots : array[s].is_signaled => s = head /\ signaled = 1
    /\ signaled = 1 => Waiters > 0 /\ array[head].is_signaled

\* A thread is signalled only when the holders leave room for it.
Exclusion ==
    /\ writer_active <= 1
    /\ writer_active = 1 => reader_active = 0 /\ signaled = 0
    /\ signaled = 1 /\ ~array[head].is_reader => reader_active = 0

\* When nobody is signalled the holders keep the head of the queue out.
HeadKeptOut ==
    signaled = 0 /\ Waiters > 0 =>
        /\ reader_active + writer_active > 0
        /\ array[head].is_reader => writer_active > 0

\* The inductive invariant of the lock: shape of the circular queue, counters,
\* signals, and who may hold what; every operation of sge_lock_fifo.cc keeps it.
IInv ==
    /\ TypeOK
    /\ QueueShape
    /\ CountersMatch
    /\ WaitersHold
    /\ SignalsMatch
    /\ Exclusion
    /\ HeadKeptOut
=============================================================================
