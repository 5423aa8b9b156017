----------------------------- MODULE FifoRWLock -----------------------------
(* What the FIFO reader/writer lock of libs/uti/sge_lock_fifo.cc promises: a   *)
(* queue of requests that is served strictly from its front, several readers   *)
(* at a time or a single writer.                                               *)
EXTENDS Integers, Sequences

CONSTANTS Threads, NestedReads

VARIABLES
    queue,   \* the requests that wait, in arrival order
    hold     \* the locks each thread holds

vars == <<queue, hold>>

Init ==
    /\ queue = <<>>
    /\ hold = [t \in Threads |-> "none"]

\* The lock may be given to a thread in this mode besides its present holders.
Compatible(r) ==
    \A u \in Threads : hold[u] # "write" /\ (~r => hold[u] = "none")

Take(t, r) ==
    hold' = [hold EXCEPT ![t] = IF ~r THEN "write"
                                ELSE IF @ = "read" THEN "nested" ELSE "read"]

MayRequest(t, r) ==
    /\ \A i \in 1 .. Len(queue) : queue[i].thread # t
    /\ hold[t] = "none" \/ (NestedReads /\ r /\ hold[t] = "read")

\* A request that is granted at once: nobody waits.
Enter(t, r) ==
    /\ MayRequest(t, r)
    /\ queue = <<>>
    /\ Compatible(r)
    /\ Take(t, r)
    /\ UNCHANGED queue

Blocked(r) == queue # <<>> \/ ~Compatible(r)

\* A request that has to wait.
Wait(t, r) ==
    /\ MayRequest(t, r)
    /\ queue' = Append(queue, [thread |-> t, is_reader |-> r])
    /\ UNCHANGED hold

\* The request at the front is granted as soon as the holders allow it.
Serve ==
    /\ queue # <<>>
    /\ Compatible(Head(queue).is_reader)
    /\ Take(Head(queue).thread, Head(queue).is_reader)
    /\ queue' = Tail(queue)

Release(t) ==
    /\ \A i \in 1 .. Len(queue) : queue[i].thread # t
    /\ hold[t] # "none"
    /\ hold' = [hold EXCEPT ![t] = IF @ = "nested" THEN "read" ELSE "none"]
    /\ UNCHANGED queue

Next ==
    \/ \E t \in Threads, r \in BOOLEAN : Enter(t, r) \/ Wait(t, r)
    \/ Serve
    \/ \E t \in Threads : Release(t)

Spec == Init /\ [][Next]_vars

FairSpec == Spec /\ WF_vars(Serve) /\ \A t \in Threads : WF_vars(Release(t))
=============================================================================
