------------------------- MODULE SessionReadsProofs -------------------------
(* Proofs that the invariant of SessionReads is inductive, and that it implies *)
(* the promises about the snapshot and about the sessions.                     *)
EXTENDS SessionRequestsProofs, SessionChangesProofs, WellFoundedInduction, TLAPS

-----------------------------------------------------------------------------
(* The loop that picks elements of a list *)

\* A set that contains 0 and with each number the next contains all numbers.
LEMMA NatSetInduction ==
    ASSUME NEW S, 0 \in S, \A n \in Nat : n \in S => n + 1 \in S
    PROVE  Nat \subseteq S
<1> DEFINE T == {n \in Nat : n \notin S}
           R == {p \in Nat \X Nat : p[1] < p[2]}
<1>1. IsWellFoundedOn(R, Nat)
  BY NatLessThanWellFounded DEF OpToRel
<1>2. SUFFICES ASSUME T # {} PROVE FALSE
  OBVIOUS
<1>3. PICK x \in T : \A y \in T : ~(<<y, x>> \in R)
  <2> HIDE DEF R
  <2> QED BY <1>1, <1>2, WFMin
<1>4. x # 0 /\ x - 1 \in Nat
  BY <1>3
<1>5. x - 1 \in S
  <2>1. <<x - 1, x>> \in R
    BY <1>3, <1>4
  <2>2. x - 1 \notin T
    BY <1>3, <2>1
  <2> QED BY <1>4, <2>2
<1>6. (x - 1) + 1 \in S
  BY <1>4, <1>5
<1>7. (x - 1) + 1 = x
  BY <1>3
<1> QED BY <1>3, <1>6, <1>7

\* f holds the elements picked from each of the first n prefixes of s.
Picks(f, s, G, n) ==
    f = [i \in 0 .. n |-> IF i = 0 THEN <<>>
                          ELSE IF s[i] \in G THEN Append(f[i - 1], s[i]) ELSE f[i - 1]]

\* Such a function exists for every number of prefixes.
LEMMA PicksExist ==
    ASSUME NEW s, NEW G, NEW n \in Nat
    PROVE  \E f : Picks(f, s, G, n)
<1> DEFINE C == {m \in Nat : \E f : Picks(f, s, G, m)}
<1>1. 0 \in C
  <2> DEFINE f == [i \in 0 .. 0 |-> <<>>]
  <2>1. Picks(f, s, G, 0)
    BY DEF Picks
  <2> QED BY <2>1
<1>2. ASSUME NEW m \in C PROVE m + 1 \in C
  <2>1. PICK f : Picks(f, s, G, m)
    OBVIOUS
  <2> DEFINE e == IF s[m + 1] \in G THEN Append(f[m], s[m + 1]) ELSE f[m]
             g == [i \in 0 .. m + 1 |-> IF i = m + 1 THEN e ELSE f[i]]
  <2>2. m \in Nat /\ m + 1 \in Nat
    OBVIOUS
  <2>3. \A i \in 0 .. m : g[i] = f[i] /\ i # m + 1
    BY <2>2
  <2>4. g[m + 1] = e /\ g[m] = f[m] /\ m + 1 # 0 /\ (m + 1) - 1 = m
    BY <2>2
  <2>5. ASSUME NEW i \in 0 .. m + 1
        PROVE  g[i] = IF i = 0 THEN <<>>
                      ELSE IF s[i] \in G THEN Append(g[i - 1], s[i]) ELSE g[i - 1]
    <3>1. CASE i = m + 1
      BY <2>4, <3>1
    <3>2. CASE i # m + 1
      <4>1. i \in 0 .. m /\ (i # 0 => i - 1 \in 0 .. m)
        BY <2>2, <3>2
      <4>2. f[i] = IF i = 0 THEN <<>>
                   ELSE IF s[i] \in G THEN Append(f[i - 1], s[i]) ELSE f[i - 1]
        BY <2>1, <4>1 DEF Picks
      <4> HIDE DEF g
      <4> QED BY <2>3, <4>1, <4>2
    <3> QED BY <3>1, <3>2
  <2>6. g = [i \in 0 .. m + 1 |-> g[i]]
    OBVIOUS
  <2> HIDE DEF g
  <2>7. Picks(g, s, G, m + 1)
    BY <2>5, <2>6 DEF Picks
  <2> QED BY <2>2, <2>7
<1>3. Nat \subseteq C
  <2> HIDE DEF C
  <2> QED BY <1>1, <1>2, NatSetInduction
<1> QED BY <1>3

\* Pick is the last value of such a function.
LEMMA PickIs ==
    ASSUME NEW X, NEW s \in Seq(X), NEW G
    PROVE  \E f : Picks(f, s, G, Len(s)) /\ Pick(s, G) = f[Len(s)]
<1> DEFINE f == CHOOSE g : g = [i \in 0 .. Len(s) |->
                    IF i = 0 THEN <<>>
                    ELSE IF s[i] \in G THEN Append(g[i - 1], s[i]) ELSE g[i - 1]]
<1>1. \E g : Picks(g, s, G, Len(s))
  <2>1. Len(s) \in Nat
    OBVIOUS
  <2> QED BY <2>1, PicksExist
<1>2. Picks(f, s, G, Len(s))
  BY <1>1 DEF Picks
<1>3. Pick(s, G) = f[Len(s)]
  BY DEF Pick
<1> HIDE DEF f
<1> QED BY <1>2, <1>3

\* One more element of s, taken or left out.
LEMMA PickedNext ==
    ASSUME NEW X, NEW s \in Seq(X), NEW G, NEW n \in Nat, n + 1 \in 1 .. Len(s),
           NEW p \in Seq(X), NEW h, PickedFrom(p, h, s, G, n)
    PROVE  \E g : PickedFrom(IF s[n + 1] \in G THEN Append(p, s[n + 1]) ELSE p,
                             g, s, G, n + 1)
<1>1. CASE s[n + 1] \notin G
  <2>1. h \in [1 .. Len(p) -> 1 .. n + 1]
    BY DEF PickedFrom
  <2>2. ASSUME NEW j \in 1 .. n + 1, s[j] \in G PROVE \E k \in 1 .. Len(p) : h[k] = j
    BY <1>1, <2>2 DEF PickedFrom
  <2>3. PickedFrom(p, h, s, G, n + 1)
    BY <2>1, <2>2 DEF PickedFrom
  <2> QED BY <1>1, <2>3
<1>2. CASE s[n + 1] \in G
  <2> DEFINE q == Append(p, s[n + 1])
             g == [k \in 1 .. Len(p) + 1 |-> IF k = Len(p) + 1 THEN n + 1 ELSE h[k]]
  <2>1. s[n + 1] \in X /\ Len(p) \in Nat
    OBVIOUS
  <2>2. /\ Len(q) = Len(p) + 1
        /\ q[Len(p) + 1] = s[n + 1]
        /\ \A k \in 1 .. Len(p) : q[k] = p[k]
    BY <2>1
  <2>3. /\ g[Len(p) + 1] = n + 1
        /\ \A k \in 1 .. Len(p) : g[k] = h[k] /\ h[k] \in 1 .. n
    BY <2>1 DEF PickedFrom
  <2>4. g \in [1 .. Len(q) -> 1 .. n + 1]
    BY <2>1, <2>2 DEF PickedFrom
  <2> HIDE DEF q, g
  <2>5. ASSUME NEW k \in 1 .. Len(q) PROVE q[k] = s[g[k]] /\ q[k] \in G
    <3>1. CASE k = Len(p) + 1
      BY <1>2, <2>2, <2>3, <3>1
    <3>2. CASE k \in 1 .. Len(p)
      BY <2>2, <2>3, <3>2 DEF PickedFrom
    <3> QED BY <2>1, <2>2, <3>1, <3>2
  <2>6. ASSUME NEW k \in 1 .. Len(q), NEW l \in 1 .. Len(q), k < l PROVE g[k] < g[l]
    <3>1. k \in 1 .. Len(p)
      BY <2>1, <2>2, <2>6
    <3>2. CASE l = Len(p) + 1
      BY <2>3, <3>1, <3>2
    <3>3. CASE l \in 1 .. Len(p)
      BY <2>3, <2>6, <3>1, <3>3 DEF PickedFrom
    <3> QED BY <2>1, <2>2, <3>2, <3>3
  <2>7. ASSUME NEW j \in 1 .. n + 1, s[j] \in G PROVE \E k \in 1 .. Len(q) : g[k] = j
    <3>1. CASE j = n + 1
      BY <2>1, <2>2, <2>3, <3>1
    <3>2. CASE j \in 1 .. n
      <4>1. PICK k \in 1 .. Len(p) : h[k] = j
        BY <2>7, <3>2 DEF PickedFrom
      <4> QED BY <2>1, <2>2, <2>3, <4>1
    <3> QED BY <3>1, <3>2
  <2>8. PickedFrom(q, g, s, G, n + 1)
    BY <2>4, <2>5, <2>6, <2>7 DEF PickedFrom
  <2> QED BY <1>2, <2>8 DEF q
<1> QED BY <1>1, <1>2

\* The loop takes exactly the elements in G and keeps their order.
LEMMA PickRight == PicksRight
<1> SUFFICES ASSUME NEW X, NEW s \in Seq(X), NEW G
             PROVE  /\ Pick(s, G) \in Seq(X)
                    /\ \E h : PickedFrom(Pick(s, G), h, s, G, Len(s))
  BY DEF PicksRight
<1>1. PICK f : Picks(f, s, G, Len(s)) /\ Pick(s, G) = f[Len(s)]
  BY PickIs
<1> DEFINE C == {m \in Nat : m <= Len(s) =>
                    f[m] \in Seq(X) /\ \E h : PickedFrom(f[m], h, s, G, m)}
<1>2. Len(s) \in Nat
  OBVIOUS
<1>3. 0 \in C
  <2>1. f[0] = <<>>
    BY <1>1, <1>2 DEF Picks
  <2>2. f[0] \in Seq(X) /\ Len(f[0]) = 0
    BY <2>1
  <2>3. PickedFrom(f[0], [k \in {} |-> 0], s, G, 0)
    BY <2>2 DEF PickedFrom
  <2> QED BY <2>2, <2>3
<1>4. ASSUME NEW m \in C PROVE m + 1 \in C
  <2>1. m \in Nat /\ m + 1 \in Nat
    OBVIOUS
  <2>2. SUFFICES ASSUME m + 1 <= Len(s)
                 PROVE  f[m + 1] \in Seq(X) /\ \E h : PickedFrom(f[m + 1], h, s, G, m + 1)
    BY <2>1
  <2>3. f[m] \in Seq(X) /\ \E h : PickedFrom(f[m], h, s, G, m)
    BY <1>2, <2>1, <2>2
  <2>4. m + 1 \in 0 .. Len(s) /\ m + 1 \in 1 .. Len(s) /\ m + 1 # 0 /\ (m + 1) - 1 = m
    BY <1>2, <2>1, <2>2
  <2>5. f[m + 1] = IF s[m + 1] \in G THEN Append(f[m], s[m + 1]) ELSE f[m]
    BY <1>1, <2>4 DEF Picks
  <2>6. f[m + 1] \in Seq(X)
    <3>1. s[m + 1] \in X
      BY <2>4
    <3> QED BY <2>3, <2>5, <3>1
  <2> HIDE DEF C
  <2>7. \E h : PickedFrom(f[m + 1], h, s, G, m + 1)
    BY <2>1, <2>3, <2>4, <2>5, PickedNext
  <2> QED BY <2>6, <2>7
<1>5. Nat \subseteq C
  <2> HIDE DEF C
  <2> QED BY <1>3, <1>4, NatSetInduction
<1> QED BY <1>1, <1>2, <1>5

-----------------------------------------------------------------------------
(* The modes of the workers and the commits *)

\* A step keeps the modes right.
LEMMA ModesStep == IInv /\ Next => ModesRight'
<1> SUFFICES ASSUME IInv, Next, NEW w \in Workers, worker'[w] # "wait"
             PROVE  Fits(w, is_only_read_request(packet[w]))'
  BY DEF ModesRight, Fits
<1>1. LockRight /\ EventMaster \notin Workers /\ TypeOK
  BY ThreadsAssumption DEF IInv
<1>2. PICK r \in BOOLEAN : r <=> kind[packet[w]] = "get_global"
  OBVIOUS
<1>3. CASE WorkerTake(w)
  <2>0. PICK d \in BOOLEAN : d <=> kind[Head(GlobalRequestQueue)] = "get_global"
    OBVIOUS
  <2>1. GlobalLock!Enter(w, d) \/ GlobalLock!Wait(w, d)
    <3>1. is_only_read_request(Head(GlobalRequestQueue)) = d
      BY <2>0 DEF is_only_read_request
    <3> QED BY <1>3, <3>1 DEF WorkerTake
  <2>2. packet'[w] = Head(GlobalRequestQueue) /\ UNCHANGED kind
    BY <1>1, <1>3 DEF WorkerTake, clientVars, TypeOK
  <2>3. d <=> kind'[packet'[w]] = "get_global"
    BY <2>0, <2>2
  <2>4. Fits(w, d)'
    BY <1>1, <2>1, FitsTaken
  <2> QED BY <2>3, <2>4 DEF Fits, is_only_read_request
<1>4. CASE /\ ~WorkerTake(w) /\ ~WorkerAnswer(w)
           /\ worker[w] # "wait" /\ packet'[w] = packet[w]
           /\ kind'[packet[w]] = kind[packet[w]]
  <2>1. Fits(w, r)
    BY <1>2, <1>4 DEF IInv, ModesRight, Fits, is_only_read_request
  <2>2. Fits(w, r)' => Fits(w, is_only_read_request(packet[w]))'
    BY <1>2, <1>4 DEF Fits, is_only_read_request
  <2>3. SUFFICES Fits(w, r)'
    BY <2>2
  <2>4. CASE UNCHANGED <<global_queue, global_hold>>
    BY <2>1, <2>4 DEF Fits
  <2>5. ASSUME NEW v \in Workers, WorkerTake(v) PROVE Fits(w, r)'
    <3> DEFINE m == is_only_read_request(Head(GlobalRequestQueue))
    <3>1. GlobalLock!Enter(v, m) \/ GlobalLock!Wait(v, m)
      BY <2>5 DEF WorkerTake
    <3>2. m \in BOOLEAN /\ v # w /\ v \in LockThreads
      BY <1>4, <2>5 DEF is_only_read_request, LockThreads
    <3> HIDE DEF m
    <3> QED BY <1>1, <1>2, <2>1, <3>1, <3>2, FitsKept
  <2>6. ASSUME NEW v \in Workers, WorkerAnswer(v) PROVE Fits(w, r)'
    <3>1. GlobalLock!Release(v) /\ v # w /\ v \in LockThreads
      BY <1>4, <2>6 DEF WorkerAnswer, LockThreads
    <3> QED BY <1>1, <1>2, <2>1, <3>1, FitsKept
  <2>7. CASE TakeRequests \/ ProcessRequests
    <3>1. \/ UNCHANGED globalLock
          \/ GlobalLock!Enter(EventMaster, TRUE) \/ GlobalLock!Wait(EventMaster, TRUE)
          \/ GlobalLock!Release(EventMaster)
      BY <2>7 DEF TakeRequests, ProcessRequests
    <3>2. UNCHANGED globalLock => UNCHANGED <<global_queue, global_hold>>
      BY DEF globalLock
    <3>3. EventMaster \in LockThreads /\ TRUE \in BOOLEAN /\ EventMaster # w
      BY <1>1 DEF LockThreads
    <3> QED BY <1>1, <1>2, <2>1, <2>4, <3>1, <3>2, <3>3, FitsKept
  <2>8. CASE ServeGlobalLock
    BY <1>1, <1>2, <2>1, <2>8, FitsServed DEF ServeGlobalLock
  <2> QED BY <2>4, <2>5, <2>6, <2>7, <2>8, LockFrame
<1>5. ~WorkerAnswer(w)
  BY <1>1 DEF WorkerAnswer, TypeOK
<1> QED BY <1>3, <1>4, <1>5, PacketKept

\* A worker that holds the lock for writing holds it until its answer.
LEMMA WriterKept ==
    ASSUME IInv, Next, NEW w \in Workers, global_hold[w] = "write", ~WorkerAnswer(w)
    PROVE  global_hold'[w] = "write"
<1>1. LockRight /\ EventMaster \notin Workers /\ w \in LockThreads
  BY ThreadsAssumption DEF IInv, LockThreads
<1>2. \A r \in BOOLEAN : ~GlobalLock!Compatible(r)
  BY DEF GlobalLock!Compatible
<1>3. CASE UNCHANGED <<global_queue, global_hold>>
  BY <1>3
<1>4. ASSUME NEW t \in LockThreads, NEW r \in BOOLEAN,
             GlobalLock!Enter(t, r) \/ GlobalLock!Wait(t, r)
      PROVE  global_hold'[w] = "write"
  <2>1. ~GlobalLock!Enter(t, r)
    BY <1>2 DEF GlobalLock!Enter
  <2> QED BY <1>4, <2>1 DEF GlobalLock!Wait
<1>5. ASSUME NEW v \in Workers, WorkerTake(v) PROVE global_hold'[w] = "write"
  <2> DEFINE r == is_only_read_request(Head(GlobalRequestQueue))
  <2>1. GlobalLock!Enter(v, r) \/ GlobalLock!Wait(v, r)
    BY <1>5 DEF WorkerTake
  <2>2. r \in BOOLEAN /\ v \in LockThreads
    BY DEF is_only_read_request, LockThreads
  <2> HIDE DEF r
  <2> QED BY <1>4, <2>1, <2>2
<1>6. ASSUME NEW t \in LockThreads, t # w, GlobalLock!Release(t) PROVE global_hold'[w] = "write"
  BY <1>1, <1>6, LockReleased
<1>7. ASSUME NEW v \in Workers, WorkerAnswer(v) PROVE global_hold'[w] = "write"
  BY <1>6, <1>7 DEF WorkerAnswer, LockThreads
<1>8. CASE TakeRequests \/ ProcessRequests
  <2>1. \/ UNCHANGED globalLock
        \/ GlobalLock!Enter(EventMaster, TRUE) \/ GlobalLock!Wait(EventMaster, TRUE)
        \/ GlobalLock!Release(EventMaster)
    BY <1>8 DEF TakeRequests, ProcessRequests
  <2>2. UNCHANGED globalLock => UNCHANGED <<global_queue, global_hold>>
    BY DEF globalLock
  <2>3. EventMaster \in LockThreads /\ TRUE \in BOOLEAN /\ EventMaster # w
    BY <1>1 DEF LockThreads
  <2> QED BY <1>3, <1>4, <1>6, <2>1, <2>2, <2>3
<1>9. ~ServeGlobalLock
  BY <1>1, <1>2, LockServed DEF ServeGlobalLock
<1> QED BY <1>3, <1>5, <1>7, <1>8, <1>9, LockFrame

\* A step keeps the commits right.
LEMMA CommitsStep == IInv /\ Next => CommitsRight'
<1> SUFFICES ASSUME IInv, Next, NEW w \in Workers, commit'[w] # "none"
             PROVE  /\ worker'[w] = "commit"
                    /\ global_hold'[w] = "write"
                    /\ commit_id'[w] \in global_ds'
                    /\ \A id \in global_ds' : id <= commit_id'[w]
  BY DEF CommitsRight
<1>1. TypeOK /\ w \in Committers /\ w \notin Clients
  BY ThreadsAssumption DEF IInv, Committers
<1>2. commit[w] # "none" => /\ worker[w] = "commit"
                            /\ global_hold[w] = "write"
                            /\ commit_id[w] \in global_ds
                            /\ \A id \in global_ds : id <= commit_id[w]
  BY DEF IInv, CommitsRight
<1>3. ~WorkerAnswer(w)
  BY <1>1 DEF WorkerAnswer, TypeOK
<1>4. CASE commit[w] # "none" /\ worker'[w] = worker[w]
           /\ commit_id'[w] = commit_id[w] /\ UNCHANGED global_ds
  BY <1>2, <1>3, <1>4, WriterKept
<1>5. CASE UNCHANGED <<commit, commit_id, worker, global_ds>>
  BY <1>4, <1>5
<1>6. ASSUME NEW c \in Clients, Trigger(c)
      PROVE  commit[w] # "none" /\ worker'[w] = worker[w]
             /\ commit_id'[w] = commit_id[w] /\ UNCHANGED global_ds
  BY <1>1, <1>6 DEF Trigger, TakeUniqueId, TypeOK, Committers, threadVars, storeVars
<1>7. ASSUME NEW c \in Clients, TriggerAnswer(c)
      PROVE  commit[w] # "none" /\ worker'[w] = worker[w]
             /\ commit_id'[w] = commit_id[w] /\ UNCHANGED global_ds
  BY <1>1, <1>7 DEF TriggerAnswer, TypeOK, Committers, threadVars, storeVars
<1>8. ASSUME NEW t \in Committers,
             SetWriteUniqueId(t, UserOf[t]) \/ SetWriteUniqueId(t, UserOf[packet[t]])
      PROVE  commit[w] # "none" /\ worker'[w] = worker[w]
             /\ commit_id'[w] = commit_id[w] /\ UNCHANGED global_ds
  BY <1>1, <1>8 DEF SetWriteUniqueId, TypeOK, threadVars, storeVars
<1>9. ASSUME NEW t \in Committers, AppendRequest(t, TRUE) \/ AppendRequest(t, FALSE)
      PROVE  commit[w] # "none" /\ worker'[w] = worker[w]
             /\ commit_id'[w] = commit_id[w] /\ UNCHANGED global_ds
  BY <1>1, <1>9 DEF AppendRequest, TypeOK, threadVars, storeVars
<1>10. ASSUME NEW v \in Workers, WorkerTake(v)
       PROVE  commit[w] # "none" /\ worker'[w] = worker[w]
              /\ commit_id'[w] = commit_id[w] /\ UNCHANGED global_ds
  BY <1>1, <1>2, <1>10 DEF WorkerTake, TypeOK, commitVars, storeVars
<1>11. ASSUME NEW v \in Workers, WorkerRead(v)
       PROVE  commit[w] # "none" /\ worker'[w] = worker[w]
              /\ commit_id'[w] = commit_id[w] /\ UNCHANGED global_ds
  BY <1>1, <1>2, <1>11 DEF WorkerRead, TypeOK, commitVars, storeVars
<1>12. ASSUME NEW v \in Workers, v # w, WorkerAnswer(v)
       PROVE  commit[w] # "none" /\ worker'[w] = worker[w]
              /\ commit_id'[w] = commit_id[w] /\ UNCHANGED global_ds
  BY <1>1, <1>12 DEF WorkerAnswer, TypeOK, storeVars
<1>13. ASSUME NEW v \in Workers, WorkerWrite(v)
       PROVE  /\ worker'[w] = "commit"
              /\ global_hold'[w] = "write"
              /\ commit_id'[w] \in global_ds'
              /\ \A id \in global_ds' : id <= commit_id'[w]
  <2>1. v = w
    <3>1. \A x \in Workers : commit[x] = "none"
      BY <1>13, WriteBegins
    <3>2. commit' = [commit EXCEPT ![v] = "session"]
      BY <1>13, WriteBegins
    <3> QED BY <1>1, <3>1, <3>2 DEF TypeOK
  <2>2. worker'[w] = "commit" /\ commit_id'[w] = next_unique_id
    BY <1>1, <1>13, <2>1, WriteBegins DEF TypeOK
  <2>3. global_hold'[w] = "write"
    BY <1>3, <1>13, <2>1, WriteBegins, WriterKept
  <2>4. \A id \in global_ds' : id <= next_unique_id
    <3>1. next_unique_id \in Int /\ \A id \in global_ds : id \in Int
      <4>1. global_ds \subseteq Ids /\ next_unique_id \in Ids
        BY <1>1, <1>13, WriteBegins DEF TypeOK
      <4> QED BY <4>1, IdsAreNumbers
    <3>2. /\ \A id \in global_ds : id < next_unique_id
          /\ global_ds' = global_ds \cup {next_unique_id}
      BY <1>13, WriteBegins
    <3> QED BY <3>1, <3>2
  <2> QED BY <1>13, <2>2, <2>3, <2>4, WriteBegins
<1>14. (\A c \in Clients : c \in Committers) /\ (\A v \in Workers : v \in Committers)
  BY DEF Committers
<1> QED BY <1>1, <1>3, <1>4, <1>5, <1>6, <1>7, <1>8, <1>9, <1>10, <1>11, <1>12, <1>13,
          <1>14, CommitFrame

-----------------------------------------------------------------------------
(* The sessions *)

\* A session that stands for a change goes on to do so: only a session whose
\* changes the mirror has published is dropped, and a later id replaces no
\* greater one.
LEMMA NotedKept ==
    ASSUME IInv, Next, SessionsReliable, NEW u \in Users \ {GDI_SESSION_NONE},
           NEW id \in global_ds, Noted(u, id)
    PROVE  Noted(u, id)'
<1>1. TypeOK /\ CommitsRight /\ ClientsKnown /\ MirrorKeepsUp
  BY DEF IInv, SessionsRight, SessionsReliable
<1>2. reader_ds \subseteq reader_ds'
  BY StoresGrow
<1>3. id \in Ids
  BY <1>1 DEF TypeOK
<1>4. CASE write_unique_id'[u] = write_unique_id[u]
  BY <1>2, <1>4 DEF Noted
<1>5. ASSUME NEW w \in Workers, SetWriteUniqueId(w, UserOf[packet[w]])
      PROVE  Noted(u, id)'
  <2>1. /\ commit_id[w] \in Ids /\ id <= commit_id[w]
    BY <1>1, <1>5 DEF SetWriteUniqueId, CommitsRight, TypeOK, Committers
  <2>2. write_unique_id'[u] = write_unique_id[u] \/ write_unique_id'[u] = commit_id[w]
    BY <1>1, <1>5 DEF SetWriteUniqueId, TypeOK
  <2>3. commit_id[w] # NoSession
    BY <2>1, IdsAreNumbers DEF NoSession
  <2> QED BY <1>4, <2>1, <2>2, <2>3 DEF Noted
<1>6. ASSUME NEW c \in Clients PROVE ~SetWriteUniqueId(c, UserOf[c])
  BY <1>1 DEF ClientsKnown, SetWriteUniqueId
<1>7. CASE ProcessEvents
  BY <1>4, <1>7 DEF ProcessEvents
<1>8. ASSUME NEW v \in Users, RemoveUnused(v), write_unique_id'[u] # write_unique_id[u]
      PROVE  Noted(u, id)'
  <2>1. v = u
    BY <1>1, <1>8 DEF RemoveUnused, TypeOK
  <2>2. write_unique_id[u] # NoSession /\ write_unique_id[u] <= process_unique_id
    BY <1>1, <1>8, <2>1 DEF RemoveUnused
  <2>3. write_unique_id[u] \in Ids /\ process_unique_id \in Ids
    BY <1>1, <2>2 DEF TypeOK
  <2>4. id <= write_unique_id[u] => id <= process_unique_id
    BY <1>3, <2>2, <2>3, IdsAreNumbers
  <2>5. id \in reader_ds
    BY <2>4, PublishedSeen DEF Noted, SnapshotReached
  <2> QED BY <1>2, <2>5 DEF Noted
<1> QED BY <1>4, <1>5, <1>6, <1>7, <1>8, NotesFrame

\* A worker's commit comes from the step before, or its id was just noted.
LEMMA CommitFrom ==
    ASSUME IInv, Next, NEW w \in Workers, commit'[w] \in {"append", "done"}
    PROVE  /\ commit_id'[w] = commit_id[w] /\ packet'[w] = packet[w]
           /\ \/ commit[w] \in {"append", "done"}
              \/ SetWriteUniqueId(w, UserOf[packet[w]])
           /\ commit_id[w] \in global_ds
<1>1. TypeOK /\ CommitsRight
  BY DEF IInv
<1>2. w \notin Clients /\ w \in Committers
  BY ThreadsAssumption DEF Committers
<1>3. /\ commit_id'[w] = commit_id[w]
      /\ \/ commit[w] \in {"append", "done"}
         \/ SetWriteUniqueId(w, UserOf[packet[w]])
  <2>1. CASE UNCHANGED <<commit, commit_id, worker, global_ds>>
    BY <2>1
  <2>2. ASSUME NEW c \in Clients, \/ Trigger(c) \/ SetWriteUniqueId(c, UserOf[c])
                                  \/ AppendRequest(c, FALSE) \/ TriggerAnswer(c)
        PROVE  commit'[w] = commit[w] /\ commit_id'[w] = commit_id[w]
    <3>1. c \in Committers /\ c # w
      BY <1>2 DEF Committers
    <3> QED BY <1>1, <1>2, <2>2, <3>1, OwnCommit
  <2>3. ASSUME NEW v \in Workers,
               \/ WorkerTake(v) \/ WorkerWrite(v) \/ WorkerRead(v)
               \/ SetWriteUniqueId(v, UserOf[packet[v]])
               \/ AppendRequest(v, TRUE) \/ WorkerAnswer(v)
        PROVE  /\ commit_id'[w] = commit_id[w]
               /\ \/ commit[w] \in {"append", "done"}
                  \/ SetWriteUniqueId(w, UserOf[packet[w]])
    <3>1. CASE v # w
      <4>1. v \in Committers
        BY DEF Committers
      <4>2. commit'[w] = commit[w] /\ commit_id'[w] = commit_id[w]
        BY <1>1, <1>2, <2>3, <3>1, <4>1, OwnCommit
      <4> QED BY <4>2
    <3>2. CASE v = w
      <4>1. CASE WorkerTake(w) \/ WorkerRead(w)
        BY <4>1 DEF WorkerTake, WorkerRead, commitVars
      <4>2. CASE SetWriteUniqueId(w, UserOf[packet[w]])
        BY <4>2 DEF SetWriteUniqueId
      <4>3. CASE AppendRequest(w, TRUE)
        BY <4>3 DEF AppendRequest
      <4>4. CASE WorkerWrite(w)
        <5>1. commit'[w] = "session"
          BY <1>1, <1>2, <4>4 DEF WorkerWrite, TakeUniqueId, TypeOK
        <5> QED BY <5>1
      <4>5. CASE WorkerAnswer(w)
        <5>1. commit'[w] = "none"
          BY <1>1, <1>2, <4>5 DEF WorkerAnswer, TypeOK
        <5> QED BY <5>1
      <4> QED BY <2>3, <3>2, <4>1, <4>2, <4>3, <4>4, <4>5
    <3> QED BY <3>1, <3>2
  <2> QED BY <2>1, <2>2, <2>3, CommitFrame
<1>4. commit[w] # "none"
  BY <1>3 DEF SetWriteUniqueId
<1>5. worker[w] = "commit" /\ commit_id[w] \in global_ds
  BY <1>1, <1>4 DEF CommitsRight
<1>6. ~WorkerTake(w) /\ ~WorkerAnswer(w)
  <2>1. ~WorkerTake(w)
    BY <1>5 DEF WorkerTake
  <2>2. WorkerAnswer(w) => commit'[w] = "none"
    BY <1>1, <1>2 DEF WorkerAnswer, TypeOK
  <2> QED BY <2>1, <2>2
<1>7. packet'[w] = packet[w]
  BY <1>6, PacketKept
<1> QED BY <1>3, <1>5, <1>7

\* A step leaves every session standing for what its user was told.
LEMMA NotesStep ==
    ASSUME IInv, Next, SessionsReliable
    PROVE  WritesNoted'
<1>1. TypeOK /\ CommitsRight /\ AnswersRight /\ WritesNoted
  BY DEF IInv, SessionsRight
<1>2. ASSUME NEW u \in Users \ {GDI_SESSION_NONE}, NEW id \in answered'[u]
      PROVE  Noted(u, id)'
  <2>1. CASE id \in answered[u]
    <3>1. id \in global_ds /\ Noted(u, id)
      BY <1>1, <2>1 DEF AnswersRight, WritesNoted
    <3> QED BY <3>1, NotedKept
  <2>2. ASSUME NEW w \in Workers, commit[w] = "done", UserOf[packet[w]] = u,
               id = commit_id[w]
        PROVE  Noted(u, id)'
    <3>1. id \in global_ds
      BY <1>1, <2>2 DEF CommitsRight
    <3>2. Noted(u, id)
      BY <1>1, <2>2 DEF WritesNoted
    <3> QED BY <3>1, <3>2, NotedKept
  <2> QED BY <2>1, <2>2, AnsweredFrom
<1>3. ASSUME NEW u \in Users \ {GDI_SESSION_NONE}, NEW w \in Workers,
             commit'[w] \in {"append", "done"}, UserOf[packet'[w]] = u
      PROVE  Noted(u, commit_id[w])'
  <2>1. PICK id \in global_ds : id = commit_id[w] /\ id = commit_id'[w]
    BY <1>3, CommitFrom
  <2>2. UserOf[packet[w]] = u
    BY <1>3, CommitFrom
  <2>3. CASE commit[w] \in {"append", "done"}
    <3>1. Noted(u, id)
      BY <1>1, <2>1, <2>2, <2>3 DEF WritesNoted
    <3>2. Noted(u, id)'
      BY <3>1, NotedKept
    <3> QED BY <2>1, <3>2 DEF Noted
  <2>4. CASE SetWriteUniqueId(w, UserOf[packet[w]])
    <3>1. write_unique_id'[u] = id
      BY <1>1, <2>1, <2>2, <2>4 DEF SetWriteUniqueId, TypeOK
    <3>2. id \in Ids
      BY <1>1 DEF TypeOK
    <3>3. id <= id /\ id # NoSession
      BY <3>2, IdsAreNumbers DEF NoSession
    <3> QED BY <2>1, <3>1, <3>3 DEF Noted
  <2> QED BY <1>3, <2>3, <2>4, CommitFrom
<1> QED BY <1>2, <1>3 DEF WritesNoted

\* A read whose session the snapshot has reached misses no change.
LEMMA UpToDateSees ==
    ASSUME IInv, SessionsReliable, NEW c \in Clients, request[c] # "idle",
           kind[c] = "get", is_uptodate(UserOf[c])
    PROVE  must_see[c] \subseteq reader_ds
<1>1. TypeOK /\ AnswersRight /\ ClientsKnown /\ WritesNoted
  BY DEF IInv, SessionsRight
<1>2. PICK u \in Users \ {GDI_SESSION_NONE} : u = UserOf[c]
  BY <1>1, UsersAssumption DEF ClientsKnown
<1>3. SUFFICES ASSUME NEW id \in must_see[c] PROVE id \in reader_ds
  OBVIOUS
<1>4. id \in answered[u] /\ id \in global_ds
  BY <1>1, <1>2, <1>3 DEF AnswersRight
<1>5. Noted(u, id)
  BY <1>1, <1>4 DEF WritesNoted
<1>6. CASE write_unique_id[u] # NoSession /\ id <= write_unique_id[u]
  <2>1. write_unique_id[u] <= process_unique_id
    BY <1>2, <1>6 DEF is_uptodate
  <2>2. write_unique_id[u] \in Ids /\ process_unique_id \in Ids /\ id \in Ids
    BY <1>1, <1>4, <1>6 DEF TypeOK
  <2>3. id <= process_unique_id
    <3>1. write_unique_id[u] \in Nat /\ process_unique_id \in Nat /\ id \in Nat
      BY <2>2, IdsAreNumbers
    <3> QED BY <1>6, <2>1, <3>1
  <2>4. SnapshotReached
    BY PublishedSeen
  <2> QED BY <1>4, <2>3, <2>4 DEF SnapshotReached
<1> QED BY <1>5, <1>6 DEF Noted

\* A read that is with the readers, or comes to them, sees what it has to see.
LEMMA ReadsStep ==
    ASSUME PicksRight, IInv, Next, SessionsReliable
    PROVE  ReadsSee'
<1>1. TypeOK /\ QueuesRight /\ ReadersRight /\ ReadsSee
  BY DEF IInv, SessionsRight
<1>2. reader_ds \subseteq reader_ds'
  BY StoresGrow
<1>3. ASSUME NEW c \in Clients, must_see[c] \subseteq reader_ds,
             request[c] # "idle" \/ request'[c] # "arrived"
      PROVE  must_see'[c] \subseteq reader_ds'
  BY <1>2, <1>3, MustSeeFrom
<1>4. ASSUME NEW c \in Clients, request'[c] = "to_reader"
      PROVE  must_see'[c] \subseteq reader_ds'
  <2>1. must_see[c] \subseteq reader_ds
    BY <1>1, <1>4, ToReaderFrom, UpToDateSees DEF ReadsSee
  <2> QED BY <1>3, <1>4, <2>1
<1>5. ASSUME NEW c \in Clients, In(c, ReaderRequestQueue')
      PROVE  must_see'[c] \subseteq reader_ds'
  <2>1. CASE In(c, ReaderRequestQueue)
    <3>1. must_see[c] \subseteq reader_ds /\ request[c] = "queued"
      BY <1>1, <2>1 DEF ReadsSee, QueuesRight, ForReaders
    <3> QED BY <1>3, <3>1
  <2>2. CASE request[c] = "to_reader"
    <3>1. must_see[c] \subseteq reader_ds
      BY <1>1, <2>2 DEF ReadsSee
    <3> QED BY <1>3, <2>2, <3>1
  <2>3. CASE In(c, ReaderWaitingRequestQueue) /\ is_uptodate(UserOf[c])
    <3>1. request[c] = "queued" /\ kind[c] = "get"
      BY <1>1, <2>3 DEF QueuesRight, ForReaders
    <3>2. must_see[c] \subseteq reader_ds
      BY <2>3, <3>1, UpToDateSees
    <3> QED BY <1>3, <3>1, <3>2
  <2> QED BY <1>5, <2>1, <2>2, <2>3, ReaderQueuesGrow
<1>6. ASSUME NEW r \in Readers, reader'[r] # "wait"
      PROVE  must_see'[packet'[r]] \subseteq reader_ds'
  <2>1. CASE ReaderTake(r)
    <3>1. PICK c \in Clients : c = packet'[r] /\ In(c, ReaderRequestQueue)
      <4>1. ReaderRequestQueue \in Seq(Clients) /\ ReaderRequestQueue # <<>>
        BY <1>1, <2>1 DEF ReaderTake, TypeOK
      <4>2. /\ Head(ReaderRequestQueue) \in Clients
            /\ Head(ReaderRequestQueue) = ReaderRequestQueue[1]
            /\ 1 \in 1 .. Len(ReaderRequestQueue)
        BY <4>1
      <4>3. packet'[r] = Head(ReaderRequestQueue)
        BY <1>1, <2>1 DEF ReaderTake, TypeOK
      <4> QED BY <4>2, <4>3 DEF In
    <3>2. must_see[c] \subseteq reader_ds /\ request[c] = "queued"
      BY <1>1, <3>1 DEF ReadsSee, QueuesRight, ForReaders
    <3> QED BY <1>3, <3>1, <3>2
  <2>2. CASE packet'[r] = packet[r] /\ reader[r] # "wait"
    <3>1. PICK c \in Clients : c = packet[r]
      BY <1>1, <2>2 DEF ReadersRight
    <3>2. must_see[c] \subseteq reader_ds /\ request[c] = "queued"
      BY <1>1, <2>2, <3>1 DEF ReadsSee, ReadersRight, ForReaders
    <3>3. must_see'[c] \subseteq reader_ds'
      BY <1>3, <3>2
    <3> QED BY <2>2, <3>1, <3>3
  <2> QED BY <1>6, <2>1, <2>2, ReaderKept
<1> QED BY <1>4, <1>5, <1>6 DEF ReadsSee

-----------------------------------------------------------------------------
(* The invariant *)

\* Only the mirror publishes an id.
LEMMA ProcessFrame ==
    Next => \/ UNCHANGED <<process_unique_id>>
            \/ ProcessEvents
<1> USE DEF sessionVars
<1>1. ASSUME NEW c \in Clients, NEW k \in Kinds, Send(c, k)
      PROVE  UNCHANGED <<process_unique_id>>
  BY <1>1 DEF Send
<1>2. ASSUME NEW c \in Clients, ListenerStep(c)
      PROVE  UNCHANGED <<process_unique_id>>
  BY <1>2 DEF ListenerStep, StoreGlobal, ChooseQueue, StoreReader, Trigger,
     TriggerRefused, SetWriteUniqueId, AppendRequest, TriggerAnswer
<1>3. ASSUME NEW w \in Workers, WorkerStep(w)
      PROVE  UNCHANGED <<process_unique_id>>
  BY <1>3 DEF WorkerStep, WorkerTake, WorkerWrite, WorkerRead, SetWriteUniqueId,
     AppendRequest, WorkerAnswer
<1>4. ASSUME EventMasterStep
      PROVE  UNCHANGED <<process_unique_id>>
  BY <1>4 DEF EventMasterStep, TakeRequests, ProcessRequests, SendEvents
<1>5. ASSUME MirrorStep
      PROVE  \/ UNCHANGED <<process_unique_id>>
             \/ ProcessEvents
  BY <1>5 DEF MirrorStep, WaitForEvent, MirrorLock, MoveRequests, MirrorUnlock,
     ReleaseBusy
<1>6. ASSUME NEW r \in Readers, ReaderStep(r)
      PROVE  UNCHANGED <<process_unique_id>>
  BY <1>6 DEF ReaderStep, ReaderTake, ReaderAnswer
<1>7. ASSUME NEW u \in Users, RemoveUnused(u)
      PROVE  UNCHANGED <<process_unique_id>>
  BY <1>7 DEF RemoveUnused
<1>8. ASSUME ServeGlobalLock
      PROVE  UNCHANGED <<process_unique_id>>
  BY <1>8 DEF ServeGlobalLock
<1>9. ASSUME ServeReaderLock
      PROVE  UNCHANGED <<process_unique_id>>
  BY <1>9 DEF ServeReaderLock
<1> QED BY <1>1, <1>2, <1>3, <1>4, <1>5, <1>6, <1>7, <1>8, <1>9 DEF Next

\* The qmaster starts with one change, which both data stores hold.
LEMMA InitIInv == Init => IInv
<1> SUFFICES ASSUME Init PROVE IInv
  OBVIOUS
<1>1. 0 \in Ids /\ 1 \in 0 .. MaxId + 1
  BY MaxIdAssumption DEF Ids
<1>2. TypeOK
  <2>1. \A X : <<>> \in Seq(X)
    OBVIOUS
  <2> QED BY <1>1, <2>1 DEF Init, TypeOK, AllKinds, NoSession
<1>3. LockRight
  <2>1. /\ global_queue = <<>>
        /\ global_hold = [t \in Workers \cup {EventMaster} |-> "none"]
    BY DEF Init, GlobalLock!Init
  <2>2. global_queue \in Seq([thread : Workers \cup {EventMaster}, is_reader : BOOLEAN])
    BY <2>1
  <2> QED BY <2>1, <2>2 DEF LockRight
<1>4. ModesRight /\ WorkersRight /\ ReadersRight
  BY DEF Init, ModesRight, WorkersRight, ReadersRight
<1>5. \A c \in Clients : ~In(c, <<>>)
  BY DEF In
<1>6. Distinct(<<>>)
  BY DEF Distinct
<1>7. \A t \in Committers : commit[t] = "none"
  BY DEF Init
<1>8. QueuesRight
  BY <1>5, <1>6, <1>7 DEF Init, QueuesRight, Committers
<1>9. CommitsRight /\ \A w \in Workers : ~Pending(w)
  BY <1>7 DEF CommitsRight, Pending, Committers
<1>10. /\ InHand = {} /\ Behind = {} /\ Sent = {0} /\ Elements(event_list) = {}
       /\ ListsSorted /\ StagesOrdered
  <2>1. /\ Elements(event_list) = {} /\ Elements(new_events) = {} /\ Elements(EV_events) = {}
        /\ AddIds(batch) = {} /\ AddIds(requests) = {} /\ ListsSorted
    BY NoAdds DEF Init, ListsSorted
  <2>2. InHand = {} /\ Behind = {} /\ Sent = {0}
    BY <2>1 DEF Init, InHand, Behind, Sent
  <2> QED BY <2>1, <2>2 DEF StagesOrdered, Before
<1>11. PipelineOrdered
  BY <1>9, <1>10 DEF Init, PipelineOrdered
<1>12. PipelineComplete
  BY DEF Init, PipelineComplete
<1>13. AnswersRight
  BY UsersAssumption DEF Init, AnswersRight
<1>14. SessionsRight
  <2>1. ClientsKnown
    BY <1>7 DEF Init, ClientsKnown, Committers
  <2>2. WritesNoted
    BY <1>7 DEF Init, WritesNoted, Committers
  <2>3. ReadsSee
    BY <1>5 DEF Init, ReadsSee
  <2> QED BY <2>1, <2>2, <2>3 DEF SessionsRight
<1> QED BY <1>2, <1>3, <1>4, <1>8, <1>9, <1>11, <1>12, <1>13, <1>14 DEF IInv

\* A step that changes nothing.
LEMMA Stutters ==
    ASSUME IInv, UNCHANGED vars
    PROVE  IInv'
<1>1. UNCHANGED <<sessionVars, queueVars, threadVars, commitVars, eventVars, mirrorVars,
                  globalLock, readerLock, storeVars, clientVars>>
  BY DEF vars
<1> USE <1>1 DEF sessionVars, queueVars, threadVars, commitVars, eventVars, mirrorVars,
    globalLock, readerLock, storeVars, clientVars
<1>2. TypeOK'
  BY DEF IInv, TypeOK
<1>3. LockRight'
  BY DEF IInv, LockRight
<1>4. ModesRight'
  BY DEF IInv, ModesRight, is_only_read_request
<1>5. QueuesRight' /\ WorkersRight' /\ ReadersRight'
  <2>1. QueuesRight'
    BY DEF IInv, QueuesRight, ForWorkers, ForReaders
  <2>2. WorkersRight'
    BY DEF IInv, WorkersRight, ForWorkers
  <2>3. ReadersRight'
    BY DEF IInv, ReadersRight, ForReaders
  <2> QED BY <2>1, <2>2, <2>3
<1>6. CommitsRight' /\ \A w \in Workers : Pending(w)' <=> Pending(w)
  BY DEF IInv, CommitsRight, Pending
<1>7. PipelineOrdered' /\ PipelineComplete'
  <2>1. next_unique_id' \in {next_unique_id, next_unique_id + 1}
    OBVIOUS
  <2> QED BY <1>6, <2>1, PipelineSame
<1>8. AnswersRight'
  BY DEF IInv, AnswersRight
<1>9. SessionsRight => SessionsRight'
  BY DEF SessionsRight, ClientsKnown, WritesNoted, Noted, ReadsSee
<1> QED BY <1>2, <1>3, <1>4, <1>5, <1>6, <1>7, <1>8, <1>9 DEF IInv, SessionsReliable

\* Every step of the qmaster preserves the invariant.
LEMMA IInvStep == IInv /\ [Next]_vars => IInv'
<1>1. ASSUME IInv, Next PROVE IInv'
  <2>1. SessionsReliable => SessionsRight'
    BY <1>1, PickRight, ClientsStep, NotesStep, ReadsStep DEF SessionsRight
  <2>2. SessionsReliable' <=> SessionsReliable
    BY DEF SessionsReliable
  <2>3. TypeOK' /\ QueuesRight' /\ ReadersRight' /\ PipelineOrdered' /\ PipelineComplete'
    BY <1>1, PickRight, TypeStep, QueuesStep, ReadersStep, PipelineStep
  <2> QED BY <1>1, <2>1, <2>2, <2>3, LockStep, ModesStep, WorkersStep, CommitsStep, AnswersStep
          DEF IInv
<1> QED BY <1>1, Stutters

\* The invariant holds in every reachable state.
THEOREM Invariance == Spec => []IInv
  BY InitIInv, IInvStep, PTL DEF Spec

\* When the mirror has published an id, the READER data store holds every change
\* up to it, whatever kinds of requests are sent and whenever sessions are
\* dropped (MirrorDataStore::main, add_list_event_for_client_after_commit).
THEOREM SnapshotIsReached == Spec => []SnapshotReached
  BY Invariance, PublishedSeen, PTL

\* The published id never falls back, although set_process_unique_id just
\* overwrites it: the batches reach the mirror in the order of their ids.
THEOREM PublishedIdGrows == Spec => ProcessIdGrows
<1>1. IInv /\ [Next]_vars => process_unique_id' >= process_unique_id
  <2> SUFFICES ASSUME IInv, [Next]_vars PROVE process_unique_id' >= process_unique_id
    OBVIOUS
  <2>1. TypeOK /\ PipelineOrdered
    BY DEF IInv
  <2>2. process_unique_id \in Int
    <3>1. process_unique_id \in Ids
      BY <2>1 DEF TypeOK
    <3> QED BY <3>1, IdsAreNumbers
  <2>3. CASE UNCHANGED process_unique_id
    BY <2>2, <2>3
  <2>4. CASE ProcessEvents /\ process_unique_id' # process_unique_id
    <3>1. /\ mirror = "process" /\ event_list # <<>>
          /\ process_unique_id' = event_list[Len(event_list)]
      BY <2>4 DEF ProcessEvents
    <3>2. event_list \in Seq(Ids)
      BY <2>1 DEF TypeOK
    <3>3. Len(event_list) \in 1 .. Len(event_list) /\ process_unique_id' \in Ids
      BY <3>1, <3>2
    <3>4. process_unique_id' \in InHand
      BY <3>1, <3>3 DEF InHand, Elements
    <3>5. process_unique_id < process_unique_id'
      BY <2>1, <3>4 DEF PipelineOrdered, StagesOrdered, Before
    <3>6. process_unique_id' \in Int
      BY <3>3, IdsAreNumbers
    <3> QED BY <2>2, <3>5, <3>6
  <2>5. CASE UNCHANGED vars
    BY <2>3, <2>5 DEF vars, sessionVars
  <2> QED BY <2>3, <2>4, <2>5, ProcessFrame
<1> QED BY <1>1, Invariance, PTL DEF Spec, ProcessIdGrows

\* Where sessions are kept until the mirror has caught up, and no listener notes
\* the ids of trigger requests in them, a read sees every write of its user that
\* was answered before the read was sent (do_gdi_packet, is_uptodate,
\* update_sessions_and_move_requests).
THEOREM ReadersSeeTheirWrites ==
    ASSUME SessionsReliable PROVE Spec => []ReadYourWrites
<1>1. IInv => ReadYourWrites
  <2> SUFFICES ASSUME IInv PROVE ReadYourWrites
    OBVIOUS
  <2>1. ReadsSee /\ WorkersRight /\ AnswersRight
    BY DEF IInv, SessionsRight
  <2>2. ASSUME NEW w \in Workers, worker[w] = "process"
        PROVE  must_see[packet[w]] \subseteq global_ds
    <3>1. packet[w] \in Clients
      BY <2>1, <2>2 DEF WorkersRight
    <3>2. UserOf[packet[w]] \in Users
      BY <3>1, UsersAssumption
    <3> QED BY <2>1, <3>1, <3>2 DEF AnswersRight
  <2>3. ASSUME NEW r \in Readers, reader[r] = "process"
        PROVE  must_see[packet[r]] \subseteq reader_ds
    BY <2>1, <2>3 DEF ReadsSee
  <2> QED BY <2>2, <2>3 DEF ReadYourWrites
<1> QED BY <1>1, Invariance, PTL
=============================================================================
