-------------------------- MODULE ArrayTasksProofs --------------------------
(* Proofs about ArrayTasks, for any set of jobs, any requests and any         *)
(* configuration.                                                             *)
EXTENDS ArrayJobsProofs, FiniteSetTheorems

-----------------------------------------------------------------------------
(* Induction over numbers, and the image of a finite set.                     *)

\* A set that contains 0 and with each number the next contains all numbers.
LEMMA NatSetInduction ==
    ASSUME NEW S, 0 \in S, \A n \in Nat : n \in S => n + 1 \in S
    PROVE  Nat \subseteq S
<1> DEFINE T == {n \in Nat : n \notin S}
           R == {p \in Nat \X Nat : p[1] < p[2]}
<1>1. IsWellFoundedOn(R, Nat)
  BY NatLessThanWellFounded DEF OpToRel
<1>2. SUFFICES ASSUME T # {} PROVE FALSE
  OBVIOUS
<1>3. PICK x \in T : \A y \in T : ~(<<y, x>> \in R)
  <2> HIDE DEF R
  <2> QED BY <1>1, <1>2, WFMin, Zenon
<1>4. x # 0 /\ x - 1 \in Nat
  BY <1>3
<1>5. x - 1 \in S
  <2>1. <<x - 1, x>> \in R
    BY <1>3, <1>4
  <2>2. x - 1 \notin T
    BY <1>3, <2>1
  <2> QED BY <1>4, <2>2
<1>6. (x - 1) + 1 \in S
  BY <1>4, <1>5
<1>7. (x - 1) + 1 = x
  BY <1>3
<1> QED BY <1>3, <1>6, <1>7

\* The image of a finite set under a function is finite.
LEMMA FiniteImage ==
    ASSUME NEW S, IsFiniteSet(S), NEW g
    PROVE  IsFiniteSet({g[x] : x \in S})
<1> DEFINE T == {g[x] : x \in S}
           h == [x \in S |-> g[x]]
<1>1. h \in Surjection(S, T)
  BY DEF Surjection
<1> HIDE DEF T, h
<1>2. IsFiniteSet(T)
  BY <1>1, FS_Surjection
<1> QED BY <1>2 DEF T

-----------------------------------------------------------------------------
(* How many tasks a job has.                                                  *)

\* The ids of a job are finitely many, and those without element and all of them
\* are counted right: no id is counted twice.
LEMMA GridFinite ==
  ASSUME conf \in Confs, NEW j
  PROVE  IsFiniteSet(Grid(j))
<1>1. Lo \in Int /\ conf.hi \in Int
  BY ArrayAssumption
<1>2. IsFiniteSet(Tasks)
  BY <1>1, FS_Interval DEF Tasks
<1> QED BY <1>2, FS_Subset DEF Grid

\* job_get_not_enrolled_ja_tasks and job_get_ja_tasks count the tasks: no id is
\* counted twice, although it may be in several lists.
LEMMA CountsRight ==
  ASSUME conf \in Confs, NEW j, NEW job, IsJob(j, job), Sound(job)
  PROVE  /\ job_get_not_enrolled_ja_tasks(job) = Cardinality(Listed(job))
         /\ job_get_ja_tasks(job) = Cardinality(Present(job))
         /\ IsFiniteSet(Listed(job)) /\ IsFiniteSet(Present(job))
<1> DEFINE held == UNION {job.ids[k] : k \in Holds}
           n == job.ids["n"]
<1>1. Listed(job) = n \cup held /\ n \cap held = {}
  <2>1. Lists = {"n"} \cup Holds
    BY DEF Lists
  <2> QED BY <2>1 DEF Listed, Sound
<1>2. Present(job) \subseteq Grid(j) /\ Listed(job) \cap DOMAIN job.tasks = {}
  BY JobParts DEF Sound
<1>3. /\ IsFiniteSet(Present(job)) /\ IsFiniteSet(Listed(job)) /\ IsFiniteSet(DOMAIN job.tasks)
  BY <1>2, GridFinite, FS_Subset DEF Present
<1>4. IsFiniteSet(n) /\ IsFiniteSet(held)
  BY <1>1, <1>3, FS_Subset
<1> HIDE DEF n, held
<1>5. Cardinality(Listed(job)) = Cardinality(n) + Cardinality(held)
  <2>1. Cardinality(n \cup held) = Cardinality(n) + Cardinality(held) - Cardinality({})
    BY <1>1, <1>4, FS_Union
  <2>2. Cardinality(n) \in Nat /\ Cardinality(held) \in Nat /\ Cardinality({}) = 0
    BY <1>4, FS_CardinalityType, FS_EmptySet
  <2> QED BY <1>1, <2>1, <2>2
<1>6. Cardinality(Present(job)) = Cardinality(Listed(job)) + Cardinality(DOMAIN job.tasks)
  <2>1. Cardinality(Present(job))
          = Cardinality(Listed(job)) + Cardinality(DOMAIN job.tasks) - Cardinality({})
    BY <1>2, <1>3, FS_Union DEF Present
  <2>2. /\ Cardinality(Listed(job)) \in Nat /\ Cardinality(DOMAIN job.tasks) \in Nat
        /\ Cardinality({}) = 0
    BY <1>3, FS_CardinalityType, FS_EmptySet
  <2> QED BY <2>1, <2>2
<1>7. job_get_not_enrolled_ja_tasks(job) = Cardinality(n) + Cardinality(held)
  BY DEF job_get_not_enrolled_ja_tasks, n, held
<1> QED BY <1>3, <1>5, <1>6, <1>7 DEF job_get_ja_tasks

\* So what the code concludes from the counts is true.
LEMMA CountsAreRight ==
  ASSUME conf \in Confs
  PROVE  CountsTell
<1> SUFFICES ASSUME NEW j, NEW job, IsJob(j, job), Sound(job)
             PROVE  /\ job_get_ja_tasks(job) = 0 <=> Present(job) = {}
                    /\ job_get_not_enrolled_ja_tasks(job) = 0 <=> Listed(job) = {}
                    /\ job_get_ja_tasks(job) = 1 <=> \E t : Present(job) = {t}
  BY DEF CountsTell
<1>1. /\ job_get_not_enrolled_ja_tasks(job) = Cardinality(Listed(job))
      /\ job_get_ja_tasks(job) = Cardinality(Present(job))
      /\ IsFiniteSet(Listed(job)) /\ IsFiniteSet(Present(job))
  BY CountsRight
<1>2. Cardinality(Present(job)) = 1 <=> \E t : Present(job) = {t}
  BY <1>1, FS_Singleton, Zenon
<1>3. /\ Cardinality(Present(job)) = 0 <=> Present(job) = {}
      /\ Cardinality(Listed(job)) = 0 <=> Listed(job) = {}
  BY <1>1, FS_EmptySet
<1> QED BY <1>1, <1>2, <1>3

-----------------------------------------------------------------------------
(* The loops of qdel.                                                         *)

\* f holds the job list after each of the first n ids.
Deletes(f, n, js, j, S, enrolled) ==
  f = [t \in 0..n |-> IF t = 0 THEN js
                      ELSE IF t \notin S THEN f[t - 1]
                      ELSE IF enrolled THEN FinishedFailedEE(f[t - 1], j, t)
                      ELSE sge_bury_job(f[t - 1], j, t)]

\* Such a function exists for every number of ids.
LEMMA DeletesExist ==
  ASSUME NEW js, NEW j, NEW S, NEW enrolled, NEW n \in Nat
  PROVE  \E f : Deletes(f, n, js, j, S, enrolled)
<1> DEFINE C == {m \in Nat : \E f : Deletes(f, m, js, j, S, enrolled)}
<1>1. 0 \in C
  <2> DEFINE f == [t \in 0..0 |-> js]
  <2>1. Deletes(f, 0, js, j, S, enrolled)
    BY DEF Deletes
  <2> QED BY <2>1
<1>2. ASSUME NEW m \in C PROVE m + 1 \in C
  <2>1. PICK f : Deletes(f, m, js, j, S, enrolled)
    OBVIOUS
  <2> DEFINE e == IF m + 1 \notin S THEN f[m]
                  ELSE IF enrolled THEN FinishedFailedEE(f[m], j, m + 1)
                  ELSE sge_bury_job(f[m], j, m + 1)
             g == [t \in 0..m + 1 |-> IF t = m + 1 THEN e ELSE f[t]]
  <2>2. m \in Nat /\ m + 1 \in Nat
    OBVIOUS
  <2>3. \A t \in 0..m : g[t] = f[t] /\ t # m + 1
    BY <2>2
  <2>4. g[m + 1] = e /\ g[m] = f[m] /\ m + 1 # 0 /\ (m + 1) - 1 = m
    BY <2>2
  <2>5. ASSUME NEW t \in 0..m + 1
        PROVE  g[t] = IF t = 0 THEN js
                      ELSE IF t \notin S THEN g[t - 1]
                      ELSE IF enrolled THEN FinishedFailedEE(g[t - 1], j, t)
                      ELSE sge_bury_job(g[t - 1], j, t)
    <3>1. CASE t = m + 1
      BY <2>4, <3>1
    <3>2. CASE t # m + 1
      <4>1. t \in 0..m /\ (t # 0 => t - 1 \in 0..m)
        BY <2>2, <3>2
      <4>2. f[t] = IF t = 0 THEN js
                   ELSE IF t \notin S THEN f[t - 1]
                   ELSE IF enrolled THEN FinishedFailedEE(f[t - 1], j, t)
                   ELSE sge_bury_job(f[t - 1], j, t)
        BY <2>1, <4>1 DEF Deletes
      <4> HIDE DEF g
      <4> QED BY <2>3, <4>1, <4>2
    <3> QED BY <3>1, <3>2, Zenon
  <2>6. g = [t \in 0..m + 1 |-> g[t]]
    OBVIOUS
  <2> HIDE DEF g
  <2>7. Deletes(g, m + 1, js, j, S, enrolled)
    BY <2>5, <2>6, Zenon DEF Deletes
  <2> QED BY <2>2, <2>7
<1>3. Nat \subseteq C
  <2> HIDE DEF C
  <2> QED BY <1>1, <1>2, NatSetInduction
<1> QED BY <1>3

\* DeleteTasks is the last value of such a function.
LEMMA DeleteTasksIs ==
  ASSUME conf \in Confs, NEW js, NEW j, NEW S, NEW enrolled
  PROVE  \E f : /\ Deletes(f, conf.hi, js, j, S, enrolled)
                /\ DeleteTasks(js, j, S, enrolled) = f[conf.hi]
<1> DEFINE f == CHOOSE g : g = [t \in 0..conf.hi |->
                    IF t = 0 THEN js
                    ELSE IF t \notin S THEN g[t - 1]
                    ELSE IF enrolled THEN FinishedFailedEE(g[t - 1], j, t)
                    ELSE sge_bury_job(g[t - 1], j, t)]
<1>1. conf.hi \in Nat
  BY ArrayAssumption
<1>2. \E g : Deletes(g, conf.hi, js, j, S, enrolled)
  BY <1>1, DeletesExist
<1>3. Deletes(f, conf.hi, js, j, S, enrolled)
  BY <1>2, Zenon DEF Deletes
<1>4. DeleteTasks(js, j, S, enrolled) = f[conf.hi]
  BY DEF DeleteTasks
<1> HIDE DEF f
<1> QED BY <1>3, <1>4

\* The tasks that ended, with the tasks P of job j.
EndedAll(E, j, P) == [E EXCEPT ![j] = @ \cup P]

\* One more of them.
LEMMA EndedMore ==
  ASSUME NEW E, E \in [Jobs -> SUBSET Tasks], NEW j \in Jobs, NEW P, NEW F, F = EndedAll(E, j, P),
         NEW t, NEW Q, Q = P \cup {t}
  PROVE  F[j] = E[j] \cup P /\ EndedToo(F, j, t) = EndedAll(E, j, Q)
<1>1. F = [i \in Jobs |-> IF i = j THEN E[i] \cup P ELSE E[i]]
  BY DEF EndedAll
<1>2. EndedAll(E, j, Q) = [i \in Jobs |-> IF i = j THEN E[i] \cup (P \cup {t}) ELSE E[i]]
  BY DEF EndedAll
<1>3. EndedToo(F, j, t) = [i \in Jobs |-> IF i = j THEN (E[i] \cup P) \cup {t} ELSE E[i]]
  BY <1>1 DEF EndedToo
<1>4. (E[j] \cup P) \cup {t} = E[j] \cup (P \cup {t})
  OBVIOUS
<1>5. F[j] = E[j] \cup P
  BY <1>1
<1> QED BY <1>2, <1>3, <1>4, <1>5

\* A loop over tasks that did not end ends them, and nothing else.
LEMMA LoopRight ==
  ASSUME conf \in Confs, NEW js, NEW sub, NEW E, NEW T, JobsRight(js, sub, E, T),
         NEW j \in sub, NEW S \in SUBSET (Grid(j) \ E[j]), NEW enrolled \in BOOLEAN,
         enrolled /\ j \in DOMAIN js => S \cap Listed(js[j]) = {},
         NEW ks, ks = DeleteTasks(js, j, S, enrolled)
  PROVE  JobsRight(ks, sub, EndedAll(E, j, S), T) /\ Later(js, ks)
<1>0. j \in Jobs /\ conf.hi \in Nat /\ Grid(j) \subseteq 1..conf.hi
  <2>1. conf.jobs \subseteq Jobs /\ conf.hi \in Nat /\ Lo \in Nat \ {0}
    BY ArrayAssumption
  <2> QED BY <2>1 DEF JobsRight, Grid, Tasks
<1>1. CountsTell
  BY CountsAreRight
<1>2. PICK f : Deletes(f, conf.hi, js, j, S, enrolled) /\ ks = f[conf.hi]
  BY DeleteTasksIs
<1> DEFINE C == {m \in Nat : m <= conf.hi =>
                   JobsRight(f[m], sub, EndedAll(E, j, S \cap (1..m)), T) /\ Later(js, f[m])}
<1>3. 0 \in C
  <2>1. f[0] = js
    BY <1>0, <1>2 DEF Deletes
  <2>2. EndedAll(E, j, S \cap (1..0)) = E
    BY <1>0 DEF EndedAll, JobsRight
  <2>3. Later(js, js)
    BY DEF Later
  <2> QED BY <2>1, <2>2, <2>3
<1>4. ASSUME NEW m \in C PROVE m + 1 \in C
  <2>1. m \in Nat /\ m + 1 \in Nat /\ (m + 1) - 1 = m /\ m + 1 # 0
    OBVIOUS
  <2>2. SUFFICES ASSUME m + 1 <= conf.hi
                 PROVE  /\ JobsRight(f[m + 1], sub, EndedAll(E, j, S \cap (1..m + 1)), T)
                        /\ Later(js, f[m + 1])
    BY <2>1
  <2>3. PICK ms, F, t : /\ ms = f[m] /\ t = m + 1
                        /\ F = EndedAll(E, j, S \cap (1..m))
    OBVIOUS
  <2>4. JobsRight(ms, sub, F, T) /\ Later(js, ms)
    BY <1>0, <2>1, <2>2, <2>3
  <2>5. f[t] = IF t \notin S THEN ms
               ELSE IF enrolled THEN FinishedFailedEE(ms, j, t)
               ELSE sge_bury_job(ms, j, t)
    <3>1. t \in 0..conf.hi /\ t # 0 /\ t - 1 = m
      BY <1>0, <2>1, <2>2, <2>3
    <3> QED BY <1>2, <2>3, <3>1, Zenon DEF Deletes
  <2>6. CASE t \notin S
    <3>1. S \cap (1..m + 1) = S \cap (1..m)
      BY <2>1, <2>3, <2>6
    <3> QED BY <2>3, <2>4, <2>5, <2>6, <3>1, Zenon
  <2>7. CASE t \in S
    <3>1. PICK P, Q : P = S \cap (1..m) /\ Q = S \cap (1..m + 1)
      OBVIOUS
    <3>2. Q = P \cup {t} /\ F = EndedAll(E, j, P) /\ E \in [Jobs -> SUBSET Tasks]
      <4>1. Q = P \cup {t}
        BY <2>1, <2>3, <2>7, <3>1
      <4> QED BY <2>3, <3>1, <4>1 DEF JobsRight
    <3>3. F[j] = E[j] \cup P /\ EndedToo(F, j, t) = EndedAll(E, j, Q)
      BY <1>0, <3>2, EndedMore
    <3>4. t \notin F[j] /\ t \in Grid(j)
      BY <2>1, <2>3, <2>7, <3>1, <3>3
    <3>5. enrolled /\ j \in DOMAIN ms => t \notin Listed(ms[j])
      BY <2>4, <2>7, Zenon DEF Later
    <3>6. PICK ls, G : ls = WithoutTask(ms, j, t, enrolled) /\ G = EndedToo(F, j, t)
      BY Zenon
    <3>7. JobsRight(ls, sub, G, T) /\ Later(ms, ls)
      <4>1. Deletable(ms, F, j, t, enrolled)
        BY <3>4, <3>5, Zenon DEF Deletable
      <4> QED BY <1>1, <2>4, <3>6, <4>1, DeleteRight, Zenon
    <3>8. Later(js, ls)
      BY <2>4, <3>7, LaterTwice
    <3>9. f[m + 1] = ls
      BY <2>3, <2>5, <2>7, <3>6 DEF WithoutTask
    <3> QED BY <3>1, <3>3, <3>6, <3>7, <3>8, <3>9
  <2> QED BY <2>6, <2>7
<1>5. Nat \subseteq C
  <2> HIDE DEF C
  <2> QED BY <1>3, <1>4, NatSetInduction
<1>6. S \cap (1..conf.hi) = S
  BY <1>0
<1> QED BY <1>0, <1>2, <1>5, <1>6

\* qdel: the tasks that the two loops reach have ended.
LEMMA QdelRight ==
  ASSUME conf \in Confs, NEW js, NEW sub, NEW E, NEW T, JobsRight(js, sub, E, T),
         NEW j \in DOMAIN js, NEW R, NEW stop,
         NEW ks, ks = sge_delete_all_tasks_of_job(js, j, R, stop),
         NEW F, F = [E EXCEPT ![j] = @ \cup ((Unfinished(js, j) \ Unfinished(ks, j)) \cap R)]
  PROVE  JobsRight(ks, sub, F, T) /\ Later(js, ks)
<1>1. /\ j \in sub /\ j \in Jobs /\ TasksRight(j, js[j], E[j], T[j])
      /\ E \in [Jobs -> SUBSET Tasks]
  <2>1. conf.jobs \subseteq Jobs
    BY ArrayAssumption
  <2> QED BY <2>1 DEF JobsRight, JobRight
<1>2. PICK job, E0, T0 : job = js[j] /\ E0 = E[j] /\ T0 = T[j]
  OBVIOUS
<1>3. PICK pending, idle : pending = Reached(job, R) /\ idle = Idle(job, R, stop)
  BY Zenon
<1>4. /\ pending \subseteq R /\ pending \subseteq Grid(j) \ E[j]
      /\ idle \subseteq R /\ idle \subseteq Grid(j) \ E[j]
      /\ idle \cap Listed(js[j]) = {} /\ pending \cap idle = {}
  <2>1. TasksRight(j, job, E0, T0)
    BY <1>1, <1>2
  <2>2. Apart(j, job, E0, R, pending, idle)
    BY <1>3, <2>1, QdelSets, Zenon
  <2> QED BY <1>2, <2>2 DEF Apart
<1>5. PICK ms, G : ms = DeleteTasks(js, j, pending, FALSE) /\ G = EndedAll(E, j, pending)
  BY Zenon
<1>6. JobsRight(ms, sub, G, T) /\ Later(js, ms)
  BY <1>1, <1>4, <1>5, LoopRight, Zenon
<1>7. G[j] = E[j] \cup pending /\ idle \in SUBSET (Grid(j) \ G[j])
  BY <1>1, <1>4, <1>5 DEF EndedAll
<1>8. j \in DOMAIN ms => idle \cap Listed(ms[j]) = {}
  BY <1>4, <1>6, Zenon DEF Later
<1>9. ks = DeleteTasks(ms, j, idle, TRUE)
  BY <1>2, <1>3, <1>5, Zenon DEF sge_delete_all_tasks_of_job, Idle
<1>10. PICK H : H = EndedAll(G, j, idle)
  OBVIOUS
<1>11. JobsRight(ks, sub, H, T) /\ Later(ms, ks)
  BY <1>1, <1>6, <1>7, <1>8, <1>9, <1>10, LoopRight, Zenon
<1>12. H[j] = E[j] \cup pending \cup idle /\ H = EndedAll(E, j, pending \cup idle)
  BY <1>1, <1>5, <1>7, <1>10, Zenon DEF EndedAll
<1>13. Unfinished(js, j) = Grid(j) \ E[j] /\ Unfinished(ks, j) = Grid(j) \ H[j]
  <2>1. Unfinished(js, j) = Grid(j) \ E[j]
    BY <1>1, UnfinishedIs
  <2>2. Unfinished(ks, j) = Grid(j) \ H[j]
    BY <1>1, <1>11, UnfinishedIs
  <2> QED BY <2>1, <2>2
<1>14. (Unfinished(js, j) \ Unfinished(ks, j)) \cap R = pending \cup idle
  BY <1>4, <1>12, <1>13, Zenon
<1>15. F = H
  BY <1>12, <1>14, Zenon DEF EndedAll
<1> QED BY <1>6, <1>11, <1>15, LaterTwice, Zenon

-----------------------------------------------------------------------------
(* The steps.                                                                 *)

\* The configuration does not change, and with it what makes a job right.
LEMMA RightNext ==
  ASSUME conf' = conf, NEW js, NEW sub, NEW E, NEW T, JobsRight(js, sub, E, T)
  PROVE  JobsRight(js, sub, E, T)'
<1>1. Tasks' = Tasks /\ \A j : Grid(j)' = Grid(j)
  BY DEF Grid, Tasks
<1>2. ASSUME NEW j, NEW job, IsJob(j, job) PROVE IsJob(j, job)'
  BY <1>1, <1>2 DEF IsJob
<1>3. ASSUME NEW j, NEW job, NEW D, NEW H, JobRight(j, job, D, H) PROVE JobRight(j, job, D, H)'
  BY <1>1, <1>2, <1>3 DEF JobRight, TasksRight
<1>4. Linked(js, {})'
  <2>1. ASSUME NEW j, NEW t PROVE OpenRange(j, t)' = OpenRange(j, t)
    BY <1>1 DEF OpenRange, sge_task_depend_get_range
  <2>2. ASSUME NEW j, NEW job, HoldsGone(j, job) PROVE HoldsGone(j, job)'
    BY <2>1, <2>2 DEF HoldsGone
  <2>3. Linked(js, {})
    BY DEF JobsRight
  <2> QED BY <2>2, <2>3 DEF Linked
<1> QED BY <1>1, <1>3, <1>4 DEF JobsRight

\* The new values of the job list and the history, as parameters.
LEMMA RightNew ==
  ASSUME conf' = conf, NEW js, NEW sub, NEW E, NEW T, JobsRight(js, sub, E, T),
         jobs' = js, submitted' = sub, ended' = E, told' = T
  PROVE  JobsRight(jobs, submitted, ended, told)'
<1>1. JobsRight(js, sub, E, T)'
  BY RightNext
<1> QED BY <1>1

\* The orders S, of which some may be obsolete, fit the job list js.
OrdersOK(js, S, sub, E, T) ==
  /\ S \subseteq [job : Jobs, task : Tasks, old : BOOLEAN]
  /\ IsFiniteSet(S) /\ Cardinality(Ordered(S)) <= conf.start
  /\ \A o \in S :
       /\ o.job \in sub /\ o.task \in Grid(o.job)
       /\ ~o.old /\ o.job \in DOMAIN js =>
            /\ js[o.job].jid = {}
            /\ o.task \notin E[o.job] => T[o.job][o.task] = {}

\* What the users were told is about the tasks of a job, and nothing has
\* happened to a job that was not submitted.
HistoryOK(sub, E, T) ==
  /\ T = [j \in Jobs |-> T[j]]
  /\ \A j \in Jobs : T[j] \in [Grid(j) -> SUBSET {"u", "o", "s"}]
  /\ \A j \in Jobs \ sub : E[j] = {} /\ T[j] = [t \in Grid(j) |-> {}]

\* The invariant in these terms, in a state and in the next one.
LEMMA InvParts ==
  ASSUME IInv
  PROVE  /\ conf \in Confs /\ ops \in 0..conf.ops /\ faults \in 0..conf.faults
         /\ JobsRight(jobs, submitted, ended, told)
         /\ OrdersOK(jobs, orders, submitted, ended, told)
         /\ HistoryOK(submitted, ended, told)
<1>1. TypeOK /\ OrdersRight /\ NoHistory /\ JobsRight(jobs, submitted, ended, told)
  BY DEF IInv
<1>2. OrdersOK(jobs, orders, submitted, ended, told)
  BY <1>1 DEF TypeOK, OrdersRight, OrdersOK
<1>3. HistoryOK(submitted, ended, told)
  BY <1>1 DEF TypeOK, NoHistory, HistoryOK
<1>4. conf \in Confs /\ ops \in 0..conf.ops /\ faults \in 0..conf.faults
  BY <1>1 DEF TypeOK
<1> QED BY <1>1, <1>2, <1>3, <1>4

\* The parts make up the invariant of the next state.
LEMMA InvNext ==
  ASSUME conf \in Confs, conf' = conf, ops' \in 0..conf.ops, faults' \in 0..conf.faults,
         NEW js, NEW S, NEW sub, NEW E, NEW T,
         JobsRight(js, sub, E, T), OrdersOK(js, S, sub, E, T), HistoryOK(sub, E, T),
         jobs' = js, orders' = S, submitted' = sub, ended' = E, told' = T
  PROVE  IInv'
<1>1. Tasks' = Tasks /\ \A j : Grid(j)' = Grid(j)
  BY DEF Grid, Tasks
<1>2. JobsRight(jobs, submitted, ended, told)'
  BY RightNew
<1>3. OrdersRight'
  BY <1>1 DEF OrdersRight, OrdersOK
<1>4. NoHistory'
  BY <1>1 DEF NoHistory, HistoryOK
<1>5. \A j \in DOMAIN js : IsJob(j, js[j])'
  <2>1. \A j \in DOMAIN js : IsJob(j, js[j])
    BY DEF JobsRight, JobRight, TasksRight
  <2>2. ASSUME NEW j, NEW job, IsJob(j, job) PROVE IsJob(j, job)'
    BY <1>1, <2>2 DEF IsJob
  <2> QED BY <2>1, <2>2
<1>6. TypeOK'
  <2>1. conf' \in Confs /\ sub \subseteq conf'.jobs /\ DOMAIN js \subseteq sub
    BY DEF JobsRight
  <2>2. js = [j \in DOMAIN js |-> js[j]]
    BY DEF JobsRight
  <2>3. /\ S \subseteq [job : Jobs, task : Tasks', old : BOOLEAN]
        /\ IsFiniteSet(S) /\ Cardinality(Ordered(S)) <= conf'.start
    BY <1>1 DEF OrdersOK
  <2>4. E \in [Jobs -> SUBSET Tasks'] /\ \A j \in Jobs : E[j] \subseteq Grid(j)'
    BY <1>1 DEF JobsRight
  <2>5. T = [j \in Jobs |-> T[j]] /\ \A j \in Jobs : T[j] \in [Grid(j)' -> SUBSET {"u", "o", "s"}]
    BY <1>1 DEF HistoryOK
  <2>6. ops' \in 0..conf'.ops /\ faults' \in 0..conf'.faults
    OBVIOUS
  <2> QED BY <1>5, <2>1, <2>2, <2>3, <2>4, <2>5, <2>6 DEF TypeOK
<1> QED BY <1>2, <1>3, <1>4, <1>6 DEF IInv

\* The tasks of finitely many orders are not more than the orders.
LEMMA OrderedCount ==
  ASSUME NEW S, IsFiniteSet(S)
  PROVE  IsFiniteSet(Ordered(S)) /\ Cardinality(Ordered(S)) <= Cardinality(S)
<1> DEFINE f == [o \in S |-> <<o.job, o.task>>]
<1>1. f \in Surjection(S, Ordered(S))
  BY DEF Surjection, Ordered
<1> QED BY <1>1, FS_Surjection

\* Fewer orders, a later list and more tasks that ended.
LEMMA OrdersLater ==
  ASSUME conf \in Confs, NEW js, NEW S, NEW sub, NEW E, NEW T, OrdersOK(js, S, sub, E, T),
         sub \subseteq Jobs, NEW R \in SUBSET S, NEW ks, DOMAIN ks \subseteq DOMAIN js,
         \A i \in DOMAIN ks : ks[i].jid \subseteq js[i].jid,
         NEW F, \A i \in Jobs : E[i] \subseteq F[i]
  PROVE  OrdersOK(ks, R, sub, F, T)
<1>1. IsFiniteSet(R) /\ IsFiniteSet(Ordered(S))
  BY OrderedCount, FS_Subset DEF OrdersOK
<1>2. Ordered(R) \subseteq Ordered(S)
  BY DEF Ordered
<1>3. Cardinality(Ordered(R)) <= conf.start
  <2>1. Cardinality(Ordered(R)) <= Cardinality(Ordered(S)) /\ Cardinality(Ordered(S)) <= conf.start
    BY <1>1, <1>2, FS_Subset DEF OrdersOK
  <2>2. Cardinality(Ordered(R)) \in Nat /\ Cardinality(Ordered(S)) \in Nat /\ conf.start \in Nat
    BY <1>1, <1>2, FS_Subset, FS_CardinalityType, ArrayAssumption
  <2> QED BY <2>1, <2>2
<1> QED BY <1>1, <1>3 DEF OrdersOK

\* What StartsFree says of one step.
StartsRight ==
  \A j \in Jobs, t \in Tasks : Starts(j, t) =>
    /\ told[j][t] = {} /\ t \notin ended[j]
    /\ \A p \in conf.jid[j] : ended[p] = Grid(p)

\* Nothing starts from js to ks.
Quiet(js, ks) ==
  \A i \in DOMAIN js \cap DOMAIN ks : \A x \in DOMAIN ks[i].tasks :
    ks[i].tasks[x].status = "running" =>
      x \in DOMAIN js[i].tasks /\ js[i].tasks[x].status = "running"

\* A step without a start.
LEMMA QuietStep ==
  ASSUME NEW js, NEW ks, js = jobs, jobs' = ks, Quiet(js, ks)
  PROVE  StartsRight
BY DEF StartsRight, Starts, Running, Quiet

\* More tasks have ended, of jobs that were submitted.
Grown(sub, E, F) == \A i \in Jobs : E[i] \subseteq F[i] /\ (i \notin sub => F[i] = E[i])

\* No job is new and none waits for more jobs than before.
Fewer(js, ks) == DOMAIN ks \subseteq DOMAIN js /\ \A i \in DOMAIN ks : ks[i].jid \subseteq js[i].jid

\* A step after which tasks have ended and orders are followed or given up.
LEMMA StepRight ==
  ASSUME IInv, conf' = conf, ops' \in 0..conf.ops, faults' \in 0..conf.faults,
         NEW js, NEW S, NEW sub, NEW E, NEW T,
         js = jobs, S = orders, sub = submitted, E = ended, T = told,
         NEW ks, NEW R, NEW F,
         JobsRight(ks, sub, F, T), Fewer(js, ks), Grown(sub, E, F), R \subseteq S,
         jobs' = ks, orders' = R, submitted' = sub, ended' = F, told' = T
  PROVE  IInv'
<1>1. /\ conf \in Confs /\ JobsRight(js, sub, E, T) /\ OrdersOK(js, S, sub, E, T)
      /\ HistoryOK(sub, E, T)
  BY InvParts
<1>2. sub \subseteq Jobs
  <2>1. conf.jobs \subseteq Jobs
    BY <1>1, ArrayAssumption
  <2> QED BY <1>1, <2>1 DEF JobsRight
<1>3. OrdersOK(ks, R, sub, F, T)
  <2>1. /\ R \in SUBSET S /\ DOMAIN ks \subseteq DOMAIN js
        /\ \A i \in DOMAIN ks : ks[i].jid \subseteq js[i].jid
        /\ \A i \in Jobs : E[i] \subseteq F[i]
    BY DEF Fewer, Grown
  <2> QED BY <1>1, <1>2, <2>1, OrdersLater
<1>4. HistoryOK(sub, F, T)
  BY <1>1 DEF HistoryOK, Grown
<1> QED BY <1>1, <1>3, <1>4, InvNext

\* Such a step without a start.
LEMMA LaterStep ==
  ASSUME IInv, conf' = conf, ops' \in 0..conf.ops, faults' \in 0..conf.faults,
         NEW js, NEW S, NEW sub, NEW E, NEW T,
         js = jobs, S = orders, sub = submitted, E = ended, T = told,
         NEW ks, NEW F,
         JobsRight(ks, sub, F, T), Later(js, ks), Grown(sub, E, F),
         jobs' = ks, orders' = S, submitted' = sub, ended' = F, told' = T
  PROVE  IInv' /\ StartsRight
<1>1. Fewer(js, ks) /\ Quiet(js, ks) /\ S \subseteq S
  BY DEF Fewer, Later, Quiet
<1>2. IInv'
  BY <1>1, StepRight
<1>3. StartsRight
  BY <1>1, QuietStep
<1> QED BY <1>2, <1>3

\* The report that a task exited.
LEMMA FinishStep ==
  ASSUME IInv, NEW j \in DOMAIN jobs, NEW t, Finish(j, t)
  PROVE  IInv' /\ StartsRight
<1>1. PICK js, S, sub, E, T, ks, F :
        /\ js = jobs /\ S = orders /\ sub = submitted /\ E = ended /\ T = told
        /\ ks = FinishedFailedEE(js, j, t) /\ F = EndedToo(E, j, t)
  OBVIOUS
<1>2. /\ conf \in Confs /\ ops \in 0..conf.ops /\ faults \in 0..conf.faults
      /\ JobsRight(js, sub, E, T) /\ j \in DOMAIN js
  BY <1>1, InvParts
<1>3. t \in DOMAIN js[j].tasks \ E[j]
  <2>1. t \in DOMAIN js[j].tasks /\ js[j].tasks[t].status = "running"
    BY <1>1 DEF Finish, Running
  <2> QED BY <1>2, <2>1 DEF JobsRight, JobRight, TasksRight
<1>4. JobsRight(ks, sub, F, T) /\ Later(js, ks)
  <2>1. conf \in Confs /\ CountsTell /\ JobsRight(js, sub, E, T) /\ j \in DOMAIN js
    BY <1>2, CountsAreRight
  <2>2. ks = FinishedFailedEE(js, j, t) /\ F = EndedToo(E, j, t)
    BY <1>1
  <2> QED BY <1>3, <2>1, <2>2, FinishedRight, Zenon
<1>5. /\ jobs' = ks /\ ended' = F
      /\ orders' = S /\ submitted' = sub /\ told' = T /\ UNCHANGED <<conf, ops, faults>>
  BY <1>1 DEF Finish, EndedToo
<1>6. Grown(sub, E, F)
  BY <1>1, <1>2 DEF JobsRight, EndedToo, Grown
<1>7. ops' \in 0..conf.ops /\ faults' \in 0..conf.faults
  BY <1>2, <1>5
<1> QED BY <1>1, <1>4, <1>5, <1>6, <1>7, LaterStep

\* qdel.
LEMMA QdelStep ==
  ASSUME IInv, NEW j \in DOMAIN jobs, NEW R, NEW stop, Qdel(j, R, stop)
  PROVE  IInv' /\ StartsRight
<1>1. PICK js, S, sub, E, T, ks :
        /\ js = jobs /\ S = orders /\ sub = submitted /\ E = ended /\ T = told
        /\ ks = sge_delete_all_tasks_of_job(js, j, R, stop)
  OBVIOUS
<1>2. PICK F : F = [E EXCEPT ![j] = @ \cup ((Unfinished(js, j) \ Unfinished(ks, j)) \cap R)]
  BY Zenon
<1>3. /\ conf \in Confs /\ ops \in 0..conf.ops /\ faults \in 0..conf.faults
      /\ JobsRight(js, sub, E, T) /\ j \in DOMAIN js
  BY <1>1, InvParts
<1>4. JobsRight(ks, sub, F, T) /\ Later(js, ks)
  BY <1>1, <1>2, <1>3, QdelRight, Zenon
<1>5. /\ jobs' = ks /\ ops < conf.ops /\ ops' = ops + 1
      /\ orders' = S /\ submitted' = sub /\ told' = T /\ UNCHANGED <<conf, faults>>
  BY <1>1 DEF Qdel
<1>6. ended' = F
  <2>1. ended' = [ended EXCEPT ![j] = @ \cup ((Unfinished(jobs, j) \ Unfinished(jobs', j)) \cap R)]
    BY DEF Qdel
  <2>2. Unfinished(jobs', j) = Unfinished(ks, j)
    BY <1>5
  <2> QED BY <1>1, <1>2, <2>1, <2>2
<1>7. ops' \in 0..conf.ops /\ faults' \in 0..conf.faults
  <2>1. conf.ops \in Nat
    BY <1>3, ArrayAssumption
  <2> QED BY <1>3, <1>5, <2>1
<1>8. Grown(sub, E, F)
  BY <1>2, <1>3 DEF JobsRight, Grown
<1> QED BY <1>1, <1>4, <1>5, <1>6, <1>7, <1>8, LaterStep

\* The sweep.
LEMMA SweepStep ==
  ASSUME IInv, Sweep
  PROVE  IInv' /\ StartsRight
<1>1. PICK js, S, sub, E, T :
        js = jobs /\ S = orders /\ sub = submitted /\ E = ended /\ T = told
  OBVIOUS
<1>2. /\ conf \in Confs /\ ops \in 0..conf.ops /\ faults \in 0..conf.faults
      /\ JobsRight(js, sub, E, T)
  BY <1>1, InvParts
<1>3. PICK kept :
        kept = UNION {{j} \X {t \in DOMAIN js[j].tasks : js[j].tasks[t].status = "finished"} :
                        j \in DOMAIN js}
  BY Zenon
<1>4. PICK G \in SUBSET kept : jobs' = Pruned(js, G)
  <2>1. \E G \in SUBSET kept \ {{}} : jobs' = Pruned(js, G)
    BY <1>1, <1>3 DEF Sweep
  <2> QED BY <2>1
<1>5. PICK ks : ks = Pruned(js, G)
  OBVIOUS
<1>6. ASSUME NEW j \in DOMAIN js, NEW t \in DOMAIN js[j].tasks, <<j, t>> \in G PROVE t \in E[j]
  <2>1. js[j].tasks[t].status = "finished"
    BY <1>3, <1>6
  <2> QED BY <1>2, <2>1 DEF JobsRight, JobRight, TasksRight
<1>7. JobsRight(ks, sub, E, T) /\ Later(js, ks)
  <2>1. conf.retention
    BY Zenon DEF Sweep
  <2>2. CountsTell
    BY <1>2, CountsAreRight
  <2> QED BY <1>2, <1>5, <1>6, <2>1, <2>2, PrunedRight, Zenon
<1>8. /\ jobs' = ks /\ orders' = S /\ submitted' = sub /\ ended' = E /\ told' = T
      /\ UNCHANGED <<conf, ops, faults>>
  BY <1>1, <1>4, <1>5 DEF Sweep
<1>9. ops' \in 0..conf.ops /\ faults' \in 0..conf.faults /\ Grown(sub, E, E)
  BY <1>2, <1>8 DEF Grown
<1> QED BY <1>1, <1>7, <1>8, <1>9, LaterStep

\* qsub.
LEMMA SubmitStep ==
  ASSUME IInv, NEW j \in Jobs, Submit(j)
  PROVE  IInv' /\ StartsRight
<1>1. PICK js, S, sub, E, T :
        js = jobs /\ S = orders /\ sub = submitted /\ E = ended /\ T = told
  OBVIOUS
<1>2. /\ conf \in Confs /\ ops \in 0..conf.ops /\ faults \in 0..conf.faults
      /\ JobsRight(js, sub, E, T) /\ OrdersOK(js, S, sub, E, T) /\ HistoryOK(sub, E, T)
  BY <1>1, InvParts
<1>3. PICK ks : ks = WithJob(js, j)
  OBVIOUS
<1>4. /\ j \in conf.jobs \ sub /\ conf.jid[j] \cup conf.ad[j] \subseteq sub
      /\ jobs' = ks /\ submitted' = sub \cup {j}
      /\ UNCHANGED <<orders, conf, ended, told, ops, faults>>
  BY <1>1, <1>3, Zenon DEF Submit, NewJob, WithJob
<1>5. E[j] = {} /\ T[j] = NoHolds(j)
  BY <1>2, <1>4 DEF HistoryOK, NoHolds
<1>6. /\ JobsRight(ks, sub \cup {j}, E, T)
      /\ DOMAIN ks = DOMAIN js \cup {j} /\ j \notin DOMAIN js
      /\ SameJobs(js, ks)
  <2>1. conf \in Confs /\ MaySubmit(js, sub, E, T, j)
    BY <1>2, <1>4, <1>5, Zenon DEF MaySubmit
  <2>2. Submitted(js, sub, E, T, j, ks)
    BY <1>3, <2>1, SubmitRight, Zenon
  <2> QED BY <2>2, Zenon DEF Submitted
<1>7. OrdersOK(ks, S, sub \cup {j}, E, T)
  <2>1. \A o \in S : o.job \in sub /\ o.job # j
    BY <1>2, <1>4, Zenon DEF OrdersOK
  <2> QED BY <1>2, <1>6, <2>1, Zenon DEF OrdersOK, SameJobs
<1>8. HistoryOK(sub \cup {j}, E, T)
  BY <1>2 DEF HistoryOK
<1>9. IInv'
  <2>1. PICK sub2 : sub2 = sub \cup {j}
    BY Zenon
  <2> QED BY <1>1, <1>2, <1>4, <1>6, <1>7, <1>8, <2>1, InvNext, Zenon
<1>10. Quiet(js, ks)
  BY <1>6, Zenon DEF Quiet, SameJobs, SameTasks
<1> QED BY <1>1, <1>4, <1>9, <1>10, QuietStep

\* A scheduler run: the users have no hold on a task it takes.
LEMMA ScheduleStep ==
  ASSUME IInv, Schedule
  PROVE  IInv' /\ StartsRight
<1>1. PICK js, sub, E, T : js = jobs /\ sub = submitted /\ E = ended /\ T = told
  OBVIOUS
<1>2. /\ conf \in Confs /\ ops \in 0..conf.ops /\ faults \in 0..conf.faults
      /\ JobsRight(js, sub, E, T) /\ HistoryOK(sub, E, T)
  BY <1>1, InvParts
<1>3. PICK pending :
        pending = UNION {{[job |-> j, task |-> t, old |-> FALSE] : t \in Pending(js[j])} :
                           j \in DOMAIN js}
  BY Zenon
<1>4. PICK S \in SUBSET pending :
        IsFiniteSet(S) /\ Cardinality(S) <= conf.start /\ orders' = S
  <2>1. pending = UNION {{[job |-> j, task |-> t, old |-> FALSE] : t \in Pending(jobs[j])} :
                           j \in DOMAIN jobs}
    BY <1>1, <1>3
  <2> QED BY <2>1, Zenon DEF Schedule
<1>5. UNCHANGED <<jobs, conf, submitted, ended, told, ops, faults>>
  BY DEF Schedule
<1>6. ASSUME NEW j \in DOMAIN js, NEW t \in Pending(js[j])
      PROVE  t \in Grid(j) /\ js[j].jid = {} /\ (t \notin E[j] => T[j][t] = {})
  <2>1. TasksRight(j, js[j], E[j], T[j])
    BY <1>2 DEF JobsRight, JobRight
  <2> QED BY <2>1, PendingFree, Zenon
<1>7. \A o \in S : \E j \in DOMAIN js : \E t \in Pending(js[j]) :
                     o = [job |-> j, task |-> t, old |-> FALSE]
  BY <1>3
<1>8. OrdersOK(js, S, sub, E, T)
  <2>1. DOMAIN js \subseteq Jobs /\ DOMAIN js \subseteq sub
    <3>1. conf.jobs \subseteq Jobs
      BY <1>2, ArrayAssumption
    <3> QED BY <1>2, <3>1 DEF JobsRight
  <2>2. \A j : Grid(j) \subseteq Tasks
    BY DEF Grid
  <2>3. S \subseteq [job : Jobs, task : Tasks, old : BOOLEAN]
    <3>1. SUFFICES ASSUME NEW o \in S PROVE o \in [job : Jobs, task : Tasks, old : BOOLEAN]
      OBVIOUS
    <3>2. PICK j \in DOMAIN js : \E t \in Pending(js[j]) : o = [job |-> j, task |-> t, old |-> FALSE]
      BY <1>7
    <3>3. PICK t \in Pending(js[j]) : o = [job |-> j, task |-> t, old |-> FALSE]
      BY <3>2, Zenon
    <3>4. j \in Jobs /\ t \in Tasks
      BY <1>6, <2>1, <2>2
    <3> QED BY <3>3, <3>4
  <2>4. Cardinality(Ordered(S)) <= conf.start
    <3>1. IsFiniteSet(Ordered(S)) /\ Cardinality(Ordered(S)) <= Cardinality(S)
      BY <1>4, OrderedCount
    <3>2. Cardinality(Ordered(S)) \in Nat /\ Cardinality(S) \in Nat /\ conf.start \in Nat
      BY <1>2, <1>4, <3>1, FS_CardinalityType, ArrayAssumption
    <3> QED BY <1>4, <3>1, <3>2
  <2>5. \A o \in S : /\ o.job \in sub /\ o.task \in Grid(o.job)
                     /\ js[o.job].jid = {} /\ (o.task \notin E[o.job] => T[o.job][o.task] = {})
    <3> SUFFICES ASSUME NEW o \in S
                 PROVE  /\ o.job \in sub /\ o.task \in Grid(o.job)
                        /\ js[o.job].jid = {}
                        /\ (o.task \notin E[o.job] => T[o.job][o.task] = {})
      OBVIOUS
    <3>1. PICK j \in DOMAIN js : \E t \in Pending(js[j]) : o = [job |-> j, task |-> t, old |-> FALSE]
      BY <1>7
    <3>2. PICK t \in Pending(js[j]) : o = [job |-> j, task |-> t, old |-> FALSE]
      BY <3>1, Zenon
    <3>3. t \in Grid(j) /\ js[j].jid = {} /\ (t \notin E[j] => T[j][t] = {}) /\ j \in sub
      BY <1>6, <2>1
    <3>4. o.job = j /\ o.task = t
      BY <3>2
    <3> QED BY <3>3, <3>4
  <2> QED BY <1>4, <2>3, <2>4, <2>5 DEF OrdersOK
<1>9. IInv'
  BY <1>1, <1>2, <1>4, <1>5, <1>8, InvNext
<1>10. Quiet(js, js)
  BY DEF Quiet
<1> QED BY <1>1, <1>5, <1>9, <1>10, QuietStep

\* qalter -h: orders for the job are obsolete from then on.
LEMMA ModJobStep ==
  ASSUME IInv, NEW j \in DOMAIN jobs, NEW R, NEW add \in BOOLEAN, NEW target \in Targets,
         ModJob(j, R, add, target)
  PROVE  IInv' /\ StartsRight
<1>1. PICK js, S, sub, E, T, b, ks :
        /\ js = jobs /\ S = orders /\ sub = submitted /\ E = ended /\ T = told
        /\ b = mod_task_attributes(js[j], R, add, target) /\ ks = [js EXCEPT ![j] = b]
  BY Zenon
<1>2. /\ conf \in Confs /\ ops \in 0..conf.ops /\ faults \in 0..conf.faults /\ j \in DOMAIN js
      /\ JobsRight(js, sub, E, T) /\ OrdersOK(js, S, sub, E, T) /\ HistoryOK(sub, E, T)
  BY <1>1, InvParts
<1>3. j \in Jobs /\ j \in sub /\ JobRight(j, js[j], E[j], T[j]) /\ sub \subseteq Jobs
  <2>1. conf.jobs \subseteq Jobs
    BY <1>2, ArrayAssumption, Zenon
  <2> QED BY <1>2, <2>1 DEF JobsRight
<1>4. PICK h, U : /\ h = HoldsAfter(j, Grid(j) \ E[j], T[j], R, add, target)
                  /\ U = [T EXCEPT ![j] = h]
  BY Zenon
<1>5. PICK P : P = {[o EXCEPT !.old = @ \/ o.job = j] : o \in S}
  BY Zenon
<1>6. /\ jobs' = ks /\ orders' = P /\ told' = U /\ ops < conf.ops /\ ops' = ops + 1
      /\ UNCHANGED <<conf, submitted, ended, faults>>
  <2>1. Unfinished(jobs, j) = Grid(j) \ E[j]
    BY <1>1, <1>2, <1>3, UnfinishedIs
  <2>2. /\ jobs' = ks /\ orders' = P /\ ops < conf.ops /\ ops' = ops + 1
        /\ UNCHANGED <<conf, submitted, ended, faults>>
    BY <1>1, <1>5 DEF ModJob
  <2>3. told' = U
    BY <1>1, <1>4, <2>1 DEF ModJob, HoldsAfter
  <2> QED BY <2>2, <2>3
<1>7. target \in SUBSET {"u", "o", "s"}
  BY ArrayAssumption
<1>8. PICK job, E0, T0 : job = js[j] /\ E0 = E[j] /\ T0 = T[j]
  OBVIOUS
<1>9. /\ JobRight(j, b, E[j], h) /\ SameTasks(js[j], b) /\ b.jid = js[j].jid
      /\ SameDeps(j, js[j], b)
  <2>1. /\ JobRight(j, job, E0, T0) /\ b = mod_task_attributes(job, R, add, target)
        /\ h = HoldsAfter(j, Grid(j) \ E0, T0, R, add, target)
    BY <1>1, <1>3, <1>4, <1>8, Zenon
  <2>2. IsRequest(add, target)
    BY <1>7 DEF IsRequest
  <2>3. Modified(j, job, b, E0, h)
    BY <2>1, <2>2, ModJobRight, Zenon
  <2> QED BY <1>8, <2>3, Zenon DEF Modified
<1>10. U = [i \in Jobs |-> U[i]] /\ U[j] = h /\ \A i \in Jobs \ {j} : U[i] = T[i]
  BY <1>2, <1>3, <1>4, Zenon DEF HistoryOK
<1>11. JobsRight(ks, sub, E, U)
  BY <1>1, <1>2, <1>9, <1>10, ReplaceRight, Zenon
<1>12. /\ DOMAIN ks = DOMAIN js /\ ks[j] = b
       /\ \A i \in DOMAIN js \ {j} : ks[i] = js[i]
  BY <1>1, <1>2 DEF JobsRight
<1>13. HistoryOK(sub, E, U)
  <2>1. T[j] \in [Grid(j) -> SUBSET {"u", "o", "s"}]
    BY <1>2, <1>3 DEF HistoryOK
  <2>2. h \in [Grid(j) -> SUBSET {"u", "o", "s"}]
    BY <1>4, <1>7, <2>1 DEF HoldsAfter
  <2> QED BY <1>2, <1>3, <1>10, <2>2 DEF HistoryOK
<1> DEFINE g == [o \in S |-> [o EXCEPT !.old = @ \/ o.job = j]]
<1>14. ASSUME NEW o \in S
       PROVE  /\ g[o] \in [job : Jobs, task : Tasks, old : BOOLEAN]
              /\ g[o].job = o.job /\ g[o].task = o.task /\ (~g[o].old => ~o.old /\ o.job # j)
  <2>1. o \in [job : Jobs, task : Tasks, old : BOOLEAN]
    BY <1>2 DEF OrdersOK
  <2> QED BY <2>1, Zenon
<1>15. P = {g[o] : o \in S}
  BY <1>5
<1>16. OrdersOK(ks, P, sub, E, U)
  <2> HIDE DEF g
  <2>1. P \subseteq [job : Jobs, task : Tasks, old : BOOLEAN]
    BY <1>14, <1>15
  <2>2. Ordered(P) = Ordered(S)
    BY <1>14, <1>15 DEF Ordered
  <2>3. IsFiniteSet(P)
    <3>1. IsFiniteSet(S)
      BY <1>2 DEF OrdersOK
    <3> QED BY <1>15, <3>1, FiniteImage
  <2>4. ASSUME NEW q \in P
        PROVE  /\ q.job \in sub /\ q.task \in Grid(q.job)
               /\ ~q.old /\ q.job \in DOMAIN ks =>
                    /\ ks[q.job].jid = {}
                    /\ q.task \notin E[q.job] => U[q.job][q.task] = {}
    <3>1. PICK o \in S : q = g[o]
      BY <1>15
    <3>2. q.job = o.job /\ q.task = o.task /\ (~q.old => ~o.old /\ o.job # j)
      BY <1>14, <3>1
    <3>3. /\ o.job \in sub /\ o.task \in Grid(o.job)
          /\ ~o.old /\ o.job \in DOMAIN js =>
               /\ js[o.job].jid = {}
               /\ o.task \notin E[o.job] => T[o.job][o.task] = {}
      BY <1>2, Zenon DEF OrdersOK
    <3> QED BY <1>3, <1>10, <1>12, <3>2, <3>3
  <2> QED BY <1>2, <2>1, <2>2, <2>3, <2>4, Zenon DEF OrdersOK
<1>17. ops' \in 0..conf.ops
  <2>1. conf.ops \in Nat
    BY <1>2, ArrayAssumption, Zenon
  <2>2. ops \in 0..conf.ops /\ ops < conf.ops /\ ops' = ops + 1
    BY <1>2, <1>6
  <2> QED BY <2>1, <2>2
<1>18. IInv'
  <2> HIDE DEF g
  <2> QED BY <1>1, <1>2, <1>6, <1>11, <1>13, <1>16, <1>17, InvNext, Zenon
<1>19. Quiet(js, ks)
  BY <1>9, <1>12, Zenon DEF Quiet, SameTasks
<1> QED BY <1>1, <1>6, <1>18, <1>19, QuietStep, Zenon

\* From js to ks, no element but that of task t of job j changes.
OnlyTask(js, ks, j, t) ==
  /\ \A i \in DOMAIN js \ {j} : ks[i] = js[i]
  /\ \A x \in DOMAIN ks[j].tasks \ {t} :
       x \in DOMAIN js[j].tasks /\ ks[j].tasks[x] = js[j].tasks[x]

\* Then no other task starts.
LEMMA StartsOne ==
  ASSUME NEW js, NEW ks, js = jobs, jobs' = ks, NEW j, NEW t, OnlyTask(js, ks, j, t)
  PROVE  \A i, x : Starts(i, x) => i = j /\ x = t
<1> SUFFICES ASSUME NEW i, NEW x, Starts(i, x) PROVE i = j /\ x = t
  OBVIOUS
<1>1. /\ i \in DOMAIN js /\ x \in DOMAIN ks[i].tasks /\ ks[i].tasks[x].status = "running"
      /\ ~(x \in DOMAIN js[i].tasks /\ js[i].tasks[x].status = "running")
  BY DEF Starts, Running
<1>2. i = j
  BY <1>1 DEF OnlyTask
<1> QED BY <1>1, <1>2 DEF OnlyTask

\* A step that changes one element of one job and leaves the history alone.
LEMMA ChangeStep ==
  ASSUME IInv, NEW j \in DOMAIN jobs, NEW b, NEW t,
         OneElement(j, jobs[j], b, ended[j], told[j], t), jobs' = [jobs EXCEPT ![j] = b],
         orders' \in SUBSET orders, faults' \in 0..conf.faults,
         UNCHANGED <<conf, submitted, ended, told, ops>>
  PROVE  /\ IInv'
         /\ \A i, x : Starts(i, x) => i = j /\ x = t
         /\ b.tasks[t].status # "running" => StartsRight
<1>1. PICK js, S, sub, E, T, ks, R :
        /\ js = jobs /\ S = orders /\ sub = submitted /\ E = ended /\ T = told
        /\ ks = [js EXCEPT ![j] = b] /\ R = orders'
  OBVIOUS
<1>2. /\ conf \in Confs /\ ops \in 0..conf.ops /\ JobsRight(js, sub, E, T) /\ j \in DOMAIN js
  BY <1>1, InvParts
<1>3. OneElement(j, js[j], b, E[j], T[j], t)
  BY <1>1, Zenon
<1>4. /\ DOMAIN ks = DOMAIN js /\ ks[j] = b
      /\ \A i \in DOMAIN js \ {j} : ks[i] = js[i]
  BY <1>1, <1>2 DEF JobsRight
<1>5. JobRight(j, b, E[j], T[j]) /\ b.jid = js[j].jid /\ SameDeps(j, js[j], b)
  BY <1>3, Zenon DEF OneElement
<1>6. JobsRight(ks, sub, E, T)
  BY <1>1, <1>2, <1>5, ReplaceRight, Zenon
<1>7. Fewer(js, ks) /\ Grown(sub, E, E) /\ R \subseteq S
  BY <1>1, <1>4, <1>5 DEF Fewer, Grown
<1>8. /\ jobs' = ks /\ orders' = R /\ submitted' = sub /\ ended' = E /\ told' = T
      /\ conf' = conf /\ ops' \in 0..conf.ops
  BY <1>1, <1>2
<1>9. IInv'
  BY <1>1, <1>6, <1>7, <1>8, StepRight, Zenon
<1>10. \A x \in DOMAIN ks[j].tasks \ {t} :
         x \in DOMAIN js[j].tasks /\ ks[j].tasks[x] = js[j].tasks[x]
  BY <1>3, <1>4, Zenon DEF OneElement
<1>11. \A i, x : Starts(i, x) => i = j /\ x = t
  <2>1. OnlyTask(js, ks, j, t)
    BY <1>4, <1>10, Zenon DEF OnlyTask
  <2>2. js = jobs /\ jobs' = ks
    BY <1>1, <1>8
  <2> QED BY <2>1, <2>2, StartsOne
<1>12. ASSUME b.tasks[t].status # "running" PROVE StartsRight
  <2>1. Quiet(js, ks)
    BY <1>4, <1>10, <1>12 DEF Quiet
  <2> QED BY <1>1, <1>8, <2>1, QuietStep
<1> QED BY <1>9, <1>11, <1>12

\* COMMIT_ST_RESCHEDULED.
LEMMA RescheduleStep ==
  ASSUME IInv, NEW j \in DOMAIN jobs, NEW t, Reschedule(j, t)
  PROVE  IInv' /\ StartsRight
<1>1. PICK job, E0, T0, st, b :
        /\ job = jobs[j] /\ E0 = ended[j] /\ T0 = told[j] /\ st = "idle"
        /\ b = WithStatus(job, t, st)
  BY Zenon
<1>2. conf \in Confs /\ faults \in 0..conf.faults /\ JobRight(j, job, E0, T0)
  BY <1>1, InvParts DEF JobsRight
<1>3. st # "finished" /\ EndsWith(job, t, st, E0, E0)
  <2>1. t \in DOMAIN job.tasks /\ job.tasks[t].status = "running"
    BY <1>1 DEF Reschedule, Running
  <2> QED BY <1>1, <1>2, <2>1 DEF JobRight, TasksRight, EndsWith
<1>4. OneElement(j, job, b, E0, T0, t) /\ b.tasks[t].status = st
  <2>1. b = WithStatus(job, t, st)
    BY <1>1
  <2>2. JobRight(j, job, E0, T0)
    BY <1>2
  <2>3. StatusSetTo(j, job, b, E0, T0, t, st)
    BY <1>3, <2>1, <2>2, StatusSet, Zenon
  <2> QED BY <2>3, Zenon DEF StatusSetTo
<1>5. OneElement(j, jobs[j], b, ended[j], told[j], t) /\ b.tasks[t].status # "running"
  BY <1>1, <1>4
<1>6. /\ jobs' = [jobs EXCEPT ![j] = b] /\ faults < conf.faults /\ faults' = faults + 1
      /\ UNCHANGED <<orders, conf, submitted, ended, told, ops>>
  BY <1>1 DEF Reschedule, WithStatus
<1>7. faults' \in 0..conf.faults /\ orders' \in SUBSET orders
  <2>1. conf.faults \in Nat
    BY <1>2, ArrayAssumption, Zenon
  <2> QED BY <1>2, <1>6, <2>1
<1> QED BY <1>5, <1>6, <1>7, ChangeStep, Zenon

\* An order that applies to a task that was not deleted: nothing is in its way.
LEMMA OrderFree ==
  ASSUME IInv, NEW o \in orders, Applies(o), ~Deleted(o), NEW j, j = o.job, NEW t, t = o.task
  PROVE  /\ j \in DOMAIN jobs /\ JobRight(j, jobs[j], ended[j], told[j])
         /\ Startable(jobs[j], t) /\ t \notin ended[j]
         /\ told[j][t] = {} /\ \A p \in conf.jid[j] : ended[p] = Grid(p)
<1>1. /\ conf \in Confs /\ JobsRight(jobs, submitted, ended, told)
      /\ OrdersOK(jobs, orders, submitted, ended, told)
  BY InvParts
<1>2. j \in DOMAIN jobs /\ ~o.old /\ Startable(jobs[j], t)
  BY DEF Applies, Deleted, Startable
<1>3. JobRight(j, jobs[j], ended[j], told[j])
  BY <1>1, <1>2 DEF JobsRight
<1>4. t \notin ended[j]
  BY <1>2, <1>3, StartableOpen, Zenon
<1>5. jobs[j].jid = {} /\ told[j][t] = {}
  BY <1>1, <1>2, <1>4, Zenon DEF OrdersOK
<1>6. \A p \in conf.jid[j] : ended[p] = Grid(p)
  BY <1>1, <1>2, <1>5 DEF JobsRight
<1> QED BY <1>2, <1>3, <1>4, <1>5, <1>6

\* A step that only gives up orders.
LEMMA DropStep ==
  ASSUME IInv, jobs' = jobs, orders' \in SUBSET orders, faults' \in 0..conf.faults,
         UNCHANGED <<conf, submitted, ended, told, ops>>
  PROVE  IInv' /\ StartsRight
<1>1. PICK js, S, sub, E, T, R :
        /\ js = jobs /\ S = orders /\ sub = submitted /\ E = ended /\ T = told /\ R = orders'
  OBVIOUS
<1>2. ops \in 0..conf.ops /\ JobsRight(js, sub, E, T)
  BY <1>1, InvParts
<1>3. /\ jobs' = js /\ orders' = R /\ submitted' = sub /\ ended' = E /\ told' = T
      /\ conf' = conf /\ ops' \in 0..conf.ops /\ R \subseteq S
  BY <1>1, <1>2
<1>4. Fewer(js, js) /\ Grown(sub, E, E) /\ Quiet(js, js)
  BY DEF Fewer, Grown, Quiet
<1>5. IInv'
  BY <1>1, <1>2, <1>3, <1>4, StepRight
<1> QED BY <1>1, <1>3, <1>4, <1>5, QuietStep

\* A start order is followed: the task is started, the order is dropped, or the
\* start fails.
LEMMA FollowOrderStep ==
  ASSUME IInv, NEW o \in orders, FollowOrder(o)
  PROVE  IInv' /\ StartsRight
<1>1. PICK j, t : j = o.job /\ t = o.task
  OBVIOUS
<1>2. conf \in Confs /\ ops \in 0..conf.ops /\ faults \in 0..conf.faults
  BY InvParts
<1>3. /\ orders' \in SUBSET orders /\ UNCHANGED <<conf, submitted, ended, told, ops>>
      /\ faults' = faults \/ (faults < conf.faults /\ faults' = faults + 1)
  BY DEF FollowOrder
<1>4. faults' \in 0..conf.faults
  <2>1. conf.faults \in Nat
    BY <1>2, ArrayAssumption
  <2> QED BY <1>2, <1>3, <2>1
<1>5. CASE jobs' = jobs
  BY <1>3, <1>4, <1>5, DropStep
<1>6. PICK job, E0, T0, b, c, d :
        /\ job = jobs[j] /\ E0 = ended[j] /\ T0 = told[j]
        /\ b = ForOrder(job, t) /\ c = WithStatus(b, t, "running")
        /\ d = IF t \in DOMAIN job.tasks THEN job
               ELSE job_unenroll(job_enroll(job, t), t)
  BY Zenon
<1>7. CASE Applies(o) /\ ~Deleted(o)
  <2>1. /\ j \in DOMAIN jobs /\ JobRight(j, jobs[j], ended[j], told[j])
        /\ Startable(jobs[j], t) /\ t \notin ended[j]
        /\ told[j][t] = {} /\ \A p \in conf.jid[j] : ended[p] = Grid(p)
    BY <1>1, <1>7, OrderFree, Zenon
  <2>2. JobRight(j, job, E0, T0) /\ Startable(job, t)
    BY <1>6, <2>1, Zenon
  <2>3. b = ForOrder(job, t) /\ c = WithStatus(b, t, "running")
    BY <1>6
  <2>4. /\ OneElement(j, job, b, E0, T0, t) /\ b.tasks[t].status = "idle"
        /\ OneElement(j, job, c, E0, T0, t)
    BY <2>2, <2>3, OrderTaken, Zenon
  <2>5. /\ OneElement(j, jobs[j], b, ended[j], told[j], t) /\ b.tasks[t].status # "running"
        /\ OneElement(j, jobs[j], c, ended[j], told[j], t)
    BY <1>6, <2>4
  <2>6. CASE jobs' = [jobs EXCEPT ![j] = c]
    <3>1. IInv' /\ \A i, x : Starts(i, x) => i = j /\ x = t
      BY <1>3, <1>4, <2>1, <2>5, <2>6, ChangeStep, Zenon
    <3> QED BY <2>1, <3>1, Zenon DEF StartsRight
  <2>7. CASE jobs' = [jobs EXCEPT ![j] = b]
    BY <1>3, <1>4, <2>1, <2>5, <2>7, ChangeStep, Zenon
  <2>8. CASE jobs' = [jobs EXCEPT ![j] = d]
    <3>1. d = jobs[j]
      BY <1>6, <2>2, OrderLost, Zenon
    <3>2. jobs = [i \in DOMAIN jobs |-> jobs[i]]
      BY InvParts DEF JobsRight
    <3>3. jobs' = jobs
      BY <2>8, <3>1, <3>2
    <3> QED BY <1>5, <3>3
  <2>9. \/ jobs' = jobs
        \/ jobs' = [jobs EXCEPT ![j] = c]
        \/ jobs' = [jobs EXCEPT ![j] = b]
        \/ jobs' = [jobs EXCEPT ![j] = d]
    BY <1>1, <1>6, <1>7, <2>1 DEF FollowOrder, WithStatus
  <2> QED BY <1>5, <2>6, <2>7, <2>8, <2>9
<1>8. CASE ~(Applies(o) /\ ~Deleted(o))
  BY <1>5, <1>8 DEF FollowOrder
<1> QED BY <1>7, <1>8

-----------------------------------------------------------------------------
(* The theorems.                                                              *)

\* The invariant holds of an empty master job list.
LEMMA InitRight ==
  ASSUME Init
  PROVE  IInv
<1>1. conf \in Confs
  BY DEF Init
<1>2. /\ conf.ops \in Nat /\ conf.faults \in Nat /\ conf.start \in Nat
      /\ conf.jobs \subseteq Jobs
  BY <1>1, ArrayAssumption
<1>3. /\ DOMAIN jobs = {} /\ jobs = [j \in DOMAIN jobs |-> jobs[j]]
      /\ orders = {} /\ submitted = {} /\ ops = 0 /\ faults = 0
      /\ ended = [j \in Jobs |-> {}]
      /\ told = [j \in Jobs |-> [t \in Grid(j) |-> {}]]
  BY DEF Init, Empty
<1>4. IsFiniteSet(orders) /\ Cardinality(Ordered(orders)) = 0
  BY <1>3, FS_EmptySet DEF Ordered
<1>5. TypeOK
  <2>1. \A j \in Jobs : told[j] \in [Grid(j) -> SUBSET {"u", "o", "s"}]
    BY <1>3
  <2>2. /\ ended \in [Jobs -> SUBSET Tasks] /\ \A j \in Jobs : ended[j] \subseteq Grid(j)
        /\ told = [j \in Jobs |-> told[j]]
    BY <1>3
  <2> QED BY <1>1, <1>2, <1>3, <1>4, <2>1, <2>2 DEF TypeOK
<1>6. JobsRight(jobs, submitted, ended, told)
  BY <1>3 DEF JobsRight, Linked
<1>7. OrdersRight /\ NoHistory
  BY <1>3 DEF OrdersRight, NoHistory
<1> QED BY <1>5, <1>6, <1>7 DEF IInv

\* Every step keeps the invariant and starts only tasks that nothing holds back.
LEMMA NextRight ==
  ASSUME IInv, Next
  PROVE  IInv' /\ StartsRight
<1>1. ASSUME NEW j \in Jobs, Submit(j) PROVE IInv' /\ StartsRight
  BY <1>1, SubmitStep
<1>2. CASE Schedule
  BY <1>2, ScheduleStep
<1>3. ASSUME NEW o \in orders, FollowOrder(o) PROVE IInv' /\ StartsRight
  BY <1>3, FollowOrderStep
<1>4. ASSUME NEW j \in DOMAIN jobs, NEW t \in Tasks, Finish(j, t) PROVE IInv' /\ StartsRight
  BY <1>4, FinishStep
<1>5. ASSUME NEW j \in DOMAIN jobs, NEW t \in Tasks, Reschedule(j, t) PROVE IInv' /\ StartsRight
  BY <1>5, RescheduleStep
<1>6. ASSUME NEW j \in DOMAIN jobs, NEW add \in BOOLEAN, NEW target \in Targets,
             HoldAll(j, add, target)
      PROVE  IInv' /\ StartsRight
  <2>1. PICK R : R = AllTasks(jobs[j])
    OBVIOUS
  <2>2. ModJob(j, R, add, target)
    BY <1>6, <2>1 DEF HoldAll
  <2> QED BY <2>2, ModJobStep
<1>7. ASSUME NEW j \in DOMAIN jobs, NEW add \in BOOLEAN, NEW target \in Targets,
             NEW t \in Grid(j), HoldTask(j, t, add, target)
      PROVE  IInv' /\ StartsRight
  <2>1. PICK R : R = {t}
    BY Zenon
  <2>2. ModJob(j, R, add, target)
    BY <1>7, <2>1 DEF HoldTask
  <2> QED BY <2>2, ModJobStep
<1>8. ASSUME NEW j \in DOMAIN jobs, NEW R, NEW stop, Qdel(j, R, stop) PROVE IInv' /\ StartsRight
  BY <1>8, QdelStep
<1>9. CASE Sweep
  BY <1>9, SweepStep
<1> QED BY <1>1, <1>2, <1>3, <1>4, <1>5, <1>6, <1>7, <1>8, <1>9 DEF Next

\* A step that changes nothing keeps the invariant.
LEMMA StutterRight ==
  ASSUME IInv, UNCHANGED vars
  PROVE  IInv'
<1>1. PICK js, S, sub, E, T :
        js = jobs /\ S = orders /\ sub = submitted /\ E = ended /\ T = told
  OBVIOUS
<1>2. /\ conf \in Confs /\ ops \in 0..conf.ops /\ faults \in 0..conf.faults
      /\ JobsRight(js, sub, E, T) /\ OrdersOK(js, S, sub, E, T) /\ HistoryOK(sub, E, T)
  BY <1>1, InvParts
<1>3. /\ conf' = conf /\ ops' \in 0..conf.ops /\ faults' \in 0..conf.faults
      /\ jobs' = js /\ orders' = S /\ submitted' = sub /\ ended' = E /\ told' = T
  BY <1>1, <1>2 DEF vars
<1> QED BY <1>2, <1>3, InvNext

\* Whatever the jobs, dependencies, requests and faults: the id lists, the elements
\* and the orders of qmaster agree with what was submitted, what ended and what the
\* users were told.
THEOREM ArrayInvariance == Spec => []IInv
<1>1. Init => IInv
  BY InitRight
<1>2. IInv /\ [Next]_vars => IInv'
  BY NextRight, StutterRight
<1> QED BY <1>1, <1>2, PTL DEF Spec

\* The sixteen lists of job_create_hold_id_lists part the tasks without element by
\* the holds they have, and job_get_not_enrolled_ja_tasks counts these tasks.
THEOREM HoldListsRightAlways == Spec => []HoldListsRight
<1>1. IInv => HoldListsRight
  <2> SUFFICES ASSUME IInv, NEW j \in DOMAIN jobs
               PROVE  /\ \A h \in SUBSET Holds : job_create_hold_id_lists(jobs[j])[h] =
                           {t \in Listed(jobs[j]) : job_get_hold_state(jobs[j], t) = h}
                      /\ job_get_not_enrolled_ja_tasks(jobs[j]) = Cardinality(Listed(jobs[j]))
    BY DEF HoldListsRight
  <2>1. PICK job, E0, T0 : job = jobs[j] /\ E0 = ended[j] /\ T0 = told[j]
    OBVIOUS
  <2>2. conf \in Confs /\ TasksRight(j, job, E0, T0)
    BY <2>1, InvParts DEF JobsRight, JobRight
  <2>3. IsJob(j, job) /\ Sound(job)
    BY <2>2, RightIsSound
  <2>4. \A h \in SUBSET Holds : IsHoldList(job, h)
    BY <2>3, HoldListIs, Zenon
  <2>5. job_get_not_enrolled_ja_tasks(job) = Cardinality(Listed(job))
    BY <2>2, <2>3, CountsRight
  <2>6. \A h \in SUBSET Holds : IsHoldList(jobs[j], h)
    BY <2>1, <2>4
  <2> QED BY <2>1, <2>5, <2>6 DEF IsHoldList
<1> QED BY <1>1, ArrayInvariance, PTL

\* No task of a submitted job is lost or in two places, and its job stays in the
\* master job list as long as a task of it does.
THEOREM OnePlaceAlways == Spec => []OnePlace
<1>1. IInv => OnePlace
  <2> SUFFICES ASSUME IInv, NEW j \in submitted
               PROVE  /\ ended[j] # Grid(j) => j \in DOMAIN jobs
                      /\ j \in DOMAIN jobs =>
                           /\ \A t \in Grid(j) \ ended[j] :
                                IF t \in DOMAIN jobs[j].tasks
                                THEN /\ {k \in Lists : t \in jobs[j].ids[k]} = {}
                                     /\ jobs[j].tasks[t].status # "finished"
                                ELSE \/ {k \in Lists : t \in jobs[j].ids[k]} = {"n"}
                                     \/ /\ {k \in Lists : t \in jobs[j].ids[k]} # {}
                                        /\ "n" \notin {k \in Lists : t \in jobs[j].ids[k]}
                           /\ \A t \in ended[j] :
                                /\ job_is_enrolled(jobs[j], t)
                                /\ t \in DOMAIN jobs[j].tasks =>
                                     conf.retention /\ jobs[j].tasks[t].status = "finished"
                           /\ job_get_ja_tasks(jobs[j]) > 0
    BY Zenon DEF OnePlace
  <2>1. conf \in Confs /\ JobsRight(jobs, submitted, ended, told)
    BY InvParts
  <2>2. ended[j] # Grid(j) => j \in DOMAIN jobs
    BY <2>1 DEF JobsRight
  <2>3. PICK job, E0, T0 : job = jobs[j] /\ E0 = ended[j] /\ T0 = told[j]
    OBVIOUS
  <2>4. CASE j \in DOMAIN jobs
    <3>1. JobRight(j, job, E0, T0)
      BY <2>1, <2>3, <2>4 DEF JobsRight
    <3>2. IsJob(j, job) /\ Sound(job)
      BY <3>1, RightIsSound DEF JobRight
    <3>3. /\ \A t \in Grid(j) \ E0 :
               IF t \in DOMAIN job.tasks
               THEN /\ {k \in Lists : t \in job.ids[k]} = {}
                    /\ job.tasks[t].status # "finished"
               ELSE \/ {k \in Lists : t \in job.ids[k]} = {"n"}
                    \/ /\ {k \in Lists : t \in job.ids[k]} # {}
                       /\ "n" \notin {k \in Lists : t \in job.ids[k]}
          /\ \A t \in E0 :
               /\ job_is_enrolled(job, t)
               /\ t \in DOMAIN job.tasks =>
                    conf.retention /\ job.tasks[t].status = "finished"
      BY <2>1, <3>1, TaskInPlace, Zenon
    <3>4. job_get_ja_tasks(job) > 0
      <4>1. job_get_ja_tasks(job) = Cardinality(Present(job)) /\ IsFiniteSet(Present(job))
        BY <2>1, <3>2, CountsRight
      <4>2. Present(job) # {}
        BY <3>1 DEF JobRight
      <4>3. Cardinality(Present(job)) \in Nat /\ Cardinality(Present(job)) # 0
        BY <4>1, <4>2, FS_CardinalityType, FS_EmptySet
      <4> QED BY <4>1, <4>3
    <3> QED BY <2>2, <2>3, <3>3, <3>4, Zenon
  <2> QED BY <2>2, <2>4, Zenon
<1> QED BY <1>1, ArrayInvariance, PTL

\* The holds the users set and released are the holds the tasks have, apart from
\* that of the array dependency.
THEOREM HoldsKeptAlways == Spec => []HoldsKept
<1>1. IInv => HoldsKept
  <2> SUFFICES ASSUME IInv, NEW j \in DOMAIN jobs, NEW t \in Unfinished(jobs, j)
               PROVE  job_get_hold_state(jobs[j], t) \ {"a"} = told[j][t]
    BY DEF HoldsKept
  <2>1. PICK js, sub, E, T : js = jobs /\ sub = submitted /\ E = ended /\ T = told
    OBVIOUS
  <2>2. JobsRight(js, sub, E, T) /\ j \in DOMAIN js /\ j \in sub
    BY <2>1, InvParts DEF JobsRight
  <2>3. t \in Grid(j) \ E[j]
    BY <2>1, <2>2, UnfinishedIs
  <2>4. TasksRight(j, js[j], E[j], T[j])
    BY <2>2 DEF JobsRight, JobRight
  <2>5. job_get_hold_state(js[j], t) \ {"a"} = T[j][t]
    BY <2>3, <2>4 DEF TasksRight
  <2> QED BY <2>1, <2>5
<1> QED BY <1>1, ArrayInvariance, PTL

\* A task that the array dependency holds waits for a job that still has a task to
\* end and that knows of it; when its job is linked to no other any more it is a task
\* of OpenRange.
THEOREM WaitsForSomethingAlways == Spec => []WaitsForSomething
<1>1. IInv => WaitsForSomething
  <2> SUFFICES ASSUME IInv, NEW j \in DOMAIN jobs, NEW t \in Unfinished(jobs, j),
                      "a" \in job_get_hold_state(jobs[j], t)
               PROVE  \/ jobs[j].ad = {} /\ OpenRange(j, t)
                      \/ \E p \in jobs[j].ad \cap DOMAIN jobs :
                           j \in jobs[p].adsuc /\ Unfinished(jobs, p) # {}
    BY DEF WaitsForSomething
  <2>1. Linked(jobs, {})
    BY InvParts DEF JobsRight
  <2>2. /\ jobs[j].ad \subseteq DOMAIN jobs /\ HoldsGone(j, jobs[j])
        /\ \A p \in jobs[j].ad : j \in jobs[p].adsuc /\ Unfinished(jobs, p) # {}
    BY <2>1 DEF Linked
  <2>3. CASE jobs[j].ad = {}
    <3>1. t \in Present(jobs[j])
      BY DEF Unfinished, Present
    <3> QED BY <2>2, <2>3, <3>1 DEF HoldsGone
  <2>4. CASE jobs[j].ad # {}
    BY <2>2, <2>4
  <2> QED BY <2>3, <2>4
<1> QED BY <1>1, ArrayInvariance, PTL

\* A start order that is followed late starts no task that a user has put on hold,
\* none that ended, and none of a job that waits for another with -hold_jid.
THEOREM StartsFreeAlways == Spec => StartsFree
<1>1. IInv /\ [Next]_vars => [StartsRight]_vars
  BY NextRight
<1>2. Spec => [][StartsRight]_vars
  BY <1>1, ArrayInvariance, PTL DEF Spec
<1> QED BY <1>2 DEF StartsFree, StartsRight
=============================================================================
