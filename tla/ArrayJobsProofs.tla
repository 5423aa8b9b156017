-------------------------- MODULE ArrayJobsProofs --------------------------
(* What the operators of ArrayTasks on one job and on the master job list     *)
(* keep, for any set of jobs, any requests and any configuration.             *)
EXTENDS ArrayTasks, TLAPS

-----------------------------------------------------------------------------
(* One job.                                                                   *)

\* What the operations on one job rely on: no task has an id in a list and an
\* element, and none is without hold and on hold.
Sound(job) ==
  /\ Listed(job) \cap DOMAIN job.tasks = {}
  /\ \A k \in Holds : job.ids["n"] \cap job.ids[k] = {}

\* Job b has the tasks of job a, in the same places.
SameTasks(a, b) ==
  /\ Listed(b) = Listed(a)
  /\ DOMAIN b.tasks = DOMAIN a.tasks
  /\ \A t \in DOMAIN a.tasks : b.tasks[t].status = a.tasks[t].status

\* Job b has the dependencies of job a.
SameLinks(a, b) ==
  b.jid = a.jid /\ b.jidsuc = a.jidsuc /\ b.ad = a.ad /\ b.adsuc = a.adsuc

\* The tasks of job b have the holds of job a that users set.
SameHolds(a, b) ==
  \A t \in Present(a) : job_get_hold_state(b, t) \ {"a"} = job_get_hold_state(a, t) \ {"a"}

\* b is the job i that was a, except for the holds of the array dependency and
\* for the links to other jobs.
Kept(i, a, b) == IsJob(i, b) /\ Sound(b) /\ SameTasks(a, b) /\ SameHolds(a, b)

\* The parts of a job.
LEMMA JobParts ==
  ASSUME NEW j, NEW job, IsJob(j, job)
  PROVE  /\ job.ids \in [Lists -> SUBSET Grid(j)]
         /\ job.tasks \in [DOMAIN job.tasks -> Element]
         /\ Present(job) \subseteq Grid(j)
         /\ \A t \in DOMAIN job.tasks : job.tasks[t] \in Element /\ job.tasks[t].hold \subseteq Holds
<1>1. job.ids \in [Lists -> SUBSET Grid(j)] /\ job.tasks \in [DOMAIN job.tasks -> Element]
  BY DEF IsJob
<1>2. Listed(job) \subseteq Grid(j)
  BY <1>1 DEF Listed
<1>3. DOMAIN job.tasks \subseteq Grid(j)
  BY DEF IsJob
<1>4. \A t \in DOMAIN job.tasks : job.tasks[t] \in Element
  BY <1>1
<1> QED BY <1>1, <1>2, <1>3, <1>4 DEF Present, Element

\* A set of holds is one of sixteen.
LEMMA SetsOfHolds ==
  ASSUME NEW h, h \subseteq Holds
  PROVE  \/ h = {}
         \/ h = {"u"}
         \/ h = {"o"}
         \/ h = {"s"}
         \/ h = {"a"}
         \/ h = {"u", "o"}
         \/ h = {"u", "s"}
         \/ h = {"u", "a"}
         \/ h = {"o", "s"}
         \/ h = {"o", "a"}
         \/ h = {"s", "a"}
         \/ h = {"u", "o", "s"}
         \/ h = {"u", "o", "a"}
         \/ h = {"u", "s", "a"}
         \/ h = {"o", "s", "a"}
         \/ h = {"u", "o", "s", "a"}
<1>1. \A k \in h : k = "u" \/ k = "o" \/ k = "s" \/ k = "a"
  BY DEF Holds
<1>2. ASSUME "u" \in h /\ "o" \in h /\ "s" \in h /\ "a" \in h PROVE h = {"u", "o", "s", "a"}
  BY <1>1, <1>2, Zenon
<1>3. ASSUME "u" \in h /\ "o" \in h /\ "s" \in h /\ "a" \notin h PROVE h = {"u", "o", "s"}
  BY <1>1, <1>3, Zenon
<1>4. ASSUME "u" \in h /\ "o" \in h /\ "s" \notin h /\ "a" \in h PROVE h = {"u", "o", "a"}
  BY <1>1, <1>4, Zenon
<1>5. ASSUME "u" \in h /\ "o" \in h /\ "s" \notin h /\ "a" \notin h PROVE h = {"u", "o"}
  BY <1>1, <1>5, Zenon
<1>6. ASSUME "u" \in h /\ "o" \notin h /\ "s" \in h /\ "a" \in h PROVE h = {"u", "s", "a"}
  BY <1>1, <1>6, Zenon
<1>7. ASSUME "u" \in h /\ "o" \notin h /\ "s" \in h /\ "a" \notin h PROVE h = {"u", "s"}
  BY <1>1, <1>7, Zenon
<1>8. ASSUME "u" \in h /\ "o" \notin h /\ "s" \notin h /\ "a" \in h PROVE h = {"u", "a"}
  BY <1>1, <1>8, Zenon
<1>9. ASSUME "u" \in h /\ "o" \notin h /\ "s" \notin h /\ "a" \notin h PROVE h = {"u"}
  BY <1>1, <1>9, Zenon
<1>10. ASSUME "u" \notin h /\ "o" \in h /\ "s" \in h /\ "a" \in h PROVE h = {"o", "s", "a"}
  BY <1>1, <1>10, Zenon
<1>11. ASSUME "u" \notin h /\ "o" \in h /\ "s" \in h /\ "a" \notin h PROVE h = {"o", "s"}
  BY <1>1, <1>11, Zenon
<1>12. ASSUME "u" \notin h /\ "o" \in h /\ "s" \notin h /\ "a" \in h PROVE h = {"o", "a"}
  BY <1>1, <1>12, Zenon
<1>13. ASSUME "u" \notin h /\ "o" \in h /\ "s" \notin h /\ "a" \notin h PROVE h = {"o"}
  BY <1>1, <1>13, Zenon
<1>14. ASSUME "u" \notin h /\ "o" \notin h /\ "s" \in h /\ "a" \in h PROVE h = {"s", "a"}
  BY <1>1, <1>14, Zenon
<1>15. ASSUME "u" \notin h /\ "o" \notin h /\ "s" \in h /\ "a" \notin h PROVE h = {"s"}
  BY <1>1, <1>15, Zenon
<1>16. ASSUME "u" \notin h /\ "o" \notin h /\ "s" \notin h /\ "a" \in h PROVE h = {"a"}
  BY <1>1, <1>16, Zenon
<1>17. ASSUME "u" \notin h /\ "o" \notin h /\ "s" \notin h /\ "a" \notin h PROVE h = {}
  BY <1>1, <1>17, Zenon
<1> QED BY <1>2, <1>3, <1>4, <1>5, <1>6, <1>7, <1>8, <1>9, <1>10, <1>11, <1>12, <1>13,
           <1>14, <1>15, <1>16, <1>17, Zenon

\* The list for the set h of holds has the tasks with these holds.
IsHoldList(job, h) ==
  job_create_hold_id_lists(job)[h] = {t \in Listed(job) : job_get_hold_state(job, t) = h}

\* The list for each of the sixteen sets of holds.
LEMMA HoldListIs ==
  ASSUME NEW j, NEW job, IsJob(j, job), Sound(job), NEW h, h \subseteq Holds
  PROVE  IsHoldList(job, h)
<1>1. PICK n, u, o, s, a : /\ n = job.ids["n"] /\ u = job.ids["u"] /\ o = job.ids["o"]
                           /\ s = job.ids["s"] /\ a = job.ids["a"]
  BY Zenon
<1>2. /\ Listed(job) = n \cup u \cup o \cup s \cup a
      /\ n \cap (u \cup o \cup s \cup a) = {}
  BY <1>1 DEF Listed, Lists, Holds, Sound
<1>3. PICK held : held = [t \in Listed(job) |-> {k \in Holds : t \in job.ids[k]}]
  BY Zenon
<1>4. \A t \in Listed(job) : /\ job_get_hold_state(job, t) = held[t] /\ held[t] \subseteq Holds
                             /\ ("u" \in held[t] <=> t \in u)
                             /\ ("o" \in held[t] <=> t \in o)
                             /\ ("s" \in held[t] <=> t \in s)
                             /\ ("a" \in held[t] <=> t \in a)
  BY <1>1, <1>3 DEF job_get_hold_state, job_is_enrolled, Holds
<1>5. \A t \in Listed(job) : held[t] = h <=> /\ ("u" \in h <=> t \in u)
                                             /\ ("o" \in h <=> t \in o)
                                             /\ ("s" \in h <=> t \in s)
                                             /\ ("a" \in h <=> t \in a)
  <2> SUFFICES ASSUME NEW t \in Listed(job)
               PROVE  held[t] = h <=> /\ ("u" \in h <=> t \in u)
                                      /\ ("o" \in h <=> t \in o)
                                      /\ ("s" \in h <=> t \in s)
                                      /\ ("a" \in h <=> t \in a)
    OBVIOUS
  <2>1. PICK g : g = held[t]
    OBVIOUS
  <2>2. /\ g \subseteq Holds
        /\ ("u" \in g <=> t \in u)
        /\ ("o" \in g <=> t \in o)
        /\ ("s" \in g <=> t \in s)
        /\ ("a" \in g <=> t \in a)
    BY <1>4, <2>1, Zenon
  <2>3. (\A k \in Holds : k \in g <=> k \in h) => g = h
    BY <2>2
  <2> QED BY <2>1, <2>2, <2>3 DEF Holds
<1>6. {t \in Listed(job) : job_get_hold_state(job, t) = h} =
        {t \in n \cup u \cup o \cup s \cup a : /\ ("u" \in h <=> t \in u)
                                               /\ ("o" \in h <=> t \in o)
                                               /\ ("s" \in h <=> t \in s)
                                               /\ ("a" \in h <=> t \in a)}
  <2>1. \A t \in Listed(job) : job_get_hold_state(job, t) = h <=> /\ ("u" \in h <=> t \in u)
                                                                  /\ ("o" \in h <=> t \in o)
                                                                  /\ ("s" \in h <=> t \in s)
                                                                  /\ ("a" \in h <=> t \in a)
    BY <1>4, <1>5
  <2> QED BY <1>2, <2>1
<1> DEFINE uo == u \cap o  us == u \cap s  ua == u \cap a
           os == o \cap s  oa == o \cap a  sa == s \cap a
           uos == uo \cap os  uoa == uo \cap oa  usa == us \cap sa  osa == os \cap sa
           all == uos \cap uoa
           osaU == osa \ all  usaO == usa \ all  uoaS == uoa \ all  uosA == uos \ all
           saUO == (sa \ usa) \ osaU
           oaU == oa \ uoa
           osU == os \ uos
           uaOS == (ua \ uoa) \ usaO
           usO == us \ uos
           Is(g) == h = g
           list == job_create_hold_id_lists(job)[h]
<1>7. list =
        CASE Is({}) -> n
          [] Is({"u"}) -> ((u \ uo) \ usO) \ uaOS
          [] Is({"o"}) -> ((o \ uo) \ osU) \ (oaU \ osaU)
          [] Is({"s"}) -> ((s \ us) \ osU) \ saUO
          [] Is({"a"}) -> ((a \ ua) \ oaU) \ saUO
          [] Is({"u", "o"}) -> (uo \ uos) \ uoaS
          [] Is({"u", "s"}) -> usO \ usaO
          [] Is({"u", "a"}) -> uaOS
          [] Is({"o", "s"}) -> osU \ osaU
          [] Is({"o", "a"}) -> oaU \ osaU
          [] Is({"s", "a"}) -> saUO
          [] Is({"u", "o", "s"}) -> uosA
          [] Is({"u", "o", "a"}) -> uoaS
          [] Is({"u", "s", "a"}) -> usaO
          [] Is({"o", "s", "a"}) -> osaU
          [] OTHER -> all
  BY <1>1, Zenon DEF job_create_hold_id_lists
<1> DEFINE Exactly == {t \in n \cup u \cup o \cup s \cup a : /\ ("u" \in h <=> t \in u)
                                                             /\ ("o" \in h <=> t \in o)
                                                             /\ ("s" \in h <=> t \in s)
                                                             /\ ("a" \in h <=> t \in a)}
<1>8. ASSUME Is({}) PROVE n = Exactly
  BY <1>2, <1>8
<1>9. ASSUME Is({"u"}) PROVE ((u \ uo) \ usO) \ uaOS = Exactly
  BY <1>2, <1>9
<1>10. ASSUME Is({"o"}) PROVE ((o \ uo) \ osU) \ (oaU \ osaU) = Exactly
  BY <1>2, <1>10
<1>11. ASSUME Is({"s"}) PROVE ((s \ us) \ osU) \ saUO = Exactly
  BY <1>2, <1>11
<1>12. ASSUME Is({"a"}) PROVE ((a \ ua) \ oaU) \ saUO = Exactly
  BY <1>2, <1>12
<1>13. ASSUME Is({"u", "o"}) PROVE (uo \ uos) \ uoaS = Exactly
  BY <1>2, <1>13
<1>14. ASSUME Is({"u", "s"}) PROVE usO \ usaO = Exactly
  BY <1>2, <1>14
<1>15. ASSUME Is({"u", "a"}) PROVE uaOS = Exactly
  BY <1>2, <1>15
<1>16. ASSUME Is({"o", "s"}) PROVE osU \ osaU = Exactly
  BY <1>2, <1>16
<1>17. ASSUME Is({"o", "a"}) PROVE oaU \ osaU = Exactly
  BY <1>2, <1>17
<1>18. ASSUME Is({"s", "a"}) PROVE saUO = Exactly
  BY <1>2, <1>18
<1>19. ASSUME Is({"u", "o", "s"}) PROVE uosA = Exactly
  BY <1>2, <1>19
<1>20. ASSUME Is({"u", "o", "a"}) PROVE uoaS = Exactly
  BY <1>2, <1>20
<1>21. ASSUME Is({"u", "s", "a"}) PROVE usaO = Exactly
  BY <1>2, <1>21
<1>22. ASSUME Is({"o", "s", "a"}) PROVE osaU = Exactly
  BY <1>2, <1>22
<1>23. ASSUME Is({"u", "o", "s", "a"}) PROVE all = Exactly
  BY <1>2, <1>23
<1>24. \/ Is({})
       \/ Is({"u"})
       \/ Is({"o"})
       \/ Is({"s"})
       \/ Is({"a"})
       \/ Is({"u", "o"})
       \/ Is({"u", "s"})
       \/ Is({"u", "a"})
       \/ Is({"o", "s"})
       \/ Is({"o", "a"})
       \/ Is({"s", "a"})
       \/ Is({"u", "o", "s"})
       \/ Is({"u", "o", "a"})
       \/ Is({"u", "s", "a"})
       \/ Is({"o", "s", "a"})
       \/ Is({"u", "o", "s", "a"})
  BY SetsOfHolds, Zenon
<1> HIDE DEF uo, us, ua, os, oa, sa, uos, uoa, usa, osa, all, osaU, usaO, uoaS, uosA, saUO, oaU,
             osU, uaOS, usO, list, Is, Exactly
<1>25. list = Exactly
  BY <1>7, <1>8, <1>9, <1>10, <1>11, <1>12, <1>13, <1>14, <1>15, <1>16, <1>17, <1>18, <1>19,
     <1>20, <1>21, <1>22, <1>23, <1>24
<1> QED BY <1>6, <1>25 DEF list, Exactly, IsHoldList

\* A hold state is a set of holds.
LEMMA HoldState ==
  ASSUME NEW j, NEW job, IsJob(j, job), NEW t
  PROVE  job_get_hold_state(job, t) \subseteq Holds
BY JobParts DEF job_get_hold_state

\* hold gives each of its tasks a set of holds.
AreHolds(hold) == \A t \in DOMAIN hold : hold[t] \subseteq Holds

\* The tasks of hold have the holds it gives, the others the ones they had.
HeldAs(job, b, hold) ==
  \A t \in Present(job) :
    job_get_hold_state(b, t) = IF t \in DOMAIN hold THEN hold[t] ELSE job_get_hold_state(job, t)

\* job_set_hold_state moves ids between the lists and sets the holds of elements,
\* and nothing else.
LEMMA SetHold ==
  ASSUME NEW j, NEW job, IsJob(j, job), Sound(job),
         NEW hold, AreHolds(hold), NEW b, b = job_set_hold_state(job, hold)
  PROVE  /\ IsJob(j, b) /\ Sound(b) /\ SameTasks(job, b) /\ SameLinks(job, b)
         /\ HeldAs(job, b, hold)
<1> DEFINE In(k) == {t \in Listed(job) \cap DOMAIN hold : k \in hold[t] \/ (k = "n" /\ hold[t] = {})}
           ids == [k \in Lists |-> (job.ids[k] \ DOMAIN hold) \cup In(k)]
           tasks == [t \in DOMAIN job.tasks |->
                       IF t \in DOMAIN hold /\ job_is_enrolled(job, t)
                       THEN [job.tasks[t] EXCEPT !.hold = hold[t]] ELSE job.tasks[t]]
<1>1. b = [job EXCEPT !.ids = ids, !.tasks = tasks]
  BY DEF job_set_hold_state
<1>2. /\ b.ids = ids /\ b.tasks = tasks /\ SameLinks(job, b)
      /\ b \in [ids : {ids}, tasks : {tasks}, jid : {job.jid}, jidsuc : {job.jidsuc},
                ad : {job.ad}, adsuc : {job.adsuc}]
  <2> HIDE DEF ids, tasks
  <2> QED BY <1>1, Zenon DEF IsJob, SameLinks
<1>3. /\ job.ids \in [Lists -> SUBSET Grid(j)] /\ Listed(job) \subseteq Grid(j)
      /\ \A t \in DOMAIN job.tasks : job.tasks[t] \in Element
  BY JobParts DEF Present
<1>4. ids \in [Lists -> SUBSET Grid(j)]
  BY <1>3
<1>5. tasks \in [DOMAIN job.tasks -> Element]
  BY <1>3 DEF AreHolds, Element
<1>6. IsJob(j, b)
  <2> HIDE DEF ids, tasks
  <2> QED BY <1>2, <1>4, <1>5 DEF IsJob, SameLinks
<1>7. Listed(b) = Listed(job)
  <2>1. ASSUME NEW t \in Listed(b) PROVE t \in Listed(job)
    BY <1>2, <2>1 DEF Listed
  <2>2. ASSUME NEW t \in Listed(job) PROVE t \in Listed(b)
    <3>1. CASE t \in DOMAIN hold
      <4>1. PICK k \in Lists : k \in hold[t] \/ (k = "n" /\ hold[t] = {})
        BY <3>1 DEF AreHolds, Lists, Holds
      <4>2. t \in ids[k]
        BY <2>2, <3>1, <4>1
      <4> QED BY <1>2, <4>2 DEF Listed
    <3>2. CASE t \notin DOMAIN hold
      BY <1>2, <2>2, <3>2 DEF Listed
    <3> QED BY <3>1, <3>2
  <2> QED BY <2>1, <2>2
<1>8. \A t \in DOMAIN job.tasks : tasks[t].status = job.tasks[t].status
  BY <1>3 DEF Element
<1>9. SameTasks(job, b)
  BY <1>2, <1>7, <1>8 DEF SameTasks
<1>10. ASSUME NEW k \in Holds PROVE b.ids["n"] \cap b.ids[k] = {}
  <2>1. k # "n" /\ k \in Lists /\ "n" \in Lists /\ "n" \notin Holds
    BY DEF Holds, Lists
  <2>2. job.ids["n"] \cap job.ids[k] = {}
    BY DEF Sound
  <2>3. ASSUME NEW t \in In("n"), t \in In(k) PROVE FALSE
    <3>1. t \in DOMAIN hold /\ k \in hold[t]
      BY <2>1, <2>3
    <3>2. "n" \in hold[t]
      BY <3>1, <2>3
    <3> QED BY <2>1, <3>1, <3>2 DEF AreHolds
  <2>4. In("n") \cap In(k) = {}
    BY <2>3
  <2>5. ids["n"] \cap ids[k] = {}
    BY <2>1, <2>2, <2>4
  <2> QED BY <1>2, <2>5, Zenon
<1>11. Sound(b)
  BY <1>7, <1>9, <1>10 DEF Sound, SameTasks
<1>12. ASSUME NEW t \in Present(job)
       PROVE  job_get_hold_state(b, t) =
                IF t \in DOMAIN hold THEN hold[t] ELSE job_get_hold_state(job, t)
  <2>1. CASE t \in Listed(job)
    <3>1. job_get_hold_state(b, t) = {k \in Holds : t \in ids[k]}
      BY <1>2, <1>7, <2>1 DEF job_get_hold_state, job_is_enrolled
    <3>2. job_get_hold_state(job, t) = {k \in Holds : t \in job.ids[k]}
      BY <2>1 DEF job_get_hold_state, job_is_enrolled
    <3>3. \A k \in Holds : k # "n" /\ k \in Lists
      BY DEF Holds, Lists
    <3>4. \A k \in Holds : t \in ids[k] <=> IF t \in DOMAIN hold THEN k \in hold[t] ELSE t \in job.ids[k]
      BY <2>1, <3>3
    <3>5. t \in DOMAIN hold => hold[t] \subseteq Holds
      BY DEF AreHolds
    <3> HIDE DEF ids
    <3> QED BY <3>1, <3>2, <3>4, <3>5
  <2>2. CASE t \notin Listed(job)
    <3>1. t \in DOMAIN job.tasks
      BY <1>12, <2>2 DEF Present
    <3>2. job_get_hold_state(b, t) = tasks[t].hold /\ job_get_hold_state(job, t) = job.tasks[t].hold
      BY <1>2, <1>7, <2>2, <3>1 DEF job_get_hold_state, job_is_enrolled
    <3>3. tasks[t].hold = IF t \in DOMAIN hold THEN hold[t] ELSE job.tasks[t].hold
      BY <1>3, <2>2, <3>1 DEF Element, job_is_enrolled
    <3> QED BY <3>2, <3>3
  <2> QED BY <2>1, <2>2
<1> QED BY <1>2, <1>6, <1>9, <1>11, <1>12 DEF HeldAs

\* Kept is reflexive and transitive.
LEMMA KeptSelf ==
  ASSUME NEW i, NEW a, IsJob(i, a), Sound(a)
  PROVE  Kept(i, a, a)
BY DEF Kept, SameTasks, SameHolds

\* Two such changes make one.
LEMMA KeptTwice ==
  ASSUME NEW i, NEW a, NEW b, NEW c, Kept(i, a, b), Kept(i, b, c)
  PROVE  Kept(i, a, c)
<1>1. SameTasks(a, c)
  BY DEF Kept, SameTasks
<1>2. Present(b) = Present(a)
  BY DEF Kept, SameTasks, Present
<1>3. SameHolds(a, c)
  BY <1>2 DEF Kept, SameHolds
<1> QED BY <1>1, <1>3 DEF Kept

\* A job that is right is sound, and stays right when it is kept.
LEMMA RightIsSound ==
  ASSUME NEW j, NEW job, NEW E, NEW T, TasksRight(j, job, E, T)
  PROVE  IsJob(j, job) /\ Sound(job)
BY DEF TasksRight, Sound

\* Such a change agrees with the history of the job if the job did.
LEMMA KeptRight ==
  ASSUME NEW j, NEW a, NEW b, NEW E, NEW T, Kept(j, a, b)
  PROVE  /\ TasksRight(j, a, E, T) => TasksRight(j, b, E, T)
         /\ JobRight(j, a, E, T) => JobRight(j, b, E, T)
<1>1. Present(b) = Present(a)
  BY DEF Kept, SameTasks, Present
<1>2. ASSUME TasksRight(j, a, E, T) PROVE TasksRight(j, b, E, T)
  <2>1. \A t \in Grid(j) \ E : job_get_hold_state(b, t) \ {"a"} = T[t]
    <3>1. ASSUME NEW t \in Grid(j) \ E PROVE t \in Present(a)
      BY <1>2 DEF TasksRight
    <3> QED BY <1>2, <3>1 DEF TasksRight, Kept, SameHolds
  <2>2. \A t \in DOMAIN b.tasks : b.tasks[t].status = "finished" <=> t \in E
    BY <1>2 DEF TasksRight, Kept, SameTasks
  <2>3. IsJob(j, b) /\ \A k \in Holds : b.ids["n"] \cap b.ids[k] = {}
    BY DEF Kept, Sound
  <2>4. Listed(b) \cap (E \cup DOMAIN b.tasks) = {} /\ Grid(j) \subseteq E \cup Present(b)
    BY <1>1, <1>2 DEF TasksRight, Kept, SameTasks
  <2> QED BY <2>1, <2>2, <2>3, <2>4 DEF TasksRight
<1>3. ASSUME JobRight(j, a, E, T) PROVE JobRight(j, b, E, T)
  BY <1>1, <1>2, <1>3 DEF JobRight, Kept, SameTasks
<1> QED BY <1>2, <1>3

\* A change of the holds of the array dependency alone.
LEMMA DependencyHolds ==
  ASSUME NEW j, NEW job, IsJob(j, job), Sound(job), NEW hold,
         \A t \in DOMAIN hold : \/ hold[t] = job_get_hold_state(job, t) \cup {"a"}
                                \/ hold[t] = job_get_hold_state(job, t) \ {"a"},
         NEW b, b = job_set_hold_state(job, hold)
  PROVE  Kept(j, job, b) /\ SameLinks(job, b)
<1>1. AreHolds(hold)
  <2>1. "a" \in Holds
    BY DEF Holds
  <2> QED BY <2>1, HoldState DEF AreHolds
<1>2. /\ IsJob(j, b) /\ Sound(b) /\ SameTasks(job, b) /\ SameLinks(job, b)
      /\ HeldAs(job, b, hold)
  BY <1>1, SetHold
<1>3. SameHolds(job, b)
  BY <1>2 DEF HeldAs, SameHolds
<1> QED BY <1>2, <1>3 DEF Kept

\* sge_task_depend_update and sge_task_depend_flush change nothing else.
LEMMA UpdateKeeps ==
  ASSUME NEW js, NEW j, IsJob(j, js[j]), Sound(js[j]), NEW T,
         NEW b, b = sge_task_depend_update(js, j, T)
  PROVE  Kept(j, js[j], b) /\ SameLinks(js[j], b)
<1>1. PICK hold : hold = [t \in {x \in T : ~task_depend_is_finished(js[j], x)} |->
                            IF Depends(js, j, t) THEN job_get_hold_state(js[j], t) \cup {"a"}
                            ELSE job_get_hold_state(js[j], t) \ {"a"}]
  BY Zenon
<1>2. b = job_set_hold_state(js[j], hold)
  BY <1>1 DEF sge_task_depend_update
<1>3. \A t \in DOMAIN hold : \/ hold[t] = job_get_hold_state(js[j], t) \cup {"a"}
                             \/ hold[t] = job_get_hold_state(js[j], t) \ {"a"}
  BY <1>1
<1> QED BY <1>2, <1>3, DependencyHolds

\* sge_task_depend_flush removes holds of the array dependency only.
LEMMA FlushKeeps ==
  ASSUME NEW j, NEW job, IsJob(j, job), Sound(job),
         NEW b, b = sge_task_depend_flush(job, j)
  PROVE  Kept(j, job, b) /\ SameLinks(job, b)
<1>1. CASE b = job
  BY <1>1, KeptSelf DEF SameLinks
<1>2. CASE b # job
  <2>1. PICK hold : hold = [t \in job.ids.a \cup DOMAIN job.tasks |->
                              job_get_hold_state(job, t) \ {"a"}]
    BY Zenon
  <2>2. b = job_set_hold_state(job, hold)
    BY <1>2, <2>1 DEF sge_task_depend_flush
  <2>3. \A t \in DOMAIN hold : hold[t] = job_get_hold_state(job, t) \ {"a"}
    BY <2>1
  <2> QED BY <2>2, <2>3, DependencyHolds
<1> QED BY <1>1, <1>2

\* Linking a job to others and unlinking it keeps its tasks.
LEMMA LinkKeeps ==
  ASSUME NEW j, NEW job, IsJob(j, job), Sound(job),
         NEW b, IsJob(j, b), b.ids = job.ids, b.tasks = job.tasks
  PROVE  Kept(j, job, b)
<1>1. Listed(b) = Listed(job) /\ Present(b) = Present(job)
  BY DEF Listed, Present
<1>2. Sound(b) /\ SameTasks(job, b)
  BY <1>1 DEF Sound, SameTasks
<1>3. SameHolds(job, b)
  BY <1>1 DEF SameHolds, job_get_hold_state, job_is_enrolled
<1> QED BY <1>2, <1>3 DEF Kept

\* A link is removed.
LEMMA UnlinkKeeps ==
  ASSUME NEW i, NEW job, IsJob(i, job), Sound(job), NEW j,
         NEW b, b = [job EXCEPT !.ad = @ \ {j}] \/ b = [job EXCEPT !.jid = @ \ {j}]
  PROVE  /\ Kept(i, job, b)
         /\ b.jidsuc = job.jidsuc /\ b.adsuc = job.adsuc
         /\ b = [job EXCEPT !.ad = @ \ {j}] => b.jid = job.jid
         /\ b = [job EXCEPT !.jid = @ \ {j}] => b.jid = job.jid \ {j}
<1>1. /\ b.ids = job.ids /\ b.tasks = job.tasks
      /\ b.jidsuc = job.jidsuc /\ b.adsuc = job.adsuc
      /\ b = [job EXCEPT !.ad = @ \ {j}] => b.jid = job.jid
      /\ b = [job EXCEPT !.jid = @ \ {j}] => b.jid = job.jid \ {j}
  BY DEF IsJob
<1>2. IsJob(i, b)
  BY DEF IsJob
<1> QED BY <1>1, <1>2, LinkKeeps

-----------------------------------------------------------------------------
(* The master job list.                                                       *)

\* All jobs of a list can be worked on.
AllSound(js) ==
  js = [i \in DOMAIN js |-> js[i]] /\ \A i \in DOMAIN js : IsJob(i, js[i]) /\ Sound(js[i])

\* ks is the list js, except for the array dependency.
JobsKept(js, ks) ==
  /\ ks = [i \in DOMAIN js |-> ks[i]]
  /\ \A i \in DOMAIN js : /\ Kept(i, js[i], ks[i])
                          /\ ks[i].jid = js[i].jid
                          /\ ks[i].jidsuc = js[i].jidsuc /\ ks[i].adsuc = js[i].adsuc

\* A list that was changed in its array dependencies can be worked on.
LEMMA JobsKeptSound ==
  ASSUME NEW js, NEW ks, JobsKept(js, ks)
  PROVE  AllSound(ks) /\ DOMAIN ks = DOMAIN js
BY DEF JobsKept, AllSound, Kept

\* Two such changes make one.
LEMMA JobsKeptTwice ==
  ASSUME NEW js, NEW ks, NEW ls, JobsKept(js, ks), JobsKept(ks, ls)
  PROVE  JobsKept(js, ls)
<1>1. DOMAIN ks = DOMAIN js
  BY DEF JobsKept
<1> QED BY <1>1, KeptTwice DEF JobsKept

\* release_successor_jobs_ad and release_successor_tasks_ad leave the tasks of
\* the successors and the job itself alone.
LEMMA ReleaseAdKeeps ==
  ASSUME NEW js, AllSound(js), NEW j \in DOMAIN js,
         NEW ks, ks = release_successor_jobs_ad(js, j)
  PROVE  JobsKept(js, ks) /\ ks[j] = js[j]
<1>1. /\ ks = [i \in DOMAIN js |-> ks[i]]
      /\ \A i \in DOMAIN js :
           ks[i] = IF i \in js[j].adsuc
                   THEN sge_task_depend_flush([js[i] EXCEPT !.ad = @ \ {j}], i) ELSE js[i]
  BY DEF release_successor_jobs_ad
<1>2. j \notin js[j].adsuc
  BY DEF AllSound, IsJob
<1>3. ASSUME NEW i \in DOMAIN js
      PROVE  /\ Kept(i, js[i], ks[i])
             /\ ks[i].jid = js[i].jid
             /\ ks[i].jidsuc = js[i].jidsuc /\ ks[i].adsuc = js[i].adsuc
  <2>1. IsJob(i, js[i]) /\ Sound(js[i])
    BY DEF AllSound
  <2>2. CASE i \notin js[j].adsuc
    BY <1>1, <2>1, <2>2, KeptSelf, Zenon
  <2>3. CASE i \in js[j].adsuc
    <3>1. PICK a : a = [js[i] EXCEPT !.ad = @ \ {j}]
      BY Zenon
    <3>2. /\ Kept(i, js[i], a)
          /\ a.jid = js[i].jid /\ a.jidsuc = js[i].jidsuc /\ a.adsuc = js[i].adsuc
      BY <2>1, <3>1, UnlinkKeeps
    <3>3. Kept(i, a, ks[i]) /\ SameLinks(a, ks[i])
      BY <1>1, <2>3, <3>1, <3>2, FlushKeeps DEF Kept
    <3> QED BY <3>2, <3>3, KeptTwice DEF SameLinks
  <2> QED BY <2>2, <2>3
<1> QED BY <1>1, <1>2, <1>3, Zenon DEF JobsKept

\* The release of the tasks that wait for task t of job j.
LEMMA ReleaseTasksKeeps ==
  ASSUME NEW js, AllSound(js), NEW j \in DOMAIN js, NEW t,
         NEW ks, ks = release_successor_tasks_ad(js, j, t)
  PROVE  JobsKept(js, ks) /\ ks[j] = js[j]
<1>1. /\ ks = [i \in DOMAIN js |-> ks[i]]
      /\ \A i \in DOMAIN js :
           ks[i] = IF i \in js[j].adsuc
                   THEN sge_task_depend_update(js, i, sge_task_depend_get_range(i, j, t))
                   ELSE js[i]
  BY DEF release_successor_tasks_ad
<1>2. j \notin js[j].adsuc
  BY DEF AllSound, IsJob
<1>3. ASSUME NEW i \in DOMAIN js
      PROVE  Kept(i, js[i], ks[i]) /\ SameLinks(js[i], ks[i])
  <2>1. IsJob(i, js[i]) /\ Sound(js[i])
    BY DEF AllSound
  <2>2. CASE i \notin js[j].adsuc
    BY <1>1, <2>1, <2>2, KeptSelf DEF SameLinks
  <2>3. CASE i \in js[j].adsuc
    <3>1. PICK T : T = sge_task_depend_get_range(i, j, t)
      OBVIOUS
    <3> QED BY <1>1, <2>1, <2>3, <3>1, UpdateKeeps
  <2> QED BY <2>2, <2>3
<1> QED BY <1>1, <1>2, <1>3 DEF JobsKept, SameLinks

\* release_successor_jobs takes the job off the lists of those that wait for it.
LEMMA ReleaseJobs ==
  ASSUME NEW js, AllSound(js), NEW j \in DOMAIN js, NEW ks, ks = release_successor_jobs(js, j)
  PROVE  /\ ks = [i \in DOMAIN js |-> ks[i]] /\ ks[j] = js[j]
         /\ \A i \in DOMAIN js : /\ Kept(i, js[i], ks[i])
                                 /\ ks[i].jid = js[i].jid \/ ks[i].jid = js[i].jid \ {j}
<1>1. /\ ks = [i \in DOMAIN js |-> ks[i]]
      /\ \A i \in DOMAIN js :
           ks[i] = IF i \in js[j].jidsuc THEN [js[i] EXCEPT !.jid = @ \ {j}] ELSE js[i]
  BY DEF release_successor_jobs
<1>2. j \notin js[j].jidsuc
  BY DEF AllSound, IsJob
<1>3. ASSUME NEW i \in DOMAIN js
      PROVE  Kept(i, js[i], ks[i]) /\ (ks[i].jid = js[i].jid \/ ks[i].jid = js[i].jid \ {j})
  <2>1. IsJob(i, js[i]) /\ Sound(js[i])
    BY DEF AllSound
  <2>2. CASE i \notin js[j].jidsuc
    BY <1>1, <2>1, <2>2, KeptSelf, Zenon
  <2>3. CASE i \in js[j].jidsuc
    <3>1. PICK a : a = [js[i] EXCEPT !.jid = @ \ {j}]
      BY Zenon
    <3>2. Kept(i, js[i], a) /\ a.jid = js[i].jid \ {j}
      BY <2>1, <3>1, UnlinkKeeps
    <3> QED BY <1>1, <2>3, <3>1, <3>2, Zenon
  <2> QED BY <2>2, <2>3
<1> QED BY <1>1, <1>2, <1>3, Zenon

\* sge_finish_ja_task keeps all tasks, and takes the job off the lists of its
\* successors only if nothing of it is left to do.
LEMMA FinishKeeps ==
  ASSUME NEW js, AllSound(js), NEW j \in DOMAIN js, NEW t,
         NEW ks, ks = sge_finish_ja_task(js, j, t)
  PROVE  /\ ks = [i \in DOMAIN js |-> ks[i]] /\ ks[j] = js[j]
         /\ \A i \in DOMAIN js :
              /\ Kept(i, js[i], ks[i])
              /\ \/ ks[i].jid = js[i].jid
                 \/ JobDone(js[j]) /\ ks[i].jid = js[i].jid \ {j}
<1>1. PICK as : as = release_successor_jobs_ad(js, j)
  OBVIOUS
<1>2. JobsKept(js, as) /\ as[j] = js[j] /\ AllSound(as) /\ DOMAIN as = DOMAIN js
  BY <1>1, ReleaseAdKeeps, JobsKeptSound
<1>3. PICK bs : bs = release_successor_tasks_ad(as, j, t)
  BY Zenon
<1>4. JobsKept(as, bs) /\ bs[j] = js[j]
  BY <1>2, <1>3, ReleaseTasksKeeps, Zenon
<1>5. JobsKept(js, bs) /\ AllSound(bs) /\ DOMAIN bs = DOMAIN js
  BY <1>2, <1>4, JobsKeptTwice, JobsKeptSound, Zenon
<1>6. ks = IF JobDone(js[j]) THEN release_successor_jobs(bs, j) ELSE bs
  BY <1>1, <1>3, <1>4 DEF sge_finish_ja_task, ReleaseIfDone
<1>7. CASE ~JobDone(js[j])
  BY <1>4, <1>5, <1>6, <1>7 DEF JobsKept
<1>8. CASE JobDone(js[j])
  <2>1. /\ ks = [i \in DOMAIN bs |-> ks[i]] /\ ks[j] = bs[j]
        /\ \A i \in DOMAIN bs : /\ Kept(i, bs[i], ks[i])
                                /\ ks[i].jid = bs[i].jid \/ ks[i].jid = bs[i].jid \ {j}
    BY <1>5, <1>6, <1>8, ReleaseJobs
  <2>2. \A i \in DOMAIN js : Kept(i, js[i], ks[i])
    BY <1>5, <2>1, KeptTwice DEF JobsKept
  <2> QED BY <1>4, <1>5, <1>8, <2>1, <2>2 DEF JobsKept
<1> QED BY <1>7, <1>8

-----------------------------------------------------------------------------
(* The links of the array dependency.                                         *)

\* Job b waits for the jobs that job a, job j before, waited for task by task.
SameDeps(j, a, b) ==
  b.ad = a.ad /\ b.adsuc = a.adsuc /\ (HoldsGone(j, a) => HoldsGone(j, b))

\* Job b waits for no more jobs than job a, job j before, and has its tasks.
FewerDeps(j, a, b) ==
  b.ad \subseteq a.ad /\ b.adsuc = a.adsuc /\ SameTasks(a, b) /\ HoldsGone(j, b)

\* No job waits for job j task by task.
Unawaited(js, j) == \A i \in DOMAIN js : j \notin js[i].ad

\* A job whose tasks have the holds of the array dependency they had, or fewer.
LEMMA DepsSame ==
  ASSUME NEW j, NEW a, NEW b, b.ad = a.ad, b.adsuc = a.adsuc,
         \A t \in Present(b) : "a" \in job_get_hold_state(b, t) =>
                                 t \in Present(a) /\ "a" \in job_get_hold_state(a, t)
  PROVE  SameDeps(j, a, b)
BY DEF SameDeps, HoldsGone

\* Links that go do not disturb the others.
LEMMA LinkedKept ==
  ASSUME NEW js, NEW X, Linked(js, X), NEW ks, DOMAIN ks = DOMAIN js,
         \A i \in DOMAIN js : FewerDeps(i, js[i], ks[i])
  PROVE  Linked(ks, X)
<1>1. ASSUME NEW p \in DOMAIN js PROVE Unfinished(ks, p) = Unfinished(js, p)
  BY DEF Unfinished, FewerDeps, SameTasks
<1>2. ASSUME NEW j \in DOMAIN ks
      PROVE  /\ ks[j].ad \subseteq conf.ad[j] \cap DOMAIN ks /\ HoldsGone(j, ks[j])
             /\ \A p \in ks[j].ad : j \in ks[p].adsuc /\ (p \in X \/ Unfinished(ks, p) # {})
  BY <1>1 DEF Linked, FewerDeps
<1> QED BY <1>2 DEF Linked

\* sge_task_depend_update holds no task of a job that waits for none.
LEMMA UpdateGone ==
  ASSUME NEW js, NEW j, IsJob(j, js[j]), Sound(js[j]), HoldsGone(j, js[j]), NEW T,
         NEW b, b = sge_task_depend_update(js, j, T)
  PROVE  HoldsGone(j, b)
<1>1. Kept(j, js[j], b) /\ SameLinks(js[j], b)
  BY UpdateKeeps
<1>2. SUFFICES ASSUME b.ad = {}, NEW t \in Present(b), "a" \in job_get_hold_state(b, t)
               PROVE  OpenRange(j, t)
  BY DEF HoldsGone
<1>3. js[j].ad = {} /\ t \in Present(js[j])
  BY <1>1, <1>2 DEF Kept, SameTasks, SameLinks, Present
<1>4. PICK hold : hold = [x \in {y \in T : ~task_depend_is_finished(js[j], y)} |->
                            job_get_hold_state(js[j], x) \ {"a"}]
  BY Zenon
<1>5. b = job_set_hold_state(js[j], hold)
  <2>1. \A x : ~Depends(js, j, x)
    BY <1>3 DEF Depends
  <2> QED BY <1>4, <2>1, Zenon DEF sge_task_depend_update
<1>6. HeldAs(js[j], b, hold)
  <2>1. AreHolds(hold)
    BY <1>4, HoldState DEF AreHolds
  <2> QED BY <1>5, <2>1, SetHold
<1>7. "a" \in job_get_hold_state(js[j], t)
  BY <1>2, <1>3, <1>4, <1>6 DEF HeldAs
<1> QED BY <1>3, <1>7 DEF HoldsGone

\* sge_task_depend_flush leaves no such hold when the last link has gone.
LEMMA FlushGone ==
  ASSUME NEW j, NEW job, IsJob(j, job), Sound(job), conf.ad[j] = {} => HoldsGone(j, job),
         NEW b, b = sge_task_depend_flush(job, j)
  PROVE  HoldsGone(j, b)
<1>1. CASE conf.ad[j] = {}
  BY <1>1 DEF sge_task_depend_flush
<1>2. CASE job.ad # {}
  BY <1>2 DEF sge_task_depend_flush, HoldsGone
<1>3. CASE conf.ad[j] # {} /\ job.ad = {}
  <2>1. PICK hold : hold = [t \in job.ids.a \cup DOMAIN job.tasks |->
                              job_get_hold_state(job, t) \ {"a"}]
    BY Zenon
  <2>2. b = job_set_hold_state(job, hold)
    BY <1>3, <2>1 DEF sge_task_depend_flush
  <2>3. SameTasks(job, b) /\ HeldAs(job, b, hold)
    <3>1. AreHolds(hold)
      BY <2>1, HoldState DEF AreHolds
    <3> QED BY <2>2, <3>1, SetHold
  <2>4. ASSUME NEW t \in Present(b) PROVE "a" \notin job_get_hold_state(b, t)
    <3>1. t \in Present(job)
      BY <2>3 DEF SameTasks, Present
    <3>2. CASE t \in DOMAIN hold
      BY <2>1, <2>3, <3>1, <3>2, Zenon DEF HeldAs
    <3>3. CASE t \notin DOMAIN hold
      <4>1. t \in Listed(job) /\ t \notin job.ids["a"]
        BY <2>1, <3>1, <3>3 DEF Present
      <4>2. job_get_hold_state(b, t) = {k \in Holds : t \in job.ids[k]}
        BY <2>3, <3>1, <3>3, <4>1, Zenon DEF HeldAs, job_get_hold_state, job_is_enrolled
      <4> QED BY <4>1, <4>2
    <3> QED BY <3>2, <3>3
  <2> QED BY <2>4 DEF HoldsGone
<1> QED BY <1>1, <1>2, <1>3

\* release_successor_jobs_ad: no job waits for job j any more.
LEMMA ReleaseAdLinks ==
  ASSUME NEW js, AllSound(js), NEW j \in DOMAIN js, Linked(js, {j}),
         NEW ks, ks = release_successor_jobs_ad(js, j)
  PROVE  Linked(ks, {}) /\ Unawaited(ks, j)
<1>1. /\ DOMAIN ks = DOMAIN js
      /\ \A i \in DOMAIN js :
           ks[i] = IF i \in js[j].adsuc
                   THEN sge_task_depend_flush([js[i] EXCEPT !.ad = @ \ {j}], i) ELSE js[i]
  BY DEF release_successor_jobs_ad
<1>2. ASSUME NEW i \in DOMAIN js
      PROVE  FewerDeps(i, js[i], ks[i]) /\ j \notin ks[i].ad
  <2>1. /\ IsJob(i, js[i]) /\ Sound(js[i]) /\ HoldsGone(i, js[i])
        /\ js[i].ad \subseteq conf.ad[i] /\ (j \in js[i].ad => i \in js[j].adsuc)
    BY DEF AllSound, Linked
  <2>2. CASE i \notin js[j].adsuc
    BY <1>1, <2>1, <2>2, Zenon DEF FewerDeps, SameTasks
  <2>3. CASE i \in js[j].adsuc
    <3>1. PICK a : a = [js[i] EXCEPT !.ad = @ \ {j}]
      BY Zenon
    <3>2. a.ad = js[i].ad \ {j} /\ (js[i].ad = {} => a = js[i])
      BY <2>1, <3>1 DEF IsJob
    <3>3. Kept(i, js[i], a) /\ a.adsuc = js[i].adsuc /\ IsJob(i, a) /\ Sound(a)
      <4>1. Kept(i, js[i], a) /\ a.adsuc = js[i].adsuc
        BY <2>1, <3>1, UnlinkKeeps
      <4> QED BY <4>1 DEF Kept
    <3>4. Kept(i, a, ks[i]) /\ SameLinks(a, ks[i])
      BY <1>1, <2>3, <3>1, <3>3, FlushKeeps
    <3>5. HoldsGone(i, ks[i])
      <4>1. conf.ad[i] = {} => HoldsGone(i, a)
        BY <2>1, <3>2
      <4> QED BY <1>1, <2>3, <3>1, <3>3, <4>1, FlushGone
    <3>6. SameTasks(js[i], ks[i])
      BY <3>3, <3>4 DEF Kept, SameTasks
    <3> QED BY <3>2, <3>3, <3>4, <3>5, <3>6 DEF FewerDeps, SameLinks
  <2> QED BY <2>2, <2>3
<1>3. PICK X : X = {j}
  OBVIOUS
<1>4. Linked(ks, X)
  BY <1>1, <1>2, <1>3, LinkedKept
<1>5. Unawaited(ks, j)
  BY <1>1, <1>2 DEF Unawaited
<1> QED BY <1>3, <1>4, <1>5 DEF Linked, Unawaited

\* release_successor_tasks_ad keeps the links.
LEMMA ReleaseTasksLinks ==
  ASSUME NEW js, AllSound(js), NEW j \in DOMAIN js, NEW t, NEW X, Linked(js, X),
         NEW ks, ks = release_successor_tasks_ad(js, j, t)
  PROVE  Linked(ks, X) /\ (Unawaited(js, j) => Unawaited(ks, j))
<1>1. /\ DOMAIN ks = DOMAIN js
      /\ \A i \in DOMAIN js :
           ks[i] = IF i \in js[j].adsuc
                   THEN sge_task_depend_update(js, i, sge_task_depend_get_range(i, j, t))
                   ELSE js[i]
  BY DEF release_successor_tasks_ad
<1>2. ASSUME NEW i \in DOMAIN js
      PROVE  FewerDeps(i, js[i], ks[i])
  <2>1. IsJob(i, js[i]) /\ Sound(js[i]) /\ HoldsGone(i, js[i])
    BY DEF AllSound, Linked
  <2>2. CASE i \notin js[j].adsuc
    BY <1>1, <2>1, <2>2 DEF FewerDeps, SameTasks
  <2>3. CASE i \in js[j].adsuc
    <3>1. PICK T : T = sge_task_depend_get_range(i, j, t)
      OBVIOUS
    <3>2. ks[i] = sge_task_depend_update(js, i, T)
      BY <1>1, <2>3, <3>1
    <3>3. Kept(i, js[i], ks[i]) /\ SameLinks(js[i], ks[i])
      BY <2>1, <3>2, UpdateKeeps
    <3>4. HoldsGone(i, ks[i])
      BY <2>1, <3>2, UpdateGone
    <3> QED BY <3>3, <3>4 DEF FewerDeps, Kept, SameLinks
  <2> QED BY <2>2, <2>3
<1>3. Linked(ks, X)
  BY <1>1, <1>2, LinkedKept
<1> QED BY <1>1, <1>2, <1>3 DEF Unawaited, FewerDeps

\* release_successor_jobs does not touch them.
LEMMA ReleaseJobsLinks ==
  ASSUME NEW js, AllSound(js), NEW j \in DOMAIN js, NEW X, Linked(js, X),
         NEW ks, ks = release_successor_jobs(js, j)
  PROVE  Linked(ks, X) /\ (Unawaited(js, j) => Unawaited(ks, j))
<1>1. /\ DOMAIN ks = DOMAIN js
      /\ \A i \in DOMAIN js :
           ks[i] = IF i \in js[j].jidsuc THEN [js[i] EXCEPT !.jid = @ \ {j}] ELSE js[i]
  BY DEF release_successor_jobs
<1>2. ASSUME NEW i \in DOMAIN js
      PROVE  FewerDeps(i, js[i], ks[i])
  <2>1. IsJob(i, js[i]) /\ HoldsGone(i, js[i])
    BY DEF AllSound, Linked
  <2>2. /\ ks[i].ids = js[i].ids /\ ks[i].tasks = js[i].tasks
        /\ ks[i].ad = js[i].ad /\ ks[i].adsuc = js[i].adsuc
    BY <1>1, <2>1 DEF IsJob
  <2>3. Listed(ks[i]) = Listed(js[i]) /\ Present(ks[i]) = Present(js[i])
    BY <2>2 DEF Listed, Present
  <2>4. \A x : job_get_hold_state(ks[i], x) = job_get_hold_state(js[i], x)
    BY <2>2, <2>3 DEF job_get_hold_state, job_is_enrolled
  <2> QED BY <2>1, <2>2, <2>3, <2>4 DEF FewerDeps, SameTasks, HoldsGone
<1>3. Linked(ks, X)
  BY <1>1, <1>2, LinkedKept
<1> QED BY <1>1, <1>2, <1>3 DEF Unawaited, FewerDeps

\* sge_finish_ja_task: no job waits for job j any more.
LEMMA FinishLinks ==
  ASSUME NEW js, AllSound(js), NEW j \in DOMAIN js, Linked(js, {j}), NEW t,
         NEW ks, ks = sge_finish_ja_task(js, j, t)
  PROVE  Linked(ks, {}) /\ Unawaited(ks, j)
<1>1. PICK as, bs, X : /\ as = release_successor_jobs_ad(js, j)
                       /\ bs = release_successor_tasks_ad(as, j, t) /\ X = {}
  BY Zenon
<1>2. AllSound(as) /\ j \in DOMAIN as /\ Linked(as, X) /\ Unawaited(as, j)
  BY <1>1, ReleaseAdKeeps, ReleaseAdLinks, JobsKeptSound
<1>3. AllSound(bs) /\ j \in DOMAIN bs /\ Linked(bs, X) /\ Unawaited(bs, j)
  BY <1>1, <1>2, ReleaseTasksKeeps, ReleaseTasksLinks, JobsKeptSound
<1>4. ks = bs \/ ks = release_successor_jobs(bs, j)
  BY <1>1 DEF sge_finish_ja_task, ReleaseIfDone
<1>5. Linked(ks, X) /\ Unawaited(ks, j)
  BY <1>3, <1>4, ReleaseJobsLinks
<1> QED BY <1>1, <1>5

\* Job j is replaced: what waits for it may find it done.
LEMMA ReplaceLinks ==
  ASSUME NEW js, js = [i \in DOMAIN js |-> js[i]], NEW j \in DOMAIN js, Linked(js, {}),
         NEW b, SameDeps(j, js[j], b), NEW ks, ks = [js EXCEPT ![j] = b]
  PROVE  Linked(ks, {j})
<1>1. /\ DOMAIN ks = DOMAIN js /\ ks[j] = b
      /\ \A i \in DOMAIN js \ {j} : ks[i] = js[i]
  OBVIOUS
<1>2. \A i \in DOMAIN js : ks[i].ad = js[i].ad /\ ks[i].adsuc = js[i].adsuc
  BY <1>1 DEF SameDeps
<1>3. \A i \in DOMAIN js : HoldsGone(i, ks[i])
  BY <1>1 DEF SameDeps, Linked
<1>4. \A p \in DOMAIN js \ {j} : Unfinished(ks, p) = Unfinished(js, p)
  BY <1>1 DEF Unfinished
<1>5. ASSUME NEW i \in DOMAIN ks
      PROVE  /\ ks[i].ad \subseteq conf.ad[i] \cap DOMAIN ks /\ HoldsGone(i, ks[i])
             /\ \A p \in ks[i].ad : i \in ks[p].adsuc /\ (p \in {j} \/ Unfinished(ks, p) # {})
  <2>1. /\ js[i].ad \subseteq conf.ad[i] \cap DOMAIN js
        /\ \A p \in js[i].ad : i \in js[p].adsuc /\ Unfinished(js, p) # {}
    BY <1>1 DEF Linked
  <2> QED BY <1>1, <1>2, <1>3, <1>4, <2>1, Zenon
<1> QED BY <1>5, Zenon DEF Linked

\* That does not matter if none does, or if it has a task left.
LEMMA LinkedAgain ==
  ASSUME NEW js, NEW j, Linked(js, {j}), Unawaited(js, j) \/ Unfinished(js, j) # {}
  PROVE  Linked(js, {})
BY DEF Linked, Unawaited

\* A job that none waits for leaves the list.
LEMMA DropLinks ==
  ASSUME NEW js, Linked(js, {}), NEW j, Unawaited(js, j),
         NEW ks, ks = [i \in DOMAIN js \ {j} |-> js[i]]
  PROVE  Linked(ks, {})
<1>1. DOMAIN ks = DOMAIN js \ {j} /\ \A i \in DOMAIN ks : ks[i] = js[i]
  OBVIOUS
<1>2. \A p \in DOMAIN ks : Unfinished(ks, p) = Unfinished(js, p)
  BY <1>1 DEF Unfinished
<1>3. ASSUME NEW i \in DOMAIN ks
      PROVE  /\ ks[i].ad \subseteq conf.ad[i] \cap DOMAIN ks /\ HoldsGone(i, ks[i])
             /\ \A p \in ks[i].ad : i \in ks[p].adsuc /\ Unfinished(ks, p) # {}
  BY <1>1, <1>2, Zenon DEF Linked, Unawaited
<1> QED BY <1>3, Zenon DEF Linked

\* Jobs that are left as they were wait as before for jobs that are left.
LEMMA FewerLinks ==
  ASSUME NEW js, NEW ks, Linked(js, {}), DOMAIN ks \subseteq DOMAIN js,
         \A p \in DOMAIN ks : SameDeps(p, js[p], ks[p]),
         \A p \in DOMAIN js : Unfinished(js, p) # {} => p \in DOMAIN ks /\ Unfinished(ks, p) # {}
  PROVE  Linked(ks, {})
<1>1. ASSUME NEW i \in DOMAIN ks
      PROVE  /\ ks[i].ad \subseteq conf.ad[i] \cap DOMAIN ks /\ HoldsGone(i, ks[i])
             /\ \A p \in ks[i].ad : i \in ks[p].adsuc /\ Unfinished(ks, p) # {}
  <2>1. /\ js[i].ad \subseteq conf.ad[i] \cap DOMAIN js /\ HoldsGone(i, js[i])
        /\ \A p \in js[i].ad : i \in js[p].adsuc /\ Unfinished(js, p) # {}
    BY DEF Linked
  <2>2. \A p \in DOMAIN ks : ks[p].ad = js[p].ad /\ ks[p].adsuc = js[p].adsuc
    BY DEF SameDeps
  <2>3. HoldsGone(i, ks[i])
    BY <2>1 DEF SameDeps
  <2> QED BY <2>1, <2>2, <2>3, Zenon
<1> QED BY <1>1 DEF Linked

-----------------------------------------------------------------------------
(* The changes of one job.                                                    *)

\* The id or the element of a task is removed.
RemovedTask(job, t) ==
  IF job_is_enrolled(job, t) THEN [job EXCEPT !.tasks = Restrict(@, DOMAIN @ \ {t})]
  ELSE job_delete_not_enrolled_ja_task(job, t)

\* A task that is removed counts as ended.
LEMMA RemovedRight ==
  ASSUME NEW j, NEW job, NEW E, NEW T, TasksRight(j, job, E, T),
         NEW t \in Present(job), NEW b, b = RemovedTask(job, t)
  PROVE  /\ TasksRight(j, b, E \cup {t}, T)
         /\ Present(b) = Present(job) \ {t}
         /\ Listed(b) \subseteq Listed(job)
         /\ DOMAIN b.tasks = DOMAIN job.tasks \ {t}
         /\ \A x \in DOMAIN b.tasks : b.tasks[x] = job.tasks[x]
         /\ b.jid = job.jid /\ SameDeps(j, job, b)
<1>0. IsJob(j, job) /\ Sound(job) /\ Listed(job) \cap DOMAIN job.tasks = {}
  BY RightIsSound DEF Sound
<1>1. CASE job_is_enrolled(job, t)
  <2>1. t \notin Listed(job) /\ t \in DOMAIN job.tasks
    BY <1>1 DEF job_is_enrolled, Present
  <2>2. b = [job EXCEPT !.tasks = [x \in DOMAIN job.tasks \ {t} |-> job.tasks[x]]]
    BY <1>1 DEF RemovedTask, Restrict
  <2>3. /\ b.ids = job.ids /\ b.tasks = [x \in DOMAIN job.tasks \ {t} |-> job.tasks[x]]
        /\ b.jid = job.jid /\ b.ad = job.ad /\ b.adsuc = job.adsuc
    BY <1>0, <2>2 DEF IsJob
  <2>4. IsJob(j, b)
    BY <1>0, <2>2 DEF IsJob
  <2>5. Listed(b) = Listed(job)
    BY <2>3 DEF Listed
  <2>6. Present(b) = Present(job) \ {t}
    BY <2>1, <2>3, <2>5 DEF Present
  <2>7. ASSUME NEW x, x # t PROVE job_get_hold_state(b, x) = job_get_hold_state(job, x)
    BY <2>3, <2>5, <2>7 DEF job_get_hold_state, job_is_enrolled
  <2>8. TasksRight(j, b, E \cup {t}, T)
    BY <2>1, <2>3, <2>4, <2>5, <2>6, <2>7 DEF TasksRight
  <2>9. SameDeps(j, job, b)
    BY <2>3, <2>6, <2>7, DepsSame
  <2> QED BY <2>3, <2>5, <2>6, <2>8, <2>9
<1>2. CASE ~job_is_enrolled(job, t)
  <2>1. t \in Listed(job) /\ t \notin DOMAIN job.tasks
    BY <1>0, <1>2 DEF job_is_enrolled
  <2>2. b = [job EXCEPT !.ids = [k \in Lists |-> job.ids[k] \ {t}]]
    BY <1>2 DEF RemovedTask, job_delete_not_enrolled_ja_task
  <2>3. /\ b.ids = [k \in Lists |-> job.ids[k] \ {t}] /\ b.tasks = job.tasks
        /\ b.jid = job.jid /\ b.ad = job.ad /\ b.adsuc = job.adsuc
    BY <1>0, <2>2 DEF IsJob
  <2>4. IsJob(j, b)
    BY <1>0, <2>2 DEF IsJob
  <2>5. Listed(b) = Listed(job) \ {t}
    BY <2>3 DEF Listed
  <2>6. Present(b) = Present(job) \ {t}
    BY <2>1, <2>3, <2>5 DEF Present
  <2>7. ASSUME NEW x, x # t PROVE job_get_hold_state(b, x) = job_get_hold_state(job, x)
    <3>1. \A k \in Holds : x \in b.ids[k] <=> x \in job.ids[k]
      BY <2>3, <2>7 DEF Lists
    <3> QED BY <2>3, <2>5, <2>7, <3>1, Zenon DEF job_get_hold_state, job_is_enrolled
  <2>8. \A k \in Holds : b.ids["n"] \cap b.ids[k] = {}
    BY <2>3 DEF TasksRight, Lists
  <2>9. TasksRight(j, b, E \cup {t}, T)
    BY <2>1, <2>3, <2>4, <2>5, <2>6, <2>7, <2>8 DEF TasksRight
  <2>10. SameDeps(j, job, b)
    BY <2>3, <2>6, <2>7, DepsSame
  <2> QED BY <2>1, <2>3, <2>5, <2>6, <2>9, <2>10
<1> QED BY <1>1, <1>2

\* The job with another status of task t.
WithStatus(job, t, st) == [job EXCEPT !.tasks[t].status = st]

\* With status st of task t, the tasks F ended instead of the tasks E.
EndsWith(job, t, st, E, F) ==
  /\ t \in DOMAIN job.tasks \ E /\ st \in {"idle", "running", "finished"}
  /\ (st = "finished" /\ F = E \cup {t}) \/ (st # "finished" /\ F = E)

\* Job b is right with this status and has everything else from job.
StatusIs(j, job, b, F, T, t, st) ==
  /\ TasksRight(j, b, F, T)
  /\ Listed(b) = Listed(job) /\ Present(b) = Present(job)
  /\ DOMAIN b.tasks = DOMAIN job.tasks
  /\ b.tasks[t].status = st
  /\ \A x \in DOMAIN b.tasks \ {t} : b.tasks[x] = job.tasks[x]
  /\ b.jid = job.jid /\ SameDeps(j, job, b)

\* The status of an element changes.
LEMMA StatusRight ==
  ASSUME NEW j, NEW job, NEW E, NEW T, TasksRight(j, job, E, T), NEW t, NEW st, NEW F,
         EndsWith(job, t, st, E, F), NEW b, b = WithStatus(job, t, st)
  PROVE  StatusIs(j, job, b, F, T, t, st)
<1> SUFFICES ASSUME t \in DOMAIN job.tasks \ E, st \in {"idle", "running", "finished"},
                    (st = "finished" /\ F = E \cup {t}) \/ (st # "finished" /\ F = E),
                    b = [job EXCEPT !.tasks[t].status = st]
             PROVE  /\ TasksRight(j, b, F, T)
                    /\ Listed(b) = Listed(job) /\ Present(b) = Present(job)
                    /\ DOMAIN b.tasks = DOMAIN job.tasks
                    /\ b.tasks[t].status = st
                    /\ \A x \in DOMAIN b.tasks \ {t} : b.tasks[x] = job.tasks[x]
                    /\ b.jid = job.jid /\ SameDeps(j, job, b)
  BY Zenon DEF EndsWith, StatusIs, WithStatus
<1>0. IsJob(j, job) /\ Sound(job) /\ \A x \in DOMAIN job.tasks : job.tasks[x] \in Element
  BY RightIsSound, JobParts
<1>1. PICK e : e = [job.tasks[t] EXCEPT !.status = st]
  BY Zenon
<1>2. e \in Element /\ e.status = st /\ e.hold = job.tasks[t].hold
  BY <1>0, <1>1 DEF Element
<1>3. PICK tasks : tasks = [job.tasks EXCEPT ![t] = e]
  BY Zenon
<1>4. /\ DOMAIN tasks = DOMAIN job.tasks /\ tasks[t] = e
      /\ \A x \in DOMAIN tasks \ {t} : tasks[x] = job.tasks[x]
      /\ tasks \in [DOMAIN job.tasks -> Element]
  BY <1>0, <1>2, <1>3, Zenon
<1>5. b = [job EXCEPT !.tasks = tasks]
  BY <1>1, <1>3
<1>6. /\ b.ids = job.ids /\ b.tasks = tasks
      /\ b.jid = job.jid /\ b.ad = job.ad /\ b.adsuc = job.adsuc
      /\ IsJob(j, b)
  BY <1>0, <1>4, <1>5 DEF IsJob
<1>7. Listed(b) = Listed(job) /\ Present(b) = Present(job)
  BY <1>4, <1>6 DEF Listed, Present
<1>8. \A x : job_get_hold_state(b, x) = job_get_hold_state(job, x)
  BY <1>2, <1>4, <1>6, <1>7 DEF job_get_hold_state, job_is_enrolled
<1>9. \A x \in DOMAIN tasks : tasks[x].status = "finished" <=> x \in F
  BY <1>2, <1>4 DEF TasksRight
<1>10. TasksRight(j, b, F, T)
  <2>1. Listed(b) \cap (F \cup DOMAIN b.tasks) = {}
    BY <1>4, <1>6, <1>7 DEF TasksRight
  <2>2. \A k \in Holds : b.ids["n"] \cap b.ids[k] = {}
    BY <1>6 DEF TasksRight
  <2>3. Grid(j) \subseteq F \cup Present(b) /\ Grid(j) \ F \subseteq Grid(j) \ E
    BY <1>7 DEF TasksRight
  <2>4. \A x \in Grid(j) \ F : job_get_hold_state(b, x) \ {"a"} = T[x]
    BY <1>8, <2>3 DEF TasksRight
  <2> QED BY <1>6, <1>9, <2>1, <2>2, <2>3, <2>4, Zenon DEF TasksRight
<1>11. SameDeps(j, job, b)
  BY <1>6, <1>7, <1>8, DepsSame, Zenon
<1> QED BY <1>2, <1>4, <1>6, <1>7, <1>10, <1>11

\* Job b is right and differs from job in the element of task t at most.
OneElement(j, job, b, E, T, t) ==
  /\ JobRight(j, b, E, T) /\ b.jid = job.jid /\ SameDeps(j, job, b)
  /\ t \in DOMAIN b.tasks
  /\ \A x \in DOMAIN b.tasks \ {t} : x \in DOMAIN job.tasks /\ b.tasks[x] = job.tasks[x]

\* The status is the only change of the job.
StatusSetTo(j, job, b, E, T, t, st) ==
  OneElement(j, job, b, E, T, t) /\ b.tasks[t].status = st

\* A task that did not end becomes idle or runs.
LEMMA StatusSet ==
  ASSUME NEW j, NEW job, NEW E, NEW T, JobRight(j, job, E, T), NEW t, NEW st, st # "finished",
         EndsWith(job, t, st, E, E), NEW b, b = WithStatus(job, t, st)
  PROVE  StatusSetTo(j, job, b, E, T, t, st)
<1>1. TasksRight(j, job, E, T)
  BY DEF JobRight
<1>2. StatusIs(j, job, b, E, T, t, st)
  BY <1>1, StatusRight, Zenon
<1>3. JobRight(j, b, E, T)
  BY <1>2 DEF JobRight, StatusIs
<1> QED BY <1>2, <1>3 DEF OneElement, StatusIs, EndsWith, StatusSetTo

\* b is the job with a new element for the task t.
WithElement(job, b, t) ==
  /\ Present(b) = Present(job)
  /\ DOMAIN b.tasks = DOMAIN job.tasks \cup {t}
  /\ b.tasks[t] = [status |-> "idle", hold |-> {}]
  /\ \A x \in DOMAIN job.tasks : x # t /\ b.tasks[x] = job.tasks[x]
  /\ b.jid = job.jid /\ b.ad = job.ad /\ b.adsuc = job.adsuc

\* A task without a hold gets an element.
LEMMA EnrollRight ==
  ASSUME NEW j, NEW job, NEW E, NEW T, TasksRight(j, job, E, T),
         NEW t \in job.ids["n"], NEW b, b = job_enroll(job, t)
  PROVE  /\ TasksRight(j, b, E, T) /\ WithElement(job, b, t) /\ t \notin E
         /\ SameDeps(j, job, b)
<1>0. IsJob(j, job) /\ Sound(job) /\ Listed(job) \cap DOMAIN job.tasks = {}
  BY RightIsSound DEF Sound
<1>1. /\ job.ids \in [Lists -> SUBSET Grid(j)] /\ "n" \in Lists /\ "n" \notin Holds
      /\ Holds \subseteq Lists
  BY <1>0, JobParts DEF Lists, Holds
<1>2. t \in Listed(job) /\ t \notin E /\ t \notin DOMAIN job.tasks /\ t \in Grid(j)
  BY <1>1 DEF Listed, TasksRight
<1>3. PICK e, ids, tasks :
        /\ e = [status |-> "idle", hold |-> {}]
        /\ ids = [job.ids EXCEPT !["n"] = @ \ {t}]
        /\ tasks = Added(job.tasks, t, e)
  BY Zenon
<1>4. b = [job EXCEPT !.ids = ids, !.tasks = tasks]
  BY <1>0, <1>3, Zenon DEF job_enroll, IsJob
<1>5. /\ DOMAIN tasks = DOMAIN job.tasks \cup {t} /\ tasks[t] = e
      /\ \A x \in DOMAIN job.tasks : x # t /\ tasks[x] = job.tasks[x]
      /\ tasks = [x \in DOMAIN tasks |-> tasks[x]]
  BY <1>2, <1>3, Zenon DEF Added
<1>6. e \in Element /\ e.status = "idle" /\ e.hold = {}
  BY <1>3 DEF Element
<1>7. tasks \in [DOMAIN tasks -> Element]
  BY <1>0, <1>5, <1>6, JobParts
<1>8. /\ ids \in [Lists -> SUBSET Grid(j)] /\ ids["n"] = job.ids["n"] \ {t}
      /\ \A k \in Holds : ids[k] = job.ids[k] /\ t \notin job.ids[k]
  BY <1>1, <1>3, Zenon DEF TasksRight
<1>9. /\ b.ids = ids /\ b.tasks = tasks
      /\ b.jid = job.jid /\ b.ad = job.ad /\ b.adsuc = job.adsuc
  BY <1>0, <1>4 DEF IsJob
<1>10. IsJob(j, b)
  <2>1. /\ b \in [ids : {ids}, tasks : {tasks}, jid : {job.jid}, jidsuc : {job.jidsuc},
                  ad : {job.ad}, adsuc : {job.adsuc}]
        /\ b.jidsuc = job.jidsuc /\ b.ad = job.ad /\ b.adsuc = job.adsuc
    BY <1>0, <1>4, Zenon DEF IsJob
  <2>2. DOMAIN b.tasks \subseteq Grid(j)
    BY <1>0, <1>2, <1>5, <1>9 DEF IsJob
  <2> QED BY <1>0, <1>7, <1>8, <1>9, <2>1, <2>2 DEF IsJob
<1>11. Listed(b) = Listed(job) \ {t}
  <2>1. Lists = {"n"} \cup Holds
    BY DEF Lists
  <2>2. \A x : x \in Listed(b) <=> x \in ids["n"] \/ \E k \in Holds : x \in ids[k]
    BY <1>9, <2>1 DEF Listed
  <2>3. \A x : x \in Listed(job) <=> x \in job.ids["n"] \/ \E k \in Holds : x \in job.ids[k]
    BY <2>1 DEF Listed
  <2>4. \A x : x \in Listed(b) <=> x \in Listed(job) /\ x # t
    BY <1>8, <2>2, <2>3
  <2> QED BY <2>4
<1>12. Present(b) = Present(job)
  BY <1>2, <1>5, <1>9, <1>11 DEF Present
<1>13. ASSUME NEW x PROVE job_get_hold_state(b, x) = job_get_hold_state(job, x)
  <2>1. CASE x = t
    <3>1. job_get_hold_state(job, x) = {}
      BY <1>2, <1>8, <2>1 DEF job_get_hold_state, job_is_enrolled
    <3> QED BY <1>5, <1>6, <1>9, <1>11, <2>1, <3>1, Zenon DEF job_get_hold_state, job_is_enrolled
  <2>2. CASE x # t
    <3>1. /\ x \in Listed(b) <=> x \in Listed(job)
          /\ x \in DOMAIN b.tasks <=> x \in DOMAIN job.tasks
      BY <1>5, <1>9, <1>11, <2>2
    <3>2. x \in DOMAIN job.tasks => b.tasks[x] = job.tasks[x]
      BY <1>5, <1>9
    <3>3. {k \in Holds : x \in b.ids[k]} = {k \in Holds : x \in job.ids[k]}
      BY <1>8, <1>9
    <3> QED BY <3>1, <3>2, <3>3 DEF job_get_hold_state, job_is_enrolled
  <2> QED BY <2>1, <2>2
<1>14. \A x \in DOMAIN b.tasks : b.tasks[x].status = "finished" <=> x \in E
  BY <1>2, <1>5, <1>6, <1>9 DEF TasksRight
<1>15. Listed(b) \cap (E \cup DOMAIN b.tasks) = {}
  BY <1>5, <1>9, <1>11 DEF TasksRight
<1>16. \A k \in Holds : b.ids["n"] \cap b.ids[k] = {}
  BY <1>8, <1>9 DEF TasksRight
<1>17. TasksRight(j, b, E, T)
  BY <1>10, <1>12, <1>13, <1>14, <1>15, <1>16, Zenon DEF TasksRight
<1>18. WithElement(job, b, t)
  BY <1>3, <1>5, <1>9, <1>12 DEF WithElement
<1>19. SameDeps(j, job, b)
  BY <1>9, <1>12, <1>13, DepsSame
<1> QED BY <1>2, <1>17, <1>18, <1>19

\* A task that gives its new element back is where it was.
LEMMA UnenrollRestores ==
  ASSUME NEW j, NEW job, NEW E, NEW T, TasksRight(j, job, E, T), NEW t \in job.ids["n"]
  PROVE  job_unenroll(job_enroll(job, t), t) = job
<1>0. IsJob(j, job) /\ "n" \in Lists
  BY RightIsSound DEF Lists
<1>1. job.ids \in [Lists -> SUBSET Grid(j)] /\ t \notin DOMAIN job.tasks
  BY <1>0, JobParts DEF TasksRight, Listed
<1>2. PICK e, b, ids, tasks :
        /\ e = [status |-> "idle", hold |-> {}] /\ b = job_enroll(job, t)
        /\ ids = [job.ids EXCEPT !["n"] = @ \ {t}] /\ tasks = Added(job.tasks, t, e)
  BY Zenon
<1>3. b = [job EXCEPT !.ids = ids, !.tasks = tasks]
  BY <1>0, <1>2, Zenon DEF job_enroll, IsJob
<1>4. [ids EXCEPT !["n"] = @ \cup {t}] = job.ids
  BY <1>0, <1>1, <1>2, Zenon
<1>5. Restrict(tasks, DOMAIN tasks \ {t}) = job.tasks
  <2>1. job.tasks = [x \in DOMAIN job.tasks |-> job.tasks[x]]
    BY <1>0, JobParts
  <2>2. DOMAIN tasks = DOMAIN job.tasks \cup {t} /\ \A x \in DOMAIN job.tasks : tasks[x] = job.tasks[x]
    BY <1>1, <1>2 DEF Added
  <2>3. DOMAIN tasks \ {t} = DOMAIN job.tasks
    BY <1>1, <2>2
  <2> QED BY <2>1, <2>2, <2>3 DEF Restrict
<1>6. b.ids = ids /\ b.tasks = tasks
  BY <1>0, <1>3 DEF IsJob
<1>7. job_unenroll(b, t) = [b EXCEPT !.ids = job.ids, !.tasks = job.tasks]
  BY <1>4, <1>5, <1>6, Zenon DEF job_unenroll
<1> QED BY <1>0, <1>2, <1>3, <1>7, Zenon DEF IsJob

\* Job b, once job, is ready for the start of task t.
Prepared(job, b, t) ==
  /\ DOMAIN b.tasks = DOMAIN job.tasks \cup {t}
  /\ b.tasks[t].status = "idle"
  /\ \A x \in DOMAIN b.tasks \ {t} : b.tasks[x] = job.tasks[x]

\* Task t is there to be started, with or without an element.
Startable(job, t) ==
  \/ t \in DOMAIN job.tasks /\ job.tasks[t].status = "idle"
  \/ t \notin DOMAIN job.tasks /\ t \in job.ids["n"]

\* Such a task did not end.
LEMMA StartableOpen ==
  ASSUME NEW j, NEW job, NEW E, NEW T, JobRight(j, job, E, T), NEW t, Startable(job, t)
  PROVE  t \notin E
<1>1. TasksRight(j, job, E, T)
  BY DEF JobRight
<1>2. CASE t \in DOMAIN job.tasks /\ job.tasks[t].status = "idle"
  BY <1>1, <1>2 DEF TasksRight
<1>3. CASE t \in job.ids["n"]
  <2>1. t \in Listed(job)
    BY <1>3 DEF Listed, Lists
  <2> QED BY <1>1, <2>1 DEF TasksRight
<1> QED BY <1>2, <1>3 DEF Startable

\* The task of such an order gets an element.
LEMMA ForOrderRight ==
  ASSUME NEW j, NEW job, NEW E, NEW T, JobRight(j, job, E, T), NEW t, t \notin E, Startable(job, t),
         NEW b, b = ForOrder(job, t)
  PROVE  /\ JobRight(j, b, E, T) /\ b.jid = job.jid /\ SameDeps(j, job, b)
         /\ Prepared(job, b, t)
<1>1. CASE t \in DOMAIN job.tasks
  BY <1>1 DEF ForOrder, SameDeps, Prepared, Startable
<1>2. CASE t \notin DOMAIN job.tasks
  <2>1. b = job_enroll(job, t) /\ t \in job.ids["n"] /\ TasksRight(j, job, E, T)
    BY <1>2 DEF ForOrder, JobRight, Startable
  <2>2. TasksRight(j, b, E, T) /\ WithElement(job, b, t) /\ SameDeps(j, job, b)
    BY <2>1, EnrollRight
  <2>3. JobRight(j, b, E, T)
    BY <2>2 DEF JobRight, WithElement
  <2>4. b.jid = job.jid /\ Prepared(job, b, t)
    <3>1. /\ b.jid = job.jid /\ DOMAIN b.tasks = DOMAIN job.tasks \cup {t}
          /\ b.tasks[t] = [status |-> "idle", hold |-> {}]
          /\ \A x \in DOMAIN job.tasks : b.tasks[x] = job.tasks[x]
      BY <2>2, Zenon DEF WithElement
    <3>2. b.tasks[t].status = "idle"
      BY <3>1
    <3>3. \A x \in DOMAIN b.tasks \ {t} : b.tasks[x] = job.tasks[x]
      BY <3>1
    <3> QED BY <3>1, <3>2, <3>3 DEF Prepared
  <2> QED BY <2>2, <2>3, <2>4
<1> QED BY <1>1, <1>2

\* The task of an order gets an element, and starts.
LEMMA OrderTaken ==
  ASSUME NEW j, NEW job, NEW E, NEW T, JobRight(j, job, E, T), NEW t, Startable(job, t),
         NEW b, b = ForOrder(job, t), NEW c, c = WithStatus(b, t, "running")
  PROVE  /\ OneElement(j, job, b, E, T, t) /\ b.tasks[t].status = "idle"
         /\ OneElement(j, job, c, E, T, t)
<1>1. t \notin E
  BY StartableOpen
<1>2. /\ JobRight(j, b, E, T) /\ b.jid = job.jid /\ SameDeps(j, job, b)
      /\ Prepared(job, b, t)
  BY <1>1, ForOrderRight
<1>3. OneElement(j, job, b, E, T, t) /\ b.tasks[t].status = "idle"
  BY <1>2 DEF OneElement, Prepared
<1>4. PICK st : st = "running"
  OBVIOUS
<1>5. st # "finished" /\ EndsWith(b, t, st, E, E) /\ c = WithStatus(b, t, st)
  BY <1>1, <1>3, <1>4 DEF OneElement, EndsWith
<1>6. OneElement(j, b, c, E, T, t)
  <2>1. StatusSetTo(j, b, c, E, T, t, st)
    BY <1>2, <1>5, StatusSet, Zenon
  <2> QED BY <2>1, Zenon DEF StatusSetTo
<1>7. OneElement(j, job, c, E, T, t)
  BY <1>3, <1>6, Zenon DEF OneElement, SameDeps
<1> QED BY <1>3, <1>7

\* A start that fails leaves the job as it was.
LEMMA OrderLost ==
  ASSUME NEW j, NEW job, NEW E, NEW T, JobRight(j, job, E, T), NEW t, Startable(job, t),
         NEW d, d = IF t \in DOMAIN job.tasks THEN job
                    ELSE job_unenroll(job_enroll(job, t), t)
  PROVE  d = job
<1>1. CASE t \notin DOMAIN job.tasks
  <2>1. t \in job.ids["n"] /\ TasksRight(j, job, E, T)
    BY <1>1 DEF Startable, JobRight
  <2>2. job_unenroll(job_enroll(job, t), t) = job
    BY <2>1, UnenrollRestores
  <2> QED BY <1>1, <2>2
<1> QED BY <1>1

\* hold sets no hold of the array dependency.
UserHolds(job, hold) ==
  \A t \in DOMAIN hold : "a" \in hold[t] => "a" \in job_get_hold_state(job, t)

\* hold sets holds of tasks, and the users are told so: U instead of T for the
\* tasks S.
ToldToo(hold, T, U, S) ==
  /\ \A t \in DOMAIN hold : hold[t] \subseteq Holds
  /\ \A t \in S : U[t] = IF t \in DOMAIN hold THEN hold[t] \ {"a"} ELSE T[t]

\* The holds of tasks are set as the users are told.
LEMMA ModRight ==
  ASSUME NEW j, NEW job, NEW E, NEW T, JobRight(j, job, E, T),
         NEW hold, NEW b, b = job_set_hold_state(job, hold),
         NEW U, ToldToo(hold, T, U, Grid(j) \ E), UserHolds(job, hold)
  PROVE  /\ JobRight(j, b, E, U) /\ SameTasks(job, b) /\ b.jid = job.jid
         /\ SameDeps(j, job, b)
<1>0. TasksRight(j, job, E, T) /\ IsJob(j, job) /\ Sound(job)
  BY RightIsSound DEF JobRight
<1>1. /\ IsJob(j, b) /\ Sound(b) /\ SameTasks(job, b) /\ SameLinks(job, b)
      /\ HeldAs(job, b, hold)
  <2>1. AreHolds(hold)
    BY DEF AreHolds, ToldToo
  <2> QED BY <1>0, <2>1, SetHold
<1>2. Present(b) = Present(job) /\ Listed(b) = Listed(job) /\ DOMAIN b.tasks = DOMAIN job.tasks
  BY <1>1 DEF SameTasks, Present
<1>3. ASSUME NEW t \in Grid(j) \ E PROVE job_get_hold_state(b, t) \ {"a"} = U[t]
  <2>1. t \in Present(job) /\ job_get_hold_state(job, t) \ {"a"} = T[t]
    BY <1>0, Zenon DEF TasksRight
  <2> QED BY <1>1, <2>1, Zenon DEF HeldAs, ToldToo
<1>4. \A t \in DOMAIN b.tasks : b.tasks[t].status = "finished" <=> t \in E
  BY <1>0, <1>1, Zenon DEF TasksRight, SameTasks
<1>5. TasksRight(j, b, E, U)
  BY <1>0, <1>1, <1>2, <1>3, <1>4, Zenon DEF TasksRight, Sound
<1>6. JobRight(j, b, E, U)
  BY <1>2, <1>5 DEF JobRight
<1>7. SameDeps(j, job, b)
  <2>1. \A t \in Present(b) : "a" \in job_get_hold_state(b, t) =>
                                t \in Present(job) /\ "a" \in job_get_hold_state(job, t)
    <3>1. SUFFICES ASSUME NEW t \in Present(b), "a" \in job_get_hold_state(b, t)
                   PROVE  t \in Present(job) /\ "a" \in job_get_hold_state(job, t)
      OBVIOUS
    <3>2. t \in Present(job)
      BY <1>2, <3>1
    <3>3. job_get_hold_state(b, t) = IF t \in DOMAIN hold THEN hold[t] ELSE job_get_hold_state(job, t)
      BY <1>1, <3>2 DEF HeldAs
    <3>4. CASE t \in DOMAIN hold
      BY <3>1, <3>2, <3>3, <3>4 DEF UserHolds
    <3>5. CASE t \notin DOMAIN hold
      BY <3>1, <3>2, <3>3, <3>5
    <3> QED BY <3>4, <3>5
  <2>2. b.ad = job.ad /\ b.adsuc = job.adsuc
    BY <1>1 DEF SameLinks
  <2> QED BY <2>1, <2>2, DepsSame
<1> QED BY <1>1, <1>6, <1>7 DEF SameLinks

\* The holds users have on the tasks of job j after qalter -h, when they had T before.
HoldsAfter(j, U, T, R, add, target) ==
  [t \in Grid(j) |-> IF t \notin R \cap U THEN T[t]
                     ELSE IF add THEN T[t] \cup target ELSE T[t] \ target]

\* qalter -h sets or removes holds of the users.
IsRequest(add, target) == add \in BOOLEAN /\ target \in SUBSET {"u", "o", "s"}

\* Job b is right with the holds h and has everything else from job.
Modified(j, job, b, E, h) ==
  JobRight(j, b, E, h) /\ SameTasks(job, b) /\ b.jid = job.jid /\ SameDeps(j, job, b)

\* qalter -h of one job: the tasks get the holds the users asked for.
LEMMA ModJobRight ==
  ASSUME NEW j, NEW job, NEW E, NEW T, JobRight(j, job, E, T),
         NEW R, NEW add, NEW target, IsRequest(add, target),
         NEW b, b = mod_task_attributes(job, R, add, target),
         NEW h, h = HoldsAfter(j, Grid(j) \ E, T, R, add, target)
  PROVE  Modified(j, job, b, E, h)
<1> SUFFICES JobRight(j, b, E, h) /\ SameTasks(job, b) /\ b.jid = job.jid /\ SameDeps(j, job, b)
  BY Zenon DEF Modified
<1>0. add \in BOOLEAN /\ target \in SUBSET {"u", "o", "s"}
  BY DEF IsRequest
<1>1. PICK hold : hold = [t \in R |-> IF add THEN job_get_hold_state(job, t) \cup target
                                      ELSE job_get_hold_state(job, t) \ target]
  BY Zenon
<1>2. TasksRight(j, job, E, T) /\ IsJob(j, job)
  BY RightIsSound, Zenon DEF JobRight
<1>3. b = job_set_hold_state(job, hold) /\ DOMAIN hold = R
  BY <1>1 DEF mod_task_attributes
<1>4. "a" \notin target /\ target \subseteq Holds
  BY <1>0 DEF Holds
<1>5. ASSUME NEW t \in R PROVE hold[t] \subseteq Holds
  <2>1. job_get_hold_state(job, t) \subseteq Holds
    BY <1>2, HoldState
  <2> QED BY <1>1, <1>4, <2>1
<1>6. ASSUME NEW t \in Grid(j) \ E
      PROVE  h[t] = IF t \in R THEN hold[t] \ {"a"} ELSE T[t]
  <2>1. h[t] = IF t \notin R THEN T[t] ELSE IF add THEN T[t] \cup target ELSE T[t] \ target
    BY DEF HoldsAfter
  <2>2. job_get_hold_state(job, t) \ {"a"} = T[t]
    BY <1>2 DEF TasksRight
  <2>3. /\ (job_get_hold_state(job, t) \cup target) \ {"a"} = T[t] \cup target
        /\ (job_get_hold_state(job, t) \ target) \ {"a"} = T[t] \ target
    BY <1>4, <2>2
  <2> QED BY <1>1, <2>1, <2>3, Zenon
<1>7. ToldToo(hold, T, h, Grid(j) \ E)
  BY <1>3, <1>5, <1>6 DEF ToldToo
<1>8. UserHolds(job, hold)
  BY <1>1, <1>4 DEF UserHolds
<1> QED BY <1>2, <1>3, <1>7, <1>8, ModRight

\* Job b is job without elements of tasks that ended.
PrunedTo(j, job, b, E, T) ==
  /\ TasksRight(j, b, E, T)
  /\ b.jid = job.jid /\ Listed(b) = Listed(job)
  /\ DOMAIN b.tasks \subseteq DOMAIN job.tasks
  /\ \A t \in DOMAIN b.tasks : b.tasks[t] = job.tasks[t]
  /\ SameDeps(j, job, b)

\* The sweep of one job: elements of tasks that ended go.
LEMMA PrunedJob ==
  ASSUME NEW j, NEW job, NEW E, NEW T, TasksRight(j, job, E, T),
         NEW S, \A t \in DOMAIN job.tasks : <<j, t>> \in S => t \in E,
         NEW b, b = [job EXCEPT !.tasks = Restrict(@, {t \in DOMAIN @ : <<j, t>> \notin S})]
  PROVE  PrunedTo(j, job, b, E, T)
<1>1. IsJob(j, job)
  BY RightIsSound
<1>2. PICK tasks : tasks = [t \in {x \in DOMAIN job.tasks : <<j, x>> \notin S} |-> job.tasks[t]]
  BY Zenon
<1>3. b = [job EXCEPT !.tasks = tasks]
  BY <1>2 DEF Restrict
<1>4. /\ DOMAIN tasks \subseteq DOMAIN job.tasks
      /\ \A t \in DOMAIN tasks : tasks[t] = job.tasks[t]
      /\ \A t \in DOMAIN job.tasks \ DOMAIN tasks : t \in E
      /\ tasks \in [DOMAIN tasks -> Element]
  <2>1. \A t \in DOMAIN job.tasks : job.tasks[t] \in Element
    BY <1>1, JobParts, Zenon
  <2> QED BY <1>2, <2>1
<1>5. /\ b.ids = job.ids /\ b.tasks = tasks
      /\ b.jid = job.jid /\ b.ad = job.ad /\ b.adsuc = job.adsuc
  BY <1>1, <1>3 DEF IsJob
<1>6. IsJob(j, b)
  BY <1>1, <1>3, <1>4 DEF IsJob
<1>7. Listed(b) = Listed(job)
  BY <1>5 DEF Listed
<1>8. ASSUME NEW x \in Grid(j) \ E
      PROVE  job_get_hold_state(b, x) = job_get_hold_state(job, x)
  BY <1>4, <1>5, <1>7 DEF job_get_hold_state, job_is_enrolled
<1>9. Grid(j) \subseteq E \cup Present(b)
  BY <1>4, <1>5, <1>7 DEF TasksRight, Present
<1>10. \A t \in DOMAIN b.tasks : b.tasks[t].status = "finished" <=> t \in E
  BY <1>4, <1>5 DEF TasksRight
<1>11. Listed(b) \cap (E \cup DOMAIN b.tasks) = {}
  BY <1>4, <1>5, <1>7 DEF TasksRight
<1>12. \A k \in Holds : b.ids["n"] \cap b.ids[k] = {}
  BY <1>5, Zenon DEF TasksRight
<1>13. TasksRight(j, b, E, T)
  BY <1>6, <1>8, <1>9, <1>10, <1>11, <1>12, Zenon DEF TasksRight
<1>14. SameDeps(j, job, b)
  <2>1. \A t \in Present(b) : t \in Present(job) /\
                              job_get_hold_state(b, t) = job_get_hold_state(job, t)
    BY <1>4, <1>5, <1>7 DEF Present, job_get_hold_state, job_is_enrolled
  <2> QED BY <1>5, <2>1, DepsSame, Zenon
<1> QED BY <1>4, <1>5, <1>7, <1>13, <1>14 DEF PrunedTo

\* The users have no hold on a task a scheduler run may take, and its job waits for no job.
LEMMA PendingFree ==
  ASSUME NEW j, NEW job, NEW E, NEW T, TasksRight(j, job, E, T), NEW t \in Pending(job)
  PROVE  t \in Grid(j) /\ job.jid = {} /\ (t \notin E => T[t] = {})
<1>1. IsJob(j, job) /\ job.jid = {}
  BY RightIsSound DEF Pending
<1>2. CASE t \in job.ids["n"]
  <2>1. "n" \in Lists /\ Holds \subseteq Lists /\ job.ids \in [Lists -> SUBSET Grid(j)]
    BY <1>1, JobParts DEF Lists
  <2>2. /\ t \in Listed(job) /\ t \in Grid(j)
        /\ \A k \in Holds : t \notin job.ids[k]
    BY <1>2, <2>1 DEF Listed, TasksRight
  <2>3. job_get_hold_state(job, t) = {}
    BY <2>2 DEF job_get_hold_state, job_is_enrolled
  <2> QED BY <1>1, <2>2, <2>3 DEF TasksRight
<1>3. CASE t \in DOMAIN job.tasks /\ job.tasks[t].hold = {}
  <2>1. t \in Grid(j) /\ t \notin Listed(job)
    BY <1>1, <1>3 DEF TasksRight, IsJob
  <2>2. job_get_hold_state(job, t) = {}
    BY <1>3, <2>1 DEF job_get_hold_state, job_is_enrolled
  <2> QED BY <1>1, <2>1, <2>2 DEF TasksRight
<1> QED BY <1>1, <1>2, <1>3 DEF Pending

\* Where the tasks of one job are.
LEMMA TaskInPlace ==
  ASSUME conf \in Confs, NEW j, NEW job, NEW E, NEW T, JobRight(j, job, E, T)
  PROVE  /\ \A t \in Grid(j) \ E :
              IF t \in DOMAIN job.tasks
              THEN /\ {k \in Lists : t \in job.ids[k]} = {}
                   /\ job.tasks[t].status # "finished"
              ELSE \/ {k \in Lists : t \in job.ids[k]} = {"n"}
                   \/ /\ {k \in Lists : t \in job.ids[k]} # {}
                      /\ "n" \notin {k \in Lists : t \in job.ids[k]}
         /\ \A t \in E :
              /\ job_is_enrolled(job, t)
              /\ t \in DOMAIN job.tasks =>
                   conf.retention /\ job.tasks[t].status = "finished"
<1>1. TasksRight(j, job, E, T) /\ Sound(job)
  BY RightIsSound DEF JobRight
<1>2. ASSUME NEW t \in Grid(j) \ E, NEW in, in = {k \in Lists : t \in job.ids[k]}
      PROVE  IF t \in DOMAIN job.tasks
             THEN in = {} /\ job.tasks[t].status # "finished"
             ELSE in = {"n"} \/ (in # {} /\ "n" \notin in)
  <2>1. in = {} <=> t \notin Listed(job)
    BY <1>2 DEF Listed
  <2>2. CASE t \in DOMAIN job.tasks
    BY <1>1, <2>1, <2>2 DEF TasksRight
  <2>3. CASE t \notin DOMAIN job.tasks
    <3>1. in # {}
      BY <1>1, <2>1, <2>3 DEF TasksRight, Present
    <3>2. "n" \in in => in = {"n"}
      BY <1>1, <1>2 DEF Sound, Lists
    <3> QED BY <2>3, <3>1, <3>2
  <2> QED BY <2>2, <2>3
<1>3. ASSUME NEW t \in E
      PROVE  /\ job_is_enrolled(job, t)
             /\ t \in DOMAIN job.tasks => conf.retention /\ job.tasks[t].status = "finished"
  <2>1. conf.retention \in BOOLEAN
    BY ArrayAssumption
  <2>2. t \in DOMAIN job.tasks => conf.retention
    BY <2>1 DEF JobRight
  <2>3. t \in DOMAIN job.tasks => job.tasks[t].status = "finished"
    BY <1>1, Zenon DEF TasksRight
  <2>4. job_is_enrolled(job, t)
    BY <1>1 DEF TasksRight, job_is_enrolled
  <2> QED BY <2>2, <2>3, <2>4
<1> QED BY <1>2, <1>3, Zenon

\* The tasks that did not end are the ones the job keeps.
LEMMA UnfinishedOf ==
  ASSUME NEW js, NEW j \in DOMAIN js, NEW E, NEW T, TasksRight(j, js[j], E, T)
  PROVE  Unfinished(js, j) = Grid(j) \ E
<1>1. Present(js[j]) \subseteq Grid(j)
  BY JobParts DEF TasksRight
<1>2. \A t \in DOMAIN js[j].tasks : js[j].tasks[t].status # "finished" <=> t \notin E
  BY DEF TasksRight
<1>3. Grid(j) \ E \subseteq Present(js[j]) /\ Listed(js[j]) \cap E = {}
  BY DEF TasksRight
<1> QED BY <1>1, <1>2, <1>3 DEF Unfinished, Present

\* The same for every job that was submitted.
LEMMA UnfinishedIs ==
  ASSUME NEW js, NEW sub, NEW E, NEW T, JobsRight(js, sub, E, T), NEW j \in sub
  PROVE  Unfinished(js, j) = Grid(j) \ E[j]
<1>1. CASE j \notin DOMAIN js
  BY <1>1 DEF Unfinished, JobsRight
<1>2. CASE j \in DOMAIN js
  <2>1. PICK E0, T0 : E0 = E[j] /\ T0 = T[j]
    OBVIOUS
  <2>2. TasksRight(j, js[j], E0, T0)
    BY <1>2, <2>1 DEF JobsRight, JobRight
  <2>3. Unfinished(js, j) = Grid(j) \ E0
    BY <1>2, <2>2, UnfinishedOf
  <2> QED BY <2>1, <2>3
<1> QED BY <1>1, <1>2

\* The job b in place of job j.
LEMMA ReplaceRight ==
  ASSUME conf \in Confs, NEW js, NEW sub, NEW E, NEW T, JobsRight(js, sub, E, T),
         NEW j \in DOMAIN js, NEW b, NEW U, \A i \in Jobs \ {j} : U[i] = T[i],
         JobRight(j, b, E[j], U[j]), b.jid = js[j].jid, SameDeps(j, js[j], b),
         NEW ks, ks = [js EXCEPT ![j] = b]
  PROVE  JobsRight(ks, sub, E, U)
<1>1. /\ ks = [i \in DOMAIN js |-> ks[i]] /\ DOMAIN ks = DOMAIN js /\ ks[j] = b
      /\ \A i \in DOMAIN js \ {j} : ks[i] = js[i]
  BY Zenon DEF JobsRight
<1>2. DOMAIN js \subseteq Jobs
  <2>1. conf.jobs \subseteq Jobs
    BY ArrayAssumption
  <2> QED BY <2>1 DEF JobsRight
<1>3. \A i \in DOMAIN ks : JobRight(i, ks[i], E[i], U[i])
  BY <1>1, <1>2 DEF JobsRight
<1>4. \A i \in DOMAIN ks : \A p \in conf.jid[i] \ ks[i].jid : E[p] = Grid(p)
  BY <1>1 DEF JobsRight
<1>5. Linked(ks, {})
  <2>1. js = [i \in DOMAIN js |-> js[i]] /\ Linked(js, {})
    BY DEF JobsRight
  <2>2. Linked(ks, {j})
    BY <2>1, ReplaceLinks, Zenon
  <2>3. CASE Unfinished(js, j) = {}
    <3>1. Unawaited(js, j)
      BY <2>1, <2>3 DEF Linked, Unawaited
    <3>2. Unawaited(ks, j)
      BY <1>1, <3>1 DEF Unawaited, SameDeps
    <3> QED BY <2>2, <3>2, LinkedAgain
  <2>4. CASE Unfinished(js, j) # {}
    <3>1. PICK E0, T0, U0 : E0 = E[j] /\ T0 = T[j] /\ U0 = U[j]
      OBVIOUS
    <3>2. TasksRight(j, js[j], E0, T0) /\ TasksRight(j, ks[j], E0, U0) /\ j \in DOMAIN ks
      BY <1>1, <3>1 DEF JobsRight, JobRight
    <3>3. Unfinished(js, j) = Grid(j) \ E0 /\ Unfinished(ks, j) = Grid(j) \ E0
      BY <3>2, UnfinishedOf, Zenon
    <3> QED BY <2>2, <2>4, <3>3, LinkedAgain, Zenon
  <2> QED BY <2>3, <2>4
<1> QED BY <1>1, <1>3, <1>4, <1>5, Zenon DEF JobsRight

-----------------------------------------------------------------------------
(* The end of a task.                                                         *)

\* What the code concludes from the numbers of tasks is true of every job.
CountsTell ==
  \A j, job : IsJob(j, job) /\ Sound(job) =>
    /\ job_get_ja_tasks(job) = 0 <=> Present(job) = {}
    /\ job_get_not_enrolled_ja_tasks(job) = 0 <=> Listed(job) = {}
    /\ job_get_ja_tasks(job) = 1 <=> \E t : Present(job) = {t}

\* What it concludes of one job.
LEMMA CountTests ==
  ASSUME CountsTell, NEW j, NEW job, IsJob(j, job), Sound(job)
  PROVE  /\ job_get_ja_tasks(job) = 0 <=> Present(job) = {}
         /\ job_get_not_enrolled_ja_tasks(job) = 0 <=> Listed(job) = {}
         /\ job_get_ja_tasks(job) = 1 <=> \E t : Present(job) = {t}
BY Zenon DEF CountsTell

\* ks follows js while tasks end: jobs and ids go away, no job gets a new
\* predecessor, and nothing starts.
Later(js, ks) ==
  /\ DOMAIN ks \subseteq DOMAIN js
  /\ \A i \in DOMAIN ks :
       /\ ks[i].jid \subseteq js[i].jid
       /\ Listed(ks[i]) \subseteq Listed(js[i])
       /\ \A x \in DOMAIN ks[i].tasks : ks[i].tasks[x].status = "running" =>
            x \in DOMAIN js[i].tasks /\ js[i].tasks[x].status = "running"

\* Two such changes make one.
LEMMA LaterTwice ==
  ASSUME NEW js, NEW ks, NEW ls, Later(js, ks), Later(ks, ls)
  PROVE  Later(js, ls)
BY DEF Later

\* The tasks that ended, with task t of job j.
EndedToo(E, j, t) == [E EXCEPT ![j] = @ \cup {t}]

\* The list while task t of job j ends: its element may still be there.
Ending(js, sub, E, T, j, t) ==
  /\ E \in [Jobs -> SUBSET Tasks] /\ \A i \in Jobs : E[i] \subseteq Grid(i)
  /\ js = [i \in DOMAIN js |-> js[i]] /\ DOMAIN js \subseteq sub /\ sub \subseteq conf.jobs
  /\ j \in DOMAIN js /\ t \in Present(js[j])
  /\ \A i \in DOMAIN js : TasksRight(i, js[i], E[i], T[i])
  /\ \A i \in DOMAIN js \ {j} : JobRight(i, js[i], E[i], T[i])
  /\ conf.retention \/ DOMAIN js[j].tasks \cap E[j] \subseteq {t}
  /\ \A i \in sub : E[i] # Grid(i) => i \in DOMAIN js
  /\ \A i \in DOMAIN js : \A p \in conf.jid[i] \ js[i].jid : E[p] = Grid(p)
  /\ Linked(js, {j})

\* The end of a task starts in a list that agrees with the history.
LEMMA RightEnding ==
  ASSUME NEW js, NEW sub, NEW E, NEW T, JobsRight(js, sub, E, T),
         NEW j \in DOMAIN js, NEW t \in Present(js[j])
  PROVE  Ending(js, sub, E, T, j, t) /\ AllSound(js)
<1>1. Ending(js, sub, E, T, j, t)
  <2>1. Linked(js, {j})
    BY DEF JobsRight, Linked
  <2> QED BY <2>1 DEF JobsRight, JobRight, Ending
<1>2. AllSound(js)
  BY RightIsSound DEF AllSound, JobsRight, JobRight
<1> QED BY <1>1, <1>2

\* While a task ends, the jobs can be worked on.
LEMMA EndingSound ==
  ASSUME NEW js, NEW sub, NEW E, NEW T, NEW j, NEW t, Ending(js, sub, E, T, j, t)
  PROVE  AllSound(js)
BY RightIsSound DEF AllSound, Ending

\* When sge_finish_ja_task takes a job for done with task t, all others ended.
LEMMA DoneMeansEnded ==
  ASSUME conf \in Confs, CountsTell, NEW j, NEW job, NEW E, NEW T, TasksRight(j, job, E, T), E \subseteq Grid(j),
         NEW t \in Present(job), JobDone(job)
  PROVE  E \cup {t} = Grid(j)
<1>1. IsJob(j, job) /\ Sound(job)
  BY RightIsSound
<1>2. Present(job) \subseteq Grid(j) /\ Grid(j) \subseteq E \cup Present(job)
  BY <1>1, JobParts DEF TasksRight
<1>3. CASE job_get_ja_tasks(job) = 1
  <2>1. Present(job) = {t}
    BY <1>1, <1>3, CountTests
  <2> QED BY <1>2, <2>1
<1>4. CASE /\ job_get_not_enrolled_ja_tasks(job) = 0
           /\ \A x \in DOMAIN job.tasks : job.tasks[x].status = "finished"
  <2>1. Listed(job) = {}
    BY <1>1, <1>4, CountTests
  <2>2. Present(job) \subseteq E
    BY <1>4, <2>1 DEF Present, TasksRight
  <2> QED BY <1>2, <2>2
<1> QED BY <1>3, <1>4 DEF JobDone

\* sge_finish_ja_task while task t of job j ends, and the links afterwards.
LEMMA FinishRight ==
  ASSUME conf \in Confs, CountsTell, NEW js, NEW sub, NEW E, NEW T, NEW j, NEW t,
         Ending(js, sub, E, T, j, t), NEW ks, ks = sge_finish_ja_task(js, j, t),
         NEW F, F = EndedToo(E, j, t)
  PROVE  /\ ks = [i \in DOMAIN js |-> ks[i]] /\ ks[j] = js[j]
         /\ \A i \in DOMAIN js : TasksRight(i, ks[i], E[i], T[i])
         /\ \A i \in DOMAIN js \ {j} : JobRight(i, ks[i], E[i], T[i])
         /\ \A i \in DOMAIN js : \A p \in conf.jid[i] \ ks[i].jid : F[p] = Grid(p)
         /\ Linked(ks, {}) /\ Unawaited(ks, j)
         /\ Later(js, ks)
<1>0. AllSound(js) /\ j \in DOMAIN js /\ j \in Jobs
  <2>1. conf.jobs \subseteq Jobs
    BY ArrayAssumption
  <2> QED BY <2>1, EndingSound, Zenon DEF Ending
<1>1. /\ ks = [i \in DOMAIN js |-> ks[i]] /\ ks[j] = js[j]
      /\ \A i \in DOMAIN js :
           /\ Kept(i, js[i], ks[i])
           /\ \/ ks[i].jid = js[i].jid
              \/ JobDone(js[j]) /\ ks[i].jid = js[i].jid \ {j}
  BY <1>0, FinishKeeps
<1>2. \A i \in DOMAIN js : TasksRight(i, ks[i], E[i], T[i])
  BY <1>1, KeptRight DEF Ending
<1>3. \A i \in DOMAIN js \ {j} : JobRight(i, ks[i], E[i], T[i])
  BY <1>1, KeptRight, Zenon DEF Ending
<1>4. /\ \A p \in Jobs \ {j} : F[p] = E[p]
      /\ F[j] = E[j] \cup {t} /\ E[j] \subseteq Grid(j) /\ t \in Grid(j)
  <2>1. t \in Grid(j)
    BY <1>0, JobParts DEF Ending, AllSound
  <2> QED BY <1>0, <2>1 DEF Ending, EndedToo
<1>5. ASSUME NEW i \in DOMAIN js, NEW p \in conf.jid[i] \ ks[i].jid PROVE F[p] = Grid(p)
  <2>0. p \in Jobs
    <3>1. conf.jid \in [Jobs -> SUBSET conf.jobs] /\ conf.jobs \subseteq Jobs
      BY ArrayAssumption, Zenon
    <3>2. i \in Jobs
      BY <3>1 DEF Ending
    <3> QED BY <3>1, <3>2
  <2>1. CASE p \notin js[i].jid
    <3>1. E[p] = Grid(p)
      BY <2>1 DEF Ending
    <3> QED BY <1>4, <2>0, <3>1
  <2>2. CASE p \in js[i].jid
    <3>1. JobDone(js[j]) /\ p = j
      BY <1>1, <1>5, <2>2
    <3>2. E[j] \cup {t} = Grid(j)
      BY <1>0, <1>4, <3>1, DoneMeansEnded DEF Ending
    <3> QED BY <1>4, <3>1, <3>2
  <2> QED BY <2>1, <2>2
<1>6. Later(js, ks)
  BY <1>1 DEF Later, Kept, SameTasks
<1>7. Linked(ks, {}) /\ Unawaited(ks, j)
  <2>1. Linked(js, {j})
    BY DEF Ending
  <2> QED BY <1>0, <2>1, FinishLinks
<1> QED BY <1>1, <1>2, <1>3, <1>5, <1>6, <1>7

\* sge_bury_job removes the task, and the job with its last one.
LEMMA BuryRight ==
  ASSUME conf \in Confs, CountsTell, NEW js, NEW sub, NEW E, NEW T, NEW j, NEW t,
         Ending(js, sub, E, T, j, t), NEW ks, ks = sge_bury_job(js, j, t),
         NEW F, F = EndedToo(E, j, t)
  PROVE  JobsRight(ks, sub, F, T) /\ Later(js, ks)
<1>0. AllSound(js) /\ j \in DOMAIN js /\ j \in Jobs /\ IsJob(j, js[j]) /\ Sound(js[j])
  <2>1. conf.jobs \subseteq Jobs
    BY ArrayAssumption
  <2> QED BY <2>1, EndingSound, Zenon DEF Ending, AllSound
<1>1. PICK ms : ms = sge_finish_ja_task(js, j, t)
  OBVIOUS
<1>2. /\ ms = [i \in DOMAIN js |-> ms[i]] /\ ms[j] = js[j]
      /\ \A i \in DOMAIN js : TasksRight(i, ms[i], E[i], T[i])
      /\ \A i \in DOMAIN js \ {j} : JobRight(i, ms[i], E[i], T[i])
      /\ \A i \in DOMAIN js : \A p \in conf.jid[i] \ ms[i].jid : F[p] = Grid(p)
      /\ Linked(ms, {}) /\ Unawaited(ms, j)
      /\ Later(js, ms)
  BY <1>1, FinishRight
<1>3. /\ \A p \in Jobs \ {j} : F[p] = E[p]
      /\ F[j] = E[j] \cup {t} /\ E[j] \subseteq Grid(j) /\ t \in Grid(j)
      /\ F \in [Jobs -> SUBSET Tasks] /\ \A i \in Jobs : F[i] \subseteq Grid(i)
  <2>1. t \in Grid(j)
    BY <1>0, JobParts DEF Ending
  <2>2. Grid(j) \subseteq Tasks
    BY DEF Grid
  <2> QED BY <1>0, <2>1, <2>2 DEF Ending, EndedToo
<1>4. ks = IF job_get_ja_tasks(ms[j]) = 1 THEN Restrict(ms, DOMAIN ms \ {j})
           ELSE [ms EXCEPT ![j] = RemovedTask(ms[j], t)]
  BY <1>1, Zenon DEF sge_bury_job, sge_bury_ja_task, RemovedTask
<1>5. CASE job_get_ja_tasks(js[j]) = 1
  <2>1. Present(js[j]) = {t}
    BY <1>0, <1>5, CountTests DEF Ending
  <2>2. F[j] = Grid(j)
    <3>1. Grid(j) \subseteq E[j] \cup Present(js[j])
      BY <1>0 DEF Ending, TasksRight
    <3> QED BY <1>3, <2>1, <3>1
  <2>3. ks = [i \in DOMAIN js \ {j} |-> ms[i]]
    BY <1>2, <1>4, <1>5 DEF Restrict
  <2>4. \A i \in DOMAIN ks : JobRight(i, ks[i], F[i], T[i])
    <3>1. \A i \in DOMAIN js \ {j} : F[i] = E[i]
      <4>1. conf.jobs \subseteq Jobs
        BY ArrayAssumption
      <4> QED BY <1>3, <4>1 DEF Ending
    <3> QED BY <1>2, <2>3, <3>1
  <2>5. \A i \in sub : F[i] # Grid(i) => i \in DOMAIN ks
    <3>1. conf.jobs \subseteq Jobs
      BY ArrayAssumption
    <3> QED BY <1>3, <2>2, <2>3, <3>1 DEF Ending
  <2>6. \A i \in DOMAIN ks : \A p \in conf.jid[i] \ ks[i].jid : F[p] = Grid(p)
    BY <1>2, <2>3
  <2>7. Linked(ks, {})
    <3>1. ks = [i \in DOMAIN ms \ {j} |-> ms[i]]
      BY <1>2, <2>3
    <3> QED BY <1>2, <3>1, DropLinks
  <2>8. JobsRight(ks, sub, F, T)
    BY <1>3, <2>3, <2>4, <2>5, <2>6, <2>7 DEF JobsRight, Ending
  <2> QED BY <1>2, <2>3, <2>8 DEF Later
<1>6. CASE job_get_ja_tasks(js[j]) # 1
  <2>1. PICK b : b = RemovedTask(js[j], t)
    OBVIOUS
  <2>2. /\ TasksRight(j, b, E[j] \cup {t}, T[j])
        /\ Present(b) = Present(js[j]) \ {t}
        /\ Listed(b) \subseteq Listed(js[j])
        /\ DOMAIN b.tasks = DOMAIN js[j].tasks \ {t}
        /\ \A x \in DOMAIN b.tasks : b.tasks[x] = js[j].tasks[x]
        /\ b.jid = js[j].jid /\ SameDeps(j, js[j], b)
    <3>1. PICK job, E0, T0 : job = js[j] /\ E0 = E[j] /\ T0 = T[j]
      OBVIOUS
    <3>2. TasksRight(j, job, E0, T0) /\ t \in Present(job) /\ b = RemovedTask(job, t)
      BY <2>1, <3>1 DEF Ending
    <3>3. /\ TasksRight(j, b, E0 \cup {t}, T0)
          /\ Present(b) = Present(job) \ {t}
          /\ Listed(b) \subseteq Listed(job)
          /\ DOMAIN b.tasks = DOMAIN job.tasks \ {t}
          /\ \A x \in DOMAIN b.tasks : b.tasks[x] = job.tasks[x]
          /\ b.jid = job.jid /\ SameDeps(j, job, b)
      BY <3>2, RemovedRight
    <3> QED BY <3>1, <3>3, Zenon
  <2>3. /\ ks = [i \in DOMAIN js |-> ks[i]] /\ ks[j] = b
        /\ \A i \in DOMAIN js \ {j} : ks[i] = ms[i]
    BY <1>0, <1>2, <1>4, <1>6, <2>1
  <2>4. Present(b) # {}
    <3>1. t \in Present(js[j])
      BY DEF Ending
    <3>2. Present(js[j]) # {t}
      BY <1>0, <1>6, CountTests, Zenon
    <3> QED BY <2>2, <3>1, <3>2
  <2>5. JobRight(j, b, F[j], T[j])
    BY <1>3, <2>2, <2>4 DEF JobRight, Ending
  <2>6. \A i \in DOMAIN ks : JobRight(i, ks[i], F[i], T[i])
    <3>1. \A i \in DOMAIN js \ {j} : F[i] = E[i]
      <4>1. conf.jobs \subseteq Jobs
        BY ArrayAssumption
      <4> QED BY <1>3, <4>1 DEF Ending
    <3> QED BY <1>2, <2>3, <2>5, <3>1
  <2>7. \A i \in sub : F[i] # Grid(i) => i \in DOMAIN ks
    <3>1. conf.jobs \subseteq Jobs
      BY ArrayAssumption
    <3> QED BY <1>0, <1>3, <2>3, <3>1 DEF Ending
  <2>8. \A i \in DOMAIN ks : \A p \in conf.jid[i] \ ks[i].jid : F[p] = Grid(p)
    BY <1>2, <2>2, <2>3
  <2>9. Linked(ks, {})
    <3>1. /\ ms = [i \in DOMAIN ms |-> ms[i]] /\ j \in DOMAIN ms /\ SameDeps(j, ms[j], b)
          /\ ks = [ms EXCEPT ![j] = b]
      BY <1>0, <1>2, <1>4, <1>6, <2>1, <2>2
    <3>2. Linked(ks, {j})
      BY <1>2, <3>1, ReplaceLinks
    <3>3. Unawaited(ks, j)
      BY <1>2, <2>2, <2>3 DEF Unawaited, SameDeps
    <3> QED BY <3>2, <3>3, LinkedAgain
  <2>10. JobsRight(ks, sub, F, T)
    BY <1>3, <2>3, <2>6, <2>7, <2>8, <2>9 DEF JobsRight, Ending
  <2>11. Later(js, ks)
    <3> DEFINE LaterJob(i) ==
          /\ ks[i].jid \subseteq js[i].jid
          /\ Listed(ks[i]) \subseteq Listed(js[i])
          /\ \A x \in DOMAIN ks[i].tasks : ks[i].tasks[x].status = "running" =>
               x \in DOMAIN js[i].tasks /\ js[i].tasks[x].status = "running"
    <3>1. LaterJob(j)
      BY <2>2, <2>3
    <3>2. \A i \in DOMAIN js \ {j} : LaterJob(i)
      BY <1>2, <2>3 DEF Later
    <3>3. DOMAIN ks = DOMAIN js
      BY <2>3
    <3>4. \A i \in DOMAIN ks : LaterJob(i)
      <4> HIDE DEF LaterJob
      <4> QED BY <3>1, <3>2, <3>3
    <3> QED BY <3>3, <3>4 DEF Later
  <2> QED BY <2>10, <2>11
<1> QED BY <1>5, <1>6

\* COMMIT_ST_FINISHED_FAILED_EE: the task has ended, and with retention its
\* element stays.
LEMMA FinishedRight ==
  ASSUME conf \in Confs, CountsTell, NEW js, NEW sub, NEW E, NEW T, JobsRight(js, sub, E, T),
         NEW j \in DOMAIN js, NEW t \in DOMAIN js[j].tasks \ E[j],
         NEW ks, ks = FinishedFailedEE(js, j, t), NEW F, F = EndedToo(E, j, t)
  PROVE  JobsRight(ks, sub, F, T) /\ Later(js, ks)
<1>0. conf.jobs \subseteq Jobs /\ DOMAIN js \subseteq Jobs /\ j \in Jobs
  BY ArrayAssumption DEF JobsRight
<1>1. TasksRight(j, js[j], E[j], T[j])
  BY DEF JobsRight, JobRight
<1>2. PICK as, b : /\ as = [js EXCEPT ![j].tasks[t].status = "finished"]
                   /\ b = [js[j] EXCEPT !.tasks[t].status = "finished"]
  BY Zenon
<1>3. /\ TasksRight(j, b, E[j] \cup {t}, T[j])
      /\ Listed(b) = Listed(js[j]) /\ Present(b) = Present(js[j])
      /\ DOMAIN b.tasks = DOMAIN js[j].tasks
      /\ b.tasks[t].status = "finished"
      /\ \A x \in DOMAIN b.tasks \ {t} : b.tasks[x] = js[j].tasks[x]
      /\ b.jid = js[j].jid /\ SameDeps(j, js[j], b)
  <2>1. PICK st, F0 : st = "finished" /\ F0 = E[j] \cup {t}
    BY Zenon
  <2>2. PICK job, E0, T0 : job = js[j] /\ E0 = E[j] /\ T0 = T[j]
    OBVIOUS
  <2>3. b = WithStatus(job, t, st)
    BY <1>2, <2>1, <2>2 DEF WithStatus
  <2>4. TasksRight(j, job, E0, T0) /\ EndsWith(job, t, st, E0, F0)
    BY <1>1, <2>1, <2>2 DEF EndsWith
  <2>5. StatusIs(j, job, b, F0, T0, t, st)
    BY <2>3, <2>4, StatusRight, Zenon
  <2> QED BY <2>1, <2>2, <2>5, Zenon DEF StatusIs
<1>4. /\ as = [i \in DOMAIN js |-> as[i]] /\ as[j] = b
      /\ \A i \in DOMAIN js \ {j} : as[i] = js[i]
  BY <1>2, Zenon DEF JobsRight
<1>5. /\ \A p \in Jobs \ {j} : F[p] = E[p]
      /\ F[j] = E[j] \cup {t} /\ t \in Grid(j)
      /\ F \in [Jobs -> SUBSET Tasks] /\ \A i \in Jobs : F[i] \subseteq Grid(i)
  <2>1. t \in Grid(j)
    BY <1>1, JobParts DEF TasksRight, Present
  <2>2. Grid(j) \subseteq Tasks
    BY DEF Grid
  <2> QED BY <1>0, <2>1, <2>2 DEF JobsRight, EndedToo
<1>6. Ending(as, sub, F, T, j, t)
  <2>1. \A i \in DOMAIN as : TasksRight(i, as[i], F[i], T[i])
    BY <1>0, <1>3, <1>4, <1>5, Zenon DEF JobsRight, JobRight
  <2>2. \A i \in DOMAIN as \ {j} : JobRight(i, as[i], F[i], T[i])
    BY <1>0, <1>4, <1>5, Zenon DEF JobsRight
  <2>3. conf.retention \/ DOMAIN as[j].tasks \cap F[j] \subseteq {t}
    BY <1>3, <1>4, <1>5 DEF JobsRight, JobRight
  <2>4. j \in DOMAIN as /\ t \in Present(as[j])
    BY <1>3, <1>4 DEF Present
  <2>5. \A i \in sub : F[i] # Grid(i) => i \in DOMAIN as
    BY <1>0, <1>4, <1>5 DEF JobsRight
  <2>6. \A i \in DOMAIN as : \A p \in conf.jid[i] \ as[i].jid : F[p] = Grid(p)
    <3>1. ASSUME NEW i \in DOMAIN as, NEW p \in conf.jid[i] \ as[i].jid PROVE F[p] = Grid(p)
      <4>1. E[p] = Grid(p)
        BY <1>3, <1>4, Zenon DEF JobsRight
      <4>2. p \in Jobs
        <5>1. conf.jid \in [Jobs -> SUBSET conf.jobs] /\ i \in Jobs
          BY <1>0, <1>4, ArrayAssumption
        <5> QED BY <1>0, <5>1
      <4> QED BY <1>5, <4>1, <4>2
    <3> QED BY <3>1, Zenon
  <2>7. Linked(as, {j})
    <3>1. js = [i \in DOMAIN js |-> js[i]] /\ Linked(js, {})
      BY DEF JobsRight
    <3>2. as = [js EXCEPT ![j] = b]
      BY <1>2
    <3> QED BY <1>3, <3>1, <3>2, ReplaceLinks, Zenon
  <2> QED BY <1>4, <1>5, <2>1, <2>2, <2>3, <2>4, <2>5, <2>6, <2>7, Zenon DEF Ending, JobsRight
<1>7. Later(js, as)
  BY <1>3, <1>4, Zenon DEF Later
<1>8. PICK over : over = release_successor_tasks_ad(as, j, t)
  BY Zenon
<1>9. JobsKept(as, over) /\ over[j] = as[j] /\ j \in DOMAIN as /\ Linked(over, {j})
  <2>1. AllSound(as) /\ j \in DOMAIN as
    BY <1>4, <1>6, EndingSound
  <2>2. PICK X : X = {j}
    BY Zenon
  <2>3. Linked(as, X)
    BY <1>6, <2>2 DEF Ending
  <2>4. Linked(over, X)
    BY <1>8, <2>1, <2>3, ReleaseTasksLinks, Zenon
  <2>5. JobsKept(as, over) /\ over[j] = as[j]
    BY <1>8, <2>1, ReleaseTasksKeeps, Zenon
  <2> QED BY <2>1, <2>2, <2>4, <2>5, Zenon
<1>10. Ending(over, sub, F, T, j, t) /\ Later(as, over)
  <2>1. over = [i \in DOMAIN as |-> over[i]] /\ DOMAIN over = DOMAIN as
    BY <1>9 DEF JobsKept
  <2>2. \A i \in DOMAIN as : Kept(i, as[i], over[i]) /\ over[i].jid = as[i].jid
    BY <1>9, Zenon DEF JobsKept
  <2>3. \A i \in DOMAIN over : TasksRight(i, over[i], F[i], T[i])
    BY <1>6, <2>1, <2>2, KeptRight, Zenon DEF Ending
  <2>4. \A i \in DOMAIN over \ {j} : JobRight(i, over[i], F[i], T[i])
    BY <1>6, <2>1, <2>2, KeptRight, Zenon DEF Ending
  <2>5. Ending(over, sub, F, T, j, t)
    BY <1>6, <1>9, <2>1, <2>2, <2>3, <2>4, Zenon DEF Ending
  <2> QED BY <2>1, <2>2, <2>5, Zenon DEF Later, Kept, SameTasks
<1>11. ks = IF conf.retention THEN sge_finish_ja_task(over, j, t) ELSE sge_bury_job(over, j, t)
  BY <1>2, <1>8 DEF FinishedFailedEE
<1>12. F = EndedToo(F, j, t)
  BY <1>0, <1>5, Zenon DEF EndedToo
<1>13. CASE conf.retention
  <2>1. /\ ks = [i \in DOMAIN over |-> ks[i]] /\ ks[j] = over[j]
        /\ \A i \in DOMAIN over : TasksRight(i, ks[i], F[i], T[i])
        /\ \A i \in DOMAIN over \ {j} : JobRight(i, ks[i], F[i], T[i])
        /\ \A i \in DOMAIN over : \A p \in conf.jid[i] \ ks[i].jid : F[p] = Grid(p)
        /\ Linked(ks, {})
        /\ Later(over, ks)
    BY <1>10, <1>11, <1>12, <1>13, FinishRight
  <2>2. \A i \in DOMAIN ks : JobRight(i, ks[i], F[i], T[i])
    BY <1>10, <1>13, <2>1 DEF JobRight, Ending
  <2>3. JobsRight(ks, sub, F, T)
    BY <1>10, <2>1, <2>2 DEF JobsRight, Ending
  <2>4. Later(js, over)
    BY <1>7, <1>10, LaterTwice, Zenon
  <2> QED BY <2>1, <2>3, <2>4, LaterTwice
<1>14. CASE ~conf.retention
  <2>1. JobsRight(ks, sub, F, T) /\ Later(over, ks)
    BY <1>10, <1>11, <1>12, <1>14, BuryRight
  <2>2. Later(js, over)
    BY <1>7, <1>10, LaterTwice, Zenon
  <2> QED BY <2>1, <2>2, LaterTwice
<1> QED BY <1>13, <1>14

\* Task t did not end, and a loop of qdel deletes it: as one with or without element.
Deletable(js, E, j, t, enrolled) ==
  /\ t \in Grid(j) \ E[j] /\ enrolled \in BOOLEAN
  /\ enrolled /\ j \in DOMAIN js => t \notin Listed(js[j])

\* What the loop does to it.
WithoutTask(js, j, t, enrolled) ==
  IF enrolled THEN FinishedFailedEE(js, j, t) ELSE sge_bury_job(js, j, t)

\* qdel of one task that did not end.
LEMMA DeleteRight ==
  ASSUME conf \in Confs, CountsTell, NEW js, NEW sub, NEW E, NEW T, JobsRight(js, sub, E, T),
         NEW j \in sub, NEW t, NEW enrolled, Deletable(js, E, j, t, enrolled),
         NEW ks, ks = WithoutTask(js, j, t, enrolled), NEW F, F = EndedToo(E, j, t)
  PROVE  JobsRight(ks, sub, F, T) /\ Later(js, ks)
<1> SUFFICES ASSUME t \in Grid(j) \ E[j], enrolled \in BOOLEAN,
                    enrolled /\ j \in DOMAIN js => t \notin Listed(js[j]),
                    ks = IF enrolled THEN FinishedFailedEE(js, j, t)
                         ELSE sge_bury_job(js, j, t)
             PROVE  JobsRight(ks, sub, F, T) /\ Later(js, ks)
  BY Zenon DEF Deletable, WithoutTask
<1>1. j \in DOMAIN js /\ TasksRight(j, js[j], E[j], T[j])
  BY Zenon DEF JobsRight, JobRight
<1>2. t \in Present(js[j])
  BY <1>1, Zenon DEF TasksRight
<1>3. CASE ~enrolled
  <2>1. Ending(js, sub, E, T, j, t) /\ ks = sge_bury_job(js, j, t)
    BY <1>1, <1>2, <1>3, RightEnding, Zenon
  <2> QED BY <2>1, BuryRight, Zenon
<1>4. CASE enrolled
  <2>1. t \in DOMAIN js[j].tasks \ E[j] /\ ks = FinishedFailedEE(js, j, t)
    BY <1>1, <1>2, <1>4, Zenon DEF Present
  <2> QED BY <1>1, <2>1, FinishedRight, Zenon
<1> QED BY <1>3, <1>4

\* The elements below stop that the second loop of qdel deletes.
Idle(job, R, stop) == {t \in R \cap DOMAIN job.tasks : job.tasks[t].status = "idle" /\ t < stop}

\* The two loops of qdel are over different tasks, none of which ended.
Apart(j, job, E, R, pending, idle) ==
  /\ pending \subseteq R /\ pending \subseteq Grid(j) \ E
  /\ idle \subseteq R /\ idle \subseteq Grid(j) \ E
  /\ idle \cap Listed(job) = {} /\ pending \cap idle = {}

\* That is so.
LEMMA QdelSets ==
  ASSUME NEW j, NEW job, NEW E, NEW T, TasksRight(j, job, E, T), NEW R, NEW stop,
         NEW pending, pending = Reached(job, R), NEW idle, idle = Idle(job, R, stop)
  PROVE  Apart(j, job, E, R, pending, idle)
<1>1. Present(job) \subseteq Grid(j)
  BY JobParts, Zenon DEF TasksRight
<1>2. pending \subseteq Listed(job) \cap R
  BY Zenon DEF Reached
<1>3. idle \subseteq DOMAIN job.tasks \cap R /\ \A t \in idle : job.tasks[t].status # "finished"
  BY DEF Idle
<1>4. Listed(job) \cap (E \cup DOMAIN job.tasks) = {}
  BY Zenon DEF TasksRight
<1>5. idle \cap E = {}
  BY <1>3, Zenon DEF TasksRight
<1> QED BY <1>1, <1>2, <1>3, <1>4, <1>5 DEF Present, Apart

\* The sweep: elements of tasks that ended go, and a job with its last one.
LEMMA PrunedRight ==
  ASSUME conf \in Confs, CountsTell, conf.retention,
         NEW js, NEW sub, NEW E, NEW T, JobsRight(js, sub, E, T),
         NEW S, \A j \in DOMAIN js : \A t \in DOMAIN js[j].tasks : <<j, t>> \in S => t \in E[j],
         NEW ks, ks = Pruned(js, S)
  PROVE  JobsRight(ks, sub, E, T) /\ Later(js, ks)
<1>1. PICK rest : rest = [j \in DOMAIN js |->
                    [js[j] EXCEPT !.tasks = Restrict(@, {t \in DOMAIN @ : <<j, t>> \notin S})]]
  BY Zenon
<1>2. ks = [j \in {i \in DOMAIN js : job_get_ja_tasks(rest[i]) # 0} |-> rest[j]]
  BY <1>1, Zenon DEF Pruned
<1>3. ASSUME NEW j \in DOMAIN js PROVE PrunedTo(j, js[j], rest[j], E[j], T[j])
  <2>1. PICK job, b, E0, T0 : job = js[j] /\ b = rest[j] /\ E0 = E[j] /\ T0 = T[j]
    OBVIOUS
  <2>2. TasksRight(j, job, E0, T0)
    BY <2>1 DEF JobsRight, JobRight
  <2>3. /\ \A t \in DOMAIN job.tasks : <<j, t>> \in S => t \in E0
        /\ b = [job EXCEPT !.tasks = Restrict(@, {t \in DOMAIN @ : <<j, t>> \notin S})]
    BY <1>1, <2>1
  <2>4. PrunedTo(j, job, b, E0, T0)
    BY <2>2, <2>3, PrunedJob, Zenon
  <2> QED BY <2>1, <2>4, Zenon
<1>4. ASSUME NEW j \in DOMAIN js PROVE job_get_ja_tasks(rest[j]) = 0 <=> Present(rest[j]) = {}
  <2>1. IsJob(j, rest[j]) /\ Sound(rest[j])
    BY <1>3, RightIsSound, Zenon DEF PrunedTo
  <2> QED BY <2>1, CountTests, Zenon
<1>5. /\ ks = [j \in DOMAIN ks |-> ks[j]] /\ DOMAIN ks \subseteq DOMAIN js
      /\ \A j \in DOMAIN ks : ks[j] = rest[j] /\ Present(rest[j]) # {}
      /\ \A j \in DOMAIN js \ DOMAIN ks : Present(rest[j]) = {}
  BY <1>2, <1>4, Zenon
<1>6. \A j \in DOMAIN ks : JobRight(j, ks[j], E[j], T[j])
  BY <1>3, <1>5 DEF JobRight, PrunedTo
<1>7. ASSUME NEW j \in sub, E[j] # Grid(j) PROVE j \in DOMAIN ks
  <2>1. j \in DOMAIN js /\ E[j] \subseteq Grid(j)
    <3>1. conf.jobs \subseteq Jobs
      BY ArrayAssumption
    <3> QED BY <1>7, <3>1 DEF JobsRight
  <2>2. Grid(j) \subseteq E[j] \cup Present(rest[j])
    BY <1>3, <2>1, Zenon DEF TasksRight, PrunedTo
  <2> QED BY <1>5, <1>7, <2>1, <2>2, Zenon
<1>8. \A j \in DOMAIN ks : \A p \in conf.jid[j] \ ks[j].jid : E[p] = Grid(p)
  BY <1>3, <1>5 DEF JobsRight, PrunedTo
<1>9. Linked(ks, {})
  <2>1. \A p \in DOMAIN ks : SameDeps(p, js[p], ks[p])
    BY <1>3, <1>5, Zenon DEF PrunedTo
  <2>2. ASSUME NEW p \in DOMAIN js, Unfinished(js, p) # {}
        PROVE  p \in DOMAIN ks /\ Unfinished(ks, p) # {}
    <3>1. PICK E0, T0, a : E0 = E[p] /\ T0 = T[p] /\ a = rest[p]
      OBVIOUS
    <3>2. TasksRight(p, js[p], E0, T0)
      BY <3>1, Zenon DEF JobsRight, JobRight
    <3>3. TasksRight(p, a, E0, T0)
      BY <1>3, <3>1, Zenon DEF PrunedTo
    <3>4. Unfinished(js, p) = Grid(p) \ E0
      BY <3>2, UnfinishedOf, Zenon
    <3>5. p \in DOMAIN ks
      <4>1. p \in sub /\ E[p] # Grid(p)
        BY <2>2, <3>1, <3>4 DEF JobsRight
      <4> QED BY <1>7, <4>1, Zenon
    <3>6. ks[p] = a
      BY <1>5, <3>1, <3>5, Zenon
    <3>7. TasksRight(p, ks[p], E0, T0)
      BY <3>3, <3>6, Zenon
    <3>8. Unfinished(ks, p) = Grid(p) \ E0
      BY <3>5, <3>7, UnfinishedOf, Zenon
    <3> QED BY <2>2, <3>4, <3>5, <3>8, Zenon
  <2>3. Linked(js, {})
    BY DEF JobsRight
  <2> QED BY <1>5, <2>1, <2>2, <2>3, FewerLinks, Zenon
<1>10. JobsRight(ks, sub, E, T)
  BY <1>5, <1>6, <1>7, <1>8, <1>9 DEF JobsRight
<1>11. Later(js, ks)
  BY <1>3, <1>5 DEF Later, PrunedTo
<1> QED BY <1>10, <1>11

-----------------------------------------------------------------------------
(* The links of a new job.                                                    *)

\* Job b has the id lists and the elements of job a.
SameInside(a, b) == b.ids = a.ids /\ b.tasks = a.tasks

\* What they determine: the tasks that are there, their holds, and whether all ended.
LEMMA InsideSame ==
  ASSUME NEW a, NEW b, SameInside(a, b)
  PROVE  /\ Present(b) = Present(a) /\ (Exited(b) <=> Exited(a))
         /\ \A t : job_get_hold_state(b, t) = job_get_hold_state(a, t)
<1>1. Listed(b) = Listed(a)
  BY DEF SameInside, Listed
<1>2. Present(b) = Present(a) /\ (Exited(b) <=> Exited(a))
  BY <1>1 DEF SameInside, Present, Exited
<1>3. \A t : job_get_hold_state(b, t) = job_get_hold_state(a, t)
  BY <1>1 DEF SameInside, job_get_hold_state, job_is_enrolled
<1> QED BY <1>2, <1>3

\* They also determine whether the holds of the array dependency are gone.
LEMMA GoneSame ==
  ASSUME NEW i, NEW a, NEW b, SameInside(a, b), b.ad = a.ad, HoldsGone(i, a)
  PROVE  HoldsGone(i, b)
<1>1. Present(b) = Present(a) /\ \A t : job_get_hold_state(b, t) = job_get_hold_state(a, t)
  BY InsideSame
<1> QED BY <1>1 DEF HoldsGone

\* The new job waits with -hold_jid for the jobs that are left.
JobLinks(js, j, ks) ==
  /\ ks = [i \in DOMAIN js |-> ks[i]]
  /\ \A i \in DOMAIN js : /\ Kept(i, js[i], ks[i]) /\ SameInside(js[i], ks[i])
                         /\ ks[i].ad = js[i].ad /\ ks[i].adsuc = js[i].adsuc
  /\ \A i \in DOMAIN js \ {j} : ks[i].jid = js[i].jid
  /\ ks[j].jid = {p \in js[j].jid \cap DOMAIN js : ~Exited(js[p])}

\* job_suc_pre_doit for -hold_jid: the new job waits for the jobs that are left.
LEMMA LinkJobs ==
  ASSUME NEW js, AllSound(js), NEW j \in DOMAIN js, j \in Jobs,
         NEW ks, ks = job_suc_pre_doit(js, j, "jid", "jidsuc")
  PROVE  JobLinks(js, j, ks)
<1> SUFFICES /\ ks = [i \in DOMAIN js |-> ks[i]]
             /\ \A i \in DOMAIN js : /\ Kept(i, js[i], ks[i]) /\ SameInside(js[i], ks[i])
                                    /\ ks[i].ad = js[i].ad /\ ks[i].adsuc = js[i].adsuc
             /\ \A i \in DOMAIN js \ {j} : ks[i].jid = js[i].jid
             /\ ks[j].jid = {p \in js[j].jid \cap DOMAIN js : ~Exited(js[p])}
  BY Zenon DEF JobLinks
<1>1. PICK waits : waits = {p \in js[j].jid \cap DOMAIN js : ~Exited(js[p])}
  BY Zenon
<1>2. /\ ks = [i \in DOMAIN js |-> ks[i]]
      /\ \A i \in DOMAIN js :
           ks[i] = IF i \in waits THEN [js[i] EXCEPT !.jidsuc = @ \cup {j}]
                   ELSE IF i = j THEN [js[i] EXCEPT !.jid = waits] ELSE js[i]
  BY <1>1, Zenon DEF job_suc_pre_doit
<1>3. IsJob(j, js[j]) /\ waits \subseteq js[j].jid /\ j \notin waits
  BY <1>1 DEF AllSound, IsJob
<1>4. ASSUME NEW i \in DOMAIN js
      PROVE  /\ Kept(i, js[i], ks[i]) /\ SameInside(js[i], ks[i])
             /\ ks[i].ad = js[i].ad /\ ks[i].adsuc = js[i].adsuc
             /\ i # j => ks[i].jid = js[i].jid
             /\ i = j => ks[i].jid = waits
  <2>1. IsJob(i, js[i]) /\ Sound(js[i])
    BY DEF AllSound
  <2>2. CASE i \in waits
    <3>1. PICK a, b : a = js[i] /\ b = [a EXCEPT !.jidsuc = @ \cup {j}]
      BY Zenon
    <3>2. /\ IsJob(i, b) /\ b.ids = a.ids /\ b.tasks = a.tasks
          /\ b.jid = a.jid /\ b.ad = a.ad /\ b.adsuc = a.adsuc
      BY <1>3, <2>1, <2>2, <3>1 DEF IsJob
    <3>3. Kept(i, a, b)
      BY <2>1, <3>1, <3>2, LinkKeeps, Zenon
    <3>4. a = js[i] /\ b = ks[i] /\ i # j
      BY <1>2, <1>3, <2>2, <3>1, Zenon
    <3> QED BY <3>2, <3>3, <3>4, Zenon DEF SameInside
  <2>3. CASE i = j
    <3>1. PICK a, b : a = js[i] /\ b = [a EXCEPT !.jid = waits]
      BY Zenon
    <3>2. /\ IsJob(i, b) /\ b.ids = a.ids /\ b.tasks = a.tasks
          /\ b.jid = waits /\ b.ad = a.ad /\ b.adsuc = a.adsuc
      BY <1>3, <2>1, <2>3, <3>1 DEF IsJob
    <3>3. Kept(i, a, b)
      BY <2>1, <3>1, <3>2, LinkKeeps, Zenon
    <3>4. a = js[i] /\ b = ks[i]
      BY <1>2, <1>3, <2>3, <3>1, Zenon
    <3> QED BY <2>3, <3>2, <3>3, <3>4, Zenon DEF SameInside
  <2>4. CASE i \notin waits /\ i # j
    BY <1>2, <2>1, <2>4, KeptSelf, Zenon DEF SameInside
  <2> QED BY <2>2, <2>3, <2>4, Zenon
<1> QED BY <1>1, <1>2, <1>4

\* The new job waits with -hold_jid_ad for the jobs that are left.
TaskLinks(js, j, ks) ==
  /\ ks = [i \in DOMAIN js |-> ks[i]]
  /\ \A i \in DOMAIN js : /\ Kept(i, js[i], ks[i]) /\ SameInside(js[i], ks[i])
                         /\ ks[i].jid = js[i].jid
  /\ \A i \in DOMAIN js \ {j} : ks[i].ad = js[i].ad /\ js[i].adsuc \subseteq ks[i].adsuc
  /\ ks[j].ad = {p \in js[j].ad \cap DOMAIN js : ~Exited(js[p])}
  /\ \A p \in ks[j].ad : j \in ks[p].adsuc

\* job_suc_pre_doit for -hold_jid_ad.
LEMMA LinkTasks ==
  ASSUME NEW js, AllSound(js), NEW j \in DOMAIN js, j \in Jobs,
         NEW ks, ks = job_suc_pre_doit(js, j, "ad", "adsuc")
  PROVE  TaskLinks(js, j, ks)
<1> SUFFICES /\ ks = [i \in DOMAIN js |-> ks[i]]
             /\ \A i \in DOMAIN js : /\ Kept(i, js[i], ks[i]) /\ SameInside(js[i], ks[i])
                                    /\ ks[i].jid = js[i].jid
             /\ \A i \in DOMAIN js \ {j} : ks[i].ad = js[i].ad /\ js[i].adsuc \subseteq ks[i].adsuc
             /\ ks[j].ad = {p \in js[j].ad \cap DOMAIN js : ~Exited(js[p])}
             /\ \A p \in ks[j].ad : j \in ks[p].adsuc
  BY Zenon DEF TaskLinks
<1>1. PICK waits : waits = {p \in js[j].ad \cap DOMAIN js : ~Exited(js[p])}
  BY Zenon
<1>2. /\ ks = [i \in DOMAIN js |-> ks[i]]
      /\ \A i \in DOMAIN js :
           ks[i] = IF i \in waits THEN [js[i] EXCEPT !.adsuc = @ \cup {j}]
                   ELSE IF i = j THEN [js[i] EXCEPT !.ad = waits] ELSE js[i]
  BY <1>1, Zenon DEF job_suc_pre_doit
<1>3. IsJob(j, js[j]) /\ waits \subseteq js[j].ad /\ j \notin waits
  BY <1>1 DEF AllSound, IsJob
<1>4. ASSUME NEW i \in DOMAIN js
      PROVE  /\ Kept(i, js[i], ks[i]) /\ SameInside(js[i], ks[i]) /\ ks[i].jid = js[i].jid
             /\ i # j => ks[i].ad = js[i].ad /\ js[i].adsuc \subseteq ks[i].adsuc
             /\ i = j => ks[i].ad = waits
             /\ i \in waits => j \in ks[i].adsuc
  <2>1. IsJob(i, js[i]) /\ Sound(js[i])
    BY DEF AllSound
  <2>2. CASE i \in waits
    <3>1. PICK a, b : a = js[i] /\ b = [a EXCEPT !.adsuc = @ \cup {j}]
      BY Zenon
    <3>2. /\ IsJob(i, b) /\ b.ids = a.ids /\ b.tasks = a.tasks
          /\ b.jid = a.jid /\ b.ad = a.ad /\ b.adsuc = a.adsuc \cup {j}
      BY <1>3, <2>1, <2>2, <3>1 DEF IsJob
    <3>3. Kept(i, a, b)
      BY <2>1, <3>1, <3>2, LinkKeeps, Zenon
    <3>4. a = js[i] /\ b = ks[i] /\ i # j
      BY <1>2, <1>3, <2>2, <3>1, Zenon
    <3> QED BY <3>2, <3>3, <3>4, Zenon DEF SameInside
  <2>3. CASE i = j
    <3>1. PICK a, b : a = js[i] /\ b = [a EXCEPT !.ad = waits]
      BY Zenon
    <3>2. /\ IsJob(i, b) /\ b.ids = a.ids /\ b.tasks = a.tasks
          /\ b.jid = a.jid /\ b.ad = waits
      BY <1>3, <2>1, <2>3, <3>1 DEF IsJob
    <3>3. Kept(i, a, b)
      BY <2>1, <3>1, <3>2, LinkKeeps, Zenon
    <3>4. a = js[i] /\ b = ks[i] /\ i \notin waits
      BY <1>2, <1>3, <2>3, <3>1, Zenon
    <3> QED BY <2>3, <3>2, <3>3, <3>4, Zenon DEF SameInside
  <2>4. CASE i \notin waits /\ i # j
    BY <1>2, <2>1, <2>4, KeptSelf, Zenon DEF SameInside
  <2> QED BY <2>2, <2>3, <2>4, Zenon
<1>5. ks[j].ad = waits /\ \A p \in waits : p \in DOMAIN js /\ j \in ks[p].adsuc
  BY <1>1, <1>4
<1> QED BY <1>1, <1>2, <1>4, <1>5

-----------------------------------------------------------------------------
(* Submission.                                                                *)

\* The job that qsub creates, before its dependencies are looked at.
NewJob(j) ==
  [ids |-> [k \in Lists |-> IF k = "n" THEN Grid(j) ELSE {}],
   tasks |-> Empty, jid |-> conf.jid[j], jidsuc |-> {},
   ad |-> conf.ad[j], adsuc |-> {}]

\* The tasks of a job without a user hold.
NoHolds(j) == [t \in Grid(j) |-> {}]

\* None of its tasks has a hold, an element or has ended.
LEMMA NewJobRight ==
  ASSUME conf \in Confs, NEW j \in conf.jobs, j \notin conf.jid[j] \cup conf.ad[j],
         NEW T, T = NoHolds(j), NEW job, job = NewJob(j)
  PROVE  JobRight(j, job, {}, T) /\ job.jid = conf.jid[j]
<1>1. /\ conf.jobs \subseteq Jobs /\ j \in Jobs /\ Lo \in Nat \ {0} /\ conf.hi \in Nat /\ conf.hi > Lo
      /\ conf.step[j] \in Nat \ {0}
      /\ conf.jid[j] \subseteq Jobs /\ conf.ad[j] \subseteq Jobs
  BY ArrayAssumption
<1>2. PICK ids : ids = [k \in Lists |-> IF k = "n" THEN Grid(j) ELSE {}]
  BY Zenon
<1>3. /\ ids \in [Lists -> SUBSET Grid(j)] /\ ids["n"] = Grid(j)
      /\ \A k \in Holds : ids[k] = {} /\ k \in Lists
      /\ "n" \in Lists
  BY <1>2 DEF Lists, Holds
<1>4. /\ job.ids = ids /\ job.tasks = Empty /\ job.jid = conf.jid[j]
      /\ job \in [ids : {ids}, tasks : {Empty}, jid : {conf.jid[j]}, jidsuc : {{}},
                  ad : {conf.ad[j]}, adsuc : {{}}]
  BY <1>2 DEF NewJob
<1>5. DOMAIN Empty = {} /\ Empty \in [{} -> Element]
  BY DEF Empty
<1>6. IsJob(j, job)
  BY <1>1, <1>3, <1>4, <1>5, Zenon DEF IsJob
<1>7. Listed(job) = Grid(j)
  BY <1>3, <1>4 DEF Listed
<1>8. Present(job) = Grid(j)
  BY <1>4, <1>5, <1>7 DEF Present
<1>9. \A t \in Grid(j) : job_get_hold_state(job, t) = {} /\ T[t] = {}
  BY <1>3, <1>4, <1>7 DEF job_get_hold_state, job_is_enrolled, NoHolds
<1>10. TasksRight(j, job, {}, T)
  BY <1>3, <1>4, <1>5, <1>6, <1>7, <1>8, <1>9 DEF TasksRight
<1>11. Lo \in Grid(j)
  BY <1>1 DEF Grid, Tasks
<1> QED BY <1>4, <1>5, <1>8, <1>10, <1>11 DEF JobRight

\* A list of jobs that are kept, with the links that matter for -hold_jid.
LEMMA KeptJobsSound ==
  ASSUME NEW js, NEW ks, ks = [i \in DOMAIN js |-> ks[i]],
         \A i \in DOMAIN js : Kept(i, js[i], ks[i])
  PROVE  AllSound(ks) /\ DOMAIN ks = DOMAIN js
BY DEF AllSound, Kept

\* The jobs of js wait for the jobs they waited for and have the tasks they had.
SameJobs(js, ks) == \A i \in DOMAIN js : ks[i].jid = js[i].jid /\ SameTasks(js[i], ks[i])

\* A hold of the array dependency on a task of the new job is there because the task
\* depends on another.
LEMMA NewHolds ==
  ASSUME NEW js, NEW j, js[j] = NewJob(j), IsJob(j, js[j]), Sound(js[j]),
         NEW G, G = Grid(j), NEW b, b = sge_task_depend_update(js, j, G),
         NEW t \in G, "a" \in job_get_hold_state(b, t)
  PROVE  Depends(js, j, t)
<1>1. PICK hold : hold = [x \in {y \in G : ~task_depend_is_finished(js[j], y)} |->
                            IF Depends(js, j, x) THEN job_get_hold_state(js[j], x) \cup {"a"}
                            ELSE job_get_hold_state(js[j], x) \ {"a"}]
  BY Zenon
<1>2. b = job_set_hold_state(js[j], hold)
  BY <1>1 DEF sge_task_depend_update
<1>3. HeldAs(js[j], b, hold)
  <2>1. AreHolds(hold)
    BY <1>1, HoldState DEF AreHolds, Holds
  <2> QED BY <1>2, <2>1, SetHold
<1>4. t \in Listed(js[j])
  <2>1. NewJob(j).ids = [k \in Lists |-> IF k = "n" THEN Grid(j) ELSE {}]
    BY DEF NewJob
  <2>2. js[j].ids = [k \in Lists |-> IF k = "n" THEN Grid(j) ELSE {}]
    BY <2>1, Zenon
  <2> QED BY <2>2, Zenon DEF Listed, Lists
<1>5. t \in DOMAIN hold /\ t \in Present(js[j])
  BY <1>1, <1>4 DEF task_depend_is_finished, job_is_enrolled, Present
<1>6. "a" \in hold[t]
  BY <1>3, <1>5 DEF HeldAs
<1> QED BY <1>1, <1>5, <1>6

\* Every task of a job whose tasks all ended counts as finished, and the job is there
\* for the sake of retention.
LEMMA ExitedRetained ==
  ASSUME NEW p, NEW job, NEW E, NEW T, JobRight(p, job, E, T), Exited(job)
  PROVE  conf.retention /\ \A x : task_depend_is_finished(job, x)
<1>1. DOMAIN job.tasks # {} /\ DOMAIN job.tasks \subseteq E
  BY DEF JobRight, TasksRight, Exited, Present
<1>2. conf.retention \/ DOMAIN job.tasks \cap E = {}
  BY DEF JobRight
<1>3. conf.retention
  BY <1>1, <1>2
<1>4. \A x : task_depend_is_finished(job, x)
  BY DEF task_depend_is_finished, job_is_enrolled, Exited
<1> QED BY <1>3, <1>4

\* The jobs that were there, js, have one more link at most in ks.
OldLinks(js, ks) ==
  \A i \in DOMAIN js : /\ SameInside(js[i], ks[i])
                       /\ ks[i].ad = js[i].ad /\ js[i].adsuc \subseteq ks[i].adsuc

\* The new job j of ks waits for the jobs it names, as far as they were in as, and
\* its tasks are held if they depend on others there.
NewLinks(as, ks, j) ==
  /\ ks[j].ad = {p \in conf.ad[j] \cap DOMAIN as : ~Exited(as[p])}
  /\ \A p \in ks[j].ad : j \in ks[p].adsuc
  /\ \A t \in Present(ks[j]) : "a" \in job_get_hold_state(ks[j], t) => Depends(as, j, t)

\* With these links, every hold and every link has a reason.
LEMMA SubmitLinks ==
  ASSUME NEW js, NEW sub, NEW E, NEW T, JobsRight(js, sub, E, T),
         NEW j, j \notin DOMAIN js, j \notin conf.ad[j],
         NEW as, as = Added(js, j, NewJob(j)),
         NEW ks, DOMAIN ks = DOMAIN as, OldLinks(js, ks), NewLinks(as, ks, j)
  PROVE  Linked(ks, {})
<1>1. /\ DOMAIN as = DOMAIN js \cup {j} /\ as[j] = NewJob(j)
      /\ \A i \in DOMAIN js : as[i] = js[i]
  BY DEF Added
<1>2. ASSUME NEW p \in DOMAIN js, Unfinished(js, p) # {} PROVE Unfinished(ks, p) # {}
  <2>1. Listed(ks[p]) = Listed(js[p])
    BY DEF OldLinks, SameInside, Listed
  <2> QED BY <1>1, <1>2, <2>1 DEF OldLinks, SameInside, Unfinished
<1>3. ASSUME NEW i \in DOMAIN js
      PROVE  /\ ks[i].ad \subseteq conf.ad[i] \cap DOMAIN ks /\ HoldsGone(i, ks[i])
             /\ \A p \in ks[i].ad : i \in ks[p].adsuc /\ Unfinished(ks, p) # {}
  <2>1. /\ js[i].ad \subseteq conf.ad[i] \cap DOMAIN js /\ HoldsGone(i, js[i])
        /\ \A p \in js[i].ad : i \in js[p].adsuc /\ Unfinished(js, p) # {}
    BY DEF JobsRight, Linked
  <2>2. HoldsGone(i, ks[i])
    <3>1. PICK a, b : a = js[i] /\ b = ks[i]
      OBVIOUS
    <3>2. SameInside(a, b) /\ b.ad = a.ad /\ HoldsGone(i, a)
      BY <2>1, <3>1 DEF OldLinks
    <3>3. HoldsGone(i, b)
      BY <3>2, GoneSame, Zenon
    <3> QED BY <3>1, <3>3, Zenon
  <2> QED BY <1>1, <1>2, <2>1, <2>2 DEF OldLinks
<1>4. ASSUME NEW p \in ks[j].ad
      PROVE  p \in conf.ad[j] \cap DOMAIN ks /\ j \in ks[p].adsuc /\ Unfinished(ks, p) # {}
  <2>1. p \in conf.ad[j] /\ p \in DOMAIN js /\ ~Exited(js[p])
    BY <1>1 DEF NewLinks
  <2>2. Unfinished(js, p) # {}
    BY <2>1 DEF Unfinished, Exited
  <2> QED BY <1>1, <1>2, <2>1, <2>2 DEF NewLinks
<1>5. HoldsGone(j, ks[j])
  <2>1. SUFFICES ASSUME ks[j].ad = {}, NEW t \in Present(ks[j]), "a" \in job_get_hold_state(ks[j], t)
                 PROVE  OpenRange(j, t)
    BY DEF HoldsGone
  <2>2. Depends(as, j, t) /\ as[j].ad = conf.ad[j]
    <3>1. Depends(as, j, t)
      BY <2>1, Zenon DEF NewLinks
    <3>2. as[j].ad = conf.ad[j]
      <4>1. NewJob(j).ad = conf.ad[j]
        BY DEF NewJob
      <4> QED BY <1>1, <4>1, Zenon
    <3> QED BY <3>1, <3>2, Zenon
  <2>3. PICK p \in conf.ad[j] \cap DOMAIN as :
          \/ sge_task_depend_get_range(p, j, t) = {}
          \/ \E x : ~task_depend_is_finished(as[p], x)
    BY <2>2 DEF Depends
  <2>4. p \in DOMAIN js /\ as[p] = js[p] /\ Exited(js[p])
    BY <1>1, <2>1, <2>3 DEF NewLinks
  <2>5. PICK job, E0, T0 : job = js[p] /\ E0 = E[p] /\ T0 = T[p]
    OBVIOUS
  <2>6. JobRight(p, job, E0, T0) /\ Exited(job)
    BY <2>4, <2>5 DEF JobsRight
  <2>7. conf.retention /\ \A x : task_depend_is_finished(as[p], x)
    BY <2>4, <2>5, <2>6, ExitedRetained
  <2> QED BY <2>3, <2>7 DEF OpenRange
<1>6. ASSUME NEW i \in DOMAIN ks
      PROVE  /\ ks[i].ad \subseteq conf.ad[i] \cap DOMAIN ks /\ HoldsGone(i, ks[i])
             /\ \A p \in ks[i].ad : i \in ks[p].adsuc /\ Unfinished(ks, p) # {}
  BY <1>1, <1>3, <1>4, <1>5
<1> QED BY <1>6 DEF Linked

\* Job j is new, and the jobs it waits for are known.
MaySubmit(js, sub, E, T, j) ==
  /\ JobsRight(js, sub, E, T)
  /\ j \in conf.jobs \ sub /\ conf.jid[j] \cup conf.ad[j] \subseteq sub
  /\ E[j] = {} /\ T[j] = NoHolds(j)

\* The list with the new job and its links.
WithJob(js, j) ==
  job_suc_pre_doit(job_suc_pre_doit(sge_task_depend_init(Added(js, j, NewJob(j)), j),
                                    j, "jid", "jidsuc"), j, "ad", "adsuc")

\* It is right, and the other jobs are as before.
Submitted(js, sub, E, T, j, ks) ==
  /\ JobsRight(ks, sub \cup {j}, E, T)
  /\ DOMAIN ks = DOMAIN js \cup {j} /\ j \notin DOMAIN js
  /\ SameJobs(js, ks)

\* qsub: the new job is right, and a job it does not wait for has ended.
LEMMA SubmitRight ==
  ASSUME conf \in Confs, NEW js, NEW sub, NEW E, NEW T, NEW j, MaySubmit(js, sub, E, T, j),
         NEW ks, ks = WithJob(js, j)
  PROVE  Submitted(js, sub, E, T, j, ks)
<1> SUFFICES ASSUME JobsRight(js, sub, E, T), j \in conf.jobs \ sub,
                    conf.jid[j] \cup conf.ad[j] \subseteq sub, E[j] = {}, T[j] = NoHolds(j)
             PROVE  /\ JobsRight(ks, sub \cup {j}, E, T)
                    /\ DOMAIN ks = DOMAIN js \cup {j} /\ j \notin DOMAIN js
                    /\ SameJobs(js, ks)
  BY Zenon DEF MaySubmit, Submitted
<1> PICK vs : vs = sge_task_depend_init(Added(js, j, NewJob(j)), j)
  OBVIOUS
<1> ks = job_suc_pre_doit(job_suc_pre_doit(vs, j, "jid", "jidsuc"), j, "ad", "adsuc")
  BY DEF WithJob
<1>0. j \in Jobs /\ sub \subseteq Jobs /\ DOMAIN js \subseteq sub /\ j \notin DOMAIN js
  <2>1. conf.jobs \subseteq Jobs
    BY ArrayAssumption
  <2> QED BY <2>1 DEF JobsRight
<1>1. PICK job, as : job = NewJob(j) /\ as = Added(js, j, job)
  OBVIOUS
<1>2. JobRight(j, job, E[j], T[j]) /\ job.jid = conf.jid[j]
  <2>1. j \in conf.jobs /\ j \notin conf.jid[j] \cup conf.ad[j]
    OBVIOUS
  <2>2. PICK T0 : T0 = T[j]
    OBVIOUS
  <2>3. T0 = NoHolds(j)
    BY <2>2
  <2>4. JobRight(j, job, {}, T0) /\ job.jid = conf.jid[j]
    BY <1>1, <2>1, <2>3, NewJobRight
  <2> QED BY <2>2, <2>4
<1>3. /\ as = [i \in DOMAIN as |-> as[i]] /\ DOMAIN as = DOMAIN js \cup {j} /\ as[j] = job
      /\ \A i \in DOMAIN js : as[i] = js[i]
  BY <1>0, <1>1 DEF Added
<1>4. \A i \in DOMAIN as : JobRight(i, as[i], E[i], T[i])
  BY <1>2, <1>3, Zenon DEF JobsRight
<1>5. AllSound(as)
  BY <1>3, <1>4, RightIsSound, Zenon DEF AllSound, JobRight
<1>6. /\ vs = [i \in DOMAIN as |-> vs[i]]
      /\ \A i \in DOMAIN as : Kept(i, as[i], vs[i]) /\ vs[i].jid = as[i].jid
      /\ \A i \in DOMAIN js : vs[i] = js[i]
      /\ vs[j].ad = conf.ad[j]
      /\ \A t \in Present(vs[j]) : "a" \in job_get_hold_state(vs[j], t) => Depends(as, j, t)
  <2>1. \A i \in DOMAIN as : Kept(i, as[i], as[i])
    BY <1>5, KeptSelf, Zenon DEF AllSound
  <2>2. CASE conf.ad[j] = {}
    <3>1. vs = as
      BY <1>1, <2>2 DEF sge_task_depend_init
    <3>2. job.ad = conf.ad[j] /\ \A t \in Present(job) : "a" \notin job_get_hold_state(job, t)
      <4>1. /\ job.ids = [k \in Lists |-> IF k = "n" THEN Grid(j) ELSE {}] /\ job.tasks = Empty
            /\ job.ad = conf.ad[j]
        BY <1>1 DEF NewJob
      <4>2. job.ids["a"] = {} /\ DOMAIN job.tasks = {}
        BY <4>1 DEF Lists, Holds, Empty
      <4> QED BY <4>1, <4>2 DEF job_get_hold_state
    <3> QED BY <1>3, <2>1, <3>1, <3>2, Zenon
  <2>3. CASE conf.ad[j] # {}
    <3>1. PICK G, b : G = Grid(j) /\ b = sge_task_depend_update(as, j, G)
      BY Zenon
    <3>2. job.ad = conf.ad[j]
      BY <1>1 DEF NewJob
    <3>3. vs = [as EXCEPT ![j] = b]
      BY <1>1, <1>3, <2>3, <3>1, <3>2 DEF sge_task_depend_init
    <3>4. IsJob(j, as[j]) /\ Sound(as[j]) /\ as[j] = NewJob(j)
      BY <1>1, <1>3, <1>5 DEF AllSound
    <3>5. Kept(j, as[j], b) /\ SameLinks(as[j], b)
      BY <3>1, <3>4, UpdateKeeps, Zenon
    <3>6. ASSUME NEW t \in Present(b), "a" \in job_get_hold_state(b, t) PROVE Depends(as, j, t)
      <4>1. t \in G
        BY <3>1, <3>5, JobParts, Zenon DEF Kept
      <4> QED BY <3>1, <3>4, <3>6, <4>1, NewHolds, Zenon
    <3>7. vs[j] = b /\ \A i \in DOMAIN js : vs[i] = js[i]
      BY <1>0, <1>3, <3>3, Zenon
    <3> QED BY <1>3, <2>1, <3>2, <3>3, <3>5, <3>6, <3>7, Zenon DEF SameLinks
  <2> QED BY <2>2, <2>3, Zenon
<1>7. AllSound(vs) /\ DOMAIN vs = DOMAIN as
  BY <1>6, KeptJobsSound, Zenon
<1>8. PICK ms : ms = job_suc_pre_doit(vs, j, "jid", "jidsuc")
  OBVIOUS
<1>9. /\ ms = [i \in DOMAIN vs |-> ms[i]]
      /\ \A i \in DOMAIN vs : /\ Kept(i, vs[i], ms[i]) /\ SameInside(vs[i], ms[i])
                             /\ ms[i].ad = vs[i].ad /\ ms[i].adsuc = vs[i].adsuc
      /\ \A i \in DOMAIN vs \ {j} : ms[i].jid = vs[i].jid
      /\ ms[j].jid = {p \in vs[j].jid \cap DOMAIN vs : ~Exited(vs[p])}
  <2>1. AllSound(vs) /\ j \in DOMAIN vs /\ j \in Jobs
    BY <1>0, <1>3, <1>7
  <2>2. JobLinks(vs, j, ms)
    BY <1>8, <2>1, LinkJobs, Zenon
  <2> QED BY <2>2, Zenon DEF JobLinks
<1>10. AllSound(ms) /\ DOMAIN ms = DOMAIN as
  BY <1>7, <1>9, KeptJobsSound, Zenon
<1>11. /\ ks = [i \in DOMAIN ms |-> ks[i]]
       /\ \A i \in DOMAIN ms : /\ Kept(i, ms[i], ks[i]) /\ SameInside(ms[i], ks[i])
                              /\ ks[i].jid = ms[i].jid
       /\ \A i \in DOMAIN ms \ {j} : ks[i].ad = ms[i].ad /\ ms[i].adsuc \subseteq ks[i].adsuc
       /\ ks[j].ad = {p \in ms[j].ad \cap DOMAIN ms : ~Exited(ms[p])}
       /\ \A p \in ks[j].ad : j \in ks[p].adsuc
  <2>1. AllSound(ms) /\ j \in DOMAIN ms /\ j \in Jobs
    BY <1>0, <1>3, <1>10
  <2>2. ks = job_suc_pre_doit(ms, j, "ad", "adsuc")
    BY <1>8, Zenon
  <2>3. TaskLinks(ms, j, ks)
    BY <2>1, <2>2, LinkTasks, Zenon
  <2> QED BY <2>3, Zenon DEF TaskLinks
<1>12. \A i \in DOMAIN as : Kept(i, as[i], ks[i])
  <2>1. \A i \in DOMAIN as : Kept(i, as[i], ms[i])
    BY <1>6, <1>7, <1>9, KeptTwice, Zenon
  <2> QED BY <1>10, <1>11, <2>1, KeptTwice, Zenon
<1>13. DOMAIN ks = DOMAIN as /\ \A i \in DOMAIN ks : JobRight(i, ks[i], E[i], T[i])
  BY <1>4, <1>10, <1>11, <1>12, KeptRight, Zenon
<1>14. \A i \in DOMAIN js : ks[i].jid = js[i].jid
  <2>1. SUFFICES ASSUME NEW i \in DOMAIN js PROVE ks[i].jid = js[i].jid
    OBVIOUS
  <2>2. i \in DOMAIN as /\ i # j /\ as[i] = js[i]
    BY <1>0, <1>3, Zenon
  <2>3. vs[i].jid = as[i].jid /\ i \in DOMAIN vs \ {j}
    BY <1>6, <1>7, <2>2, Zenon
  <2>4. ms[i].jid = vs[i].jid /\ ks[i].jid = ms[i].jid
    BY <1>9, <1>10, <1>11, <2>2, <2>3, Zenon
  <2> QED BY <2>2, <2>3, <2>4
<1>15. ASSUME NEW p \in conf.jid[j] \ ks[j].jid PROVE E[p] = Grid(p)
  <2>1. p \in sub /\ p # j /\ E[p] \subseteq Grid(p)
    BY <1>0 DEF JobsRight
  <2>2. CASE p \notin DOMAIN js
    BY <2>1, <2>2 DEF JobsRight
  <2>3. CASE p \in DOMAIN js
    <3>1. p \in vs[j].jid \cap DOMAIN vs /\ ks[j].jid = ms[j].jid
      BY <1>2, <1>3, <1>6, <1>7, <1>10, <1>11, <2>3, Zenon
    <3>2. Exited(vs[p])
      BY <1>9, <1>15, <3>1, Zenon
    <3>3. SameTasks(js[p], vs[p])
      BY <1>3, <1>6, <2>3, Zenon DEF Kept
    <3>4. Listed(js[p]) = {} /\ \A t \in DOMAIN js[p].tasks : js[p].tasks[t].status = "finished"
      BY <3>2, <3>3 DEF Exited, SameTasks
    <3>5. TasksRight(p, js[p], E[p], T[p])
      BY <2>3 DEF JobsRight, JobRight
    <3>6. Grid(p) \subseteq E[p]
      BY <3>4, <3>5 DEF TasksRight, Present
    <3> QED BY <2>1, <3>6, Zenon
  <2> QED BY <2>2, <2>3
<1>16. \A i \in DOMAIN ks : \A p \in conf.jid[i] \ ks[i].jid : E[p] = Grid(p)
  BY <1>3, <1>13, <1>14, <1>15 DEF JobsRight
<1>17. Linked(ks, {})
  <2>1. \A i \in DOMAIN as : SameInside(vs[i], ms[i]) /\ SameInside(vs[i], ks[i])
    <3>1. \A i \in DOMAIN as : SameInside(vs[i], ms[i]) /\ SameInside(ms[i], ks[i])
      BY <1>7, <1>9, <1>10, <1>11, Zenon
    <3>2. ASSUME NEW i \in DOMAIN as PROVE SameInside(vs[i], ks[i])
      <4>1. SameInside(vs[i], ms[i]) /\ SameInside(ms[i], ks[i])
        BY <3>1, Zenon
      <4> QED BY <4>1 DEF SameInside
    <3> QED BY <3>1, <3>2, Zenon
  <2>2. \A i \in DOMAIN js : /\ SameInside(js[i], ks[i])
                            /\ ks[i].ad = js[i].ad /\ js[i].adsuc \subseteq ks[i].adsuc
    <3>1. SUFFICES ASSUME NEW i \in DOMAIN js
                   PROVE  /\ SameInside(js[i], ks[i])
                          /\ ks[i].ad = js[i].ad /\ js[i].adsuc \subseteq ks[i].adsuc
      OBVIOUS
    <3>2. i \in DOMAIN as /\ i \in DOMAIN vs /\ i \in DOMAIN ms \ {j} /\ vs[i] = js[i]
      BY <1>0, <1>3, <1>6, <1>7, <1>10
    <3>3. SameInside(js[i], ks[i])
      BY <2>1, <3>2, Zenon
    <3>4. ms[i].ad = js[i].ad /\ ms[i].adsuc = js[i].adsuc
      BY <1>9, <3>2
    <3>5. ks[i].ad = ms[i].ad /\ ms[i].adsuc \subseteq ks[i].adsuc
      BY <1>11, <3>2
    <3> QED BY <3>3, <3>4, <3>5
  <2>3. ks[j].ad = {p \in conf.ad[j] \cap DOMAIN as : ~Exited(as[p])}
    <3>1. j \in DOMAIN vs /\ ms[j].ad = conf.ad[j]
      BY <1>3, <1>6, <1>7, <1>9, Zenon
    <3>2. \A p \in DOMAIN as : Exited(ms[p]) <=> Exited(vs[p])
      BY <2>1, InsideSame, Zenon
    <3>3. \A p \in DOMAIN as : p # j => vs[p] = as[p]
      BY <1>3, <1>6, Zenon
    <3>4. j \notin conf.ad[j]
      OBVIOUS
    <3>5. \A p \in conf.ad[j] \cap DOMAIN as : Exited(ms[p]) <=> Exited(as[p])
      BY <3>2, <3>3, <3>4, Zenon
    <3>6. ks[j].ad = {p \in conf.ad[j] \cap DOMAIN as : ~Exited(ms[p])}
      BY <1>10, <1>11, <3>1, Zenon
    <3> QED BY <3>5, <3>6
  <2>4. \A t \in Present(ks[j]) : "a" \in job_get_hold_state(ks[j], t) => Depends(as, j, t)
    <3>1. SameInside(vs[j], ks[j])
      BY <1>3, <2>1
    <3>2. PICK a, b : a = vs[j] /\ b = ks[j]
      OBVIOUS
    <3>3. /\ Present(b) = Present(a)
          /\ \A t : job_get_hold_state(b, t) = job_get_hold_state(a, t)
      <4>1. SameInside(a, b)
        BY <3>1, <3>2, Zenon
      <4> QED BY <4>1, InsideSame, Zenon
    <3>4. \A t \in Present(a) : "a" \in job_get_hold_state(a, t) => Depends(as, j, t)
      BY <1>6, <3>2, Zenon
    <3> QED BY <3>2, <3>3, <3>4, Zenon
  <2>5. OldLinks(js, ks) /\ NewLinks(as, ks, j)
    BY <1>11, <2>2, <2>3, <2>4 DEF OldLinks, NewLinks
  <2>6. /\ DOMAIN ks = DOMAIN as /\ as = Added(js, j, NewJob(j)) /\ j \notin DOMAIN js
        /\ j \notin conf.ad[j]
    BY <1>0, <1>1, <1>13
  <2> QED BY <2>5, <2>6, SubmitLinks, Zenon
<1>18. JobsRight(ks, sub \cup {j}, E, T)
  <2>1. ks = [i \in DOMAIN ks |-> ks[i]] /\ DOMAIN ks \subseteq sub \cup {j}
    BY <1>0, <1>3, <1>10, <1>11
  <2>2. \A i \in sub \cup {j} : E[i] # Grid(i) => i \in DOMAIN ks
    BY <1>3, <1>13 DEF JobsRight
  <2> QED BY <1>13, <1>16, <1>17, <2>1, <2>2 DEF JobsRight
<1>19. SameJobs(js, ks)
  BY <1>3, <1>12, <1>14, Zenon DEF Kept, SameJobs
<1> QED BY <1>0, <1>3, <1>13, <1>18, <1>19
=============================================================================
