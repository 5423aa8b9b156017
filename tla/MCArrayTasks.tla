---------------------------- MODULE MCArrayTasks ----------------------------
(* Instances of ArrayTasks for TLC. *)
EXTENDS ArrayTasks, RangeListRight
CONSTANTS j1, j2, j3

None == [j \in Jobs |-> {}]
Steps(n) == [j \in Jobs |-> IF j = j2 THEN n ELSE 1]

\* One job of four tasks.
Alone ==
  [jobs |-> {j1}, hi |-> 4, step |-> Steps(1), jid |-> None, ad |-> None,
   retention |-> FALSE, ops |-> 2, faults |-> 0, start |-> 1]

\* Job j2 waits for job j1, or task by task for the tasks of job j1.
Pair ==
  [Alone EXCEPT !.jobs = {j1, j2}, !.hi = 2, !.ops = 1, !.faults = 1, !.start = 2]
JidPair == [Pair EXCEPT !.jid = [None EXCEPT ![j2] = {j1}]]
AdPair == [Pair EXCEPT !.ad = [None EXCEPT ![j2] = {j1}]]

\* Every second task of j2, for two of j1; the range of the last task of j2 is open.
Uneven == [AdPair EXCEPT !.hi = 3, !.step = Steps(2), !.ops = 0]

\* Job j3 waits for both, job j2 task by task for job j1.
Chain ==
  [AdPair EXCEPT !.jobs = {j1, j2, j3}, !.jid = [None EXCEPT ![j3] = {j1, j2}], !.faults = 0,
                 !.start = 1]

\* A range that stays open when all tasks of j1 have ended and are retained.
OpenLate ==
  [AdPair EXCEPT !.hi = 4, !.step = Steps(3), !.retention = TRUE, !.ops = 0, !.faults = 0]

MCConfs ==
  {Alone, Uneven, Chain, OpenLate}
    \cup {[p EXCEPT !.retention = keep] : p \in {JidPair, AdPair}, keep \in BOOLEAN}

\* Instances for one question.
MCDepend == {[AdPair EXCEPT !.ops = 0, !.faults = 0]}
MCThree == {[AdPair EXCEPT !.hi = 3]}
MCRetain == {[JidPair EXCEPT !.retention = TRUE]}

MCTargets == {{"u"}, {"o", "s"}}
MCRanges == {{2}}
=============================================================================
