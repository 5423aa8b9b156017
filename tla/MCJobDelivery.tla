---------------------------- MODULE MCJobDelivery ----------------------------
(* Two hosts, one of which a serial job is given, both of them a tight job. *)
EXTENDS JobDelivery

CONSTANTS h1, h2

MCHosts == {h1, h2}
MCGrants == [serial |-> {<<h1>>, <<h2>>}, tight |-> {<<h1, h2>>}]
MCRuns == [serial |-> 2, tight |-> 1]

\* What happens to a job of each kind in the run for safety ...
MCOps == [serial |-> {"resched"}, tight |-> {"force"}]
MCFaults == [serial |-> {"lose", "execd", "qmaster"}, tight |-> {"lose", "execd", "send"}]
\* ... in the run for liveness ...
MCLiveOps == [serial |-> {"qdel", "force"}, tight |-> {}]
MCLiveFaults == [serial |-> {"lose", "execd", "start", "qmaster"}, tight |-> {}]
\* ... and in runs for one question.
MCNoOps == [serial |-> {}, tight |-> {}]
MCQdel == [serial |-> {"qdel"}, tight |-> {"qdel"}]
MCResched == [serial |-> {"resched"}, tight |-> {"resched"}]
MCNoFaults == [serial |-> {}, tight |-> {}]
MCRestart == [serial |-> {"qmaster"}, tight |-> {"qmaster"}]
MCStart == [serial |-> {"start"}, tight |-> {}]
MCLose == [serial |-> {"lose"}, tight |-> {"lose"}]
=============================================================================
