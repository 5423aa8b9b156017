-------------------------- MODULE MCShadowMaster --------------------------
(* Instances of ShadowMaster for TLC. *)
EXTENDS ShadowMaster

\* A crash or a shutdown, a hanging host, a qmaster started by hand.
MCEnvs == {{"crash", "stop"}, {"hang"}, {"crash", "admin"}}
MCMaxFaults == [e \in MCEnvs |-> IF "admin" \in e THEN 2 ELSE 1]

\* The old master hangs, and crashes when it is back.
MCHangEnvs == {{"hang", "crash"}}
MCHangFaults == [e \in MCHangEnvs |-> 2]

\* A master that was replaced is shut down by an administrator.
MCStopEnvs == {{"hang", "stop"}}
MCStopFaults == [e \in MCStopEnvs |-> 2]
=============================================================================
