-------------------------- MODULE MCEventDelivery --------------------------
(* The cluster queue list, the job list, or both.                             *)
EXTENDS EventDelivery

Queues == {"CQUEUE"}
Jobs == {"JOB"}
BothLists == {"CQUEUE", "JOB"}
ObjKind == {"obj"}
SubKind == {"sub"}
QueuesOnly == {Queues}
JobsOnly == {Jobs}
QueuesOrNothing == {{}, Queues}
QueuesOrBoth == {Queues, BothLists}
ServerFaults == {"ack_timeout", "ack_lost"}
AllFaults == {"ack_timeout", "get_timeout", "ack_lost"}
ClientFaults == {"get_timeout"}
=============================================================================
