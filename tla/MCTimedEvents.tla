---------------------------- MODULE MCTimedEvents ----------------------------
(* TimedEvents on a small instance: one caller beside the timer thread,    *)
(* which inserts events itself; the key of the caller's events.            *)
EXTENDS TimedEvents
CONSTANTS c1, k1
=============================================================================
