---------------------------- MODULE MCDispatcher ----------------------------
(* Instances of Dispatcher for TLC: a message over the bus, and two that    *)
(* may be retried once, one of them after a back-off.                       *)
EXTENDS Dispatcher

CONSTANTS m1, m2, m3, ra, rb

MCRouteOf == [m \in Msgs |-> IF m = m3 THEN rb ELSE ra]
MCLevelOf == [m \in Msgs |-> IF m = m2 THEN 1 ELSE 5]
MCMaxRetries == [m \in Msgs |-> IF m \in BusMsgs THEN 0 ELSE 1]
MCRetryable == [m \in Msgs |-> {"Send"}]
SomeBackoff == [m \in Msgs |-> m = m2]
=============================================================================
