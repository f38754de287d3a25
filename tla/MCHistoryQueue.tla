---------------------------- MODULE MCHistoryQueue ----------------------------
(* Instances of HistoryQueue for TLC. *)
EXTENDS HistoryQueue

\* An event the platform takes and one the platform refuses.  Against the quota of
\* six bytes a batch of both never fits beside a quarantined event; a request of
\* two good events is too large for the platform.
MixedPayloads == {[bytes |-> 1, bad |-> FALSE], [bytes |-> 3, bad |-> TRUE]}
===============================================================================
