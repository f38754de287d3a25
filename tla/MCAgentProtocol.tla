---------------------------- MODULE MCAgentProtocol ----------------------------
(* An instance of AgentProtocol for TLC. *)
EXTENDS AgentProtocol, TLC

CONSTANTS k1, k2, k3, x, p1, p2, a1, a2

MCMaxDecisions == p1 :> 2 @@ p2 :> 1

MCStreams == <<"full", "delta">>

\* The second action is the interface's
MCOptions == {{a1}, {a2}}

\* An object with one member
In(v) == [NoMembers EXCEPT ![k1] = v]

\* Two observations: their members differ, some only two objects deep, in each way
\* in which a patch treats two members differently, and each may follow the other
\* or itself.
Before ==
  k1 :> x @@ k2 :> (k1 :> In(x) @@ k2 :> NoMembers @@ k3 :> Absent) @@ k3 :> Absent
After ==
  k1 :> In(Null) @@ k2 :> (k1 :> In(Null) @@ k2 :> Null @@ k3 :> In(x)) @@ k3 :> In(In(Null))

MCObservations == p1 :> {Before, After} @@ p2 :> {After}
================================================================================
