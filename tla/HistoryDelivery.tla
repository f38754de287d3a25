--------------------------- MODULE HistoryDelivery ---------------------------
(***************************************************************************)
(* What the durable history queue promises the game threads that publish   *)
(* through it, with nothing of how: no channel, no table, no batch and no  *)
(* process.  An event is accepted once (it is on disk), its publisher is   *)
(* told so afterwards, and it is then delivered at least once or put aside *)
(* in the quarantine, the events of one stream in their order.             *)
(***************************************************************************)
EXTENDS Naturals

CONSTANT Events        \* records with at least the fields stream and seq

VARIABLES
  accepted,            \* the events that reached the disk
  confirmed,           \* the events whose publish call returned
  delivered,           \* the events the platform received
  quarantined          \* the events put aside after the platform refused them

vars == <<accepted, confirmed, delivered, quarantined>>

Init ==
  /\ accepted = {}
  /\ confirmed = {}
  /\ delivered = {}
  /\ quarantined = {}

\* The events of e's stream that precede it.
Earlier(e) == {d \in Events : d.stream = e.stream /\ d.seq < e.seq}

\* A batch of new events becomes durable as a whole, no event before one of
\* its stream that was accepted.
Accept(E) ==
  /\ E # {}
  /\ E \cap accepted = {}
  /\ \A e \in E, d \in accepted : d.stream = e.stream => d.seq < e.seq
  /\ accepted' = accepted \cup E
  /\ UNCHANGED <<confirmed, delivered, quarantined>>

Confirm(e) ==
  /\ e \in accepted
  /\ confirmed' = confirmed \cup {e}
  /\ UNCHANGED <<accepted, delivered, quarantined>>

\* Delivery of a batch; what it repeats does not matter, what it delivers for
\* the first time must not overtake an earlier event of its stream.
Deliver(E) ==
  /\ E \subseteq accepted
  /\ \A e \in E : Earlier(e) \cap accepted \subseteq delivered \cup E \cup quarantined
  /\ delivered' = delivered \cup E
  /\ UNCHANGED <<accepted, confirmed, quarantined>>

Quarantine(e) ==
  /\ e \in accepted
  /\ Earlier(e) \cap accepted \subseteq delivered \cup quarantined
  /\ quarantined' = quarantined \cup {e}
  /\ UNCHANGED <<accepted, confirmed, delivered>>

Next ==
  \/ \E E \in SUBSET Events : Accept(E) \/ Deliver(E)
  \/ \E e \in Events : Confirm(e) \/ Quarantine(e)

Spec == Init /\ [][Next]_vars
==============================================================================
