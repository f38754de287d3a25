-------------------------- MODULE HistoryQueueProofs --------------------------
(***************************************************************************)
(* Proofs about HistoryQueue for every number of streams, events, crashes  *)
(* and misreported commits, and every value of the limits: types, that a   *)
(* confirmed event is never lost, that the byte counters are exact and the *)
(* quota is kept, that only events which the platform refuses alone are    *)
(* quarantined, and that the queue implements HistoryDelivery.             *)
(***************************************************************************)
EXTENDS HistoryQueue, FiniteSums, SequenceTheorems, TLAPS

-------------------------------------------------------------------------------
(* The inductive invariant.                                                *)

\* An event in flight is the latest of its stream, alone and held by one step
\* of its way to the spool.
OneInFlight ==
  /\ \A e \in InFlight : e.seq + 1 = nextSeq[e.stream]
  /\ \A d, e \in InFlight : d.stream = e.stream => d = e

\* What is durable was published, and an event in flight is not shadowed by
\* another one of its number.
AcceptedWasPublished ==
  /\ \A e \in Accepted : e.seq < nextSeq[e.stream]
  /\ \A d \in Accepted, e \in InFlight :
       d.stream = e.stream /\ d.seq = e.seq => d = e

\* A writer past gathering holds requests; one that confirms has committed them.
WriterInv ==
  /\ writer # "gather" => requests # <<>>
  /\ writer = "confirm" => Elements(requests) \subseteq Accepted

\* The ids order the rows as the streams order their events.
RowOrder ==
  /\ \A r \in outbox : r.id <= nextId
  /\ \A q, r \in outbox :
       q.event.stream = r.event.stream /\ q.event.seq < r.event.seq => q.id < r.id

\* The uploader holds the first rows, delivered ones when it acknowledges and a
\* single one when it quarantines.
UploaderInv ==
  /\ IsFiniteSet(outbox)
  /\ \A r \in batch, q \in outbox : q.id <= r.id => q \in batch
  /\ uploader = "acknowledge" => EventsOf(batch) \subseteq received
  /\ uploader = "quarantine" => \E r \in outbox : batch = {r}

IInv ==
  /\ TypeOK
  /\ OneInFlight
  /\ AcceptedWasPublished
  /\ WriterInv
  /\ RowOrder
  /\ UploaderInv
  /\ ConfirmedIsDurable

-------------------------------------------------------------------------------
(* Sequences and their elements.                                           *)

LEMMA ElementsEmpty == Elements(<<>>) = {}
BY DEF Elements

LEMMA ElementsType ==
  ASSUME NEW S, NEW q \in Seq(S)
  PROVE  Elements(q) \subseteq S
BY DEF Elements

LEMMA ElementsAppend ==
  ASSUME NEW S, NEW q \in Seq(S), NEW e \in S
  PROVE  /\ Append(q, e) \in Seq(S)
         /\ Len(Append(q, e)) = Len(q) + 1
         /\ Elements(Append(q, e)) = Elements(q) \cup {e}
<1>1. /\ Append(q, e) \in Seq(S)
      /\ Len(Append(q, e)) = Len(q) + 1
      /\ \A i \in 1..Len(q) : Append(q, e)[i] = q[i]
      /\ Append(q, e)[Len(q) + 1] = e
  BY AppendProperties
<1>2. Len(q) \in Nat
  BY LenProperties
<1>3. ASSUME NEW x PROVE x \in Elements(Append(q, e)) <=> x \in Elements(q) \cup {e}
  <2>1. CASE x = e
    BY <1>1, <1>2, <2>1 DEF Elements
  <2>2. CASE x # e
    BY <1>1, <1>2, <2>2 DEF Elements
  <2> QED
    BY <2>1, <2>2
<1> QED
  BY <1>1, <1>3

LEMMA ElementsHeadTail ==
  ASSUME NEW S, NEW q \in Seq(S), q # <<>>
  PROVE  /\ Head(q) \in S
         /\ Tail(q) \in Seq(S)
         /\ Len(q) \in Nat \ {0}
         /\ Len(Tail(q)) = Len(q) - 1
         /\ Len(q) # 1 => Tail(q) # <<>>
         /\ Elements(q) = {Head(q)} \cup Elements(Tail(q))
<1>1. /\ Head(q) \in S
      /\ Tail(q) \in Seq(S)
      /\ Len(Tail(q)) = Len(q) - 1
      /\ \A i \in 1..Len(Tail(q)) : Tail(q)[i] = q[i + 1]
  BY HeadTailProperties
<1>2. Len(q) \in Nat \ {0} /\ Head(q) = q[1]
  BY LenProperties, EmptySeq
<1>3. ASSUME NEW x PROVE x \in Elements(q) <=> x \in {Head(q)} \cup Elements(Tail(q))
  <2>1. ASSUME x \in Elements(q) PROVE x \in {Head(q)} \cup Elements(Tail(q))
    <3>1. PICK i \in 1..Len(q) : x = q[i]
      BY <2>1 DEF Elements
    <3>2. CASE i = 1
      BY <3>1, <3>2, <1>2
    <3>3. CASE i # 1
      <4>1. i - 1 \in 1..Len(Tail(q)) /\ Tail(q)[i - 1] = x
        BY <3>1, <3>3, <1>1, <1>2
      <4> QED
        BY <4>1 DEF Elements
    <3> QED
      BY <3>2, <3>3
  <2>2. ASSUME x \in Elements(Tail(q)) PROVE x \in Elements(q)
    <3>1. PICK i \in 1..Len(Tail(q)) : x = Tail(q)[i]
      BY <2>2 DEF Elements
    <3>2. i + 1 \in 1..Len(q) /\ q[i + 1] = x
      BY <3>1, <1>1, <1>2
    <3> QED
      BY <3>2 DEF Elements
  <2>3. Head(q) \in Elements(q)
    BY <1>2 DEF Elements
  <2> QED
    BY <2>1, <2>2, <2>3
<1>4. ASSUME Len(q) # 1 PROVE Tail(q) # <<>>
  <2>1. Len(Tail(q)) # 0
    BY <1>1, <1>2, <1>4
  <2>2. Len(<<>>) = 0
    OBVIOUS
  <2> QED
    BY <2>1, <2>2, Zenon
<1> QED
  BY <1>1, <1>2, <1>3, <1>4

-------------------------------------------------------------------------------
(* The invariant holds initially and is preserved.                         *)

LEMMA InitIInv == Init => IInv
<1> SUFFICES ASSUME Init PROVE IInv
  OBVIOUS
<1>1. InFlight = {} /\ Accepted = {}
  BY ElementsEmpty DEF Init, InFlight, Accepted, EventsOf
<1>2. TypeOK
  BY LimitAssumption DEF Init, TypeOK
<1>3. OneInFlight /\ AcceptedWasPublished
  BY <1>1 DEF OneInFlight, AcceptedWasPublished
<1>4. WriterInv /\ RowOrder
  BY DEF Init, WriterInv, RowOrder
<1>5. UploaderInv
  BY FS_EmptySet DEF Init, UploaderInv
<1>6. ConfirmedIsDurable
  BY DEF Init, ConfirmedIsDurable
<1> QED
  BY <1>2, <1>3, <1>4, <1>5, <1>6 DEF IInv

\* A step that starts no publication and accepts no event keeps what the events
\* in flight and the accepted ones owe to the stream lock.
LEMMA FlightFrame ==
  ASSUME OneInFlight, AcceptedWasPublished, nextSeq' = nextSeq,
         InFlight' \subseteq InFlight, Accepted' \subseteq Accepted
  PROVE  OneInFlight' /\ AcceptedWasPublished'
BY DEF OneInFlight, AcceptedWasPublished

\* The events the writer may commit are events.
LEMMA InFlightType ==
  ASSUME TypeOK
  PROVE  /\ InFlight \subseteq Events
         /\ Elements(channel) \subseteq Events
         /\ Elements(requests) \subseteq Events
BY ElementsType DEF TypeOK, InFlight

LEMMA EventFields ==
  ASSUME NEW e \in Events
  PROVE  e.stream \in Streams /\ e.seq \in 1..MaxSeq
BY DEF Events

LEMMA OpenStreamInv ==
  ASSUME IInv, NEW s \in Streams, OpenStream(s)
  PROVE  IInv'
<1> USE DEF OpenStream, writerVars, spoolVars, uploaderVars, faultVars
<1>1. InFlight' = InFlight /\ Accepted' = Accepted
  BY DEF InFlight, Accepted, EventsOf, Elements
<1>2. TypeOK'
  BY DEF IInv, TypeOK
<1>3. OneInFlight' /\ AcceptedWasPublished'
  BY <1>1, FlightFrame DEF IInv
<1>4. WriterInv'
  BY <1>1 DEF IInv, WriterInv, Elements
<1>5. RowOrder' /\ UploaderInv'
  BY DEF IInv, RowOrder, UploaderInv, EventsOf
<1>6. ConfirmedIsDurable'
  BY <1>1 DEF IInv, ConfirmedIsDurable
<1> QED
  BY <1>2, <1>3, <1>4, <1>5, <1>6 DEF IInv

LEMMA PublishInv ==
  ASSUME IInv, NEW s \in Streams, NEW p \in Payloads, Publish(s, p)
  PROVE  IInv'
<1> DEFINE new == [stream |-> s, seq |-> nextSeq[s], bytes |-> p.bytes, bad |-> p.bad]
<1> USE DEF Publish, writerVars, spoolVars, uploaderVars, faultVars
<1>1. Accepted' = Accepted
  BY DEF Accepted, EventsOf
<1>2. InFlight' = InFlight \cup {new}
  BY DEF InFlight, Elements
<1>3. /\ nextSeq \in [Streams -> 1..(MaxSeq + 1)]
      /\ nextSeq[s] \in 1..MaxSeq
      /\ nextSeq' = [nextSeq EXCEPT ![s] = nextSeq[s] + 1]
      /\ MaxSeq \in Nat
  BY LimitAssumption DEF IInv, TypeOK
<1>4. new \in Events /\ new.stream = s /\ new.seq = nextSeq[s]
  BY <1>3, SMTT(20) DEF Events
<1>5. Accepted \subseteq Events /\ InFlight \subseteq Events
  BY InFlightType DEF IInv, TypeOK, Accepted, EventsOf, Rows
<1>6. TypeOK'
  <2>1. nextSeq' \in [Streams -> 1..(MaxSeq + 1)]
    BY <1>3
  <2> QED
    BY <1>4, <2>1 DEF IInv, TypeOK
<1>7. OneInFlight'
  <2>1. ASSUME NEW e \in InFlight PROVE e.stream # s /\ e.seq + 1 = nextSeq'[e.stream]
    <3>1. e.stream # s /\ e.stream \in Streams
      BY <1>5, EventFields
    <3> QED
      BY <1>3, <3>1 DEF IInv, OneInFlight
  <2>2. new.seq + 1 = nextSeq'[new.stream]
    BY <1>3, <1>4
  <2> HIDE DEF new
  <2>3. \A e \in InFlight' : e.seq + 1 = nextSeq'[e.stream]
    BY <1>2, <2>1, <2>2
  <2>4. \A d, e \in InFlight' : d.stream = e.stream => d = e
    BY <1>2, <1>4, <2>1 DEF IInv, OneInFlight
  <2> QED
    BY <2>3, <2>4 DEF OneInFlight
<1>8. AcceptedWasPublished'
  <2>1. ASSUME NEW e \in Accepted PROVE e.seq < nextSeq'[e.stream]
    <3>1. e.stream \in Streams /\ e.seq \in Nat /\ e.seq < nextSeq[e.stream]
      BY <1>5, EventFields DEF IInv, AcceptedWasPublished
    <3> QED
      BY <1>3, <3>1
  <2>2. ASSUME NEW d \in Accepted, d.stream = new.stream, d.seq = new.seq PROVE d = new
    <3>1. d.seq < nextSeq[d.stream]
      BY DEF IInv, AcceptedWasPublished
    <3> QED
      BY <3>1, <2>2, <1>3, <1>4
  <2> HIDE DEF new
  <2> QED
    BY <1>1, <1>2, <2>1, <2>2 DEF IInv, AcceptedWasPublished
<1>9. WriterInv'
  BY <1>1 DEF IInv, WriterInv, Elements
<1>10. RowOrder' /\ UploaderInv'
  BY DEF IInv, RowOrder, UploaderInv, EventsOf
<1>11. ConfirmedIsDurable'
  BY <1>1 DEF IInv, ConfirmedIsDurable
<1> QED
  BY <1>6, <1>7, <1>8, <1>9, <1>10, <1>11 DEF IInv

LEMMA SendInv ==
  ASSUME IInv, NEW s \in Streams, Send(s)
  PROVE  IInv'
<1> USE DEF Send, spoolVars, uploaderVars, faultVars
<1>1. PICK e \in unsent : unsent' = unsent \ {e} /\ channel' = Append(channel, e)
  OBVIOUS
<1>2. e \in Events /\ channel \in Seq(Events)
  BY DEF IInv, TypeOK
<1>3. /\ channel' \in Seq(Events)
      /\ Len(channel') = Len(channel) + 1
      /\ Elements(channel') = Elements(channel) \cup {e}
  BY <1>1, <1>2, ElementsAppend
<1>4. InFlight' = InFlight
  <2>1. Elements(channel)' = Elements(channel') /\ Elements(requests)' = Elements(requests)
    BY DEF Elements
  <2> QED
    BY <2>1, <1>1, <1>3 DEF InFlight
<1>5. Accepted' = Accepted
  BY DEF Accepted, EventsOf
<1>6. TypeOK'
  BY <1>1, <1>3, LimitAssumption, LenProperties DEF IInv, TypeOK
<1>7. OneInFlight' /\ AcceptedWasPublished'
  BY <1>4, <1>5, FlightFrame DEF IInv
<1>8. WriterInv'
  BY <1>5 DEF IInv, WriterInv, Elements
<1>9. RowOrder' /\ UploaderInv'
  BY DEF IInv, RowOrder, UploaderInv, EventsOf
<1>10. ConfirmedIsDurable'
  BY <1>5 DEF IInv, ConfirmedIsDurable
<1> QED
  BY <1>6, <1>7, <1>8, <1>9, <1>10 DEF IInv

LEMMA WriterReceiveInv ==
  ASSUME IInv, WriterReceive
  PROVE  IInv'
<1> USE DEF WriterReceive, publisherVars, spoolVars, uploaderVars, faultVars
<1>1. channel \in Seq(Events) /\ requests \in Seq(Events) /\ channel # <<>>
  BY DEF IInv, TypeOK
<1>2. /\ Head(channel) \in Events
      /\ channel' \in Seq(Events)
      /\ Len(channel') = Len(channel) - 1
      /\ Elements(channel) = {Head(channel)} \cup Elements(channel')
  BY <1>1, ElementsHeadTail
<1>3. /\ requests' \in Seq(Events)
      /\ Len(requests') = Len(requests) + 1
      /\ Elements(requests') = Elements(requests) \cup {Head(channel)}
  BY <1>1, <1>2, ElementsAppend
<1>4. InFlight' = InFlight
  <2>1. Elements(channel)' = Elements(channel') /\ Elements(requests)' = Elements(requests')
    BY DEF Elements
  <2> QED
    BY <2>1, <1>2, <1>3 DEF InFlight
<1>5. Accepted' = Accepted
  BY DEF Accepted, EventsOf
<1>6. TypeOK'
  BY <1>1, <1>2, <1>3, LimitAssumption, LenProperties DEF IInv, TypeOK
<1>7. OneInFlight' /\ AcceptedWasPublished'
  BY <1>4, <1>5, FlightFrame DEF IInv
<1>8. WriterInv'
  BY DEF WriterInv
<1>9. RowOrder' /\ UploaderInv'
  BY DEF IInv, RowOrder, UploaderInv, EventsOf
<1>10. ConfirmedIsDurable'
  BY <1>5 DEF IInv, ConfirmedIsDurable
<1> QED
  BY <1>6, <1>7, <1>8, <1>9, <1>10 DEF IInv

LEMMA WriterStopsGatheringInv ==
  ASSUME IInv, WriterStopsGathering
  PROVE  IInv'
<1> USE DEF WriterStopsGathering, publisherVars, spoolVars, uploaderVars, faultVars
<1>1. InFlight' = InFlight /\ Accepted' = Accepted
  BY DEF InFlight, Accepted, EventsOf, Elements
<1>2. TypeOK'
  BY DEF IInv, TypeOK
<1>3. OneInFlight' /\ AcceptedWasPublished'
  BY <1>1, FlightFrame DEF IInv
<1>4. WriterInv'
  BY DEF WriterInv
<1>5. RowOrder' /\ UploaderInv'
  BY DEF IInv, RowOrder, UploaderInv, EventsOf
<1>6. ConfirmedIsDurable'
  BY <1>1 DEF IInv, ConfirmedIsDurable
<1> QED
  BY <1>2, <1>3, <1>4, <1>5, <1>6 DEF IInv

\* The rows a commit adds hold requested events under fresh ids.
LEMMA NewRowsFacts ==
  ASSUME IInv
  PROVE  /\ NewRows \subseteq Rows
         /\ IsFiniteSet(NewRows)
         /\ EventsOf(NewRows) \subseteq Elements(requests)
         /\ Elements(requests) \subseteq EventsOf(outbox \cup NewRows)
         /\ \A r \in NewRows : r.id > nextId /\ r.id <= nextId + Len(requests)
<1> DEFINE fresh == {j \in 1..Len(requests) : requests[j] \notin EventsOf(outbox)}
           row(i) == [id |-> nextId + i, event |-> requests[i]]
<1>1. nextId \in Nat \ {0} /\ Len(requests) \in Nat
      /\ \A i \in 1..Len(requests) : requests[i] \in Events
  BY LenProperties DEF IInv, TypeOK
<1>2. NewRows = {row(i) : i \in fresh}
  BY DEF NewRows
<1>3. IsFiniteSet(fresh)
  <2>1. IsFiniteSet(1..Len(requests))
    BY <1>1, FS_Interval
  <2> QED
    BY <2>1, FS_Subset, fresh \subseteq 1..Len(requests)
<1>4. IsFiniteSet(NewRows)
  <2> DEFINE rows == [i \in fresh |-> row(i)]
  <2>1. rows \in [fresh -> NewRows] /\ \A r \in NewRows : \E i \in fresh : rows[i] = r
    BY <1>2
  <2>2. rows \in Surjection(fresh, NewRows)
    BY <2>1 DEF Surjection
  <2> HIDE DEF fresh, rows
  <2> QED
    BY <1>3, <2>2, FS_Surjection
<1>5. NewRows \subseteq Rows
  BY <1>1, <1>2 DEF Rows
<1>6. \A r \in NewRows : r.id > nextId /\ r.id <= nextId + Len(requests)
  BY <1>1, <1>2
<1>7. EventsOf(NewRows) \subseteq Elements(requests)
  BY <1>2 DEF EventsOf, Elements
<1>8. ASSUME NEW i \in 1..Len(requests) PROVE requests[i] \in EventsOf(outbox \cup NewRows)
  <2>1. CASE i \in fresh
    <3>1. row(i) \in NewRows /\ row(i).event = requests[i]
      BY <1>2, <2>1
    <3> QED
      BY <3>1 DEF EventsOf
  <2>2. CASE i \notin fresh
    BY <2>2 DEF EventsOf
  <2> QED
    BY <2>1, <2>2
<1> QED
  BY <1>4, <1>5, <1>6, <1>7, <1>8 DEF Elements

\* The commit of a batch, however it is reported.
LEMMA PersistInv ==
  ASSUME IInv, Persist, misreports' \in 0..MaxMisreports,
         writer' \in {"persist", "confirm"}
  PROVE  IInv'
<1> USE DEF Persist, publisherVars, uploaderVars
<1>0. IInv
  OBVIOUS
<1>1. InFlight' = InFlight
  BY DEF InFlight, Elements
<1>2. Accepted' = Accepted \cup EventsOf(NewRows)
  BY DEF Accepted, EventsOf
<1>3. EventsOf(NewRows) \subseteq InFlight
  BY NewRowsFacts DEF InFlight
<1>4. TypeOK'
  BY <1>0, NewRowsFacts, LenProperties DEF IInv, TypeOK
<1>5. OneInFlight'
  BY <1>1 DEF IInv, OneInFlight
<1>6. AcceptedWasPublished'
  <2>1. \A e \in InFlight : e.seq < nextSeq[e.stream]
    BY InFlightType, EventFields DEF IInv, OneInFlight, TypeOK
  <2>2. \A d, e \in InFlight : d.stream = e.stream => d = e
    BY DEF IInv, OneInFlight
  <2> QED
    BY <1>1, <1>2, <1>3, <2>1, <2>2 DEF IInv, AcceptedWasPublished
<1>7. WriterInv'
  <2>1. requests # <<>>
    BY DEF IInv, WriterInv
  <2>2. Elements(requests) \subseteq Accepted'
    BY <1>0, NewRowsFacts DEF Accepted, EventsOf
  <2> QED
    BY <2>1, <2>2 DEF WriterInv, Elements
<1>8. RowOrder'
  <2>1. \A r \in outbox : r.id <= nextId /\ r.id \in Nat /\ r.event \in Accepted
    BY DEF IInv, TypeOK, RowOrder, Rows, Accepted, EventsOf
  <2>2. \A r \in NewRows : r.id > nextId /\ r.id <= nextId' /\ r.id \in Nat /\ r.event \in InFlight
    BY <1>0, NewRowsFacts, <1>3 DEF Rows, EventsOf
  <2>3. nextId \in Nat /\ nextId' \in Nat /\ nextId <= nextId'
    BY LenProperties DEF IInv, TypeOK
  <2>4. ASSUME NEW q \in outbox', NEW r \in outbox',
               q.event.stream = r.event.stream, q.event.seq < r.event.seq
        PROVE  q.id < r.id
    <3>1. CASE q \in outbox /\ r \in outbox
      BY <2>4, <3>1 DEF IInv, RowOrder
    <3>2. CASE q \in outbox /\ r \in NewRows
      BY <2>1, <2>2, <2>3, <3>2
    <3>3. CASE q \in NewRows /\ r \in NewRows
      <4>1. q.event = r.event
        BY <2>2, <2>4, <3>3 DEF IInv, OneInFlight
      <4>2. r.event.seq \in Nat
        BY <2>2, <3>3, InFlightType, EventFields DEF IInv
      <4> QED
        BY <4>1, <4>2, <2>4
    <3>4. CASE q \in NewRows /\ r \in outbox
      <4>1. q.event.seq + 1 = nextSeq[q.event.stream]
        BY <2>2, <3>4 DEF IInv, OneInFlight
      <4>2. r.event.seq < nextSeq[r.event.stream]
        BY <2>1, <3>4 DEF IInv, AcceptedWasPublished
      <4>3. q.event.seq \in Nat /\ r.event.seq \in Nat
        BY <2>2, <3>4, InFlightType, EventFields, SMTT(20) DEF IInv, TypeOK, Rows
      <4> QED
        BY <4>1, <4>2, <4>3, <2>4
    <3> QED
      BY <3>1, <3>2, <3>3, <3>4
  <2> QED
    BY <2>1, <2>2, <2>3, <2>4 DEF RowOrder
<1>9. UploaderInv'
  <2>1. IsFiniteSet(outbox')
    BY <1>0, NewRowsFacts, FS_Union DEF IInv, UploaderInv
  <2>2. ASSUME NEW r \in batch, NEW q \in outbox', q.id <= r.id PROVE q \in batch
    <3>1. r.id <= nextId /\ r.id \in Nat /\ nextId \in Nat
      BY DEF IInv, TypeOK, RowOrder, Rows
    <3>2. \A n \in NewRows : n.id > nextId /\ n.id \in Nat
      BY <1>0, NewRowsFacts DEF Rows
    <3>3. q \in outbox
      BY <2>2, <3>1, <3>2
    <3> QED
      BY <2>2, <3>3 DEF IInv, UploaderInv
  <2> QED
    BY <2>1, <2>2 DEF IInv, UploaderInv, EventsOf
<1>10. ConfirmedIsDurable'
  BY <1>2 DEF IInv, ConfirmedIsDurable
<1> QED
  BY <1>4, <1>5, <1>6, <1>7, <1>8, <1>9, <1>10 DEF IInv

LEMMA ConfirmNextInv ==
  ASSUME IInv, ConfirmNext
  PROVE  IInv'
<1> USE DEF ConfirmNext, publisherVars, spoolVars, uploaderVars, faultVars
<1>1. requests \in Seq(Events) /\ requests # <<>>
  BY DEF IInv, TypeOK, WriterInv
<1>2. /\ Head(requests) \in Events
      /\ requests' \in Seq(Events)
      /\ Len(requests) \in Nat \ {0}
      /\ Len(requests') = Len(requests) - 1
      /\ Len(requests) # 1 => requests' # <<>>
      /\ Elements(requests) = {Head(requests)} \cup Elements(requests')
  BY <1>1, ElementsHeadTail
<1>3. Elements(requests)' = Elements(requests') /\ Elements(channel)' = Elements(channel)
  BY DEF Elements
<1>4. InFlight' \subseteq InFlight
  BY <1>2, <1>3 DEF InFlight
<1>5. Accepted' = Accepted
  BY DEF Accepted, EventsOf
<1>6. Elements(requests) \subseteq Accepted
  BY DEF IInv, WriterInv
<1>7. TypeOK'
  BY <1>2, LimitAssumption DEF IInv, TypeOK
<1>8. OneInFlight' /\ AcceptedWasPublished'
  BY <1>4, <1>5, FlightFrame DEF IInv
<1>9. WriterInv'
  BY <1>2, <1>3, <1>5, <1>6 DEF WriterInv
<1>10. RowOrder' /\ UploaderInv'
  BY DEF IInv, RowOrder, UploaderInv, EventsOf
<1>11. ConfirmedIsDurable'
  BY <1>2, <1>5, <1>6 DEF IInv, ConfirmedIsDurable
<1> QED
  BY <1>7, <1>8, <1>9, <1>10, <1>11 DEF IInv


LEMMA LoadBatchInv ==
  ASSUME IInv, LoadBatch
  PROVE  IInv'
<1> USE DEF LoadBatch, publisherVars, writerVars, spoolVars, faultVars, IsPrefix
<1>1. InFlight' = InFlight /\ Accepted' = Accepted
  BY DEF InFlight, Accepted, EventsOf, Elements
<1>2. TypeOK'
  BY LimitAssumption DEF IInv, TypeOK
<1>3. OneInFlight' /\ AcceptedWasPublished'
  BY <1>1, FlightFrame DEF IInv
<1>4. WriterInv'
  BY <1>1 DEF IInv, WriterInv, Elements
<1>5. RowOrder'
  BY DEF IInv, RowOrder
<1>6. UploaderInv'
  BY DEF IInv, UploaderInv, EventsOf, TypeOK
<1>7. ConfirmedIsDurable'
  BY <1>1 DEF IInv, ConfirmedIsDurable
<1> QED
  BY <1>2, <1>3, <1>4, <1>5, <1>6, <1>7 DEF IInv

LEMMA LoadNothingInv ==
  ASSUME IInv, LoadNothing
  PROVE  IInv'
<1> USE DEF LoadNothing, publisherVars, writerVars, spoolVars, faultVars
<1>1. InFlight' = InFlight /\ Accepted' = Accepted
  BY DEF InFlight, Accepted, EventsOf, Elements
<1>2. TypeOK'
  BY LimitAssumption DEF IInv, TypeOK
<1>3. OneInFlight' /\ AcceptedWasPublished'
  BY <1>1, FlightFrame DEF IInv
<1>4. WriterInv'
  BY <1>1 DEF IInv, WriterInv, Elements
<1>5. RowOrder'
  BY DEF IInv, RowOrder
<1>6. UploaderInv'
  BY DEF IInv, UploaderInv, EventsOf, TypeOK
<1>7. ConfirmedIsDurable'
  BY <1>1 DEF IInv, ConfirmedIsDurable
<1> QED
  BY <1>2, <1>3, <1>4, <1>5, <1>6, <1>7 DEF IInv

\* The rows in the uploader's hands are rows of the outbox, so their events are
\* accepted already.
LEMMA DeliverAcceptedInv ==
  ASSUME IInv, DeliverAccepted
  PROVE  IInv'
<1> USE DEF DeliverAccepted, publisherVars, writerVars, spoolVars, faultVars
<1>1. InFlight' = InFlight /\ Accepted' = Accepted
  BY DEF InFlight, Accepted, EventsOf, Elements, IInv, TypeOK
<1>2. TypeOK'
  BY DEF IInv, TypeOK, EventsOf, Rows
<1>3. OneInFlight' /\ AcceptedWasPublished'
  BY <1>1, FlightFrame DEF IInv
<1>4. WriterInv'
  BY <1>1 DEF IInv, WriterInv, Elements
<1>5. RowOrder'
  BY DEF IInv, RowOrder
<1>6. UploaderInv'
  BY DEF IInv, UploaderInv, EventsOf, TypeOK
<1>7. ConfirmedIsDurable'
  BY <1>1 DEF IInv, ConfirmedIsDurable
<1> QED
  BY <1>2, <1>3, <1>4, <1>5, <1>6, <1>7 DEF IInv

LEMMA DeliverFailsInv ==
  ASSUME IInv, DeliverFails
  PROVE  IInv'
<1> USE DEF DeliverFails, publisherVars, writerVars, spoolVars, faultVars
<1>1. InFlight' = InFlight /\ Accepted' = Accepted
  BY DEF InFlight, Accepted, EventsOf, Elements, IInv, TypeOK
<1>2. TypeOK'
  BY DEF IInv, TypeOK, EventsOf, Rows
<1>3. OneInFlight' /\ AcceptedWasPublished'
  BY <1>1, FlightFrame DEF IInv
<1>4. WriterInv'
  BY <1>1 DEF IInv, WriterInv, Elements
<1>5. RowOrder'
  BY DEF IInv, RowOrder
<1>6. UploaderInv'
  BY DEF IInv, UploaderInv, EventsOf, TypeOK
<1>7. ConfirmedIsDurable'
  BY <1>1 DEF IInv, ConfirmedIsDurable
<1> QED
  BY <1>2, <1>3, <1>4, <1>5, <1>6, <1>7 DEF IInv

LEMMA DeliverRefusedInv ==
  ASSUME IInv, DeliverRefused
  PROVE  IInv'
<1> USE DEF DeliverRefused, publisherVars, writerVars, spoolVars, faultVars
<1>1. InFlight' = InFlight /\ Accepted' = Accepted
  BY DEF InFlight, Accepted, EventsOf, Elements
<1>2. TypeOK'
  <2>1. IsFiniteSet(batch)
    BY FS_Subset DEF IInv, TypeOK, UploaderInv
  <2>2. batchLimit' \in Nat
    BY <2>1, FS_CardinalityType DEF IInv, TypeOK
  <2> QED
    BY <2>2 DEF IInv, TypeOK
<1>3. OneInFlight' /\ AcceptedWasPublished'
  BY <1>1, FlightFrame DEF IInv
<1>4. WriterInv'
  BY <1>1 DEF IInv, WriterInv, Elements
<1>5. RowOrder'
  BY DEF IInv, RowOrder
<1>6. UploaderInv'
  BY DEF IInv, UploaderInv, EventsOf, TypeOK
<1>7. ConfirmedIsDurable'
  BY <1>1 DEF IInv, ConfirmedIsDurable
<1> QED
  BY <1>2, <1>3, <1>4, <1>5, <1>6, <1>7 DEF IInv

LEMMA AcknowledgeInv ==
  ASSUME IInv, Acknowledge
  PROVE  IInv'
<1> USE DEF Acknowledge, publisherVars, writerVars, faultVars
<1>1. InFlight' = InFlight
  BY DEF InFlight, Elements
<1>2. Accepted' = Accepted
  <2>1. EventsOf(outbox) = EventsOf(outbox') \cup EventsOf(batch)
    BY DEF EventsOf, IInv, TypeOK
  <2>2. EventsOf(batch) \subseteq received
    BY DEF IInv, UploaderInv, TypeOK, EventsOf
  <2>3. quarantined \subseteq quarantined' /\ quarantined' \subseteq quarantined \cup EventsOf(outbox)
    BY DEF EventsOf
  <2>4. EventsOf(outbox)' = EventsOf(outbox')
    BY DEF EventsOf
  <2> QED
    BY <2>1, <2>2, <2>3, <2>4 DEF Accepted
<1>3. TypeOK'
  BY LimitAssumption DEF IInv, TypeOK, EventsOf, Rows
<1>4. OneInFlight' /\ AcceptedWasPublished'
  BY <1>1, <1>2, FlightFrame DEF IInv
<1>5. WriterInv'
  BY <1>2 DEF IInv, WriterInv, Elements
<1>6. RowOrder'
  BY DEF IInv, RowOrder
<1>7. UploaderInv'
  BY FS_Subset DEF IInv, UploaderInv
<1>8. ConfirmedIsDurable'
  BY <1>2 DEF IInv, ConfirmedIsDurable
<1> QED
  BY <1>3, <1>4, <1>5, <1>6, <1>7, <1>8 DEF IInv

LEMMA QuarantineInv ==
  ASSUME IInv, Quarantine
  PROVE  IInv'
<1> USE DEF Quarantine, publisherVars, writerVars, faultVars
<1>1. InFlight' = InFlight
  BY DEF InFlight, Elements
<1>2. Accepted' = Accepted
  <2>1. EventsOf(outbox) = EventsOf(outbox') \cup EventsOf(batch)
    BY DEF EventsOf, IInv, TypeOK
  <2>2. EventsOf(batch) \subseteq quarantined'
    BY DEF IInv, UploaderInv, TypeOK, EventsOf
  <2>3. quarantined \subseteq quarantined' /\ quarantined' \subseteq quarantined \cup EventsOf(outbox)
    BY DEF EventsOf
  <2>4. EventsOf(outbox)' = EventsOf(outbox')
    BY DEF EventsOf
  <2> QED
    BY <2>1, <2>2, <2>3, <2>4 DEF Accepted
<1>3. TypeOK'
  BY LimitAssumption DEF IInv, TypeOK, EventsOf, Rows
<1>4. OneInFlight' /\ AcceptedWasPublished'
  BY <1>1, <1>2, FlightFrame DEF IInv
<1>5. WriterInv'
  BY <1>2 DEF IInv, WriterInv, Elements
<1>6. RowOrder'
  BY DEF IInv, RowOrder
<1>7. UploaderInv'
  BY FS_Subset DEF IInv, UploaderInv
<1>8. ConfirmedIsDurable'
  BY <1>2 DEF IInv, ConfirmedIsDurable
<1> QED
  BY <1>3, <1>4, <1>5, <1>6, <1>7, <1>8 DEF IInv

LEMMA SettlingFailsInv ==
  ASSUME IInv, SettlingFails
  PROVE  IInv'
<1> USE DEF SettlingFails, publisherVars, writerVars, spoolVars, faultVars
<1>1. InFlight' = InFlight /\ Accepted' = Accepted
  BY DEF InFlight, Accepted, EventsOf, Elements
<1>2. TypeOK'
  BY LimitAssumption DEF IInv, TypeOK
<1>3. OneInFlight' /\ AcceptedWasPublished'
  BY <1>1, FlightFrame DEF IInv
<1>4. WriterInv'
  BY <1>1 DEF IInv, WriterInv, Elements
<1>5. RowOrder'
  BY DEF IInv, RowOrder
<1>6. UploaderInv'
  BY DEF IInv, UploaderInv, EventsOf, TypeOK
<1>7. ConfirmedIsDurable'
  BY <1>1 DEF IInv, ConfirmedIsDurable
<1> QED
  BY <1>2, <1>3, <1>4, <1>5, <1>6, <1>7 DEF IInv

LEMMA CrashInv ==
  ASSUME IInv, Crash
  PROVE  IInv'
<1> USE DEF Crash, spoolVars
<1>1. InFlight' = {}
  BY ElementsEmpty DEF InFlight, Elements
<1>2. Accepted' = Accepted
  BY DEF Accepted, EventsOf
<1>3. TypeOK'
  <2>1. crashes' \in 0..MaxCrashes
    BY LimitAssumption DEF IInv, TypeOK
  <2>2. /\ channel' \in Seq(Events) /\ Len(channel') <= ChannelCapacity
        /\ requests' \in Seq(Events) /\ Len(requests') <= MaxBatchSize
    BY LimitAssumption
  <2> QED
    BY <2>1, <2>2, LimitAssumption, Zenon DEF IInv, TypeOK
<1>4. OneInFlight' /\ AcceptedWasPublished'
  BY <1>1, <1>2, FlightFrame DEF IInv
<1>5. WriterInv'
  BY DEF WriterInv
<1>6. RowOrder' /\ UploaderInv'
  BY DEF IInv, RowOrder, UploaderInv
<1>7. ConfirmedIsDurable'
  BY <1>2 DEF IInv, ConfirmedIsDurable
<1> QED
  BY <1>3, <1>4, <1>5, <1>6, <1>7 DEF IInv

LEMMA RestartInv ==
  ASSUME IInv, Restart
  PROVE  IInv'
<1> USE DEF Restart, publisherVars, writerVars, uploaderVars, faultVars
<1>1. InFlight' = InFlight /\ Accepted' = Accepted
  BY DEF InFlight, Accepted, EventsOf, Elements
<1>2. TypeOK'
  BY LimitAssumption DEF IInv, TypeOK
<1>3. OneInFlight' /\ AcceptedWasPublished'
  BY <1>1, FlightFrame DEF IInv
<1>4. WriterInv'
  BY <1>1 DEF IInv, WriterInv, Elements
<1>5. RowOrder'
  BY DEF IInv, RowOrder
<1>6. UploaderInv'
  BY DEF IInv, UploaderInv, EventsOf, TypeOK
<1>7. ConfirmedIsDurable'
  BY <1>1 DEF IInv, ConfirmedIsDurable
<1> QED
  BY <1>2, <1>3, <1>4, <1>5, <1>6, <1>7 DEF IInv

LEMMA NextIInv == IInv /\ [Next]_vars => IInv'
<1> SUFFICES ASSUME IInv, [Next]_vars PROVE IInv'
  OBVIOUS
<1>1. CASE Publishers
  BY <1>1, OpenStreamInv, SendInv, PublishInv DEF Publishers
<1>2. CASE Writer
  <2>1. CASE PersistCommits
    BY <2>1, PersistInv DEF PersistCommits, IInv, TypeOK
  <2>2. CASE PersistReportsError
    <3>1. misreports' \in 0..MaxMisreports /\ writer' \in {"persist", "confirm"}
      BY <2>2, LimitAssumption DEF PersistReportsError, Persist, IInv, TypeOK
    <3> QED
      BY <2>2, <3>1, PersistInv DEF PersistReportsError
  <2> QED
    BY <1>2, <2>1, <2>2, WriterReceiveInv, WriterStopsGatheringInv, ConfirmNextInv
    DEF Writer
<1>3. CASE Uploader
  BY <1>3, LoadBatchInv, LoadNothingInv, DeliverAcceptedInv, DeliverRefusedInv,
     DeliverFailsInv, AcknowledgeInv, QuarantineInv, SettlingFailsInv
  DEF Uploader, SinkAnswers
<1>4. CASE Crash
  BY <1>4, CrashInv
<1>5. CASE Restart
  BY <1>5, RestartInv
<1>6. CASE UNCHANGED vars
  <2> USE DEF vars, publisherVars, writerVars, spoolVars, uploaderVars, faultVars
  <2>1. InFlight' = InFlight /\ Accepted' = Accepted
    BY <1>6 DEF InFlight, Accepted, EventsOf, Elements
  <2>2. TypeOK'
    BY <1>6 DEF IInv, TypeOK
  <2>3. OneInFlight' /\ AcceptedWasPublished'
    BY <1>6, <2>1, FlightFrame DEF IInv
  <2>4. WriterInv'
    BY <1>6, <2>1 DEF IInv, WriterInv, Elements
  <2>5. RowOrder' /\ UploaderInv'
    BY <1>6 DEF IInv, RowOrder, UploaderInv, EventsOf
  <2>6. ConfirmedIsDurable'
    BY <1>6, <2>1 DEF IInv, ConfirmedIsDurable
  <2> QED
    BY <2>2, <2>3, <2>4, <2>5, <2>6 DEF IInv
<1> QED
  BY <1>1, <1>2, <1>3, <1>4, <1>5, <1>6 DEF Next

-------------------------------------------------------------------------------
(* The theorems.                                                           *)

THEOREM InvariantHolds == Spec => []IInv
BY InitIInv, NextIInv, PTL DEF Spec

\* Types: the channel never holds more than its capacity nor the writer more
\* than a batch, and the uploader only rows that are still in the outbox.
THEOREM TypeCorrect == Spec => []TypeOK
<1>1. IInv => TypeOK
  BY DEF IInv
<1> QED
  BY <1>1, InvariantHolds, PTL

\* A publish call that returned never loses its event.
THEOREM ConfirmedEventsAreDurable == Spec => []ConfirmedIsDurable
<1>1. IInv => ConfirmedIsDurable
  BY DEF IInv
<1> QED
  BY <1>1, InvariantHolds, PTL

-------------------------------------------------------------------------------
(* The byte counters.                                                      *)

LEMMA BytesOfAnEvent == \A e \in Events : e.bytes \in Nat
BY PayloadAssumption DEF Events

LEMMA BytesOfARow == \A r \in Rows : r.event.bytes \in Nat
BY BytesOfAnEvent DEF Rows

\* The bytes of a set of events are those of a part of it and of the rest.
LEMMA BytesOfPart ==
  ASSUME NEW E \in SUBSET Events, IsFiniteSet(E), NEW F \in SUBSET E
  PROVE  /\ BytesOf(E) \in Nat /\ BytesOf(F) \in Nat /\ BytesOf(E \ F) \in Nat
         /\ BytesOf(E) = BytesOf(F) + BytesOf(E \ F)
<1> DEFINE w == [e \in E |-> e.bytes]
<1>1. Weights(w, E)
  BY BytesOfAnEvent DEF Weights
<1>2. ASSUME NEW G \in SUBSET E
      PROVE  BytesOf(G) = SumFunctionOnSet(w, G) /\ BytesOf(G) \in Nat
  <2> DEFINE v == [e \in G |-> e.bytes]
  <2>1. IsFiniteSet(G) /\ Weights(w, G) /\ \A e \in G : v[e] = w[e]
    BY <1>1, FS_Subset DEF Weights
  <2>2. BytesOf(G) = SumFunctionOnSet(v, G)
    BY DEF BytesOf
  <2> HIDE DEF v, w
  <2> QED
    BY <2>1, <2>2, SumOfSameWeights, SumType
<1>3. SumFunctionOnSet(w, E) = SumFunctionOnSet(w, F) + SumFunctionOnSet(w, E \ F)
  BY <1>1, SumPart
<1>4. E \in SUBSET E /\ F \in SUBSET E /\ E \ F \in SUBSET E
  OBVIOUS
<1> HIDE DEF w
<1> QED
  BY <1>2, <1>3, <1>4

\* The same of a set of rows.
LEMMA RowBytesOfPart ==
  ASSUME NEW R \in SUBSET Rows, IsFiniteSet(R), NEW Q \in SUBSET R
  PROVE  /\ RowBytes(R) \in Nat /\ RowBytes(Q) \in Nat /\ RowBytes(R \ Q) \in Nat
         /\ RowBytes(R) = RowBytes(Q) + RowBytes(R \ Q)
<1> DEFINE w == [r \in R |-> r.event.bytes]
<1>1. Weights(w, R)
  BY BytesOfARow DEF Weights
<1>2. ASSUME NEW G \in SUBSET R
      PROVE  RowBytes(G) = SumFunctionOnSet(w, G) /\ RowBytes(G) \in Nat
  <2> DEFINE v == [r \in G |-> r.event.bytes]
  <2>1. IsFiniteSet(G) /\ Weights(w, G) /\ \A r \in G : v[r] = w[r]
    BY <1>1, FS_Subset DEF Weights
  <2>2. RowBytes(G) = SumFunctionOnSet(v, G)
    BY DEF RowBytes
  <2> HIDE DEF v, w
  <2> QED
    BY <2>1, <2>2, SumOfSameWeights, SumType
<1>3. SumFunctionOnSet(w, R) = SumFunctionOnSet(w, Q) + SumFunctionOnSet(w, R \ Q)
  BY <1>1, SumPart
<1>4. R \in SUBSET R /\ Q \in SUBSET R /\ R \ Q \in SUBSET R
  OBVIOUS
<1> HIDE DEF w
<1> QED
  BY <1>2, <1>3, <1>4

LEMMA BytesOfOne ==
  ASSUME NEW e \in Events
  PROVE  BytesOf({e}) = e.bytes
<1> DEFINE v == [d \in {e} |-> d.bytes]
<1>1. v[e] = e.bytes /\ e.bytes \in Nat
  BY BytesOfAnEvent
<1>2. BytesOf({e}) = SumFunctionOnSet(v, {e})
  BY DEF BytesOf
<1> HIDE DEF v
<1> QED
  BY <1>1, <1>2, SumOne

LEMMA RowBytesOfOne ==
  ASSUME NEW r \in Rows
  PROVE  RowBytes({r}) = r.event.bytes
<1> DEFINE v == [q \in {r} |-> q.event.bytes]
<1>1. v[r] = r.event.bytes /\ r.event.bytes \in Nat
  BY BytesOfARow
<1>2. RowBytes({r}) = SumFunctionOnSet(v, {r})
  BY DEF RowBytes
<1> HIDE DEF v
<1> QED
  BY <1>1, <1>2, SumOne

LEMMA BytesOfNone == BytesOf({}) = 0 /\ RowBytes({}) = 0
BY SumEmpty DEF BytesOf, RowBytes

\* What max(0, n) is for a difference that is not negative.
LEMMA MaxOfNatural == \A n \in Nat : Max({0, n}) = n
<1> SUFFICES ASSUME NEW n \in Nat PROVE Max({0, n}) = n
  OBVIOUS
<1>1. n \in {0, n} /\ \A m \in {0, n} : n >= m
  OBVIOUS
<1>2. Max({0, n}) \in {0, n} /\ \A m \in {0, n} : Max({0, n}) >= m
  BY <1>1 DEF Max
<1> QED
  BY <1>1, <1>2

\* The counters hold the bytes of their tables and stay within the quota, also
\* while the process is down: Crash leaves the spool as its last commit did.
Counted ==
  /\ IsFiniteSet(quarantined)
  /\ pendingBytes = RowBytes(outbox)
  /\ quarantinedBytes = BytesOf(quarantined)
  /\ StoredBytes <= MaxBytes

LEMMA InitCounted == Init => Counted
BY BytesOfNone, LimitAssumption, FS_EmptySet DEF Init, Counted, StoredBytes

LEMMA PersistCounted ==
  ASSUME IInv, Counted, Persist
  PROVE  Counted'
<1>1. /\ NewRows \subseteq Rows /\ IsFiniteSet(NewRows)
      /\ outbox \subseteq Rows /\ IsFiniteSet(outbox)
      /\ quarantined \subseteq Events /\ IsFiniteSet(quarantined)
  BY NewRowsFacts DEF IInv, TypeOK, UploaderInv, Counted
<1>2. \A r \in outbox, q \in NewRows : r # q
  <2>1. \A r \in outbox : r.id \in Nat /\ r.id <= nextId
    BY DEF IInv, TypeOK, RowOrder, Rows
  <2>2. \A q \in NewRows : q.id > nextId
    BY NewRowsFacts
  <2> QED
    BY <2>1, <2>2 DEF IInv, TypeOK
<1>3. RowBytes(outbox \cup NewRows) = RowBytes(outbox) + RowBytes(NewRows)
  <2>1. /\ outbox \cup NewRows \in SUBSET Rows
        /\ IsFiniteSet(outbox \cup NewRows)
        /\ outbox \in SUBSET (outbox \cup NewRows)
        /\ (outbox \cup NewRows) \ outbox = NewRows
    BY <1>1, <1>2, FS_Union
  <2> QED
    BY <2>1, RowBytesOfPart
<1>4. RowBytes(outbox) \in Nat /\ RowBytes(NewRows) \in Nat /\ BytesOf(quarantined) \in Nat
  BY <1>1, RowBytesOfPart, BytesOfPart
<1>5. /\ pendingBytes' = pendingBytes + RowBytes(NewRows)
      /\ quarantinedBytes' = quarantinedBytes /\ quarantined' = quarantined
      /\ outbox' = outbox \cup NewRows
      /\ pendingBytes + quarantinedBytes + RowBytes(NewRows) <= MaxBytes
  BY DEF Persist, StoredBytes
<1>6. pendingBytes = RowBytes(outbox) /\ quarantinedBytes = BytesOf(quarantined)
  BY DEF Counted
<1>7. pendingBytes' + quarantinedBytes' <= MaxBytes
  BY <1>4, <1>5, <1>6, LimitAssumption
<1> QED
  BY <1>1, <1>3, <1>5, <1>6, <1>7 DEF Counted, StoredBytes

\* Removing the batch gives its bytes back.
LEMMA BatchBytes ==
  ASSUME IInv, Counted
  PROVE  /\ RowBytes(outbox \ batch) = Max({0, pendingBytes - RowBytes(batch \cap outbox)})
         /\ RowBytes(outbox) = RowBytes(batch) + RowBytes(outbox \ batch)
         /\ RowBytes(outbox \ batch) \in Nat /\ RowBytes(batch) \in Nat
         /\ BytesOf(quarantined) \in Nat
<1>1. /\ outbox \in SUBSET Rows /\ IsFiniteSet(outbox)
      /\ batch \in SUBSET outbox /\ batch \cap outbox = batch
      /\ quarantined \in SUBSET Events /\ IsFiniteSet(quarantined)
  BY DEF IInv, TypeOK, UploaderInv, Counted
<1>2. /\ RowBytes(outbox) = RowBytes(batch) + RowBytes(outbox \ batch)
      /\ RowBytes(outbox \ batch) \in Nat /\ RowBytes(batch) \in Nat
  BY <1>1, RowBytesOfPart
<1>3. BytesOf(quarantined) \in Nat
  BY <1>1, BytesOfPart
<1>4. pendingBytes - RowBytes(batch \cap outbox) = RowBytes(outbox \ batch)
  <2>1. pendingBytes = RowBytes(batch) + RowBytes(outbox \ batch)
    BY <1>2 DEF Counted
  <2>2. RowBytes(batch \cap outbox) = RowBytes(batch)
    BY <1>1
  <2> QED
    BY <1>2, <2>1, <2>2
<1> QED
  BY <1>2, <1>3, <1>4, MaxOfNatural

LEMMA AcknowledgeCounted ==
  ASSUME IInv, Counted, Acknowledge
  PROVE  Counted'
<1>1. /\ outbox' = outbox \ batch /\ pendingBytes' = RowBytes(outbox \ batch)
      /\ quarantined' = quarantined /\ quarantinedBytes' = quarantinedBytes
  BY BatchBytes DEF Acknowledge
<1>2. RowBytes(outbox \ batch) + BytesOf(quarantined) <= MaxBytes
  BY BatchBytes, LimitAssumption DEF Counted, StoredBytes
<1> QED
  BY <1>1, <1>2 DEF Counted, StoredBytes

\* The condemned event moves its bytes from one counter to the other, or gives
\* them back when it was in quarantine already.
LEMMA QuarantineCounted ==
  ASSUME IInv, Counted, Quarantine
  PROVE  Counted'
<1>1. PICK r \in outbox : batch = {r}
  BY DEF IInv, UploaderInv, Quarantine
<1>2. r \in Rows /\ r.event \in Events
  BY DEF IInv, TypeOK, Rows
<1>3. batch \cap outbox = batch /\ EventsOf(batch) = {r.event}
  BY <1>1 DEF EventsOf
<1> DEFINE added == {r.event} \ quarantined
<1>4. /\ outbox' = outbox \ batch
      /\ pendingBytes' = RowBytes(outbox \ batch)
      /\ quarantined' = quarantined \cup {r.event}
      /\ quarantinedBytes' = quarantinedBytes + BytesOf(added)
  BY <1>3, BatchBytes DEF Quarantine
<1>5. BytesOf(added) \in Nat /\ BytesOf(added) <= RowBytes(batch)
  <2>1. RowBytes(batch) = r.event.bytes /\ BytesOf({r.event}) = r.event.bytes
        /\ r.event.bytes \in Nat
    BY <1>1, <1>2, RowBytesOfOne, BytesOfOne, BytesOfARow
  <2>2. added = {} \/ added = {r.event}
    OBVIOUS
  <2> QED
    BY <2>1, <2>2, BytesOfNone
<1>6. /\ IsFiniteSet(quarantined')
      /\ BytesOf(quarantined') = BytesOf(quarantined) + BytesOf(added)
  <2>1. quarantined \in SUBSET Events /\ IsFiniteSet(quarantined)
    BY DEF IInv, TypeOK, Counted
  <2>2. /\ quarantined' \in SUBSET Events /\ IsFiniteSet(quarantined')
        /\ quarantined \in SUBSET quarantined' /\ quarantined' \ quarantined = added
    BY <1>2, <1>4, <2>1, FS_AddElement
  <2> QED
    BY <2>2, BytesOfPart
<1>7. RowBytes(outbox \ batch) + BytesOf(quarantined) + BytesOf(added) <= MaxBytes
  BY <1>5, BatchBytes, LimitAssumption DEF Counted, StoredBytes
<1>8. quarantinedBytes' = BytesOf(quarantined')
  BY <1>4, <1>6 DEF Counted
<1>9. pendingBytes' + quarantinedBytes' <= MaxBytes
  BY <1>4, <1>5, <1>7, BatchBytes DEF Counted
<1> QED
  BY <1>4, <1>6, <1>8, <1>9 DEF Counted, StoredBytes

LEMMA NextCounted == IInv /\ Counted /\ [Next]_vars => Counted'
<1> SUFFICES ASSUME IInv, Counted, [Next]_vars PROVE Counted'
  OBVIOUS
<1>1. CASE UNCHANGED spoolVars
  BY <1>1 DEF spoolVars, Counted, StoredBytes, RowBytes, BytesOf
<1>2. CASE PersistCommits \/ PersistReportsError
  BY <1>2, PersistCounted DEF PersistCommits, PersistReportsError
<1>3. CASE Acknowledge \/ Quarantine
  BY <1>3, AcknowledgeCounted, QuarantineCounted
<1>4. CASE Restart
  BY <1>4 DEF Restart, Counted, StoredBytes, RowBytes, BytesOf
<1>5. CASE Publishers
  BY <1>1, <1>5 DEF Publishers, OpenStream, Send, Publish
<1>6. CASE WriterReceive \/ WriterStopsGathering \/ ConfirmNext
  BY <1>1, <1>6 DEF WriterReceive, WriterStopsGathering, ConfirmNext
<1>7. CASE LoadBatch \/ LoadNothing \/ SinkAnswers \/ DeliverFails \/ SettlingFails
  BY <1>1, <1>7 DEF LoadBatch, LoadNothing, SinkAnswers, DeliverAccepted, DeliverRefused,
     DeliverFails, SettlingFails
<1>8. CASE Crash
  BY <1>1, <1>8 DEF Crash
<1>9. CASE UNCHANGED vars
  BY <1>1, <1>9 DEF vars
<1> QED
  BY <1>2, <1>3, <1>4, <1>5, <1>6, <1>7, <1>8, <1>9 DEF Next, Writer, Uploader

\* The counters agree with the tables and never pass the quota, whatever
\* commits are retried, repeated or lost.
THEOREM BytesAreCounted == Spec => []ByteAccounting
<1>1. Spec => [](IInv /\ Counted)
  <2>1. Init => IInv /\ Counted
    BY InitIInv, InitCounted
  <2>2. IInv /\ Counted /\ [Next]_vars => (IInv /\ Counted)'
    BY NextIInv, NextCounted
  <2> QED
    BY <2>1, <2>2, PTL DEF Spec
<1>2. Counted => ByteAccounting
  BY DEF Counted, ByteAccounting
<1> QED
  BY <1>1, <1>2, PTL

-------------------------------------------------------------------------------
(* The quarantine.                                                         *)

\* A request that holds an event refused alone is refused.
LEMMA RefusalGrows ==
  ASSUME NEW E \in SUBSET Events, IsFiniteSet(E), NEW e \in E, Refuses({e})
  PROVE  Refuses(E)
<1>1. BytesOf({e}) <= BytesOf(E) /\ BytesOf({e}) \in Nat /\ BytesOf(E) \in Nat
  <2> DEFINE F == {e}
  <2>1. F \in SUBSET E
    OBVIOUS
  <2> HIDE DEF F
  <2>2. /\ BytesOf(E) = BytesOf(F) + BytesOf(E \ F)
        /\ BytesOf(E) \in Nat /\ BytesOf(F) \in Nat /\ BytesOf(E \ F) \in Nat
    BY <2>1, BytesOfPart
  <2>3. BytesOf(F) <= BytesOf(E)
    BY <2>2
  <2> QED
    BY <2>2, <2>3 DEF F
<1> QED
  BY <1>1, LimitAssumption DEF Refuses

\* What was received is taken alone, what is condemned is refused alone.
Judged ==
  /\ \A e \in received : ~Refuses({e})
  /\ \A e \in quarantined : Refuses({e})
  /\ uploader = "quarantine" => Refuses(EventsOf(batch))

LEMMA BatchEvents ==
  ASSUME IInv
  PROVE  EventsOf(batch) \in SUBSET Events /\ IsFiniteSet(EventsOf(batch))
<1>1. batch \subseteq Rows /\ IsFiniteSet(batch)
  BY FS_Subset DEF IInv, TypeOK, UploaderInv
<1>2. EventsOf(batch) \in SUBSET Events
  BY <1>1 DEF EventsOf, Rows
<1> DEFINE event == [r \in batch |-> r.event]
<1>3. event \in Surjection(batch, EventsOf(batch))
  BY DEF Surjection, EventsOf
<1> HIDE DEF event
<1> QED
  BY <1>1, <1>2, <1>3, FS_Surjection

\* What a request that is not refused delivers.
LEMMA ReceiveJudged ==
  ASSUME IInv, Judged, ~Refuses(EventsOf(batch))
  PROVE  \A e \in received \cup EventsOf(batch) : ~Refuses({e})
BY BatchEvents, RefusalGrows DEF Judged

LEMMA QuarantineJudged ==
  ASSUME IInv, Judged, Quarantine
  PROVE  Judged'
<1>1. PICK r \in outbox : batch = {r}
  BY DEF IInv, UploaderInv, Quarantine
<1>2. batch \cap outbox = batch /\ EventsOf(batch) = {r.event}
  BY <1>1 DEF EventsOf
<1>3. quarantined' = quarantined \cup {r.event}
  BY <1>2 DEF Quarantine
<1>4. Refuses({r.event})
  BY <1>2 DEF Judged, Quarantine
<1> QED
  BY <1>3, <1>4 DEF Judged, Quarantine, Refuses, BytesOf

LEMMA NextJudged == IInv /\ Judged /\ [Next]_vars => Judged'
<1> SUFFICES ASSUME IInv, Judged, [Next]_vars PROVE Judged'
  OBVIOUS
<1> USE DEF publisherVars, writerVars, spoolVars, uploaderVars, faultVars
<1>1. CASE UNCHANGED <<received, quarantined>> /\ (uploader' # "quarantine" \/ UNCHANGED uploaderVars)
  BY <1>1 DEF Judged, Refuses, BytesOf, EventsOf
<1>2. CASE DeliverAccepted
  <2>1. received' = received \cup EventsOf(batch) /\ quarantined' = quarantined
        /\ uploader' = "acknowledge"
    BY <1>2 DEF DeliverAccepted
  <2>2. \A e \in received' : ~Refuses({e})
    BY <1>2, <2>1, ReceiveJudged DEF DeliverAccepted
  <2> QED
    BY <2>1, <2>2 DEF Judged, Refuses, BytesOf
<1>3. CASE DeliverFails
  <2>1. /\ \/ received' = received
           \/ ~Refuses(EventsOf(batch)) /\ received' = received \cup EventsOf(batch)
        /\ quarantined' = quarantined /\ uploader' = "load"
    BY <1>3 DEF DeliverFails
  <2>2. \A e \in received' : ~Refuses({e})
    BY <2>1, ReceiveJudged DEF Judged
  <2> QED
    BY <2>1, <2>2 DEF Judged, Refuses, BytesOf
<1>4. CASE DeliverRefused
  <2>1. UNCHANGED <<received, quarantined>> /\ Refuses(EventsOf(batch))
    BY <1>4 DEF DeliverRefused
  <2>2. uploader' = "load" \/ batch' = batch
    BY <1>4 DEF DeliverRefused
  <2> QED
    BY <2>1, <2>2 DEF Judged, Refuses, BytesOf, EventsOf
<1>5. CASE Quarantine
  BY <1>5, QuarantineJudged
<1>6. CASE Publishers
  BY <1>1, <1>6 DEF Publishers, OpenStream, Send, Publish
<1>7. CASE Writer
  BY <1>1, <1>7 DEF Writer, WriterReceive, WriterStopsGathering, PersistCommits,
     PersistReportsError, Persist, ConfirmNext
<1>8. CASE LoadBatch \/ LoadNothing \/ SettlingFails \/ Acknowledge
  BY <1>1, <1>8 DEF LoadBatch, LoadNothing, SettlingFails, Acknowledge
<1>9. CASE Crash \/ Restart
  BY <1>1, <1>9 DEF Crash, Restart
<1>10. CASE UNCHANGED vars
  BY <1>1, <1>10 DEF vars
<1> QED
  BY <1>2, <1>3, <1>4, <1>5, <1>6, <1>7, <1>8, <1>9, <1>10 DEF Next, Uploader, SinkAnswers

\* Halving condemns only an event the platform refuses on its own, and one it
\* never received.
THEOREM QuarantinedAreRefused == Spec => []OnlyRefusedQuarantined
<1>1. Spec => [](IInv /\ Judged)
  <2>1. Init => IInv /\ Judged
    BY InitIInv DEF Init, Judged
  <2>2. IInv /\ Judged /\ [Next]_vars => (IInv /\ Judged)'
    BY NextIInv, NextJudged
  <2> QED
    BY <2>1, <2>2, PTL DEF Spec
<1>2. Judged => OnlyRefusedQuarantined
  BY DEF Judged, OnlyRefusedQuarantined
<1> QED
  BY <1>1, <1>2, PTL

-------------------------------------------------------------------------------
(* The queue implements HistoryDelivery.                                   *)

LEMMA StutterStep ==
  ASSUME Accepted' = Accepted, UNCHANGED <<received, confirmed, quarantined>>
  PROVE  UNCHANGED Delivery!vars
BY DEF Delivery!vars

\* A commit accepts the requested events, unless it repeats one.
LEMMA PersistStep ==
  ASSUME IInv, Persist
  PROVE  [Delivery!Next]_(Delivery!vars)
<1> DEFINE E == EventsOf(NewRows) \ Accepted
<1>1. Accepted' = Accepted \cup E
  BY DEF Persist, Accepted, EventsOf, uploaderVars
<1>2. UNCHANGED <<received, confirmed, quarantined>>
  BY DEF Persist
<1>3. CASE E = {}
  BY <1>1, <1>2, <1>3, StutterStep
<1>4. CASE E # {}
  <2>1. E \subseteq InFlight /\ E \subseteq Events
    BY NewRowsFacts, InFlightType DEF InFlight, IInv
  <2>2. Accepted \subseteq Events
    BY DEF IInv, TypeOK, Accepted, EventsOf, Rows
  <2>3. ASSUME NEW e \in E, NEW d \in Accepted, d.stream = e.stream PROVE d.seq < e.seq
    <3>1. e.seq + 1 = nextSeq[e.stream] /\ d.seq < nextSeq[d.stream] /\ d.seq # e.seq
      BY <2>1, <2>3 DEF IInv, OneInFlight, AcceptedWasPublished
    <3>2. e.seq \in Nat /\ d.seq \in Nat
      BY <2>1, <2>2, EventFields
    <3> QED
      BY <3>1, <3>2, <2>3
  <2> HIDE DEF E
  <2>4. E \cap Accepted = {}
    BY DEF E
  <2>5. Delivery!Accept(E)
    BY <1>1, <1>2, <1>4, <2>3, <2>4 DEF Delivery!Accept
  <2> QED
    BY <2>1, <2>5 DEF Delivery!Next
<1> QED
  BY <1>3, <1>4

LEMMA ConfirmStep ==
  ASSUME IInv, ConfirmNext
  PROVE  [Delivery!Next]_(Delivery!vars)
<1>1. Accepted' = Accepted
  BY DEF ConfirmNext, Accepted, EventsOf, spoolVars
<1>2. Head(requests) \in Accepted /\ Head(requests) \in Events
  <2>1. requests \in Seq(Events) /\ requests # <<>> /\ Elements(requests) \subseteq Accepted
    BY DEF ConfirmNext, IInv, TypeOK, WriterInv
  <2> QED
    BY <2>1, ElementsHeadTail
<1>3. Delivery!Confirm(Head(requests))
  BY <1>1, <1>2 DEF Delivery!Confirm, ConfirmNext, spoolVars
<1> QED
  BY <1>2, <1>3 DEF Delivery!Next

\* The events before one in the uploader's hands are in its hands or settled.
LEMMA BatchIsPrefix ==
  ASSUME IInv, NEW r \in batch, NEW d \in Delivery!Earlier(r.event) \cap Accepted
  PROVE  d \in received \cup quarantined \cup EventsOf(batch \ {r})
<1>1. d.stream = r.event.stream /\ d.seq < r.event.seq /\ r.event.seq \in Nat
  BY EventFields DEF Delivery!Earlier, IInv, TypeOK, Rows
<1>2. CASE d \in EventsOf(outbox)
  <2>1. PICK q \in outbox : d = q.event
    BY <1>2 DEF EventsOf
  <2>2. q.id < r.id
    BY <1>1, <2>1 DEF IInv, TypeOK, RowOrder
  <2>3. q.id \in Nat /\ r.id \in Nat
    BY DEF IInv, TypeOK, Rows
  <2>4. q \in batch /\ q # r
    BY <2>2, <2>3 DEF IInv, UploaderInv
  <2> QED
    BY <2>1, <2>4 DEF EventsOf
<1> QED
  BY <1>2 DEF Accepted

LEMMA DeliverStep ==
  ASSUME IInv, received' = received \cup EventsOf(batch),
         UNCHANGED <<outbox, quarantined, confirmed>>
  PROVE  [Delivery!Next]_(Delivery!vars)
<1>1. EventsOf(batch) \subseteq EventsOf(outbox) /\ EventsOf(outbox) \subseteq Events
  BY DEF EventsOf, IInv, TypeOK, Rows
<1>2. Accepted' = Accepted
  BY <1>1 DEF Accepted, EventsOf
<1>3. ASSUME NEW e \in EventsOf(batch)
      PROVE  Delivery!Earlier(e) \cap Accepted \subseteq received \cup EventsOf(batch) \cup quarantined
  <2>1. PICK r \in batch : e = r.event
    BY DEF EventsOf
  <2>2. EventsOf(batch \ {r}) \subseteq EventsOf(batch)
    BY DEF EventsOf
  <2> QED
    BY <2>1, <2>2, BatchIsPrefix
<1>4. Delivery!Deliver(EventsOf(batch))
  BY <1>1, <1>2, <1>3 DEF Delivery!Deliver, Accepted
<1> QED
  BY <1>1, <1>4 DEF Delivery!Next

LEMMA QuarantineStep ==
  ASSUME IInv, Quarantine
  PROVE  [Delivery!Next]_(Delivery!vars)
<1>1. PICK r \in outbox : batch = {r}
  BY DEF Quarantine, IInv, UploaderInv
<1>2. quarantined' = quarantined \cup {r.event} /\ outbox' = outbox \ {r}
  BY <1>1 DEF Quarantine, EventsOf
<1>3. UNCHANGED <<received, confirmed>>
  BY DEF Quarantine
<1>4. Accepted' = Accepted /\ r.event \in Accepted /\ r.event \in Events
  BY <1>1, <1>2, <1>3 DEF Accepted, EventsOf, IInv, TypeOK, Rows
<1>5. Delivery!Earlier(r.event) \cap Accepted \subseteq received \cup quarantined
  <2>1. EventsOf(batch \ {r}) = {}
    BY <1>1 DEF EventsOf
  <2> QED
    BY <1>1, <2>1, BatchIsPrefix
<1>6. Delivery!Quarantine(r.event)
  BY <1>2, <1>3, <1>4, <1>5 DEF Delivery!Quarantine
<1> QED
  BY <1>4, <1>6 DEF Delivery!Next

LEMMA QuietStep ==
  ASSUME UNCHANGED <<spoolVars, received, confirmed>>
  PROVE  [Delivery!Next]_(Delivery!vars)
BY StutterStep DEF spoolVars, Accepted, EventsOf

\* Every step of the queue is a step of HistoryDelivery or leaves its state:
\* durable before confirmed, at least once, no event overtaken in its stream.
THEOREM QueueImplementsDelivery == Spec => ImplementsDelivery
<1>1. Init => Delivery!Init
  BY DEF Init, Delivery!Init, Accepted, EventsOf
<1>2. IInv /\ [Next]_vars => [Delivery!Next]_(Delivery!vars)
  <2> SUFFICES ASSUME IInv, [Next]_vars PROVE [Delivery!Next]_(Delivery!vars)
    OBVIOUS
  <2>1. CASE Publishers
    BY <2>1, QuietStep DEF Publishers, OpenStream, Send, Publish
  <2>2. CASE PersistCommits \/ PersistReportsError
    BY <2>2, PersistStep DEF PersistCommits, PersistReportsError
  <2>3. CASE WriterReceive \/ WriterStopsGathering
    BY <2>3, QuietStep DEF WriterReceive, WriterStopsGathering
  <2>4. CASE ConfirmNext
    BY <2>4, ConfirmStep
  <2>5. CASE LoadBatch \/ LoadNothing \/ DeliverRefused \/ SettlingFails
    BY <2>5, QuietStep DEF LoadBatch, LoadNothing, DeliverRefused, SettlingFails
  <2>6. CASE DeliverAccepted
    BY <2>6, DeliverStep DEF DeliverAccepted, spoolVars
  <2>7. CASE DeliverFails
    BY <2>7, DeliverStep, QuietStep DEF DeliverFails, spoolVars
  <2>8. CASE Acknowledge
    <3>1. EventsOf(batch) \subseteq received
      BY <2>8 DEF Acknowledge, IInv, UploaderInv
    <3>2. Accepted' = Accepted
      BY <2>8, <3>1 DEF Acknowledge, Accepted, EventsOf, IInv, TypeOK
    <3> QED
      BY <2>8, <3>2, StutterStep DEF Acknowledge
  <2>9. CASE Quarantine
    BY <2>9, QuarantineStep
  <2>10. CASE Crash
    BY <2>10, QuietStep DEF Crash
  <2>11. CASE Restart
    BY <2>11, StutterStep DEF Restart, Accepted, EventsOf
  <2>12. CASE UNCHANGED vars
    BY <2>12, QuietStep DEF vars
  <2> QED
    BY <2>1, <2>2, <2>3, <2>4, <2>5, <2>6, <2>7, <2>8, <2>9, <2>10, <2>11, <2>12
    DEF Next, Writer, Uploader, SinkAnswers
<1> QED
  BY <1>1, <1>2, InvariantHolds, PTL DEF Spec, ImplementsDelivery, Delivery!Spec
===============================================================================
