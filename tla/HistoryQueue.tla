----------------------------- MODULE HistoryQueue -----------------------------
(***************************************************************************)
(* The durable history queue of src/history_queue.rs.                      *)
(*                                                                         *)
(* Game threads publish events through a HistoryStream; each call blocks   *)
(* until a single writer thread has committed the event to an SQLite spool.*)
(* An uploader thread sends the spool to the platform in batches, halves a *)
(* refused batch until the refused event stands alone, and moves that one  *)
(* to a quarantine table.  The process may die between any two steps; the  *)
(* spool survives it.                                                      *)
(***************************************************************************)
EXTENDS Integers, Sequences, FiniteSets, FiniteSetsExt

CONSTANTS
  Streams,            \* stream ids; an id holds the process start, so it is opened once
  Payloads,           \* the payloads an event may have: [bytes, bad]
  MaxSeq,             \* bound: events published on one stream
  MaxEvents,          \* bound: events published altogether
  MaxCrashes,         \* bound: process deaths
  MaxMisreports,      \* bound: inserting commits that took effect and reported an error
  ChannelCapacity,    \* WRITER_CHANNEL_CAPACITY
  MaxBatchSize,       \* MAX_BATCH_SIZE
  MaxBatchBytes,      \* MAX_BATCH_BYTES
  MaxBytes,           \* the spool's quota
  SinkMaxBytes        \* the platform refuses a larger request

ASSUME PayloadAssumption ==
  \A p \in Payloads : p.bytes \in Nat \ {0} /\ p.bad \in BOOLEAN

ASSUME LimitAssumption ==
  /\ MaxSeq \in Nat
  /\ MaxEvents \in Nat
  /\ MaxCrashes \in Nat
  /\ MaxMisreports \in Nat
  /\ ChannelCapacity \in Nat \ {0}
  /\ MaxBatchSize \in Nat \ {0}
  /\ MaxBatchBytes \in Nat
  /\ MaxBytes \in Nat
  /\ SinkMaxBytes \in Nat

VARIABLES
  up,                 \* the process runs
  used,               \* stream ids ever opened
  open,               \* streams of the running process
  nextSeq,            \* HistoryStream::next_sequence
  unsent,             \* events whose publisher holds the stream lock and has not sent
  channel,            \* the bounded sync_channel of PersistRequests
  requests,           \* the writer's gathered requests, not yet confirmed
  writer,             \* where the writer stands: "gather", "persist", "confirm"
  outbox,             \* table history_outbox: rows [id, event]
  nextId,             \* its AUTOINCREMENT
  quarantined,        \* table history_quarantine
  pendingBytes,       \* history_spool_state.pending_bytes
  quarantinedBytes,   \* history_spool_state.quarantined_bytes
  uploader,           \* "load", "deliver", "acknowledge", "quarantine"
  batch,              \* the rows the uploader holds
  batchLimit,         \* its batch_limit
  received,           \* the events the platform received
  confirmed,          \* history: the events whose publish call returned
  crashes,            \* process deaths so far
  misreports          \* misreported commits so far

publisherVars == <<used, open, nextSeq, unsent>>
writerVars == <<channel, requests, writer>>
spoolVars == <<outbox, nextId, quarantined, pendingBytes, quarantinedBytes>>
uploaderVars == <<uploader, batch, batchLimit>>
faultVars == <<crashes, misreports>>
vars == <<up, publisherVars, writerVars, spoolVars, uploaderVars,
          received, confirmed, faultVars>>

-------------------------------------------------------------------------------
Events == {[stream |-> s, seq |-> n, bytes |-> p.bytes, bad |-> p.bad] :
             s \in Streams, n \in 1..MaxSeq, p \in Payloads}

Elements(q) == {q[i] : i \in 1..Len(q)}

EventsOf(rows) == {r.event : r \in rows}

BytesOf(E) == SumFunctionOnSet([e \in E |-> e.bytes], E)

RowBytes(rows) == SumFunctionOnSet([r \in rows |-> r.event.bytes], rows)

\* The events some publisher is blocked on.
InFlight == unsent \cup Elements(channel) \cup Elements(requests)

\* The number of events published so far.
Published == MapThenSumSet(LAMBDA s : nextSeq[s] - 1, Streams)

StoredBytes == pendingBytes + quarantinedBytes

\* The platform answers a payload error when the request holds an event it
\* refuses or is too large (HTTP 413).
Refuses(E) == (\E e \in E : e.bad) \/ BytesOf(E) > SinkMaxBytes

-------------------------------------------------------------------------------
Init ==
  /\ up = TRUE
  /\ used = {}
  /\ open = {}
  /\ nextSeq = [s \in Streams |-> 1]
  /\ unsent = {}
  /\ channel = <<>>
  /\ requests = <<>>
  /\ writer = "gather"
  /\ outbox = {}
  /\ nextId = 1
  /\ quarantined = {}
  /\ pendingBytes = 0
  /\ quarantinedBytes = 0
  /\ uploader = "load"
  /\ batch = {}
  /\ batchLimit = MaxBatchSize
  /\ received = {}
  /\ confirmed = {}
  /\ crashes = 0
  /\ misreports = 0

-------------------------------------------------------------------------------
(* The publishers.                                                         *)

\* GameSessionManager::create refuses a session at nine tenths of the quota.
SpoolBelowWatermark == StoredBytes < (MaxBytes * 9) \div 10

OpenStream(s) ==
  /\ up
  /\ s \notin used
  /\ SpoolBelowWatermark
  /\ used' = used \cup {s}
  /\ open' = open \cup {s}
  /\ UNCHANGED <<up, nextSeq, unsent, writerVars, spoolVars, uploaderVars,
                 received, confirmed, faultVars>>

\* Mutant: the stream lock is released before the event is confirmed.
PublishUnlocked(s, p) ==
  /\ up
  /\ s \in open
  /\ nextSeq[s] <= MaxSeq
  /\ Published < MaxEvents
  /\ unsent' = unsent \cup {[stream |-> s, seq |-> nextSeq[s],
                             bytes |-> p.bytes, bad |-> p.bad]}
  /\ nextSeq' = [nextSeq EXCEPT ![s] = @ + 1]
  /\ UNCHANGED <<up, used, open, writerVars, spoolVars, uploaderVars,
                 received, confirmed, faultVars>>

\* HistoryStream::publish holds next_sequence until the event is confirmed, so
\* a stream has one event in flight.
Publish(s, p) ==
  /\ up
  /\ s \in open
  /\ \A e \in InFlight : e.stream # s
  /\ nextSeq[s] <= MaxSeq
  /\ Published < MaxEvents
  /\ unsent' = unsent \cup {[stream |-> s, seq |-> nextSeq[s],
                             bytes |-> p.bytes, bad |-> p.bad]}
  /\ nextSeq' = [nextSeq EXCEPT ![s] = @ + 1]
  /\ UNCHANGED <<up, used, open, writerVars, spoolVars, uploaderVars,
                 received, confirmed, faultVars>>

\* Mutant: the channel has no capacity.
SendUnbounded(s) ==
  /\ up
  /\ \E e \in unsent :
       /\ e.stream = s
       /\ unsent' = unsent \ {e}
       /\ channel' = Append(channel, e)
  /\ UNCHANGED <<up, used, open, nextSeq, requests, writer, spoolVars,
                 uploaderVars, received, confirmed, faultVars>>

\* sync_channel::send blocks while the channel is full.
Send(s) ==
  /\ up
  /\ Len(channel) < ChannelCapacity
  /\ \E e \in unsent :
       /\ e.stream = s
       /\ unsent' = unsent \ {e}
       /\ channel' = Append(channel, e)
  /\ UNCHANGED <<up, used, open, nextSeq, requests, writer, spoolVars,
                 uploaderVars, received, confirmed, faultVars>>

-------------------------------------------------------------------------------
(* The writer.                                                             *)

WriterReceive ==
  /\ up
  /\ writer = "gather"
  /\ channel # <<>>
  /\ Len(requests) < MaxBatchSize
  /\ requests' = Append(requests, Head(channel))
  /\ channel' = Tail(channel)
  /\ UNCHANGED <<up, publisherVars, writer, spoolVars, uploaderVars,
                 received, confirmed, faultVars>>

\* The batch is full or the gathering delay is over.
WriterStopsGathering ==
  /\ up
  /\ writer = "gather"
  /\ requests # <<>>
  /\ writer' = "persist"
  /\ UNCHANGED <<up, publisherVars, channel, requests, spoolVars, uploaderVars,
                 received, confirmed, faultVars>>

\* The rows INSERT OR IGNORE adds: the unique event_id ignores an event whose
\* row is still there.  Ids keep the order of the requests; the gaps an ignored
\* row leaves here stand for nothing.
NewRows ==
  {[id |-> nextId + i, event |-> requests[i]] :
     i \in {j \in 1..Len(requests) : requests[j] \notin EventsOf(outbox)}}

\* HistorySpool::persist up to its commit.  A batch over the quota is an error
\* that rolls the whole transaction back: the writer retries, nothing changes.
Persist ==
  /\ up
  /\ writer = "persist"
  /\ StoredBytes + RowBytes(NewRows) <= MaxBytes
  /\ outbox' = outbox \cup NewRows
  /\ nextId' = nextId + Len(requests)
  /\ pendingBytes' = pendingBytes + RowBytes(NewRows)
  /\ UNCHANGED <<up, publisherVars, channel, requests, quarantined,
                 quarantinedBytes, uploaderVars, received, confirmed, crashes>>

PersistCommits == Persist /\ writer' = "confirm" /\ UNCHANGED misreports

\* The commit took effect and was reported as failed: the writer retries it.
PersistReportsError ==
  /\ misreports < MaxMisreports
  /\ misreports' = misreports + 1
  /\ Persist
  /\ UNCHANGED writer

\* The writer releases its publishers one after the other.
ConfirmNext ==
  /\ up
  /\ writer = "confirm"
  /\ confirmed' = confirmed \cup {Head(requests)}
  /\ requests' = Tail(requests)
  /\ writer' = IF Len(requests) = 1 THEN "gather" ELSE "confirm"
  /\ UNCHANGED <<up, publisherVars, channel, spoolVars, uploaderVars,
                 received, faultVars>>

-------------------------------------------------------------------------------
(* The uploader.                                                           *)

\* B holds the first rows by id, within the limits; a row alone always fits.
IsPrefix(B) == \A r \in B, q \in outbox : q.id <= r.id => q \in B

Fits(B) ==
  /\ Cardinality(B) <= batchLimit
  /\ (\E r \in B : B = {r}) \/ RowBytes(B) <= MaxBatchBytes

\* Mutant: the rows are read without an order.
LoadAnyBatch ==
  /\ up
  /\ uploader = "load"
  /\ \E B \in SUBSET outbox : B # {} /\ Fits(B) /\ batch' = B
  /\ uploader' = "deliver"
  /\ UNCHANGED <<up, publisherVars, writerVars, spoolVars, batchLimit,
                 received, confirmed, faultVars>>

\* HistorySpool::load_batch: the longest prefix of the outbox that fits.
LoadBatch ==
  /\ up
  /\ uploader = "load"
  /\ \E B \in SUBSET outbox :
       /\ B # {} /\ IsPrefix(B) /\ Fits(B)
       /\ \A C \in SUBSET outbox : IsPrefix(C) /\ Fits(C) => C \subseteq B
       /\ batch' = B
  /\ uploader' = "deliver"
  /\ UNCHANGED <<up, publisherVars, writerVars, spoolVars, batchLimit,
                 received, confirmed, faultVars>>

\* Nothing to send: the wait for work ends by the signal or by its timeout, and
\* the limit of an earlier halving is forgotten.
LoadNothing ==
  /\ up
  /\ uploader = "load"
  /\ outbox = {}
  /\ batchLimit' = MaxBatchSize
  /\ UNCHANGED <<up, publisherVars, writerVars, spoolVars, uploader, batch,
                 received, confirmed, faultVars>>

DeliverAccepted ==
  /\ up
  /\ uploader = "deliver"
  /\ ~Refuses(EventsOf(batch))
  /\ received' = received \cup EventsOf(batch)
  /\ uploader' = "acknowledge"
  /\ UNCHANGED <<up, publisherVars, writerVars, spoolVars, batch, batchLimit,
                 confirmed, faultVars>>

\* Mutant: a refused batch is quarantined as a whole.
DeliverRefusedWhole ==
  /\ up
  /\ uploader = "deliver"
  /\ Refuses(EventsOf(batch))
  /\ uploader' = "quarantine"
  /\ UNCHANGED <<up, publisherVars, writerVars, spoolVars, batch, batchLimit,
                 received, confirmed, faultVars>>

\* Mutant: the halving loses the halved limit.
DeliverRefusedUnhalved ==
  /\ up
  /\ uploader = "deliver"
  /\ Refuses(EventsOf(batch))
  /\ \/ /\ Cardinality(batch) > 1
        /\ batchLimit' = Cardinality(batch)
        /\ batch' = {}
        /\ uploader' = "load"
     \/ /\ \E r \in batch : batch = {r}
        /\ uploader' = "quarantine"
        /\ UNCHANGED <<batch, batchLimit>>
  /\ UNCHANGED <<up, publisherVars, writerVars, spoolVars, received,
                 confirmed, faultVars>>

\* A payload error halves the batch, or condemns the event that stands alone.
DeliverRefused ==
  /\ up
  /\ uploader = "deliver"
  /\ Refuses(EventsOf(batch))
  /\ \/ /\ Cardinality(batch) > 1
        /\ batchLimit' = Cardinality(batch) \div 2
        /\ batch' = {}
        /\ uploader' = "load"
     \/ /\ \E r \in batch : batch = {r}
        /\ uploader' = "quarantine"
        /\ UNCHANGED <<batch, batchLimit>>
  /\ UNCHANGED <<up, publisherVars, writerVars, spoolVars, received,
                 confirmed, faultVars>>

\* Mutant: an error of any kind is acknowledged.
DeliverFailsAcknowledged ==
  /\ up
  /\ uploader = "deliver"
  /\ uploader' = "acknowledge"
  /\ UNCHANGED <<up, publisherVars, writerVars, spoolVars, batch, batchLimit,
                 received, confirmed, faultVars>>

\* A transient or configuration error; the request may have been received
\* although its answer was lost.  The batch is read again after a delay.
DeliverFails ==
  /\ up
  /\ uploader = "deliver"
  /\ \/ UNCHANGED received
     \/ ~Refuses(EventsOf(batch)) /\ received' = received \cup EventsOf(batch)
  /\ uploader' = "load"
  /\ batch' = {}
  /\ UNCHANGED <<up, publisherVars, writerVars, spoolVars, batchLimit,
                 confirmed, faultVars>>

\* Mutant: acknowledged bytes are never given back.
AcknowledgeKeepsBytes ==
  /\ up
  /\ uploader = "acknowledge"
  /\ outbox' = outbox \ batch
  /\ uploader' = "load"
  /\ batch' = {}
  /\ batchLimit' \in {batchLimit, MaxBatchSize}
  /\ UNCHANGED <<up, publisherVars, writerVars, nextId, quarantined, pendingBytes,
                 quarantinedBytes, received, confirmed, faultVars>>

\* HistorySpool::acknowledge; a commit reported as failed leaves the limit.
Acknowledge ==
  /\ up
  /\ uploader = "acknowledge"
  /\ outbox' = outbox \ batch
  /\ pendingBytes' = Max({0, pendingBytes - RowBytes(batch \cap outbox)})
  /\ uploader' = "load"
  /\ batch' = {}
  /\ batchLimit' \in {batchLimit, MaxBatchSize}
  /\ UNCHANGED <<up, publisherVars, writerVars, nextId, quarantined,
                 quarantinedBytes, received, confirmed, faultVars>>

\* Mutant: the quarantine counts an event that was already in it.
QuarantineCountsTwice ==
  /\ up
  /\ uploader = "quarantine"
  /\ outbox' = outbox \ batch
  /\ quarantined' = quarantined \cup EventsOf(batch \cap outbox)
  /\ pendingBytes' = Max({0, pendingBytes - RowBytes(batch \cap outbox)})
  /\ quarantinedBytes' = quarantinedBytes + RowBytes(batch \cap outbox)
  /\ uploader' = "load"
  /\ batch' = {}
  /\ batchLimit' \in {batchLimit, MaxBatchSize}
  /\ UNCHANGED <<up, publisherVars, writerVars, nextId, received, confirmed,
                 faultVars>>

\* HistorySpool::quarantine: insert, delete and both counters in one commit.
Quarantine ==
  /\ up
  /\ uploader = "quarantine"
  /\ outbox' = outbox \ batch
  /\ quarantined' = quarantined \cup EventsOf(batch \cap outbox)
  /\ pendingBytes' = Max({0, pendingBytes - RowBytes(batch \cap outbox)})
  /\ quarantinedBytes' =
       quarantinedBytes + BytesOf(EventsOf(batch \cap outbox) \ quarantined)
  /\ uploader' = "load"
  /\ batch' = {}
  /\ batchLimit' \in {batchLimit, MaxBatchSize}
  /\ UNCHANGED <<up, publisherVars, writerVars, nextId, received, confirmed,
                 faultVars>>

\* Either transaction fails and is rolled back: delivery is tried again.
SettlingFails ==
  /\ up
  /\ uploader \in {"acknowledge", "quarantine"}
  /\ uploader' = "load"
  /\ batch' = {}
  /\ UNCHANGED <<up, publisherVars, writerVars, spoolVars, batchLimit,
                 received, confirmed, faultVars>>

-------------------------------------------------------------------------------
(* The process.                                                            *)

Crash ==
  /\ up
  /\ crashes < MaxCrashes
  /\ crashes' = crashes + 1
  /\ up' = FALSE
  /\ open' = {}
  /\ unsent' = {}
  /\ channel' = <<>>
  /\ requests' = <<>>
  /\ writer' = "gather"
  /\ uploader' = "load"
  /\ batch' = {}
  /\ batchLimit' = MaxBatchSize
  /\ UNCHANGED <<used, nextSeq, spoolVars, received, confirmed, misreports>>

\* HistorySpool::prepare recounts both byte counters from the tables.
Restart ==
  /\ ~up
  /\ up' = TRUE
  /\ pendingBytes' = RowBytes(outbox)
  /\ quarantinedBytes' = BytesOf(quarantined)
  /\ UNCHANGED <<publisherVars, writerVars, outbox, nextId, quarantined,
                 uploaderVars, received, confirmed, faultVars>>

-------------------------------------------------------------------------------
Publishers ==
  \E s \in Streams : OpenStream(s) \/ Send(s) \/ \E p \in Payloads : Publish(s, p)

Writer ==
  \/ WriterReceive
  \/ WriterStopsGathering
  \/ PersistCommits
  \/ PersistReportsError
  \/ ConfirmNext

SinkAnswers == DeliverAccepted \/ DeliverRefused

Uploader ==
  \/ LoadBatch
  \/ LoadNothing
  \/ SinkAnswers
  \/ DeliverFails
  \/ Acknowledge
  \/ Quarantine
  \/ SettlingFails

Next == Publishers \/ Writer \/ Uploader \/ Crash \/ Restart

Spec == Init /\ [][Next]_vars

\* The threads run; the disk and the platform may fail again and again, but
\* not forever, which is what a retry loop without a limit relies on.
Fairness ==
  /\ \A s \in Streams : WF_vars(Send(s))
  /\ WF_vars(WriterReceive \/ WriterStopsGathering \/ ConfirmNext)
  /\ WF_vars(LoadBatch)
  /\ WF_vars(Restart)
  /\ SF_vars(PersistCommits)
  /\ SF_vars(SinkAnswers)
  /\ SF_vars(Acknowledge \/ Quarantine)

FairSpec == Spec /\ Fairness
-------------------------------------------------------------------------------
(* Properties.                                                             *)

Rows == [id : Nat \ {0}, event : Events]

\* Every variable has its type, the channel and the gathered requests stay
\* within their capacities (what the two byte counters hold is
\* ByteAccounting's).
TypeOK ==
  /\ up \in BOOLEAN
  /\ used \subseteq Streams
  /\ open \subseteq used
  /\ nextSeq \in [Streams -> 1..(MaxSeq + 1)]
  /\ unsent \subseteq Events
  /\ channel \in Seq(Events) /\ Len(channel) <= ChannelCapacity
  /\ requests \in Seq(Events) /\ Len(requests) <= MaxBatchSize
  /\ writer \in {"gather", "persist", "confirm"}
  /\ outbox \subseteq Rows
  /\ nextId \in Nat \ {0}
  /\ quarantined \subseteq Events
  /\ uploader \in {"load", "deliver", "acknowledge", "quarantine"}
  /\ batch \subseteq outbox
  /\ batchLimit \in Nat
  /\ received \subseteq Events
  /\ confirmed \subseteq Events
  /\ crashes \in 0..MaxCrashes
  /\ misreports \in 0..MaxMisreports

Accepted == EventsOf(outbox) \cup quarantined \cup received

\* A publish call that returned left its event in the spool, in the quarantine
\* or with the platform, whatever crashes, failed commits and lost answers came
\* in between (HistoryQueue::persist returns only after the writer's commit).
ConfirmedIsDurable == confirmed \subseteq Accepted

\* While the process runs, the two counters agree with the two tables, so the
\* quota is exact although commits are retried and rows are ignored.
ByteAccounting ==
  /\ up => /\ pendingBytes = RowBytes(outbox)
           /\ quarantinedBytes = BytesOf(quarantined)
  /\ StoredBytes <= MaxBytes

\* Halving never condemns an event the platform would have taken: what is in
\* the quarantine is refused alone, and was never delivered.
OnlyRefusedQuarantined ==
  \A e \in quarantined : Refuses({e}) /\ e \notin received

\* The queue implements what HistoryDelivery promises.
Delivery == INSTANCE HistoryDelivery WITH accepted <- Accepted, delivered <- received

ImplementsDelivery == Delivery!Spec

\* Whatever a stream has on disk is delivered or quarantined: a refused event
\* does not block the ones behind it, and the platform catches up with the
\* stream.
EventuallySettled ==
  \A s \in Streams :
    (\E e \in Accepted : e.stream = s /\ e \notin received \cup quarantined)
      ~> (\A e \in Accepted : e.stream = s => e \in received \cup quarantined)

Publishing(s) == \E e \in InFlight : e.stream = s

\* The writer never splits its batch and nothing ever leaves the quarantine: a
\* batch that the quarantine leaves no room for is retried for ever.
BatchNeverFits ==
  writer = "persist" /\ quarantinedBytes + RowBytes(NewRows) > MaxBytes

\* Every publish call returns or its process dies: a quota filled by events on
\* their way to the platform holds the game threads back only until it drains.
\* The one other end is a writer whose batch will never fit (HistorySpool::
\* persist counts quarantined bytes, history_spool_writer retries the batch).
PublishReturnsOrNeverFits ==
  \A s \in Streams : Publishing(s) ~> (~Publishing(s) \/ BatchNeverFits)
===============================================================================
