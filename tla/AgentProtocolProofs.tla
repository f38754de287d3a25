--------------------------- MODULE AgentProtocolProofs ---------------------------
(***************************************************************************)
(* Proofs about AgentProtocol: types, that nothing is pending or           *)
(* registered without a server, that decisions are legal and that          *)
(* observations are reconstructed, for any players, connections, ids and   *)
(* depth of documents.                                                     *)
(***************************************************************************)
EXTENDS AgentProtocol, ObservationDeltaProofs, SequenceTheorems, TLAPS

USE DEF Requests, RequestIds, Connections, NoConnection

-------------------------------------------------------------------------------
(* The inductive invariant.                                                *)

Busy(p) == pc[p] \in {"insert", "send", "wait", "cleanup"}
Waiting(p) == pc[p] \in {"send", "wait", "cleanup"}

\* How far a player is: its request has a connection and a decision, and its
\* observations number its decisions, the one under way included.
Progress(p) ==
  /\ pc[p] = "absent" => decided[p] = 0
  /\ ~Busy(p) => asked[p] = p /\ Len(observed[p]) <= decided[p]
  /\ Busy(p) => /\ conn[p] \in Connections
                /\ decision[p] # None
                /\ decided[p] < MaxDecisions[p]
                /\ asked[p] = p => Len(observed[p]) <= decided[p]
                /\ asked[p] # p => /\ asked[p] \in DecisionIds
                                   /\ Len(observed[p]) \in 1..(decided[p] + 1)

\* A request that is answered is no longer pending.
Answered(p) == reply[p] # None => Waiting(p) /\ ~SenderAlive(p)

\* Connections register in the order of their numbers.
RegisteredInOrder ==
  \A j \in Connections, k \in Connections :
    j < k /\ handler[k] # "unused" => handler[j] # "unused"

\* An update says what it should of the observations it was made from.
Faithful(p, u) ==
  /\ u.sequence \in 1..Len(observed[p])
  /\ u.kind = "full" => u.document = observed[p][u.sequence]
  /\ u.kind = "delta" =>
       /\ u.sequence - 1 \in 1..Len(observed[p])
       /\ u.document = MergePatch(observed[p][u.sequence - 1], observed[p][u.sequence])

MessagesFaithful ==
  \A k \in Connections : \A i \in 1..Len(outgoing[k]) :
    Faithful(outgoing[k][i].player, outgoing[k][i].update)

IInv ==
  /\ TypeOK
  /\ \A p \in Players : Progress(p)
  /\ \A p \in Players : Answered(p)
  /\ PendingIsLive
  /\ RegisteredIsServed
  /\ RegisteredInOrder
  /\ ChoiceIsLegal
  /\ MessagesFaithful
  /\ UpdatesReconstruct

\* A request is no None, and says whose it is.
LEMMA RequestType ==
  ASSUME TypeOK, NEW p \in Players
  PROVE  /\ Request(p) \in Requests
         /\ Request(p) # None
         /\ Request(p).player = p
BY AgentAssumption DEF TypeOK, Request, Requests

\* What the request of p and the decision it is for become in a step leaves
\* those of the other players alone.
OthersUntouched(p) ==
  \A q \in Players \ {p} :
    /\ pc'[q] = pc[q]
    /\ conn'[q] = conn[q]
    /\ asked'[q] = asked[q]
    /\ reply'[q] = reply[q]
    /\ observed'[q] = observed[q]
    /\ decided'[q] = decided[q]
    /\ choice'[q] = choice[q]

RequestTypes ==
  /\ pc' \in [Players -> {"absent", "idle", "insert", "send", "wait", "cleanup"}]
  /\ conn' \in [Players -> Connections \cup {NoConnection}]
  /\ asked' \in [Players -> RequestIds]
  /\ reply' \in [Players -> [id : RequestIds, action : Actions] \cup {None}]
  /\ observed' \in [Players -> Seq(Documents)]
  /\ decided' \in [Players -> Nat]
  /\ choice' \in [Players -> Actions \cup {None}]

\* A decision is requested: the observation is recorded.
Requested(p) ==
  /\ pc'[p] = "insert"
  /\ asked'[p] \in DecisionIds
  /\ conn'[p] \in Connections
  /\ \E o \in Documents : observed'[p] = Append(observed[p], o)
  /\ decided'[p] = decided[p]
  /\ choice'[p] = choice[p]

\* A decision is made.
Made(p, d) ==
  /\ pc'[p] = "idle"
  /\ asked'[p] = p
  /\ observed'[p] = observed[p]
  /\ decided'[p] = decided[p] + 1
  /\ choice'[p] \in d.options

\* The analysis is requested.
AnalysisRequested(p) ==
  /\ pc'[p] = "insert"
  /\ asked'[p] = asked[p]
  /\ conn'[p] \in Connections
  /\ observed'[p] = observed[p]
  /\ decided'[p] = decided[p]
  /\ choice'[p] = choice[p]

\* Decide, for an action or a fallback.
LEMMA DecideEffect ==
  ASSUME TypeOK, NEW p \in Players, NEW action,
         NEW d \in [id : DecisionIds, options : Options],
         Decide(p, d, action),
         \/ reply' = reply
         \/ reply' = [reply EXCEPT ![p] = None]
  PROVE  RequestTypes /\ OthersUntouched(p) /\ Made(p, d)
<1>1. d.options \subseteq Actions
  BY AgentAssumption
<1>2. PICK a \in d.options : choice' = [choice EXCEPT ![p] = a]
  BY DEF Decide
<1>3. a \in Actions
  BY <1>1, <1>2
<1>4. RequestTypes
  <2>1. reply' \in [Players -> [id : RequestIds, action : Actions] \cup {None}]
    BY DEF TypeOK
  <2>2. choice' \in [Players -> Actions \cup {None}]
    BY <1>2, <1>3 DEF TypeOK
  <2>3. decided' \in [Players -> Nat] /\ observed' \in [Players -> Seq(Documents)]
    BY DEF Decide, TypeOK
  <2>4. /\ pc' \in [Players -> {"absent", "idle", "insert", "send", "wait", "cleanup"}]
        /\ conn' \in [Players -> Connections \cup {NoConnection}]
        /\ asked' \in [Players -> RequestIds]
    BY DEF Decide, TypeOK
  <2> QED BY <2>1, <2>2, <2>3, <2>4 DEF RequestTypes
<1>5. OthersUntouched(p)
  BY <1>2 DEF Decide, TypeOK, OthersUntouched
<1>6. Made(p, d)
  BY <1>2 DEF Decide, TypeOK, Made
<1> QED BY <1>4, <1>5, <1>6

\* RequestDecision on a connection.
LEMMA RequestDecisionEffect ==
  ASSUME TypeOK, NEW p \in Players, NEW k \in Connections,
         NEW d \in [id : DecisionIds, options : Options],
         RequestDecision(p, k, d),
         \/ reply' = reply
         \/ reply' = [reply EXCEPT ![p] = None]
  PROVE  RequestTypes /\ OthersUntouched(p) /\ Requested(p)
<1>1. PICK o \in Observations[p] : observed' = [observed EXCEPT ![p] = Append(@, o)]
  BY DEF RequestDecision
<1>2. o \in Documents
  BY <1>1, AgentAssumption
<1>3. Append(observed[p], o) \in Seq(Documents)
  BY <1>2 DEF TypeOK
<1>4. observed'[p] = Append(observed[p], o)
  BY <1>1 DEF TypeOK
<1>5. d.id \in DecisionIds
  OBVIOUS
<1>6. RequestTypes
  BY <1>1, <1>3, <1>5 DEF RequestDecision, TypeOK, RequestTypes
<1>7. OthersUntouched(p)
  BY <1>1 DEF RequestDecision, TypeOK, OthersUntouched
<1>8. Requested(p)
  BY <1>2, <1>4, <1>5 DEF RequestDecision, TypeOK, Requested
<1> QED BY <1>6, <1>7, <1>8

\* The end of a request.
LEMMA EndRequestEffect ==
  ASSUME TypeOK, NEW p \in Players, Progress(p), Busy(p), NEW action,
         EndRequest(p, action)
  PROVE  /\ RequestTypes
         /\ OthersUntouched(p)
         /\ reply'[p] = None
         /\ \/ asked[p] = p /\ Requested(p)
            \/ asked[p] # p /\ Made(p, decision[p])
<1>1. decision[p] \in [id : DecisionIds, options : Options] /\ conn[p] \in Connections
  BY DEF TypeOK, Progress
<1>2. reply' = [reply EXCEPT ![p] = None]
  BY DEF EndRequest
<1>3. reply'[p] = None
  BY <1>2 DEF TypeOK
<1>4. CASE asked[p] = p
  <2>1. RequestDecision(p, conn[p], decision[p])
    BY <1>4 DEF EndRequest
  <2> QED BY <1>1, <1>2, <1>3, <1>4, <2>1, RequestDecisionEffect
<1>5. CASE asked[p] # p
  <2>1. Decide(p, decision[p], action)
    BY <1>5 DEF EndRequest
  <2> QED BY <1>1, <1>2, <1>3, <1>5, <2>1, DecideEffect
<1> QED BY <1>4, <1>5


\* What every end of a request does: no entry of the player is pending
\* afterwards, and no other entry appears or goes to another request.
Ended(p) ==
  /\ Busy(p)
  /\ RequestTypes
  /\ OthersUntouched(p)
  /\ reply'[p] = None
  /\ \/ asked[p] = p /\ Requested(p)
     \/ asked[p] # p /\ Made(p, decision[p])
  /\ pending' \in [Connections -> [RequestIds -> Requests \cup {None}]]
  /\ \A k \in Connections, i \in RequestIds :
       pending'[k][i] # None =>
         pending'[k][i] = pending[k][i] /\ pending[k][i].player # p
  /\ UNCHANGED <<registry, connectionVars, outgoing, decision, analysed>>

SendFails(p) == Send(p) /\ handler[conn[p]] \in {"ended", "refused"}
Sent(p) == Send(p) /\ handler[conn[p]] \notin {"ended", "refused"}

\* The entry of p is where its request is: removed, none of p is left.
LEMMA OwnEntryRemoved ==
  ASSUME IInv, NEW p \in Players, Busy(p),
         pending' = [pending EXCEPT ![conn[p]][asked[p]] = None]
  PROVE  /\ pending' \in [Connections -> [RequestIds -> Requests \cup {None}]]
         /\ \A k \in Connections, i \in RequestIds :
              pending'[k][i] # None =>
                pending'[k][i] = pending[k][i] /\ pending[k][i].player # p
<1>1. TypeOK /\ conn[p] \in Connections /\ asked[p] \in RequestIds
  BY DEF IInv, TypeOK, Progress
<1>2. pending' \in [Connections -> [RequestIds -> Requests \cup {None}]]
  BY <1>1 DEF TypeOK
<1>3. ASSUME NEW k \in Connections, NEW i \in RequestIds, pending'[k][i] # None
      PROVE  pending'[k][i] = pending[k][i] /\ pending[k][i].player # p
  <2>1. ~(k = conn[p] /\ i = asked[p])
    BY <1>1, <1>3 DEF TypeOK
  <2>2. pending'[k][i] = pending[k][i]
    BY <1>1, <2>1 DEF TypeOK
  <2>3. pending[k][i].player # p
    BY <1>3, <2>1, <2>2 DEF IInv, PendingIsLive
  <2> QED BY <2>2, <2>3
<1> QED BY <1>2, <1>3

\* Nothing of p is pending to begin with.
LEMMA NothingPending ==
  ASSUME IInv, NEW p \in Players, ~SenderAlive(p)
  PROVE  \A k \in Connections, i \in RequestIds :
           pending[k][i] # None => pending[k][i].player # p
BY DEF IInv, PendingIsLive, SenderAlive

LEMMA Endings ==
  ASSUME IInv, NEW p \in Players,
         SendFails(p) \/ Receive(p) \/ ChannelCloses(p) \/ CleanUp(p)
  PROVE  Ended(p)
<1>1. TypeOK /\ Progress(p) /\ Answered(p)
  BY DEF IInv
<1>2. CASE SendFails(p) \/ CleanUp(p)
  <2>1. Busy(p)
    BY <1>2 DEF SendFails, Send, CleanUp, Busy
  <2>2. EndRequest(p, None) /\ pending' = [pending EXCEPT ![conn[p]][asked[p]] = None]
    BY <1>2 DEF SendFails, Send, CleanUp
  <2>3. UNCHANGED <<registry, connectionVars, outgoing, decision, analysed>>
    BY <1>2 DEF SendFails, Send, CleanUp
  <2> QED BY <1>1, <2>1, <2>2, <2>3, EndRequestEffect, OwnEntryRemoved DEF Ended
<1>3. CASE Receive(p) \/ ChannelCloses(p)
  <2>1. Busy(p) /\ ~SenderAlive(p)
    BY <1>1, <1>3 DEF Receive, ChannelCloses, Busy, Answered
  <2>2. PICK action : EndRequest(p, action)
    BY <1>3 DEF Receive, ChannelCloses
  <2>3. UNCHANGED <<registry, connectionVars, outgoing, pending, decision, analysed>>
    BY <1>3 DEF Receive, ChannelCloses
  <2>4. pending' \in [Connections -> [RequestIds -> Requests \cup {None}]]
    BY <1>1, <2>3 DEF TypeOK
  <2> QED BY <1>1, <2>1, <2>2, <2>3, <2>4, EndRequestEffect, NothingPending DEF Ended
<1> QED BY <1>2, <1>3

\* What asking for a decision does.
Asked(p) ==
  /\ pc[p] = "idle"
  /\ decided[p] < MaxDecisions[p]
  /\ RequestTypes
  /\ OthersUntouched(p)
  /\ \E d \in [id : DecisionIds, options : Options] :
       /\ decision' = [decision EXCEPT ![p] = d]
       /\ Made(p, d) \/ Requested(p) \/ AnalysisRequested(p)
  /\ analysed' \in [Players -> BOOLEAN]
  /\ UNCHANGED <<registry, connectionVars, outgoing, pending, reply>>

LEMMA Asking ==
  ASSUME IInv, NEW p \in Players, Ask(p)
  PROVE  Asked(p)
<1>1. TypeOK
  BY DEF IInv
<1>2. UNCHANGED <<registry, connectionVars, outgoing, pending, reply>>
  BY DEF Ask
<1>3. PICK d \in [id : DecisionIds, options : Options] :
        /\ decision' = [decision EXCEPT ![p] = d]
        /\ analysed' = [analysed EXCEPT ![p] =
                          @ \/ (AgentFacing(d) # {} /\ registry # NoConnection)]
        /\ IF AgentFacing(d) = {} \/ registry = NoConnection THEN Decide(p, d, None)
           ELSE IF analysed[p] THEN RequestDecision(p, registry, d)
           ELSE RequestAnalysis(p, registry)
  BY Zenon DEF Ask
<1>4. analysed' \in [Players -> BOOLEAN]
  BY <1>1, <1>3 DEF TypeOK
<1>5. RequestTypes /\ OthersUntouched(p) /\ (Made(p, d) \/ Requested(p) \/ AnalysisRequested(p))
  <2> DEFINE Falls == AgentFacing(d) = {} \/ registry = NoConnection
  <2>1. CASE Falls
    BY <1>1, <1>2, <1>3, <2>1, DecideEffect
  <2>2. CASE ~Falls /\ analysed[p]
    <3>1. registry \in Connections
      BY <1>1, <2>2 DEF TypeOK
    <3> QED BY <1>1, <1>2, <1>3, <2>2, <3>1, RequestDecisionEffect
  <2>3. CASE ~Falls /\ ~analysed[p]
    <3>1. registry \in Connections /\ RequestAnalysis(p, registry)
      BY <1>1, <1>3, <2>3 DEF TypeOK
    <3>2. RequestTypes
      BY <1>1, <1>2, <3>1 DEF RequestAnalysis, TypeOK, RequestTypes
    <3>3. OthersUntouched(p) /\ AnalysisRequested(p)
      BY <1>1, <1>2, <3>1 DEF RequestAnalysis, TypeOK, OthersUntouched, AnalysisRequested
    <3> QED BY <3>2, <3>3
  <2> QED BY <2>1, <2>2, <2>3
<1> QED BY <1>2, <1>3, <1>4, <1>5 DEF Asked, Ask


-------------------------------------------------------------------------------
(* The types and the progress of the players.                              *)

\* Every step is one of these; the proofs go through them.
LEMMA StepCases ==
  ASSUME IInv, [Next]_vars
  PROVE  \/ \E p \in Players : Join(p) \/ Asked(p) \/ Insert(p) \/ Sent(p)
                                 \/ Ended(p) \/ TimesOut(p)
         \/ \E k \in Connections : Handle(k)
         \/ UNCHANGED vars
<1>1. ASSUME NEW p \in Players, Send(p)
      PROVE  Sent(p) \/ SendFails(p)
  BY <1>1 DEF Sent, SendFails
<1>2. ASSUME NEW p \in Players, Continue(p)
      PROVE  Insert(p) \/ Sent(p) \/ Ended(p) \/ TimesOut(p)
  BY <1>1, <1>2, Endings DEF Continue
<1> QED BY <1>2, Asking DEF Next

LEMMA UpdateType ==
  ASSUME TypeOK, NEW p \in Players, Progress(p), Busy(p), asked[p] # p
  PROVE  /\ Update(p) \in Updates
         /\ Faithful(p, Update(p))
<1>1. /\ Len(observed[p]) \in Nat /\ Len(observed[p]) >= 1
      /\ \A i \in 1..Len(observed[p]) : observed[p][i] \in Documents
  BY DEF TypeOK, Progress
<1> DEFINE n == Len(observed[p])
<1>2. CASE ObservationStream[conn[p]] = "delta" /\ n > 1
  <2>1. n - 1 \in 1..n /\ n \in 1..n
    BY <1>1, <1>2
  <2>2. MergePatch(observed[p][n - 1], observed[p][n]) \in Documents
    BY <1>1, <2>1, MergePatchType
  <2>3. Update(p) = [kind |-> "delta", sequence |-> n,
                     document |-> MergePatch(observed[p][n - 1], observed[p][n])]
    BY <1>2 DEF Update
  <2> QED BY <1>1, <2>1, <2>2, <2>3 DEF Updates, Faithful
<1>3. CASE ~(ObservationStream[conn[p]] = "delta" /\ n > 1)
  <2>1. Update(p) = [kind |-> "full", sequence |-> n, document |-> observed[p][n]]
    BY <1>3 DEF Update
  <2>2. n \in 1..n
    BY <1>1
  <2> QED BY <1>1, <2>1, <2>2 DEF Updates, Faithful
<1> QED BY <1>2, <1>3

LEMMA MessagesType ==
  ASSUME TypeOK, NEW p \in Players, Progress(p), Busy(p)
  PROVE  Messages(p) \in Seq([player : Players, update : Updates])
<1>1. CASE asked[p] = p
  BY <1>1 DEF Messages
<1>2. CASE asked[p] # p
  <2>1. Update(p) \in Updates
    BY <1>2, UpdateType
  <2> QED BY <1>2, <2>1 DEF Messages
<1> QED BY <1>1, <1>2

\* The agent's document stays one.
LEMMA AppliedType ==
  ASSUME NEW last \in [sequence : Nat, document : Documents], NEW u \in Updates
  PROVE  Applied(last, u) \in [sequence : Nat, document : Documents]
<1>1. ApplyMergePatch(last.document, u.document) \in Documents
  BY ApplyMergePatchType DEF Updates
<1> QED BY <1>1 DEF Applied, Updates

LEMMA ObservedBound ==
  ASSUME TypeOK, \A p \in Players : Progress(p)
  PROVE  \A p \in Players : Len(observed[p]) <= MaxDecisions[p]
<1> SUFFICES ASSUME NEW p \in Players
             PROVE  Len(observed[p]) <= MaxDecisions[p]
  OBVIOUS
<1>1. /\ Len(observed[p]) \in Nat /\ decided[p] \in Nat /\ MaxDecisions[p] \in Nat
      /\ decided[p] <= MaxDecisions[p]
  BY AgentAssumption DEF TypeOK
<1> QED BY <1>1 DEF Progress

\* One player's progress, when the others stay where they are.
LEMMA ProgressKept ==
  ASSUME \A q \in Players : Progress(q), NEW p \in Players, OthersUntouched(p),
         \A q \in Players \ {p} : decision'[q] = decision[q],
         Progress(p)'
  PROVE  \A q \in Players : Progress(q)'
BY DEF Progress, Busy, OthersUntouched

LEMMA RequestedProgress ==
  ASSUME TypeOK, NEW p \in Players, Progress(p), Requested(p), asked[p] = p,
         decided[p] < MaxDecisions[p], decision'[p] # None
  PROVE  Progress(p)' /\ Len(observed'[p]) = Len(observed[p]) + 1
<1>1. PICK o \in Documents : observed'[p] = Append(observed[p], o)
  BY DEF Requested
<1>2. /\ observed[p] \in Seq(Documents) /\ decided[p] \in Nat
      /\ Len(observed[p]) \in Nat /\ Len(observed[p]) <= decided[p]
  BY DEF TypeOK, Progress
<1>3. Len(observed'[p]) = Len(observed[p]) + 1
  BY <1>1, <1>2
<1>4. asked'[p] # p
  BY AgentAssumption DEF Requested
<1> QED BY <1>2, <1>3, <1>4 DEF Requested, Progress, Busy

LEMMA MadeProgress ==
  ASSUME TypeOK, NEW p \in Players, NEW d, Progress(p), Made(p, d)
  PROVE  Progress(p)'
<1>1. Len(observed[p]) \in Nat /\ decided[p] \in Nat
      /\ Len(observed[p]) <= decided[p] + 1
  BY DEF TypeOK, Progress
<1> QED BY <1>1 DEF Made, Progress, Busy

LEMMA ProgressStep ==
  ASSUME IInv, [Next]_vars
  PROVE  \A p \in Players : Progress(p)'
<1>1. TypeOK /\ \A p \in Players : Progress(p)
  BY DEF IInv
<1>2. ASSUME NEW p \in Players, Join(p) \/ Insert(p) \/ Sent(p) \/ TimesOut(p)
      PROVE  \A q \in Players : Progress(q)'
  <2>1. OthersUntouched(p)
    BY <1>1, <1>2 DEF Join, Insert, Sent, Send, TimesOut, OthersUntouched, TypeOK,
                      requestVars, decisionVars
  <2>2. /\ UNCHANGED <<conn, asked, decision, observed, decided>>
        /\ \/ pc[p] = "absent" /\ pc'[p] = "idle"
           \/ Busy(p) /\ Busy(p)' /\ pc'[p] # "absent"
    BY <1>1, <1>2 DEF Join, Insert, Sent, Send, TimesOut, TypeOK, requestVars,
                      decisionVars, Busy
  <2>3. Progress(p)'
    BY <1>1, <2>2 DEF Progress, Busy
  <2> QED BY <1>1, <2>1, <2>2, <2>3, ProgressKept
<1>3. ASSUME NEW p \in Players, Asked(p)
      PROVE  \A q \in Players : Progress(q)'
  <2>1. PICK d \in [id : DecisionIds, options : Options] :
          /\ decision' = [decision EXCEPT ![p] = d]
          /\ Made(p, d) \/ Requested(p) \/ AnalysisRequested(p)
    BY <1>3 DEF Asked
  <2>2. decision'[p] = d /\ d # None /\ \A q \in Players \ {p} : decision'[q] = decision[q]
    BY <1>1, <2>1, AgentAssumption DEF TypeOK
  <2>3. decided[p] < MaxDecisions[p] /\ asked[p] = p /\ Len(observed[p]) <= decided[p]
        /\ pc[p] = "idle"
    BY <1>1, <1>3 DEF Asked, Progress, Busy
  <2>4. Progress(p)'
    <3>1. CASE Made(p, d)
      BY <1>1, <3>1, MadeProgress
    <3>2. CASE Requested(p)
      BY <1>1, <2>2, <2>3, <3>2, RequestedProgress
    <3>3. CASE AnalysisRequested(p)
      BY <2>2, <2>3, <3>3 DEF AnalysisRequested, Progress, Busy
    <3> QED BY <2>1, <3>1, <3>2, <3>3
  <2>5. OthersUntouched(p)
    BY <1>3 DEF Asked
  <2> QED BY <1>1, <2>2, <2>4, <2>5, ProgressKept
<1>4. ASSUME NEW p \in Players, Ended(p)
      PROVE  \A q \in Players : Progress(q)'
  <2>1. decision' = decision /\ OthersUntouched(p)
    BY <1>4 DEF Ended
  <2>2. Progress(p)'
    <3>1. CASE asked[p] = p /\ Requested(p)
      BY <1>1, <1>4, <2>1, <3>1, RequestedProgress DEF Ended, Progress
    <3>2. CASE Made(p, decision[p])
      BY <1>1, <3>2, MadeProgress
    <3> QED BY <1>4, <3>1, <3>2 DEF Ended
  <2> QED BY <1>1, <2>1, <2>2, ProgressKept
<1>5. ASSUME NEW k \in Connections, Handle(k)
      PROVE  \A q \in Players : Progress(q)'
  <2>1. UNCHANGED <<pc, requestVars, decisionVars>>
    BY <1>5 DEF Handle, Register, Accept, AcceptFails, Forward, Read, Break, Unregister
  <2> QED BY <1>1, <2>1 DEF Progress, Busy, requestVars, decisionVars
<1>6. CASE UNCHANGED vars
  BY <1>1, <1>6 DEF Progress, Busy, vars, requestVars, decisionVars
<1> QED BY <1>2, <1>3, <1>4, <1>5, <1>6, StepCases


\* The channels hold messages.
Message == [player : Players, update : Updates]

LEMMA ChannelOps ==
  ASSUME NEW S, NEW s \in Seq(S)
  PROVE  /\ <<>> \in Seq(S)
         /\ \A t \in Seq(S) : s \o t \in Seq(S)
         /\ s # <<>> => Head(s) \in S /\ Tail(s) \in Seq(S)
OBVIOUS

\* A message that is sent is the last of the channel.
LEMMA SentLast ==
  ASSUME NEW S, NEW s \in Seq(S), NEW m, NEW i \in 1..Len(s \o <<m>>)
  PROVE  \/ i \in 1..Len(s) /\ (s \o <<m>>)[i] = s[i]
         \/ (s \o <<m>>)[i] = m
<1>1. Len(s) \in Nat /\ Len(s \o <<m>>) = Len(s) + 1
  OBVIOUS
<1>2. CASE i \in 1..Len(s)
  BY <1>1, <1>2
<1>3. CASE i = Len(s) + 1
  BY <1>1, <1>3
<1> QED BY <1>1, <1>2, <1>3

LEMMA ChannelType ==
  ASSUME TypeOK
  PROVE  /\ outgoing \in [Connections -> Seq(Message)]
         /\ \A k \in Connections : outgoing[k] \in Seq(Message)
BY DEF TypeOK, Message

\* The types, given what a step does to a player.
LEMMA TypeStep ==
  ASSUME IInv, [Next]_vars
  PROVE  TypeOK'
<1>1. TypeOK /\ \A p \in Players : Progress(p)
  BY DEF IInv
<1>2. ASSUME NEW p \in Players, Join(p)
      PROVE  TypeOK'
  BY <1>1, <1>2 DEF TypeOK, Join, connectionVars, requestVars, decisionVars
<1>3. ASSUME NEW p \in Players, Asked(p)
      PROVE  TypeOK'
  <2>1. PICK d \in [id : DecisionIds, options : Options] :
          /\ decision' = [decision EXCEPT ![p] = d]
          /\ Made(p, d) \/ Requested(p) \/ AnalysisRequested(p)
    BY <1>3 DEF Asked
  <2>2. decision' \in [Players -> [id : DecisionIds, options : Options] \cup {None}]
    BY <1>1, <2>1 DEF TypeOK
  <2>3. \A q \in Players : decided'[q] <= MaxDecisions[q]
    <3>1. decided[p] < MaxDecisions[p] /\ decided[p] \in Nat /\ MaxDecisions[p] \in Nat
      BY <1>1, <1>3, AgentAssumption DEF Asked, TypeOK
    <3>2. decided'[p] <= MaxDecisions[p]
      BY <2>1, <3>1 DEF Made, Requested, AnalysisRequested
    <3> QED BY <1>1, <1>3, <3>2 DEF Asked, OthersUntouched, TypeOK
  <2>4. \A q \in Players : Len(observed'[q]) <= MaxDecisions[q]
    <3>1. /\ \A q \in Players : Progress(q)' /\ decided'[q] \in Nat
                                 /\ Len(observed'[q]) \in Nat
      BY <1>3, ProgressStep DEF Asked, RequestTypes
    <3> QED BY <2>3, <3>1, AgentAssumption, SMTT(20) DEF Progress
  <2> QED BY <1>1, <1>3, <2>2, <2>3, <2>4 DEF Asked, RequestTypes, TypeOK, connectionVars
<1>4. ASSUME NEW p \in Players, Insert(p)
      PROVE  TypeOK'
  <2>1. conn[p] \in Connections /\ asked[p] \in RequestIds /\ Request(p) \in Requests
    BY <1>1, <1>4, RequestType DEF TypeOK, Insert, Progress, Busy
  <2>2. pending' \in [Connections -> [RequestIds -> Requests \cup {None}]]
    BY <1>1, <1>4, <2>1 DEF Insert, TypeOK
  <2> QED BY <1>1, <1>4, <2>2 DEF TypeOK, Insert, connectionVars, requestVars, decisionVars
<1>5. ASSUME NEW p \in Players, Sent(p)
      PROVE  TypeOK'
  <2>1. Messages(p) \in Seq([player : Players, update : Updates])
    BY <1>1, <1>5, MessagesType DEF Sent, Send, Busy
  <2>2. outgoing' \in [Connections -> Seq(Message)]
    <3>1. outgoing' = [outgoing EXCEPT ![conn[p]] = @ \o Messages(p)]
      BY <1>5 DEF Sent, Send
    <3>2. conn[p] \in Connections
      BY <1>1, <1>5 DEF Sent, Send, Progress, Busy
    <3>3. outgoing[conn[p]] \o Messages(p) \in Seq(Message)
      BY <1>1, <2>1, <3>2, ChannelType, ChannelOps DEF Message
    <3> QED BY <1>1, <3>1, <3>3, ChannelType
  <2>3. pc' \in [Players -> {"absent", "idle", "insert", "send", "wait", "cleanup"}]
    BY <1>1, <1>5 DEF TypeOK, Sent, Send
  <2>4. UNCHANGED <<registry, connectionVars, pending, requestVars, reply, decisionVars>>
    BY <1>5 DEF Sent, Send, decisionVars
  <2> QED
    BY <1>1, <2>2, <2>3, <2>4
       DEF TypeOK, Message, connectionVars, requestVars, decisionVars
<1>6. ASSUME NEW p \in Players, Ended(p)
      PROVE  TypeOK'
  <2>1. \A q \in Players : decided'[q] <= MaxDecisions[q]
    <3>1. decided[p] < MaxDecisions[p] /\ decided[p] \in Nat /\ MaxDecisions[p] \in Nat
      BY <1>1, <1>6, AgentAssumption DEF Ended, Progress, TypeOK
    <3>2. decided'[p] <= MaxDecisions[p]
      BY <1>6, <3>1 DEF Ended, Made, Requested
    <3> QED BY <1>1, <1>6, <3>2 DEF Ended, OthersUntouched, TypeOK
  <2>2. \A q \in Players : Len(observed'[q]) <= MaxDecisions[q]
    <3>1. \A q \in Players : /\ Progress(q)' /\ decided'[q] \in Nat
                             /\ Len(observed'[q]) \in Nat
      BY <1>6, ProgressStep DEF Ended, RequestTypes
    <3> QED BY <2>1, <3>1, AgentAssumption DEF Progress
  <2> QED BY <1>1, <1>6, <2>1, <2>2 DEF Ended, RequestTypes, TypeOK, connectionVars
<1>7. ASSUME NEW p \in Players, TimesOut(p)
      PROVE  TypeOK'
  BY <1>1, <1>7 DEF TypeOK, TimesOut, connectionVars, requestVars, decisionVars
<1>8. ASSUME NEW k \in Connections, Register(k) \/ Accept(k) \/ Break(k)
      PROVE  TypeOK'
  BY <1>1, <1>8 DEF TypeOK, Register, Accept, Break, requestVars, decisionVars
<1>9. ASSUME NEW k \in Connections, AcceptFails(k)
      PROVE  TypeOK'
  <2>1. outgoing' \in [Connections -> Seq(Message)]
    BY <1>1, <1>9, ChannelType, ChannelOps DEF AcceptFails
  <2> QED BY <1>1, <1>9, <2>1 DEF TypeOK, AcceptFails, Message, requestVars, decisionVars
<1>10. ASSUME NEW k \in Connections, Forward(k)
       PROVE  TypeOK'
  <2> DEFINE m == Head(outgoing[k])
  <2>1. m \in Message /\ Tail(outgoing[k]) \in Seq(Message)
    BY <1>1, <1>10, ChannelType, ChannelOps DEF Forward
  <2>2. /\ known' = [known EXCEPT ![k][m.player] = Applied(@, m.update)]
        /\ outgoing' = [outgoing EXCEPT ![k] = Tail(@)]
    BY <1>10 DEF Forward
  <2> HIDE DEF m
  <2>3. m.player \in Players /\ m.update \in Updates
    BY <2>1 DEF Message
  <2>4. Applied(known[k][m.player], m.update) \in [sequence : Nat, document : Documents]
    <3>1. known \in [Connections -> [Players -> [sequence : Nat, document : Documents]]]
      BY <1>1 DEF TypeOK
    <3>2. known[k][m.player] \in [sequence : Nat, document : Documents]
      BY <2>3, <3>1
    <3> QED BY <2>3, <3>2, AppliedType
  <2>5. known' \in [Connections -> [Players -> [sequence : Nat, document : Documents]]]
    BY <1>1, <2>2, <2>3, <2>4 DEF TypeOK
  <2>6. outgoing' \in [Connections -> Seq(Message)]
    BY <1>1, <2>1, <2>2, ChannelType
  <2> QED
    BY <1>1, <1>10, <2>5, <2>6 DEF TypeOK, Forward, Message, requestVars, decisionVars
<1>11. ASSUME NEW k \in Connections, Read(k)
       PROVE  TypeOK'
  <2>1. PICK i \in RequestIds, a \in Actions :
          /\ pending[k][i] # None
          /\ pending' = [pending EXCEPT ![k][i] = None]
          /\ reply' = IF pending[k][i] = Request(pending[k][i].player)
                      THEN [reply EXCEPT ![pending[k][i].player] = [id |-> i, action |-> a]]
                      ELSE reply
    BY <1>11 DEF Read
  <2>2. pending' \in [Connections -> [RequestIds -> Requests \cup {None}]]
    BY <1>1, <2>1 DEF TypeOK
  <2>3. reply' \in [Players -> [id : RequestIds, action : Actions] \cup {None}]
    BY <1>1, <2>1 DEF TypeOK
  <2> QED BY <1>1, <1>11, <2>2, <2>3 DEF TypeOK, Read, connectionVars, requestVars, decisionVars
<1>12. ASSUME NEW k \in Connections, Unregister(k)
       PROVE  TypeOK'
  <2>1. known' \in [Connections -> [Players -> [sequence : Nat, document : Documents]]]
    BY <1>1, <1>12, EmptyDocument DEF TypeOK, Unregister, KnowsNothing
  <2>2. outgoing' \in [Connections -> Seq(Message)]
    BY <1>1, <1>12, ChannelType, ChannelOps DEF Unregister
  <2> QED
    BY <1>1, <1>12, <2>1, <2>2 DEF TypeOK, Unregister, Message, requestVars, decisionVars
<1>13. CASE UNCHANGED vars
  BY <1>1, <1>13 DEF TypeOK, vars, connectionVars, requestVars, decisionVars
<1> QED
  BY <1>2, <1>3, <1>4, <1>5, <1>6, <1>7, <1>8, <1>9, <1>10, <1>11, <1>12, <1>13,
     StepCases DEF Handle


-------------------------------------------------------------------------------
(* Pending requests.                                                       *)

\* An entry r of connection k under the id i, and the request it says it is of.
Live(r, k, i) ==
  /\ r.player \in Players
  /\ r = Request(r.player)
  /\ conn[r.player] = k
  /\ asked[r.player] = i
  /\ Waiting(r.player)

LEMMA EntryFacts ==
  ASSUME TypeOK, PendingIsLive, NEW k \in Connections, NEW i \in RequestIds,
         NEW r, pending[k][i] = r, r # None
  PROVE  Live(r, k, i)
<1>1. pending \in [Connections -> [RequestIds -> Requests \cup {None}]]
  BY DEF TypeOK
<1>2. r \in Requests
  BY <1>1
<1>3. r.player \in Players
  BY <1>2
<1> QED BY <1>3 DEF PendingIsLive, Live, Waiting

LEMMA LiveSuffices ==
  ASSUME \A k \in Connections, i \in RequestIds : \A r :
           pending'[k][i] = r /\ r # None => Live(r, k, i)'
  PROVE  PendingIsLive'
<1>1. ASSUME NEW k \in Connections, NEW i \in RequestIds, pending'[k][i] # None
      PROVE  Live(pending[k][i], k, i)'
  BY <1>1
<1> QED BY <1>1 DEF PendingIsLive, Live, Waiting

\* What the entries of the requests under way depend on: a step that leaves it
\* alone and lets no request start waiting or stop keeps both invariants.
LEMMA SameRequests ==
  ASSUME IInv, UNCHANGED <<pending, reply, conn, asked, observed>>,
         \A p \in Players : Waiting(p) <=> Waiting(p)'
  PROVE  PendingIsLive' /\ \A p \in Players : Answered(p)'
<1>1. \A p \in Players : Request(p)' = Request(p)
  BY DEF Request
<1>2. \A p \in Players : Answered(p)'
  BY <1>1 DEF IInv, Answered, SenderAlive
<1>3. ASSUME NEW k \in Connections, NEW i \in RequestIds, NEW r,
             pending'[k][i] = r, r # None
      PROVE  Live(r, k, i)'
  BY <1>1, <1>3, EntryFacts DEF IInv, Live
<1> QED BY <1>2, <1>3, LiveSuffices

\* The requests of the others stay as they are when p has none pending.
LEMMA NoneOfOwn ==
  ASSUME IInv, NEW p \in Players, OthersUntouched(p), reply'[p] = None,
         \A k \in Connections, i \in RequestIds :
           pending'[k][i] # None =>
             pending'[k][i] = pending[k][i] /\ pending[k][i].player # p
  PROVE  PendingIsLive' /\ \A q \in Players : Answered(q)'
<1>1. \A q \in Players \ {p} : Request(q)' = Request(q) /\ (Waiting(q) <=> Waiting(q)')
  BY DEF Request, OthersUntouched, Waiting
<1>2. ASSUME NEW k \in Connections, NEW i \in RequestIds, NEW r,
             pending'[k][i] = r, r # None
      PROVE  Live(r, k, i)'
  <2>1. pending[k][i] = r /\ r.player # p
    BY <1>2
  <2>2. Live(r, k, i)
    BY <1>2, <2>1, EntryFacts DEF IInv
  <2> QED BY <1>1, <2>1, <2>2 DEF Live, OthersUntouched
<1>3. ASSUME NEW q \in Players
      PROVE  Answered(q)'
  <2>1. CASE q = p
    BY <2>1 DEF Answered
  <2>2. CASE q # p
    <3>1. reply'[q] = reply[q] /\ Request(q)' = Request(q) /\ (Waiting(q) <=> Waiting(q)')
      BY <1>1, <2>2 DEF OthersUntouched
    <3>2. SenderAlive(q)' => SenderAlive(q)
      <4>1. Request(q) # None
        BY RequestType DEF IInv
      <4> QED BY <3>1, <4>1 DEF SenderAlive
    <3> QED BY <3>1, <3>2 DEF IInv, Answered
  <2> QED BY <2>1, <2>2
<1> QED BY <1>2, <1>3, LiveSuffices

LEMMA PendingStep ==
  ASSUME IInv, [Next]_vars
  PROVE  PendingIsLive' /\ \A p \in Players : Answered(p)'
<1>1. TypeOK /\ PendingIsLive /\ \A p \in Players : Progress(p) /\ Answered(p)
  BY DEF IInv
<1>2. ASSUME NEW p \in Players, Join(p) \/ Sent(p) \/ TimesOut(p)
      PROVE  PendingIsLive' /\ \A q \in Players : Answered(q)'
  <2>1. UNCHANGED <<pending, reply, conn, asked, observed>>
    BY <1>2 DEF Join, Sent, Send, TimesOut, requestVars, decisionVars
  <2>2. \A q \in Players : Waiting(q) <=> Waiting(q)'
    BY <1>1, <1>2 DEF Join, Sent, Send, TimesOut, Waiting, TypeOK
  <2> QED BY <2>1, <2>2, SameRequests
<1>3. ASSUME NEW p \in Players, Asked(p)
      PROVE  PendingIsLive' /\ \A q \in Players : Answered(q)'
  <2>1. OthersUntouched(p) /\ UNCHANGED <<pending, reply>>
    BY <1>3 DEF Asked
  <2>2. ~Waiting(p) /\ reply[p] = None
    BY <1>1, <1>3 DEF Asked, Waiting, Answered
  <2>3. \A k \in Connections, i \in RequestIds :
          pending[k][i] # None => pending[k][i].player # p
    BY <1>1, <2>2 DEF PendingIsLive, Waiting
  <2> QED BY <2>1, <2>2, <2>3, NoneOfOwn
<1>4. ASSUME NEW p \in Players, Ended(p)
      PROVE  PendingIsLive' /\ \A q \in Players : Answered(q)'
  BY <1>4, NoneOfOwn DEF Ended
<1>5. ASSUME NEW p \in Players, Insert(p)
      PROVE  PendingIsLive' /\ \A q \in Players : Answered(q)'
  <2>1. /\ pending' = [pending EXCEPT ![conn[p]][asked[p]] = Request(p)]
        /\ pc' = [pc EXCEPT ![p] = "send"]
        /\ UNCHANGED <<reply, conn, asked, observed>>
    BY <1>5 DEF Insert, requestVars, decisionVars
  <2>2. conn[p] \in Connections /\ asked[p] \in RequestIds /\ ~Waiting(p) /\ reply[p] = None
    BY <1>1, <1>5 DEF TypeOK, Insert, Progress, Busy, Waiting, Answered
  <2>3. \A q \in Players : Request(q)' = Request(q)
    BY <2>1 DEF Request
  <2>4. \A k \in Connections, i \in RequestIds :
          \/ k = conn[p] /\ i = asked[p] /\ pending'[k][i] = Request(p)
          \/ pending'[k][i] = pending[k][i]
    BY <1>1, <2>1, <2>2 DEF TypeOK
  <2>5. Waiting(p)' /\ \A q \in Players : Waiting(q) => Waiting(q)'
    BY <1>1, <2>1 DEF Waiting, TypeOK
  <2>6. Request(p).player = p
    BY <1>1, RequestType
  <2>8. PendingIsLive'
    <3>1. ASSUME NEW k \in Connections, NEW i \in RequestIds, NEW r,
                 pending'[k][i] = r, r # None
          PROVE  Live(r, k, i)'
      <4>1. CASE k = conn[p] /\ i = asked[p] /\ pending'[k][i] = Request(p)
        BY <2>1, <2>3, <2>5, <2>6, <3>1, <4>1 DEF Live
      <4>2. CASE pending'[k][i] = pending[k][i]
        <5>1. Live(r, k, i)
          BY <1>1, <3>1, <4>2, EntryFacts
        <5> QED BY <2>1, <2>3, <2>5, <5>1 DEF Live
      <4> QED BY <2>4, <4>1, <4>2
    <3> QED BY <3>1, LiveSuffices
  <2>9. ASSUME NEW q \in Players
        PROVE  Answered(q)'
    <3>1. CASE q = p
      BY <2>1, <2>2, <3>1 DEF Answered
    <3>2. CASE q # p
      <4>1. Request(q) # Request(p)
        BY <1>1, <2>6, <3>2, RequestType
      <4>2. SenderAlive(q)' => SenderAlive(q)
        BY <2>3, <2>4, <4>1 DEF SenderAlive
      <4> QED BY <1>1, <2>1, <2>5, <4>2 DEF Answered
    <3> QED BY <3>1, <3>2
  <2> QED BY <2>8, <2>9
<1>6. ASSUME NEW k \in Connections, Read(k)
      PROVE  PendingIsLive' /\ \A q \in Players : Answered(q)'
  <2>1. PICK i \in RequestIds, a \in Actions :
          /\ pending[k][i] # None
          /\ pending' = [pending EXCEPT ![k][i] = None]
          /\ reply' = IF pending[k][i] = Request(pending[k][i].player)
                      THEN [reply EXCEPT ![pending[k][i].player] = [id |-> i, action |-> a]]
                      ELSE reply
    BY <1>6 DEF Read
  <2> DEFINE p == pending[k][i].player
  <2>2. p \in Players /\ pending[k][i] = Request(p) /\ Waiting(p)
    BY <1>1, <2>1, EntryFacts DEF Live
  <2>3. UNCHANGED <<pc, conn, asked, observed>>
    BY <1>6 DEF Read, requestVars, decisionVars
  <2>4. \A j \in Connections, h \in RequestIds :
          pending'[j][h] = IF j = k /\ h = i THEN None ELSE pending[j][h]
    BY <1>1, <2>1 DEF TypeOK
  <2>5. reply' = [reply EXCEPT ![p] = [id |-> i, action |-> a]]
    BY <2>1, <2>2
  <2> HIDE DEF p
  <2>6. \A q \in Players : Request(q)' = Request(q) /\ (Waiting(q) <=> Waiting(q)')
    BY <2>3 DEF Request, Waiting
  <2>7. PendingIsLive'
    <3>1. ASSUME NEW j \in Connections, NEW h \in RequestIds, NEW r,
                 pending'[j][h] = r, r # None
          PROVE  Live(r, j, h)'
      <4>1. pending[j][h] = r
        BY <2>4, <3>1
      <4>2. Live(r, j, h)
        BY <1>1, <3>1, <4>1, EntryFacts
      <4> QED BY <2>3, <2>6, <4>2 DEF Live
    <3> QED BY <3>1, LiveSuffices
  <2>8. ASSUME NEW q \in Players
        PROVE  Answered(q)'
    <3>1. CASE q = p
      <4>1. ~SenderAlive(q)'
        <5>1. Request(q) # None /\ Request(q).player = q
          BY <1>1, RequestType
        <5>2. \A j \in Connections, h \in RequestIds :
                pending[j][h] = Request(q) => conn[q] = j /\ asked[q] = h
          BY <1>1, <5>1, EntryFacts DEF Live
        <5>3. conn[q] = k /\ asked[q] = i
          BY <2>1, <2>2, <3>1, <5>2
        <5> QED BY <2>4, <2>6, <5>1, <5>2, <5>3 DEF SenderAlive
      <4> QED BY <2>2, <2>6, <3>1, <4>1 DEF Answered
    <3>2. CASE q # p
      <4>1. reply'[q] = reply[q]
        BY <1>1, <2>5, <3>2 DEF TypeOK
      <4>2. Request(q) # None
        BY <1>1, RequestType
      <4>3. SenderAlive(q)' => SenderAlive(q)
        BY <2>4, <2>6, <4>2 DEF SenderAlive
      <4> QED BY <1>1, <2>6, <4>1, <4>3 DEF Answered
    <3> QED BY <3>1, <3>2
  <2> QED BY <2>7, <2>8
<1>7. ASSUME NEW k \in Connections,
             Register(k) \/ Accept(k) \/ AcceptFails(k) \/ Forward(k) \/ Break(k) \/ Unregister(k)
      PROVE  PendingIsLive' /\ \A q \in Players : Answered(q)'
  <2>1. UNCHANGED <<pc, pending, reply, conn, asked, observed>>
    BY <1>7 DEF Register, Accept, AcceptFails, Forward, Break, Unregister, requestVars,
                decisionVars
  <2> QED BY <2>1, SameRequests DEF Waiting
<1>8. CASE UNCHANGED vars
  BY <1>8, SameRequests DEF Waiting, vars, requestVars, decisionVars
<1> QED
  BY <1>2, <1>3, <1>4, <1>5, <1>6, <1>7, <1>8, StepCases DEF Handle


-------------------------------------------------------------------------------
(* The registry.                                                           *)

\* A player's step leaves the registry and the handlers alone.
LEMMA PlayersLeaveHandlers ==
  ASSUME NEW p \in Players,
         Join(p) \/ Asked(p) \/ Insert(p) \/ Sent(p) \/ Ended(p) \/ TimesOut(p)
  PROVE  UNCHANGED <<registry, handler, known>>
BY DEF Join, Asked, Insert, Sent, Send, Ended, TimesOut, connectionVars

LEMMA RegistryStep ==
  ASSUME IInv, [Next]_vars
  PROVE  RegisteredIsServed' /\ RegisteredInOrder'
<1>1. /\ registry \in Connections \cup {NoConnection}
      /\ handler \in [Connections ->
                       {"unused", "accepting", "open", "leaving", "ended", "refused"}]
      /\ RegisteredIsServed
      /\ RegisteredInOrder
      /\ MaxConnections \in Nat
  BY AgentAssumption DEF IInv, TypeOK
<1>2. CASE UNCHANGED <<registry, handler>>
  BY <1>1, <1>2 DEF RegisteredIsServed, RegisteredInOrder
<1>3. ASSUME NEW k \in Connections, Register(k)
      PROVE  RegisteredIsServed' /\ RegisteredInOrder'
  <2>1. registry' = k /\ handler' = [handler EXCEPT ![k] = "accepting"]
        /\ \A j \in 1..(k - 1) : handler[j] # "unused"
    BY <1>3 DEF Register
  <2>2. RegisteredIsServed'
    BY <1>1, <2>1 DEF RegisteredIsServed
  <2>3. RegisteredInOrder'
    BY <1>1, <2>1 DEF RegisteredInOrder
  <2> QED BY <2>2, <2>3
<1>4. ASSUME NEW k \in Connections, Accept(k) \/ AcceptFails(k) \/ Break(k)
      PROVE  RegisteredIsServed' /\ RegisteredInOrder'
  <2>1. PICK w \in {"open", "refused", "leaving"} :
          registry' = registry /\ handler' = [handler EXCEPT ![k] = w]
          /\ handler[k] # "unused"
    BY <1>4 DEF Accept, AcceptFails, Break
  <2>2. RegisteredIsServed'
    BY <1>1, <2>1 DEF RegisteredIsServed
  <2>3. RegisteredInOrder'
    BY <1>1, <2>1 DEF RegisteredInOrder
  <2> QED BY <2>2, <2>3
<1>5. ASSUME NEW k \in Connections, Unregister(k)
      PROVE  RegisteredIsServed' /\ RegisteredInOrder'
  <2>1. /\ registry' = IF registry = k THEN NoConnection ELSE registry
        /\ handler' = [handler EXCEPT ![k] = "ended"]
        /\ handler[k] # "unused"
    BY <1>5 DEF Unregister
  <2>2. RegisteredIsServed'
    BY <1>1, <2>1 DEF RegisteredIsServed
  <2>3. RegisteredInOrder'
    BY <1>1, <2>1 DEF RegisteredInOrder
  <2> QED BY <2>2, <2>3
<1>6. ASSUME NEW k \in Connections, Forward(k) \/ Read(k)
      PROVE  UNCHANGED <<registry, handler>>
  BY <1>6 DEF Forward, Read, connectionVars
<1>7. UNCHANGED vars => UNCHANGED <<registry, handler>>
  BY DEF vars, connectionVars
<1> QED
  BY <1>2, <1>3, <1>4, <1>5, <1>6, <1>7, StepCases, PlayersLeaveHandlers DEF Handle

-------------------------------------------------------------------------------
(* Choices.                                                                *)

LEMMA ChoiceStep ==
  ASSUME IInv, [Next]_vars
  PROVE  ChoiceIsLegal'
<1>1. TypeOK /\ ChoiceIsLegal /\ \A p \in Players : Progress(p)
  BY DEF IInv
<1>2. CASE UNCHANGED <<pc, decided, choice, decision>>
  BY <1>1, <1>2 DEF ChoiceIsLegal
<1>3. ASSUME NEW p \in Players, Join(p) \/ Insert(p) \/ Sent(p) \/ TimesOut(p)
      PROVE  ChoiceIsLegal'
  <2>1. UNCHANGED <<decided, choice, decision>>
    BY <1>3 DEF Join, Insert, Sent, Send, TimesOut, decisionVars
  <2>2. \A q \in Players : pc'[q] = "idle" => pc[q] = "idle" \/ decided[q] = 0
    BY <1>1, <1>3 DEF Join, Insert, Sent, Send, TimesOut, TypeOK, Progress
  <2>3. \A q \in Players : decided[q] \in Nat
    BY <1>1 DEF TypeOK
  <2> QED BY <1>1, <2>1, <2>2, <2>3 DEF ChoiceIsLegal
<1>4. ASSUME NEW p \in Players, NEW d, Made(p, d), decision'[p] = d, OthersUntouched(p),
             \A q \in Players \ {p} : decision'[q] = decision[q]
      PROVE  ChoiceIsLegal'
  BY <1>1, <1>4 DEF ChoiceIsLegal, Made, OthersUntouched
<1>5. ASSUME NEW p \in Players, pc'[p] = "insert", OthersUntouched(p),
             \A q \in Players \ {p} : decision'[q] = decision[q]
      PROVE  ChoiceIsLegal'
  BY <1>1, <1>5 DEF ChoiceIsLegal, OthersUntouched
<1>6. ASSUME NEW p \in Players, Asked(p)
      PROVE  ChoiceIsLegal'
  <2>1. PICK d \in [id : DecisionIds, options : Options] :
          /\ decision' = [decision EXCEPT ![p] = d]
          /\ Made(p, d) \/ Requested(p) \/ AnalysisRequested(p)
    BY <1>6 DEF Asked
  <2>2. decision'[p] = d /\ \A q \in Players \ {p} : decision'[q] = decision[q]
    BY <1>1, <2>1 DEF TypeOK
  <2>3. OthersUntouched(p)
    BY <1>6 DEF Asked
  <2> QED BY <1>4, <1>5, <2>1, <2>2, <2>3 DEF Requested, AnalysisRequested
<1>7. ASSUME NEW p \in Players, Ended(p)
      PROVE  ChoiceIsLegal'
  BY <1>4, <1>5, <1>7 DEF Ended, Requested
<1>8. ASSUME NEW k \in Connections, Handle(k)
      PROVE  UNCHANGED <<pc, decided, choice, decision>>
  BY <1>8 DEF Handle, Register, Accept, AcceptFails, Forward, Read, Break, Unregister,
              decisionVars
<1>9. UNCHANGED vars => UNCHANGED <<pc, decided, choice, decision>>
  BY DEF vars, decisionVars
<1> QED BY <1>2, <1>3, <1>6, <1>7, <1>8, <1>9, StepCases

-------------------------------------------------------------------------------
(* Observations.                                                           *)

\* The observations of a player only grow.
ObservedGrows ==
  \A p \in Players :
    /\ Len(observed[p]) <= Len(observed'[p])
    /\ \A i \in 1..Len(observed[p]) : observed'[p][i] = observed[p][i]

LEMMA ObservedStep ==
  ASSUME IInv, [Next]_vars
  PROVE  ObservedGrows
<1>1. \A p \in Players : observed[p] \in Seq(Documents) /\ Len(observed[p]) \in Nat
  BY DEF IInv, TypeOK
<1>2. ASSUME NEW p \in Players,
             \/ observed'[p] = observed[p]
             \/ \E o \in Documents : observed'[p] = Append(observed[p], o)
      PROVE  /\ Len(observed[p]) <= Len(observed'[p])
             /\ \A i \in 1..Len(observed[p]) : observed'[p][i] = observed[p][i]
  BY <1>1, <1>2
<1>3. ASSUME NEW p \in Players, Asked(p) \/ Ended(p)
      PROVE  ObservedGrows
  <2>1. \A q \in Players \ {p} : observed'[q] = observed[q]
    BY <1>3 DEF Asked, Ended, OthersUntouched
  <2>2. \/ observed'[p] = observed[p]
        \/ \E o \in Documents : observed'[p] = Append(observed[p], o)
    BY <1>3 DEF Asked, Ended, Requested, Made, AnalysisRequested
  <2> QED BY <1>2, <2>1, <2>2 DEF ObservedGrows
<1>4. CASE observed' = observed
  BY <1>2, <1>4 DEF ObservedGrows
<1>5. ASSUME NEW p \in Players, Join(p) \/ Insert(p) \/ Sent(p) \/ TimesOut(p)
      PROVE  observed' = observed
  BY <1>5 DEF Join, Insert, Sent, Send, TimesOut, decisionVars
<1>6. ASSUME NEW k \in Connections, Handle(k)
      PROVE  observed' = observed
  BY <1>6 DEF Handle, Register, Accept, AcceptFails, Forward, Read, Break, Unregister,
              decisionVars
<1>7. UNCHANGED vars => observed' = observed
  BY DEF vars, decisionVars
<1> QED BY <1>3, <1>4, <1>5, <1>6, <1>7, StepCases

\* What is faithful stays so.
LEMMA FaithfulKept ==
  ASSUME TypeOK, TypeOK', ObservedGrows, NEW p \in Players, NEW u \in Updates, Faithful(p, u)
  PROVE  Faithful(p, u)'
<1>1. /\ Len(observed[p]) \in Nat /\ Len(observed'[p]) \in Nat
      /\ Len(observed[p]) <= Len(observed'[p])
      /\ \A i \in 1..Len(observed[p]) : observed'[p][i] = observed[p][i]
      /\ u.sequence \in Nat
  BY DEF TypeOK, ObservedGrows, Updates
<1> QED BY <1>1 DEF Faithful

\* A reader that applies a faithful update has the observation it is of.
LEMMA AppliedReconstructs ==
  ASSUME TypeOK, NEW p \in Players, NEW u \in Updates, Faithful(p, u),
         NEW last \in [sequence : Nat, document : Documents],
         last.sequence > 0 =>
           /\ last.sequence <= Len(observed[p])
           /\ Known(last.document) = Known(observed[p][last.sequence])
  PROVE  LET a == Applied(last, u) IN
           a.sequence > 0 =>
             /\ a.sequence <= Len(observed[p])
             /\ Known(a.document) = Known(observed[p][a.sequence])
<1>1. /\ Len(observed[p]) \in Nat /\ last.sequence \in Nat /\ u.sequence \in Nat
      /\ \A i \in 1..Len(observed[p]) : observed[p][i] \in Documents
      /\ u.kind \in {"full", "delta"} /\ last.document \in Documents
  BY DEF TypeOK, Updates
<1>2. CASE u.kind = "full"
  <2>1. Applied(last, u) = [sequence |-> u.sequence, document |-> u.document]
    BY <1>2 DEF Applied
  <2>2. u.sequence <= Len(observed[p]) /\ u.document = observed[p][u.sequence]
    BY <1>1, <1>2 DEF Faithful
  <2> QED BY <2>1, <2>2
<1>3. CASE u.kind = "delta" /\ u.sequence = last.sequence + 1
  <2>1. Applied(last, u) = [sequence |-> u.sequence,
                            document |-> ApplyMergePatch(last.document, u.document)]
    BY <1>3 DEF Applied
  <2>2. /\ u.sequence - 1 = last.sequence
        /\ last.sequence \in 1..Len(observed[p]) /\ u.sequence \in 1..Len(observed[p])
        /\ u.document = MergePatch(observed[p][last.sequence], observed[p][u.sequence])
    BY <1>1, <1>3 DEF Faithful
  <2>3. Known(last.document) = Known(observed[p][last.sequence])
    BY <1>1, <2>2
  <2>4. Known(ApplyMergePatch(last.document, u.document)) = Known(observed[p][u.sequence])
    BY <1>1, <2>2, <2>3, PatchReconstructs
  <2> QED BY <1>1, <2>1, <2>2, <2>4
<1>4. CASE u.kind = "delta" /\ u.sequence # last.sequence + 1
  BY <1>4 DEF Applied
<1> QED BY <1>1, <1>2, <1>3, <1>4


\* The messages of a channel, after a step that only takes some away.
LEMMA ChannelFaithful ==
  ASSUME TypeOK, NEW k \in Connections, NEW i \in 1..Len(outgoing[k])
  PROVE  outgoing[k][i].player \in Players /\ outgoing[k][i].update \in Updates
<1>1. outgoing[k] \in Seq(Message)
  BY ChannelType
<1>2. outgoing[k][i] \in Message
  BY <1>1
<1> QED BY <1>2 DEF Message

LEMMA FaithfulStep ==
  ASSUME IInv, [Next]_vars
  PROVE  MessagesFaithful'
<1>1. /\ TypeOK /\ TypeOK' /\ ObservedGrows /\ MessagesFaithful
      /\ \A p \in Players : Progress(p)
  BY TypeStep, ObservedStep DEF IInv
<1>2. ASSUME NEW k \in Connections, NEW i \in 1..Len(outgoing[k])
      PROVE  Faithful(outgoing[k][i].player, outgoing[k][i].update)
  BY <1>1, <1>2 DEF MessagesFaithful
<1>3. ASSUME \A k \in Connections : \A i \in 1..Len(outgoing'[k]) :
               \E p \in Players, u \in Updates :
                 outgoing'[k][i].player = p /\ outgoing'[k][i].update = u /\ Faithful(p, u)
      PROVE  MessagesFaithful'
  <2> SUFFICES ASSUME NEW k \in Connections, NEW i \in 1..Len(outgoing'[k])
               PROVE  Faithful(outgoing[k][i].player, outgoing[k][i].update)'
    BY DEF MessagesFaithful
  <2>1. PICK p \in Players, u \in Updates :
          outgoing'[k][i].player = p /\ outgoing'[k][i].update = u /\ Faithful(p, u)
    BY <1>3
  <2>2. Faithful(p, u)'
    BY <1>1, <2>1, FaithfulKept
  <2> QED BY <2>1, <2>2 DEF Faithful
<1>4. ASSUME NEW k \in Connections, NEW i \in 1..Len(outgoing[k])
      PROVE  \E p \in Players, u \in Updates :
               outgoing[k][i].player = p /\ outgoing[k][i].update = u /\ Faithful(p, u)
  BY <1>1, <1>2, <1>4, ChannelFaithful
<1>5. CASE outgoing' = outgoing
  BY <1>3, <1>4, <1>5
<1>6. ASSUME NEW p \in Players, Sent(p)
      PROVE  MessagesFaithful'
  <2>1. conn[p] \in Connections /\ Busy(p)
    BY <1>1, <1>6 DEF Sent, Send, Progress, Busy
  <2>2. outgoing' = [outgoing EXCEPT ![conn[p]] = @ \o Messages(p)]
    BY <1>6 DEF Sent, Send
  <2>3. \A k \in Connections : outgoing'[k] =
          IF k = conn[p] THEN outgoing[k] \o Messages(p) ELSE outgoing[k]
    BY <1>1, <2>2, ChannelType
  <2>4. CASE asked[p] = p
    <3>1. \A k \in Connections : outgoing'[k] = outgoing[k]
      BY <1>1, <2>3, <2>4, ChannelType DEF Messages
    <3> QED BY <1>3, <1>4, <3>1
  <2>5. CASE asked[p] # p
    <3>1. Update(p) \in Updates /\ Faithful(p, Update(p))
      BY <1>1, <2>1, <2>5, UpdateType
    <3>2. Messages(p) = <<[player |-> p, update |-> Update(p)]>>
      BY <2>5 DEF Messages
    <3>3. ASSUME NEW k \in Connections, NEW i \in 1..Len(outgoing'[k])
          PROVE  \/ i \in 1..Len(outgoing[k]) /\ outgoing'[k][i] = outgoing[k][i]
                 \/ outgoing'[k][i] = [player |-> p, update |-> Update(p)]
      <4>1. outgoing[k] \in Seq(Message)
        BY <1>1, ChannelType
      <4>2. CASE k = conn[p]
        <5>1. outgoing'[k] = outgoing[k] \o <<[player |-> p, update |-> Update(p)]>>
          BY <2>3, <3>2, <4>2
        <5> QED BY <4>1, <5>1, SentLast
      <4>3. CASE k # conn[p]
        BY <2>3, <4>3, <3>3
      <4> QED BY <4>2, <4>3
    <3> QED BY <1>3, <1>4, <3>1, <3>3
  <2> QED BY <2>4, <2>5
<1>7. ASSUME NEW k \in Connections, AcceptFails(k) \/ Unregister(k)
      PROVE  MessagesFaithful'
  <2>1. outgoing' = [outgoing EXCEPT ![k] = <<>>]
    BY <1>7 DEF AcceptFails, Unregister
  <2>2. \A j \in Connections : outgoing'[j] = IF j = k THEN <<>> ELSE outgoing[j]
    BY <1>1, <2>1, ChannelType
  <2>3. ASSUME NEW j \in Connections, NEW i \in 1..Len(outgoing'[j])
        PROVE  i \in 1..Len(outgoing[j]) /\ outgoing'[j][i] = outgoing[j][i]
    BY <2>2, <2>3
  <2> QED BY <1>3, <1>4, <2>3
<1>8. ASSUME NEW k \in Connections, Forward(k)
      PROVE  MessagesFaithful'
  <2>1. /\ outgoing' = [outgoing EXCEPT ![k] = Tail(@)]
        /\ outgoing[k] # <<>>
    BY <1>8 DEF Forward
  <2>2. \A j \in Connections : outgoing[j] \in Seq(Message)
    BY <1>1, ChannelType
  <2>3. \A j \in Connections : outgoing'[j] = IF j = k THEN Tail(outgoing[k]) ELSE outgoing[j]
    BY <1>1, <2>1, ChannelType
  <2>4. ASSUME NEW j \in Connections, NEW i \in 1..Len(outgoing'[j])
        PROVE  \E h \in 1..Len(outgoing[j]) : outgoing'[j][i] = outgoing[j][h]
    <3>1. CASE j = k
      <4>1. outgoing'[j] = Tail(outgoing[j]) /\ outgoing[j] # <<>>
        BY <2>1, <2>3, <3>1
      <4>2. i + 1 \in 1..Len(outgoing[j]) /\ outgoing'[j][i] = outgoing[j][i + 1]
        BY <2>2, <4>1, <2>4
      <4> QED BY <4>2
    <3>2. CASE j # k
      BY <2>3, <2>4, <3>2
    <3> QED BY <3>1, <3>2
  <2>5. ASSUME NEW j \in Connections, NEW i \in 1..Len(outgoing'[j])
        PROVE  \E p \in Players, u \in Updates :
                 outgoing'[j][i].player = p /\ outgoing'[j][i].update = u /\ Faithful(p, u)
    <3>1. PICK h \in 1..Len(outgoing[j]) : outgoing'[j][i] = outgoing[j][h]
      BY <2>4, <2>5
    <3> QED BY <1>4, <3>1
  <2> QED BY <1>3, <2>5
<1>9. ASSUME NEW p \in Players, Join(p) \/ Asked(p) \/ Insert(p) \/ Ended(p) \/ TimesOut(p)
      PROVE  outgoing' = outgoing
  BY <1>9 DEF Join, Asked, Insert, Ended, TimesOut
<1>10. ASSUME NEW k \in Connections, Register(k) \/ Accept(k) \/ Read(k) \/ Break(k)
       PROVE  outgoing' = outgoing
  BY <1>10 DEF Register, Accept, Read, Break
<1>11. UNCHANGED vars => outgoing' = outgoing
  BY DEF vars
<1> QED
  BY <1>5, <1>6, <1>7, <1>8, <1>9, <1>10, <1>11, StepCases DEF Handle

\* What the agent has of a player, whatever the record.
Reconstructed(p, last) ==
  last.sequence > 0 =>
    /\ last.sequence <= Len(observed[p])
    /\ Known(last.document) = Known(observed[p][last.sequence])

LEMMA ReconstructStep ==
  ASSUME IInv, [Next]_vars
  PROVE  UpdatesReconstruct'
<1>1. /\ TypeOK /\ TypeOK' /\ ObservedGrows /\ MessagesFaithful
      /\ known \in [Connections -> [Players -> [sequence : Nat, document : Documents]]]
  BY TypeStep, ObservedStep DEF IInv, TypeOK
<1>2. \A k \in Connections, p \in Players : Reconstructed(p, known[k][p])
  BY DEF IInv, UpdatesReconstruct, Reconstructed
<1>3. ASSUME NEW p \in Players, NEW last \in [sequence : Nat, document : Documents],
             Reconstructed(p, last)
      PROVE  Reconstructed(p, last)'
  <2>1. /\ Len(observed[p]) \in Nat /\ Len(observed'[p]) \in Nat
        /\ Len(observed[p]) <= Len(observed'[p])
        /\ \A i \in 1..Len(observed[p]) : observed'[p][i] = observed[p][i]
    BY <1>1 DEF TypeOK, ObservedGrows
  <2> QED BY <1>3, <2>1 DEF Reconstructed
<1>4. ASSUME \A k \in Connections, p \in Players :
               \E last \in [sequence : Nat, document : Documents] :
                 known'[k][p] = last /\ Reconstructed(p, last)
      PROVE  UpdatesReconstruct'
  <2> SUFFICES ASSUME NEW k \in Connections, NEW p \in Players
               PROVE  Reconstructed(p, known[k][p])'
    BY DEF UpdatesReconstruct, Reconstructed
  <2>1. PICK last \in [sequence : Nat, document : Documents] :
          known'[k][p] = last /\ Reconstructed(p, last)
    BY <1>4
  <2>2. Reconstructed(p, last)'
    BY <1>3, <2>1
  <2> QED BY <2>1, <2>2 DEF Reconstructed
<1>5. \A k \in Connections, p \in Players :
        known[k][p] \in [sequence : Nat, document : Documents]
  BY <1>1
<1>6. CASE known' = known
  BY <1>2, <1>4, <1>5, <1>6
<1>7. ASSUME NEW k \in Connections, Forward(k)
      PROVE  UpdatesReconstruct'
  <2> DEFINE m == Head(outgoing[k])
  <2>1. 1 \in 1..Len(outgoing[k]) /\ m = outgoing[k][1]
    <3>1. outgoing[k] \in Seq(Message) /\ outgoing[k] # <<>>
      BY <1>1, <1>7, ChannelType DEF Forward
    <3> QED BY <3>1
  <2>2. known' = [known EXCEPT ![k][m.player] = Applied(@, m.update)]
    BY <1>7 DEF Forward
  <2>3. m.player \in Players /\ m.update \in Updates /\ Faithful(m.player, m.update)
    BY <1>1, <2>1, ChannelFaithful DEF MessagesFaithful
  <2> HIDE DEF m
  <2>4. \A j \in Connections, q \in Players :
          known'[j][q] = IF j = k /\ q = m.player THEN Applied(known[j][q], m.update)
                         ELSE known[j][q]
    BY <1>1, <2>2, <2>3
  <2>5. /\ Applied(known[k][m.player], m.update) \in [sequence : Nat, document : Documents]
        /\ Reconstructed(m.player, Applied(known[k][m.player], m.update))
    BY <1>1, <1>2, <1>5, <2>3, AppliedType, AppliedReconstructs DEF Reconstructed
  <2> QED BY <1>2, <1>4, <1>5, <2>3, <2>4, <2>5
<1>8. ASSUME NEW k \in Connections, Unregister(k)
      PROVE  UpdatesReconstruct'
  <2>1. known' = [known EXCEPT ![k] = KnowsNothing]
    BY <1>8 DEF Unregister
  <2> DEFINE nothing == [sequence |-> 0, document |-> NoMembers]
  <2>2. nothing \in [sequence : Nat, document : Documents]
    BY EmptyDocument
  <2>3. \A p \in Players : Reconstructed(p, nothing)
    BY DEF Reconstructed
  <2>4. \A j \in Connections, q \in Players :
          known'[j][q] = IF j = k THEN nothing ELSE known[j][q]
    BY <1>1, <2>1 DEF KnowsNothing
  <2> HIDE DEF nothing
  <2> QED BY <1>2, <1>4, <1>5, <2>2, <2>3, <2>4
<1>9. ASSUME NEW k \in Connections,
             Register(k) \/ Accept(k) \/ AcceptFails(k) \/ Read(k) \/ Break(k)
      PROVE  known' = known
  BY <1>9 DEF Register, Accept, AcceptFails, Read, Break, connectionVars
<1>10. UNCHANGED vars => known' = known
  BY DEF vars, connectionVars
<1> QED
  BY <1>6, <1>7, <1>8, <1>9, <1>10, StepCases, PlayersLeaveHandlers DEF Handle

-------------------------------------------------------------------------------
(* The theorems.                                                           *)

LEMMA InitInvariant == Init => IInv
<1> SUFFICES ASSUME Init
             PROVE  IInv
  OBVIOUS
<1>1. TypeOK
  BY EmptyDocument, AgentAssumption DEF Init, TypeOK, KnowsNothing
<1>2. \A p \in Players : Progress(p)
  BY DEF Init, Progress, Busy
<1>3. \A p \in Players : Answered(p)
  BY DEF Init, Answered
<1>4. PendingIsLive
  BY DEF Init, PendingIsLive
<1>5. RegisteredIsServed /\ RegisteredInOrder
  BY DEF Init, RegisteredIsServed, RegisteredInOrder
<1>6. ChoiceIsLegal
  BY DEF Init, ChoiceIsLegal
<1>7. MessagesFaithful
  BY DEF Init, MessagesFaithful
<1>8. UpdatesReconstruct
  BY DEF Init, UpdatesReconstruct, KnowsNothing
<1> QED BY <1>1, <1>2, <1>3, <1>4, <1>5, <1>6, <1>7, <1>8 DEF IInv

LEMMA Invariant == Spec => []IInv
<1>1. IInv /\ [Next]_vars => IInv'
  BY TypeStep, ProgressStep, PendingStep, RegistryStep, ChoiceStep, FaithfulStep,
     ReconstructStep DEF IInv
<1> QED BY InitInvariant, <1>1, PTL DEF Spec

\* The types, the bound on a player's decisions, and that a decision is asked of
\* an agent at most once.
THEOREM TypeCorrect == Spec => []TypeOK
<1>1. IInv => TypeOK
  BY DEF IInv
<1> QED BY <1>1, Invariant, PTL

\* No entry is left in the map of pending requests: AgentConnection::request.
THEOREM PendingLive == Spec => []PendingIsLive
<1>1. IInv => PendingIsLive
  BY DEF IInv
<1> QED BY <1>1, Invariant, PTL

\* Only a connection with a handler, or one that could not be accepted, is
\* registered.
THEOREM RegisteredServed == Spec => []RegisteredIsServed
<1>1. IInv => RegisteredIsServed
  BY DEF IInv
<1> QED BY <1>1, Invariant, PTL

\* Decisions are among the options offered: WebSocketAgent::choose and the fallback.
THEOREM ChoiceLegal == Spec => []ChoiceIsLegal
<1>1. IInv => ChoiceIsLegal
  BY DEF IInv
<1> QED BY <1>1, Invariant, PTL

\* The agent's documents are the observations: observation_update.
THEOREM Reconstructs == Spec => []UpdatesReconstruct
<1>1. IInv => UpdatesReconstruct
  BY DEF IInv
<1> QED BY <1>1, Invariant, PTL

\* A stale connection never unregisters its replacement: unregister_connection.
THEOREM StaleKeepsOut == Spec => StaleCannotUnregister
<1>1. IInv /\ [Next]_vars =>
        [registry' # registry /\ registry # NoConnection =>
           registry' > registry \/ handler[registry] = "leaving"]_vars
  <2> SUFFICES ASSUME IInv, [Next]_vars, registry' # registry, registry # NoConnection
               PROVE  registry' > registry \/ handler[registry] = "leaving"
    OBVIOUS
  <2>1. /\ registry \in Connections /\ handler[registry] # "unused"
        /\ RegisteredInOrder /\ MaxConnections \in Nat
    BY AgentAssumption DEF IInv, TypeOK, RegisteredIsServed
  <2>2. PICK k \in Connections : Register(k) \/ Unregister(k)
    <3>1. ASSUME NEW k \in Connections, Handle(k)
          PROVE  Register(k) \/ Unregister(k)
      BY <3>1 DEF Handle, Accept, AcceptFails, Forward, Read, Break, connectionVars
    <3>2. ~ UNCHANGED vars
      BY DEF vars
    <3> QED BY <3>1, <3>2, StepCases, PlayersLeaveHandlers
  <2>3. CASE Register(k)
    <3>1. registry' = k /\ handler[k] = "unused" /\ k # registry
      BY <2>1, <2>3 DEF Register
    <3>2. ~(k < registry)
      BY <2>1, <3>1 DEF RegisteredInOrder
    <3> QED BY <2>1, <3>1, <3>2
  <2>4. CASE Unregister(k)
    BY <2>4 DEF Unregister
  <2> QED BY <2>2, <2>3, <2>4
<1> QED BY <1>1, Invariant, PTL DEF Spec, StaleCannotUnregister

\* A request loses its entry only to its own end or a rival: AgentConnection::request.
THEOREM OnlyRivalsTake == Spec => LostOnlyToRival
<1>1. IInv /\ [Next]_vars =>
        [\A p \in Players, k \in Connections, i \in RequestIds :
           pending[k][i] = Request(p) /\ pending'[k][i] # Request(p) =>
             \/ reply'[p] # None
             \/ pc[p] \in {"send", "cleanup"}
             \/ \E q \in Players \ {p} : conn[q] = k /\ asked[q] = i]_vars
  <2> SUFFICES ASSUME IInv, Next,
                      NEW p \in Players, NEW k \in Connections, NEW i \in RequestIds,
                      pending[k][i] = Request(p), pending'[k][i] # Request(p),
                      \A q \in Players \ {p} : ~(conn[q] = k /\ asked[q] = i)
               PROVE  reply'[p] # None \/ pc[p] \in {"send", "cleanup"}
    <3>1. UNCHANGED vars => pending' = pending
      BY DEF vars
    <3> QED BY <3>1
  <2>1. TypeOK /\ Request(p).player = p /\ Request(p) # None
    BY RequestType DEF IInv
  <2>2. pending \in [Connections -> [RequestIds -> Requests \cup {None}]]
        /\ conn \in [Players -> Connections \cup {NoConnection}]
        /\ asked \in [Players -> RequestIds]
        /\ reply \in [Players -> [id : RequestIds, action : Actions] \cup {None}]
    BY DEF IInv, TypeOK
  <2>3. ASSUME NEW q \in Players, Insert(q)
        PROVE  FALSE
    <3>1. pending' = [pending EXCEPT ![conn[q]][asked[q]] = Request(q)]
      BY <2>3 DEF Insert
    <3>2. q # p
      BY <2>2, <3>1
    <3> QED BY <2>2, <3>1, <3>2
  <2>4. ASSUME NEW q \in Players, Send(q) \/ CleanUp(q)
        PROVE  pc[p] \in {"send", "cleanup"}
    <3>1. \/ pending' = pending
          \/ pending' = [pending EXCEPT ![conn[q]][asked[q]] = None]
      BY <2>4 DEF Send, CleanUp
    <3>2. conn[q] = k /\ asked[q] = i
      <4>1. pending' = [pending EXCEPT ![conn[q]][asked[q]] = None]
        BY <3>1
      <4>2. ~(conn[q] = k /\ asked[q] = i) => pending'[k][i] = pending[k][i]
        BY <2>2, <4>1
      <4> QED BY <4>2
    <3>3. q = p
      BY <3>2
    <3> QED BY <2>4, <3>3 DEF Send, CleanUp
  <2>5. ASSUME NEW j \in Connections, Read(j)
        PROVE  reply'[p] # None
    <3>1. PICK h \in RequestIds, a \in Actions :
            /\ pending' = [pending EXCEPT ![j][h] = None]
            /\ reply' = IF pending[j][h] = Request(pending[j][h].player)
                        THEN [reply EXCEPT ![pending[j][h].player] = [id |-> h, action |-> a]]
                        ELSE reply
      BY <2>5 DEF Read
    <3>2. j = k /\ h = i
      BY <2>2, <3>1
    <3>3. reply' = [reply EXCEPT ![p] = [id |-> h, action |-> a]]
      BY <2>1, <3>1, <3>2
    <3> QED BY <2>2, <3>3, AgentAssumption
  <2>6. ASSUME NEW q \in Players,
               Join(q) \/ Ask(q) \/ Receive(q) \/ ChannelCloses(q) \/ TimesOut(q)
        PROVE  FALSE
    BY <2>6 DEF Join, Ask, Receive, ChannelCloses, TimesOut
  <2>7. ASSUME NEW j \in Connections,
               Register(j) \/ Accept(j) \/ AcceptFails(j) \/ Forward(j) \/ Break(j)
                 \/ Unregister(j)
        PROVE  FALSE
    BY <2>7 DEF Register, Accept, AcceptFails, Forward, Break, Unregister
  <2> QED
    BY <2>3, <2>4, <2>5, <2>6, <2>7 DEF Next, Continue, Handle
<1> QED BY <1>1, Invariant, PTL DEF Spec, LostOnlyToRival

================================================================================
