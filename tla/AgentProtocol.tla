----------------------------- MODULE AgentProtocol -----------------------------
(***************************************************************************)
(* External agents of src/agent_protocol.rs: the registry of websocket     *)
(* connections under one agent id, the handler thread of each connection,  *)
(* and the players of that agent (WebSocketAgent), each asked by the       *)
(* thread of its own game session.                                         *)
(*                                                                         *)
(* A player looks up the connection that is registered, asks once for an   *)
(* analysis of the starting situation, and then for its decisions.  Each   *)
(* request waits for the reply with its id until a deadline; whatever goes *)
(* wrong, the session decides at random.  A decision carries the           *)
(* observation of the player, in full or as a patch of the one before.     *)
(*                                                                         *)
(* The agent program is outside the code: it may reply late, twice,        *)
(* without being asked and with anything.  It is modelled as a reader that *)
(* applies a patch when the numbers say that it follows what it has.       *)
(***************************************************************************)
EXTENDS ObservationDelta, Naturals, Sequences

CONSTANTS
  Players,            \* the players of the agent, in one session or several
  DecisionIds,        \* the ids of decisions: they recur, also between sessions
  Actions,            \* the ids of actions
  UIActions,          \* those not is_agent_selectable: revisions of the interface
  Options,            \* the sets of actions that a decision may offer
  None,               \* no action, no request, no reply, no decision
  Observations,       \* player -> the observations it may have
  MaxConnections,     \* bound: connections that agents open
  ObservationStream,  \* connection -> the stream it registers with
  MaxDecisions        \* bound: decisions of one player

Requests == [player : Players, number : Nat]
RequestIds == DecisionIds \cup Players

\* The id of the analysis of the starting situation names its context, which
\* no other player shares: the player stands for it.
ASSUME AgentAssumption ==
  /\ Players \cap DecisionIds = {}
  /\ None \notin Actions \cup Requests
  /\ None \notin [id : RequestIds, action : Actions]
  /\ None \notin [id : DecisionIds, options : Options]
  /\ UIActions \subseteq Actions
  /\ Options \subseteq (SUBSET Actions) \ {{}}
  /\ Observations \in [Players -> SUBSET Documents]
  /\ MaxConnections \in Nat
  /\ ObservationStream \in [1..MaxConnections -> {"full", "delta"}]
  /\ MaxDecisions \in [Players -> Nat]

Connections == 1..MaxConnections
NoConnection == 0

VARIABLES
  registry,           \* the connection registered for the agent
  handler,            \* connection -> "unused", "accepting", "open", "leaving",
                      \* "ended", or "refused": ended without being unregistered
  outgoing,           \* connection -> the channel of messages to write, of
                      \* which only the observation updates are kept
  pending,            \* connection -> request id -> the request that waits, if any
  known,              \* connection -> player -> the last update the agent applied
                      \* there and the document it has
  pc,                 \* player -> "absent", "idle", "insert", "send", "wait", "cleanup"
  conn,               \* player -> the connection its request uses
  asked,              \* player -> the id of its request
  reply,              \* player -> what its channel holds for it
  decision,           \* player -> the decision it makes: its id and options
  analysed,           \* player -> starting_analysis_sent
  observed,           \* player -> its observations sent: the length is sequence,
                      \* the last one previous_observation
  decided,            \* player -> the number of its decisions made
  choice              \* player -> the action of the last one

connectionVars == <<handler, known>>
requestVars == <<conn, asked>>
decisionVars == <<decision, analysed, observed, decided, choice>>
vars == <<registry, connectionVars, outgoing, pending, pc, requestVars, reply, decisionVars>>

KnowsNothing == [p \in Players |-> [sequence |-> 0, document |-> NoMembers]]

Init ==
  /\ registry = NoConnection
  /\ handler = [k \in Connections |-> "unused"]
  /\ outgoing = [k \in Connections |-> <<>>]
  /\ pending = [k \in Connections |-> [i \in RequestIds |-> None]]
  /\ known = [k \in Connections |-> KnowsNothing]
  /\ pc = [p \in Players |-> "absent"]
  /\ conn = [p \in Players |-> NoConnection]
  /\ asked = [p \in Players |-> p]
  /\ reply = [p \in Players |-> None]
  /\ decision = [p \in Players |-> None]
  /\ analysed = [p \in Players |-> FALSE]
  /\ observed = [p \in Players |-> <<>>]
  /\ decided = [p \in Players |-> 0]
  /\ choice = [p \in Players |-> None]

\* The sender of the present request of p: each has a channel of its own, the
\* analysis number 0, a decision the number of its observation.
Request(p) == [player |-> p, number |-> Len(observed[p])]

-------------------------------------------------------------------------------
(* The thread of a session that asks an agent player.                      *)

\* WebSocketAgent::new refuses a controller that is not registered.
Join(p) ==
  /\ pc[p] = "absent"
  /\ registry # NoConnection
  /\ pc' = [pc EXCEPT ![p] = "idle"]
  /\ UNCHANGED <<registry, connectionVars, outgoing, pending, requestVars, reply, decisionVars>>

\* Mutant: the fallback answers only when there is no action.
DecideUnchecked(p, d, action) ==
  /\ choice' \in {[choice EXCEPT ![p] = a] :
                    a \in IF action # None THEN {action} ELSE d.options}
  /\ decided' = [decided EXCEPT ![p] = @ + 1]
  /\ pc' = [pc EXCEPT ![p] = "idle"]
  /\ conn' = [conn EXCEPT ![p] = NoConnection]
  /\ asked' = [asked EXCEPT ![p] = p]
  /\ UNCHANGED observed

\* InteractiveDecisionProvider::choose: the agent's action if it is one of the
\* options, the interface's among them, otherwise one that the fallback draws.
Decide(p, d, action) ==
  /\ choice' \in {[choice EXCEPT ![p] = a] :
                    a \in IF action \in d.options THEN {action} ELSE d.options}
  /\ decided' = [decided EXCEPT ![p] = @ + 1]
  /\ pc' = [pc EXCEPT ![p] = "idle"]
  /\ conn' = [conn EXCEPT ![p] = NoConnection]
  /\ asked' = [asked EXCEPT ![p] = p]
  /\ UNCHANGED observed

\* observation_update: the sequence and previous_observation move on before
\* the request is made, whatever becomes of it.
RequestDecision(p, k, d) ==
  /\ conn' = [conn EXCEPT ![p] = k]
  /\ \E o \in Observations[p] : observed' = [observed EXCEPT ![p] = Append(@, o)]
  /\ asked' = [asked EXCEPT ![p] = d.id]
  /\ pc' = [pc EXCEPT ![p] = "insert"]
  /\ UNCHANGED <<decided, choice>>

\* The analysis is asked for once, before the first decision; its id is p.
RequestAnalysis(p, k) ==
  /\ conn' = [conn EXCEPT ![p] = k]
  /\ pc' = [pc EXCEPT ![p] = "insert"]
  /\ UNCHANGED <<asked, observed, decided, choice>>

\* agent_facing: the options that the agent is shown
AgentFacing(d) == d.options \ UIActions

\* decide of the agent: a decision of the interface's actions only falls back
\* before anything is prepared; prepare looks the connection up, and without one
\* the decision falls back at once.
Ask(p) ==
  /\ pc[p] = "idle"
  /\ decided[p] < MaxDecisions[p]
  /\ \E d \in [id : DecisionIds, options : Options] :
       /\ decision' = [decision EXCEPT ![p] = d]
       /\ analysed' = [analysed EXCEPT ![p] =
                         @ \/ (AgentFacing(d) # {} /\ registry # NoConnection)]
       /\ IF AgentFacing(d) = {} \/ registry = NoConnection THEN Decide(p, d, None)
          ELSE IF analysed[p] THEN RequestDecision(p, registry, d)
          ELSE RequestAnalysis(p, registry)
  /\ UNCHANGED <<registry, connectionVars, outgoing, pending, reply>>

\* The observation update of a decision.
Update(p) ==
  LET n == Len(observed[p]) IN
  IF ObservationStream[conn[p]] = "delta" /\ n > 1
  THEN [kind |-> "delta", sequence |-> n,
        document |-> MergePatch(observed[p][n - 1], observed[p][n])]
  ELSE [kind |-> "full", sequence |-> n, document |-> observed[p][n]]

\* The messages of a request that carry an update: the analysis carries none.
Messages(p) ==
  IF asked[p] = p THEN <<>> ELSE <<[player |-> p, update |-> Update(p)]>>

\* AgentConnection::request, its three critical sections: the sender is
\* registered, whoever was registered under the id before ...
Insert(p) ==
  /\ pc[p] = "insert"
  /\ pending' = [pending EXCEPT ![conn[p]][asked[p]] = Request(p)]
  /\ pc' = [pc EXCEPT ![p] = "send"]
  /\ UNCHANGED <<registry, connectionVars, outgoing, requestVars, reply, decisionVars>>

\* Mutant: a decision without an answer is asked again.
EndRequestAgain(p, action) ==
  /\ reply' = [reply EXCEPT ![p] = None]
  /\ IF asked[p] = p \/ action = None THEN RequestDecision(p, conn[p], decision[p])
     ELSE Decide(p, decision[p], action)

\* What follows a request that ended: an analysis is followed by the decision
\* it was asked before, whatever its result.  The channel is dropped.
EndRequest(p, action) ==
  /\ reply' = [reply EXCEPT ![p] = None]
  /\ IF asked[p] = p THEN RequestDecision(p, conn[p], decision[p])
     ELSE Decide(p, decision[p], action)

\* ... the message is sent, which fails when the handler has returned ...
Send(p) ==
  /\ pc[p] = "send"
  /\ \/ /\ handler[conn[p]] \notin {"ended", "refused"}
        /\ outgoing' = [outgoing EXCEPT ![conn[p]] = @ \o Messages(p)]
        /\ pc' = [pc EXCEPT ![p] = "wait"]
        /\ UNCHANGED <<pending, requestVars, reply, observed, decided, choice>>
     \/ /\ handler[conn[p]] \in {"ended", "refused"}
        /\ pending' = [pending EXCEPT ![conn[p]][asked[p]] = None]
        /\ EndRequest(p, None)
        /\ UNCHANGED outgoing
  /\ UNCHANGED <<registry, connectionVars, decision, analysed>>

\* ... and the reply is awaited until the deadline.
Receive(p) ==
  /\ pc[p] = "wait"
  /\ reply[p] # None
  /\ EndRequest(p, reply[p].action)
  /\ UNCHANGED <<registry, connectionVars, outgoing, pending, decision,
                 analysed>>

\* The channel closes without a reply when its sender is no longer pending:
\* another request took the id, or removed it.
SenderAlive(p) == \E k \in Connections, i \in RequestIds : pending[k][i] = Request(p)

ChannelCloses(p) ==
  /\ pc[p] = "wait"
  /\ reply[p] = None
  /\ ~SenderAlive(p)
  /\ EndRequest(p, None)
  /\ UNCHANGED <<registry, connectionVars, outgoing, pending, decision,
                 analysed>>

\* Mutant: the deadline is noticed only when the handler is gone.
TimesOutWhenGone(p) ==
  /\ pc[p] = "wait"
  /\ handler[conn[p]] = "ended"
  /\ reply[p] = None
  /\ SenderAlive(p)
  /\ pc' = [pc EXCEPT ![p] = "cleanup"]
  /\ UNCHANGED <<registry, connectionVars, outgoing, pending, requestVars, reply,
                 decisionVars>>

TimesOut(p) ==
  /\ pc[p] = "wait"
  /\ reply[p] = None
  /\ SenderAlive(p)
  /\ pc' = [pc EXCEPT ![p] = "cleanup"]
  /\ UNCHANGED <<registry, connectionVars, outgoing, pending, requestVars, reply,
                 decisionVars>>

\* Mutant: a timeout leaves the entry in the map.
CleanUpNothing(p) ==
  /\ pc[p] = "cleanup"
  /\ EndRequest(p, None)
  /\ UNCHANGED <<registry, connectionVars, outgoing, pending, decision, analysed>>

\* Mutant: the entry is looked for on the connection that is registered by now.
CleanUpRegistered(p) ==
  /\ pc[p] = "cleanup"
  /\ pending' = [k \in Connections |->
                   IF k = registry THEN [pending[k] EXCEPT ![asked[p]] = None] ELSE pending[k]]
  /\ EndRequest(p, None)
  /\ UNCHANGED <<registry, connectionVars, outgoing, decision, analysed>>

\* After a timeout the id is removed, whoever is registered under it by then;
\* a reply that came meanwhile is dropped with the channel.
CleanUp(p) ==
  /\ pc[p] = "cleanup"
  /\ pending' = [pending EXCEPT ![conn[p]][asked[p]] = None]
  /\ EndRequest(p, None)
  /\ UNCHANGED <<registry, connectionVars, outgoing, decision, analysed>>

-------------------------------------------------------------------------------
(* The handler of a connection.                                            *)

\* A valid registration replaces whatever connection the agent had.
Register(k) ==
  /\ handler[k] = "unused"
  /\ \A j \in 1..(k - 1) : handler[j] # "unused"
  /\ handler' = [handler EXCEPT ![k] = "accepting"]
  /\ registry' = k
  /\ UNCHANGED <<known, outgoing, pending, pc, requestVars, reply, decisionVars>>

Accept(k) ==
  /\ handler[k] = "accepting"
  /\ handler' = [handler EXCEPT ![k] = "open"]
  /\ UNCHANGED <<registry, known, outgoing, pending, pc, requestVars, reply,
                 decisionVars>>

\* The acceptance cannot be written: the handler returns at once.
AcceptFails(k) ==
  /\ handler[k] = "accepting"
  /\ handler' = [handler EXCEPT ![k] = "refused"]
  /\ outgoing' = [outgoing EXCEPT ![k] = <<>>]
  /\ UNCHANGED <<registry, known, pending, pc, requestVars, reply, decisionVars>>

\* What the agent has after an update: a patch is applied only to the document
\* it follows.
Applied(last, update) ==
  IF update.kind = "full"
  THEN [sequence |-> update.sequence, document |-> update.document]
  ELSE IF update.sequence = last.sequence + 1
  THEN [sequence |-> update.sequence,
        document |-> ApplyMergePatch(last.document, update.document)]
  ELSE last

\* A message is taken from the channel and written, and the agent reads it.
Forward(k) ==
  /\ handler[k] = "open"
  /\ outgoing[k] # <<>>
  /\ outgoing' = [outgoing EXCEPT ![k] = Tail(@)]
  /\ LET m == Head(outgoing[k]) IN
       known' = [known EXCEPT ![k][m.player] = Applied(@, m.update)]
  /\ UNCHANGED <<registry, handler, pending, pc, requestVars, reply, decisionVars>>

\* deliver: the agent answers any id that is pending with anything it likes; an
\* answer of another form is like one that names an action of another decision.
Read(k) ==
  /\ handler[k] = "open"
  /\ \E i \in RequestIds, a \in Actions :
       LET r == pending[k][i] IN
       /\ r # None
       /\ pending' = [pending EXCEPT ![k][i] = None]
       /\ reply' = IF r = Request(r.player)
                   THEN [reply EXCEPT ![r.player] = [id |-> i, action |-> a]]
                   ELSE reply
  /\ UNCHANGED <<registry, connectionVars, outgoing, pc, requestVars, decisionVars>>

\* The agent closes the connection, or reading or writing fails.
Break(k) ==
  /\ handler[k] = "open"
  /\ handler' = [handler EXCEPT ![k] = "leaving"]
  /\ UNCHANGED <<registry, known, outgoing, pending, pc, requestVars, reply,
                 decisionVars>>

\* Mutant: whatever connection is registered is removed.
UnregisterAny(k) ==
  /\ handler[k] = "leaving"
  /\ handler' = [handler EXCEPT ![k] = "ended"]
  /\ registry' = NoConnection
  /\ outgoing' = [outgoing EXCEPT ![k] = <<>>]
  /\ known' = [known EXCEPT ![k] = KnowsNothing]
  /\ UNCHANGED <<pending, pc, requestVars, reply, decisionVars>>

\* Mutant: the handler returns without unregistering its connection.
UnregisterNothing(k) ==
  /\ handler[k] = "leaving"
  /\ handler' = [handler EXCEPT ![k] = "ended"]
  /\ outgoing' = [outgoing EXCEPT ![k] = <<>>]
  /\ known' = [known EXCEPT ![k] = KnowsNothing]
  /\ UNCHANGED <<registry, pending, pc, requestVars, reply, decisionVars>>

\* unregister_connection removes only the connection itself; then the handler
\* returns and its end of the channel is dropped.  The agent program is gone.
Unregister(k) ==
  /\ handler[k] = "leaving"
  /\ handler' = [handler EXCEPT ![k] = "ended"]
  /\ registry' = IF registry = k THEN NoConnection ELSE registry
  /\ outgoing' = [outgoing EXCEPT ![k] = <<>>]
  /\ known' = [known EXCEPT ![k] = KnowsNothing]
  /\ UNCHANGED <<pending, pc, requestVars, reply, decisionVars>>

-------------------------------------------------------------------------------
\* The steps with which a request under way goes on.
Continue(p) ==
  \/ Insert(p)
  \/ Send(p)
  \/ Receive(p)
  \/ ChannelCloses(p)
  \/ TimesOut(p)
  \/ CleanUp(p)

Handle(k) ==
  \/ Register(k)
  \/ Accept(k)
  \/ AcceptFails(k)
  \/ Forward(k)
  \/ Read(k)
  \/ Break(k)
  \/ Unregister(k)

Next ==
  \/ \E p \in Players : Join(p) \/ Ask(p) \/ Continue(p)
  \/ \E k \in Connections : Handle(k)

Spec == Init /\ [][Next]_vars

\* The threads of the sessions run and deadlines pass; nothing is asked of the
\* agent, its connections or their handlers.
FairSpec == Spec /\ \A p \in Players : WF_vars(Continue(p))
-------------------------------------------------------------------------------
(* Properties.                                                             *)

Updates == [kind : {"full", "delta"}, sequence : Nat, document : Documents]

\* Every variable has its type, and a decision is asked of an agent at most once.
TypeOK ==
  /\ registry \in Connections \cup {NoConnection}
  /\ handler \in [Connections -> {"unused", "accepting", "open", "leaving", "ended", "refused"}]
  /\ outgoing \in [Connections -> Seq([player : Players, update : Updates])]
  /\ pending \in [Connections -> [RequestIds -> Requests \cup {None}]]
  /\ known \in [Connections -> [Players -> [sequence : Nat, document : Documents]]]
  /\ pc \in [Players -> {"absent", "idle", "insert", "send", "wait", "cleanup"}]
  /\ conn \in [Players -> Connections \cup {NoConnection}]
  /\ asked \in [Players -> RequestIds]
  /\ reply \in [Players -> [id : RequestIds, action : Actions] \cup {None}]
  /\ decision \in [Players -> [id : DecisionIds, options : Options] \cup {None}]
  /\ analysed \in [Players -> BOOLEAN]
  /\ observed \in [Players -> Seq(Documents)]
  /\ \A p \in Players : Len(observed[p]) <= MaxDecisions[p]
  /\ decided \in [Players -> Nat]
  /\ \A p \in Players : decided[p] <= MaxDecisions[p]
  /\ choice \in [Players -> Actions \cup {None}]

\* A pending entry belongs to a request that is under way on that connection
\* with that id: no timeout, replaced connection or shared id leaves an entry
\* behind in the map of a connection, which is never cleared.
PendingIsLive ==
  \A k \in Connections, i \in RequestIds :
    LET r == pending[k][i] IN
    r # None => /\ r = Request(r.player)
                /\ conn[r.player] = k
                /\ asked[r.player] = i
                /\ pc[r.player] \in {"send", "wait", "cleanup"}

\* The registered connection is one whose handler still runs, or whose
\* acceptance could not be written: no other end leaves it in the registry,
\* where it would make is_registered_agent_controller true for ever.
RegisteredIsServed ==
  registry # NoConnection =>
    handler[registry] \in {"accepting", "open", "leaving", "refused"}

\* A connection loses its place in the registry only to a newer one or by its
\* own handler's end (stale_connection_cannot_unregister_its_replacement).
StaleCannotUnregister ==
  [][registry' # registry /\ registry # NoConnection =>
       registry' > registry \/ handler[registry] = "leaving"]_vars

\* A request loses its pending entry without a reply only by its own end, or to
\* a request of another player with the same id on the same connection.
LostOnlyToRival ==
  [][\A p \in Players, k \in Connections, i \in RequestIds :
       pending[k][i] = Request(p) /\ pending'[k][i] # Request(p) =>
         \/ reply'[p] # None
         \/ pc[p] \in {"send", "cleanup"}
         \/ \E q \in Players \ {p} : conn[q] = k /\ asked[q] = i]_vars

\* What the agent has after the updates it could apply is the observation with
\* the number of the last one, up to members that are null: a lost connection,
\* a request that failed or a base that the agent never had always shows in the
\* numbers, so a patch is never applied to another document than its base.
UpdatesReconstruct ==
  \A k \in Connections, p \in Players :
    LET last == known[k][p] IN
    last.sequence > 0 =>
      /\ last.sequence <= Len(observed[p])
      /\ Known(last.document) = Known(observed[p][last.sequence])

\* A decision is one of the options of the request it answers, also when the
\* reply was late, for an earlier request with the same id or for another
\* session's.
ChoiceIsLegal ==
  \A p \in Players :
    pc[p] = "idle" /\ decided[p] > 0 => choice[p] \in decision[p].options

\* Every decision is made, whatever the agent and its connections do.
DecisionsAreMade ==
  \A p \in Players : pc[p] \notin {"absent", "idle"} ~> pc[p] = "idle"
================================================================================
