# DeepDeckEngine in TLA+

DeepDeckEngine plays a trading card game between humans, scripted pilots and
agents. It is one Rust process: a rules engine that runs a game on a thread of
its own, a session layer that lets HTTP callers answer the decisions of such a
thread, lobbies that gather players, and a durable queue that records what
happened and uploads it. This directory models the parts of it that are
concurrent or stateful enough to be wrong in ways a unit test would hardly
reach, checks them with TLC and proves the most important results with TLAPS.

Every definition that stands for code is listed with its lines in
`PROJECT.json` ("map"); every hazard the models are aimed at is listed there with
the properties that watch it ("hazards"). Paths below are relative to `src/src/`.

## 1. The system

| Component | State | Operations | Interacts with |
|---|---|---|---|
| History queue (`history_queue.rs`) | bounded channel of persist requests, SQLite outbox, quarantine and byte counters, the batch being uploaded | `open_stream`, `publish`, `persist_batch`, `acknowledge`, `quarantine`, the writer and the upload thread | sessions publish events and ask for the watermark; the platform is reached over HTTP |
| Interactive session (`session.rs`) | the shared view (revision, decision, error), channel of choices, `cancelled`, `submit_guard`, registry entry, the checkpoints of a game thread | `create`, `submit`, `remove`, `view`, the game thread's attempts and recoveries | runs the engine; called by HTTP; publishes history |
| Engine: turn control (`engine/mod.rs`) | players in the game, outcome, active player, turn, step, stack, rule modifiers, priority window | `run`, `execute_turn`, `run_combat`, `run_priority_window`, `eliminate_players`, `end_game_as_draw` | asks the session's decision provider |
| Engine: cards (`engine/mod.rs`) | permanents, zones, costs, continuous effects | thousands of effects | the turn control |
| Engine: combat declarations (`engine/mod.rs`) | the declared attacks, the snapshot from before them, the payments, the used blockers | the attacker and blocker loops of `run_combat` | asks the decision provider; a priority window lies between its halves |
| Mulligans, loop shortcuts (`engine/`) | hands and revisions, resource snapshots | `run_mulligans`, shortcut negotiation | the turn control |
| Lobbies and network games (`http.rs`) | a registry of invite codes, lobbies and games behind one mutex | create, join, resume, poll, leave, update a seat; launch thread; sweeper; join, leave and close a game | creates and removes sessions |
| Agent protocol (`agent_protocol.rs`) | registry of websocket connections, pending requests, observation baselines | `request`, `deliver`, `prepare`, `observation_update` | sessions ask agents for decisions |
| Observation deltas (`observation_delta.rs`) | none | `merge_patch`, `apply_merge_patch` | agent protocol |
| Analytics (`analytics.rs`) | a dataset file and one worker thread | record, rebuild, persist | sessions report finished matches |
| Remote players, simulations, catalogs, parser, entry points | none that outlives a call, or files that are read | | |

What is hard in each, and what makes it correct:

- **History queue.** A publisher is released only by the commit of its event, a
  commit may take effect and report an error, an upload may arrive and its answer
  be lost, a refused batch is halved until one event stands alone, the process
  dies between any two steps. Correct: what `publish` confirmed is on disk or with
  the platform; the quota is exact; only events that the platform refuses alone
  are put aside; order within a stream; what is persisted settles; no publisher
  waits for ever.
- **Session.** Several callers race to answer one decision; the view keeps
  showing an answered decision until the next one; waits time out on three
  clocks; a failed attempt is played again from a checkpoint, so decision ids
  recur. Correct: one answer per decision, validated against the view it
  answers; a view shows the latest error; no thread or caller left behind.
- **Turn control.** Players leave the game in the middle of a round of passes,
  while objects that they control are on the stack; phases are added while others
  run; every loop has an iteration limit. Correct: priority goes to live players,
  everyone has passed before something resolves, the outcome is consistent and
  final, every game ends.
- **Lobbies.** A request authenticates in one critical section and acts in the
  next; a launch works on a clone for seconds while players leave and join; the
  sweeper closes lobbies under both. Correct: codes name one thing, hosts have
  seats, sessions are reachable, launches end, the token of a seat given up is void
  in its lobby, and every taken seat has somebody who can act for it.
- **Combat declarations.** An attack can be taken back after its costs were paid:
  the state is restored and the other declarations are replayed, outside the
  checks that offered them. Blockers are declared one at a time under rules about
  their final number. Correct: a replay is legal and payable, nothing of a cancelled
  attack remains, no player is asked for a block and left without an option.
- **Agent protocol.** Replies that are late, duplicate or meant for another
  session with the same decision id; connections that are replaced, break, or
  end while requests wait on them; patches against observations that never
  arrived. Correct: nothing stays registered or pending that nobody serves, a
  decision is always made and always one of its options, and a patch is applied
  only to the observation it was made from.

## 2. Modules

| Module | Content |
|---|---|
| `HistoryDelivery` | the abstract promise of the queue: accept once, confirm afterwards, deliver at least once or put aside, in stream order |
| `HistoryQueue` | the queue in detail; `ImplementsDelivery` instantiates `HistoryDelivery` with accepted = outbox, quarantine and received |
| `MCHistoryQueue` | payload sets and symmetry for TLC |
| `FiniteSums` | library for the proofs: induction over sets of numbers, facts about sums over finite sets |
| `HistoryQueueProofs` | inductive invariant, durability, byte counters, quarantine and the refinement |
| `GameSession` | one session: game thread, view, choices, callers, registry |
| `MCGameSession`, `GameSessionProofs` | instance, proofs |
| `GameTurn`, `MCGameTurn` | turn control of one game |
| `GameTurnProofs` | types, inductive invariant of a round of passes and of the schedule of a turn, length of a game |
| `Invitations` | the abstract promise of the registry: the one life of an invite code, its players, host and session |
| `NetworkLobby`, `MCNetworkLobby` | lobbies, launches and network games; `ImplementsInvitations` instantiates `Invitations` |
| `NetworkLobbyProofs` | inductive invariant of the registry and the refinement |
| `ObservationDelta` | merge patches as operators: `MergePatch`, `ApplyMergePatch`, and `Known`, what a reader can know of a document |
| `ObservationDeltaProofs` | a patch reconstructs the document it was made for, at any depth |
| `AgentProtocol`, `MCAgentProtocol` | the connections of one agent and the players it plays; EXTENDS `ObservationDelta` |
| `AgentProtocolProofs` | inductive invariant of requests and updates; EXTENDS `ObservationDeltaProofs` |
| `CombatDeclaration`, `MCCombatDeclaration` | the declarations of one combat |
| `CombatDeclarationProofs` | replays, loneliness, menace and the only way to get stuck |

### HistoryQueue

The variables are the fields of the code: `channel` is the `sync_channel` with
`WRITER_CHANNEL_CAPACITY`, `requests` the vector the writer gathers, `outbox` and
`quarantined` the two tables, `pendingBytes` and `quarantinedBytes` the row of
`history_spool_state`, `batch` and `batchLimit` the locals of the upload loop.
`received` is the platform, `confirmed` a history variable.
`Publish` / `Send` split `HistoryStream::publish` where the bounded channel can
block. `Persist...` is one SQLite transaction: it commits, fails, or commits and
reports an error, after which the writer persists the same requests again and
the unique constraint ignores the rows. `Deliver...` has the three kinds of
answer the upload loop tells apart. `Crash` drops everything but the spool and
`received`; `Restart` recounts the bytes as `open` does. A stream id contains the
start of its process, so an id is opened once.
Encoding, compression and HTTP headers are left out: an event is its stream,
sequence number, size and whether the platform takes it. The quota counts the
quarantined bytes too, and the writer never splits a batch: `BatchNeverFits` is the
writer in front of a batch for which the quarantine alone leaves no room.

### GameSession

The game thread is `run` (the engine computes), `await` (it has published a
decision and waits), or `done`; a stage is the opening sequence or a turn; an
attempt at it asks for decisions and completes or fails, and a failed one is
restored to its checkpoint until `MAX_SESSION_RECOVERIES_PER_CHECKPOINT`.
A client goes `idle`, `locking` (handle looked up), `checked` (inside
`submit_guard`, view validated), `waiting` (choice sent, in `wait_after`).
`choices` is the unbounded channel; the revision in it is a history field.
Errors are numbered as they occur (`raised`): `staged` is the one in
`pending_recovery_error`, where a later failure replaces an earlier one, and
`viewError` the one of the published view. A wait that times out (`CreateTimesOut`,
`SubmitTimesOut`) and the removal that follows it (`...GivesUp`) are two steps.
`create` returns at once for a session that only automated players play, and
reports the error of a first view although the session goes on.
Not modelled: the values of a choice and their validation, `update_settings`,
hold-priority stops, spectator frames (a ring behind one mutex; a reader that
falls behind is told so).

### GameTurn

Follows `execute_turn`, `run_combat`, `run_priority_window_with_shortcuts` and
`run_next_turn` step by step. A decision of a player is a disjunct. What cards do
is abstracted to the ways they touch this control: put objects on the stack, take
one off, make players lose, end the game in a draw, use up or counter, grant a
modifier of any kind to any player, end the turn. Effects stop as soon as there
is an outcome. Who owns the card of an object on the stack is not kept: when players
lose, the objects they control go, and any of the others may go as theirs. A contract on a
player who loses may trigger one ability of a player who stays. A
modifier names one player here. In a resolution one effect and one round
of eliminations happen, in either order, and triggers come one per step; longer
resolutions are sequences of these. Modifiers that end with the turn are dropped
at its end.

### NetworkLobby

`lobbies`, `inviteTo`, `games` and `issued` are the maps of `NetworkGameRegistry`,
`running` the sessions of the session manager, `launch` the launch threads and the
creations of hosted games, `requests` the HTTP requests between their two critical
sections. A seat token is the number of times its seat was given up; the 45
seconds of the sweeper are the set `fresh`, which `Silent` shrinks and requests
extend. `granted` is who was given which token (history). A creation that fails because
its first view has an error leaves the session running and unknown to anybody:
its launch is `abandoned`. Usernames, AI seats, rules and catalogs are left out; a chosen deck is taken
to stay on the disk. A launch thread is taken not to panic outside the workers
whose panics it catches.

`Invitations` sees of all this one table per code: `Table` is the lobby under the
code, else the game to which `inviteTo` leads, else nothing, `unissued` or
`closed` by `issued`; `Used` are the launches that are over. Requests, tokens,
clones and the order of the two maps' updates are invisible there, so a
request that finds its lobby launched or gone must map to a stutter.

### AgentProtocol and ObservationDelta

A player is one `WebSocketAgent`: `Ask` is its call from the session,
`Insert`, `Send`, `Receive`, `ChannelCloses`, `TimesOut` and `CleanUp` are the steps of
`AgentConnection::request` between which other threads can run, `pending` is the map it
shares with `deliver`. `analysed` and `observed` are `starting_analysis_sent` and
the sequence with `previous_observation`, which advance when an update is *made*,
not when it arrives. A decision that offers only actions of the interface (`UIActions`; taking
an attack back is one) is not asked of the agent, and the session's fallback makes it, as after any
failure (`Decide`). A connection is its handler: registered and `accepting`, `open`,
`leaving` the loop, `ended`, or `refused`: ended by a failed acceptance, which skips the
unregistration and so stays where players find it until it is replaced. The replies of the agent are external and unconstrained:
any pending
id, any action, any time (`Read`). So is the agent's reading of updates
(`Applied`), modelled from the contract of the sequence numbers: a patch is
applied only when its number follows. An analysis takes its context id, which
names the player; a decision id may be shared by two sessions.

Objects nest up to `Depth` in the members of a document, and `ValuePatch`,
`PatchedValue` and `Known` are recursive functions of the depth that is left.
Arrays are scalars, as the code replaces them whole. TLC checks a depth of 2, the
smallest at which every pair of kinds of value meets both at a member of an
object and at a member of a member; the theorem is for every depth. `Known`
identifies a null member with an absent one: the format cannot tell them apart,
and `PatchReconstructs` says that this is all that is lost.

### CombatDeclaration

`combat` is the state's list of attackers, `attacks` the local map, `declared` the list
from which `CancelAttacker` replays. An attack board is what `legal_attacker_actions`
reads (who may attack, who must, who attacks alone, taxes, limits, mana), a
block board what `legal_blocker_actions` reads after the window, where anything may
have happened. `Replay` repeats one declaration with its recorded payment, which may
fail; `EmptyRequest` is a request without options. The payment the engine picks for
an option is any that pays. Untapped creatures, costs, mana and life are sets and
numbers. A mana source gives one mana, for a tap and, if it is `painful`, one life; a source
that is sacrificed for its mana counts as tapped, as neither can attack or pay and both are
back after a cancellation. Phyrexian mana does not occur in a tax, and the board is taken
to stand while attackers are declared. Blocking triggers and the order and assignment of damage come later in
`run_combat` and are left out.

## 3. Runs

| Run | Question | Bounds |
|---|---|---|
| `history_rules` | durability, byte accounting, quarantine, refinement; every event settles, and every publish returns unless the quarantine leaves no room | 2 streams of 2 events, 3 events in all of two payloads (1 byte taken, 3 bytes refused), 1 crash, 1 misreported commit, channel of 1, batches of 3 events or 5 bytes, quota 6, platform limit 1 |
| `session_untimed` | one choice per view, not stale; the thread of a removed session ends | no decision timeout, 2 callers, 2 games, an opening and 1 turn each, 1 decision in each of them, 2 ids, 3 recoveries |
| `session_timed` | the latest error is shown; submits return | decision timeout, 2 callers, 1 game, 1 decision in each of its stages, 3 recoveries |
| `session_timeout` | finding, see below | as above |
| `turn_rules` | priority, rounds, outcome, termination | 3 players, 2 turns, 4 window iterations, 1 additional combat, 2 modifiers, stack of 1 |
| `turn_extra`, `turn_combat` | findings | 3 players and 1 modifier; 2 players and 2 combats |
| `lobby_rules` | the registry stays consistent and implements `Invitations`, launches end | 1 code, 2 seats, 2 requests at a time, 2 launches, 1 renewal of each token |
| `lobby_ready` | finding | 1 launch |
| `agent_rules` | nothing pending or registered without a server, legal decisions, patches on their base, decisions are made | 2 players with one decision id, 2 actions of which one is the interface's and either is offered alone, a full and a delta connection, 2 decisions of one player and 1 of the other, 2 observations of three members in which objects nest two deep |
| `combat_rules` | replay after cancellation, lone attackers, menace, empty requests | 3 attackers, 1 land, 1 mana and 1 life, 2 targets with tax and limit, 3 blockers of 2 players, 16 attack and 96 block boards |
| `combat_stuck` | finding | as above |

Why the bounds are enough. Queue: a batch of three mixed events is halved twice,
a quota of one refused event and a mixed batch, less one byte, makes publishers
wait for the uploader and, beside a quarantined event, for ever; events of both
streams meet in one batch, and the crash falls between every two steps. Session:
ids recur across stages and games with two ids; without a decision timeout only the
loss of the last sender ends a removed session; two callers are the smallest race
and further ones only queue behind the guard. Turn: with three players one can
leave a round and leave two; four iterations stand for the 512 of
`MAX_PRIORITY_ACTIONS` and are enough to act, pass a full round of three and reach the
limit; two turns cross one turn boundary; with a stack of one an object that
resolves may leave another in its place, so rounds follow each other over a stack
that is not empty (a stack of two, which effects may also take objects off, passes too, in 900 000 states,
and the theorems hold for any). Lobby: a code is issued once, so the life
of one code contains every interleaving of lobby, launch and game; two requests
are the smallest race of two critical sections, and the two launches are a
failed one and its repetition, or a lobby's game and a hosted one. Agent: one
shared id is what makes two sessions collide, two connections are a connection and
its replacement, two decisions make a patch and its base, and the members of
the two observations, at three levels, pair scalars, objects, nulls and absent members in every way
a patch treats differently. Combat: three attackers let one be cancelled from the
middle of a replay, the third is also the mana source that pays for the
others, mana and life suffice for fewer attacks than are declared and taken
back, and two defending players make the second half run again.
Bounds are guards named in CONSTANTS and marked "bound".

Deadlock checking is off for sessions, lobbies, agents and combats, which may
stop, and on for the queue, whose threads always run, and for `GameTurn`,
where its absence and `EveryStepProgresses` (each step advances a bounded
lexicographic measure) show that every game ends without any fairness.

### Fairness

- Queue: threads run (WF on their steps); the writer retries a failed commit and
  the uploader a failed upload for ever, so SF on the commits, the answers and
  the settlements says only that the disk and the platform do not fail
  forever. Under it a publisher can still wait for ever, which is what `PublishReturnsOrNeverFits` says and nothing more. Publishing new events is not fair.
- Session: the game thread, the creator and a caller inside `submit` run (WF);
  a caller waiting for `submit_guard` is not starved for ever (SF on `Acquire`).
  No human answer is fair.
- Lobby: a launch thread runs to its end (WF). No request is fair.
- Agent: the thread of a session runs and its deadlines pass (WF on `Continue`).
  Nothing is asked of the agent, its connections or their handlers.

### Findings

- `session_timeout`: with a human decision timeout, a choice validated at one
  revision is taken as the answer to a later decision with the same id.
- `turn_extra`: an extra turn of a player who is not the active one is lost.
- `turn_combat`: the modifier of an additional combat is removed by an index that
  the combat itself may have made stale.
- `lobby_ready`: an update that overlaps the leave of its player marks a free
  seat ready.
- `combat_stuck`: an attacker that must be blocked and has menace, facing one
  able creature, leaves the defending player a request without options.

Each is a run that TLC refutes, with the quotation in `PROJECT.json`. More
consequences of the code were met on the way and have no run of their
own, as no text of the repository says otherwise or the run would add little to the property that
names the case. The bytes in the quarantine count towards the quota and are never freed, and
a batch is never split, so once the quarantine leaves less room than a batch needs its
publishers block for ever although disk and platform work: `PublishReturnsOrNeverFits` says that
this is the only way, and `history_rules` reaches it (`BatchNeverFits` is where it ends). They
count towards the watermark of the queue too, so new sessions can stay paused ("until delivery recovers", `session.rs:1147`) although delivery works.
A draw after an elimination names no losers (`engine/mod.rs:33476`), which the
repository's own audit (`engine/mod.rs:86208`) reports as an error.
A seat given up during a launch keeps its old token in
the game, as `launch_network_lobby` works on a clone: who left
can act in the game and who joined cannot. `create` reports the error of a first view
without removing the session (`session.rs:1714`), so a failed launch can leave one
running that nobody can reach; `NoSessionIsLost` excepts it by name. A second failure
before the next view replaces the first one's error, and a completion's own error goes
before the staged one, so `LatestErrorIsShown` says which error a view shows and
not that each is shown. A connection whose acceptance could not be written stays
registered (`agent_protocol.rs:627-644`), which `RegisteredIsServed` excepts.

## 4. Proofs

TLAPS proves, for every value of the constants that satisfies the named
assumptions (`PayloadAssumption`, `LimitAssumption`, `SessionAssumption`,
`LobbyAssumption`, `SpecialAssumption`, `AgentAssumption`, `DocumentAssumption`,
`CombatAssumption`, `GameAssumption`; they ask for numbers to be numbers, sets to
be finite, boards and observations to have their shape, two to four players as the
code has, and special values to be apart):

- `HistoryQueueProofs`: `TypeCorrect`, `ConfirmedEventsAreDurable`, and
  `QueueImplementsDelivery`, the refinement of `HistoryDelivery`. `ConfirmedIsDurable`
  is not inductive: the writer confirms what it *gathered*, and the uploader
  deletes what it *holds*. `IInv` adds that an event in flight is the latest of
  its stream and alone (`OneInFlight`) and shadowed by nothing durable
  (`AcceptedWasPublished`), what the writer has committed by the time it confirms
  (`WriterInv`), that row ids order the rows as the streams order their events
  (`RowOrder`), and that the batch is a prefix of the outbox which the platform
  has in the `acknowledge` state (`UploaderInv`). Each action of the detailed queue is then
  one step of the abstract one or a stutter.

  `BytesAreCounted` adds `Counted`: the counters are the sums over the two tables
  and within the quota. It needs `IInv`, as a sum grows by exactly the new rows
  only when their ids are new, and shrinks by exactly the batch only when the batch
  is in the outbox; an event that is published twice after a misreported commit adds
  nothing. `QuarantinedAreRefused` adds `Judged`: whatever the platform has it would
  have taken alone, and the uploader quarantines only a batch of one event that was
  refused. A taken batch tells this of each of its events because a part of
  a batch is refused only if the batch is.
- `GameSessionProofs`: `TypeCorrect`, `OneChoicePerView`, `ChoicesAreNeverStale`,
  `LatestErrorReachesTheView`, the middle two without a decision timeout (with one, `session_timeout`
  refutes the last). The strengthening is what the holder of the guard knows
  (`HolderInv`): while it is `checked`, nothing is under way; while it waits, its
  choice is in the channel, taken, or answered by a later view. `GuardInv` says the
  guard has one holder, `ThreadInv` ties the registry to `cancelled`. For the
  error shown it is enough that what is staged is the latest error not yet shown (`ErrorInv`).
- `NetworkLobbyProofs`: `TypeCorrect`, `CodesStayUnique`, `HostsAreSeated`,
  `SessionsAreReachable`, `OneLaunchPerStart` and `SeatsHaveHolders`, all from one
  invariant. It adds that whatever bears a code was issued it (so a launch never
  meets a second lobby of its code), that a launch works on the game of its own
  code with a seated host and registers at most once (`LaunchInv`), that a
  request which closes a game has removed its session (`RequestInv`), and that
  no token was given out ahead of its seat (`GrantInv`) and the players of every lobby, clone
  and game were given theirs (`HolderInv`). Most requests are
  instances of one lemma, `EditLobby`: an edit that keeps the host seated, the
  status starting or not, and moves tokens only forward preserves everything,
  also when its request was authenticated in an earlier state.

  `RegistryImplementsInvitations` then maps every action to one of `Invitations`, one
  `...Step` lemma per action, under that invariant. It is where the parts meet:
  that a launch registers a game only over its own starting lobby, in a session
  that was not used (`LaunchInv`); that its clone's host is seated although the lobby
  may have another by now (`HostIsSeated`); that the sweeper closes several tables in
  one step; and that a leave passes the lobby to another player but a game never.
- `ObservationDeltaProofs`: `PatchReconstructs`, that applying the patch of two
  documents to the first gives the second up to nulls, for documents of any depth,
  by induction over the depth and by cases over the kinds of two values.
- `AgentProtocolProofs`: with it, `TypeCorrect`, `PendingLive`, `RegisteredServed`,
  `ChoiceLegal`, `Reconstructs`, `StaleKeepsOut` and `OnlyRivalsTake` from one
  invariant. It adds where a request under way stands in its sequence
  of steps (`Progress`), that a reply held for a player answers its present request
  (`Answered`), that connections registered in order (`RegisteredInOrder`), and that
  a message in a channel carries the observation with its number, and a patch the
  difference from the one before (`MessagesFaithful`). With that, a patch whose
  number follows what the agent has is applied to its base, whichever messages or
  connections were lost between.
- `CombatDeclarationProofs`: `TypeCorrect`, `LoneStaysAlone`, `MenaceRespected`,
  `StuckByConflict`, `ReplaysAreLegal` and `CancelledLeaveNothing`. Loneliness survives a
  replay because the attacks replayed are a part of those declared, which were lone
  together. Menace needs that an incomplete
  attacker always has a free creature left to complete it and that a finished
  player's attackers stay as they are, as each attacker has one defender.
  The two results about replays need `Replayable`: each declaration pays exactly
  its tax (`DeclaredPaid`), none needs what an earlier one tapped (`TappedOnce`),
  together they keep the limits, the pool and the life (`WithinLimits`), and the
  state is the one that the declarations replayed so far lead to
  (`StateIsReplayed`). All but the last pass from a list to the list without one of
  its members, so the replay after a cancellation finds untapped what it taps and
  in the pool what it spends, and ends where the remaining attacks alone would have led.
- `GameTurnProofs`: `TypeCorrect`, `AskedIsLive`, `RoundsComplete`, `OutcomeDecided`,
  `StopsAtOutcome`, `StepsProgress` and `GamesAreFinite`. The invariant has four parts:
  who has lost is out of the game and decides the outcome (`Board`), the active player has a seat,
  the passes so far are those of the live players from the last action to whoever
  is asked (`Round`), and a turn starts undecided at its first step and ends its
  combats in one of theirs (`Schedule`). Lemma `RoundIsAll`: going from a live
  player to the next one `live` times reaches every live player, over the
  arithmetic of seats modulo their number. Types need that modifiers
  stay within their bound and that the turn after the last is never begun
  (`TypeInv`). `GamesAreFinite` reads the lexicographic order of `StepsProgress` as the
  digits of one number, `Rank`, which is at most `MaxRank` and grows with every step: no
  behaviour has more than `MaxRank` steps that change anything, with no fairness.

Induction. The library's induction theorems take an operator as a parameter, which
the installed provers cannot instantiate. `FiniteSums` therefore states induction for
*sets*: a set of natural numbers that has 0 and the successors of its elements is
`Nat` (`SetOfNaturals`, from the well-foundedness of `<`), and a family of subsets of a
finite set that has each set of which it has all parts smaller by one element has them all
(`SubsetInduction`). With the
set of sizes, or of depths, for which a fact holds this gives what the byte and mana
sums and the recursive functions of `ObservationDelta` need. `SelectSeq`, of which the
prover knows nothing, is written as the recursive function `Kept` in `GameTurn`.

Only model-checked: liveness (`EventuallySettled`, `PublishReturnsOrNeverFits`, `RemovedSessionEnds`,
`SubmitReturnsEventually`, `StartingEnds`, `DecisionsAreMade`), as fairness and ENABLED are
outside the prover. Every invariant, action property and refinement that a passing
run checks is a theorem too.

## 5. Not modelled

- **Card effects, costs, continuous effects.** Rules data far beyond a state
  space: every card is a program of its own, and a property of one is a test. The
  ways in which effects touch turn control, priority and combat are in `GameTurn` and
  the boards of `CombatDeclaration`.
- **Oracle parser** (`oracle/`, over a third of the source). A pure translation of English
  text by tables of patterns, without state; its meaning is the list of its fixtures.
- **Mulligans and opening hands.** `run_mulligans` asks one player after the other
  and touches no other actor; its revisions are lists of cards in one hand.
- **Loop shortcuts.** They compare whole game states and resource totals, which a
  model would have to invent. `GameTurn` has their effects: a draw, or an action that
  counts as a pass.
- **Damage, blocking triggers.** Sequential arithmetic over the blocks that
  `CombatDeclaration` leaves behind.
- **Session settings, hold-priority stops.** Values read by the provider; they
  choose which decisions are asked, and `GameSession` allows any.
- **Analytics.** One worker, one file and floating-point ratings.
- **Remote players, simulations, scenario games.** Stateless calls or one
  sequential caller; errors of the former are failed attempts in `GameSession`.
- **HTTP parsing, projections, catalogs, entry points.** Input and output.

The models cover the state and control of the queue, the session, the registry of network
games, the agent protocol and the deltas, and of the engine the loops that
drive it; by lines the engine's cards and the parser are most of the repository,
so the share of the lines that is modelled is small.

## 6. State of the plan

1. History queue with its abstract specification and proofs. *Done.*
2. Game session with proofs. *Done.*
3. Turn control of the engine with proofs. *Done.*
4. Network lobbies with proofs. *Done.*
5. Agent protocol, composed with observation deltas, with proofs. *Done.*
6. Combat declarations with proofs. *Done.*
7. The byte and mana sums, replays, types and termination of the turn control, patches of
   any depth, and the registry as an implementation of `Invitations`, proved. *Done.*
8. Open in the proofs: abstract specifications of the session and of the agent protocol (one
   decision, answered once with one of its options) and of a combat (a set of attacks that
   is declared as one), with their refinements; and the steps behind the liveness
   properties, as measures that each fair step decreases.
9. Open in the models: the session with the queue (a game thread blocked in `publish`), the lobby
   with the session (one `running` set), the files of `analytics.rs`. The interfaces
   are already in the parts: `HistoryDelivery` is what a session may assume of the
   queue, and `running` in `NetworkLobby` what a session is to a lobby.
