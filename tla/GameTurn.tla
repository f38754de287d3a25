-------------------------------- MODULE GameTurn --------------------------------
(***************************************************************************)
(* The control of one game of src/engine/mod.rs: turns and their steps,    *)
(* the priority windows of a step, the stack, the elimination of players   *)
(* and the outcome.                                                        *)
(*                                                                         *)
(* Cards are abstracted to what they can do to this control: put objects   *)
(* on the stack, take one off it, eliminate players, grant a turn or a     *)
(* combat after this one, use up a modifier, or exceed a simulation limit. *)
(* A decision of a player is the choice of a disjunct; an object on the    *)
(* stack is its controller.                                                *)
(***************************************************************************)
EXTENDS Naturals, Sequences, SequencesExt, FiniteSets

CONSTANTS
  NPlayers,           \* seats at the table
  StartingPlayer,     \* the seat that takes the first turn
  NoPlayer,           \* an outcome without a winner
  NoOutcome,          \* state.outcome is None
  MaxTurns,           \* the max_turns argument of run
  MaxActions,         \* MAX_PRIORITY_ACTIONS
  MaxRepeats,         \* MAX_REPEATED_PRIORITY_STATES
  MaxCombats,         \* MAX_PRIORITY_ACTIONS again: additional combats of a turn
  MaxStack,           \* bound: objects on the stack
  MaxModifiers        \* bound: rule modifiers

ASSUME GameAssumption ==
  /\ NPlayers \in 2..4
  /\ StartingPlayer \in 0..(NPlayers - 1)
  /\ MaxTurns \in Nat \ {0}
  /\ MaxActions \in Nat \ {0}
  /\ MaxRepeats \in Nat
  /\ MaxCombats \in Nat \ {0}
  /\ MaxStack \in Nat
  /\ MaxModifiers \in Nat
  /\ NoPlayer \notin 0..(NPlayers - 1)
  /\ NoOutcome \notin [winner : 0..(NPlayers - 1) \cup {NoPlayer},
                        losers : SUBSET (0..(NPlayers - 1))]

VARIABLES
  game,               \* the board, see Game
  active,             \* state.active_player
  turn,               \* state.turn_number
  step,               \* state.step; the first strike is a step of its own
  combats,            \* additional_combat_count
  extra,              \* modifier_index of the additional combat under way, or 0
  pc,                 \* "start" of a turn, priority "window", "between" windows,
                      \* "combatDone", "turnDone", "over", "failed" with an error,
                      \* "panicked"
  priority,           \* the player the window asks
  passes,             \* consecutive_passes
  actions,            \* action_number
  passed,             \* history: who passed since the last action or resolution
  forceEnd            \* force_end_turn

combatVars == <<combats, extra>>
turnVars == <<active, turn, step, combatVars>>
windowVars == <<priority, passes, actions, passed>>
vars == <<game, turnVars, pc, windowVars, forceEnd>>

Players == 0..(NPlayers - 1)
Live(lost) == Players \ lost

Outcomes == [winner : Players \cup {NoPlayer}, losers : SUBSET Players]
Draw == [winner |-> NoPlayer, losers |-> {}]

\* The rule modifiers whose number and order matter here: extraTurnForPlayer,
\* additionalCombat, and those a cast or an effect uses up
Modifiers == [kind : {"extraTurn", "combat", "other"}, of : Players]

\* lost: the players with has_lost.  stack: the controllers of its objects.
Game == [lost : SUBSET Players, outcome : Outcomes \cup {NoOutcome},
         stack : Seq(Players), modifiers : Seq(Modifiers)]

-----------------------------------------------------------------------------
(* Seats.                                                                   *)

Seat(p, k) == (p + k) % NPlayers

NextLive(p, lost) ==
  IF Live(lost) = {} THEN p
  ELSE Seat(p, CHOOSE k \in 1..NPlayers : /\ Seat(p, k) \notin lost
                                          /\ \A j \in 1..(k - 1) : Seat(p, j) \in lost)

FirstLive(p, lost) == IF p \in lost THEN NextLive(p, lost) ELSE p

-----------------------------------------------------------------------------
(* What happens to the board.                                               *)

Push(g, controllers) == [g EXCEPT !.stack = @ \o controllers]

\* Vec::retain: what stood at the places kept, in the order it had
Kept(s, places) ==
  LET kept[n \in 0..Len(s)] ==
        IF n = 0 THEN <<>>
        ELSE IF n \in places THEN Append(kept[n - 1], s[n]) ELSE kept[n - 1]
  IN kept[Len(s)]

\* The objects that a departed player controls cease to exist, and those of others
\* that such a player owns; owners are not modelled, so these may be any of them
Remaining(g, L) ==
  {Kept(g.stack, places) :
     places \in SUBSET {i \in DOMAIN g.stack : g.stack[i] \notin g.lost \cup L}}

\* Modifiers that name a departed player go
Standing(modifiers, lost) ==
  Kept(modifiers, {i \in DOMAIN modifiers : modifiers[i].of \notin lost})

\* At most one triggered ability of a live player
Triggers(lost) == {<<>>} \cup {<<p>> : p \in Live(lost)}

\* A contract on a player who loses copies that player's permanents for another,
\* and their entering may trigger an ability of a player who stays
Inherited(g, L) ==
  IF \E m \in Range(g.modifiers) : m.kind = "other" /\ m.of \in L
  THEN Triggers(g.lost \cup L)
  ELSE {<<>>}

\* The stacks that the players about to lose may leave
StacksLeft(g, L) ==
  {stack \o new : stack \in Remaining(g, L), new \in Inherited(g, L)}

\* The board without the players who have lost, and the outcome it has then
Departed(g, L, outcome) ==
  {[g EXCEPT !.lost = @ \cup L,
             !.stack = stack,
             !.modifiers = Standing(@, g.lost \cup L),
             !.outcome = outcome] : stack \in StacksLeft(g, L)}

\* The outcome for those who are left, if there is one
Decision(lost) ==
  LET live == Live(lost)
  IN [winner |-> IF live = {} THEN NoPlayer ELSE CHOOSE p \in live : TRUE, losers |-> lost]

\* eliminate_players counting the players who were live before it
EliminateCountsBefore(g, L) ==
  IF g.outcome # NoOutcome \/ L = {} THEN {g}
  ELSE Departed(g, L, IF Cardinality(Live(g.lost)) > 1 THEN NoOutcome
                      ELSE Decision(g.lost \cup L))

\* eliminate_players: L are the players about to lose whom nothing protects
Eliminate(g, L) ==
  IF g.outcome # NoOutcome \/ L = {} THEN {g}
  ELSE Departed(g, L, IF Cardinality(Live(g.lost \cup L)) > 1 THEN NoOutcome
                      ELSE Decision(g.lost \cup L))

\* end_game_as_draw
Drawn(g) == IF g.outcome # NoOutcome THEN g ELSE [g EXCEPT !.outcome = Draw]

Triggered(g) == {Push(g, new) : new \in Triggers(g.lost)}

\* Triggers go on the stack, then the state-based actions eliminate players
Aftermath(g) == UNION {Eliminate(h, L) : h \in Triggered(g), L \in SUBSET Live(g.lost)}

\* A modifier that applies once is used up
Spent(g) ==
  {[g EXCEPT !.modifiers = RemoveAt(@, i)] :
     i \in {j \in DOMAIN g.modifiers : g.modifiers[j].kind = "other"}}

\* What an effect grants: a turn or a combat after this one, or another modifier
Granted(g, hands) ==
  {[g EXCEPT !.modifiers = Append(@, m)] :
     m \in [kind : {"extraTurn", "combat", "other"}, of : hands]}

\* An effect takes another object off the stack
Countered(g) == {[g EXCEPT !.stack = RemoveAt(@, i)] : i \in DOMAIN g.stack}

\* One effect of an object of player c, who may have lost while it resolves: only
\* the end of the game stops its effects, and what they triggered still comes.
Effects(g, c) ==
  IF g.outcome # NoOutcome THEN Triggered(g) ELSE
  LET hands == Live(g.lost) \cup {c}
  IN {g, Drawn(g)} \cup {Push(g, <<p>>) : p \in hands}
       \cup Spent(g) \cup Granted(g, hands) \cup Countered(g)

\* The object on top is popped; players may lose before or after its effect
Resolutions(g) ==
  LET c == Last(g.stack)
      popped == [g EXCEPT !.stack = Front(@)]
      losses == SUBSET Live(g.lost)
      after == UNION {Eliminate(popped, L) : L \in losses}
  IN (UNION {Effects(h, c) : h \in after})
       \cup UNION {Eliminate(h, L) : h \in Effects(popped, c), L \in losses}

\* A triggered ability without legal targets to declare leaves the stack
Undeclared(g) == [g EXCEPT !.stack = Front(@)]

GameBecomes(g) ==
  Len(g.stack) =< MaxStack /\ Len(g.modifiers) =< MaxModifiers /\ game' = g

-----------------------------------------------------------------------------
(* Turns.                                                                   *)

CombatSteps ==
  {"beginCombat", "declareAttackers", "declareBlockers", "firstStrike", "combatDamage"}

Init ==
  /\ game = [lost |-> {}, outcome |-> NoOutcome, stack |-> <<>>, modifiers |-> <<>>]
  /\ active = StartingPlayer
  /\ turn = 1
  /\ step = "untap"
  /\ combats = 0
  /\ extra = 0
  /\ pc = "start"
  /\ priority = active
  /\ passes = 0
  /\ actions = 0
  /\ passed = {}
  /\ forceEnd = FALSE

\* run_priority_window: the locals of a new window
OpenWindow ==
  /\ pc' = "window"
  /\ priority' = FirstLive(active, game'.lost)
  /\ passes' = 0
  /\ actions' = 0
  /\ passed' = {}

\* A step begins: its automatic part leads to one of these boards, then its window
EnterStep(s, boards) ==
  /\ \E g \in boards : GameBecomes(g)
  /\ step' = s
  /\ OpenWindow
  /\ UNCHANGED <<active, turn, forceEnd>>

\* start_turn, then the upkeep triggers and the first window
StartTurn ==
  pc = "start" /\ EnterStep("upkeep", Triggered(game)) /\ UNCHANGED combatVars

\* The turn goes on without looking for an outcome
ProceedsAnyway(s) == pc = "between" /\ ~forceEnd /\ step = s

\* A window or a combat has returned and the turn goes on
Proceeds(s) == pc = "between" /\ ~forceEnd /\ game.outcome = NoOutcome /\ step = s

\* The draw, with its state-based actions
DrawStep ==
  /\ Proceeds("upkeep")
  /\ EnterStep("draw", Aftermath(game))
  /\ UNCHANGED combatVars

PrecombatMain ==
  /\ Proceeds("draw")
  /\ EnterStep("precombatMain", Triggered(game))
  /\ UNCHANGED combatVars

BeginCombat ==
  /\ Proceeds("precombatMain")
  /\ EnterStep("beginCombat", Triggered(game))
  /\ UNCHANGED combatVars

\* skipCombatNextTurn
SkipCombat ==
  /\ Proceeds("precombatMain")
  /\ pc' = "combatDone"
  /\ UNCHANGED <<game, turnVars, windowVars, forceEnd>>

\* With a live active player who declares an attacker
DeclareAttackers ==
  /\ Proceeds("beginCombat")
  /\ active \notin game.lost
  /\ EnterStep("declareAttackers", Triggered(game))
  /\ UNCHANGED combatVars

DeclareBlockers ==
  /\ Proceeds("declareAttackers")
  /\ EnterStep("declareBlockers", Triggered(game))
  /\ UNCHANGED combatVars

FirstStrike ==
  /\ Proceeds("declareBlockers")
  /\ EnterStep("firstStrike", Aftermath(game))
  /\ UNCHANGED combatVars

\* The normal damage has no window of its own: what it triggers waits on the
\* stack for the window of the next step
CombatDamage ==
  /\ Proceeds("declareBlockers") \/ Proceeds("firstStrike")
  /\ \E g \in Aftermath(game) : GameBecomes(g)
  /\ step' = "combatDamage"
  /\ UNCHANGED <<active, turn, combatVars, pc, windowVars, forceEnd>>

\* run_combat returns and the turn has not been forced to end; an additional
\* combat removes the modifier at the index it was found at before the combat
CombatReturns ==
  /\ pc = "between"
  /\ ~forceEnd
  /\ \/ step \in {"beginCombat", "combatDamage"}
     \/ game.outcome # NoOutcome /\ step \in CombatSteps
  /\ IF extra =< Len(game.modifiers)
     THEN /\ pc' = "combatDone"
          /\ game' = IF extra = 0 THEN game ELSE [game EXCEPT !.modifiers = RemoveAt(@, extra)]
     ELSE pc' = "panicked" /\ UNCHANGED game
  /\ extra' = 0
  /\ UNCHANGED <<active, turn, step, combats, windowVars, forceEnd>>

CombatGrants(modifiers) ==
  {i \in DOMAIN modifiers : modifiers[i] = [kind |-> "combat", of |-> active]}

AnotherCombat ==
  /\ pc = "combatDone"
  /\ game.outcome = NoOutcome
  /\ CombatGrants(game.modifiers) # {}
  /\ combats < MaxCombats
  /\ EnterStep("beginCombat", Triggered(game))
  /\ combats' = combats + 1
  /\ extra' = CHOOSE i \in CombatGrants(game.modifiers) :
                 \A j \in CombatGrants(game.modifiers) : i =< j

TooManyCombats ==
  /\ pc = "combatDone"
  /\ game.outcome = NoOutcome
  /\ CombatGrants(game.modifiers) # {}
  /\ combats = MaxCombats
  /\ pc' = "failed"
  /\ UNCHANGED <<game, turnVars, windowVars, forceEnd>>

PostcombatMain ==
  /\ pc = "combatDone"
  /\ game.outcome = NoOutcome
  /\ CombatGrants(game.modifiers) = {}
  /\ EnterStep("postcombatMain", Triggered(game))
  /\ UNCHANGED combatVars

\* With the monarch's draw and the delayed returns and sacrifices
EndStep ==
  /\ Proceeds("postcombatMain")
  /\ EnterStep("endStep", Aftermath(game))
  /\ UNCHANGED combatVars

\* cleanup: discarding may trigger abilities, and no window follows
Cleanup ==
  /\ Proceeds("endStep")
  /\ \E g \in Triggered(game) : GameBecomes(g)
  /\ step' = "cleanup"
  /\ pc' = "turnDone"
  /\ UNCHANGED <<active, turn, combatVars, windowVars, forceEnd>>

\* finish_forced_turn: the stack is abandoned, then the cleanup
ForcedEnd ==
  /\ pc = "between"
  /\ forceEnd
  /\ forceEnd' = FALSE
  /\ \E new \in Triggers(game.lost) :
       GameBecomes([game EXCEPT !.stack = new])
  /\ step' = "cleanup"
  /\ pc' = "turnDone"
  /\ extra' = 0
  /\ UNCHANGED <<active, turn, combats, windowVars>>

\* execute_turn returns because the game has an outcome
LeaveTurn ==
  /\ \/ pc = "combatDone"
     \/ pc = "between" /\ ~forceEnd /\ step \notin CombatSteps
  /\ game.outcome # NoOutcome
  /\ pc' = "turnDone"
  /\ UNCHANGED <<game, turnVars, windowVars, forceEnd>>

TurnGrantees == {p \in Players : [kind |-> "extraTurn", of |-> p] \in Range(game.modifiers)}

\* run_next_turn after the turn: an extra turn only for the active player; what
\* was granted for this turn no longer matches (bound: other modifiers end too)
NextTurn ==
  /\ pc = "turnDone"
  /\ game.outcome = NoOutcome
  /\ active' = IF active \in TurnGrantees THEN active ELSE NextLive(active, game.lost)
  /\ game' = [game EXCEPT !.modifiers = <<>>]
  /\ turn' = turn + 1
  /\ pc' = IF turn = MaxTurns THEN "over" ELSE "start"
  /\ step' = IF turn = MaxTurns THEN step ELSE "untap"
  /\ combats' = 0
  /\ extra' = 0
  /\ UNCHANGED <<windowVars, forceEnd>>

GameOver ==
  /\ pc = "turnDone"
  /\ game.outcome # NoOutcome
  /\ pc' = "over"
  /\ UNCHANGED <<game, turnVars, windowVars, forceEnd>>

-----------------------------------------------------------------------------
(* The priority window: the loop of run_priority_window_with_shortcuts.     *)

\* The loop runs once more than its range
AskingOnceMore == pc = "window" /\ actions =< MaxActions /\ game.outcome = NoOutcome

\* An iteration that asks the priority player
Asking == pc = "window" /\ actions < MaxActions /\ game.outcome = NoOutcome

\* The loop counts an iteration only when the player passes
CountPasses == actions' = IF passes' > passes THEN actions + 1 ELSE actions

\* The loop counts its iterations
CountIteration == actions' = actions + 1

LastPass == passes + 1 = Cardinality(Live(game.lost))

\* The player passes and others are still to be asked
PassOn ==
  /\ Asking
  /\ ~LastPass
  /\ passes' = passes + 1
  /\ passed' = passed \cup {priority}
  /\ priority' = NextLive(priority, game.lost)
  /\ CountIteration
  /\ UNCHANGED <<game, turnVars, pc, forceEnd>>

\* Everyone has passed on an empty stack: the window closes
PassAndClose ==
  /\ Asking
  /\ LastPass
  /\ game.stack = <<>>
  /\ pc' = "between"
  /\ UNCHANGED <<game, turnVars, windowVars, forceEnd>>

StartOver ==
  /\ passes' = 0
  /\ passed' = {}
  /\ CountIteration
  /\ UNCHANGED <<turnVars, pc, forceEnd>>

\* Everyone has passed: the object on top of the stack resolves
PassAndResolve ==
  /\ Asking
  /\ LastPass
  /\ game.stack # <<>>
  /\ \E g \in Resolutions(game) \cup {Undeclared(game)} : GameBecomes(g)
  /\ priority' = FirstLive(active, game'.lost)
  /\ StartOver

\* The resolution repeats an earlier state of the loop and nobody could have
\* broken it: a mandatory loop draws the game
PassAndRepeat ==
  /\ Asking
  /\ LastPass
  /\ game.stack # <<>>
  /\ \E g \in Resolutions(game) :
       /\ g.stack # <<>>
       /\ <<g.lost, g.modifiers, g.outcome>> = <<game.lost, game.modifiers, NoOutcome>>
       /\ GameBecomes(Drawn(g))
  /\ pc' = "between"
  /\ UNCHANGED <<turnVars, windowVars, forceEnd>>

\* The player's own object, a spell or an ability, which may use up a modifier,
\* or none (a land, mana)
Plays(g) == {g, Push(g, <<priority>>)} \cup Spent(g) \cup Spent(Push(g, <<priority>>))

\* TakeAction that leaves the passes of the others standing
TakeActionKeepsPasses ==
  /\ Asking
  /\ \E h \in Plays(game) : \E g \in Aftermath(h) : GameBecomes(g)
  /\ priority' = FirstLive(priority, game'.lost)
  /\ passes' = passes
  /\ passed' = {}
  /\ CountIteration
  /\ UNCHANGED <<turnVars, pc, forceEnd>>

\* TakeAction that lets the player who acted go on, live or not
TakeActionKeepsPriority ==
  /\ Asking
  /\ \E h \in Plays(game) : \E g \in Aftermath(h) : GameBecomes(g)
  /\ priority' = priority
  /\ StartOver

\* apply_priority_action: costs, triggers and state-based actions included
TakeAction ==
  /\ Asking
  /\ \E h \in Plays(game) : \E g \in Aftermath(h) : GameBecomes(g)
  /\ priority' = FirstLive(priority, game'.lost)
  /\ StartOver

\* The action has produced the same state, stack ids included, too often: it
\* counts as the player's pass
RepeatAction ==
  /\ Asking
  /\ actions >= MaxRepeats
  /\ passes' = 1
  /\ passed' = {priority}
  /\ priority' = NextLive(priority, game.lost)
  /\ CountIteration
  /\ UNCHANGED <<game, turnVars, pc, forceEnd>>

\* The next iteration finds the game over
WindowReturns ==
  /\ pc = "window"
  /\ actions < MaxActions
  /\ game.outcome # NoOutcome
  /\ pc' = "between"
  /\ UNCHANGED <<game, turnVars, windowVars, forceEnd>>

\* The loop has run out of iterations
LimitReached ==
  /\ pc = "window"
  /\ actions = MaxActions
  /\ forceEnd' = TRUE
  /\ pc' = "between"
  /\ UNCHANGED <<game, turnVars, windowVars>>

\* run has returned or failed: nothing more happens
Finished == pc \in {"over", "failed", "panicked"} /\ UNCHANGED vars

Next ==
  \/ StartTurn \/ DrawStep \/ PrecombatMain \/ BeginCombat \/ SkipCombat
  \/ DeclareAttackers \/ DeclareBlockers \/ FirstStrike \/ CombatDamage \/ CombatReturns
  \/ AnotherCombat \/ TooManyCombats \/ PostcombatMain \/ EndStep
  \/ Cleanup \/ ForcedEnd \/ LeaveTurn \/ NextTurn \/ GameOver
  \/ PassOn \/ PassAndClose \/ PassAndResolve \/ PassAndRepeat
  \/ TakeAction \/ RepeatAction \/ WindowReturns \/ LimitReached
  \/ Finished

Spec == Init /\ [][Next]_vars

-----------------------------------------------------------------------------
(* Properties.                                                              *)

\* The steps of a turn in their order
StepOrder == <<"untap", "upkeep", "draw", "precombatMain", "beginCombat", "declareAttackers",
               "declareBlockers", "firstStrike", "combatDamage", "postcombatMain", "endStep",
               "cleanup">>

PhaseOrder == <<"start", "window", "between", "combatDone", "turnDone", "over", "failed", "panicked">>

\* How far the game is: the turn, the combat phases of it, the step, the phase of
\* the step and the iterations of its window
Progress ==
  <<turn, combats, CHOOSE i \in DOMAIN StepOrder : StepOrder[i] = step,
    CHOOSE i \in DOMAIN PhaseOrder : PhaseOrder[i] = pc, actions>>

FurtherThan(s, t) ==
  \E i \in DOMAIN s : s[i] > t[i] /\ \A j \in 1..(i - 1) : s[j] = t[j]

\* Type correctness; the window never exceeds its iterations and the turn its bounds.
TypeOK ==
  /\ game \in Game
  /\ active \in Players
  /\ turn \in 1..(MaxTurns + 1)
  /\ step \in Range(StepOrder)
  /\ combats \in 0..MaxCombats
  /\ extra \in 0..MaxModifiers
  /\ pc \in Range(PhaseOrder)
  /\ priority \in Players
  /\ passes \in 0..NPlayers
  /\ actions \in 0..MaxActions
  /\ passed \in SUBSET Players
  /\ forceEnd \in BOOLEAN

\* Whoever a window asks is in the game: players lose while their own action or
\* another's object resolves, and the window moves on to a live player
\* (first_live_player_from, next_live_player_index in the loop).
PriorityIsLive ==
  pc = "window" /\ game.outcome = NoOutcome => priority \notin game.lost

\* When the next pass is the one that resolves the top object or closes the window,
\* every other player still in the game has passed since the last action or
\* resolution: counting passes against live_player_count skips nobody and counts
\* nobody twice when players leave in the middle of a round.
RoundsAreComplete ==
  pc = "window" /\ game.outcome = NoOutcome /\ LastPass =>
    Live(game.lost) \subseteq passed \cup {priority}

\* The game has an outcome exactly when at most one player is left, or it is a
\* draw; a decided game names the one left as winner and the others as losers
\* (eliminate_players).
OutcomeIsDecided ==
  LET live == Live(game.lost)
  IN /\ Cardinality(live) =< 1 => game.outcome # NoOutcome
     /\ game.outcome \notin {NoOutcome, Draw} =>
          /\ Cardinality(live) =< 1
          /\ game.outcome.losers = game.lost
          /\ game.outcome.winner \in (IF live = {} THEN {NoPlayer} ELSE live)

\* The game stops where it is decided: neither what an object still does, nor the
\* rest of its window, nor the forced end of the turn changes the outcome or who
\* has lost, no step but a forced cleanup follows, and no turn (the checks of the
\* outcome after every window of execute_turn and run_combat, and in run_next_turn).
GameStopsAtOutcome ==
  [][game.outcome # NoOutcome =>
       /\ <<game.outcome, game.lost, active, turn>>' = <<game.outcome, game.lost, active, turn>>
       /\ step' \in {step, "cleanup"}]_vars

\* Every game ends, whatever the players choose and the cards do: each step takes
\* the game further in a bounded lexicographic order, so no window, combat or turn
\* goes on for ever (the 512 iterations of a window, max_turns); with the absence
\* of deadlock this is termination.
EveryStepProgresses == [][FurtherThan(Progress', Progress)]_vars

-----------------------------------------------------------------------------
(* What the repository says and the code does not do.                       *)

\* A card's "takes an extra turn after this one": the next turn is a grantee's.
GrantedTurnIsNext ==
  [][turn' # turn /\ TurnGrantees \cap Live(game.lost) # {} => active' \in TurnGrantees]_vars

\* A card's "there is an additional combat phase": a phase that was granted and has
\* ended uses up its grant.
GrantedCombatIsUsedUp ==
  [][extra # 0 /\ extra' = 0 /\ pc' \in {"combatDone", "panicked"} =>
       Cardinality(CombatGrants(game'.modifiers)) < Cardinality(CombatGrants(game.modifiers))]_vars
=============================================================================
