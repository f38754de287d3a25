---------------------------- MODULE GameTurnProofs ----------------------------
(***************************************************************************)
(* Proofs about GameTurn: its types, priority stays with live players and  *)
(* rounds of passes are complete, the outcome names who is left, the game  *)
(* stops there, every step takes it further and its length is bounded; for *)
(* every number of seats, starting player and limit.                       *)
(***************************************************************************)
EXTENDS GameTurn, FiniteSums, SequenceTheorems, TLAPS

-------------------------------------------------------------------------------
(* Boards.                                                                 *)

\* What OutcomeIsDecided says of a board.
Decided(g) ==
  /\ Cardinality(Live(g.lost)) =< 1 => g.outcome # NoOutcome
  /\ g.outcome \notin {NoOutcome, Draw} =>
       /\ Cardinality(Live(g.lost)) =< 1
       /\ g.outcome.losers = g.lost
       /\ g.outcome.winner \in (IF Live(g.lost) = {} THEN {NoPlayer} ELSE Live(g.lost))

\* A board whose outcome is decided; what its stack and modifiers hold does not
\* matter to that.
Board(g) ==
  /\ g = [lost |-> g.lost, outcome |-> g.outcome, stack |-> g.stack, modifiers |-> g.modifiers]
  /\ g.lost \in SUBSET Players
  /\ Decided(g)

SameSeats(g, h) == h.lost = g.lost /\ h.outcome = g.outcome

LEMMA LiveFinite ==
  ASSUME NEW lost
  PROVE  /\ IsFiniteSet(Live(lost))
         /\ Cardinality(Live(lost)) \in Nat
         /\ Live(lost) \subseteq Players
         /\ IsFiniteSet(Players)
<1>1. IsFiniteSet(Players)
  BY GameAssumption, FS_Interval DEF Players
<1>2. Live(lost) \subseteq Players
  BY DEF Live
<1> QED BY <1>1, <1>2, FS_Subset, FS_CardinalityType

\* An outcome is not the absence of one.
LEMMA OutcomeApart ==
  ASSUME NEW w \in Players \cup {NoPlayer}, NEW L \in SUBSET Players
  PROVE  [winner |-> w, losers |-> L] # NoOutcome
<1>1. [winner |-> w, losers |-> L]
        \in [winner : Players \cup {NoPlayer}, losers : SUBSET Players]
  OBVIOUS
<1> QED BY <1>1, GameAssumption DEF Players

\* Changes of the stack and the modifiers.
LEMMA StackBoard ==
  ASSUME NEW g, Board(g), NEW x
  PROVE  /\ Board([g EXCEPT !.stack = x]) /\ SameSeats(g, [g EXCEPT !.stack = x])
         /\ Board([g EXCEPT !.modifiers = x]) /\ SameSeats(g, [g EXCEPT !.modifiers = x])
<1>1. PICK l, o, s, m : g = [lost |-> l, outcome |-> o, stack |-> s, modifiers |-> m]
  BY DEF Board
<1>2. [g EXCEPT !.stack = x] = [lost |-> l, outcome |-> o, stack |-> x, modifiers |-> m]
  BY <1>1
<1>3. [g EXCEPT !.modifiers = x] = [lost |-> l, outcome |-> o, stack |-> s, modifiers |-> x]
  BY <1>1
<1> QED BY <1>1, <1>2, <1>3 DEF Board, SameSeats, Decided

\* end_game_as_draw
LEMMA DrawnBoard ==
  ASSUME NEW g, Board(g)
  PROVE  Board(Drawn(g))
<1>1. PICK l, o, s, m : g = [lost |-> l, outcome |-> o, stack |-> s, modifiers |-> m]
  BY DEF Board
<1>2. Drawn(g) = IF o # NoOutcome THEN g
                 ELSE [lost |-> l, outcome |-> Draw, stack |-> s, modifiers |-> m]
  BY <1>1 DEF Drawn
<1>3. Draw # NoOutcome
  BY OutcomeApart DEF Draw
<1> QED BY <1>1, <1>2, <1>3 DEF Board, Decided

\* eliminate_players
LEMMA EliminateBoard ==
  ASSUME NEW g, Board(g), NEW L \in SUBSET Players, NEW h \in Eliminate(g, L)
  PROVE  Board(h)
<1> DEFINE lost == g.lost \cup L
           live == Live(lost)
           outcome == IF Cardinality(live) > 1 THEN NoOutcome ELSE Decision(lost)
           modifiers == Standing(g.modifiers, lost)
<1>1. CASE g.outcome # NoOutcome \/ L = {}
  BY <1>1 DEF Eliminate
<1>2. CASE g.outcome = NoOutcome /\ L # {}
  <2>0. h \in Departed(g, L, outcome)
    BY <1>2 DEF Eliminate
  <2>1. PICK stack : h = [g EXCEPT !.lost = lost, !.stack = stack, !.modifiers = modifiers,
                                   !.outcome = outcome]
    <3> HIDE DEF outcome
    <3> QED BY <2>0 DEF Departed
  <2>2. g = [lost |-> g.lost, outcome |-> g.outcome, stack |-> g.stack,
             modifiers |-> g.modifiers]
    BY DEF Board
  <2> HIDE DEF modifiers, outcome
  <2>3. h = [lost |-> lost, outcome |-> outcome, stack |-> stack, modifiers |-> modifiers]
    BY <2>1, <2>2
  <2>4. lost \in SUBSET Players /\ live \subseteq Players /\ Cardinality(live) \in Nat
    BY LiveFinite DEF Board
  <2> DEFINE winner == IF live = {} THEN NoPlayer ELSE CHOOSE p \in live : TRUE
  <2>5. winner \in (IF live = {} THEN {NoPlayer} ELSE live)
    OBVIOUS
  <2>6. Decision(lost) = [winner |-> winner, losers |-> lost]
    BY DEF Decision
  <2> HIDE DEF winner
  <2>7. Decision(lost) # NoOutcome
    BY <2>4, <2>5, <2>6, OutcomeApart
  <2>8. Decided(h)
    <3>1. h.lost = lost /\ h.outcome = outcome
      BY <2>3
    <3> HIDE DEF lost
    <3>2. CASE Cardinality(live) > 1
      BY <2>4, <3>1, <3>2 DEF Decided, outcome
    <3>3. CASE ~(Cardinality(live) > 1)
      <4>1. outcome = [winner |-> winner, losers |-> lost]
        BY <2>6, <3>3 DEF outcome
      <4>2. h.outcome.losers = lost /\ h.outcome.winner = winner /\ h.outcome # NoOutcome
        BY <2>6, <2>7, <3>1, <4>1
      <4> QED BY <2>4, <2>5, <3>1, <3>3, <4>2 DEF Decided
    <3> QED BY <3>2, <3>3
  <2> QED BY <2>3, <2>4, <2>8 DEF Board
<1> QED BY <1>1, <1>2

LEMMA PushBoard ==
  ASSUME NEW g, Board(g), NEW x
  PROVE  Board(Push(g, x)) /\ SameSeats(g, Push(g, x))
<1> DEFINE stack == g.stack \o x
<1>1. Push(g, x) = [g EXCEPT !.stack = stack]
  BY DEF Push
<1> HIDE DEF stack
<1>2. /\ Board([g EXCEPT !.stack = stack])
      /\ SameSeats(g, [g EXCEPT !.stack = stack])
  BY StackBoard
<1> QED BY <1>1, <1>2

LEMMA TriggeredBoard ==
  ASSUME NEW g, Board(g), NEW h \in Triggered(g)
  PROVE  Board(h) /\ SameSeats(g, h)
<1>1. PICK new : h = Push(g, new)
  BY DEF Triggered
<1> QED BY <1>1, PushBoard

LEMMA SpentBoard ==
  ASSUME NEW g, Board(g), NEW h \in Spent(g)
  PROVE  Board(h)
<1>1. PICK i : h = [g EXCEPT !.modifiers = RemoveAt(g.modifiers, i)]
  BY DEF Spent
<1> QED BY <1>1, StackBoard

LEMMA AftermathBoard ==
  ASSUME NEW g, Board(g), NEW h \in Aftermath(g)
  PROVE  Board(h)
<1>1. PICK t \in Triggered(g), L \in SUBSET Live(g.lost) : h \in Eliminate(t, L)
  BY DEF Aftermath
<1>2. L \in SUBSET Players
  BY <1>1, LiveFinite
<1> QED BY <1>1, <1>2, TriggeredBoard, EliminateBoard

LEMMA PlaysBoard ==
  ASSUME NEW g, Board(g), NEW h \in Plays(g)
  PROVE  Board(h)
<1>1. Board(Push(g, <<priority>>))
  BY PushBoard
<1> QED BY <1>1, SpentBoard DEF Plays

LEMMA GrantedBoard ==
  ASSUME NEW g, Board(g), NEW hands, NEW r \in Granted(g, hands)
  PROVE  Board(r)
<1>1. PICK m : r = [g EXCEPT !.modifiers = Append(g.modifiers, m)]
  BY DEF Granted
<1> QED BY <1>1, StackBoard

LEMMA CounteredBoard ==
  ASSUME NEW g, Board(g), NEW r \in Countered(g)
  PROVE  Board(r)
<1>1. PICK i : r = [g EXCEPT !.stack = RemoveAt(g.stack, i)]
  BY DEF Countered
<1> QED BY <1>1, StackBoard

LEMMA EffectsBoard ==
  ASSUME NEW g, Board(g), NEW c, NEW r \in Effects(g, c)
  PROVE  Board(r)
<1> DEFINE hands == Live(g.lost) \cup {c}
<1>1. \/ r \in {g, Drawn(g)} \cup Spent(g) \cup Granted(g, hands) \cup Countered(g)
      \/ \E p \in hands : r = Push(g, <<p>>)
      \/ r \in Triggered(g)
  BY DEF Effects
<1> HIDE DEF hands
<1> QED BY <1>1, DrawnBoard, SpentBoard, GrantedBoard, CounteredBoard, PushBoard,
       TriggeredBoard

LEMMA ResolutionsBoard ==
  ASSUME NEW g, Board(g), NEW r \in Resolutions(g)
  PROVE  Board(r)
<1> DEFINE c == Last(g.stack)
           stack == Front(g.stack)
           popped == [g EXCEPT !.stack = stack]
<1>1. \/ \E L \in SUBSET Live(g.lost) : \E h \in Eliminate(popped, L) : r \in Effects(h, c)
      \/ \E L \in SUBSET Live(g.lost), e \in Effects(popped, c) : r \in Eliminate(e, L)
  BY DEF Resolutions
<1> HIDE DEF stack
<1>2. Board(popped)
  BY StackBoard
<1>3. \A L \in SUBSET Live(g.lost) : L \in SUBSET Players
  BY LiveFinite
<1> HIDE DEF c, popped
<1>4. CASE \E L \in SUBSET Live(g.lost) : \E h \in Eliminate(popped, L) : r \in Effects(h, c)
  BY <1>2, <1>3, <1>4, EliminateBoard, EffectsBoard
<1>5. CASE \E L \in SUBSET Live(g.lost), e \in Effects(popped, c) : r \in Eliminate(e, L)
  BY <1>2, <1>3, <1>5, EliminateBoard, EffectsBoard
<1> QED BY <1>1, <1>4, <1>5

-------------------------------------------------------------------------------
(* Seats.                                                                  *)

LEMMA SeatType ==
  ASSUME NEW p \in Players, NEW k \in Nat
  PROVE  Seat(p, k) \in Players
BY GameAssumption DEF Seat, Players

\* Going round the table.
LEMMA SeatFacts ==
  ASSUME NEW p \in Players
  PROVE  /\ Seat(p, NPlayers) = p
         /\ \A q \in Players : \E k \in 1..NPlayers : Seat(p, k) = q
         /\ \A j, k \in 1..NPlayers : Seat(Seat(p, j), k) = Seat(p, j + k)
<1>1. NPlayers \in {2, 3, 4} /\ Players = 0..(NPlayers - 1)
  BY GameAssumption DEF Players
<1>2. CASE NPlayers = 2
  BY <1>1, <1>2 DEF Seat
<1>3. CASE NPlayers = 3
  BY <1>1, <1>3 DEF Seat
<1>4. CASE NPlayers = 4
  BY <1>1, <1>4 DEF Seat
<1> QED BY <1>1, <1>2, <1>3, <1>4

LEMMA NextLiveSeat ==
  ASSUME NEW p \in Players, NEW lost, Live(lost) # {}
  PROVE  \E k \in 1..NPlayers : /\ NextLive(p, lost) = Seat(p, k)
                                /\ Seat(p, k) \notin lost
                                /\ \A j \in 1..(k - 1) : Seat(p, j) \in lost
<1> DEFINE First(k) == /\ Seat(p, k) \notin lost
                       /\ \A j \in 1..(k - 1) : Seat(p, j) \in lost
<1>1. \E k \in 1..NPlayers : Seat(p, k) \notin lost
  BY SeatFacts DEF Live
<1>2. \E k \in 1..NPlayers : First(k)
  <2>1. NPlayers \in 2..4
    BY GameAssumption
  <2>2. CASE Seat(p, 1) \notin lost
    BY <2>1, <2>2
  <2>3. CASE Seat(p, 1) \in lost /\ Seat(p, 2) \notin lost
    BY <2>1, <2>3
  <2>4. CASE Seat(p, 1) \in lost /\ Seat(p, 2) \in lost /\ Seat(p, 3) \notin lost
    <3>1. NPlayers >= 3
      BY <1>1, <2>1, <2>4
    <3> QED BY <2>1, <2>4, <3>1
  <2>5. CASE Seat(p, 1) \in lost /\ Seat(p, 2) \in lost /\ Seat(p, 3) \in lost
    <3>1. NPlayers = 4 /\ Seat(p, 4) \notin lost
      BY <1>1, <2>1, <2>5
    <3> QED BY <2>5, <3>1
  <2> QED BY <2>2, <2>3, <2>4, <2>5
<1>3. NextLive(p, lost) = Seat(p, CHOOSE k \in 1..NPlayers : First(k))
  BY DEF NextLive
<1>4. PICK k \in 1..NPlayers : NextLive(p, lost) = Seat(p, k) /\ First(k)
  <2> HIDE DEF First
  <2> QED BY <1>2, <1>3
<1> QED BY <1>4

LEMMA NextLiveIsLive ==
  ASSUME NEW p \in Players, NEW lost
  PROVE  /\ NextLive(p, lost) \in Players
         /\ Live(lost) # {} => NextLive(p, lost) \in Live(lost)
<1>1. CASE Live(lost) = {}
  BY <1>1 DEF NextLive
<1>2. CASE Live(lost) # {}
  <2>1. PICK k \in 1..NPlayers : NextLive(p, lost) = Seat(p, k) /\ Seat(p, k) \notin lost
    BY <1>2, NextLiveSeat
  <2>2. k \in Nat
    BY GameAssumption
  <2>3. Seat(p, k) \in Players
    BY <2>2, SeatType
  <2> QED BY <2>1, <2>3 DEF Live
<1> QED BY <1>1, <1>2

LEMMA FirstLiveIsLive ==
  ASSUME NEW p \in Players, NEW lost
  PROVE  /\ FirstLive(p, lost) \in Players
         /\ Live(lost) # {} => FirstLive(p, lost) \in Live(lost)
BY NextLiveIsLive DEF FirstLive, Live

\* Going from live player to live player reaches them all.
LEMMA RoundIsAll ==
  ASSUME NEW lost, NEW S, S \subseteq Live(lost), S # {},
         \A q \in S : NextLive(q, lost) \in S
  PROVE  S = Live(lost)
<1>1. PICK p \in S : TRUE
  OBVIOUS
<1>2. p \in Players /\ S \subseteq Players /\ Live(lost) # {} /\ NPlayers \in 2..4
  BY GameAssumption DEF Live
<1> DEFINE Covered(k) == Seat(p, k) \in lost \/ Seat(p, k) \in S
\* From one member to the next, the seats between them being empty
<1>3. ASSUME NEW q \in S, NEW k \in 1..NPlayers,
             \A j \in 1..(k - 1) : Seat(q, j) \in lost
      PROVE  Seat(q, k) \in lost \/ Seat(q, k) \in S
  <2>1. PICK m \in 1..NPlayers : /\ NextLive(q, lost) = Seat(q, m)
                                 /\ Seat(q, m) \notin lost
                                 /\ \A j \in 1..(m - 1) : Seat(q, j) \in lost
    BY <1>2, NextLiveSeat
  <2>2. CASE m = k
    BY <2>1, <2>2
  <2>3. CASE m < k
    BY <1>3, <2>1, <2>3
  <2>4. CASE m > k
    BY <2>1, <2>4, <1>2
  <2> QED BY <2>2, <2>3, <2>4, <1>2
<1>4. \A j, k \in 1..NPlayers : Seat(Seat(p, j), k) = Seat(p, j + k)
  BY <1>2, SeatFacts
<1>5. Covered(1)
  BY <1>3, <1>2
<1>6. Covered(2)
  <2>1. CASE Seat(p, 1) \in S
    <3>1. Seat(Seat(p, 1), 1) = Seat(p, 2)
      BY <1>4, <1>2
    <3> QED BY <2>1, <3>1, <1>3, <1>2
  <2>2. CASE Seat(p, 1) \in lost
    BY <2>2, <1>3, <1>2
  <2> QED BY <1>5, <2>1, <2>2
<1>7. NPlayers >= 3 => Covered(3)
  <2> SUFFICES ASSUME NPlayers >= 3 PROVE Covered(3)
    OBVIOUS
  <2>1. CASE Seat(p, 2) \in S
    <3>1. Seat(Seat(p, 2), 1) = Seat(p, 3)
      BY <1>4, <1>2
    <3> QED BY <2>1, <3>1, <1>3, <1>2
  <2>2. CASE Seat(p, 1) \in S /\ Seat(p, 2) \in lost
    <3>1. Seat(Seat(p, 1), 1) = Seat(p, 2) /\ Seat(Seat(p, 1), 2) = Seat(p, 3)
      BY <1>4, <1>2
    <3> QED BY <2>2, <3>1, <1>3, <1>2
  <2>3. CASE Seat(p, 1) \in lost /\ Seat(p, 2) \in lost
    <3>1. 3 \in 1..NPlayers /\ \A j \in 1..(3 - 1) : Seat(p, j) \in lost
      BY <2>3, <1>2
    <3> QED BY <3>1, <1>3
  <2> QED BY <1>5, <1>6, <2>1, <2>2, <2>3
<1>8. NPlayers = 4 => Covered(4)
  <2>1. Seat(p, NPlayers) = p
    BY <1>2, SeatFacts
  <2> QED BY <2>1
<1>9. \A k \in 1..NPlayers : Covered(k)
  <2> HIDE DEF Covered
  <2> QED BY <1>2, <1>5, <1>6, <1>7, <1>8
<1>10. ASSUME NEW q \in Live(lost) PROVE q \in S
  <2>1. PICK k \in 1..NPlayers : Seat(p, k) = q
    BY <1>2, SeatFacts DEF Live
  <2> QED BY <2>1, <1>9 DEF Live
<1> QED BY <1>10

-------------------------------------------------------------------------------
(* The inductive invariant.                                                *)

\* In the round of passes of a window that still asks, those who have passed are
\* as many as counted and sit one after the other up to the player asked now.
Round ==
  pc = "window" /\ game.outcome = NoOutcome =>
    /\ priority \in Live(game.lost)
    /\ passed \subseteq Live(game.lost)
    /\ priority \notin passed
    /\ passes = Cardinality(passed)
    /\ \A q \in passed : NextLive(q, game.lost) \in passed \cup {priority}

\* Where a turn is when it starts and when its combats are over.
Schedule ==
  /\ turn \in Nat /\ combats \in Nat /\ actions \in Nat
  /\ step \in {"untap", "upkeep", "draw", "precombatMain", "postcombatMain", "endStep",
               "cleanup"} \cup CombatSteps
  /\ pc \in {"start", "window", "between", "combatDone", "turnDone", "over", "failed",
             "panicked"}
  /\ pc = "start" => step = "untap" /\ game.outcome = NoOutcome
  /\ pc = "combatDone" => step \in {"precombatMain"} \cup CombatSteps

IInv == Board(game) /\ active \in Players /\ Round /\ Schedule

\* The initial state.
LEMMA InitIInv == Init => IInv
<1> SUFFICES ASSUME Init PROVE IInv
  OBVIOUS
<1>1. Live({}) = Players /\ Cardinality(Players) = NPlayers
  BY GameAssumption, FS_Interval DEF Live, Players
<1>2. Board(game)
  BY <1>1, GameAssumption DEF Init, Board, Decided
<1>3. active \in Players
  BY GameAssumption DEF Init, Players
<1>4. Round /\ Schedule
  BY DEF Init, Round, Schedule
<1> QED BY <1>2, <1>3, <1>4 DEF IInv

\* A board with more than one player left has somebody to ask.
LEMMA SomeoneLeft ==
  ASSUME NEW g, Board(g), g.outcome = NoOutcome
  PROVE  Live(g.lost) # {} /\ Cardinality(Live(g.lost)) > 1
<1>1. Cardinality(Live(g.lost)) \in Nat
  BY LiveFinite
<1>2. ~(Cardinality(Live(g.lost)) =< 1)
  BY DEF Board, Decided
<1> QED BY <1>1, <1>2, FS_EmptySet

\* A step that opens a window.
LEMMA EnterBoard ==
  ASSUME NEW s, NEW boards, \A g \in boards : Board(g), EnterStep(s, boards)
  PROVE  Board(game')
BY DEF EnterStep, GameBecomes

LEMMA OpenRound ==
  ASSUME active \in Players, Board(game'), OpenWindow
  PROVE  Round'
<1> SUFFICES ASSUME game'.outcome = NoOutcome PROVE Round'
  BY DEF Round
<1>1. Live(game'.lost) # {}
  BY SomeoneLeft
<1>2. FirstLive(active, game'.lost) \in Live(game'.lost)
  BY <1>1, FirstLiveIsLive
<1> QED BY <1>2, FS_EmptySet DEF OpenWindow, Round

\* Every step keeps the outcome of the board decided.
LEMMA BoardStep == IInv /\ [Next]_vars => Board(game')
<1> SUFFICES ASSUME IInv, [Next]_vars PROVE Board(game')
  OBVIOUS
<1>0. Board(game)
  BY DEF IInv
<1>1. \A g \in Triggered(game) \cup Aftermath(game) : Board(g)
  BY <1>0, TriggeredBoard, AftermathBoard
<1>2. CASE UNCHANGED game
  BY <1>0, <1>2
<1>3. CASE \E s : EnterStep(s, Triggered(game)) \/ EnterStep(s, Aftermath(game))
  BY <1>1, <1>3, EnterBoard
<1>4. CASE StartTurn \/ DrawStep \/ PrecombatMain \/ BeginCombat \/ DeclareAttackers
           \/ DeclareBlockers \/ FirstStrike \/ AnotherCombat \/ PostcombatMain \/ EndStep
  BY <1>3, <1>4 DEF StartTurn, DrawStep, PrecombatMain, BeginCombat, DeclareAttackers,
       DeclareBlockers, FirstStrike, AnotherCombat, PostcombatMain, EndStep
<1>5. CASE CombatDamage \/ Cleanup
  BY <1>1, <1>5 DEF CombatDamage, Cleanup, GameBecomes
<1>6. CASE CombatReturns
  <2> DEFINE modifiers == RemoveAt(game.modifiers, extra)
  <2>1. UNCHANGED game \/ game' = [game EXCEPT !.modifiers = modifiers]
    BY <1>6 DEF CombatReturns
  <2> HIDE DEF modifiers
  <2>2. Board([game EXCEPT !.modifiers = modifiers])
    BY <1>0, StackBoard
  <2> QED BY <1>2, <2>1, <2>2
<1>7. CASE ForcedEnd
  <2>1. PICK new : game' = [game EXCEPT !.stack = new]
    BY <1>7 DEF ForcedEnd, GameBecomes
  <2>2. Board([game EXCEPT !.stack = new])
    BY <1>0, StackBoard
  <2> QED BY <2>1, <2>2
<1>8. CASE NextTurn
  <2>1. Board([game EXCEPT !.modifiers = <<>>])
    BY <1>0, StackBoard
  <2> QED BY <1>8, <2>1 DEF NextTurn
<1>9. CASE PassAndResolve
  <2>1. Board(Undeclared(game))
    BY <1>0, StackBoard DEF Undeclared
  <2> QED BY <1>0, <1>9, <2>1, ResolutionsBoard DEF PassAndResolve, GameBecomes
<1>10. CASE PassAndRepeat
  BY <1>0, <1>10, ResolutionsBoard, DrawnBoard DEF PassAndRepeat, GameBecomes
<1>11. CASE TakeAction
  BY <1>0, <1>11, PlaysBoard, AftermathBoard DEF TakeAction, GameBecomes
<1>12. CASE SkipCombat \/ TooManyCombats \/ LeaveTurn \/ GameOver \/ PassOn \/ PassAndClose
            \/ RepeatAction \/ WindowReturns \/ LimitReached \/ Finished \/ UNCHANGED vars
  BY <1>2, <1>12 DEF SkipCombat, TooManyCombats, LeaveTurn, GameOver, PassOn, PassAndClose,
       RepeatAction, WindowReturns, LimitReached, Finished, vars
<1> QED BY <1>4, <1>5, <1>6, <1>7, <1>8, <1>9, <1>10, <1>11, <1>12 DEF Next

\* Every step keeps the round of passes in order.
LEMMA RoundStep == IInv /\ Board(game') /\ [Next]_vars => Round'
<1> SUFFICES ASSUME IInv, Board(game'), [Next]_vars PROVE Round'
  OBVIOUS
<1>0. Board(game) /\ active \in Players /\ Round
  BY DEF IInv
<1>1. CASE OpenWindow
  BY <1>0, <1>1, OpenRound
<1>2. CASE pc' # "window"
  BY <1>2 DEF Round
<1>3. CASE StartTurn \/ DrawStep \/ PrecombatMain \/ BeginCombat \/ DeclareAttackers
           \/ DeclareBlockers \/ FirstStrike \/ AnotherCombat \/ PostcombatMain \/ EndStep
  BY <1>1, <1>3 DEF StartTurn, DrawStep, PrecombatMain, BeginCombat, DeclareAttackers,
       DeclareBlockers, FirstStrike, AnotherCombat, PostcombatMain, EndStep, EnterStep
<1>4. CASE SkipCombat \/ CombatDamage \/ CombatReturns \/ TooManyCombats \/ Cleanup
           \/ ForcedEnd \/ LeaveTurn \/ NextTurn \/ GameOver \/ PassAndClose
           \/ PassAndRepeat \/ WindowReturns \/ LimitReached
  BY <1>2, <1>4 DEF SkipCombat, CombatDamage, CombatReturns, TooManyCombats, Cleanup,
       ForcedEnd, LeaveTurn, NextTurn, GameOver, PassAndClose, PassAndRepeat,
       WindowReturns, LimitReached, Proceeds
\* Who is asked, as long as the window asks
<1>5. ASSUME Asking
      PROVE  /\ priority \in Players /\ priority \in Live(game.lost)
             /\ passed \subseteq Live(game.lost) /\ priority \notin passed
             /\ passes = Cardinality(passed) /\ IsFiniteSet(passed)
             /\ Cardinality(Live(game.lost)) > 1
             /\ NextLive(priority, game.lost) \in Live(game.lost)
  <2>1. priority \in Live(game.lost) /\ passed \subseteq Live(game.lost)
        /\ priority \notin passed /\ passes = Cardinality(passed)
    BY <1>0, <1>5 DEF Asking, Round
  <2>2. IsFiniteSet(passed) /\ priority \in Players
    BY <2>1, LiveFinite, FS_Subset DEF Live
  <2>3. Cardinality(Live(game.lost)) > 1
    BY <1>0, <1>5, SomeoneLeft DEF Asking
  <2> QED BY <2>1, <2>2, <2>3, NextLiveIsLive
<1>6. CASE PassOn
  <2> DEFINE all == passed \cup {priority}
             next == NextLive(priority, game.lost)
  <2>1. Asking /\ ~LastPass /\ UNCHANGED game /\ passes' = passes + 1
        /\ passed' = all /\ priority' = next
    BY <1>6 DEF PassOn
  <2>2. Cardinality(all) = passes + 1
    BY <1>5, <2>1, FS_AddElement
  <2>3. \A q \in passed : NextLive(q, game.lost) \in all
    BY <1>0, <2>1 DEF Asking, Round
  <2>4. next \notin all
    <3> SUFFICES ASSUME next \in all PROVE FALSE
      OBVIOUS
    <3>1. all \subseteq Live(game.lost) /\ all # {} /\ \A q \in all : NextLive(q, game.lost) \in all
      BY <1>5, <2>1, <2>3
    <3>2. all = Live(game.lost)
      <4> HIDE DEF all
      <4> QED BY <3>1, RoundIsAll
    <3> QED BY <2>1, <2>2, <3>2 DEF LastPass
  <2>5. \A q \in all : NextLive(q, game.lost) \in all \cup {next}
    BY <2>3
  <2> QED BY <1>5, <2>1, <2>2, <2>4, <2>5 DEF Round
<1>7. CASE RepeatAction
  <2> DEFINE next == NextLive(priority, game.lost)
  <2>1. Asking /\ UNCHANGED game /\ passes' = 1 /\ passed' = {priority} /\ priority' = next
    BY <1>7 DEF RepeatAction
  <2>2. Cardinality({priority}) = 1
    BY FS_Singleton
  <2>3. next # priority
    <3> SUFFICES ASSUME next = priority PROVE FALSE
      OBVIOUS
    <3>1. {priority} = Live(game.lost)
      BY <1>5, <2>1, RoundIsAll
    <3> QED BY <1>5, <2>1, <2>2, <3>1
  <2> QED BY <1>5, <2>1, <2>2, <2>3 DEF Round
\* A round starts over with a player who is in the game
<1>8. ASSUME game'.outcome = NoOutcome => priority' \in Live(game'.lost),
             passes' = 0, passed' = {}
      PROVE  Round'
  BY <1>8, FS_EmptySet DEF Round
<1>9. game'.outcome = NoOutcome => Live(game'.lost) # {}
  BY SomeoneLeft
<1>10. CASE PassAndResolve
  BY <1>0, <1>8, <1>9, <1>10, FirstLiveIsLive DEF PassAndResolve, StartOver
<1>11. CASE TakeAction
  BY <1>5, <1>8, <1>9, <1>11, FirstLiveIsLive DEF TakeAction, StartOver
<1>12. CASE Finished \/ UNCHANGED vars
  BY <1>0, <1>12 DEF Finished, vars, windowVars, turnVars, Round
<1> QED BY <1>3, <1>4, <1>6, <1>7, <1>10, <1>11, <1>12 DEF Next

\* Every step keeps the schedule of the turn.
LEMMA ScheduleStep == IInv /\ [Next]_vars => Schedule' /\ active' \in Players
<1> SUFFICES ASSUME IInv, [Next]_vars PROVE Schedule' /\ active' \in Players
  OBVIOUS
<1>0. Schedule /\ active \in Players
  BY DEF IInv
<1>1. CASE StartTurn \/ DrawStep \/ PrecombatMain \/ BeginCombat \/ DeclareAttackers
           \/ DeclareBlockers \/ FirstStrike \/ PostcombatMain \/ EndStep
  BY <1>0, <1>1 DEF StartTurn, DrawStep, PrecombatMain, BeginCombat, DeclareAttackers,
       DeclareBlockers, FirstStrike, PostcombatMain, EndStep, EnterStep, OpenWindow,
       combatVars, Schedule, CombatSteps
<1>2. CASE AnotherCombat
  BY <1>0, <1>2 DEF AnotherCombat, EnterStep, OpenWindow, Schedule, CombatSteps
<1>3. CASE SkipCombat \/ CombatDamage \/ CombatReturns \/ TooManyCombats
  BY <1>0, <1>3 DEF SkipCombat, CombatDamage, CombatReturns, TooManyCombats, Proceeds,
       Schedule, CombatSteps, turnVars, combatVars, windowVars
<1>4. CASE Cleanup \/ ForcedEnd \/ LeaveTurn \/ GameOver
  BY <1>0, <1>4 DEF Cleanup, ForcedEnd, LeaveTurn, GameOver, Schedule, CombatSteps,
       turnVars, combatVars, windowVars
<1>5. CASE NextTurn
  <2>1. active' \in Players
    BY <1>0, <1>5, NextLiveIsLive DEF NextTurn
  <2>2. game'.outcome = NoOutcome
    <3>1. game' = [game EXCEPT !.modifiers = <<>>] /\ game.outcome = NoOutcome
      BY <1>5 DEF NextTurn
    <3>2. SameSeats(game, game')
      BY <3>1, StackBoard DEF IInv
    <3> QED BY <3>1, <3>2 DEF SameSeats
  <2> QED BY <1>0, <1>5, <2>1, <2>2 DEF NextTurn, Schedule, windowVars
<1>6. CASE PassOn \/ RepeatAction \/ PassAndResolve \/ TakeAction
  BY <1>0, <1>6 DEF PassOn, RepeatAction, PassAndResolve, TakeAction, StartOver,
       CountIteration, Asking, Schedule, turnVars, combatVars
<1>7. CASE PassAndClose \/ PassAndRepeat \/ WindowReturns \/ LimitReached
  BY <1>0, <1>7 DEF PassAndClose, PassAndRepeat, WindowReturns, LimitReached, Schedule,
       turnVars, combatVars, windowVars
<1>8. CASE Finished \/ UNCHANGED vars
  BY <1>0, <1>8 DEF Finished, vars, Schedule, turnVars, combatVars, windowVars
<1> QED BY <1>1, <1>2, <1>3, <1>4, <1>5, <1>6, <1>7, <1>8 DEF Next

\* The invariant is inductive.
LEMMA Inductive == Spec => []IInv
<1>1. Init => IInv
  BY InitIInv
<1>2. IInv /\ [Next]_vars => IInv'
  BY BoardStep, RoundStep, ScheduleStep DEF IInv
<1> QED BY <1>1, <1>2, PTL DEF Spec

-------------------------------------------------------------------------------
(* Types.                                                                  *)

\* k is the function of Kept(s, places) for the first n elements.
Keeps(k, s, places, n) ==
  k = [i \in 0..n |-> IF i = 0 THEN <<>>
                      ELSE IF i \in places THEN Append(k[i - 1], s[i]) ELSE k[i - 1]]

LEMMA KeepsExists ==
  ASSUME NEW s, NEW places
  PROVE  \A n \in Nat : \E k : Keeps(k, s, places, n)
<1> DEFINE T == {n \in Nat : \E k : Keeps(k, s, places, n)}
<1>1. 0 \in T
  <2> DEFINE k == [i \in 0..0 |-> <<>>]
  <2>1. Keeps(k, s, places, 0)
    BY DEF Keeps
  <2> QED BY <2>1
<1>2. ASSUME NEW n \in T PROVE n + 1 \in T
  <2>1. PICK k : Keeps(k, s, places, n)
    OBVIOUS
  <2> DEFINE g == [i \in 0..(n + 1) |->
                    IF i = 0 THEN <<>>
                    ELSE IF i \in places THEN Append(k[i - 1], s[i]) ELSE k[i - 1]]
  <2>2. n \in Nat
    OBVIOUS
  <2>3. \A i \in 0..n : k[i] = IF i = 0 THEN <<>>
                               ELSE IF i \in places THEN Append(k[i - 1], s[i]) ELSE k[i - 1]
    BY <2>1 DEF Keeps
  <2>4. \A i \in 0..n : g[i] = k[i]
    BY <2>2, <2>3
  <2>5. \A i \in 0..(n + 1) : i = 0 \/ g[i - 1] = k[i - 1]
    <3>1. \A i \in 0..(n + 1) : i = 0 \/ i - 1 \in 0..n
      BY <2>2
    <3> HIDE DEF g
    <3> QED BY <2>4, <3>1
  <2>6. g = [i \in 0..(n + 1) |-> IF i = 0 THEN <<>>
                                  ELSE IF i \in places THEN Append(g[i - 1], s[i]) ELSE g[i - 1]]
    <3> DEFINE At(f, i) == IF i = 0 THEN <<>>
                           ELSE IF i \in places THEN Append(f[i - 1], s[i]) ELSE f[i - 1]
    <3>1. \A i \in 0..(n + 1) : At(g, i) = At(k, i)
      <4> HIDE DEF g
      <4> QED BY <2>5
    <3>2. g = [i \in 0..(n + 1) |-> At(k, i)]
      OBVIOUS
    <3> HIDE DEF At, g
    <3>3. g = [i \in 0..(n + 1) |-> At(g, i)]
      BY <3>1, <3>2
    <3> QED BY <3>3 DEF At
  <2> HIDE DEF g
  <2>7. Keeps(g, s, places, n + 1)
    BY <2>6 DEF Keeps
  <2> QED BY <2>2, <2>7
<1> HIDE DEF T
<1>3. T = Nat
  BY <1>1, <1>2, SetOfNaturals DEF T
<1> QED BY <1>3 DEF T

\* What is kept of a sequence is a sequence of its elements.
LEMMA KeptType ==
  ASSUME NEW S, NEW s \in Seq(S), NEW places
  PROVE  Kept(s, places) \in Seq(S)
<1> DEFINE k == CHOOSE k : Keeps(k, s, places, Len(s))
           T == {n \in Nat : n =< Len(s) => k[n] \in Seq(S)}
<1>1. Len(s) \in Nat /\ \A n \in 1..Len(s) : s[n] \in S
  OBVIOUS
<1>2. Keeps(k, s, places, Len(s))
  BY <1>1, KeepsExists
<1>3. Kept(s, places) = k[Len(s)]
  BY DEF Kept, Keeps
<1> HIDE DEF k
<1>4. \A n \in 0..Len(s) :
        k[n] = IF n = 0 THEN <<>>
               ELSE IF n \in places THEN Append(k[n - 1], s[n]) ELSE k[n - 1]
  BY <1>2 DEF Keeps
<1>5. 0 \in T
  <2>1. k[0] = <<>>
    BY <1>1, <1>4
  <2> QED BY <2>1, EmptySeq
<1>6. ASSUME NEW n \in T PROVE n + 1 \in T
  <2> SUFFICES ASSUME n + 1 =< Len(s)
               PROVE  k[n + 1] \in Seq(S)
    OBVIOUS
  <2>1. k[n] \in Seq(S) /\ n \in Nat /\ s[n + 1] \in S
    BY <1>1
  <2>2. k[n + 1] = IF n + 1 \in places THEN Append(k[n], s[n + 1]) ELSE k[n]
    BY <1>1, <1>4, <2>1
  <2>3. CASE n + 1 \in places
    BY <2>1, <2>2, <2>3
  <2>4. CASE n + 1 \notin places
    BY <2>1, <2>2, <2>4
  <2> QED BY <2>3, <2>4
<1> HIDE DEF T
<1>7. T = Nat
  BY <1>5, <1>6, SetOfNaturals DEF T
<1>8. Len(s) \in T
  BY <1>1, <1>7
<1> QED BY <1>1, <1>3, <1>8 DEF T

LEMMA RemoveAtType ==
  ASSUME NEW S, NEW s \in Seq(S), NEW i \in 1..Len(s)
  PROVE  RemoveAt(s, i) \in Seq(S) /\ Len(RemoveAt(s, i)) = Len(s) - 1
<1> DEFINE l == SubSeq(s, 1, i - 1)
           r == SubSeq(s, i + 1, Len(s))
<1>1. Len(s) \in Nat /\ i \in Nat
  OBVIOUS
<1>2. l \in Seq(S) /\ Len(l) = i - 1
  BY <1>1
<1>3. r \in Seq(S) /\ Len(r) = Len(s) - i
  BY <1>1
<1>4. RemoveAt(s, i) = l \o r
  BY DEF RemoveAt
<1> HIDE DEF l, r
<1>5. l \o r \in Seq(S) /\ Len(l \o r) = Len(l) + Len(r)
  BY <1>2, <1>3, ConcatProperties
<1> QED BY <1>1, <1>2, <1>3, <1>4, <1>5

\* The board by its fields.
LEMMA GameFields ==
  ASSUME NEW g \in Game
  PROVE  /\ g.lost \in SUBSET Players /\ g.outcome \in Outcomes \cup {NoOutcome}
         /\ g.stack \in Seq(Players) /\ g.modifiers \in Seq(Modifiers)
         /\ \A x \in Seq(Players) : [g EXCEPT !.stack = x] \in Game
         /\ \A x \in Seq(Modifiers) : [g EXCEPT !.modifiers = x] \in Game
         /\ Live(g.lost) \subseteq Players
BY DEF Game, Live

LEMMA DrawnType ==
  ASSUME NEW g \in Game
  PROVE  Drawn(g) \in Game
BY DEF Drawn, Draw, Game, Outcomes

LEMMA TriggersType ==
  ASSUME NEW lost, NEW new \in Triggers(lost)
  PROVE  new \in Seq(Players)
<1>1. new = <<>> \/ \E p \in Live(lost) : new = <<p>>
  BY DEF Triggers
<1>2. \A p \in Players : <<p>> \in Seq(Players)
  OBVIOUS
<1>3. Live(lost) \subseteq Players
  BY DEF Live
<1>4. <<>> \in Seq(Players)
  BY EmptySeq
<1>5. CASE \E p \in Live(lost) : new = <<p>>
  <2>1. PICK p \in Players : new = <<p>>
    BY <1>3, <1>5
  <2> QED BY <1>2, <2>1
<1> QED BY <1>1, <1>4, <1>5

LEMMA StacksLeftType ==
  ASSUME NEW g \in Game, NEW L, NEW s \in StacksLeft(g, L)
  PROVE  s \in Seq(Players)
<1>1. PICK left \in Remaining(g, L), new \in Inherited(g, L) : s = left \o new
  BY DEF StacksLeft
<1>2. left \in Seq(Players)
  BY GameFields, KeptType DEF Remaining
<1>3. new \in Seq(Players)
  <2>1. new \in Triggers(g.lost \cup L) \/ new = <<>>
    BY DEF Inherited
  <2> QED BY <2>1, TriggersType, EmptySeq
<1> QED BY <1>1, <1>2, <1>3, ConcatProperties

\* eliminate_players leaves a board: it takes objects and modifiers away, and adds
\* what an inherited permanent triggers.
LEMMA EliminateType ==
  ASSUME NEW g \in Game, NEW L \in SUBSET Players, NEW h \in Eliminate(g, L)
  PROVE  h \in Game
<1> DEFINE lost == g.lost \cup L
           live == Live(lost)
           outcome == IF Cardinality(live) > 1 THEN NoOutcome ELSE Decision(lost)
           modifiers == Standing(g.modifiers, lost)
<1>1. CASE g.outcome # NoOutcome \/ L = {}
  BY <1>1 DEF Eliminate
<1>2. CASE g.outcome = NoOutcome /\ L # {}
  <2>0. h \in Departed(g, L, outcome)
    BY <1>2 DEF Eliminate
  <2>1. PICK stack \in StacksLeft(g, L) :
          h = [g EXCEPT !.lost = lost, !.stack = stack, !.modifiers = modifiers,
                        !.outcome = outcome]
    <3> HIDE DEF outcome
    <3> QED BY <2>0 DEF Departed
  <2>2. lost \in SUBSET Players /\ live \subseteq Players
    BY GameFields, LiveFinite
  <2>3. outcome \in Outcomes \cup {NoOutcome}
    <3> DEFINE winner == IF live = {} THEN NoPlayer ELSE CHOOSE p \in live : TRUE
    <3>1. winner \in Players \cup {NoPlayer}
      BY <2>2
    <3>2. Decision(lost) = [winner |-> winner, losers |-> lost]
      BY DEF Decision
    <3> HIDE DEF winner
    <3> QED BY <2>2, <3>1, <3>2 DEF Outcomes
  <2>4. stack \in Seq(Players)
    BY StacksLeftType
  <2>5. modifiers \in Seq(Modifiers)
    BY GameFields, KeptType DEF Standing
  <2> HIDE DEF lost, outcome, modifiers
  <2> QED BY <2>1, <2>2, <2>3, <2>4, <2>5 DEF Game
<1> QED BY <1>1, <1>2

LEMMA PushType ==
  ASSUME NEW g \in Game, NEW x \in Seq(Players)
  PROVE  Push(g, x) \in Game
<1> DEFINE stack == g.stack \o x
<1>1. stack \in Seq(Players)
  BY GameFields, ConcatProperties
<1>2. Push(g, x) = [g EXCEPT !.stack = stack]
  BY DEF Push
<1> HIDE DEF stack
<1> QED BY <1>1, <1>2, GameFields

LEMMA TriggeredType ==
  ASSUME NEW g \in Game, NEW h \in Triggered(g)
  PROVE  h \in Game
BY TriggersType, PushType DEF Triggered

LEMMA AftermathType ==
  ASSUME NEW g \in Game, NEW h \in Aftermath(g)
  PROVE  h \in Game
<1>1. PICK t \in Triggered(g), L \in SUBSET Live(g.lost) : h \in Eliminate(t, L)
  BY DEF Aftermath
<1> QED BY <1>1, GameFields, TriggeredType, EliminateType

LEMMA SpentType ==
  ASSUME NEW g \in Game, NEW h \in Spent(g)
  PROVE  h \in Game
<1>0. DOMAIN g.modifiers = 1..Len(g.modifiers)
  <2>1. g.modifiers \in Seq(Modifiers)
    BY GameFields
  <2> QED BY <2>1
<1>1. PICK i \in 1..Len(g.modifiers) : h = [g EXCEPT !.modifiers = RemoveAt(g.modifiers, i)]
  BY <1>0 DEF Spent
<1>2. RemoveAt(g.modifiers, i) \in Seq(Modifiers)
  BY GameFields, RemoveAtType
<1> QED BY <1>1, <1>2, GameFields

LEMMA PlaysType ==
  ASSUME NEW g \in Game, priority \in Players, NEW h \in Plays(g)
  PROVE  h \in Game
<1>1. Push(g, <<priority>>) \in Game
  <2>1. <<priority>> \in Seq(Players)
    OBVIOUS
  <2> QED BY <2>1, PushType
<1> QED BY <1>1, SpentType DEF Plays

LEMMA EffectsType ==
  ASSUME NEW g \in Game, NEW c \in Players, NEW r \in Effects(g, c)
  PROVE  r \in Game
<1> DEFINE hands == Live(g.lost) \cup {c}
<1>1. hands \subseteq Players
  BY GameFields
<1>2. \/ r \in {g, Drawn(g)} \cup Spent(g) \cup Granted(g, hands) \cup Countered(g)
      \/ \E p \in hands : r = Push(g, <<p>>)
      \/ r \in Triggered(g)
  BY DEF Effects
<1> HIDE DEF hands
<1>3. CASE r \in Granted(g, hands)
  <2>1. PICK m \in [kind : {"extraTurn", "combat", "other"}, of : hands] :
          r = [g EXCEPT !.modifiers = Append(g.modifiers, m)]
    BY <1>3 DEF Granted
  <2>2. m \in Modifiers
    BY <1>1, <2>1 DEF Modifiers
  <2>3. Append(g.modifiers, m) \in Seq(Modifiers)
    BY <2>2, GameFields
  <2> QED BY <2>1, <2>3, GameFields
<1>4. CASE r \in Countered(g)
  <2>0. DOMAIN g.stack = 1..Len(g.stack)
    <3>1. g.stack \in Seq(Players)
      BY GameFields
    <3> QED BY <3>1
  <2>1. PICK i \in 1..Len(g.stack) : r = [g EXCEPT !.stack = RemoveAt(g.stack, i)]
    BY <1>4, <2>0 DEF Countered
  <2>2. RemoveAt(g.stack, i) \in Seq(Players)
    BY GameFields, RemoveAtType
  <2> QED BY <2>1, <2>2, GameFields
<1>5. CASE \E p \in hands : r = Push(g, <<p>>)
  <2>1. PICK p \in Players : r = Push(g, <<p>>)
    BY <1>1, <1>5
  <2>2. <<p>> \in Seq(Players)
    OBVIOUS
  <2> QED BY <2>1, <2>2, PushType
<1> QED BY <1>2, <1>3, <1>4, <1>5, DrawnType, SpentType, TriggeredType

\* The object on top is of a player, and what is below it is a stack.
LEMMA TopType ==
  ASSUME NEW g \in Game, g.stack # <<>>
  PROVE  /\ Last(g.stack) \in Players
         /\ Front(g.stack) \in Seq(Players)
         /\ [g EXCEPT !.stack = Front(g.stack)] \in Game
<1>1. g.stack \in Seq(Players) /\ Len(g.stack) \in Nat \ {0}
  BY GameFields
<1>2. Last(g.stack) \in Players /\ Front(g.stack) \in Seq(Players)
  BY <1>1 DEF Last, Front
<1> QED BY <1>2, GameFields

LEMMA ResolutionsType ==
  ASSUME NEW g \in Game, g.stack # <<>>, NEW r \in Resolutions(g)
  PROVE  r \in Game
<1> DEFINE c == Last(g.stack)
           popped == [g EXCEPT !.stack = Front(g.stack)]
<1>1. \/ \E L \in SUBSET Live(g.lost) : \E h \in Eliminate(popped, L) : r \in Effects(h, c)
      \/ \E L \in SUBSET Live(g.lost), e \in Effects(popped, c) : r \in Eliminate(e, L)
  BY DEF Resolutions
<1>2. c \in Players /\ popped \in Game
  BY TopType
<1>3. \A L \in SUBSET Live(g.lost) : L \in SUBSET Players
  BY GameFields
<1> HIDE DEF c, popped
<1> QED BY <1>1, <1>2, <1>3, EliminateType, EffectsType

\* TypeOK with what keeps it: the modifiers are within their bound, so is the index
\* of one, and a game that goes on has not had its last turn.
TypeInv ==
  /\ TypeOK
  /\ Len(game.modifiers) =< MaxModifiers
  /\ turn = MaxTurns + 1 => pc = "over"

\* The ranges of the two orders.
LEMMA OrderRanges ==
  /\ Range(StepOrder) = {"untap", "upkeep", "draw", "precombatMain", "postcombatMain",
                         "endStep", "cleanup"} \cup CombatSteps
  /\ Range(PhaseOrder) = {"start", "window", "between", "combatDone", "turnDone", "over",
                          "failed", "panicked"}
<1>1. DOMAIN StepOrder = 1..12 /\ DOMAIN PhaseOrder = 1..8
  BY DEF StepOrder, PhaseOrder
<1>2. Range(StepOrder) = {StepOrder[i] : i \in 1..12}
  BY <1>1 DEF Range
<1>3. Range(PhaseOrder) = {PhaseOrder[i] : i \in 1..8}
  BY <1>1 DEF Range
<1>4. 1..12 = {1, 2, 3, 4, 5, 6, 7, 8, 9, 10, 11, 12} /\ 1..8 = {1, 2, 3, 4, 5, 6, 7, 8}
  OBVIOUS
<1>5. Range(StepOrder) = {StepOrder[1], StepOrder[2], StepOrder[3], StepOrder[4],
                          StepOrder[5], StepOrder[6], StepOrder[7], StepOrder[8],
                          StepOrder[9], StepOrder[10], StepOrder[11], StepOrder[12]}
  BY <1>2, <1>4
<1>6. Range(PhaseOrder) = {PhaseOrder[1], PhaseOrder[2], PhaseOrder[3], PhaseOrder[4],
                           PhaseOrder[5], PhaseOrder[6], PhaseOrder[7], PhaseOrder[8]}
  BY <1>3, <1>4
<1>7. Range(StepOrder) = {"untap", "upkeep", "draw", "precombatMain", "beginCombat",
                          "declareAttackers", "declareBlockers", "firstStrike",
                          "combatDamage", "postcombatMain", "endStep", "cleanup"}
  BY <1>5 DEF StepOrder
<1>8. Range(PhaseOrder) = {"start", "window", "between", "combatDone", "turnDone", "over",
                           "failed", "panicked"}
  BY <1>6 DEF PhaseOrder
<1> QED BY <1>7, <1>8 DEF CombatSteps

LEMMA InitTypeInv == Init => TypeInv
<1> SUFFICES ASSUME Init
             PROVE  TypeInv
  OBVIOUS
<1>1. game \in Game /\ Len(game.modifiers) = 0
  <2>1. <<>> \in Seq(Players) /\ <<>> \in Seq(Modifiers)
    BY EmptySeq
  <2> QED BY <2>1 DEF Init, Game
<1>2. active \in Players /\ priority \in Players
  BY GameAssumption DEF Init, Players
<1>3. step \in Range(StepOrder) /\ pc \in Range(PhaseOrder)
  BY OrderRanges DEF Init
<1>4. /\ turn \in 1..(MaxTurns + 1) /\ turn # MaxTurns + 1
      /\ combats \in 0..MaxCombats /\ extra \in 0..MaxModifiers
      /\ passes \in 0..NPlayers /\ actions \in 0..MaxActions
      /\ Len(game.modifiers) =< MaxModifiers
  BY <1>1, GameAssumption DEF Init
<1>5. passed \in SUBSET Players /\ forceEnd \in BOOLEAN
  BY DEF Init
<1> QED BY <1>1, <1>2, <1>3, <1>4, <1>5 DEF TypeInv, TypeOK

\* The board that a step leaves, and its modifiers.
LEMMA GameTypeStep ==
  ASSUME TypeInv, [Next]_vars
  PROVE  game' \in Game /\ Len(game'.modifiers) =< MaxModifiers
<1>0. game \in Game /\ priority \in Players /\ Len(game.modifiers) =< MaxModifiers
  BY DEF TypeInv, TypeOK
<1>1. \A g \in Triggered(game) \cup Aftermath(game) : g \in Game
  BY <1>0, TriggeredType, AftermathType
<1>2. CASE UNCHANGED game
  BY <1>0, <1>2
<1>3. CASE \E g \in Game : GameBecomes(g)
  BY <1>3 DEF GameBecomes
<1>4. CASE StartTurn \/ DrawStep \/ PrecombatMain \/ BeginCombat \/ DeclareAttackers
           \/ DeclareBlockers \/ FirstStrike \/ AnotherCombat \/ PostcombatMain \/ EndStep
  <2>1. \E g \in Triggered(game) \cup Aftermath(game) : GameBecomes(g)
    BY <1>4 DEF StartTurn, DrawStep, PrecombatMain, BeginCombat, DeclareAttackers,
         DeclareBlockers, FirstStrike, AnotherCombat, PostcombatMain, EndStep, EnterStep
  <2> QED BY <1>1, <1>3, <2>1
<1>5. CASE CombatDamage \/ Cleanup
  BY <1>1, <1>3, <1>5 DEF CombatDamage, Cleanup
<1>6. CASE CombatReturns
  <2> DEFINE modifiers == RemoveAt(game.modifiers, extra)
  <2>1. UNCHANGED game \/ /\ game' = [game EXCEPT !.modifiers = modifiers]
                          /\ extra \in 1..Len(game.modifiers)
    <3>1. extra \in Nat /\ Len(game.modifiers) \in Nat
      BY <1>0, GameFields, GameAssumption DEF TypeInv, TypeOK
    <3> QED BY <1>6, <3>1 DEF CombatReturns
  <2>2. CASE extra \in 1..Len(game.modifiers)
    <3>1. modifiers \in Seq(Modifiers) /\ Len(modifiers) = Len(game.modifiers) - 1
      BY <1>0, <2>2, GameFields, RemoveAtType
    <3>2. Len(game.modifiers) \in Nat
      BY <1>0, GameFields
    <3>3. Len(modifiers) =< MaxModifiers
      BY <1>0, <3>1, <3>2, GameAssumption
    <3> HIDE DEF modifiers
    <3>4. [game EXCEPT !.modifiers = modifiers] \in Game
          /\ [game EXCEPT !.modifiers = modifiers].modifiers = modifiers
      BY <1>0, <3>1, GameFields DEF Game
    <3> QED BY <1>0, <2>1, <3>3, <3>4
  <2> QED BY <1>2, <2>1, <2>2
<1>7. CASE ForcedEnd
  <2>1. PICK new \in Triggers(game.lost) : GameBecomes([game EXCEPT !.stack = new])
    BY <1>7 DEF ForcedEnd
  <2>2. [game EXCEPT !.stack = new] \in Game
    BY <1>0, TriggersType, GameFields
  <2> QED BY <1>3, <2>1, <2>2
<1>8. CASE NextTurn
  <2>1. game' = [game EXCEPT !.modifiers = <<>>] /\ <<>> \in Seq(Modifiers)
    BY <1>8, EmptySeq DEF NextTurn
  <2>2. game' \in Game /\ game'.modifiers = <<>>
    BY <1>0, <2>1, GameFields DEF Game
  <2> QED BY <2>2, GameAssumption
<1>9. CASE PassAndResolve
  <2>1. game.stack # <<>> /\ \E g \in Resolutions(game) \cup {Undeclared(game)} : GameBecomes(g)
    BY <1>9 DEF PassAndResolve
  <2>2. Undeclared(game) \in Game
    BY <1>0, <2>1, TopType DEF Undeclared
  <2>3. \A g \in Resolutions(game) : g \in Game
    BY <1>0, <2>1, ResolutionsType
  <2> QED BY <1>3, <2>1, <2>2, <2>3
<1>10. CASE PassAndRepeat
  <2>1. PICK g \in Resolutions(game) : GameBecomes(Drawn(g)) /\ game.stack # <<>>
    BY <1>10 DEF PassAndRepeat
  <2>2. Drawn(g) \in Game
    BY <1>0, <2>1, ResolutionsType, DrawnType
  <2> QED BY <1>3, <2>1, <2>2
<1>11. CASE TakeAction
  <2>1. PICK h \in Plays(game) : \E g \in Aftermath(h) : GameBecomes(g)
    BY <1>11 DEF TakeAction
  <2>2. h \in Game
    BY <1>0, <2>1, PlaysType
  <2>3. \A g \in Aftermath(h) : g \in Game
    BY <2>2, AftermathType
  <2> QED BY <1>3, <2>1, <2>3
<1>12. CASE SkipCombat \/ TooManyCombats \/ LeaveTurn \/ GameOver \/ PassOn \/ PassAndClose
            \/ RepeatAction \/ WindowReturns \/ LimitReached \/ Finished \/ UNCHANGED vars
  BY <1>2, <1>12 DEF SkipCombat, TooManyCombats, LeaveTurn, GameOver, PassOn, PassAndClose,
       RepeatAction, WindowReturns, LimitReached, Finished, vars
<1> QED BY <1>4, <1>5, <1>6, <1>7, <1>8, <1>9, <1>10, <1>11, <1>12 DEF Next

\* The window: whom it asks, who has passed and how often it has asked.
LEMMA WindowTypeStep ==
  ASSUME IInv, TypeInv, [Next]_vars
  PROVE  /\ priority' \in Players /\ passes' \in 0..NPlayers
         /\ actions' \in 0..MaxActions /\ passed' \in SUBSET Players
<1>0. /\ priority \in Players /\ passes \in 0..NPlayers /\ active \in Players
      /\ actions \in 0..MaxActions /\ passed \in SUBSET Players
      /\ NPlayers \in 2..4 /\ MaxActions \in Nat \ {0}
  BY GameAssumption DEF TypeInv, TypeOK
<1>1. CASE UNCHANGED windowVars
  BY <1>0, <1>1 DEF windowVars
<1>2. CASE OpenWindow
  BY <1>0, <1>2, FirstLiveIsLive DEF OpenWindow
<1>3. CASE StartTurn \/ DrawStep \/ PrecombatMain \/ BeginCombat \/ DeclareAttackers
           \/ DeclareBlockers \/ FirstStrike \/ AnotherCombat \/ PostcombatMain \/ EndStep
  BY <1>2, <1>3 DEF StartTurn, DrawStep, PrecombatMain, BeginCombat, DeclareAttackers,
       DeclareBlockers, FirstStrike, AnotherCombat, PostcombatMain, EndStep, EnterStep
<1>4. CASE SkipCombat \/ CombatDamage \/ CombatReturns \/ TooManyCombats \/ Cleanup
           \/ ForcedEnd \/ LeaveTurn \/ NextTurn \/ GameOver \/ PassAndClose
           \/ PassAndRepeat \/ WindowReturns \/ LimitReached \/ Finished \/ UNCHANGED vars
  BY <1>1, <1>4 DEF SkipCombat, CombatDamage, CombatReturns, TooManyCombats, Cleanup,
       ForcedEnd, LeaveTurn, NextTurn, GameOver, PassAndClose, PassAndRepeat,
       WindowReturns, LimitReached, Finished, vars
<1>5. CASE PassOn
  <2>1. /\ actions < MaxActions /\ actions' = actions + 1
        /\ passes' = passes + 1 /\ passed' = passed \cup {priority}
        /\ priority' = NextLive(priority, game.lost)
        /\ pc = "window" /\ game.outcome = NoOutcome
    BY <1>5 DEF PassOn, Asking, CountIteration
  <2>2. /\ passed \cup {priority} \subseteq Players /\ priority \notin passed
        /\ passes = Cardinality(passed)
    BY <1>0, <2>1 DEF IInv, Round
  <2>3. IsFiniteSet(Players) /\ Cardinality(Players) = NPlayers
    BY <1>0, FS_Interval DEF Players
  <2>4. Cardinality(passed \cup {priority}) = passes + 1
    <3>1. IsFiniteSet(passed)
      BY <2>2, <2>3, FS_Subset
    <3> QED BY <2>2, <3>1, FS_AddElement
  <2>5. Cardinality(passed \cup {priority}) =< NPlayers
    BY <2>2, <2>3, FS_Subset
  <2>6. passes + 1 \in 0..NPlayers
    BY <1>0, <2>4, <2>5
  <2>7. NextLive(priority, game.lost) \in Players
    BY <1>0, NextLiveIsLive
  <2> QED BY <1>0, <2>1, <2>2, <2>6, <2>7
<1>6. CASE RepeatAction
  <2>1. /\ actions < MaxActions /\ actions' = actions + 1
        /\ passes' = 1 /\ passed' = {priority}
        /\ priority' = NextLive(priority, game.lost)
    BY <1>6 DEF RepeatAction, Asking, CountIteration
  <2>2. NextLive(priority, game.lost) \in Players
    BY <1>0, NextLiveIsLive
  <2> QED BY <1>0, <2>1, <2>2
<1>7. CASE PassAndResolve \/ TakeAction
  <2>1. /\ actions < MaxActions /\ actions' = actions + 1 /\ passes' = 0 /\ passed' = {}
        /\ \E p \in {active, priority} : priority' = FirstLive(p, game'.lost)
    BY <1>7 DEF PassAndResolve, TakeAction, StartOver, Asking, CountIteration
  <2>2. priority' \in Players
    BY <1>0, <2>1, FirstLiveIsLive
  <2> QED BY <1>0, <2>1, <2>2
<1> QED BY <1>3, <1>4, <1>5, <1>6, <1>7 DEF Next

\* The turn and its combats.
LEMMA TurnTypeStep ==
  ASSUME TypeInv, [Next]_vars
  PROVE  /\ turn' \in 1..(MaxTurns + 1) /\ (turn' = MaxTurns + 1 => pc' = "over")
         /\ combats' \in 0..MaxCombats /\ extra' \in 0..MaxModifiers
         /\ forceEnd' \in BOOLEAN
<1>0. /\ turn \in 1..(MaxTurns + 1) /\ (turn = MaxTurns + 1 => pc = "over")
      /\ combats \in 0..MaxCombats /\ extra \in 0..MaxModifiers /\ forceEnd \in BOOLEAN
      /\ MaxTurns \in Nat \ {0} /\ MaxCombats \in Nat \ {0} /\ MaxModifiers \in Nat
  BY GameAssumption DEF TypeInv, TypeOK
<1>1. CASE AnotherCombat
  <2> DEFINE grants == CombatGrants(game.modifiers)
  <2>1. /\ pc = "combatDone" /\ combats < MaxCombats /\ grants # {}
        /\ combats' = combats + 1 /\ turn' = turn /\ forceEnd' = forceEnd
        /\ extra' = CHOOSE i \in grants : \A j \in grants : i =< j
    BY <1>1 DEF AnotherCombat, EnterStep
  <2>2. grants \subseteq 1..Len(game.modifiers) /\ Len(game.modifiers) \in 0..MaxModifiers
    <3>1. game.modifiers \in Seq(Modifiers) /\ Len(game.modifiers) =< MaxModifiers
      BY GameFields DEF TypeInv, TypeOK
    <3>2. DOMAIN game.modifiers = 1..Len(game.modifiers) /\ Len(game.modifiers) \in Nat
      BY <3>1
    <3> QED BY <1>0, <3>1, <3>2 DEF CombatGrants
  <2> HIDE DEF grants
  <2>3. \E i \in grants : \A j \in grants : i =< j
    <3>1. grants \in SUBSET Nat
      BY <2>2
    <3> QED BY <2>1, <3>1, LeastElement
  <2>4. extra' \in grants
    BY <2>1, <2>3
  <2>5. extra' \in 0..MaxModifiers
    BY <1>0, <2>2, <2>4
  <2>6. pc # "over"
    BY <2>1
  <2> QED BY <1>0, <2>1, <2>5, <2>6
<1>2. CASE NextTurn
  <2>1. /\ pc = "turnDone" /\ turn' = turn + 1 /\ combats' = 0 /\ extra' = 0
        /\ pc' = IF turn = MaxTurns THEN "over" ELSE "start"
        /\ forceEnd' = forceEnd
    BY <1>2 DEF NextTurn
  <2> QED BY <1>0, <2>1
<1>3. CASE CombatReturns \/ ForcedEnd
  <2>1. /\ pc = "between" /\ extra' = 0 /\ UNCHANGED <<turn, combats>>
        /\ forceEnd' \in {forceEnd, FALSE}
    BY <1>3 DEF CombatReturns, ForcedEnd
  <2>2. turn # MaxTurns + 1 /\ forceEnd' \in BOOLEAN
    BY <1>0, <2>1, Zenon
  <2>3. extra' \in 0..MaxModifiers
    BY <1>0, <2>1
  <2> QED BY <1>0, <2>1, <2>2, <2>3, Zenon
<1>4. CASE Finished \/ UNCHANGED vars
  BY <1>0, <1>4 DEF Finished, vars, turnVars, combatVars
<1>5. CASE /\ pc # "over" /\ UNCHANGED <<turn, combats, extra>>
           /\ forceEnd' \in {forceEnd, TRUE}
  BY <1>0, <1>5
<1>6. CASE StartTurn \/ DrawStep \/ PrecombatMain \/ BeginCombat \/ DeclareAttackers
           \/ DeclareBlockers \/ FirstStrike \/ PostcombatMain \/ EndStep
  BY <1>5, <1>6 DEF StartTurn, DrawStep, PrecombatMain, BeginCombat, DeclareAttackers,
       DeclareBlockers, FirstStrike, PostcombatMain, EndStep, EnterStep, Proceeds, combatVars
<1>7. CASE SkipCombat \/ CombatDamage \/ TooManyCombats \/ Cleanup \/ LeaveTurn \/ GameOver
  BY <1>5, <1>7 DEF SkipCombat, CombatDamage, TooManyCombats, Cleanup, LeaveTurn, GameOver,
       Proceeds, turnVars, combatVars
<1>8. CASE PassOn \/ PassAndClose \/ PassAndResolve \/ PassAndRepeat \/ TakeAction
           \/ RepeatAction \/ WindowReturns \/ LimitReached
  BY <1>5, <1>8 DEF PassOn, PassAndClose, PassAndResolve, PassAndRepeat, TakeAction,
       RepeatAction, WindowReturns, LimitReached, Asking, StartOver, turnVars, combatVars
<1> QED BY <1>1, <1>2, <1>3, <1>4, <1>6, <1>7, <1>8 DEF Next

LEMMA TypeStep ==
  ASSUME IInv, TypeInv, [Next]_vars
  PROVE  TypeInv'
<1>1. active' \in Players /\ Schedule'
  BY ScheduleStep
<1>2. step' \in Range(StepOrder) /\ pc' \in Range(PhaseOrder)
  BY <1>1, OrderRanges DEF Schedule
<1> QED BY <1>1, <1>2, GameTypeStep, WindowTypeStep, TurnTypeStep DEF TypeInv, TypeOK

-------------------------------------------------------------------------------
(* The theorems.                                                           *)

\* The types: the board stays a board whoever leaves it, the window never asks more
\* often than it may, and no turn follows the last one (run, run_next_turn,
\* run_priority_window_with_shortcuts).
THEOREM TypeCorrect == Spec => []TypeOK
<1>1. Init => IInv /\ TypeInv
  BY InitIInv, InitTypeInv
<1>2. IInv /\ TypeInv /\ [Next]_vars => (IInv /\ TypeInv)'
  BY BoardStep, RoundStep, ScheduleStep, TypeStep DEF IInv
<1>3. TypeInv => TypeOK
  BY DEF TypeInv
<1> QED BY <1>1, <1>2, <1>3, PTL DEF Spec

\* Whoever a window asks is in the game, however players leave while their own
\* action or another's object resolves (first_live_player_from,
\* next_live_player_index).
THEOREM AskedIsLive == Spec => []PriorityIsLive
<1>1. IInv => PriorityIsLive
  BY DEF IInv, Round, PriorityIsLive, Live
<1> QED BY <1>1, Inductive, PTL

\* The pass that closes a window or resolves an object is the last of a round in
\* which every live player has passed (consecutive_passes against
\* live_player_count).
THEOREM RoundsComplete == Spec => []RoundsAreComplete
<1>1. IInv => RoundsAreComplete
  <2> SUFFICES ASSUME IInv, pc = "window", game.outcome = NoOutcome, LastPass
               PROVE  Live(game.lost) = passed \cup {priority}
    BY DEF RoundsAreComplete
  <2> DEFINE all == passed \cup {priority}
  <2>1. /\ passed \subseteq Live(game.lost) /\ priority \in Live(game.lost)
        /\ priority \notin passed /\ passes = Cardinality(passed)
    BY DEF IInv, Round
  <2>2. IsFiniteSet(Live(game.lost)) /\ IsFiniteSet(passed)
    BY <2>1, LiveFinite, FS_Subset
  <2>3. Cardinality(all) = Cardinality(Live(game.lost))
    BY <2>1, <2>2, FS_AddElement DEF LastPass
  <2>4. all \subseteq Live(game.lost)
    BY <2>1
  <2> HIDE DEF all
  <2>5. all = Live(game.lost)
    BY <2>2, <2>3, <2>4, FS_Subset
  <2> QED BY <2>5 DEF all
<1> QED BY <1>1, Inductive, PTL

\* The game has an outcome as soon as at most one player is left, and a decided
\* game names the one left and everybody else (eliminate_players).
THEOREM OutcomeDecided == Spec => []OutcomeIsDecided
<1>1. IInv => OutcomeIsDecided
  BY DEF IInv, Board, Decided, OutcomeIsDecided
<1> QED BY <1>1, Inductive, PTL

\* A decided game stops: no action but those that leave its windows, its combat and
\* its turn is enabled, and none of them touches the outcome (the checks of
\* state.outcome in execute_turn, run_combat and run_next_turn).
LEMMA StopStep ==
  ASSUME IInv, Next, game.outcome # NoOutcome
  PROVE  /\ <<game.outcome, game.lost, active, turn>>' = <<game.outcome, game.lost, active, turn>>
         /\ step' \in {step, "cleanup"}
<1>0. Board(game) /\ (pc = "start" => game.outcome = NoOutcome)
  BY DEF IInv, Schedule
<1>1. CASE UNCHANGED <<game, turnVars>>
  BY <1>1 DEF turnVars
<1>2. CASE CombatReturns
  <2> DEFINE modifiers == RemoveAt(game.modifiers, extra)
  <2>1. UNCHANGED game \/ game' = [game EXCEPT !.modifiers = modifiers]
    BY <1>2 DEF CombatReturns
  <2> HIDE DEF modifiers
  <2>2. UNCHANGED game \/ SameSeats(game, game')
    BY <1>0, <2>1, StackBoard
  <2> QED BY <1>2, <2>2 DEF CombatReturns, SameSeats
<1>3. CASE ForcedEnd
  <2>1. PICK new : game' = [game EXCEPT !.stack = new]
    BY <1>3 DEF ForcedEnd, GameBecomes
  <2>2. SameSeats(game, game')
    BY <1>0, <2>1, StackBoard
  <2> QED BY <1>3, <2>2 DEF ForcedEnd, SameSeats
<1>4. CASE LeaveTurn \/ GameOver \/ WindowReturns \/ LimitReached \/ Finished
  BY <1>1, <1>4 DEF LeaveTurn, GameOver, WindowReturns, LimitReached, Finished, vars
<1>5. ~(StartTurn \/ DrawStep \/ PrecombatMain \/ BeginCombat \/ SkipCombat
        \/ DeclareAttackers \/ DeclareBlockers \/ FirstStrike \/ CombatDamage
        \/ AnotherCombat \/ TooManyCombats \/ PostcombatMain \/ EndStep \/ Cleanup
        \/ NextTurn)
  BY <1>0 DEF StartTurn, DrawStep, PrecombatMain, BeginCombat, SkipCombat,
       DeclareAttackers, DeclareBlockers, FirstStrike, CombatDamage, AnotherCombat,
       TooManyCombats, PostcombatMain, EndStep, Cleanup, NextTurn, Proceeds
<1>6. ~(PassOn \/ PassAndClose \/ PassAndResolve \/ PassAndRepeat \/ TakeAction \/ RepeatAction)
  BY DEF PassOn, PassAndClose, PassAndResolve, PassAndRepeat, TakeAction, RepeatAction, Asking
<1> QED BY <1>2, <1>3, <1>4, <1>5, <1>6 DEF Next

THEOREM StopsAtOutcome == Spec => GameStopsAtOutcome
<1>1. IInv /\ [Next]_vars =>
        [game.outcome # NoOutcome =>
           /\ <<game.outcome, game.lost, active, turn>>'
                = <<game.outcome, game.lost, active, turn>>
           /\ step' \in {step, "cleanup"}]_vars
  BY StopStep
<1> QED BY <1>1, Inductive, PTL DEF Spec, GameStopsAtOutcome

-------------------------------------------------------------------------------
(* Termination: every step takes the game further.                         *)

StepAt(s) == CHOOSE i \in DOMAIN StepOrder : StepOrder[i] = s
PhaseAt(p) == CHOOSE i \in DOMAIN PhaseOrder : PhaseOrder[i] = p

\* The places of the steps and of the phases.
LEMMA StepPlaces ==
  /\ StepAt("untap") = 1 /\ StepAt("upkeep") = 2 /\ StepAt("draw") = 3
  /\ StepAt("precombatMain") = 4 /\ StepAt("beginCombat") = 5
  /\ StepAt("declareAttackers") = 6 /\ StepAt("declareBlockers") = 7
  /\ StepAt("firstStrike") = 8 /\ StepAt("combatDamage") = 9
  /\ StepAt("postcombatMain") = 10 /\ StepAt("endStep") = 11 /\ StepAt("cleanup") = 12
<1>1. \A i \in DOMAIN StepOrder : \A s : StepOrder[i] = s =>
        StepAt(s) \in DOMAIN StepOrder /\ StepOrder[StepAt(s)] = s
  BY DEF StepAt
<1> QED BY <1>1 DEF StepOrder

LEMMA PhasePlaces ==
  /\ PhaseAt("start") = 1 /\ PhaseAt("window") = 2 /\ PhaseAt("between") = 3
  /\ PhaseAt("combatDone") = 4 /\ PhaseAt("turnDone") = 5 /\ PhaseAt("over") = 6
  /\ PhaseAt("failed") = 7 /\ PhaseAt("panicked") = 8
<1>1. \A i \in DOMAIN PhaseOrder : \A p : PhaseOrder[i] = p =>
        PhaseAt(p) \in DOMAIN PhaseOrder /\ PhaseOrder[PhaseAt(p)] = p
  BY DEF PhaseAt
<1> QED BY <1>1 DEF PhaseOrder

\* Five coordinates are later than five others in the lexicographic order.
LaterOf5(a1, a2, a3, a4, a5, b1, b2, b3, b4, b5) ==
  \/ a1 > b1
  \/ a1 = b1 /\ a2 > b2
  \/ a1 = b1 /\ a2 = b2 /\ a3 > b3
  \/ a1 = b1 /\ a2 = b2 /\ a3 = b3 /\ a4 > b4
  \/ a1 = b1 /\ a2 = b2 /\ a3 = b3 /\ a4 = b4 /\ a5 > b5

\* The order of the progress, coordinate by coordinate.
LEMMA FurtherCases ==
  ASSUME NEW a1 \in Nat, NEW a2 \in Nat, NEW a3 \in Nat, NEW a4 \in Nat, NEW a5 \in Nat,
         NEW b1 \in Nat, NEW b2 \in Nat, NEW b3 \in Nat, NEW b4 \in Nat, NEW b5 \in Nat,
         LaterOf5(a1, a2, a3, a4, a5, b1, b2, b3, b4, b5)
  PROVE  FurtherThan(<<a1, a2, a3, a4, a5>>, <<b1, b2, b3, b4, b5>>)
<1> DEFINE s == <<a1, a2, a3, a4, a5>>
           t == <<b1, b2, b3, b4, b5>>
           At(i) == s[i] > t[i] /\ \A j \in 1..(i - 1) : s[j] = t[j]
<1>1. At(1) \/ At(2) \/ At(3) \/ At(4) \/ At(5)
  BY DEF LaterOf5
<1>2. DOMAIN s = 1..5
  OBVIOUS
<1>3. \E i \in DOMAIN s : At(i)
  <2> HIDE DEF At, s
  <2> QED BY <1>1, <1>2
<1> QED BY <1>3 DEF FurtherThan

\* A step that is ahead in one coordinate and not behind in those before it.
Ahead ==
  \/ turn' > turn
  \/ turn' = turn /\ combats' > combats
  \/ /\ turn' = turn /\ combats' = combats
     /\ \/ StepAt(step') > StepAt(step)
        \/ StepAt(step') = StepAt(step) /\ PhaseAt(pc') > PhaseAt(pc)
        \/ StepAt(step') = StepAt(step) /\ PhaseAt(pc') = PhaseAt(pc) /\ actions' > actions

\* The coordinates are numbers.
LEMMA Coordinates ==
  ASSUME IInv
  PROVE  /\ turn \in Nat /\ combats \in Nat /\ actions \in Nat
         /\ StepAt(step) \in 1..12 /\ PhaseAt(pc) \in 1..8
BY StepPlaces, PhasePlaces DEF IInv, Schedule, CombatSteps

\* Every step is ahead.
LEMMA StepsAhead ==
  ASSUME IInv, IInv', Next, ~UNCHANGED vars
  PROVE  Ahead
<1> USE DEF Ahead
<1> DEFINE Same == turn' = turn /\ combats' = combats
<1>1. /\ turn \in Nat /\ combats \in Nat /\ actions \in Nat
      /\ turn' \in Nat /\ combats' \in Nat /\ actions' \in Nat
      /\ StepAt(step) \in 1..12 /\ StepAt(step') \in 1..12
      /\ PhaseAt(pc) \in 1..8 /\ PhaseAt(pc') \in 1..8
  BY StepPlaces, PhasePlaces DEF IInv, Schedule, CombatSteps
<1>2. /\ pc = "start" => StepAt(step) = 1
      /\ pc = "combatDone" => StepAt(step) < 10
  BY StepPlaces DEF IInv, Schedule, CombatSteps
\* The next step of the turn
<1>3. CASE StartTurn \/ DrawStep \/ PrecombatMain \/ BeginCombat \/ DeclareAttackers
           \/ DeclareBlockers \/ FirstStrike \/ CombatDamage \/ PostcombatMain \/ EndStep
           \/ Cleanup
  <2>1. Same
    BY <1>3 DEF StartTurn, DrawStep, PrecombatMain, BeginCombat, DeclareAttackers,
         DeclareBlockers, FirstStrike, CombatDamage, PostcombatMain, EndStep, Cleanup,
         EnterStep, combatVars
  <2>2. StepAt(step') > StepAt(step)
    BY <1>1, <1>2, <1>3, StepPlaces DEF StartTurn, DrawStep, PrecombatMain, BeginCombat,
         DeclareAttackers, DeclareBlockers, FirstStrike, CombatDamage, PostcombatMain,
         EndStep, Cleanup, EnterStep, Proceeds
  <2> QED BY <2>1, <2>2
\* The same step, a later phase of it
<1>4. CASE SkipCombat \/ CombatReturns \/ TooManyCombats \/ LeaveTurn \/ GameOver
           \/ PassAndClose \/ PassAndRepeat \/ WindowReturns \/ LimitReached
  <2>1. Same /\ step' = step
    BY <1>4 DEF SkipCombat, CombatReturns, TooManyCombats, LeaveTurn, GameOver,
         PassAndClose, PassAndRepeat, WindowReturns, LimitReached, turnVars, combatVars
  <2>2. PhaseAt(pc') > PhaseAt(pc)
    BY <1>4, PhasePlaces DEF SkipCombat, CombatReturns, TooManyCombats, LeaveTurn, GameOver,
         PassAndClose, PassAndRepeat, WindowReturns, LimitReached, Asking, Proceeds
  <2> QED BY <2>1, <2>2
<1>5. CASE ForcedEnd
  <2>1. Same /\ StepAt(step') = 12 /\ PhaseAt(pc') > PhaseAt(pc)
    BY <1>5, StepPlaces, PhasePlaces DEF ForcedEnd
  <2> QED BY <1>1, <2>1
<1>6. CASE AnotherCombat
  BY <1>1, <1>6 DEF AnotherCombat, EnterStep
<1>7. CASE NextTurn
  <2>1. turn' = turn + 1
    BY <1>7 DEF NextTurn
  <2> QED BY <1>1, <2>1
\* Another iteration of the window
<1>8. CASE PassOn \/ PassAndResolve \/ TakeAction \/ RepeatAction
  <2>1. Same /\ UNCHANGED <<step, pc>> /\ actions' = actions + 1
    BY <1>8 DEF PassOn, PassAndResolve, TakeAction, RepeatAction, StartOver,
         CountIteration, turnVars, combatVars
  <2> QED BY <1>1, <2>1
<1> QED BY <1>3, <1>4, <1>5, <1>6, <1>7, <1>8 DEF Next, Finished

\* What is ahead is further.
LEMMA AheadIsFurther ==
  ASSUME IInv, IInv', Ahead
  PROVE  FurtherThan(Progress', Progress)
<1>1. /\ Progress = <<turn, combats, StepAt(step), PhaseAt(pc), actions>>
      /\ Progress' = <<turn', combats', StepAt(step'), PhaseAt(pc'), actions'>>
  BY DEF Progress, StepAt, PhaseAt
<1>2. /\ turn \in Nat /\ combats \in Nat /\ actions \in Nat
      /\ turn' \in Nat /\ combats' \in Nat /\ actions' \in Nat
      /\ StepAt(step) \in Nat /\ StepAt(step') \in Nat
      /\ PhaseAt(pc) \in Nat /\ PhaseAt(pc') \in Nat
  BY StepPlaces, PhasePlaces DEF IInv, Schedule, CombatSteps
<1>3. FurtherThan(<<turn', combats', StepAt(step'), PhaseAt(pc'), actions'>>,
                  <<turn, combats, StepAt(step), PhaseAt(pc), actions>>)
  <2>1. LaterOf5(turn', combats', StepAt(step'), PhaseAt(pc'), actions',
                 turn, combats, StepAt(step), PhaseAt(pc), actions)
    BY DEF Ahead, LaterOf5
  <2> QED BY <1>2, <2>1, FurtherCases
<1> QED BY <1>1, <1>3

\* Every step of a game takes it further in a bounded order: whatever the players
\* choose and the cards do, windows, combats and turns end (the iterations of
\* run_priority_window_with_shortcuts, MAX_PRIORITY_ACTIONS combats, max_turns).
THEOREM StepsProgress == Spec => EveryStepProgresses
<1>1. IInv /\ IInv' /\ [Next]_vars => [FurtherThan(Progress', Progress)]_vars
  BY StepsAhead, AheadIsFurther
<1> QED BY <1>1, Inductive, PTL DEF Spec, EveryStepProgresses

\* A numeral of two digits, the second one at most B.
Numeral(a, B, i) == a * (B + 1) + i

LEMMA NumeralOrder ==
  ASSUME NEW B \in Nat, NEW a \in Nat, NEW b \in Nat, NEW i \in 0..B, NEW j \in 0..B
  PROVE  /\ Numeral(a, B, i) \in Nat
         /\ a > b => Numeral(a, B, i) > Numeral(b, B, j)
         /\ a = b /\ i > j => Numeral(a, B, i) > Numeral(b, B, j)
         /\ a =< b => Numeral(a, B, i) =< Numeral(b, B, B)
<1>1. a * (B + 1) \in Nat /\ b * (B + 1) \in Nat
  OBVIOUS
<1>2. ASSUME NEW u \in Nat, NEW v \in Nat, u =< v PROVE u * (B + 1) =< v * (B + 1)
  <2>1. PICK w \in Nat : v = u + w
    <3>1. v - u \in Nat /\ v = u + (v - u)
      BY <1>2
    <3> QED BY <3>1
  <2>2. v * (B + 1) = u * (B + 1) + w * (B + 1) /\ w * (B + 1) \in Nat /\ u * (B + 1) \in Nat
    BY <2>1
  <2> QED BY <2>2
<1>3. CASE a > b
  <2>1. (b + 1) * (B + 1) =< a * (B + 1)
    BY <1>2, <1>3
  <2>2. (b + 1) * (B + 1) = b * (B + 1) + B + 1
    OBVIOUS
  <2> QED BY <1>1, <1>3, <2>1, <2>2 DEF Numeral
<1>4. CASE a =< b
  <2>1. a * (B + 1) =< b * (B + 1)
    BY <1>2, <1>4
  <2> QED BY <1>1, <1>4, <2>1 DEF Numeral
<1> QED BY <1>3, <1>4

\* The progress of a game as one number, and the largest one.
RankOf(t, c, s, p, a) ==
  Numeral(Numeral(Numeral(Numeral(t, MaxCombats, c), 12, s), 8, p), MaxActions, a)

Rank == RankOf(turn, combats, StepAt(step), PhaseAt(pc), actions)
MaxRank == RankOf(MaxTurns + 1, MaxCombats, 12, 8, MaxActions)

LEMMA RankInRange ==
  ASSUME IInv, TypeOK
  PROVE  Rank \in 0..MaxRank
<1> DEFINE n1 == Numeral(turn, MaxCombats, combats)
           n2 == Numeral(n1, 12, StepAt(step))
           n3 == Numeral(n2, 8, PhaseAt(pc))
           m1 == Numeral(MaxTurns + 1, MaxCombats, MaxCombats)
           m2 == Numeral(m1, 12, 12)
           m3 == Numeral(m2, 8, 8)
<1>1. /\ turn \in Nat /\ turn =< MaxTurns + 1 /\ MaxTurns + 1 \in Nat
      /\ MaxCombats \in Nat /\ MaxActions \in Nat /\ MaxCombats \in 0..MaxCombats
      /\ combats \in 0..MaxCombats /\ actions \in 0..MaxActions /\ MaxActions \in 0..MaxActions
      /\ 12 \in Nat /\ 12 \in 0..12 /\ 8 \in Nat /\ 8 \in 0..8
      /\ StepAt(step) \in 0..12 /\ PhaseAt(pc) \in 0..8
  BY Coordinates, GameAssumption DEF TypeOK
<1>2. n1 \in Nat /\ m1 \in Nat /\ n1 =< m1
  BY <1>1, NumeralOrder
<1> HIDE DEF n1, m1
<1>3. n2 \in Nat /\ m2 \in Nat /\ n2 =< m2
  BY <1>1, <1>2, NumeralOrder
<1> HIDE DEF n2, m2
<1>4. n3 \in Nat /\ m3 \in Nat /\ n3 =< m3
  BY <1>1, <1>3, NumeralOrder
<1> HIDE DEF n3, m3
<1>5. LET r == Numeral(n3, MaxActions, actions)
          m == Numeral(m3, MaxActions, MaxActions)
      IN r \in Nat /\ m \in Nat /\ r =< m
  BY <1>1, <1>4, NumeralOrder
<1> QED BY <1>5 DEF Rank, MaxRank, RankOf, n1, n2, n3, m1, m2, m3

LEMMA RankGrows ==
  ASSUME IInv, IInv', TypeOK, TypeOK', Ahead
  PROVE  Rank' > Rank
<1> DEFINE n1 == Numeral(turn, MaxCombats, combats)
           n2 == Numeral(n1, 12, StepAt(step))
           n3 == Numeral(n2, 8, PhaseAt(pc))
           p1 == Numeral(turn', MaxCombats, combats')
           p2 == Numeral(p1, 12, StepAt(step'))
           p3 == Numeral(p2, 8, PhaseAt(pc'))
<1>1. /\ turn \in Nat /\ turn' \in Nat /\ MaxCombats \in Nat /\ MaxActions \in Nat
      /\ combats \in 0..MaxCombats /\ actions \in 0..MaxActions
      /\ combats' \in 0..MaxCombats /\ actions' \in 0..MaxActions
      /\ 12 \in Nat /\ 8 \in Nat
      /\ StepAt(step) \in 0..12 /\ PhaseAt(pc) \in 0..8
      /\ StepAt(step') \in 0..12 /\ PhaseAt(pc') \in 0..8
  <2>1. StepAt(step') \in 1..12 /\ PhaseAt(pc') \in 1..8
    BY StepPlaces, PhasePlaces DEF IInv, Schedule, CombatSteps
  <2> QED BY <2>1, Coordinates, GameAssumption DEF TypeOK
<1>2. n1 \in Nat /\ p1 \in Nat
  BY <1>1, NumeralOrder
<1>3. turn' > turn \/ (turn' = turn /\ combats' > combats) => p1 > n1
  BY <1>1, NumeralOrder
<1>4. turn' = turn /\ combats' = combats => p1 = n1
  OBVIOUS
<1> HIDE DEF n1, p1
<1>5. n2 \in Nat /\ p2 \in Nat
  BY <1>1, <1>2, NumeralOrder
<1>6. p1 > n1 \/ (p1 = n1 /\ StepAt(step') > StepAt(step)) => p2 > n2
  BY <1>1, <1>2, NumeralOrder
<1>7. p1 = n1 /\ StepAt(step') = StepAt(step) => p2 = n2
  OBVIOUS
<1> HIDE DEF n2, p2
<1>8. n3 \in Nat /\ p3 \in Nat
  BY <1>1, <1>5, NumeralOrder
<1>9. p2 > n2 \/ (p2 = n2 /\ PhaseAt(pc') > PhaseAt(pc)) => p3 > n3
  BY <1>1, <1>5, NumeralOrder
<1>10. p2 = n2 /\ PhaseAt(pc') = PhaseAt(pc) => p3 = n3
  OBVIOUS
<1> HIDE DEF n3, p3
<1>11. p3 > n3 \/ (p3 = n3 /\ actions' > actions)
  BY <1>3, <1>4, <1>6, <1>7, <1>9, <1>10 DEF Ahead
<1>12. Numeral(p3, MaxActions, actions') > Numeral(n3, MaxActions, actions)
  BY <1>1, <1>8, <1>11, NumeralOrder
<1> QED BY <1>12 DEF Rank, RankOf, StepAt, PhaseAt, n1, n2, n3, p1, p2, p3

\* A game takes at most MaxRank steps: its progress is a number up to MaxRank that
\* every step increases, for any cards, players and limits (run, with max_turns and
\* MAX_PRIORITY_ACTIONS).
THEOREM GamesAreFinite == Spec => [](Rank \in 0..MaxRank) /\ [][Rank' > Rank]_vars
<1>1. IInv /\ TypeOK => Rank \in 0..MaxRank
  BY RankInRange
<1>2. IInv /\ IInv' /\ TypeOK /\ TypeOK' /\ [Next]_vars => [Rank' > Rank]_vars
  BY StepsAhead, RankGrows
<1> QED BY <1>1, <1>2, Inductive, TypeCorrect, PTL DEF Spec

================================================================================
