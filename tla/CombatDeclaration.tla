--------------------------- MODULE CombatDeclaration ---------------------------
(***************************************************************************)
(* The declarations of one combat (run_combat of src/engine/mod.rs): the   *)
(* active player declares attackers one at a time, pays what attacking     *)
(* costs and may take a declaration back; after the priority window each   *)
(* defending player in turn declares blockers one at a time.               *)
(*                                                                         *)
(* What cards say is abstracted to the two boards from which the options   *)
(* of a decision are computed: the attack board is read while attackers    *)
(* are declared, the block board after the window, in which anything may   *)
(* have happened to the creatures.  A mana source produces one mana, which  *)
(* may cost life or the source itself: a sacrificed source stays among the *)
(* tapped ones, as neither may attack or pay.  The attack board stands     *)
(* while attackers are declared, and Phyrexian mana does not occur in a    *)
(* tax.  An error of the player's client ends the attempt and is left out. *)
(***************************************************************************)
EXTENDS Naturals, Sequences, FiniteSets, SequencesExt

CONSTANTS
  Attackers,          \* the creatures of the active player
  Blockers,           \* the creatures of the other players
  Lands,              \* the mana sources of the active player that are no creatures
  Targets,            \* what can be attacked: players and their permanents
  NDefenders,         \* the other players, in the order of their seats
  DefendingPlayer,    \* target -> the player who defends it
  Owner,              \* blocker -> its player
  AttackBoards,       \* see AttackBoard
  BlockBoards         \* see BlockBoard

Defenders == 1..NDefenders
Attacks == UNION {[S -> Targets] : S \in SUBSET Attackers}
NoAttacks == [a \in {} |-> a]

\* may: who may attack what.  alone: must attack alone.  vigilant: do not tap.
\* required: must attack if able.  mana: creatures with a mana ability.  tax: the
\* mana it costs to attack a target.  limit: how many may attack it.  pool: the
\* mana in the pool.  painful: mana sources that cost one life.  life: the player's
\* life.  revisions: the player may take declarations back.
AttackBoard ==
  [may : SUBSET (Attackers \X Targets),
   alone : SUBSET Attackers, vigilant : SUBSET Attackers, required : SUBSET Attackers,
   mana : SUBSET Attackers, tax : [Targets -> Nat], limit : [Targets -> Nat],
   pool : Nat, painful : SUBSET (Attackers \cup Lands), life : Nat, revisions : BOOLEAN]

\* joined: the attackers that effects added.  lost: the players who lost.  able:
\* which blocker can block which attacker.  The others are the attackers that
\* only two or more may block, that only one may block, that one must block if
\* able, and that all must block if able.
BlockBoard ==
  [joined : Attacks, lost : SUBSET Defenders, able : SUBSET (Blockers \X Attackers),
   menace : SUBSET Attackers, maxOne : SUBSET Attackers,
   mustBeBlocked : SUBSET Attackers, allMustBlock : SUBSET Attackers]

ASSUME CombatAssumption ==
  /\ IsFiniteSet(Attackers)
  /\ IsFiniteSet(Blockers)
  /\ IsFiniteSet(Lands)
  /\ Attackers \cap Lands = {}
  /\ NDefenders \in Nat \ {0}
  /\ DefendingPlayer \in [Targets -> Defenders]
  /\ Owner \in [Blockers -> Defenders]
  /\ AttackBoards \subseteq AttackBoard
  /\ BlockBoards \subseteq BlockBoard

\* The block board before there is one.
NoBoard ==
  [joined |-> NoAttacks, lost |-> {}, able |-> {}, menace |-> {}, maxOne |-> {},
   mustBeBlocked |-> {}, allMustBlock |-> {}]

VARIABLES
  phase,              \* "attack", the "window" after it, "block", "done", and the
                      \* errors: a payment "failed", a request without options "stuck"
  board,              \* the attack board
  tapped,             \* the creatures and lands of the active player that are tapped, or
                      \* sacrificed for mana
  pool,               \* the mana in the pool
  life,               \* the active player's life
  combat,             \* state.combat.attackers
  declared,           \* declared_actions: those behind combat are to be replayed
  attacks,            \* attacker -> target
  guard,              \* the block board
  defender,           \* the defending player who declares blockers
  used,               \* used_blockers
  blocks              \* attacker -> its blockers

stateVars == <<tapped, pool, life, combat>>
attackVars == <<board, stateVars, declared>>
vars == <<phase, attackVars, attacks, guard, defender, used, blocks>>

Init ==
  /\ phase = "attack"
  /\ board \in AttackBoards
  /\ tapped = {}
  /\ pool = board.pool
  /\ life = board.life
  /\ combat = <<>>
  /\ declared = <<>>
  /\ attacks = NoAttacks
  /\ guard = NoBoard
  /\ defender = 1
  /\ used = {}
  /\ blocks = [a \in Attackers |-> {}]

-------------------------------------------------------------------------------
(* Declaring attackers.                                                    *)

Declarations ==
  [attacker : Attackers, target : Targets, pool : Nat, sources : SUBSET (Attackers \cup Lands)]

Selected == DOMAIN attacks

Attacking(t) == {i \in DOMAIN combat : combat[i].target = t}

\* Mutant: only the creature itself is asked whether it attacks alone.
MayAttackBeside(a, t) ==
  /\ <<a, t>> \in board.may
  /\ a \notin tapped \cup Selected
  /\ a \in board.alone => Selected = {}
  /\ Cardinality(Attacking(t)) < board.limit[t]

MayAttack(a, t) ==
  /\ <<a, t>> \in board.may
  /\ a \notin tapped \cup Selected
  /\ Selected \cap board.alone = {}
  /\ a \in board.alone => Selected = {}
  /\ Cardinality(Attacking(t)) < board.limit[t]

\* The life that the mana of a payment costs.
LifeCost(d) == Cardinality(d.sources \cap board.painful)

\* A way to pay the tax: the attacker itself is not tapped for it.
Pays(d) ==
  /\ d.sources \cap (tapped \cup {d.attacker}) = {}
  /\ d.pool + Cardinality(d.sources) = board.tax[d.target]
  /\ LifeCost(d) <= life

\* The declarations that may be offered.  The engine offers one way to pay for each
\* attacker and target; which one is not told apart here.
Offered ==
  {d \in [attacker : Attackers, target : Targets,
          pool : 0..pool, sources : SUBSET (Lands \cup board.mana)] :
     MayAttack(d.attacker, d.target) /\ Pays(d)}

\* apply_attacker_declaration, with a payment that can be made
Apply(d) ==
  /\ pool' = pool - d.pool
  /\ life' = life - LifeCost(d)
  /\ tapped' = tapped \cup d.sources \cup ({d.attacker} \ board.vigilant)
  /\ combat' = Append(combat, [attacker |-> d.attacker, target |-> d.target])
  /\ attacks' = [a \in Selected \cup {d.attacker} |->
                   IF a = d.attacker THEN d.target ELSE attacks[a]]

Replaying == Len(combat) < Len(declared)

Declare ==
  /\ phase = "attack"
  /\ ~Replaying
  /\ \E d \in Offered :
       /\ Apply(d)
       /\ declared' = Append(declared, d)
  /\ UNCHANGED <<phase, board, guard, defender, used, blocks>>

\* Mutant: the attacker untaps and leaves combat, and what it paid stays paid.
CancelWithoutRefund ==
  /\ phase = "attack"
  /\ board.revisions
  /\ ~Replaying
  /\ \E i \in DOMAIN declared :
       /\ declared' = RemoveAt(declared, i)
       /\ combat' = RemoveAt(combat, i)
       /\ attacks' = [a \in Selected \ {declared[i].attacker} |-> attacks[a]]
       /\ tapped' = tapped \ {declared[i].attacker}
  /\ UNCHANGED <<phase, board, pool, life, guard, defender, used, blocks>>

\* Mutant: the state is not restored before the rest is declared again.
CancelInPlace ==
  /\ phase = "attack"
  /\ board.revisions
  /\ ~Replaying
  /\ \E i \in DOMAIN declared : declared' = RemoveAt(declared, i)
  /\ combat' = <<>>
  /\ attacks' = NoAttacks
  /\ UNCHANGED <<phase, board, tapped, pool, life, guard, defender, used, blocks>>

\* A declaration is taken back: the state is the one before all of them, from which
\* the others are declared again.
CancelAttacker ==
  /\ phase = "attack"
  /\ board.revisions
  /\ ~Replaying
  /\ \E i \in DOMAIN declared : declared' = RemoveAt(declared, i)
  /\ tapped' = {}
  /\ pool' = board.pool
  /\ life' = board.life
  /\ combat' = <<>>
  /\ attacks' = NoAttacks
  /\ UNCHANGED <<phase, board, guard, defender, used, blocks>>

\* apply_payment: the mana is in the pool, the sources are untapped and the life is
\* there.
Payable(d) == d.pool <= pool /\ d.sources \cap tapped = {} /\ LifeCost(d) <= life

Replay ==
  /\ phase = "attack"
  /\ Replaying
  /\ LET d == declared[Len(combat) + 1] IN
       IF Payable(d) THEN Apply(d) /\ UNCHANGED phase
       ELSE phase' = "failed" /\ UNCHANGED <<stateVars, attacks>>
  /\ UNCHANGED <<board, declared, guard, defender, used, blocks>>

\* Without an attack the combat is over.
FinishAttackers ==
  /\ phase = "attack"
  /\ ~Replaying
  /\ \A d \in Offered : d.attacker \notin board.required
  /\ phase' = IF Selected = {} THEN "done" ELSE "window"
  /\ UNCHANGED <<attackVars, attacks, guard, defender, used, blocks>>

\* The priority window ends the combat or leaves any block board behind.  Attackers
\* that effects put into the combat are added to those declared.
PriorityWindow ==
  /\ phase = "window"
  /\ \/ /\ phase' = "done"
        /\ UNCHANGED <<attacks, guard>>
     \/ /\ phase' = "block"
        /\ guard' \in BlockBoards
        /\ attacks' = [a \in Selected \cup DOMAIN guard'.joined |->
                         IF a \in Selected THEN attacks[a] ELSE guard'.joined[a]]
  /\ UNCHANGED <<attackVars, defender, used, blocks>>

-------------------------------------------------------------------------------
(* Declaring blockers.                                                     *)

\* The attackers that the defending player may block; a player who lost is skipped.
Facing == {a \in Selected : DefendingPlayer[attacks[a]] = defender /\ defender \notin guard.lost}

Free == {b \in Blockers : Owner[b] = defender} \ used

CanBlock(b, a) == <<b, a>> \in guard.able

\* The attackers with menace that one creature blocks so far.
Incomplete == {a \in guard.menace : \E b \in Blockers : blocks[a] = {b}}

\* Mutant: a first blocker needs no second one.
MayBlockAlone(b, a) ==
  /\ CanBlock(b, a)
  /\ Incomplete # {} => a \in Incomplete
  /\ a \in guard.maxOne => blocks[a] = {}

MayBlock(b, a) ==
  /\ CanBlock(b, a)
  /\ Incomplete # {} => a \in Incomplete
  /\ a \in guard.maxOne => blocks[a] = {}
  /\ a \in guard.menace /\ blocks[a] = {} => \E other \in Free \ {b} : CanBlock(other, a)

MustBlock ==
  \E a \in Facing :
    /\ a \in guard.allMustBlock \/ (a \in guard.mustBeBlocked /\ blocks[a] = {})
    /\ \E b \in Free : CanBlock(b, a)

\* Mutant: only the required blocks keep the player from finishing.
MayFinishIncomplete == ~MustBlock

MayFinish == Incomplete = {} /\ ~MustBlock

DeclareBlocker ==
  /\ phase = "block"
  /\ \E b \in Free, a \in Facing :
       /\ MayBlock(b, a)
       /\ used' = used \cup {b}
       /\ blocks' = [blocks EXCEPT ![a] = @ \cup {b}]
  /\ UNCHANGED <<phase, attackVars, attacks, guard, defender>>

\* Mutant: the player after the last one is to block as well.
FinishBlockersOnceMore ==
  /\ phase = "block"
  /\ Facing = {} \/ MayFinish
  /\ used' = {}
  /\ IF defender > NDefenders
     THEN phase' = "done" /\ UNCHANGED defender
     ELSE defender' = defender + 1 /\ UNCHANGED phase
  /\ UNCHANGED <<attackVars, attacks, guard, blocks>>

\* The player finishes, is not asked for want of a choice, or is not attacked.
FinishBlockers ==
  /\ phase = "block"
  /\ Facing = {} \/ MayFinish
  /\ used' = {}
  /\ IF defender = NDefenders
     THEN phase' = "done" /\ UNCHANGED defender
     ELSE defender' = defender + 1 /\ UNCHANGED phase
  /\ UNCHANGED <<attackVars, attacks, guard, blocks>>

\* A request without options is an error of the client that receives it.
EmptyRequest ==
  /\ phase = "block"
  /\ Facing # {}
  /\ ~MayFinish
  /\ \A b \in Free, a \in Facing : ~MayBlock(b, a)
  /\ phase' = "stuck"
  /\ UNCHANGED <<attackVars, attacks, guard, defender, used, blocks>>

-------------------------------------------------------------------------------
Next ==
  \/ Declare
  \/ CancelAttacker
  \/ Replay
  \/ FinishAttackers
  \/ PriorityWindow
  \/ DeclareBlocker
  \/ FinishBlockers
  \/ EmptyRequest

Spec == Init /\ [][Next]_vars
-------------------------------------------------------------------------------
(* Properties.                                                             *)

\* Every variable has its type; no more is replayed than was declared.
TypeOK ==
  /\ phase \in {"attack", "window", "block", "done", "failed", "stuck"}
  /\ board \in AttackBoards
  /\ tapped \subseteq Attackers \cup Lands
  /\ pool \in 0..board.pool
  /\ life \in 0..board.life
  /\ combat \in Seq([attacker : Attackers, target : Targets])
  /\ declared \in Seq(Declarations)
  /\ Len(combat) <= Len(declared)
  /\ attacks \in Attacks
  /\ guard \in BlockBoards \cup {NoBoard}
  /\ defender \in Defenders
  /\ used \subseteq Blockers
  /\ blocks \in [Attackers -> SUBSET Blockers]

\* What is declared again after a cancellation could be declared afresh by the
\* player at that point, payment included: no order of declarations, payments and
\* cancellations replays one that is illegal or cannot be paid any more.
ReplayIsLegal ==
  /\ phase = "attack" /\ Replaying => declared[Len(combat) + 1] \in Offered
  /\ phase # "failed"

\* A creature that attacks alone is the only one declared, whatever was declared
\* and taken back before.
LoneAttacker ==
  phase \in {"attack", "window"} =>
    \A a \in Selected \cap board.alone : Selected = {a}

\* The creatures that attacking tapped.
TappedToAttack == Selected \ board.vigilant

\* What the attacks that stand cost.
TaxOfAttacks == SumFunctionOnSet([a \in Selected |-> board.tax[attacks[a]]], Selected)

\* What a cancelled declaration did is gone from all that remains: the state's
\* list of attackers, the local map of attacks, the taps, the mana and the life
\* spent are those of the attacks that stand, listed once and paid for once.
OnlyAttacksRemain ==
  phase \in {"attack", "window"} =>
    /\ ToSet(combat) = {[attacker |-> a, target |-> attacks[a]] : a \in Selected}
    /\ Len(combat) = Cardinality(Selected)
    /\ TappedToAttack \subseteq tapped
    /\ Cardinality(tapped \ TappedToAttack) + (board.pool - pool) = TaxOfAttacks
    /\ board.life - life = Cardinality((tapped \ TappedToAttack) \cap board.painful)

\* When the declarations are over, an attacker with menace is blocked by no or by
\* several creatures (menace_requires_two_legal_blockers_before_blocking_can_finish),
\* also when other attackers must be blocked and other players defend.
MenaceIsMet ==
  phase = "done" => \A a \in guard.menace, b \in Blockers : blocks[a] # {b}

\* A defending player is asked without options only about an attacker whose
\* keywords contradict each other: it must be blocked although too few or too many
\* would block it, or both one and two creatures have to block it.
StuckOnlyByConflict ==
  phase = "stuck" =>
    \E a \in Facing :
      \/ a \in guard.menace \cap guard.maxOne
      \/ a \in (guard.mustBeBlocked \cup guard.allMustBlock) \cap (guard.menace \cup guard.maxOne)

\* The claim of RandomAi and RandomClientPool, which report an empty request as
\* an error: a decision has a legal option.
NoEmptyRequest == phase # "stuck"
================================================================================
