-------------------------- MODULE MCCombatDeclaration --------------------------
(* An instance of CombatDeclaration for TLC. *)
EXTENDS CombatDeclaration, TLC

CONSTANTS a1, a2, a3, b1, b2, b3, t1, t2, l1

\* A player and a permanent of another player.
MCDefendingPlayer == t1 :> 1 @@ t2 :> 2
MCOwner == b1 :> 1 @@ b2 :> 1 @@ b3 :> 2

\* The third creature is also a mana source; the first player is expensive to
\* attack and only one creature may attack the permanent.  The mana of the land and
\* of the creature cost life, of which there is enough for one.
MCAttackBoards ==
  [may : {Attackers \X Targets}, alone : {{}, {a1}}, vigilant : {{}, {a3}},
   required : {{}, {a2}}, mana : {{a3}}, tax : {t1 :> 1 @@ t2 :> 0},
   limit : {t1 :> 3 @@ t2 :> 1}, pool : {1},
   painful : {{l1, a3}}, life : {1}, revisions : BOOLEAN]

MCBlockBoards ==
  [joined : {NoAttacks, a3 :> t2}, lost : {{}, {2}}, able : {Blockers \X Attackers},
   menace : {{}, {a1}, {a1, a2}}, maxOne : {{}, {a1}},
   mustBeBlocked : {{}, {a1}}, allMustBlock : {{}, {a2}}]
================================================================================
