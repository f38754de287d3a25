------------------------ MODULE CombatDeclarationProofs ------------------------
(***************************************************************************)
(* Proofs about CombatDeclaration: its types, lone attackers, menace, that *)
(* replays are legal and leave nothing of a cancelled attack, and the only *)
(* reasons for a request without options, for every number of creatures    *)
(* and every pair of boards.                                               *)
(***************************************************************************)
EXTENDS CombatDeclaration, FiniteSums, SequenceTheorems, TLAPS

Phases == {"attack", "window", "block", "done", "failed", "stuck"}
CombatEntry == [attacker : Attackers, target : Targets]

-------------------------------------------------------------------------------
(* Sequences.                                                              *)

\* What is left of a sequence when one element is removed, in the order it had.
LEMMA RemoveAtProperties ==
  ASSUME NEW S, NEW s \in Seq(S), NEW i \in 1..Len(s)
  PROVE  /\ RemoveAt(s, i) \in Seq(S)
         /\ \A j \in 1..Len(RemoveAt(s, i)) :
              RemoveAt(s, i)[j] = IF j < i THEN s[j] ELSE s[j + 1]
         /\ Len(RemoveAt(s, i)) = Len(s) - 1
<1>1. Len(s) \in Nat /\ i \in Nat
  OBVIOUS
<1> DEFINE l == SubSeq(s, 1, i - 1)
           r == SubSeq(s, i + 1, Len(s))
<1>2. /\ l \in Seq(S) /\ Len(l) = i - 1
      /\ \A j \in 1..(i - 1) : l[j] = s[j]
  BY <1>1
<1>3. /\ r \in Seq(S) /\ Len(r) = Len(s) - i
      /\ \A j \in 1..(Len(s) - i) : r[j] = s[i + j]
  BY <1>1
<1>4. RemoveAt(s, i) = l \o r
  BY DEF RemoveAt
<1> HIDE DEF l, r
<1>5. /\ l \o r \in Seq(S) /\ Len(l \o r) = Len(s) - 1
      /\ \A j \in 1..(Len(s) - 1) : (l \o r)[j] = IF j <= i - 1 THEN l[j] ELSE r[j - (i - 1)]
  <2>1. l \o r \in Seq(S) /\ Len(l \o r) = Len(l) + Len(r)
    BY <1>2, <1>3, ConcatProperties
  <2>2. Len(l) + Len(r) = Len(s) - 1
    BY <1>1, <1>2, <1>3
  <2>3. \A j \in 1..(Len(l) + Len(r)) :
          (l \o r)[j] = IF j <= Len(l) THEN l[j] ELSE r[j - Len(l)]
    BY <1>2, <1>3, ConcatProperties
  <2> QED BY <1>2, <2>1, <2>2, <2>3
<1>6. ASSUME NEW j \in 1..(Len(s) - 1)
      PROVE  (l \o r)[j] = IF j < i THEN s[j] ELSE s[j + 1]
  <2>1. CASE j < i
    BY <1>1, <1>2, <1>5, <2>1
  <2>2. CASE ~(j < i)
    <3>1. j - (i - 1) \in 1..(Len(s) - i) /\ i + (j - (i - 1)) = j + 1
      BY <1>1, <2>2
    <3> QED BY <1>1, <1>3, <1>5, <2>2, <3>1
  <2> QED BY <2>1, <2>2
<1> QED BY <1>4, <1>5, <1>6

-------------------------------------------------------------------------------
(* The inductive invariant.                                                *)

\* No two declarations are of one creature, and none goes beside one that
\* attacks alone.
DeclaredApart ==
  \A i, j \in 1..Len(declared) :
    i # j => /\ declared[i].attacker # declared[j].attacker
             /\ declared[i].attacker \notin board.alone

\* While attackers are declared, those that attack are the declarations replayed.
SelectedAreDeclared ==
  phase = "attack" => Selected = {declared[i].attacker : i \in 1..Len(combat)}

\* Before blocks there are none; afterwards an attacker with a blocker too few is
\* one that the defending player faces.
IncompleteIsFaced ==
  /\ phase \in {"attack", "window", "failed"} => \A a \in Attackers : blocks[a] = {}
  /\ Incomplete # {} => phase \in {"block", "stuck"}
  /\ Incomplete \subseteq Facing

\* Blockers are used by the attackers they block; only one attacker waits for a
\* second blocker, and that blocker is still free.
SecondIsFree ==
  /\ phase \in {"block", "stuck"} => \A a \in Facing : blocks[a] \subseteq used
  /\ \A a, c \in Incomplete : a = c
  /\ \A a \in Incomplete : \E b \in Free : CanBlock(b, a)

\* Creatures that block for one player do not face another's attackers.
NotYetBlocked ==
  \A a \in Selected : DefendingPlayer[attacks[a]] > defender => blocks[a] = {}

IInv ==
  /\ TypeOK
  /\ DeclaredApart
  /\ SelectedAreDeclared
  /\ LoneAttacker
  /\ IncompleteIsFaced
  /\ SecondIsFree
  /\ NotYetBlocked
  /\ StuckOnlyByConflict


LEMMA AppendLast ==
  ASSUME NEW S, NEW s \in Seq(S), NEW e \in S
  PROVE  /\ Append(s, e) \in Seq(S)
         /\ Len(Append(s, e)) = Len(s) + 1
         /\ \A j \in 1..Len(s) : Append(s, e)[j] = s[j]
         /\ Append(s, e)[Len(s) + 1] = e
OBVIOUS

-------------------------------------------------------------------------------
(* The types.                                                              *)

LEMMA BoardTypes ==
  ASSUME TypeOK
  PROVE  board \in AttackBoard /\ guard \in BlockBoard
<1>1. NoAttacks \in [{} -> Targets]
  BY DEF NoAttacks
<1>2. NoAttacks \in Attacks
  BY <1>1 DEF Attacks
<1>3. NoBoard \in BlockBoard
  BY <1>2 DEF NoBoard, BlockBoard
<1> QED BY <1>3, CombatAssumption DEF TypeOK

LEMMA AttacksType ==
  ASSUME NEW f \in Attacks
  PROVE  /\ DOMAIN f \subseteq Attackers
         /\ \A a \in DOMAIN f : f[a] \in Targets
         /\ f = [a \in DOMAIN f |-> f[a]]
BY DEF Attacks

LEMMA AttacksMade ==
  ASSUME NEW S \in SUBSET Attackers, NEW f \in [S -> Targets]
  PROVE  f \in Attacks
BY DEF Attacks

\* A declaration that is offered is one, and can be paid.
LEMMA OfferedType ==
  ASSUME TypeOK, NEW d \in Offered
  PROVE  /\ d \in Declarations
         /\ MayAttack(d.attacker, d.target)
         /\ Payable(d)
<1>1. /\ d \in [attacker : Attackers, target : Targets,
                pool : 0..pool, sources : SUBSET (Lands \cup board.mana)]
      /\ MayAttack(d.attacker, d.target)
      /\ Pays(d)
  BY DEF Offered
<1>2. board.mana \subseteq Attackers /\ pool \in Nat
  BY BoardTypes DEF TypeOK, AttackBoard
<1>3. d \in Declarations
  BY <1>1, <1>2 DEF Declarations
<1>4. Payable(d)
  BY <1>1, <1>2 DEF Payable, Pays, LifeCost
<1> QED BY <1>1, <1>3, <1>4

\* The sources of a declaration are finite, and so is the life that they cost.
LEMMA LifeCostType ==
  ASSUME NEW d \in Declarations, NEW painful
  PROVE  /\ IsFiniteSet(d.sources)
         /\ Cardinality(d.sources \cap painful) \in Nat
<1>1. d.sources \subseteq Attackers \cup Lands
  BY DEF Declarations
<1>2. IsFiniteSet(Attackers \cup Lands)
  BY CombatAssumption, FS_Union
<1>3. IsFiniteSet(d.sources)
  BY <1>1, <1>2, FS_Subset
<1>4. d.sources \cap painful \subseteq d.sources
  OBVIOUS
<1>5. IsFiniteSet(d.sources \cap painful)
  BY <1>3, <1>4, FS_Subset
<1> QED BY <1>3, <1>5, FS_CardinalityType

\* Declaring an attacker, for the first time or again.
LEMMA ApplyTypes ==
  ASSUME TypeOK, NEW d \in Declarations, Payable(d), Apply(d)
  PROVE  /\ tapped' \subseteq Attackers \cup Lands
         /\ pool' \in 0..board.pool
         /\ life' \in 0..board.life
         /\ combat' \in Seq(CombatEntry)
         /\ Len(combat') = Len(combat) + 1
         /\ attacks' \in Attacks
         /\ DOMAIN attacks' = Selected \cup {d.attacker}
<1>1. /\ d.attacker \in Attackers /\ d.target \in Targets /\ d.pool \in Nat
      /\ d.sources \subseteq Attackers \cup Lands
  BY DEF Declarations
<1>2. tapped' \subseteq Attackers \cup Lands
  BY <1>1 DEF Apply, TypeOK
<1>3. pool' \in 0..board.pool
  <2>1. board.pool \in Nat /\ pool \in 0..board.pool
    BY BoardTypes DEF AttackBoard, TypeOK
  <2> QED BY <1>1, <2>1 DEF Apply, Payable
<1>4. combat' \in Seq(CombatEntry) /\ Len(combat') = Len(combat) + 1
  <2>1. [attacker |-> d.attacker, target |-> d.target] \in CombatEntry
    BY <1>1 DEF CombatEntry
  <2> QED BY <2>1, AppendLast DEF Apply, TypeOK, CombatEntry
<1>5. /\ attacks' = [a \in Selected \cup {d.attacker} |->
                       IF a = d.attacker THEN d.target ELSE attacks[a]]
      /\ Selected \subseteq Attackers
      /\ \A a \in Selected : attacks[a] \in Targets
  BY AttacksType DEF Apply, TypeOK, Selected
<1>6. attacks' \in [Selected \cup {d.attacker} -> Targets]
  BY <1>1, <1>5
<1>7. life' \in 0..board.life
  <2>1. board.life \in Nat /\ life \in 0..board.life
    BY BoardTypes DEF AttackBoard, TypeOK
  <2>2. LifeCost(d) \in Nat
    BY LifeCostType DEF LifeCost
  <2> QED BY <2>1, <2>2 DEF Apply, Payable
<1> QED BY <1>1, <1>2, <1>3, <1>4, <1>5, <1>6, <1>7, AttacksMade

LEMMA TypeStep ==
  ASSUME TypeOK, [Next]_vars
  PROVE  TypeOK'
<1>1. CASE Declare
  <2>1. PICK d \in Offered : Apply(d) /\ declared' = Append(declared, d)
    BY <1>1 DEF Declare
  <2>2. d \in Declarations /\ Payable(d)
    BY <2>1, OfferedType
  <2>3. declared' \in Seq(Declarations) /\ Len(declared') = Len(declared) + 1
    BY <2>1, <2>2, AppendLast DEF TypeOK
  <2>4. /\ tapped' \subseteq Attackers \cup Lands
        /\ pool' \in 0..board.pool
        /\ life' \in 0..board.life
        /\ combat' \in Seq(CombatEntry)
        /\ Len(combat') = Len(combat) + 1
        /\ attacks' \in Attacks
    BY <2>1, <2>2, ApplyTypes
  <2>5. Len(combat') <= Len(declared')
    BY <2>3, <2>4 DEF TypeOK
  <2>6. UNCHANGED <<phase, board, guard, defender, used, blocks>>
    BY <1>1 DEF Declare
  <2> QED BY <2>3, <2>4, <2>5, <2>6 DEF TypeOK, CombatEntry
<1>2. CASE CancelAttacker
  <2>1. PICK i \in 1..Len(declared) : declared' = RemoveAt(declared, i)
    BY <1>2 DEF CancelAttacker, TypeOK
  <2>2. declared' \in Seq(Declarations)
    BY <2>1, RemoveAtProperties DEF TypeOK
  <2>3. /\ tapped' = {} /\ pool' = board.pool /\ life' = board.life
        /\ combat' = <<>> /\ attacks' = NoAttacks
        /\ UNCHANGED <<phase, board, guard, defender, used, blocks>>
    BY <1>2 DEF CancelAttacker
  <2>4. attacks' \in Attacks
    <3>1. NoAttacks \in [{} -> Targets]
      BY DEF NoAttacks
    <3> QED BY <2>3, <3>1, AttacksMade
  <2>5. Len(combat') <= Len(declared')
    BY <2>2, <2>3
  <2>6. pool' \in 0..board.pool /\ life' \in 0..board.life
    BY <2>3, BoardTypes DEF AttackBoard
  <2> QED BY <2>2, <2>3, <2>4, <2>5, <2>6 DEF TypeOK
<1>3. CASE Replay
  <2> DEFINE d == declared[Len(combat) + 1]
  <2>1. Len(combat) < Len(declared) /\ Len(combat) \in Nat /\ Len(declared) \in Nat
    BY <1>3 DEF Replay, Replaying, TypeOK
  <2>2. d \in Declarations
    BY <2>1 DEF TypeOK
  <2>3. UNCHANGED <<board, declared, guard, defender, used, blocks>>
    BY <1>3 DEF Replay
  <2>4. CASE Payable(d)
    <3>1. Apply(d) /\ phase' = phase
      BY <1>3, <2>4 DEF Replay
    <3> HIDE DEF d
    <3>2. /\ tapped' \subseteq Attackers \cup Lands
          /\ pool' \in 0..board.pool
          /\ life' \in 0..board.life
          /\ combat' \in Seq(CombatEntry)
          /\ Len(combat') = Len(combat) + 1
          /\ attacks' \in Attacks
      BY <2>2, <2>4, <3>1, ApplyTypes
    <3>3. Len(combat') <= Len(declared')
      BY <2>1, <2>3, <3>2
    <3> QED BY <2>3, <3>1, <3>2, <3>3 DEF TypeOK, CombatEntry
  <2>5. CASE ~Payable(d)
    BY <1>3, <2>3, <2>5 DEF Replay, TypeOK, stateVars
  <2> QED BY <2>4, <2>5
<1>4. CASE FinishAttackers
  BY <1>4 DEF FinishAttackers, TypeOK, attackVars, stateVars
<1>5. CASE PriorityWindow
  <2>1. UNCHANGED <<attackVars, defender, used, blocks>> /\ phase' \in {"done", "block"}
    BY <1>5 DEF PriorityWindow
  <2>2. guard' \in BlockBoards \cup {NoBoard} /\ attacks' \in Attacks
    <3>1. CASE UNCHANGED <<attacks, guard>>
      BY <3>1 DEF TypeOK
    <3>2. CASE /\ guard' \in BlockBoards
               /\ attacks' = [a \in Selected \cup DOMAIN guard'.joined |->
                                IF a \in Selected THEN attacks[a] ELSE guard'.joined[a]]
      <4>1. guard'.joined \in Attacks
        BY <3>2, CombatAssumption DEF BlockBoard
      <4>2. /\ DOMAIN guard'.joined \subseteq Attackers
            /\ \A a \in DOMAIN guard'.joined : guard'.joined[a] \in Targets
        BY <4>1, AttacksType
      <4>3. Selected \subseteq Attackers /\ \A a \in Selected : attacks[a] \in Targets
        BY AttacksType DEF TypeOK, Selected
      <4>4. attacks' \in [Selected \cup DOMAIN guard'.joined -> Targets]
        BY <3>2, <4>2, <4>3
      <4> QED BY <3>2, <4>2, <4>3, <4>4, AttacksMade
    <3> QED BY <1>5, <3>1, <3>2 DEF PriorityWindow
  <2> QED BY <2>1, <2>2 DEF TypeOK, attackVars, stateVars
<1>6. CASE DeclareBlocker
  <2>1. PICK b \in Free, a \in Facing :
          used' = used \cup {b} /\ blocks' = [blocks EXCEPT ![a] = @ \cup {b}]
    BY <1>6 DEF DeclareBlocker
  <2>2. b \in Blockers
    BY <2>1 DEF Free
  <2>3. used' \subseteq Blockers /\ blocks' \in [Attackers -> SUBSET Blockers]
    BY <2>1, <2>2 DEF TypeOK
  <2> QED BY <1>6, <2>3 DEF DeclareBlocker, TypeOK, attackVars, stateVars
<1>7. CASE FinishBlockers
  <2>1. /\ UNCHANGED <<attackVars, attacks, guard, blocks>>
        /\ used' = {}
        /\ phase' \in {phase, "done"}
    BY <1>7 DEF FinishBlockers
  <2>2. defender' \in Defenders
    BY <1>7, CombatAssumption DEF FinishBlockers, Defenders, TypeOK
  <2> QED BY <2>1, <2>2 DEF TypeOK, attackVars, stateVars
<1>8. CASE EmptyRequest
  BY <1>8 DEF EmptyRequest, TypeOK, attackVars, stateVars
<1>9. CASE UNCHANGED vars
  BY <1>9 DEF TypeOK, vars, attackVars, stateVars
<1> QED BY <1>1, <1>2, <1>3, <1>4, <1>5, <1>6, <1>7, <1>8, <1>9 DEF Next


-------------------------------------------------------------------------------
(* Attackers.                                                              *)

\* Nothing that the declarations of attackers depend on changes otherwise.
LEMMA AttackSteps ==
  ASSUME [Next]_vars
  PROVE  \/ Declare \/ CancelAttacker \/ Replay
         \/ phase' # "attack" /\ UNCHANGED <<board, declared>>
         \/ UNCHANGED <<phase, board, declared, combat, attacks>>
BY DEF Next, FinishAttackers, PriorityWindow, DeclareBlocker, FinishBlockers, EmptyRequest,
       vars, attackVars, stateVars

LEMMA ApartStep ==
  ASSUME IInv, [Next]_vars
  PROVE  DeclaredApart'
<1>1. /\ TypeOK /\ DeclaredApart /\ SelectedAreDeclared
      /\ declared \in Seq(Declarations)
      /\ Len(declared) \in Nat /\ Len(combat) \in Nat /\ Len(combat) <= Len(declared)
  BY DEF IInv, TypeOK
<1>2. CASE Declare
  <2>1. PICK d \in Offered : declared' = Append(declared, d)
    BY <1>2 DEF Declare
  <2>2. d \in Declarations /\ MayAttack(d.attacker, d.target)
    BY <1>1, <2>1, OfferedType
  <2>3. /\ Len(declared') = Len(declared) + 1
        /\ \A j \in 1..Len(declared) : declared'[j] = declared[j]
        /\ declared'[Len(declared) + 1] = d
    BY <1>1, <2>1, <2>2, AppendLast
  <2>4. Selected = {declared[i].attacker : i \in 1..Len(declared)}
    BY <1>1, <1>2 DEF Declare, Replaying, SelectedAreDeclared
  <2>5. \A i \in 1..Len(declared) :
          /\ declared[i].attacker # d.attacker
          /\ declared[i].attacker \notin board.alone
          /\ d.attacker \notin board.alone
    BY <2>2, <2>4 DEF MayAttack
  <2>6. board' = board
    BY <1>2 DEF Declare
  <2> SUFFICES ASSUME NEW i \in 1..Len(declared'), NEW j \in 1..Len(declared'), i # j
               PROVE  /\ declared'[i].attacker # declared'[j].attacker
                      /\ declared'[i].attacker \notin board'.alone
    BY DEF DeclaredApart
  <2>7. CASE i \in 1..Len(declared) /\ j \in 1..Len(declared)
    BY <1>1, <2>3, <2>6, <2>7 DEF DeclaredApart
  <2>8. CASE i = Len(declared) + 1 /\ j \in 1..Len(declared)
    BY <2>3, <2>5, <2>6, <2>8
  <2>9. CASE j = Len(declared) + 1 /\ i \in 1..Len(declared)
    BY <2>3, <2>5, <2>6, <2>9
  <2> QED BY <1>1, <2>3, <2>7, <2>8, <2>9
<1>3. CASE CancelAttacker
  <2>1. PICK i \in 1..Len(declared) : declared' = RemoveAt(declared, i)
    BY <1>1, <1>3 DEF CancelAttacker
  <2>2. /\ \A j \in 1..Len(declared') :
             declared'[j] = IF j < i THEN declared[j] ELSE declared[j + 1]
        /\ Len(declared') = Len(declared) - 1
        /\ board' = board
    BY <1>1, <1>3, <2>1, RemoveAtProperties DEF CancelAttacker
  <2> DEFINE before(j) == IF j < i THEN j ELSE j + 1
  <2>3. \A j \in 1..Len(declared') :
          before(j) \in 1..Len(declared) /\ declared'[j] = declared[before(j)]
    BY <1>1, <2>2
  <2>4. \A j, k \in 1..Len(declared') : j # k => before(j) # before(k)
    BY <1>1, <2>2
  <2> HIDE DEF before
  <2> SUFFICES ASSUME NEW j \in 1..Len(declared'), NEW k \in 1..Len(declared'), j # k
               PROVE  /\ declared'[j].attacker # declared'[k].attacker
                      /\ declared'[j].attacker \notin board'.alone
    BY DEF DeclaredApart
  <2>5. /\ before(j) \in 1..Len(declared) /\ before(k) \in 1..Len(declared)
        /\ before(j) # before(k)
    BY <2>3, <2>4
  <2>6. /\ declared[before(j)].attacker # declared[before(k)].attacker
        /\ declared[before(j)].attacker \notin board.alone
    BY <1>1, <2>5 DEF DeclaredApart
  <2> QED BY <2>2, <2>3, <2>6
<1>4. CASE Replay
  BY <1>1, <1>4 DEF Replay, DeclaredApart
<1>5. CASE UNCHANGED <<board, declared>>
  BY <1>1, <1>5 DEF DeclaredApart
<1> QED BY <1>2, <1>3, <1>4, <1>5, AttackSteps

LEMMA SelectedStep ==
  ASSUME IInv, [Next]_vars
  PROVE  SelectedAreDeclared'
<1>1. /\ TypeOK /\ SelectedAreDeclared
      /\ declared \in Seq(Declarations)
      /\ Len(declared) \in Nat /\ Len(combat) \in Nat /\ Len(combat) <= Len(declared)
  BY DEF IInv, TypeOK
<1>2. CASE Declare
  <2>1. PICK d \in Offered : Apply(d) /\ declared' = Append(declared, d)
    BY <1>2 DEF Declare
  <2>2. d \in Declarations /\ Payable(d)
    BY <1>1, <2>1, OfferedType
  <2>3. /\ \A j \in 1..Len(declared) : declared'[j] = declared[j]
        /\ declared'[Len(declared) + 1] = d
    BY <1>1, <2>1, <2>2, AppendLast
  <2>4. DOMAIN attacks' = Selected \cup {d.attacker} /\ Len(combat') = Len(combat) + 1
    BY <1>1, <2>1, <2>2, ApplyTypes
  <2>5. /\ Selected = {declared[i].attacker : i \in 1..Len(combat)}
        /\ Len(combat) = Len(declared)
    BY <1>1, <1>2 DEF Declare, Replaying, SelectedAreDeclared
  <2>6. DOMAIN attacks' = {declared'[i].attacker : i \in 1..Len(combat')}
    BY <1>1, <2>3, <2>4, <2>5
  <2> QED BY <2>6 DEF SelectedAreDeclared, Selected
<1>3. CASE CancelAttacker
  <2>1. attacks' = NoAttacks /\ combat' = <<>>
    BY <1>3 DEF CancelAttacker
  <2> QED BY <2>1 DEF SelectedAreDeclared, Selected, NoAttacks
<1>4. CASE Replay
  <2> DEFINE d == declared[Len(combat) + 1]
  <2>1. Len(combat) < Len(declared) /\ declared' = declared /\ phase = "attack"
    BY <1>4 DEF Replay, Replaying
  <2>2. d \in Declarations
    BY <1>1, <2>1
  <2>3. CASE Payable(d)
    <3>1. Apply(d)
      BY <1>4, <2>3 DEF Replay
    <3>2. DOMAIN attacks' = Selected \cup {d.attacker} /\ Len(combat') = Len(combat) + 1
      <4> HIDE DEF d
      <4> QED BY <1>1, <2>2, <2>3, <3>1, ApplyTypes
    <3>3. DOMAIN attacks' = {declared'[i].attacker : i \in 1..Len(combat')}
      BY <1>1, <2>1, <3>2 DEF SelectedAreDeclared
    <3> QED BY <3>3 DEF SelectedAreDeclared, Selected
  <2>4. CASE ~Payable(d)
    BY <1>4, <2>4 DEF Replay, SelectedAreDeclared
  <2> QED BY <2>3, <2>4
<1>5. CASE phase' # "attack" \/ UNCHANGED <<phase, board, declared, combat, attacks>>
  BY <1>1, <1>5 DEF SelectedAreDeclared, Selected
<1> QED BY <1>2, <1>3, <1>4, <1>5, AttackSteps

LEMMA LoneStep ==
  ASSUME IInv, [Next]_vars
  PROVE  LoneAttacker'
<1>1. DeclaredApart' /\ SelectedAreDeclared' /\ TypeOK'
  BY ApartStep, SelectedStep, TypeStep DEF IInv
<1>2. CASE phase' = "attack"
  <2> SUFFICES ASSUME NEW a \in Selected' \cap board'.alone, NEW c \in Selected'
               PROVE  c = a
    BY <1>2 DEF LoneAttacker
  <2>1. PICK i \in 1..Len(combat') : a = declared'[i].attacker
    BY <1>1, <1>2 DEF SelectedAreDeclared
  <2>2. PICK j \in 1..Len(combat') : c = declared'[j].attacker
    BY <1>1, <1>2 DEF SelectedAreDeclared
  <2>3. i \in 1..Len(declared') /\ j \in 1..Len(declared')
    BY <1>1 DEF TypeOK
  <2>4. i = j
    BY <1>1, <2>1, <2>3 DEF DeclaredApart
  <2> QED BY <2>1, <2>2, <2>4
<1>3. CASE phase' = "window"
  <2>1. UNCHANGED <<board, attacks>> /\ phase \in {"attack", "window"}
    BY <1>3 DEF Next, Declare, CancelAttacker, Replay, FinishAttackers, PriorityWindow,
                DeclareBlocker, FinishBlockers, EmptyRequest, vars, attackVars, stateVars
  <2> QED BY <2>1 DEF IInv, LoneAttacker, Selected
<1> QED BY <1>2, <1>3 DEF LoneAttacker

-------------------------------------------------------------------------------
(* Cancelling and declaring again.                                         *)

First(s, n) == {s[i] : i \in 1..n}

Aimed(s, t) == {i \in 1..Len(s) : s[i].target = t}

PoolPaid == [d \in Declarations |-> d.pool]

PoolOf(S) == SumFunctionOnSet(PoolPaid, S)

LifePaid(painful) == [d \in Declarations |-> Cardinality(d.sources \cap painful)]

LifeOf(painful, S) == SumFunctionOnSet(LifePaid(painful), S)

\* Every declaration was possible on the attack board and pays exactly its tax.
DeclaredPaid ==
  \A i \in 1..Len(declared) :
    LET d == declared[i] IN
      /\ <<d.attacker, d.target>> \in board.may
      /\ d.sources \subseteq Lands \cup board.mana
      /\ d.attacker \notin d.sources
      /\ d.pool + Cardinality(d.sources) = board.tax[d.target]

\* A later declaration needs nothing that an earlier one tapped.
TappedOnce ==
  \A i, j \in 1..Len(declared) :
    i < j => /\ declared[j].attacker \notin declared[i].sources
             /\ declared[j].sources \cap declared[i].sources = {}
             /\ declared[i].attacker \in declared[j].sources =>
                  declared[i].attacker \in board.vigilant

\* All declarations together are within the limits, the pool and the life.
WithinLimits ==
  /\ \A t \in Targets : Cardinality(Aimed(declared, t)) <= board.limit[t]
  /\ PoolOf(First(declared, Len(declared))) <= board.pool
  /\ LifeOf(board.painful, First(declared, Len(declared))) <= board.life

\* The state is the one that the declarations replayed so far lead to.
StateIsReplayed ==
  phase = "attack" =>
    /\ \A i \in 1..Len(combat) :
         /\ combat[i].target = declared[i].target
         /\ declared[i].sources \subseteq tapped
         /\ declared[i].attacker \in tapped \cup board.vigilant
    /\ \A x \in tapped : \E i \in 1..Len(combat) :
         \/ x \in declared[i].sources
         \/ x = declared[i].attacker /\ x \notin board.vigilant
    /\ pool = board.pool - PoolOf(First(declared, Len(combat)))
    /\ life = board.life - LifeOf(board.painful, First(declared, Len(combat)))

Replayable == DeclaredPaid /\ TappedOnce /\ WithinLimits /\ StateIsReplayed

LEMMA FirstFinite ==
  ASSUME NEW S, NEW s \in Seq(S), NEW n \in 0..Len(s)
  PROVE  /\ First(s, n) \subseteq S
         /\ IsFiniteSet(First(s, n))
<1>1. \A i \in 1..n : s[i] \in S
  OBVIOUS
<1>2. IsFiniteSet(1..n)
  BY FS_Interval
<1> DEFINE e == [i \in 1..n |-> s[i]]
<1>3. e \in Surjection(1..n, First(s, n))
  BY DEF Surjection, First
<1> HIDE DEF e
<1> QED BY <1>1, <1>2, <1>3, FS_Surjection DEF First

LEMMA AimedFinite ==
  ASSUME NEW S, NEW s \in Seq(S), NEW t
  PROVE  IsFiniteSet(Aimed(s, t)) /\ Cardinality(Aimed(s, t)) \in Nat
<1>1. IsFiniteSet(1..Len(s)) /\ Aimed(s, t) \subseteq 1..Len(s)
  BY FS_Interval DEF Aimed
<1> QED BY <1>1, FS_Subset, FS_CardinalityType

\* The mana of the pool that a set of declarations uses grows with the set.
LEMMA PoolOfPart ==
  ASSUME NEW S \in SUBSET Declarations, IsFiniteSet(S), NEW R \in SUBSET S
  PROVE  /\ PoolOf(S) \in Nat /\ PoolOf(R) \in Nat
         /\ PoolOf(R) <= PoolOf(S)
<1>1. Weights(PoolPaid, S) /\ Weights(PoolPaid, R) /\ IsFiniteSet(R)
  BY FS_Subset DEF Weights, PoolPaid, Declarations
<1> QED BY <1>1, SumType, SumPart DEF PoolOf

LEMMA PoolOfOneMore ==
  ASSUME NEW S \in SUBSET Declarations, IsFiniteSet(S), NEW d \in Declarations, d \notin S
  PROVE  PoolOf(S \cup {d}) = PoolOf(S) + d.pool
<1>1. Weights(PoolPaid, S \cup {d}) /\ PoolPaid[d] = d.pool
  BY DEF Weights, PoolPaid, Declarations
<1> QED BY <1>1, SumAdd DEF PoolOf

\* So does the life.
LEMMA LifeOfPart ==
  ASSUME NEW S \in SUBSET Declarations, IsFiniteSet(S), NEW R \in SUBSET S, NEW painful
  PROVE  /\ LifeOf(painful, S) \in Nat /\ LifeOf(painful, R) \in Nat
         /\ LifeOf(painful, R) <= LifeOf(painful, S)
<1>1. \A d \in Declarations : LifePaid(painful)[d] \in Nat
  BY LifeCostType DEF LifePaid
<1>2. Weights(LifePaid(painful), S) /\ Weights(LifePaid(painful), R) /\ IsFiniteSet(R)
  BY <1>1, FS_Subset DEF Weights
<1> QED BY <1>2, SumType, SumPart DEF LifeOf

LEMMA LifeOfOneMore ==
  ASSUME NEW S \in SUBSET Declarations, IsFiniteSet(S), NEW d \in Declarations, d \notin S,
         NEW painful
  PROVE  LifeOf(painful, S \cup {d}) =
           LifeOf(painful, S) + Cardinality(d.sources \cap painful)
<1>1. \A e \in Declarations : LifePaid(painful)[e] \in Nat
  BY LifeCostType DEF LifePaid
<1>2. /\ Weights(LifePaid(painful), S \cup {d})
      /\ LifePaid(painful)[d] = Cardinality(d.sources \cap painful)
  BY <1>1 DEF Weights, LifePaid
<1> QED BY <1>2, SumAdd DEF LifeOf

\* One more declaration at the end of what is replayed.
LEMMA FirstNext ==
  ASSUME NEW s, NEW n \in Nat
  PROVE  First(s, n + 1) = First(s, n) \cup {s[n + 1]}
<1>1. 1..(n + 1) = 1..n \cup {n + 1}
  OBVIOUS
<1> QED BY <1>1 DEF First

\* What is declared again after a cancellation may be declared then.
LEMMA ReplayOffered ==
  ASSUME IInv, Replayable, phase = "attack", Replaying
  PROVE  declared[Len(combat) + 1] \in Offered
<1> DEFINE n == Len(combat)
           d == declared[n + 1]
<1>1. /\ n \in Nat /\ Len(declared) \in Nat /\ n + 1 \in 1..Len(declared)
      /\ declared \in Seq(Declarations) /\ d \in Declarations
      /\ combat \in Seq(CombatEntry)
      /\ TypeOK
  BY DEF IInv, TypeOK, Replaying, CombatEntry
<1>2. /\ d.attacker \in Attackers /\ d.target \in Targets /\ d.pool \in Nat
      /\ d.sources \subseteq Attackers \cup Lands
  BY <1>1 DEF Declarations
<1>3. Selected = {declared[i].attacker : i \in 1..n}
  BY DEF IInv, SelectedAreDeclared
<1>4. \A i \in 1..n : i \in 1..Len(declared) /\ i < n + 1 /\ i # n + 1
  BY <1>1
<1>5. /\ d.attacker \notin Selected
      /\ Selected \cap board.alone = {}
      /\ d.attacker \in board.alone => Selected = {}
  BY <1>1, <1>3, <1>4 DEF IInv, DeclaredApart
<1>6. d.attacker \notin tapped
  <2>1. \A i \in 1..n : /\ d.attacker \notin declared[i].sources
                        /\ d.attacker # declared[i].attacker
    BY <1>1, <1>4 DEF Replayable, TappedOnce, IInv, DeclaredApart
  <2>2. \A x \in tapped : \E i \in 1..n :
          x \in declared[i].sources \/ x = declared[i].attacker
    BY DEF Replayable, StateIsReplayed
  <2> HIDE DEF d
  <2> QED BY <2>1, <2>2
<1>7. d.sources \cap tapped = {}
  BY <1>1, <1>4 DEF Replayable, StateIsReplayed, TappedOnce
<1>8. /\ <<d.attacker, d.target>> \in board.may
      /\ d.sources \subseteq Lands \cup board.mana
      /\ d.attacker \notin d.sources
      /\ d.pool + Cardinality(d.sources) = board.tax[d.target]
  BY <1>1 DEF Replayable, DeclaredPaid
<1>9. Cardinality(Attacking(d.target)) < board.limit[d.target]
  <2> DEFINE t == d.target
  <2>1. Attacking(t) \subseteq Aimed(declared, t) \ {n + 1} /\ n + 1 \in Aimed(declared, t)
    BY <1>1, <1>4 DEF Attacking, Aimed, Replayable, StateIsReplayed
  <2>2. IsFiniteSet(Aimed(declared, t)) /\ Cardinality(Aimed(declared, t)) \in Nat
    BY <1>1, AimedFinite
  <2>3. /\ Cardinality(Aimed(declared, t) \ {n + 1}) = Cardinality(Aimed(declared, t)) - 1
        /\ IsFiniteSet(Aimed(declared, t) \ {n + 1})
    BY <2>1, <2>2, FS_RemoveElement
  <2>4. /\ Cardinality(Attacking(t)) <= Cardinality(Aimed(declared, t) \ {n + 1})
        /\ Cardinality(Attacking(t)) \in Nat
    BY <2>1, <2>3, FS_Subset, FS_CardinalityType
  <2>5. /\ Cardinality(Aimed(declared, t)) <= board.limit[t]
        /\ board.limit[t] \in Nat
    BY <1>1, <1>2, BoardTypes DEF Replayable, WithinLimits, AttackBoard
  <2> QED BY <2>2, <2>3, <2>4, <2>5
<1>10. d.pool <= pool
  <2> DEFINE made == First(declared, n)
             all == First(declared, Len(declared))
  <2>1. /\ made \in SUBSET Declarations /\ IsFiniteSet(made)
        /\ all \in SUBSET Declarations /\ IsFiniteSet(all)
    BY <1>1, FirstFinite
  <2>2. d \notin made
    BY <1>1, <1>4 DEF First, IInv, DeclaredApart
  <2>3. made \cup {d} \in SUBSET all
    BY <1>1, <1>4 DEF First
  <2> HIDE DEF made, all, d
  <2>4. PoolOf(made) + d.pool = PoolOf(made \cup {d})
    BY <1>1, <2>1, <2>2, PoolOfOneMore
  <2>5. /\ PoolOf(made \cup {d}) <= PoolOf(all)
        /\ PoolOf(made \cup {d}) \in Nat /\ PoolOf(all) \in Nat
    BY <2>1, <2>3, PoolOfPart
  <2>6. PoolOf(made) \in Nat
    BY <2>1, PoolOfPart
  <2>7. /\ PoolOf(all) <= board.pool /\ board.pool \in Nat
        /\ pool = board.pool - PoolOf(made)
    BY <1>1, BoardTypes DEF all, made, Replayable, WithinLimits, StateIsReplayed, AttackBoard
  <2> QED BY <1>2, <2>4, <2>5, <2>6, <2>7
<1>11. pool \in Nat
  BY DEF IInv, TypeOK
<1>14. LifeCost(d) <= life
  <2> DEFINE made == First(declared, n)
             all == First(declared, Len(declared))
             pain == board.painful
  <2>1. /\ made \in SUBSET Declarations /\ IsFiniteSet(made)
        /\ all \in SUBSET Declarations /\ IsFiniteSet(all)
    BY <1>1, FirstFinite
  <2>2. d \notin made
    BY <1>1, <1>4 DEF First, IInv, DeclaredApart
  <2>3. made \cup {d} \in SUBSET all
    BY <1>1, <1>4 DEF First
  <2>4. LifeCost(d) = Cardinality(d.sources \cap pain) /\ LifeCost(d) \in Nat
    BY <1>1, LifeCostType DEF LifeCost
  <2>5. /\ LifeOf(pain, all) <= board.life /\ board.life \in Nat
        /\ life = board.life - LifeOf(pain, made)
    BY <1>1, BoardTypes DEF Replayable, WithinLimits, StateIsReplayed, AttackBoard
  <2> HIDE DEF made, all, d, pain
  <2>6. LifeOf(pain, made \cup {d}) = LifeOf(pain, made) + Cardinality(d.sources \cap pain)
    BY <1>1, <2>1, <2>2, LifeOfOneMore
  <2>7. /\ LifeOf(pain, made \cup {d}) <= LifeOf(pain, all)
        /\ LifeOf(pain, made \cup {d}) \in Nat /\ LifeOf(pain, all) \in Nat
    BY <2>1, <2>3, LifeOfPart
  <2>8. LifeOf(pain, made) \in Nat
    BY <2>1, LifeOfPart
  <2> QED BY <2>4, <2>5, <2>6, <2>7, <2>8
<1>12. d \in [attacker : Attackers, target : Targets,
              pool : 0..pool, sources : SUBSET (Lands \cup board.mana)]
  BY <1>1, <1>2, <1>8, <1>10, <1>11 DEF Declarations
<1>13. MayAttack(d.attacker, d.target) /\ Pays(d)
  BY <1>5, <1>6, <1>7, <1>8, <1>9, <1>14 DEF MayAttack, Pays
<1> QED BY <1>12, <1>13 DEF Offered

\* What the player declares anew.
LEMMA DeclareFacts ==
  ASSUME IInv, Declare
  PROVE  \E d \in Offered :
           /\ d \in Declarations /\ MayAttack(d.attacker, d.target) /\ Pays(d)
           /\ d.pool \in 0..pool /\ d.sources \subseteq Lands \cup board.mana
           /\ Apply(d)
           /\ declared' = Append(declared, d)
           /\ Len(declared') = Len(declared) + 1
           /\ \A j \in 1..Len(declared) : declared'[j] = declared[j]
           /\ declared'[Len(declared) + 1] = d
           /\ Len(combat) = Len(declared) /\ Len(declared) \in Nat
           /\ phase = "attack" /\ phase' = phase /\ board' = board
<1>1. PICK d \in Offered : Apply(d) /\ declared' = Append(declared, d)
  BY DEF Declare
<1>2. d \in Declarations /\ MayAttack(d.attacker, d.target)
  BY <1>1, OfferedType DEF IInv
<1>3. Pays(d) /\ d.pool \in 0..pool /\ d.sources \subseteq Lands \cup board.mana
  BY <1>1 DEF Offered
<1>4. declared \in Seq(Declarations) /\ Len(combat) = Len(declared) /\ Len(declared) \in Nat
  BY DEF IInv, TypeOK, Declare, Replaying
<1>5. /\ Len(declared') = Len(declared) + 1
      /\ \A j \in 1..Len(declared) : declared'[j] = declared[j]
      /\ declared'[Len(declared) + 1] = d
  BY <1>1, <1>2, <1>4, AppendLast
<1> QED BY <1>1, <1>2, <1>3, <1>4, <1>5 DEF Declare

\* What a cancellation leaves is a part of the declarations in their order.
LEMMA CancelFacts ==
  ASSUME IInv, CancelAttacker
  PROVE  /\ Len(declared') \in Nat /\ declared' \in Seq(Declarations)
         /\ \E b \in [1..Len(declared') -> 1..Len(declared)] :
              /\ \A j \in 1..Len(declared') : declared'[j] = declared[b[j]]
              /\ \A j, k \in 1..Len(declared') : j < k => b[j] < b[k]
         /\ tapped' = {} /\ pool' = board.pool /\ life' = board.life
         /\ combat' = <<>> /\ attacks' = NoAttacks
         /\ phase' = phase /\ board' = board
<1>1. declared \in Seq(Declarations) /\ Len(declared) \in Nat
  BY DEF IInv, TypeOK
<1>2. PICK i \in 1..Len(declared) : declared' = RemoveAt(declared, i)
  BY <1>1 DEF CancelAttacker
<1>3. /\ \A j \in 1..Len(declared') :
           declared'[j] = IF j < i THEN declared[j] ELSE declared[j + 1]
      /\ Len(declared') = Len(declared) - 1
      /\ declared' \in Seq(Declarations)
  BY <1>1, <1>2, RemoveAtProperties
<1> DEFINE b == [j \in 1..Len(declared') |-> IF j < i THEN j ELSE j + 1]
<1>4. b \in [1..Len(declared') -> 1..Len(declared)]
  BY <1>1, <1>3
<1>5. \A j \in 1..Len(declared') : declared'[j] = declared[b[j]]
  BY <1>3
<1>6. \A j, k \in 1..Len(declared') : j < k => b[j] < b[k]
  BY <1>1, <1>3
<1> HIDE DEF b
<1>7. Len(declared') \in Nat
  BY <1>1, <1>3
<1> QED BY <1>3, <1>4, <1>5, <1>6, <1>7 DEF CancelAttacker

LEMMA DeclareReplayable ==
  ASSUME IInv, Replayable, Declare
  PROVE  DeclaredPaid' /\ TappedOnce' /\ WithinLimits'
<1>1. PICK d \in Offered :
        /\ d \in Declarations /\ MayAttack(d.attacker, d.target) /\ Pays(d)
        /\ d.pool \in 0..pool /\ d.sources \subseteq Lands \cup board.mana
        /\ declared' = Append(declared, d)
        /\ Len(declared') = Len(declared) + 1
        /\ \A j \in 1..Len(declared) : declared'[j] = declared[j]
        /\ declared'[Len(declared) + 1] = d
        /\ Len(combat) = Len(declared) /\ Len(declared) \in Nat
        /\ phase = "attack" /\ board' = board
  BY DeclareFacts
<1> DEFINE n == Len(declared)
<1>2. \A j \in 1..Len(declared') : j \in 1..n \/ j = n + 1
  BY <1>1
<1>3. DeclaredPaid'
  <2> SUFFICES ASSUME NEW i \in 1..Len(declared')
               PROVE  LET e == declared'[i] IN
                        /\ <<e.attacker, e.target>> \in board.may
                        /\ e.sources \subseteq Lands \cup board.mana
                        /\ e.attacker \notin e.sources
                        /\ e.pool + Cardinality(e.sources) = board.tax[e.target]
    BY <1>1 DEF DeclaredPaid
  <2>1. CASE i \in 1..n
    BY <1>1, <2>1 DEF Replayable, DeclaredPaid
  <2>2. CASE i = n + 1
    BY <1>1, <2>2 DEF MayAttack, Pays
  <2> QED BY <1>2, <2>1, <2>2
<1>4. TappedOnce'
  <2> SUFFICES ASSUME NEW i \in 1..Len(declared'), NEW j \in 1..Len(declared'), i < j
               PROVE  /\ declared'[j].attacker \notin declared'[i].sources
                      /\ declared'[j].sources \cap declared'[i].sources = {}
                      /\ declared'[i].attacker \in declared'[j].sources =>
                           declared'[i].attacker \in board.vigilant
    BY <1>1 DEF TappedOnce
  <2>1. i \in 1..n /\ declared'[i] = declared[i]
    BY <1>1
  <2>2. CASE j \in 1..n
    BY <1>1, <2>1, <2>2 DEF Replayable, TappedOnce
  <2>3. CASE j = n + 1
    <3>1. d.attacker \notin tapped /\ d.sources \cap tapped = {}
      BY <1>1 DEF MayAttack, Pays
    <3>2. declared[i].sources \subseteq tapped /\ declared[i].attacker \in tapped \cup board.vigilant
      BY <1>1, <2>1 DEF Replayable, StateIsReplayed
    <3> QED BY <1>1, <2>1, <2>3, <3>1, <3>2
  <2> QED BY <1>2, <2>2, <2>3
<1>5. \A t \in Targets : Cardinality(Aimed(declared', t)) <= board.limit[t]
  <2> SUFFICES ASSUME NEW t \in Targets
               PROVE  Cardinality(Aimed(declared', t)) <= board.limit[t]
    OBVIOUS
  <2>1. Aimed(declared', t) = Aimed(declared, t) \cup (IF d.target = t THEN {n + 1} ELSE {})
    BY <1>1, <1>2 DEF Aimed
  <2>2. /\ Cardinality(Aimed(declared, t)) <= board.limit[t]
        /\ IsFiniteSet(Aimed(declared, t)) /\ Cardinality(Aimed(declared, t)) \in Nat
        /\ n + 1 \notin Aimed(declared, t)
    <3>1. Cardinality(Aimed(declared, t)) <= board.limit[t]
      BY DEF Replayable, WithinLimits
    <3>2. IsFiniteSet(Aimed(declared, t)) /\ Cardinality(Aimed(declared, t)) \in Nat
      BY AimedFinite DEF IInv, TypeOK
    <3>3. n + 1 \notin Aimed(declared, t)
      BY <1>1 DEF Aimed
    <3> QED BY <3>1, <3>2, <3>3
  <2>3. CASE d.target = t
    <3>1. Cardinality(Aimed(declared', t)) = Cardinality(Aimed(declared, t)) + 1
      BY <2>1, <2>2, <2>3, FS_AddElement, ZenonT(40)
    <3>2. Attacking(t) = Aimed(declared, t)
      BY <1>1 DEF Attacking, Aimed, Replayable, StateIsReplayed, IInv, TypeOK
    <3>3. Cardinality(Aimed(declared, t)) < board.limit[t]
      BY <1>1, <2>3, <3>2 DEF MayAttack
    <3>4. board.limit[t] \in Nat
      BY BoardTypes DEF IInv, AttackBoard
    <3> QED BY <2>2, <3>1, <3>3, <3>4
  <2>4. CASE d.target # t
    BY <2>1, <2>2, <2>4
  <2> QED BY <2>3, <2>4
<1>6. PoolOf(First(declared', Len(declared'))) <= board.pool
  <2> DEFINE all == First(declared, n)
  <2>1. /\ all \in SUBSET Declarations /\ IsFiniteSet(all)
    BY <1>1, FirstFinite DEF IInv, TypeOK
  <2>2. d \notin all
    BY <1>1 DEF First, IInv, SelectedAreDeclared, MayAttack
  <2>3. First(declared', Len(declared')) = all \cup {d}
    <3>1. First(declared', n) = all
      BY <1>1 DEF First
    <3> QED BY <1>1, <3>1, FirstNext, ZenonT(40)
  <2>4. /\ pool = board.pool - PoolOf(all) /\ board.pool \in Nat /\ d.pool \in Nat
        /\ d.pool <= pool
    BY <1>1, BoardTypes DEF Replayable, StateIsReplayed, AttackBoard, IInv, TypeOK
  <2> HIDE DEF all
  <2>5. PoolOf(all) \in Nat
    BY <2>1, PoolOfPart
  <2>6. PoolOf(all \cup {d}) = PoolOf(all) + d.pool
    BY <1>1, <2>1, <2>2, PoolOfOneMore
  <2> QED BY <2>3, <2>4, <2>5, <2>6
<1>7. LifeOf(board.painful, First(declared', Len(declared'))) <= board.life
  <2> DEFINE all == First(declared, n)
             pain == board.painful
  <2>1. /\ all \in SUBSET Declarations /\ IsFiniteSet(all)
    BY <1>1, FirstFinite DEF IInv, TypeOK
  <2>2. d \notin all
    BY <1>1 DEF First, IInv, SelectedAreDeclared, MayAttack
  <2>3. First(declared', Len(declared')) = all \cup {d}
    <3>1. First(declared', n) = all
      BY <1>1 DEF First
    <3> QED BY <1>1, <3>1, FirstNext, ZenonT(40)
  <2>4. /\ life = board.life - LifeOf(pain, all) /\ board.life \in Nat
        /\ Cardinality(d.sources \cap pain) <= life
    BY <1>1, BoardTypes DEF Replayable, StateIsReplayed, AttackBoard, IInv, Pays, LifeCost
  <2>5. Cardinality(d.sources \cap pain) \in Nat
    BY <1>1, LifeCostType
  <2> HIDE DEF all, pain
  <2>6. LifeOf(pain, all) \in Nat
    BY <2>1, LifeOfPart
  <2>7. LifeOf(pain, all \cup {d}) = LifeOf(pain, all) + Cardinality(d.sources \cap pain)
    BY <1>1, <2>1, <2>2, LifeOfOneMore
  <2>8. LifeOf(pain, all \cup {d}) <= board.life
    BY <2>4, <2>5, <2>6, <2>7
  <2> QED BY <2>3, <2>8 DEF pain
<1>8. WithinLimits'
  BY <1>1, <1>5, <1>6, <1>7 DEF WithinLimits, PoolOf, PoolPaid, LifeOf, LifePaid, First, Aimed
<1> QED BY <1>3, <1>4, <1>8

LEMMA CancelReplayable ==
  ASSUME IInv, Replayable, CancelAttacker
  PROVE  Replayable'
<1>1. /\ Len(declared') \in Nat /\ declared' \in Seq(Declarations)
      /\ combat' = <<>> /\ tapped' = {} /\ pool' = board.pool /\ life' = board.life
      /\ board' = board
  BY CancelFacts
<1>2. PICK b \in [1..Len(declared') -> 1..Len(declared)] :
        /\ \A j \in 1..Len(declared') : declared'[j] = declared[b[j]]
        /\ \A j, k \in 1..Len(declared') : j < k => b[j] < b[k]
  BY CancelFacts
<1>3. \A j \in 1..Len(declared') : b[j] \in 1..Len(declared)
  BY <1>2
<1>4. DeclaredPaid'
  BY <1>1, <1>2, <1>3 DEF DeclaredPaid, Replayable
<1>5. TappedOnce'
  BY <1>1, <1>2, <1>3, SMTT(20) DEF TappedOnce, Replayable
<1>6. \A t \in Targets : Cardinality(Aimed(declared', t)) <= board.limit[t]
  <2> SUFFICES ASSUME NEW t \in Targets
               PROVE  Cardinality(Aimed(declared', t)) <= board.limit[t]
    OBVIOUS
  <2> DEFINE g == [j \in Aimed(declared', t) |-> b[j]]
  <2>1. g \in Injection(Aimed(declared', t), Aimed(declared, t))
    <3>1. g \in [Aimed(declared', t) -> Aimed(declared, t)]
      BY <1>2, <1>3 DEF Aimed
    <3>2. \A j, k \in Aimed(declared', t) : g[j] = g[k] => j = k
      <4>1. \A j \in Aimed(declared', t) : j \in 1..Len(declared') /\ j \in Int /\ b[j] \in Int
        BY <1>1, <1>3 DEF Aimed
      <4> SUFFICES ASSUME NEW j \in Aimed(declared', t), NEW k \in Aimed(declared', t),
                          b[j] = b[k]
                   PROVE  j = k
        OBVIOUS
      <4>2. ~ (b[j] < b[k]) /\ ~ (b[k] < b[j])
        BY <4>1
      <4> QED BY <1>2, <4>1, <4>2
    <3> QED BY <3>1, <3>2 DEF Injection, IsInjective
  <2> HIDE DEF g
  <2>2. IsFiniteSet(Aimed(declared, t)) /\ Cardinality(Aimed(declared, t)) \in Nat
    BY AimedFinite DEF IInv, TypeOK
  <2>3. Cardinality(Aimed(declared', t)) <= Cardinality(Aimed(declared, t))
    BY <2>1, <2>2, FS_Injection
  <2>4. Cardinality(Aimed(declared', t)) \in Nat
    BY <1>1, AimedFinite
  <2>5. Cardinality(Aimed(declared, t)) <= board.limit[t] /\ board.limit[t] \in Nat
    BY BoardTypes DEF Replayable, WithinLimits, IInv, AttackBoard
  <2> QED BY <2>2, <2>3, <2>4, <2>5
<1>7. PoolOf(First(declared', Len(declared'))) <= board.pool
  <2> DEFINE all == First(declared, Len(declared))
             left == First(declared', Len(declared'))
  <2>1. all \in SUBSET Declarations /\ IsFiniteSet(all)
    BY FirstFinite DEF IInv, TypeOK
  <2>2. left \in SUBSET all
    BY <1>2, <1>3 DEF First
  <2>3. PoolOf(all) <= board.pool /\ board.pool \in Nat
    BY BoardTypes DEF Replayable, WithinLimits, IInv, AttackBoard
  <2> HIDE DEF all, left
  <2>4. PoolOf(left) <= PoolOf(all) /\ PoolOf(left) \in Nat /\ PoolOf(all) \in Nat
    BY <2>1, <2>2, PoolOfPart
  <2>5. PoolOf(left) <= board.pool
    BY <2>3, <2>4
  <2> QED BY <2>5 DEF left
<1>10. LifeOf(board.painful, First(declared', Len(declared'))) <= board.life
  <2> DEFINE all == First(declared, Len(declared))
             left == First(declared', Len(declared'))
             pain == board.painful
  <2>1. all \in SUBSET Declarations /\ IsFiniteSet(all)
    BY FirstFinite DEF IInv, TypeOK
  <2>2. left \in SUBSET all
    BY <1>2, <1>3 DEF First
  <2>3. LifeOf(pain, all) <= board.life /\ board.life \in Nat
    BY BoardTypes DEF Replayable, WithinLimits, IInv, AttackBoard
  <2> HIDE DEF all, left, pain
  <2>4. /\ LifeOf(pain, left) <= LifeOf(pain, all)
        /\ LifeOf(pain, left) \in Nat /\ LifeOf(pain, all) \in Nat
    BY <2>1, <2>2, LifeOfPart
  <2>5. LifeOf(pain, left) <= board.life
    BY <2>3, <2>4
  <2> QED BY <2>5 DEF left, pain
<1>8. WithinLimits'
  BY <1>1, <1>6, <1>7, <1>10 DEF WithinLimits, PoolOf, PoolPaid, LifeOf, LifePaid, First, Aimed
<1>9. StateIsReplayed'
  <2>1. First(declared', 0) = {}
    BY DEF First
  <2>2. PoolOf(First(declared', 0)) = 0 /\ LifeOf(board.painful, First(declared', 0)) = 0
    BY <2>1, SumEmpty DEF PoolOf, LifeOf
  <2>3. board.pool \in Nat /\ board.life \in Nat /\ Len(combat') = 0
    BY <1>1, BoardTypes DEF IInv, AttackBoard
  <2> QED BY <1>1, <2>2, <2>3 DEF StateIsReplayed, PoolOf, PoolPaid, LifeOf, LifePaid, First
<1> QED BY <1>4, <1>5, <1>8, <1>9 DEF Replayable

\* The state after one more declaration, be it a new one or a repeated one.
LEMMA ApplyReplayed ==
  ASSUME IInv, Replayable, phase = "attack", board' = board,
         NEW d \in Offered, Apply(d),
         declared' \in Seq(Declarations),
         Len(combat) \in 0..Len(declared), Len(combat) + 1 \in 1..Len(declared'),
         declared'[Len(combat) + 1] = d,
         \A j \in 1..Len(combat) : declared'[j] = declared[j]
  PROVE  StateIsReplayed'
<1> DEFINE n == Len(combat)
<1>1. /\ d \in Declarations /\ MayAttack(d.attacker, d.target) /\ Pays(d) /\ n \in Nat
  BY OfferedType DEF IInv, TypeOK, Offered
<1>2. /\ pool' = pool - d.pool
      /\ life' = life - LifeCost(d)
      /\ tapped' = tapped \cup d.sources \cup ({d.attacker} \ board.vigilant)
      /\ Len(combat') = n + 1
      /\ \A j \in 1..n : combat'[j] = combat[j]
      /\ combat'[n + 1].target = d.target
  <2>1. /\ combat \in Seq(CombatEntry) /\ [attacker |-> d.attacker, target |-> d.target] \in CombatEntry
    BY <1>1 DEF IInv, TypeOK, CombatEntry, Declarations
  <2>2. combat' = Append(combat, [attacker |-> d.attacker, target |-> d.target])
    BY DEF Apply
  <2>3. /\ Len(combat') = n + 1
        /\ \A j \in 1..n : combat'[j] = combat[j]
        /\ combat'[n + 1] = [attacker |-> d.attacker, target |-> d.target]
    BY <2>1, <2>2, AppendLast
  <2> QED BY <2>3 DEF Apply
<1>3. \A i \in 1..Len(combat') : i \in 1..n \/ i = n + 1
  BY <1>1, <1>2
<1>4. ASSUME NEW i \in 1..Len(combat')
      PROVE  /\ combat'[i].target = declared'[i].target
             /\ declared'[i].sources \subseteq tapped'
             /\ declared'[i].attacker \in tapped' \cup board.vigilant
  <2>1. CASE i \in 1..n
    BY <1>2, <2>1, SMTT(20) DEF Replayable, StateIsReplayed
  <2>2. CASE i = n + 1
    BY <1>2, <2>2
  <2> QED BY <1>3, <2>1, <2>2
<1>5. ASSUME NEW x \in tapped'
      PROVE  \E i \in 1..Len(combat') :
               \/ x \in declared'[i].sources
               \/ x = declared'[i].attacker /\ x \notin board.vigilant
  <2>1. CASE x \in tapped
    <3>1. PICK i \in 1..n : \/ x \in declared[i].sources
                            \/ x = declared[i].attacker /\ x \notin board.vigilant
      BY <2>1 DEF Replayable, StateIsReplayed
    <3> QED BY <1>1, <1>2, <3>1
  <2>2. CASE x \in d.sources \cup ({d.attacker} \ board.vigilant)
    <3>1. n + 1 \in 1..Len(combat')
      BY <1>1, <1>2
    <3> QED BY <2>2, <3>1
  <2> QED BY <1>2, <2>1, <2>2
<1>6. pool' = board.pool - PoolOf(First(declared', Len(combat')))
  <2> DEFINE made == First(declared, n)
  <2>1. made \in SUBSET Declarations /\ IsFiniteSet(made)
    BY FirstFinite DEF IInv, TypeOK
  <2>2. d \notin made
    <3>1. d.attacker \notin Selected /\ Selected = {declared[i].attacker : i \in 1..n}
      BY <1>1 DEF MayAttack, IInv, SelectedAreDeclared
    <3> QED BY <3>1 DEF First
  <2>3. First(declared', Len(combat')) = made \cup {d}
    <3>1. First(declared', n) = made
      BY DEF First
    <3> QED BY <1>1, <1>2, <3>1, FirstNext
  <2>4. pool = board.pool - PoolOf(made) /\ board.pool \in Nat /\ d.pool \in Nat
    BY <1>1, BoardTypes DEF Replayable, StateIsReplayed, AttackBoard, IInv, Declarations
  <2> HIDE DEF made
  <2>5. PoolOf(made) \in Nat /\ PoolOf(made \cup {d}) = PoolOf(made) + d.pool
    BY <1>1, <2>1, <2>2, PoolOfPart, PoolOfOneMore
  <2>6. pool' = board.pool - PoolOf(made \cup {d})
    BY <1>2, <2>4, <2>5
  <2> QED BY <2>3, <2>6
<1>7. life' = board.life - LifeOf(board.painful, First(declared', Len(combat')))
  <2> DEFINE made == First(declared, n)
             pain == board.painful
  <2>1. made \in SUBSET Declarations /\ IsFiniteSet(made)
    BY FirstFinite DEF IInv, TypeOK
  <2>2. d \notin made
    <3>1. d.attacker \notin Selected /\ Selected = {declared[i].attacker : i \in 1..n}
      BY <1>1 DEF MayAttack, IInv, SelectedAreDeclared
    <3> QED BY <3>1 DEF First
  <2>3. First(declared', Len(combat')) = made \cup {d}
    <3>1. First(declared', n) = made
      BY DEF First
    <3> QED BY <1>1, <1>2, <3>1, FirstNext
  <2>4. life = board.life - LifeOf(pain, made) /\ board.life \in Nat
    BY <1>1, BoardTypes DEF Replayable, StateIsReplayed, AttackBoard, IInv
  <2>5. /\ life' = life - Cardinality(d.sources \cap pain)
        /\ Cardinality(d.sources \cap pain) \in Nat
    BY <1>1, <1>2, LifeCostType DEF LifeCost
  <2> HIDE DEF made, pain
  <2>6. /\ LifeOf(pain, made) \in Nat
        /\ LifeOf(pain, made \cup {d}) = LifeOf(pain, made) + Cardinality(d.sources \cap pain)
    BY <1>1, <2>1, <2>2, LifeOfPart, LifeOfOneMore
  <2>7. life' = board.life - LifeOf(pain, made \cup {d})
    BY <2>4, <2>5, <2>6
  <2> QED BY <2>3, <2>7 DEF pain
<1> QED BY <1>4, <1>5, <1>6, <1>7 DEF StateIsReplayed, PoolOf, PoolPaid, LifeOf, LifePaid, First

LEMMA ReplayableStep ==
  ASSUME IInv, Replayable, [Next]_vars
  PROVE  Replayable'
<1>1. CASE Declare
  <2>1. PICK d \in Offered :
          /\ Apply(d)
          /\ declared' = Append(declared, d)
          /\ d \in Declarations
          /\ Len(declared') = Len(declared) + 1
          /\ \A j \in 1..Len(declared) : declared'[j] = declared[j]
          /\ declared'[Len(declared) + 1] = d
          /\ Len(combat) = Len(declared) /\ Len(declared) \in Nat
          /\ phase = "attack" /\ board' = board
    BY <1>1, DeclareFacts
  <2>2. declared' \in Seq(Declarations)
    BY <2>1, AppendLast DEF IInv, TypeOK
  <2>3. StateIsReplayed'
    BY <2>1, <2>2, ApplyReplayed
  <2> QED BY <1>1, <2>3, DeclareReplayable DEF Replayable
<1>2. CASE CancelAttacker
  BY <1>2, CancelReplayable
<1>3. CASE Replay
  <2> DEFINE d == declared[Len(combat) + 1]
  <2>1. /\ phase = "attack" /\ Replaying /\ board' = board /\ declared' = declared
    BY <1>3 DEF Replay
  <2>2. d \in Offered
    BY <2>1, ReplayOffered
  <2>3. Payable(d)
    BY <2>2, OfferedType DEF IInv
  <2>4. Apply(d)
    BY <1>3, <2>3 DEF Replay
  <2>5. /\ declared \in Seq(Declarations)
        /\ Len(combat) \in 0..Len(declared) /\ Len(combat) + 1 \in 1..Len(declared)
    BY <2>1 DEF IInv, TypeOK, Replaying
  <2>6. StateIsReplayed'
    BY <2>1, <2>2, <2>4, <2>5, ApplyReplayed
  <2>7. DeclaredPaid' /\ TappedOnce' /\ WithinLimits'
    BY <2>1 DEF Replayable, DeclaredPaid, TappedOnce, WithinLimits, PoolOf, PoolPaid,
               LifeOf, LifePaid, First, Aimed
  <2> QED BY <2>6, <2>7 DEF Replayable
<1>4. CASE UNCHANGED <<board, declared>> /\ phase' # "attack"
  BY <1>4 DEF Replayable, DeclaredPaid, TappedOnce, WithinLimits, StateIsReplayed, PoolOf,
              PoolPaid, LifeOf, LifePaid, First, Aimed
<1>5. CASE UNCHANGED <<phase, board, declared, combat, stateVars>>
  BY <1>5 DEF Replayable, DeclaredPaid, TappedOnce, WithinLimits, StateIsReplayed, PoolOf,
              PoolPaid, LifeOf, LifePaid, First, Aimed, stateVars
<1>6. \/ Declare \/ CancelAttacker \/ Replay
      \/ UNCHANGED <<board, declared>> /\ phase' # "attack"
      \/ UNCHANGED <<phase, board, declared, combat, stateVars>>
  BY DEF Next, FinishAttackers, PriorityWindow, DeclareBlocker, FinishBlockers, EmptyRequest,
         vars, attackVars, stateVars
<1> QED BY <1>1, <1>2, <1>3, <1>4, <1>5, <1>6

\* No step fails to pay for a declaration it repeats.
LEMMA NeverFails ==
  ASSUME IInv, Replayable, phase # "failed", [Next]_vars
  PROVE  phase' # "failed"
<1>1. CASE Replay
  <2>1. declared[Len(combat) + 1] \in Offered
    BY <1>1, ReplayOffered DEF Replay
  <2>2. Payable(declared[Len(combat) + 1])
    BY <2>1, OfferedType DEF IInv
  <2> QED BY <1>1, <2>2 DEF Replay
<1> QED
  BY <1>1 DEF Next, Declare, CancelAttacker, FinishAttackers, PriorityWindow,
              DeclareBlocker, FinishBlockers, EmptyRequest, vars

LEMMA InitReplayable == Init => Replayable /\ phase # "failed"
<1> SUFFICES ASSUME Init
             PROVE  Replayable
  BY DEF Init
<1>1. /\ phase = "attack" /\ tapped = {} /\ pool = board.pool /\ life = board.life
      /\ Len(combat) = 0 /\ Len(declared) = 0
      /\ board \in AttackBoard
  BY CombatAssumption DEF Init
<1>2. PoolOf(First(declared, 0)) = 0 /\ LifeOf(board.painful, First(declared, 0)) = 0
  BY SumEmpty DEF PoolOf, LifeOf, First
<1>3. DeclaredPaid /\ TappedOnce
  BY <1>1 DEF DeclaredPaid, TappedOnce
<1>4. \A t \in Targets : Cardinality(Aimed(declared, t)) <= board.limit[t]
  BY <1>1, FS_EmptySet DEF Aimed, AttackBoard
<1>5. WithinLimits
  BY <1>1, <1>2, <1>4 DEF WithinLimits, AttackBoard
<1>6. StateIsReplayed
  BY <1>1, <1>2 DEF StateIsReplayed, AttackBoard
<1> QED BY <1>3, <1>5, <1>6 DEF Replayable

-------------------------------------------------------------------------------
(* What remains of the attacks.                                            *)

\* One more attack: its mana is spent and its sources are tapped on top.
LEMMA ApplyRemains ==
  ASSUME IInv, OnlyAttacksRemain, phase = "attack", board' = board,
         NEW d \in Offered, Apply(d)
  PROVE  OnlyAttacksRemain'
<1> DEFINE a == d.attacker
           T == TappedToAttack
           X == tapped \ T
<1>1. /\ d \in Declarations /\ MayAttack(a, d.target) /\ Pays(d) /\ TypeOK
      /\ a \in Attackers /\ d.target \in Targets /\ d.pool \in Nat
      /\ d.sources \subseteq Attackers \cup Lands
  <2>1. TypeOK /\ Pays(d)
    BY DEF IInv, Offered
  <2>2. d \in Declarations /\ MayAttack(d.attacker, d.target)
    BY <2>1, OfferedType
  <2> QED BY <2>1, <2>2 DEF Declarations
<1>2. /\ pool' = pool - d.pool
      /\ life' = life - LifeCost(d)
      /\ tapped' = tapped \cup d.sources \cup ({a} \ board.vigilant)
      /\ combat' = Append(combat, [attacker |-> a, target |-> d.target])
      /\ attacks' = [c \in Selected \cup {a} |-> IF c = a THEN d.target ELSE attacks[c]]
      /\ Selected' = Selected \cup {a}
  BY DEF Apply, Selected
<1>3. /\ a \notin Selected /\ a \notin tapped
      /\ d.sources \cap tapped = {} /\ a \notin d.sources
      /\ d.pool + Cardinality(d.sources) = board.tax[d.target]
  BY <1>1 DEF MayAttack, Pays
<1>4. /\ IsFiniteSet(tapped) /\ IsFiniteSet(d.sources) /\ IsFiniteSet(Selected)
      /\ Selected \subseteq Attackers
  <2>1. IsFiniteSet(Attackers \cup Lands) /\ IsFiniteSet(Attackers)
    BY CombatAssumption, FS_Union
  <2>2. Selected \subseteq Attackers /\ tapped \subseteq Attackers \cup Lands
    BY <1>1, AttacksType DEF TypeOK, Selected
  <2> QED BY <1>1, <2>1, <2>2, FS_Subset
<1>5. /\ ToSet(combat) = {[attacker |-> c, target |-> attacks[c]] : c \in Selected}
      /\ Len(combat) = Cardinality(Selected)
      /\ T \subseteq tapped
      /\ Cardinality(X) + (board.pool - pool) = TaxOfAttacks
      /\ board.life - life = Cardinality(X \cap board.painful)
  BY DEF OnlyAttacksRemain
<1>6. ToSet(combat') = {[attacker |-> c, target |-> attacks'[c]] : c \in Selected'}
  <2> DEFINE e == [attacker |-> a, target |-> d.target]
  <2>1. combat \in Seq(CombatEntry) /\ e \in CombatEntry
    BY <1>1 DEF TypeOK, CombatEntry
  <2>2. ToSet(combat') = ToSet(combat) \cup {e}
    BY <1>2, <2>1, AppendLast DEF ToSet
  <2>3. attacks'[a] = d.target /\ \A c \in Selected : attacks'[c] = attacks[c]
    BY <1>2, <1>3
  <2>4. {[attacker |-> c, target |-> attacks'[c]] : c \in Selected'} =
          {[attacker |-> c, target |-> attacks[c]] : c \in Selected} \cup {e}
    BY <1>2, <2>3
  <2> QED BY <1>5, <2>2, <2>4
<1>7. Len(combat') = Cardinality(Selected')
  <2>1. Len(combat') = Len(combat) + 1
    BY <1>1, <1>2 DEF TypeOK
  <2>2. Cardinality(Selected') = Cardinality(Selected) + 1
    BY <1>2, <1>3, <1>4, FS_AddElement
  <2> QED BY <1>5, <2>1, <2>2
<1>8. TappedToAttack' \subseteq tapped'
  BY <1>2, <1>5 DEF TappedToAttack
<1>9. tapped' \ TappedToAttack' = X \cup d.sources
  <2>1. TappedToAttack' = T \cup ({a} \ board.vigilant)
    BY <1>2 DEF TappedToAttack
  <2> QED BY <1>2, <1>3, <1>5, <2>1
<1>10. /\ Cardinality(X \cup d.sources) = Cardinality(X) + Cardinality(d.sources)
       /\ Cardinality(X) \in Nat /\ Cardinality(d.sources) \in Nat
  <2>1. IsFiniteSet(X) /\ X \cap d.sources = {}
    BY <1>3, <1>4, FS_Subset
  <2> HIDE DEF X
  <2>2. /\ Cardinality(X \cup d.sources) = Cardinality(X) + Cardinality(d.sources) - 0
        /\ Cardinality(X) \in Nat /\ Cardinality(d.sources) \in Nat
    BY <1>4, <2>1, FS_Union, FS_EmptySet, FS_CardinalityType
  <2> QED BY <2>2
<1>11. TaxOfAttacks' = TaxOfAttacks + board.tax[d.target] /\ TaxOfAttacks \in Nat
  <2> DEFINE w == [c \in Selected |-> board.tax[attacks[c]]]
             v == [c \in Selected' |-> board.tax[attacks'[c]]]
  <2>1. /\ \A c \in Selected : w[c] \in Nat /\ v[c] = w[c]
        /\ v[a] = board.tax[d.target] /\ board.tax[d.target] \in Nat
    <3>1. board.tax \in [Targets -> Nat]
      BY <1>1, BoardTypes DEF AttackBoard
    <3>2. \A c \in Selected : attacks[c] \in Targets
      BY <1>1, AttacksType DEF TypeOK, Selected
    <3>3. attacks'[a] = d.target /\ \A c \in Selected : attacks'[c] = attacks[c]
      BY <1>2, <1>3
    <3> QED BY <1>1, <1>2, <3>1, <3>2, <3>3
  <2>2. TaxOfAttacks = SumFunctionOnSet(w, Selected) /\ TaxOfAttacks' = SumFunctionOnSet(v, Selected')
    BY <1>2 DEF TaxOfAttacks
  <2> HIDE DEF w, v
  <2>3. Weights(w, Selected) /\ Weights(v, Selected \cup {a})
    BY <2>1 DEF Weights
  <2>4. SumFunctionOnSet(v, Selected) = SumFunctionOnSet(w, Selected)
    BY <1>4, <2>1, SumOfSameWeights
  <2>5. SumFunctionOnSet(v, Selected \cup {a}) = SumFunctionOnSet(v, Selected) + v[a]
    BY <1>3, <1>4, <2>3, SumAdd
  <2>6. SumFunctionOnSet(w, Selected) \in Nat
    BY <1>4, <2>3, SumType
  <2> QED BY <1>2, <2>1, <2>2, <2>4, <2>5, <2>6
<1>12. Cardinality(tapped' \ TappedToAttack') + (board.pool - pool') = TaxOfAttacks'
  <2>1. board.pool \in Nat /\ pool \in Nat
    BY <1>1, BoardTypes DEF AttackBoard, TypeOK
  <2> HIDE DEF X
  <2>2. Cardinality(X) + (board.pool - pool) = TaxOfAttacks
    BY <1>5
  <2>3. d.pool + Cardinality(d.sources) = board.tax[d.target] /\ d.pool \in Nat
    BY <1>1, <1>3
  <2>4. Cardinality(X) \in Nat /\ Cardinality(d.sources) \in Nat /\ TaxOfAttacks \in Nat
    BY <1>10, <1>11
  <2>5. (Cardinality(X) + Cardinality(d.sources)) + (board.pool - (pool - d.pool)) =
          TaxOfAttacks + board.tax[d.target]
    BY <2>1, <2>2, <2>3, <2>4
  <2> QED BY <1>2, <1>9, <1>10, <1>11, <2>5
<1>13. board'.life - life' = Cardinality((tapped' \ TappedToAttack') \cap board'.painful)
  <2> DEFINE Y == X \cap board.painful
             Z == d.sources \cap board.painful
  <2>1. IsFiniteSet(X)
    BY <1>4, FS_Subset
  <2>2. Y \subseteq X /\ Z \subseteq d.sources /\ Y \cap Z = {}
    BY <1>3
  <2>3. (X \cup d.sources) \cap board.painful = Y \cup Z
    OBVIOUS
  <2>4. /\ life \in Nat /\ board.life \in Nat /\ life' = life - Cardinality(Z)
        /\ board.life - life = Cardinality(Y)
    BY <1>1, <1>2, <1>5, BoardTypes DEF LifeCost, TypeOK, AttackBoard
  <2> HIDE DEF X, Y, Z
  <2>5. IsFiniteSet(Y) /\ IsFiniteSet(Z)
    BY <1>4, <2>1, <2>2, FS_Subset
  <2>6. /\ Cardinality(Y \cup Z) = Cardinality(Y) + Cardinality(Z) - 0
        /\ Cardinality(Y) \in Nat /\ Cardinality(Z) \in Nat
    BY <2>2, <2>5, FS_Union, FS_EmptySet, FS_CardinalityType
  <2>7. board.life - life' = Cardinality(Y \cup Z)
    BY <2>4, <2>6
  <2> QED BY <1>9, <2>3, <2>7
<1> QED BY <1>6, <1>7, <1>8, <1>12, <1>13 DEF OnlyAttacksRemain

\* Nothing remains of no attacks.
NoneStands ==
  /\ tapped = {} /\ pool = board.pool /\ life = board.life
  /\ combat = <<>> /\ attacks = NoAttacks
  /\ board \in AttackBoard

LEMMA NoneRemain == NoneStands => OnlyAttacksRemain
<1> SUFFICES ASSUME NoneStands
             PROVE  OnlyAttacksRemain
  OBVIOUS
<1> USE DEF NoneStands
<1>1. Selected = {} /\ TappedToAttack = {}
  BY DEF Selected, NoAttacks, TappedToAttack
<1>2. TaxOfAttacks = 0
  BY <1>1, SumEmpty DEF TaxOfAttacks
<1>3. board.pool \in Nat
  BY DEF AttackBoard
<1>4. Len(combat) = Cardinality(Selected)
  BY <1>1, FS_EmptySet
<1>5. ToSet(combat) = {}
  BY DEF ToSet
<1>6. Cardinality(tapped \ TappedToAttack) + (board.pool - pool) = TaxOfAttacks
  BY <1>2, <1>3, FS_EmptySet
<1>7. board.life - life = Cardinality((tapped \ TappedToAttack) \cap board.painful)
  <2>1. (tapped \ TappedToAttack) \cap board.painful = {}
    OBVIOUS
  <2>2. board.life - life = 0
    BY DEF AttackBoard
  <2> QED BY <2>1, <2>2, FS_EmptySet
<1> QED BY <1>1, <1>4, <1>5, <1>6, <1>7 DEF OnlyAttacksRemain

LEMMA RemainsStep ==
  ASSUME IInv, Replayable, OnlyAttacksRemain, [Next]_vars
  PROVE  OnlyAttacksRemain'
<1>1. CASE Declare
  <2>1. PICK d \in Offered : Apply(d) /\ phase = "attack" /\ board' = board
    BY <1>1, DeclareFacts
  <2> QED BY <2>1, ApplyRemains
<1>2. CASE Replay
  <2>1. phase = "attack" /\ Replaying /\ board' = board
    BY <1>2 DEF Replay
  <2>2. declared[Len(combat) + 1] \in Offered
    BY <2>1, ReplayOffered
  <2>3. Apply(declared[Len(combat) + 1])
    BY <1>2, <2>2, OfferedType DEF Replay, IInv
  <2> QED BY <2>1, <2>2, <2>3, ApplyRemains
<1>3. CASE CancelAttacker
  <2>1. /\ tapped' = {} /\ pool' = board'.pool /\ life' = board'.life
        /\ combat' = <<>> /\ attacks' = NoAttacks
        /\ board' \in AttackBoard
    BY <1>3, BoardTypes DEF CancelAttacker, IInv
  <2>2. NoneStands'
    BY <2>1 DEF NoneStands
  <2> QED BY <2>2, NoneRemain, PTL
<1>4. CASE phase' \notin {"attack", "window"}
  BY <1>4 DEF OnlyAttacksRemain
<1>5. CASE /\ phase \in {"attack", "window"}
           /\ UNCHANGED <<board, attacks, stateVars>>
  <2>1. UNCHANGED <<board, attacks, combat, tapped, pool, life, Selected, TappedToAttack, TaxOfAttacks>>
    BY <1>5 DEF Selected, TappedToAttack, TaxOfAttacks, stateVars
  <2> QED BY <1>5, <2>1 DEF OnlyAttacksRemain
<1>6. \/ Declare \/ CancelAttacker \/ Replay
      \/ phase' \notin {"attack", "window"}
      \/ phase \in {"attack", "window"} /\ UNCHANGED <<board, attacks, stateVars>>
  BY DEF Next, FinishAttackers, PriorityWindow, DeclareBlocker, FinishBlockers, EmptyRequest,
         vars, attackVars
<1> QED BY <1>1, <1>2, <1>3, <1>4, <1>5, <1>6

-------------------------------------------------------------------------------
(* Blockers.                                                               *)

\* The steps that no block takes part in.
BlocksStay == UNCHANGED <<guard, defender, used, blocks>> /\ phase' \notin {"block", "stuck"}

LEMMA BlockSteps ==
  ASSUME IInv, [Next]_vars
  PROVE  \/ BlocksStay /\ phase \notin {"block", "stuck", "done"}
         \/ PriorityWindow
         \/ DeclareBlocker
         \/ FinishBlockers
         \/ UNCHANGED <<attacks, guard, defender, used, blocks>> /\ phase = "block"
              /\ phase' = "stuck"
         \/ UNCHANGED <<phase, attacks, guard, defender, used, blocks>>
<1>1. phase \in Phases
  BY DEF IInv, TypeOK, Phases
<1>2. CASE Declare \/ CancelAttacker \/ Replay
  <2>1. UNCHANGED <<guard, defender, used, blocks>> /\ phase = "attack"
    BY <1>2 DEF Declare, CancelAttacker, Replay
  <2>2. phase' \in {"attack", "failed"}
    BY <1>2 DEF Declare, CancelAttacker, Replay
  <2> QED BY <2>1, <2>2 DEF BlocksStay
<1>3. CASE FinishAttackers
  BY <1>3 DEF FinishAttackers, BlocksStay
<1>4. CASE EmptyRequest
  BY <1>4 DEF EmptyRequest
<1> QED BY <1>2, <1>3, <1>4 DEF Next, vars


\* The invariants of the blocks together.
BlocksInv == IncompleteIsFaced /\ SecondIsFree /\ NotYetBlocked

LEMMA Faces ==
  ASSUME TypeOK
  PROVE  /\ guard.menace \subseteq Attackers
         /\ Selected \subseteq Attackers
         /\ \A a \in Selected : DefendingPlayer[attacks[a]] \in Defenders
         /\ defender \in Nat /\ Defenders \subseteq Nat
         /\ Incomplete \subseteq Attackers
         /\ \A a \in Incomplete : blocks[a] # {}
<1>1. guard.menace \subseteq Attackers
  BY BoardTypes DEF BlockBoard
<1>2. Selected \subseteq Attackers /\ \A a \in Selected : attacks[a] \in Targets
  BY AttacksType DEF TypeOK, Selected
<1>3. defender \in Nat /\ Defenders \subseteq Nat
  BY DEF TypeOK, Defenders
<1>4. \A a \in Selected : DefendingPlayer[attacks[a]] \in Defenders
  BY <1>2, CombatAssumption
<1>5. Incomplete \subseteq Attackers /\ \A a \in Incomplete : blocks[a] # {}
  BY <1>1 DEF Incomplete
<1> QED BY <1>1, <1>2, <1>3, <1>4, <1>5

OnlyAttackers == guard.menace \subseteq Attackers /\ Selected \subseteq Attackers

LEMMA OnlyAttackersType == TypeOK => OnlyAttackers
BY Faces DEF OnlyAttackers

\* Without blocks nobody waits for a second blocker.
LEMMA NoBlocks ==
  ASSUME TypeOK, \A a \in Attackers : blocks[a] = {}
  PROVE  BlocksInv
<1>1. Incomplete = {}
  BY Faces
<1>2. Facing \subseteq Selected
  BY DEF Facing
<1> QED BY <1>1, <1>2, Faces DEF BlocksInv, IncompleteIsFaced, SecondIsFree, NotYetBlocked

LEMMA NoBlocksStep ==
  ASSUME IInv, [Next]_vars, blocks' = blocks, \A a \in Attackers : blocks[a] = {}
  PROVE  BlocksInv'
<1>1. TypeOK'
  BY TypeStep DEF IInv
<1>2. guard'.menace \subseteq Attackers /\ Selected' \subseteq Attackers
  <2>1. OnlyAttackers'
    BY <1>1, OnlyAttackersType, PTL
  <2> QED BY <2>1 DEF OnlyAttackers
<1>3. Incomplete' = {}
  BY <1>2 DEF Incomplete
<1>4. Facing' \subseteq Selected'
  BY DEF Facing
<1> QED BY <1>2, <1>3, <1>4 DEF BlocksInv, IncompleteIsFaced, SecondIsFree, NotYetBlocked

LEMMA BlocksStep ==
  ASSUME IInv, [Next]_vars
  PROVE  BlocksInv'
<1>1. /\ TypeOK /\ IncompleteIsFaced /\ SecondIsFree /\ NotYetBlocked
      /\ blocks \in [Attackers -> SUBSET Blockers]
      /\ phase \in Phases
  BY DEF IInv, TypeOK, Phases
<1>2. CASE BlocksStay /\ phase \notin {"block", "stuck", "done"}
  <2>1. blocks' = blocks /\ \A a \in Attackers : blocks[a] = {}
    BY <1>1, <1>2 DEF BlocksStay, IncompleteIsFaced, Phases
  <2> QED BY <2>1, NoBlocksStep
<1>3. CASE PriorityWindow
  <2>1. blocks' = blocks /\ \A a \in Attackers : blocks[a] = {}
    BY <1>1, <1>3 DEF PriorityWindow, IncompleteIsFaced
  <2> QED BY <2>1, NoBlocksStep
<1>4. CASE DeclareBlocker
  <2>1. PICK b \in Free, a \in Facing :
          /\ MayBlock(b, a)
          /\ used' = used \cup {b}
          /\ blocks' = [blocks EXCEPT ![a] = @ \cup {b}]
    BY <1>4 DEF DeclareBlocker
  <2>2. UNCHANGED <<phase, attacks, guard, defender>> /\ phase = "block"
    BY <1>4 DEF DeclareBlocker
  <2>3. a \in Selected /\ a \in Attackers /\ DefendingPlayer[attacks[a]] = defender
    BY <1>1, <2>1, Faces DEF Facing
  <2>4. /\ blocks'[a] = blocks[a] \cup {b}
        /\ \A c \in Attackers \ {a} : blocks'[c] = blocks[c]
    BY <1>1, <2>1, <2>3
  <2>5. Facing' = Facing /\ Selected' = Selected
    BY <2>2 DEF Facing, Selected
  <2>6. b \notin used /\ b \notin blocks[a]
    BY <1>1, <2>1, <2>2 DEF Free, SecondIsFree
  <2>7. \A c \in Incomplete' : c = a
    <3> SUFFICES ASSUME NEW c \in Incomplete', c # a
                 PROVE  FALSE
      OBVIOUS
    <3>1. c \in guard.menace /\ c \in Attackers
      BY <1>1, <2>2, Faces DEF Incomplete
    <3>2. c \in Incomplete
      BY <2>4, <3>1 DEF Incomplete
    <3>3. a \in Incomplete
      BY <2>1, <3>2 DEF MayBlock
    <3> QED BY <1>1, <3>2, <3>3 DEF SecondIsFree
  <2>8. a \in Incomplete' => \E other \in Free' : CanBlock(other, a)'
    <3> SUFFICES ASSUME a \in Incomplete'
                 PROVE  \E other \in Free' : CanBlock(other, a)'
      OBVIOUS
    <3>1. a \in guard.menace /\ \E x \in Blockers : blocks'[a] = {x}
      BY <2>2 DEF Incomplete
    <3>2. blocks[a] = {}
      BY <2>4, <2>6, <3>1
    <3>3. PICK other \in Free \ {b} : CanBlock(other, a)
      BY <2>1, <3>1, <3>2 DEF MayBlock
    <3>4. other \in Free'
      BY <2>1, <2>2, <3>3 DEF Free
    <3> QED BY <2>2, <3>3, <3>4 DEF CanBlock
  <2>9. IncompleteIsFaced'
    BY <2>1, <2>2, <2>5, <2>7 DEF IncompleteIsFaced
  <2>10. SecondIsFree'
    <3>1. \A c \in Facing' : blocks'[c] \subseteq used'
      BY <1>1, <2>1, <2>2, <2>4, <2>5, Faces DEF SecondIsFree, Facing
    <3> QED BY <2>7, <2>8, <3>1 DEF SecondIsFree
  <2>11. NotYetBlocked'
    <3> SUFFICES ASSUME NEW c \in Selected, DefendingPlayer[attacks[c]] > defender
                 PROVE  blocks'[c] = {}
      BY <2>2, <2>5 DEF NotYetBlocked
    <3>1. c # a /\ c \in Attackers
      BY <1>1, <2>3, Faces
    <3> QED BY <1>1, <2>4, <3>1 DEF NotYetBlocked
  <2> QED BY <2>9, <2>10, <2>11 DEF BlocksInv
<1>5. CASE FinishBlockers
  <2>1. /\ UNCHANGED <<attacks, guard, blocks>>
        /\ used' = {}
        /\ phase = "block"
        /\ \/ phase' = "done" /\ defender' = defender
           \/ phase' = phase /\ defender' = defender + 1
    BY <1>5 DEF FinishBlockers, attackVars
  <2>2. Incomplete = {}
    BY <1>1, <1>5 DEF FinishBlockers, MayFinish, IncompleteIsFaced
  <2>3. Incomplete' = {} /\ Selected' = Selected
    BY <2>1, <2>2 DEF Incomplete, Selected
  <2>4. NotYetBlocked'
    <3> SUFFICES ASSUME NEW c \in Selected, DefendingPlayer[attacks[c]] > defender'
                 PROVE  blocks'[c] = {}
      BY <2>1, <2>3 DEF NotYetBlocked
    <3>1. DefendingPlayer[attacks[c]] > defender
      BY <1>1, <2>1, Faces
    <3> QED BY <1>1, <2>1, <3>1 DEF NotYetBlocked
  <2>5. phase' \in {"block", "stuck"} => \A c \in Facing' : blocks'[c] = {}
    <3> SUFFICES ASSUME phase' = "block", NEW c \in Facing'
                 PROVE  blocks'[c] = {}
      BY <2>1
    <3>1. c \in Selected /\ DefendingPlayer[attacks[c]] = defender + 1
      BY <2>1, <2>3 DEF Facing
    <3> QED BY <1>1, <2>1, <3>1, Faces DEF NotYetBlocked
  <2> QED
    BY <2>1, <2>3, <2>4, <2>5 DEF BlocksInv, IncompleteIsFaced, SecondIsFree
<1>6. CASE /\ UNCHANGED <<attacks, guard, defender, used, blocks>>
           /\ phase' = phase \/ (phase = "block" /\ phase' = "stuck")
  <2>1. Incomplete' = Incomplete /\ Facing' = Facing /\ Free' = Free /\ Selected' = Selected
    BY <1>6 DEF Incomplete, Facing, Free, Selected
  <2> QED
    BY <1>1, <1>6, <2>1
       DEF BlocksInv, IncompleteIsFaced, SecondIsFree, NotYetBlocked, CanBlock
<1> QED BY <1>2, <1>3, <1>4, <1>5, <1>6, BlockSteps

\* Why a defending player can be left without an option.
LEMMA StuckStep ==
  ASSUME IInv, [Next]_vars
  PROVE  StuckOnlyByConflict'
<1>1. TypeOK /\ IncompleteIsFaced /\ SecondIsFree /\ StuckOnlyByConflict
  BY DEF IInv
<1>2. CASE EmptyRequest
  <2>1. /\ UNCHANGED <<attacks, guard, defender, blocks>>
        /\ ~MayFinish
        /\ \A b \in Free, a \in Facing : ~MayBlock(b, a)
    BY <1>2 DEF EmptyRequest
  <2>2. Facing' = Facing /\ guard' = guard
    BY <2>1 DEF Facing, Selected
  <2>3. CASE Incomplete # {}
    <3>1. PICK a \in Incomplete : TRUE
      BY <2>3
    <3>2. PICK b \in Free : CanBlock(b, a)
      BY <1>1, <3>1 DEF SecondIsFree
    <3>3. a \in Facing /\ a \in guard.menace /\ blocks[a] # {}
      BY <1>1, <3>1, Faces DEF IncompleteIsFaced, Incomplete
    <3>4. a \in guard.maxOne
      BY <2>1, <3>1, <3>2, <3>3 DEF MayBlock
    <3> QED BY <2>2, <3>3, <3>4 DEF StuckOnlyByConflict
  <2>4. CASE Incomplete = {}
    <3>1. MustBlock
      BY <2>1, <2>4 DEF MayFinish
    <3>2. PICK a \in Facing, b \in Free :
            /\ a \in guard.allMustBlock \/ (a \in guard.mustBeBlocked /\ blocks[a] = {})
            /\ CanBlock(b, a)
      BY <3>1 DEF MustBlock
    <3>3. a \in guard.maxOne \/ a \in guard.menace
      BY <2>1, <2>4, <3>2 DEF MayBlock
    <3> QED BY <2>2, <3>2, <3>3 DEF StuckOnlyByConflict
  <2> QED BY <2>3, <2>4
<1>3. CASE phase' # "stuck"
  BY <1>3 DEF StuckOnlyByConflict
<1>4. CASE UNCHANGED vars
  BY <1>1, <1>4 DEF StuckOnlyByConflict, Facing, Selected, vars
<1>5. EmptyRequest \/ phase' # "stuck" \/ UNCHANGED vars
  BY <1>1 DEF Next, Declare, CancelAttacker, Replay, FinishAttackers, PriorityWindow,
              DeclareBlocker, FinishBlockers, TypeOK
<1> QED BY <1>2, <1>3, <1>4, <1>5

-------------------------------------------------------------------------------
(* The theorems.                                                           *)

LEMMA InitInvariant == Init => IInv
<1> SUFFICES ASSUME Init
             PROVE  IInv
  OBVIOUS
<1>1. TypeOK
  <2>1. NoAttacks \in [{} -> Targets]
    BY DEF NoAttacks
  <2>2. board \in AttackBoard
    BY CombatAssumption DEF Init
  <2>3. attacks \in Attacks
    BY <2>1, AttacksMade DEF Init
  <2>4. pool \in 0..board.pool /\ life \in 0..board.life
    BY <2>2 DEF Init, AttackBoard
  <2>5. defender \in Defenders
    BY CombatAssumption DEF Init, Defenders
  <2>6. blocks \in [Attackers -> SUBSET Blockers]
    BY DEF Init
  <2>7. /\ combat = <<>> /\ combat \in Seq(CombatEntry)
        /\ declared = <<>> /\ declared \in Seq(Declarations)
    BY EmptySeq DEF Init
  <2> QED BY <2>3, <2>4, <2>5, <2>6, <2>7 DEF Init, TypeOK, CombatEntry
<1>2. DeclaredApart
  BY DEF Init, DeclaredApart
<1>3. SelectedAreDeclared /\ LoneAttacker
  BY DEF Init, SelectedAreDeclared, LoneAttacker, Selected, NoAttacks
<1>4. BlocksInv
  BY <1>1, NoBlocks DEF Init
<1>5. StuckOnlyByConflict
  BY DEF Init, StuckOnlyByConflict
<1> QED BY <1>1, <1>2, <1>3, <1>4, <1>5 DEF IInv, BlocksInv

LEMMA InvariantStep == IInv /\ [Next]_vars => IInv'
<1> SUFFICES ASSUME IInv, [Next]_vars
             PROVE  IInv'
  OBVIOUS
<1>1. TypeOK
  BY DEF IInv
<1> QED
  BY <1>1, TypeStep, ApartStep, SelectedStep, LoneStep, BlocksStep, StuckStep
     DEF IInv, BlocksInv

LEMMA Invariant == Spec => []IInv
BY InitInvariant, InvariantStep, PTL DEF Spec

\* The types; the mana spent never exceeds the pool and no more is replayed than
\* was declared: the declarations of run_combat.
THEOREM TypeCorrect == Spec => []TypeOK
<1>1. IInv => TypeOK
  BY DEF IInv
<1> QED BY <1>1, Invariant, PTL

\* A creature that attacks alone is declared alone, through all cancellations:
\* legal_attacker_actions_with_revisions and the replay of CancelAttacker.
THEOREM LoneStaysAlone == Spec => []LoneAttacker
<1>1. IInv => LoneAttacker
  BY DEF IInv
<1> QED BY <1>1, Invariant, PTL

\* Menace is respected when the declarations end: legal_blocker_actions.
THEOREM MenaceRespected == Spec => []MenaceIsMet
<1>1. IInv => MenaceIsMet
  <2> SUFFICES ASSUME IInv, phase = "done"
               PROVE  \A a \in guard.menace, b \in Blockers : blocks[a] # {b}
    BY DEF MenaceIsMet
  <2>1. Incomplete = {}
    BY DEF IInv, IncompleteIsFaced
  <2> QED BY <2>1 DEF Incomplete
<1> QED BY <1>1, Invariant, PTL

\* A blocker request is empty only when the keywords of an attacker contradict each
\* other: legal_blocker_actions.
THEOREM StuckByConflict == Spec => []StuckOnlyByConflict
<1>1. IInv => StuckOnlyByConflict
  BY DEF IInv
<1> QED BY <1>1, Invariant, PTL

\* What is declared again after a cancellation is legal and can be paid:
\* the replay of CancelAttacker in run_combat.
THEOREM ReplaysAreLegal == Spec => []ReplayIsLegal
<1>1. Spec => [](IInv /\ Replayable /\ phase # "failed")
  <2>1. Init => IInv /\ Replayable /\ phase # "failed"
    BY InitInvariant, InitReplayable
  <2>2. IInv /\ Replayable /\ phase # "failed" /\ [Next]_vars
          => (IInv /\ Replayable /\ phase # "failed")'
    BY InvariantStep, ReplayableStep, NeverFails
  <2> QED BY <2>1, <2>2, PTL DEF Spec
<1>2. IInv /\ Replayable /\ phase # "failed" => ReplayIsLegal
  BY ReplayOffered DEF ReplayIsLegal
<1> QED BY <1>1, <1>2, PTL

\* A cancelled declaration leaves nothing behind: CancelAttacker restores the
\* state, and the declarations that stand are paid for once.
THEOREM CancelledLeaveNothing == Spec => []OnlyAttacksRemain
<1>1. Init => IInv /\ Replayable /\ OnlyAttacksRemain
  <2>1. Init => NoneStands
    BY CombatAssumption DEF Init, NoneStands
  <2> QED BY <2>1, InitInvariant, InitReplayable, NoneRemain
<1>2. IInv /\ Replayable /\ OnlyAttacksRemain /\ [Next]_vars
        => (IInv /\ Replayable /\ OnlyAttacksRemain)'
  BY InvariantStep, ReplayableStep, RemainsStep
<1> QED BY <1>1, <1>2, PTL DEF Spec
===============================================================================
