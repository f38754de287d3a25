CONSTANTS
  a1 = a1
  a2 = a2
  a3 = a3
  b1 = b1
  b2 = b2
  b3 = b3
  t1 = t1
  t2 = t2
  l1 = l1
  Attackers = {a1, a2, a3}
  Blockers = {b1, b2, b3}
  Lands = {l1}
  Targets = {t1, t2}
  NDefenders = 2
  DefendingPlayer <- MCDefendingPlayer
  Owner <- MCOwner
  AttackBoards <- MCAttackBoards
  BlockBoards <- MCBlockBoards
SPECIFICATION Spec
INVARIANT NoEmptyRequest
CHECK_DEADLOCK FALSE
