CONSTANTS
  Order <- MCOrder
  Worker = {w1, w2}
  Nobody = Nobody
  Limit = 1
  MaxChanges = 1
  MaxKills = 1
  MaxClears = 1
SPECIFICATION Spec
INVARIANTS PaidAndAnswered
PROPERTIES CurrentStays EveryTaskSettles
