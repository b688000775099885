SPECIFICATION Spec

CONSTANTS
  Workers = {w1}
  People = {alice}
  Quests = {q1}
  PledgeIds = {p1}
  Items <- MCItems
  PledgeQtys = {1}
  Asks = {0}
  CreateQtys = {2}
  Manual <- NoManual
  Recipes <- OneRecipe
  MaxDelivered = 2
  Decisions = {"cancelled"}
  MayRestart = FALSE

INVARIANT TurnedWithinPledge
