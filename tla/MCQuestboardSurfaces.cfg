SPECIFICATION Spec

CONSTANTS
  Workers = {w1}
  People = {alice}
  Quests = {q1}
  PledgeIds = {p1}
  Items <- MCItems
  PledgeQtys = {1}
  Asks = {0}
  CreateQtys = {1}
  Manual <- NoManual
  Recipes <- TwoRecipes
  MaxDelivered = 2
  Decisions = {"cancelled"}
  MayRestart = FALSE

INVARIANT SurfacesAgree
