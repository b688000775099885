SPECIFICATION Spec

CONSTANTS
  Workers = {w1, w2}
  People = {alice}
  Quests = {q1}
  PledgeIds = {p1}
  Items <- MCItems
  PledgeQtys = {1}
  Asks = {0}
  CreateQtys = {2}
  Manual <- NoManual
  Recipes <- TwoRecipes
  MaxDelivered = 2
  Decisions = {"cancelled"}
  MayRestart = FALSE

INVARIANT PledgesOnTree
