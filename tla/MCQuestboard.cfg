SPECIFICATION FairSpec

CONSTANTS
  Workers = {w1, w2}
  People = {alice}
  Quests = {q1}
  PledgeIds = {p1, p2}
  Items <- MCItems
  PledgeQtys = {0, 2}
  Asks = {1}
  CreateQtys = {2}
  Manual <- SaltByHand
  Recipes <- OneRecipe
  MaxDelivered = 1
  Decisions = {"cancelled"}
  MayRestart = TRUE

INVARIANT TypeOK
INVARIANT LedgerCoversTurned
INVARIANT PledgesOnTree
INVARIANT CompleteQuestIsWatched
PROPERTY RowsKeepTheirPledge
PROPERTY PledgesKeepTheirNode
PROPERTY LedgerExact
PROPERTY ServesLedger
PROPERTY CompleteQuestCloses
