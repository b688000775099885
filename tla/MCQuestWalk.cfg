SPECIFICATION Spec

CONSTANTS
  Items <- MCItems
  Qtys <- MCQtys
  Recipes <- MCRecipes
  MaxBuilt = 3
  MaxAmount = 3

INVARIANT TypeOK
INVARIANT WalksAgree
INVARIANT ParentCoversDescendants
INVARIANT MergeIsIdempotent
PROPERTY CreditMovesOnlyTheSubtree
PROPERTY StoredIdsAreStable
