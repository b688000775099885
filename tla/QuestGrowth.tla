----------------------------- MODULE QuestGrowth -----------------------------
(***************************************************************************)
(* The requirement tree of one quest from its first node on: it is built   *)
(* node by node, stored, paid into, and re-expanded.  The handlers create  *)
(* trees one level deep; build_tree and everything that reads a tree       *)
(* accept any depth, and so does this module.                              *)
(***************************************************************************)
EXTENDS QuestTree, Functions

CONSTANTS
  Items,      \* names, ordered like the numbers that stand for them
  Qtys,       \* requirements of the nodes of a new tree
  Recipes,    \* what a re-expansion may look up
  MaxBuilt,   \* bound: nodes of a tree when it is stored
  MaxAmount   \* bound: quantity turned in over the whole quest

ASSUME GrowthConstants ==
  /\ Items \subseteq Nat
  /\ Qtys \subseteq Nat \ {0}
  /\ Recipes \subseteq [item : Nat, yield : Nat \ {0}, parts : Seq([item : Nat, qty : Nat])]
  /\ MaxBuilt \in Nat \ {0}
  /\ MaxAmount \in Nat

VARIABLES
  tree,     \* the requirement tree
  stored,   \* create_quest has run: only additive merges from here on
  amounts   \* node id -> summed quantity turned in

vars == <<tree, stored, amounts>>

-----------------------------------------------------------------------------
(* One quest from its first node on *)

Init ==
  /\ \E item \in Items, qty \in Qtys :
       tree = FlatTree([item |-> item, qty |-> qty], <<>>)
  /\ stored = FALSE
  /\ amounts = [id \in {0} |-> 0]

\* build_tree appends the expansion of one ingredient to its parent.
AddNode(p, item, qty) ==
  LET child == Append(p, Degree(tree, p) + 1)
  IN  /\ ~stored
      /\ Cardinality(DOMAIN tree) < MaxBuilt
      /\ tree' = [q \in DOMAIN tree \cup {child} |->
                    IF q = child THEN [item |-> item, qty |-> qty] ELSE tree[q]]
      /\ UNCHANGED <<stored, amounts>>

Store ==
  /\ ~stored
  /\ stored' = TRUE
  /\ UNCHANGED <<tree, amounts>>

\* quest_amounts sums one more turn-in of n on the node.
Credit(id, n) ==
  /\ stored
  /\ SumFunctionOnSet(amounts, DOMAIN amounts) + n <= MaxAmount
  /\ amounts' = [i \in DOMAIN amounts \cup {id} |->
                   IF i = id THEN AmountOf(amounts, id) + n ELSE amounts[i]]
  /\ UNCHANGED <<tree, stored>>

\* api_reexpand; with nothing fresh the handler answers "nothing new to merge".
Reexpand(recipe) ==
  /\ stored
  /\ tree' = MergeRecipe(tree, recipe)
  /\ UNCHANGED <<stored, amounts>>

Next ==
  \/ \E p \in DOMAIN tree, item \in Items, qty \in Qtys : AddNode(p, item, qty)
  \/ Store
  \/ \E id \in NodeIds(tree), n \in 1..MaxAmount : Credit(id, n)
  \/ \E recipe \in Recipes : Reexpand(recipe)

Spec == Init /\ [][Next]_vars

-----------------------------------------------------------------------------
(* Properties *)

Status(p) == NodeStatus(tree, amounts, amounts, p)

\* The tree stays a tree and every amount is on one of its nodes.
TypeOK ==
  /\ IsTree(tree)
  /\ tree \in [DOMAIN tree -> [item : Nat, qty : Nat \ {0}]]
  /\ stored \in BOOLEAN
  /\ amounts \in [DOMAIN amounts -> 0..MaxAmount]
  /\ DOMAIN amounts \subseteq NodeIds(tree)

(***************************************************************************)
(* Substitution (docs/questboard.md): what is delivered on a node counts   *)
(* for everything below it, so under a fulfilled node nothing is           *)
(* outstanding, and a complete quest has an empty shopping list.           *)
(***************************************************************************)
ParentCoversDescendants ==
  /\ LET status == [p \in DOMAIN tree |-> Status(p)]
     IN  \A p, q \in DOMAIN tree :
           IsPrefixOf(p, q) /\ status[p].fulfilled
             => status[q].fulfilled /\ status[q].outstanding = 0
  /\ QuestComplete(tree, amounts) => Outstanding(tree, amounts, amounts) = {}

(***************************************************************************)
(* A turn-in on a node moves the figures of that node and of its           *)
(* descendants only, and never makes more outstanding, whatever the        *)
(* rounding does.                                                          *)
(***************************************************************************)
CreditMovesOnlyTheSubtree ==
  [][amounts' # amounts =>
       LET credited == {p \in DOMAIN tree :
                          LET id == NodeId(tree, p)
                          IN  AmountOf(amounts', id) # AmountOf(amounts, id)}
       IN  \A p \in DOMAIN tree :
             LET old == Status(p)
                 new == Status(p)'
             IN  /\ new.outstanding <= old.outstanding
                 /\ (\A c \in credited : ~ IsPrefixOf(c, p)) => new = old]_vars

(***************************************************************************)
(* Re-expansion is additive: every id of a stored quest keeps naming the   *)
(* same node, with the same item and requirement, so a pledge made before  *)
(* it still means what its owner promised.                                 *)
(***************************************************************************)
StoredIdsAreStable ==
  [][stored =>
       \A p \in DOMAIN tree :
         /\ p \in DOMAIN tree'
         /\ tree'[p] = tree[p]
         /\ NodeId(tree', p) = NodeId(tree, p)]_vars

\* Looking the same recipe up again finds nothing more to merge.
MergeIsIdempotent ==
  \A recipe \in Recipes : FreshParts(MergeRecipe(tree, recipe), recipe) = {}
=============================================================================
