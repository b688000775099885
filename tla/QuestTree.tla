------------------------------ MODULE QuestTree ------------------------------
(***************************************************************************)
(* The requirement tree of a quest (core/quests.py) and its accounting.    *)
(*                                                                         *)
(* A tree is a function from paths to nodes.  A path is the sequence of    *)
(* child numbers that leads from the root to a node: <<>> is the root and  *)
(* <<2, 1>> the first child of the root's second child.  A node is a       *)
(* record [item, qty] (name or item id, and qty_required).                 *)
(*                                                                         *)
(* The code names nodes by position: n0, n1, ... in document order.  Here  *)
(* the id of a node is the number of nodes before it in that order, which  *)
(* defines the numbering without running the counter; QuestWalk runs the   *)
(* counter and the two are compared there.                                 *)
(*                                                                         *)
(* Floats are replaced by exact fractions <<numerator, denominator>>.      *)
(***************************************************************************)
EXTENDS Integers, Sequences, FiniteSets

Root == <<>>

IsPrefixOf(p, q) == Len(p) <= Len(q) /\ \A i \in DOMAIN p : p[i] = q[i]

\* p comes before q in the pre-order walk of the tree.
Before(p, q) ==
  \/ p # q /\ IsPrefixOf(p, q)
  \/ \E i \in DOMAIN p \cap DOMAIN q :
       p[i] < q[i] /\ \A j \in 1..(i - 1) : p[j] = q[j]

ChildPaths(T, p) == {q \in DOMAIN T : Len(q) = Len(p) + 1 /\ IsPrefixOf(p, q)}

Degree(T, p) == Cardinality(ChildPaths(T, p))

\* Finite, closed under prefixes, and the children of a node are numbered 1..n.
IsTree(T) ==
  /\ DOMAIN T \subseteq Seq(Nat)
  /\ IsFiniteSet(DOMAIN T)
  /\ Root \in DOMAIN T
  /\ \A p \in DOMAIN T :
       /\ p # Root => SubSeq(p, 1, Len(p) - 1) \in DOMAIN T
       /\ \A c \in ChildPaths(T, p) : c[Len(c)] \in 1..Degree(T, p)

-----------------------------------------------------------------------------
(* Node ids *)

NodeId(T, p) == Cardinality({q \in DOMAIN T : Before(q, p)})

NodeIds(T) == {NodeId(T, p) : p \in DOMAIN T}

NodeAt(T, id) == CHOOSE p \in DOMAIN T : NodeId(T, p) = id

-----------------------------------------------------------------------------
(* Building and re-expanding a tree *)

\* The tree of a root and its direct children, which is what the handlers create.
FlatTree(root, kids) ==
  [p \in {Root} \cup {<<i>> : i \in DOMAIN kids} |->
     IF p = Root THEN root ELSE kids[p[1]]]

(***************************************************************************)
(* A recipe is what a lookup returns: [item, yield, parts], parts being a  *)
(* sequence of [item, qty].  A part is scaled by the number of crafts and  *)
(* int() cuts the fraction off, towards zero.                              *)
(***************************************************************************)
Truncated(n, d) == IF n >= 0 THEN n \div d ELSE -((-n) \div d)

Scaled(part, rootQty, recipe) == Truncated(part.qty * rootQty, recipe.yield)

AtLeastOne(n) == IF n < 1 THEN 1 ELSE n

\* The children a new web quest gets: the scaled parts, nothing keeps them above 0.
CreatedKids(recipe, qty) ==
  [i \in DOMAIN recipe.parts |->
     [item |-> recipe.parts[i].item, qty |-> Scaled(recipe.parts[i], qty, recipe)]]

\* Mutant: every part is taken for a missing one.
FreshPartsAll(T, recipe) == DOMAIN recipe.parts

\* The parts a re-expansion adds: those whose name no child of the root has.
FreshParts(T, recipe) ==
  {i \in DOMAIN recipe.parts :
     \A p \in ChildPaths(T, Root) : T[p].item # recipe.parts[i].item}

\* Mutant: the new children are numbered one too high.
GraftPathGap(T, recipe, i) ==
  <<Degree(T, Root) + 1 + Cardinality({j \in FreshParts(T, recipe) : j <= i})>>

\* The fresh parts follow the children the root has, in the order of the recipe.
GraftPath(T, recipe, i) ==
  <<Degree(T, Root) + Cardinality({j \in FreshParts(T, recipe) : j <= i})>>

Graft(T, recipe, i) ==
  [item |-> recipe.parts[i].item,
   qty  |-> AtLeastOne(Scaled(recipe.parts[i], T[Root].qty, recipe))]

\* Mutant: the children are replaced by the recipe's instead of completed with them.
MergeRecipeWholesale(T, recipe) ==
  FlatTree(T[Root], [i \in DOMAIN recipe.parts |-> Graft(T, recipe, i)])

MergeRecipe(T, recipe) ==
  LET fresh == FreshParts(T, recipe)
  IN  [p \in DOMAIN T \cup {GraftPath(T, recipe, i) : i \in fresh} |->
         IF p \in DOMAIN T
           THEN T[p]
           ELSE Graft(T, recipe, CHOOSE i \in fresh : GraftPath(T, recipe, i) = p)]

-----------------------------------------------------------------------------
(* What the two surfaces make of a stored tree *)

\* The web application rebuilds the root through build_tree and copies the rest.
WebTree(T) == [T EXCEPT ![Root].qty = AtLeastOne(@)]

\* The bot rebuilds every node through build_tree.
BotTree(T) == [p \in DOMAIN T |-> [T[p] EXCEPT !.qty = AtLeastOne(@)]]

-----------------------------------------------------------------------------
(* Accounting.  amounts maps some node ids to summed quantities. *)

AmountOf(amounts, id) == IF id \in DOMAIN amounts THEN amounts[id] ELSE 0

Plus(f, g) == <<f[1] * g[2] + g[1] * f[2], f[2] * g[2]>>

\* Mutant: only the node's own amount counts, not its ancestors'.
ChainSumOwn(T, amounts, p) == <<AmountOf(amounts, NodeId(T, p)), T[p].qty>>

\* Mutant: the chain is looked up by depth instead of by node id.
ChainSumByDepth(T, amounts, p) ==
  LET share(k) == <<AmountOf(amounts, k), T[SubSeq(p, 1, k)].qty>>
      sum[k \in 0..Len(p)] == IF k = 0 THEN share(0) ELSE Plus(sum[k - 1], share(k))
  IN  sum[Len(p)]

\* Sum of amount / requirement over the nodes from the root down to p.
ChainSum(T, amounts, p) ==
  LET node(k) == SubSeq(p, 1, k)
      share(k) == <<AmountOf(amounts, NodeId(T, node(k))), T[node(k)].qty>>
      sum[k \in 0..Len(p)] == IF k = 0 THEN share(0) ELSE Plus(sum[k - 1], share(k))
  IN  sum[Len(p)]

Covers(f) == f[1] >= f[2]

RoundHalfEven(n, d) ==
  LET q == n \div d
      r == 2 * (n % d)
  IN  IF r < d \/ (r = d /\ q % 2 = 0) THEN q ELSE q + 1

\* round(min(1, f) * qty)
Units(f, qty) == IF Covers(f) THEN qty ELSE RoundHalfEven(f[1] * qty, f[2])

NodeStatus(T, pledged, turned, p) ==
  LET pf == ChainSum(T, pledged, p)
      tf == ChainSum(T, turned, p)
      qty == T[p].qty
  IN  [required       |-> qty,
       pledged        |-> Units(pf, qty),
       turned_in      |-> Units(tf, qty),
       open_to_pledge |-> qty - Units(pf, qty),
       outstanding    |-> qty - Units(tf, qty),
       fulfilled      |-> Covers(tf)]

\* The nodes of the shopping list.
Outstanding(T, pledged, turned) ==
  {p \in DOMAIN T : NodeStatus(T, pledged, turned, p).outstanding > 0}

(***************************************************************************)
(* node_statuses raises on an amount for an id the tree does not have, and *)
(* divides by every requirement.  This is when it returns.                 *)
(***************************************************************************)
Computable(T, ids) ==
  /\ ids \subseteq NodeIds(T)
  /\ \A p \in DOMAIN T : T[p].qty # 0

QuestComplete(T, turned) == Covers(ChainSum(T, turned, Root))
=============================================================================
