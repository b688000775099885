--------------------------- MODULE QuestGrowthProofs ---------------------------
(***************************************************************************)
(* What is proved of QuestGrowth and of the walks in QuestWalk, for trees  *)
(* of any size and depth, any recipes and any quantities.                  *)
(***************************************************************************)
EXTENDS QuestWalk, DataProofs

-----------------------------------------------------------------------------
(* Type correctness *)

\* Nothing is turned in before the quest is stored.
Unpaid == ~ stored => DOMAIN amounts = {0}

LEMMA IdsAreFinite ==
  ASSUME NEW T, IsFiniteSet(DOMAIN T)
  PROVE  IsFiniteSet(NodeIds(T))
<1> DEFINE f == [p \in DOMAIN T |-> NodeId(T, p)]
<1>1. IsFiniteSet({f[p] : p \in DOMAIN T})
  <2>1. f = [p \in DOMAIN T |-> f[p]]
    OBVIOUS
  <2> HIDE DEF f
  <2> QED BY <2>1, FiniteImage
<1>2. {f[p] : p \in DOMAIN T} = NodeIds(T)
  BY DEF NodeIds
<1> QED BY <1>1, <1>2

\* What the scaled parts of a recipe come to is a positive requirement.
LEMMA GraftType ==
  ASSUME NEW T, T[Root].qty \in Nat, NEW recipe \in Recipes, NEW i \in DOMAIN recipe.parts
  PROVE  Graft(T, recipe, i) \in [item : Nat, qty : Nat \ {0}]
<1> DEFINE part == recipe.parts[i]
<1>1. recipe.yield \in Nat \ {0} /\ recipe.parts \in Seq([item : Nat, qty : Nat])
  BY GrowthConstants
<1>2. part \in [item : Nat, qty : Nat]
  BY <1>1, LenProperties, ElementOfSeq
<1> HIDE DEF part
<1>3. part.qty * T[Root].qty \in Nat
  BY <1>2
<1>4. Scaled(part, T[Root].qty, recipe) \in Nat
  <2>1. (part.qty * T[Root].qty) \div recipe.yield \in Nat
    BY <1>1, <1>3, Division
  <2> QED BY <1>3, <2>1 DEF Scaled, Truncated
<1>5. AtLeastOne(Scaled(part, T[Root].qty, recipe)) \in Nat \ {0}
  BY <1>4 DEF AtLeastOne
<1> QED BY <1>2, <1>5 DEF Graft, part

\* A re-expansion keeps the tree a tree, its nodes and their ids.
LEMMA ReexpandKeeps ==
  ASSUME TypeOK, NEW recipe \in Recipes, Reexpand(recipe)
  PROVE  /\ IsTree(tree')
         /\ tree' \in [DOMAIN tree' -> [item : Nat, qty : Nat \ {0}]]
         /\ \A p \in DOMAIN tree :
              p \in DOMAIN tree' /\ tree'[p] = tree[p] /\ NodeId(tree', p) = NodeId(tree, p)
<1>1. PICK m \in Nat : DOMAIN recipe.parts = 1..m
  BY GrowthConstants, LenProperties
<1>2. IsTree(tree) /\ tree \in [DOMAIN tree -> [item : Nat, qty : Nat \ {0}]] /\ Root \in DOMAIN tree
  BY DEF TypeOK, IsTree
<1>n. PICK n : n = Degree(tree, Root) /\ HasChildren(tree, n)
  BY <1>2, TreeHasChildren
<1> DEFINE fresh == FreshParts(tree, recipe)
           c == Cardinality(fresh)
           merged == MergeRecipe(tree, recipe)
           next == (n + 1)..(n + c)
<1>3. /\ c \in Nat
      /\ DOMAIN tree' = DOMAIN tree \cup {<<k>> : k \in next}
      /\ \A p \in DOMAIN tree : tree'[p] = tree[p]
      /\ \A k \in next : tree'[<<k>>] \in {Graft(tree, recipe, i) : i \in fresh}
  <2>1. tree' = merged
    BY DEF Reexpand
  <2>2. /\ IsFiniteSet(fresh) /\ c \in Nat
        /\ DOMAIN merged = DOMAIN tree \cup {<<k>> : k \in next}
        /\ \A p \in DOMAIN tree : merged[p] = tree[p]
        /\ \A i \in fresh : /\ GraftPath(tree, recipe, i) \in {<<k>> : k \in next}
                            /\ merged[GraftPath(tree, recipe, i)] = Graft(tree, recipe, i)
        /\ \A k \in next : merged[<<k>>] \in {Graft(tree, recipe, i) : i \in fresh}
    <3>1. AppendsBehind(tree, n, recipe)
      <4> HIDE DEF fresh, c, merged, next
      <4> QED BY <1>1, <1>n, MergeAppends
    <3> QED BY <3>1 DEF AppendsBehind
  <2> HIDE DEF merged, fresh, c, next
  <2> QED BY <2>1, <2>2
<1>4. \A i \in fresh : Graft(tree, recipe, i) \in [item : Nat, qty : Nat \ {0}]
  <2>1. tree[Root].qty \in Nat
    BY <1>2
  <2>2. fresh \subseteq DOMAIN recipe.parts
    BY DEF FreshParts
  <2> QED BY <2>1, <2>2, GraftType
<1> HIDE DEF fresh, c
<1>5. IsTree(tree') /\ \A p \in DOMAIN tree : NodeId(tree', p) = NodeId(tree, p)
  BY <1>2, <1>n, <1>3, WidenedIsTree
<1>6. \A p \in DOMAIN tree' : tree'[p] \in [item : Nat, qty : Nat \ {0}]
  <2>1. \A p \in DOMAIN tree : tree'[p] \in [item : Nat, qty : Nat \ {0}]
    BY <1>2, <1>3
  <2>2. \A k \in (n + 1)..(n + c) : tree'[<<k>>] \in [item : Nat, qty : Nat \ {0}]
    BY <1>3, <1>4
  <2> QED BY <1>3, <2>1, <2>2
<1>7. tree' = [p \in DOMAIN tree' |-> tree'[p]]
  BY DEF Reexpand, MergeRecipe
<1> QED BY <1>3, <1>5, <1>6, <1>7

LEMMA AddNodeKeeps ==
  ASSUME TypeOK, NEW p \in DOMAIN tree, NEW item \in Items, NEW qty \in Qtys, AddNode(p, item, qty)
  PROVE  IsTree(tree') /\ tree' \in [DOMAIN tree' -> [item : Nat, qty : Nat \ {0}]]
<1> DEFINE child == Append(p, Degree(tree, p) + 1)
<1>1. tree' = [q \in DOMAIN tree \cup {child} |->
                 IF q = child THEN [item |-> item, qty |-> qty] ELSE tree[q]]
  BY DEF AddNode
<1>2. IsTree(tree')
  <2>1. DOMAIN tree' = DOMAIN tree \cup {child}
    BY <1>1
  <2>2. IsTree(tree)
    BY DEF TypeOK
  <2> QED BY <2>1, <2>2, AppendedIsTree
<1>3. [item |-> item, qty |-> qty] \in [item : Nat, qty : Nat \ {0}]
  BY GrowthConstants
<1>4. tree \in [DOMAIN tree -> [item : Nat, qty : Nat \ {0}]]
  BY DEF TypeOK
<1> HIDE DEF child
<1> QED BY <1>1, <1>2, <1>3, <1>4

\* No amount passes the bound on their sum.
LEMMA CreditKeeps ==
  ASSUME TypeOK, NEW id \in NodeIds(tree), NEW n \in 1..MaxAmount, Credit(id, n)
  PROVE  amounts' \in [DOMAIN amounts' -> 0..MaxAmount] /\ DOMAIN amounts' = DOMAIN amounts \cup {id}
<1> DEFINE total == SumFunctionOnSet(amounts, DOMAIN amounts)
<1>1. /\ amounts' = [i \in DOMAIN amounts \cup {id} |->
                       IF i = id THEN AmountOf(amounts, id) + n ELSE amounts[i]]
      /\ total + n <= MaxAmount
  BY DEF Credit
<1>2. /\ MaxAmount \in Nat /\ amounts \in [DOMAIN amounts -> 0..MaxAmount]
      /\ \A i \in DOMAIN amounts : amounts[i] \in Nat
  BY GrowthConstants DEF TypeOK
<1>3. IsFiniteSet(DOMAIN amounts)
  <2>1. IsFiniteSet(NodeIds(tree)) /\ DOMAIN amounts \subseteq NodeIds(tree)
    BY IdsAreFinite DEF TypeOK, IsTree
  <2> QED BY <2>1, FS_Subset
<1>4. AmountOf(amounts, id) \in Nat /\ AmountOf(amounts, id) <= total /\ total \in Nat
  <2>1. total \in Nat
    BY <1>2, <1>3, SumIsNat
  <2>2. CASE id \in DOMAIN amounts
    <3>1. total = amounts[id] + SumFunctionOnSet(amounts, DOMAIN amounts \ {id})
      BY <1>2, <1>3, <2>2, SumWithout
    <3>2. SumFunctionOnSet(amounts, DOMAIN amounts \ {id}) \in Nat
      BY <1>2, <1>3, FS_RemoveElement, SumIsNat
    <3> QED BY <1>2, <2>1, <2>2, <3>1, <3>2 DEF AmountOf
  <2>3. CASE id \notin DOMAIN amounts
    BY <2>1, <2>3 DEF AmountOf
  <2> QED BY <2>2, <2>3, <2>1
<1> HIDE DEF total
<1>5. AmountOf(amounts, id) + n \in 0..MaxAmount
  BY <1>1, <1>2, <1>4
<1> QED BY <1>1, <1>2, <1>5

LEMMA TypeInit == Init => TypeOK /\ Unpaid
<1> SUFFICES ASSUME Init PROVE TypeOK /\ Unpaid
  OBVIOUS
<1>1. PICK item \in Items, qty \in Qtys : tree = FlatTree([item |-> item, qty |-> qty], <<>>)
  BY DEF Init
<1>2. DOMAIN tree = {Root} /\ tree = [p \in {Root} |-> [item |-> item, qty |-> qty]]
  BY <1>1 DEF FlatTree
<1>3. IsTree(tree)
  <2>1. ChildPaths(tree, Root) = {}
    BY <1>2 DEF ChildPaths, Root
  <2>2. Root \in Seq(Nat) /\ IsFiniteSet({Root})
    BY EmptySeq, FS_Singleton DEF Root
  <2> QED BY <1>2, <2>1, <2>2 DEF IsTree
<1>4. tree \in [DOMAIN tree -> [item : Nat, qty : Nat \ {0}]]
  BY <1>2, GrowthConstants
<1>5. 0 \in NodeIds(tree)
  BY <1>2, <1>3, RootIsFirst DEF IsTree, NodeIds
<1>6. stored = FALSE /\ amounts = [id \in {0} |-> 0] /\ MaxAmount \in Nat
  BY GrowthConstants DEF Init
<1>7. DOMAIN amounts = {0} /\ amounts \in [DOMAIN amounts -> 0..MaxAmount]
  BY <1>6
<1> QED BY <1>3, <1>4, <1>5, <1>6, <1>7 DEF TypeOK, Unpaid

LEMMA TypeNext == TypeOK /\ Unpaid /\ [Next]_vars => TypeOK' /\ Unpaid'
<1> SUFFICES ASSUME TypeOK, Unpaid, [Next]_vars PROVE TypeOK' /\ Unpaid'
  OBVIOUS
<1>1. ASSUME NEW p \in DOMAIN tree, NEW item \in Items, NEW qty \in Qtys, AddNode(p, item, qty)
      PROVE  TypeOK' /\ Unpaid'
  <2>1. IsTree(tree') /\ tree' \in [DOMAIN tree' -> [item : Nat, qty : Nat \ {0}]]
    BY <1>1, AddNodeKeeps
  <2>2. ~ stored /\ UNCHANGED <<stored, amounts>>
    BY <1>1 DEF AddNode
  <2>3. 0 \in NodeIds(tree')
    BY <2>1, RootIsFirst DEF IsTree, NodeIds
  <2> QED BY <2>1, <2>2, <2>3 DEF TypeOK, Unpaid
<1>2. CASE Store
  BY <1>2 DEF Store, TypeOK, Unpaid
<1>3. ASSUME NEW id \in NodeIds(tree), NEW n \in 1..MaxAmount, Credit(id, n)
      PROVE  TypeOK' /\ Unpaid'
  <2>1. amounts' \in [DOMAIN amounts' -> 0..MaxAmount] /\ DOMAIN amounts' = DOMAIN amounts \cup {id}
    BY <1>3, CreditKeeps
  <2>2. stored /\ UNCHANGED <<tree, stored>>
    BY <1>3 DEF Credit
  <2> QED BY <2>1, <2>2 DEF TypeOK, Unpaid
<1>4. ASSUME NEW recipe \in Recipes, Reexpand(recipe)
      PROVE  TypeOK' /\ Unpaid'
  <2>1. /\ IsTree(tree') /\ tree' \in [DOMAIN tree' -> [item : Nat, qty : Nat \ {0}]]
        /\ \A p \in DOMAIN tree : p \in DOMAIN tree' /\ NodeId(tree', p) = NodeId(tree, p)
    BY <1>4, ReexpandKeeps
  <2>2. stored /\ UNCHANGED <<stored, amounts>>
    BY <1>4 DEF Reexpand
  <2>3. NodeIds(tree) \subseteq NodeIds(tree')
    BY <2>1 DEF NodeIds
  <2> QED BY <2>1, <2>2, <2>3 DEF TypeOK, Unpaid
<1>5. CASE UNCHANGED vars
  BY <1>5 DEF vars, TypeOK, Unpaid
<1> QED BY <1>1, <1>2, <1>3, <1>4, <1>5 DEF Next

\* Every step of a quest's life leaves a tree, and amounts on its nodes.
THEOREM TypeCorrect == Spec => []TypeOK
<1>1. Spec => [](TypeOK /\ Unpaid)
  BY TypeInit, TypeNext, PTL DEF Spec
<1> QED BY <1>1, PTL

-----------------------------------------------------------------------------
(* Re-expansion *)

(***************************************************************************)
(* However often, and with whatever answers of the wiki, a stored quest is *)
(* re-expanded, an id names the same node with the same requirement.       *)
(***************************************************************************)
THEOREM StoredIdsStay == Spec => StoredIdsAreStable
<1> DEFINE Stays == \A p \in DOMAIN tree :
                      /\ p \in DOMAIN tree'
                      /\ tree'[p] = tree[p]
                      /\ NodeId(tree', p) = NodeId(tree, p)
<1>1. ASSUME TypeOK, [Next]_vars, stored PROVE Stays
  <2>1. ASSUME NEW recipe \in Recipes, Reexpand(recipe) PROVE Stays
    BY <1>1, <2>1, ReexpandKeeps
  <2>2. ASSUME NEW p \in DOMAIN tree, NEW item \in Items, NEW qty \in Qtys, AddNode(p, item, qty)
        PROVE  FALSE
    BY <1>1, <2>2 DEF AddNode
  <2>3. CASE tree' = tree
    BY <2>3
  <2> HIDE DEF Stays
  <2> QED BY <1>1, <2>1, <2>2, <2>3 DEF Next, Store, Credit, vars
<1>2. TypeOK /\ [Next]_vars => [stored => Stays]_vars
  BY <1>1
<1> QED BY <1>2, TypeCorrect, PTL DEF Spec, StoredIdsAreStable

\* Whatever the tree, re-expanding it twice with one recipe is re-expanding it once.
THEOREM MergesAreIdempotent == Spec => []MergeIsIdempotent
<1>1. TypeOK => MergeIsIdempotent
  <2> SUFFICES ASSUME TypeOK, NEW recipe \in Recipes
               PROVE  FreshParts(MergeRecipe(tree, recipe), recipe) = {}
    BY DEF MergeIsIdempotent
  <2>1. PICK m \in Nat : DOMAIN recipe.parts = 1..m
    BY GrowthConstants, LenProperties
  <2>2. HasChildren(tree, Degree(tree, Root))
    BY TreeHasChildren DEF TypeOK
  <2> QED BY <2>1, <2>2, MergeLeavesNothingFresh
<1> QED BY <1>1, TypeCorrect, PTL

-----------------------------------------------------------------------------
(* Accounting *)

LEMMA TypesCount ==
  ASSUME TypeOK
  PROVE  IsCounted(tree) /\ ArePaid(amounts)
BY GrowthConstants DEF TypeOK, IsCounted, ArePaid

\* What a node that is covered has left to do.
LEMMA CoveredNeedsNothing ==
  ASSUME TypeOK, NEW p \in DOMAIN tree, Covers(ChainSum(tree, amounts, p))
  PROVE  Status(p).fulfilled /\ Status(p).outstanding = 0
<1>1. tree[p].qty \in Nat
  BY DEF TypeOK
<1>2. Units(ChainSum(tree, amounts, p), tree[p].qty) = tree[p].qty
  BY DEF Units
<1> QED BY <1>1, <1>2 DEF Status, NodeStatus

(***************************************************************************)
(* A delivery on a node counts for everything below it, at any depth and   *)
(* whatever the rounding does.                                             *)
(***************************************************************************)
THEOREM ParentsCover == Spec => []ParentCoversDescendants
<1>1. TypeOK => ParentCoversDescendants
  <2> SUFFICES ASSUME TypeOK PROVE ParentCoversDescendants
    OBVIOUS
  <2>1. IsCounted(tree) /\ ArePaid(amounts)
    BY TypesCount
  <2>2. ASSUME NEW p \in DOMAIN tree, NEW q \in DOMAIN tree, IsPrefixOf(p, q), Status(p).fulfilled
        PROVE  Status(q).fulfilled /\ Status(q).outstanding = 0
    <3>1. Covers(ChainSum(tree, amounts, p))
      BY <2>2 DEF Status, NodeStatus
    <3>2. Covers(ChainSum(tree, amounts, q))
      BY <2>1, <2>2, <3>1, CoverIsInherited
    <3> QED BY <3>2, CoveredNeedsNothing
  <2>3. ASSUME QuestComplete(tree, amounts), NEW p \in DOMAIN tree
        PROVE  NodeStatus(tree, amounts, amounts, p).outstanding = 0
    <3>1. Covers(ChainSum(tree, amounts, Root)) /\ Root \in DOMAIN tree
      BY <2>3 DEF QuestComplete, TypeOK, IsTree
    <3>2. IsPrefixOf(Root, p)
      <4>1. Len(p) \in Nat
        BY LenProperties DEF TypeOK, IsTree
      <4> QED BY <4>1 DEF IsPrefixOf, Root
    <3>3. Covers(ChainSum(tree, amounts, p))
      BY <2>1, <3>1, <3>2, CoverIsInherited
    <3> QED BY <3>3, CoveredNeedsNothing DEF Status
  <2>4. QuestComplete(tree, amounts) => Outstanding(tree, amounts, amounts) = {}
    BY <2>3 DEF Outstanding
  <2> QED BY <2>2, <2>4 DEF ParentCoversDescendants
<1> QED BY <1>1, TypeCorrect, PTL

\* What one more turn-in on a node changes.
LEMMA CreditMoves ==
  ASSUME TypeOK, TypeOK', NEW id \in NodeIds(tree), NEW n \in 1..MaxAmount, Credit(id, n),
         NEW p \in DOMAIN tree
  PROVE  /\ Status(p)'.outstanding <= Status(p).outstanding
         /\ (\A k \in 0..Len(p) : NodeId(tree, SubSeq(p, 1, k)) # id) => Status(p)' = Status(p)
<1> DEFINE f == ChainSum(tree, amounts, p)
           g == ChainSum(tree, amounts', p)
           qty == tree[p].qty
<1>1. /\ tree' = tree
      /\ \A i : AmountOf(amounts', i) = AmountOf(amounts, i) + (IF i = id THEN n ELSE 0)
  <2>1. tree' = tree /\ amounts' = [i \in DOMAIN amounts \cup {id} |->
                       IF i = id THEN AmountOf(amounts, id) + n ELSE amounts[i]]
    BY DEF Credit
  <2>2. \A i \in DOMAIN amounts : amounts[i] + 0 = amounts[i]
    BY GrowthConstants DEF TypeOK
  <2> QED BY <2>1, <2>2 DEF AmountOf
<1>2. IsCounted(tree) /\ ArePaid(amounts) /\ ArePaid(amounts')
  <2>1. ArePaid(amounts')
    BY GrowthConstants DEF TypeOK, ArePaid
  <2> QED BY <2>1, TypesCount
<1>3. Status(p).outstanding = qty - Units(f, qty) /\ Status(p)'.outstanding = qty - Units(g, qty)
  BY <1>1 DEF Status, NodeStatus
<1>4. qty \in Nat /\ f \in Fractions /\ g \in Fractions
  BY <1>2, ChainIsFraction DEF IsCounted
<1>5. f[1] <= g[1] /\ f[2] = g[2]
  <2>1. \A i : AmountOf(amounts, i) <= AmountOf(amounts', i)
    <3>1. \A i : AmountOf(amounts, i) \in Nat
      BY <1>2 DEF ArePaid, AmountOf
    <3> QED BY <1>1, <3>1
  <2> QED BY <1>2, <2>1, ChainGrows
<1>6. ASSUME \A k \in 0..Len(p) : NodeId(tree, SubSeq(p, 1, k)) # id
      PROVE  Status(p)' = Status(p)
  <2>1. \A i : i # id => AmountOf(amounts', i) = AmountOf(amounts, i)
    <3>1. \A i : AmountOf(amounts, i) \in Nat
      BY <1>2 DEF ArePaid, AmountOf
    <3> QED BY <1>1, <3>1
  <2>2. Len(p) \in Nat
    BY LenProperties DEF TypeOK, IsTree
  <2>3. \A k \in 0..Len(p) : AmountOf(amounts, NodeId(tree, SubSeq(p, 1, k)))
                               = AmountOf(amounts', NodeId(tree, SubSeq(p, 1, k)))
    BY <1>6, <2>1
  <2>4. g = f
    BY <2>2, <2>3, ChainUntouched
  <2> QED BY <1>1, <2>4 DEF Status, NodeStatus
<1> HIDE DEF f, g, qty
<1>7. Units(f, qty) <= Units(g, qty) /\ Units(f, qty) \in Nat /\ Units(g, qty) \in Nat
  BY <1>4, <1>5, UnitsGrow, UnitsBounded
<1>8. Status(p)'.outstanding <= Status(p).outstanding
  BY <1>3, <1>4, <1>7
<1> QED BY <1>6, <1>8

(***************************************************************************)
(* A turn-in moves the figures of its node and of what is below, and never *)
(* makes more outstanding, on any tree.                                    *)
(***************************************************************************)
THEOREM CreditsMoveTheSubtree == Spec => CreditMovesOnlyTheSubtree
<1> DEFINE Credited == {p \in DOMAIN tree :
                          LET id == NodeId(tree, p)
                          IN  AmountOf(amounts', id) # AmountOf(amounts, id)}
           Moves == \A p \in DOMAIN tree :
                      LET old == Status(p)
                          new == Status(p)'
                      IN  /\ new.outstanding <= old.outstanding
                          /\ (\A c \in Credited : ~ IsPrefixOf(c, p)) => new = old
<1>1. ASSUME TypeOK, TypeOK', [Next]_vars, amounts' # amounts PROVE Moves
  <2>1. PICK id \in NodeIds(tree), n \in 1..MaxAmount : Credit(id, n)
    BY <1>1 DEF Next, AddNode, Store, Reexpand, vars
  <2>2. ASSUME NEW p \in DOMAIN tree, \A c \in Credited : ~ IsPrefixOf(c, p), NEW k \in 0..Len(p)
        PROVE  NodeId(tree, SubSeq(p, 1, k)) # id
    <3> DEFINE u == SubSeq(p, 1, k)
    <3>1. IsTree(tree) /\ p \in Seq(Nat) /\ Len(p) \in Nat
      BY <1>1, LenProperties DEF TypeOK, IsTree
    <3>2. u \in DOMAIN tree /\ u \in Seq(Nat) /\ Len(u) = k /\ \A i \in 1..k : u[i] = p[i]
      BY <3>1, PathUpTo, PathsAreClosed
    <3> HIDE DEF u
    <3>3. IsPrefixOf(u, p)
      <4>1. DOMAIN u = 1..k
        BY <3>2, LenProperties
      <4> QED BY <3>1, <3>2, <4>1 DEF IsPrefixOf
    <3>4. AmountOf(amounts', id) # AmountOf(amounts, id)
      <4>1. AmountOf(amounts, id) \in Nat
        BY <1>1, TypesCount DEF ArePaid, AmountOf
      <4>2. AmountOf(amounts', id) = AmountOf(amounts, id) + n
        BY <2>1 DEF Credit, AmountOf
      <4> QED BY <4>1, <4>2
    <3>5. u \notin Credited
      BY <2>2, <3>3
    <3> QED BY <3>2, <3>4, <3>5 DEF u
  <2> HIDE DEF Credited
  <2> QED BY <1>1, <2>1, <2>2, CreditMoves
<1> HIDE DEF Credited
<1>2. TypeOK /\ TypeOK' /\ [Next]_vars => [amounts' # amounts => Moves]_vars
  BY <1>1
<1> QED BY <1>2, TypeCorrect, PTL DEF Spec, CreditMovesOnlyTheSubtree, Credited

-----------------------------------------------------------------------------
(* The walk that numbers the nodes *)

\* w has the nodes of S, and no others, in document order.
InOrder(w, S) ==
  /\ w \in Seq(S)
  /\ \A x \in S : \E i \in 1..Len(w) : w[i] = x
  /\ \A i, k \in 1..Len(w) : i < k => Before(w[i], w[k])

LEMMA OrdersJoin ==
  ASSUME NEW A, NEW B, NEW v, InOrder(v, A), NEW w, InOrder(w, B),
         \A a \in A, b \in B : Before(a, b)
  PROVE  InOrder(v \o w, A \cup B)
<1> DEFINE S == A \cup B
           u == v \o w
<1>1. /\ v \in Seq(A) /\ w \in Seq(B) /\ v \in Seq(S) /\ w \in Seq(S) /\ Len(v) \in Nat /\ Len(w) \in Nat
      /\ \A i \in 1..Len(v) : v[i] \in A
      /\ \A i \in 1..Len(w) : w[i] \in B
  <2>1. v \in Seq(A) /\ w \in Seq(B)
    BY DEF InOrder
  <2>2. v \in Seq(S) /\ w \in Seq(S)
    BY <2>1, SeqMonotonic
  <2> QED BY <2>1, <2>2, LenProperties, ElementOfSeq
<1>2. /\ u \in Seq(S) /\ Len(u) = Len(v) + Len(w)
      /\ \A i \in 1..(Len(v) + Len(w)) : u[i] = IF i <= Len(v) THEN v[i] ELSE w[i - Len(v)]
  <2> HIDE DEF S
  <2> QED BY <1>1, ConcatProperties
<1> HIDE DEF u
<1>3. ASSUME NEW x \in S PROVE \E i \in 1..Len(u) : u[i] = x
  <2>1. CASE x \in A
    <3>1. PICK i \in 1..Len(v) : v[i] = x
      BY <2>1 DEF InOrder
    <3>2. i \in 1..Len(u) /\ u[i] = x
      BY <1>1, <1>2, <3>1
    <3> QED BY <3>2
  <2>2. CASE x \in B
    <3>1. PICK i \in 1..Len(w) : w[i] = x
      BY <2>2 DEF InOrder
    <3>2. Len(v) + i \in 1..Len(u) /\ ~ (Len(v) + i <= Len(v)) /\ (Len(v) + i) - Len(v) = i
      BY <1>1, <1>2
    <3>3. u[Len(v) + i] = x
      BY <1>2, <3>1, <3>2
    <3> QED BY <3>2, <3>3
  <2> QED BY <2>1, <2>2
<1>4. ASSUME NEW i \in 1..Len(u), NEW k \in 1..Len(u), i < k PROVE Before(u[i], u[k])
  <2>1. CASE k <= Len(v)
    <3>1. i \in 1..Len(v) /\ k \in 1..Len(v) /\ u[i] = v[i] /\ u[k] = v[k]
      BY <1>1, <1>2, <1>4, <2>1
    <3> QED BY <1>4, <3>1 DEF InOrder
  <2>2. CASE i <= Len(v) /\ ~ (k <= Len(v))
    <3>1. i \in 1..Len(v) /\ k - Len(v) \in 1..Len(w) /\ u[i] = v[i] /\ u[k] = w[k - Len(v)]
      BY <1>1, <1>2, <1>4, <2>2
    <3> QED BY <1>1, <3>1
  <2>3. CASE ~ (i <= Len(v)) /\ ~ (k <= Len(v))
    <3>1. /\ i - Len(v) \in 1..Len(w) /\ k - Len(v) \in 1..Len(w) /\ i - Len(v) < k - Len(v)
          /\ u[i] = w[i - Len(v)] /\ u[k] = w[k - Len(v)]
      BY <1>1, <1>2, <1>4, <2>3
    <3> QED BY <3>1 DEF InOrder
  <2>4. k <= Len(v) => i <= Len(v)
    BY <1>1, <1>2, <1>4
  <2> QED BY <2>1, <2>2, <2>3, <2>4
<1>5. InOrder(u, S)
  <2> HIDE DEF S
  <2> QED BY <1>2, <1>3, <1>4 DEF InOrder
<1> QED BY <1>5 DEF u

\* The place of a node in an ordered list of all is the number of nodes before it.
LEMMA PlaceIsNodeId ==
  ASSUME NEW T, IsTree(T), NEW w, InOrder(w, DOMAIN T)
  PROVE  /\ \A i \in 1..Len(w) : NodeId(T, w[i]) = i - 1
         /\ \A i, k \in 1..Len(w) : w[i] = w[k] => i = k
<1>1. /\ w \in Seq(DOMAIN T) /\ Len(w) \in Nat
      /\ \A i \in 1..Len(w) : w[i] \in DOMAIN T /\ w[i] \in Seq(Nat)
  <2>1. w \in Seq(DOMAIN T)
    BY DEF InOrder
  <2> QED BY <2>1, LenProperties, ElementOfSeq DEF IsTree
<1>2. \A i, k \in 1..Len(w) : Before(w[i], w[k]) <=> i < k
  <2> SUFFICES ASSUME NEW i \in 1..Len(w), NEW k \in 1..Len(w) PROVE Before(w[i], w[k]) <=> i < k
    OBVIOUS
  <2>1. i < k => Before(w[i], w[k])
    BY DEF InOrder
  <2>2. k < i => ~ Before(w[i], w[k])
    <3>1. k < i => Before(w[k], w[i])
      BY DEF InOrder
    <3> QED BY <1>1, <3>1, OrderIsAsymmetric
  <2>3. k = i => ~ Before(w[i], w[k])
    BY <1>1, OrderIsAsymmetric
  <2>4. i < k \/ k < i \/ k = i
    BY <1>1
  <2>5. ~ (k < i /\ i < k) /\ ~ (k = i /\ i < k)
    BY <1>1
  <2> QED BY <2>1, <2>2, <2>3, <2>4, <2>5
<1>3. \A i, k \in 1..Len(w) : w[i] = w[k] => i = k
  <2> SUFFICES ASSUME NEW i \in 1..Len(w), NEW k \in 1..Len(w), w[i] = w[k] PROVE i = k
    OBVIOUS
  <2>1. ~ Before(w[i], w[i])
    BY <1>1, OrderIsAsymmetric
  <2>2. ~ (i < k) /\ ~ (k < i)
    BY <1>2, <2>1
  <2> QED BY <1>1, <2>2
<1>4. ASSUME NEW i \in 1..Len(w) PROVE NodeId(T, w[i]) = i - 1
  <2> DEFINE E == {q \in DOMAIN T : Before(q, w[i])}
             f == [k \in 1..(i - 1) |-> w[k]]
  <2>1. \A k \in 1..(i - 1) : k \in 1..Len(w) /\ k < i
    BY <1>1
  <2>2. f \in [1..(i - 1) -> E]
    BY <1>1, <1>2, <2>1
  <2>3. \A x \in E : \E k \in 1..(i - 1) : f[k] = x
    <3> SUFFICES ASSUME NEW x \in E PROVE \E k \in 1..(i - 1) : f[k] = x
      OBVIOUS
    <3>1. PICK k \in 1..Len(w) : w[k] = x
      BY DEF InOrder
    <3>2. k < i
      BY <1>2, <3>1
    <3>3. k \in 1..(i - 1)
      BY <1>1, <3>2
    <3> QED BY <3>1, <3>3
  <2>4. \A j, k \in 1..(i - 1) : f[j] = f[k] => j = k
    BY <1>3, <2>1
  <2> HIDE DEF f, E
  <2>5. f \in Bijection(1..(i - 1), E)
    BY <2>2, <2>3, <2>4 DEF Bijection, Injection, Surjection, IsInjective
  <2>6. ExistsBijection(1..(i - 1), E) /\ i - 1 \in Nat
    BY <1>1, <2>5 DEF ExistsBijection
  <2>7. Cardinality(E) = i - 1
    BY <2>6, FS_CountingElements
  <2> QED BY <2>7 DEF E, NodeId
<1> QED BY <1>3, <1>4

\* f[q] is what the walk under q visits, for every q.
Visits(T, f) ==
  f = [q \in DOMAIN T |-> <<q>> \o FlattenSeq([i \in 1..Degree(T, q) |-> f[Append(q, i)]])]

LEMMA WalkUnfolds ==
  ASSUME NEW T, IsTree(T)
  PROVE  \E f : Visits(T, f) /\ \A p : Walk(T, p) = f[p]
<1> DEFINE A == DOMAIN T
           V == Seq(A)
           step == [x \in A \X Seq(V) |-> <<x[1]>> \o FlattenSeq(x[2])]
<1>1. ASSUME NEW q \in A, NEW kids \in [1..Degree(T, q) -> V]
      PROVE  step[<<q, kids>>] = <<q>> \o FlattenSeq(kids) /\ step[<<q, kids>>] \in V
  <2> DEFINE n == Degree(T, q)
  <2>1. n \in Nat
    BY ChildrenAreAppended
  <2>2. kids \in Seq(V)
    <3> HIDE DEF V
    <3> QED BY <2>1, SeqDef
  <2>3. FlattenSeq(kids) \in V
    <3> HIDE DEF n
    <3>1. PICK j : Joins(A, n, kids, j) /\ FlattenSeq(kids) = j[n]
      <4>1. kids \in [1..n -> Seq(A)]
        BY DEF n
      <4> QED BY <2>1, <4>1, FlattenJoins
    <3> QED BY <2>1, <3>1 DEF Joins
  <2>4. <<q>> \in V
    OBVIOUS
  <2>5. step[<<q, kids>>] = <<q>> \o FlattenSeq(kids)
    <3> HIDE DEF V
    <3> QED BY <2>2
  <2>6. <<q>> \o FlattenSeq(kids) \in V
    BY <2>3, <2>4, ConcatProperties
  <2> QED BY <2>5, <2>6
<1>2. V # {}
  BY EmptySeq
<1> HIDE DEF V, step
<1>3. IsStep(T, V, step)
  BY <1>1 DEF IsStep
<1>4. PICK f \in [DOMAIN T -> V] : Follows(T, step, f)
  BY <1>2, <1>3, TreeRecursion
<1>5. Visits(T, f)
  <2>1. ASSUME NEW q \in DOMAIN T
        PROVE  f[q] = <<q>> \o FlattenSeq([i \in 1..Degree(T, q) |-> f[Append(q, i)]])
    <3>1. OfChildren(T, f, q) \in [1..Degree(T, q) -> V]
      BY ChildIsNode DEF OfChildren
    <3>2. f[q] = <<q>> \o FlattenSeq(OfChildren(T, f, q))
      BY <1>1, <1>4, <3>1 DEF Follows
    <3> QED BY <3>2 DEF OfChildren
  <2> QED BY <2>1 DEF Visits
<1> DEFINE walk == CHOOSE g : Visits(T, g)
<1>6. Visits(T, walk)
  BY <1>5
<1>7. \A p : Walk(T, p) = walk[p]
  BY DEF Walk, Visits
<1> HIDE DEF walk
<1> QED BY <1>6, <1>7

\* u[q] is how often the walk under q takes an id, for every q.
Counts(T, u) ==
  u = [q \in DOMAIN T |->
         1 + SumFunctionOnSet([i \in 1..Degree(T, q) |-> u[Append(q, i)]], 1..Degree(T, q))]

LEMMA CountUnfolds ==
  ASSUME NEW T, IsTree(T)
  PROVE  \E u : Counts(T, u) /\ \A p : IdsUsed(T, p) = u[p]
<1> DEFINE A == DOMAIN T
           step == [x \in A \X Seq(Nat) |-> 1 + SumFunctionOnSet(x[2], 1..Degree(T, x[1]))]
<1>1. ASSUME NEW q \in A, NEW kids \in [1..Degree(T, q) -> Nat]
      PROVE  /\ step[<<q, kids>>] = 1 + SumFunctionOnSet(kids, 1..Degree(T, q))
             /\ step[<<q, kids>>] \in Nat
  <2> DEFINE n == Degree(T, q)
  <2>1. n \in Nat /\ IsFiniteSet(1..n)
    BY ChildrenAreAppended, FS_Interval
  <2>2. kids \in Seq(Nat)
    BY <2>1, SeqDef
  <2>3. SumFunctionOnSet(kids, 1..n) \in Nat
    BY <2>1, SumIsNat
  <2>4. step[<<q, kids>>] = 1 + SumFunctionOnSet(kids, 1..n)
    BY <2>2
  <2> QED BY <2>3, <2>4
<1> HIDE DEF step
<1>2. Nat # {}
  OBVIOUS
<1>3. IsStep(T, Nat, step)
  BY <1>1 DEF IsStep
<1>4. PICK f \in [DOMAIN T -> Nat] : Follows(T, step, f)
  BY <1>2, <1>3, TreeRecursion
<1>5. Counts(T, f)
  <2>1. ASSUME NEW q \in DOMAIN T
        PROVE  f[q] = 1 + SumFunctionOnSet([i \in 1..Degree(T, q) |-> f[Append(q, i)]], 1..Degree(T, q))
    <3>1. OfChildren(T, f, q) \in [1..Degree(T, q) -> Nat]
      BY ChildIsNode DEF OfChildren
    <3>2. f[q] = 1 + SumFunctionOnSet(OfChildren(T, f, q), 1..Degree(T, q))
      BY <1>1, <1>4, <3>1 DEF Follows
    <3> QED BY <3>2 DEF OfChildren
  <2> QED BY <2>1 DEF Counts
<1> DEFINE used == CHOOSE g : Counts(T, g)
<1>6. Counts(T, used)
  BY <1>5
<1>7. \A p : IdsUsed(T, p) = used[p]
  BY DEF IdsUsed, Counts
<1> HIDE DEF used
<1> QED BY <1>6, <1>7

\* The subtrees of the first k children of q.
FirstSubtrees(T, q, k) == UNION {Subtree(T, Append(q, i)) : i \in 1..k}

\* The walk under a node lists its subtree in document order, taking an id for each.
LEMMA WalkIsInOrder ==
  ASSUME NEW T, IsTree(T), NEW f, Visits(T, f), NEW u, Counts(T, u)
  PROVE  \A q \in DOMAIN T : InOrder(f[q], Subtree(T, q)) /\ u[q] = Len(f[q])
<1> DEFINE S == {q \in DOMAIN T : InOrder(f[q], Subtree(T, q)) /\ u[q] = Len(f[q])}
<1>1. ASSUME NEW q \in DOMAIN T, \A i \in 1..Degree(T, q) : Append(q, i) \in S
      PROVE  InOrder(f[q], Subtree(T, q)) /\ u[q] = Len(f[q])
  <2> DEFINE A == DOMAIN T
             n == Degree(T, q)
             s == [i \in 1..n |-> f[Append(q, i)]]
             c == [i \in 1..n |-> u[Append(q, i)]]
  <2>1. n \in Nat
    BY ChildrenAreAppended
  <2>2. \A i \in 1..n : InOrder(s[i], Subtree(T, Append(q, i))) /\ c[i] = Len(s[i])
    BY <1>1
  <2>3. f[q] = <<q>> \o FlattenSeq(s) /\ u[q] = 1 + SumFunctionOnSet(c, 1..n)
    BY DEF Visits, Counts
  <2>s. s = [i \in 1..n |-> s[i]]
    OBVIOUS
  <2> HIDE DEF n, s, c
  <2>4. ASSUME NEW i \in 1..n PROVE s[i] \in Seq(A) /\ c[i] \in Nat
    <3>1. Subtree(T, Append(q, i)) \subseteq A
      BY DEF Subtree
    <3>2. s[i] \in Seq(Subtree(T, Append(q, i)))
      BY <2>2 DEF InOrder
    <3>3. s[i] \in Seq(A) /\ Len(s[i]) \in Nat
      BY <3>1, <3>2, SeqMonotonic, LenProperties
    <3> QED BY <2>2, <3>3
  <2>5. s \in [1..n -> Seq(A)]
    BY <2>4, <2>s
  <2>6. PICK j : Joins(A, n, s, j) /\ FlattenSeq(s) = j[n]
    BY <2>1, <2>5, FlattenJoins
  <2> DEFINE F == {k \in 0..n : /\ InOrder(j[k], FirstSubtrees(T, q, k))
                                /\ Len(j[k]) = SumFunctionOnSet(c, 1..k)}
  <2>7. 0 \in F
    <3>1. j[0] = <<>>
      BY <2>6 DEF Joins
    <3>2. FirstSubtrees(T, q, 0) = {}
      BY DEF FirstSubtrees
    <3>3. InOrder(<<>>, {})
      BY EmptySeq DEF InOrder
    <3>4. SumFunctionOnSet(c, 1..0) = 0
      <4>1. 1..0 = {} /\ IsFiniteSet({})
        BY FS_EmptySet
      <4> QED BY <4>1, SumUnfolds
    <3>5. Len(<<>>) = 0
      OBVIOUS
    <3> QED BY <2>1, <3>1, <3>2, <3>3, <3>4, <3>5
  <2>8. ASSUME NEW k \in 0..(n - 1), k \in F PROVE k + 1 \in F
    <3> DEFINE B == Subtree(T, Append(q, k + 1))
    <3>1. k + 1 \in 1..n /\ k \in 0..n /\ (k + 1) - 1 = k
      BY <2>1
    <3>2. j[k + 1] = j[k] \o s[k + 1]
      BY <2>6, <3>1 DEF Joins
    <3>3. FirstSubtrees(T, q, k + 1) = FirstSubtrees(T, q, k) \cup B
      <4>1. \A i : i \in 1..(k + 1) <=> i \in 1..k \/ i = k + 1
        OBVIOUS
      <4> HIDE DEF F
      <4> QED BY <4>1 DEF FirstSubtrees
    <3>4. \A a \in FirstSubtrees(T, q, k), b \in B : Before(a, b)
      <4> SUFFICES ASSUME NEW a \in FirstSubtrees(T, q, k), NEW b \in B PROVE Before(a, b)
        OBVIOUS
      <4>1. PICK i \in 1..k : a \in Subtree(T, Append(q, i))
        BY DEF FirstSubtrees
      <4>2. i \in 1..((k + 1) - 1)
        BY <3>1, <4>1
      <4> QED BY <3>1, <4>1, <4>2, SubtreesAreOrdered DEF n
    <3>5. InOrder(s[k + 1], B) /\ c[k + 1] = Len(s[k + 1])
      BY <2>2, <3>1
    <3> HIDE DEF B
    <3>6. InOrder(j[k + 1], FirstSubtrees(T, q, k + 1))
      BY <2>8, <3>2, <3>3, <3>4, <3>5, OrdersJoin
    <3>7. Len(j[k + 1]) = Len(j[k]) + Len(s[k + 1])
      <4>1. j[k] \in Seq(A) /\ s[k + 1] \in Seq(A)
        BY <2>4, <2>6, <3>1 DEF Joins
      <4> QED BY <3>2, <4>1, ConcatProperties
    <3>8. SumFunctionOnSet(c, 1..(k + 1)) = c[k + 1] + SumFunctionOnSet(c, 1..k)
      <4>1. IsFiniteSet(1..(k + 1)) /\ k + 1 \in 1..(k + 1) /\ (1..(k + 1)) \ {k + 1} = 1..k
        BY FS_Interval
      <4>2. \A i \in 1..(k + 1) : c[i] \in Nat
        <5> HIDE DEF F
        <5>1. \A i \in 1..(k + 1) : i \in 1..n
          BY <2>1, <3>1
        <5> QED BY <2>4, <5>1
      <4> HIDE DEF F
      <4> QED BY <4>1, <4>2, SumWithout
    <3>9. SumFunctionOnSet(c, 1..k) = Len(j[k]) /\ Len(j[k]) \in Nat /\ Len(s[k + 1]) \in Nat
      <4>1. j[k] \in Seq(A) /\ s[k + 1] \in Seq(A)
        BY <2>4, <2>6, <3>1 DEF Joins
      <4> QED BY <2>8, <4>1, LenProperties
    <3>10. Len(j[k + 1]) = SumFunctionOnSet(c, 1..(k + 1))
      <4> HIDE DEF F
      <4>1. \A a, b \in Nat : a + b = b + a
        OBVIOUS
      <4> QED BY <3>5, <3>7, <3>8, <3>9, <4>1
    <3>11. k + 1 \in 0..n
      BY <3>1
    <3> QED BY <3>6, <3>10, <3>11
  <2>9. n \in F
    <3> HIDE DEF F
    <3>1. \A k \in 0..n : k \in F
      BY <2>1, <2>7, <2>8, InductionUpTo
    <3> QED BY <2>1, <3>1
  <2>10. InOrder(<<q>>, {q})
    <3>1. <<q>> \in Seq({q}) /\ Len(<<q>>) = 1 /\ <<q>>[1] = q
      OBVIOUS
    <3>2. \A i, k \in 1..Len(<<q>>) : ~ (i < k)
      BY <3>1
    <3>3. \A x \in {q} : \E i \in 1..Len(<<q>>) : <<q>>[i] = x
      <4>1. 1 \in 1..Len(<<q>>)
        BY <3>1
      <4> QED BY <3>1, <4>1
    <3> QED BY <3>1, <3>2, <3>3 DEF InOrder
  <2>11. \A a \in {q}, b \in FirstSubtrees(T, q, n) : Before(a, b)
    BY SubtreesAreOrdered DEF FirstSubtrees, n
  <2>12. Subtree(T, q) = {q} \cup FirstSubtrees(T, q, n)
    BY SubtreeUnfolds DEF FirstSubtrees, n
  <2>13. InOrder(f[q], Subtree(T, q))
    <3>1. InOrder(j[n], FirstSubtrees(T, q, n))
      BY <2>9
    <3> QED BY <2>3, <2>6, <2>10, <2>11, <2>12, <3>1, OrdersJoin
  <2>14. u[q] = Len(f[q])
    <3>1. j[n] \in Seq(A) /\ <<q>> \in Seq(A)
      BY <2>1, <2>6 DEF Joins
    <3>2. Len(f[q]) = Len(<<q>>) + Len(j[n])
      BY <2>3, <2>6, <3>1, ConcatProperties
    <3>3. Len(<<q>>) = 1
      OBVIOUS
    <3> QED BY <2>3, <2>9, <3>2, <3>3
  <2> QED BY <2>13, <2>14
<1>2. \A q \in DOMAIN T : (\A i \in 1..Degree(T, q) : Append(q, i) \in S) => q \in S
  BY <1>1
<1>3. \A q \in DOMAIN T : q \in S
  <2> HIDE DEF S
  <2> QED BY <1>2, TreeInduction
<1> QED BY <1>3

\* The numbers the walk hands out are those of document order, and it hands out one per node.
LEMMA WalkNumbers ==
  ASSUME NEW T, IsTree(T)
  PROVE  /\ AssignNodeIds(T) = [p \in DOMAIN T |-> NodeId(T, p)]
         /\ StoredTreeNodeIds(T) = {NodeId(T, p) : p \in DOMAIN T}
         /\ \A p, q \in DOMAIN T : NodeId(T, p) = NodeId(T, q) => p = q
<1>1. PICK f : Visits(T, f) /\ \A p : Walk(T, p) = f[p]
  BY WalkUnfolds
<1>2. PICK u : Counts(T, u) /\ \A p : IdsUsed(T, p) = u[p]
  BY CountUnfolds
<1> DEFINE w == f[Root]
<1>3. Root \in DOMAIN T /\ Subtree(T, Root) = DOMAIN T
  <2>1. Root \in DOMAIN T
    BY DEF IsTree
  <2>2. \A q \in DOMAIN T : IsPrefixOf(Root, q)
    <3>1. \A q \in DOMAIN T : Len(q) \in Nat
      BY LenProperties DEF IsTree
    <3> QED BY <3>1 DEF IsPrefixOf, Root
  <2> QED BY <2>1, <2>2 DEF Subtree
<1>4. InOrder(w, DOMAIN T) /\ u[Root] = Len(w)
  BY <1>1, <1>2, <1>3, WalkIsInOrder
<1> HIDE DEF w
<1>5. /\ Len(w) \in Nat /\ DOMAIN w = 1..Len(w)
      /\ \A i \in 1..Len(w) : w[i] \in DOMAIN T
      /\ \A x \in DOMAIN T : \E i \in 1..Len(w) : w[i] = x
  BY <1>4, LenProperties, ElementOfSeq DEF InOrder
<1>6. /\ \A i \in 1..Len(w) : NodeId(T, w[i]) = i - 1
      /\ \A i, k \in 1..Len(w) : w[i] = w[k] => i = k
  BY <1>4, PlaceIsNodeId
<1>7. ASSUME NEW p \in DOMAIN T PROVE (CHOOSE i \in DOMAIN w : w[i] = p) - 1 = NodeId(T, p)
  <2>1. PICK i \in 1..Len(w) : w[i] = p
    BY <1>5
  <2>2. (CHOOSE k \in DOMAIN w : w[k] = p) = i
    BY <1>5, <1>6, <2>1
  <2> QED BY <1>6, <2>1, <2>2
<1>8. AssignNodeIds(T) = [p \in DOMAIN T |-> NodeId(T, p)]
  <2>1. Walk(T, Root) = w
    BY <1>1 DEF w
  <2> QED BY <1>7, <2>1 DEF AssignNodeIds
<1>9. StoredTreeNodeIds(T) = {NodeId(T, p) : p \in DOMAIN T}
  <2>1. StoredTreeNodeIds(T) = 0..(Len(w) - 1)
    BY <1>2, <1>4 DEF StoredTreeNodeIds
  <2>2. ASSUME NEW k \in 0..(Len(w) - 1) PROVE \E p \in DOMAIN T : NodeId(T, p) = k
    <3>1. k + 1 \in 1..Len(w) /\ (k + 1) - 1 = k
      BY <1>5
    <3> QED BY <1>5, <1>6, <3>1
  <2>3. ASSUME NEW p \in DOMAIN T PROVE NodeId(T, p) \in 0..(Len(w) - 1)
    <3>1. PICK i \in 1..Len(w) : w[i] = p
      BY <1>5
    <3>2. i - 1 \in 0..(Len(w) - 1)
      BY <1>5
    <3> QED BY <1>6, <3>1, <3>2
  <2> QED BY <2>1, <2>2, <2>3
<1>10. ASSUME NEW p \in DOMAIN T, NEW q \in DOMAIN T, NodeId(T, p) = NodeId(T, q) PROVE p = q
  <2>1. PICK i \in 1..Len(w) : w[i] = p
    BY <1>5
  <2>2. PICK k \in 1..Len(w) : w[k] = q
    BY <1>5
  <2>3. i - 1 = k - 1
    BY <1>6, <1>10, <2>1, <2>2
  <2>4. i = k
    BY <1>5, <2>3
  <2> QED BY <2>1, <2>2, <2>4
<1> QED BY <1>8, <1>9, <1>10

-----------------------------------------------------------------------------
(* The search for the chain of a node *)

\* f[q] is what the search for the target under q leaves on its stack, for every q.
Searches(T, ids, target, f) ==
  f = [q \in DOMAIN T |->
         IF ids[q] = target
           THEN <<q>>
           ELSE LET found == {i \in 1..Degree(T, q) : f[Append(q, i)] # <<>>}
                IN  IF found = {} THEN <<>> ELSE <<q>> \o f[Append(q, Min(found))]]

LEMMA SearchUnfolds ==
  ASSUME NEW T, IsTree(T), NEW ids, NEW target
  PROVE  \E f : Searches(T, ids, target, f) /\ \A p : ChainTo(T, ids, p, target) = f[p]
<1> DEFINE A == DOMAIN T
           V == Seq(A)
           found(q, kids) == {i \in 1..Degree(T, q) : kids[i] # <<>>}
           under(q, kids) == IF found(q, kids) = {} THEN <<>> ELSE <<q>> \o kids[Min(found(q, kids))]
           step == [x \in A \X Seq(V) |-> IF ids[x[1]] = target THEN <<x[1]>> ELSE under(x[1], x[2])]
<1>1. ASSUME NEW q \in A, NEW kids \in [1..Degree(T, q) -> V]
      PROVE  /\ step[<<q, kids>>] = IF ids[q] = target THEN <<q>> ELSE under(q, kids)
             /\ step[<<q, kids>>] \in V
  <2>1. Degree(T, q) \in Nat
    BY ChildrenAreAppended
  <2>2. kids \in Seq(V)
    <3> HIDE DEF V
    <3> QED BY <2>1, SeqDef
  <2>3. <<q>> \in V /\ <<>> \in V
    BY EmptySeq
  <2>4. step[<<q, kids>>] = IF ids[q] = target THEN <<q>> ELSE under(q, kids)
    <3> HIDE DEF V, under
    <3> QED BY <2>2
  <2>5. under(q, kids) \in V
    <3>1. CASE found(q, kids) = {}
      BY <2>3, <3>1
    <3>2. CASE found(q, kids) # {}
      <4> DEFINE m == Min(found(q, kids))
      <4>1. m \in found(q, kids)
        <5>1. found(q, kids) \in SUBSET Nat
          BY <2>1
        <5> HIDE DEF found
        <5> QED BY <3>2, <5>1, MinIsLeast
      <4>2. kids[m] \in V
        <5> HIDE DEF m, V
        <5> QED BY <4>1
      <4>3. under(q, kids) = <<q>> \o kids[m]
        <5> HIDE DEF found
        <5> QED BY <3>2 DEF m
      <4> HIDE DEF under, m
      <4> QED BY <2>3, <4>2, <4>3, ConcatProperties
    <3> QED BY <3>1, <3>2
  <2> HIDE DEF step, under, V
  <2> QED BY <2>3, <2>4, <2>5
<1>2. V # {}
  BY EmptySeq
<1> HIDE DEF V, step, under
<1>3. IsStep(T, V, step)
  BY <1>1 DEF IsStep
<1>4. PICK f \in [DOMAIN T -> V] : Follows(T, step, f)
  BY <1>2, <1>3, TreeRecursion
<1> DEFINE Value(q) ==
             IF ids[q] = target
               THEN <<q>>
               ELSE LET hits == {i \in 1..Degree(T, q) : f[Append(q, i)] # <<>>}
                    IN  IF hits = {} THEN <<>> ELSE <<q>> \o f[Append(q, Min(hits))]
<1>5. Searches(T, ids, target, f)
  <2>1. ASSUME NEW q \in DOMAIN T PROVE f[q] = Value(q)
    <3> DEFINE kids == OfChildren(T, f, q)
               hits == {i \in 1..Degree(T, q) : f[Append(q, i)] # <<>>}
    <3>1. kids \in [1..Degree(T, q) -> V]
      BY ChildIsNode DEF OfChildren
    <3>2. f[q] = IF ids[q] = target THEN <<q>> ELSE under(q, kids)
      <4> HIDE DEF kids
      <4>1. f[q] = step[<<q, kids>>]
        BY <1>4 DEF Follows, kids
      <4> QED BY <1>1, <3>1, <4>1
    <3>3. \A i \in 1..Degree(T, q) : kids[i] = f[Append(q, i)]
      BY DEF OfChildren
    <3> HIDE DEF kids
    <3>4. found(q, kids) = hits
      BY <3>3
    <3>5. under(q, kids) = IF hits = {} THEN <<>> ELSE <<q>> \o f[Append(q, Min(hits))]
      <4>1. under(q, kids) = IF hits = {} THEN <<>> ELSE <<q>> \o kids[Min(hits)]
        <5> HIDE DEF found, hits
        <5> QED BY <3>4 DEF under
      <4>2. hits # {} => Min(hits) \in hits
        <5>1. hits \in SUBSET Nat
          <6>1. Degree(T, q) \in Nat
            BY ChildrenAreAppended
          <6> QED BY <6>1
        <5> HIDE DEF hits
        <5> QED BY <5>1, MinIsLeast
      <4>3. hits # {} => kids[Min(hits)] = f[Append(q, Min(hits))]
        <5>1. hits \subseteq 1..Degree(T, q)
          OBVIOUS
        <5> HIDE DEF hits
        <5> QED BY <3>3, <4>2, <5>1
      <4> HIDE DEF hits
      <4> QED BY <4>1, <4>3
    <3> QED BY <3>2, <3>5
  <2>2. f = [q \in DOMAIN T |-> Value(q)]
    <3> HIDE DEF Value
    <3> QED BY <2>1
  <2> QED BY <2>2 DEF Searches
<1> DEFINE walk == CHOOSE g : Searches(T, ids, target, g)
<1>6. Searches(T, ids, target, walk)
  BY <1>5
<1>7. \A p : ChainTo(T, ids, p, target) = walk[p]
  BY DEF ChainTo, Searches
<1> HIDE DEF walk
<1> QED BY <1>6, <1>7

\* The nodes from the one at level k down to p.
PathFrom(p, k) == [i \in 1..(Len(p) + 1 - k) |-> SubSeq(p, 1, k + i - 1)]

\* The search finds the chain of the node with the target's id, and nothing beside the chain.
LEMMA SearchFindsTheChain ==
  ASSUME NEW T, IsTree(T), NEW ids, \A a, b \in DOMAIN T : ids[a] = ids[b] => a = b,
         NEW p \in DOMAIN T, NEW f, Searches(T, ids, ids[p], f)
  PROVE  \A q \in DOMAIN T : f[q] = IF IsPrefixOf(q, p) THEN PathFrom(p, Len(q)) ELSE <<>>
<1> DEFINE S == {q \in DOMAIN T : f[q] = IF IsPrefixOf(q, p) THEN PathFrom(p, Len(q)) ELSE <<>>}
<1>p. p \in Seq(Nat) /\ Len(p) \in Nat /\ DOMAIN p = 1..Len(p)
  BY LenProperties DEF IsTree
<1>1. ASSUME NEW q \in DOMAIN T, \A i \in 1..Degree(T, q) : Append(q, i) \in S
      PROVE  f[q] = IF IsPrefixOf(q, p) THEN PathFrom(p, Len(q)) ELSE <<>>
  <2> DEFINE hits == {i \in 1..Degree(T, q) : f[Append(q, i)] # <<>>}
             n == Len(q)
  <2>1. /\ q \in Seq(Nat) /\ n \in Nat /\ DOMAIN q = 1..n /\ Degree(T, q) \in Nat
    BY LenProperties, ChildrenAreAppended DEF IsTree
  <2>2. f[q] = IF ids[q] = ids[p]
                 THEN <<q>>
                 ELSE IF hits = {} THEN <<>> ELSE <<q>> \o f[Append(q, Min(hits))]
    BY DEF Searches
  <2>3. ASSUME q = p PROVE f[q] = PathFrom(p, n) /\ IsPrefixOf(q, p)
    <3>1. SubSeq(p, 1, n) = p
      BY <1>p, <2>3, SubSeqFull
    <3>2. Len(p) + 1 - n = 1 /\ n + 1 - 1 = n
      BY <1>p, <2>3
    <3>3. PathFrom(p, n) = [i \in 1..1 |-> SubSeq(p, 1, n + i - 1)]
      BY <3>2 DEF PathFrom
    <3>4. PathFrom(p, n) = <<p>>
      <4>1. \A i \in 1..1 : SubSeq(p, 1, n + i - 1) = p
        BY <3>1, <3>2
      <4>2. PathFrom(p, n) = [i \in 1..1 |-> p]
        BY <3>3, <4>1
      <4> QED BY <4>2
    <3>5. IsPrefixOf(q, p)
      BY <1>p, <2>3 DEF IsPrefixOf
    <3> QED BY <2>2, <2>3, <3>4, <3>5
  <2>4. ASSUME q # p, IsPrefixOf(q, p) PROVE f[q] = PathFrom(p, n)
    <3> DEFINE c == SubSeq(p, 1, n + 1)
    <3>1. n <= Len(p) /\ \A i \in 1..n : q[i] = p[i]
      BY <2>1, <2>4 DEF IsPrefixOf
    <3>2. n + 1 \in 0..Len(p)
      <4>1. n = Len(p) => q = p
        BY <1>p, <2>1, <3>1, SeqEqual
      <4>2. n # Len(p)
        BY <2>4, <4>1
      <4>3. n \in Nat /\ Len(p) \in Nat /\ n <= Len(p)
        BY <1>p, <2>1, <3>1
      <4> HIDE DEF n
      <4> QED BY <4>2, <4>3
    <3>3. c \in DOMAIN T
      BY <3>2, PathsAreClosed
    <3>4. c \in Seq(Nat) /\ Len(c) = n + 1 /\ \A i \in 1..(n + 1) : c[i] = p[i]
      BY <1>p, <3>2, PathUpTo
    <3> HIDE DEF c
    <3>5. IsPrefixOf(c, p) /\ IsPrefixOf(q, c) /\ DOMAIN c = 1..(n + 1)
      <4>1. DOMAIN c = 1..(n + 1)
        BY <3>4, LenProperties
      <4>2. IsPrefixOf(c, p)
        BY <3>2, <3>4, <4>1 DEF IsPrefixOf
      <4>3. IsPrefixOf(q, c)
        BY <2>1, <3>1, <3>4 DEF IsPrefixOf
      <4> QED BY <4>1, <4>2, <4>3
    <3>6. c \in ChildPaths(T, q)
      BY <3>3, <3>4, <3>5 DEF ChildPaths
    <3>7. PICK k \in 1..Degree(T, q) : c = Append(q, k)
      BY <3>6, ChildrenAreAppended
    <3>8. f[c] = PathFrom(p, n + 1)
      BY <1>1, <3>4, <3>5, <3>7
    <3>9. \A i \in 1..Degree(T, q) : f[Append(q, i)] # <<>> <=> i = k
      <4>1. f[c] # <<>>
        <5>1. 1 \in DOMAIN f[c]
          <6>1. 1 \in 1..(Len(p) + 1 - (n + 1))
            BY <1>p, <2>1, <3>2
          <6> QED BY <3>8, <6>1 DEF PathFrom
        <5> QED BY <5>1
      <4>2. ASSUME NEW i \in 1..Degree(T, q), i # k PROVE f[Append(q, i)] = <<>>
        <5> DEFINE d == Append(q, i)
        <5>1. i \in Nat /\ k \in Nat
          BY <2>1
        <5>2. d \in Seq(Nat) /\ Len(d) = n + 1 /\ d[n + 1] = i
          BY <2>1, <5>1, AppendProperties
        <5>3. c[n + 1] = k
          BY <2>1, <3>7, <5>1, AppendProperties
        <5> HIDE DEF d
        <5>4. DOMAIN d = 1..(n + 1) /\ n + 1 \in 1..(n + 1)
          BY <2>1, <5>2, LenProperties
        <5>5. ~ IsPrefixOf(d, p)
          <6>1. p[n + 1] = k
            BY <3>4, <5>3, <5>4
          <6> QED BY <4>2, <5>2, <5>4, <6>1 DEF IsPrefixOf
        <5> QED BY <1>1, <5>5 DEF d
      <4> QED BY <3>7, <4>1, <4>2
    <3>10. hits = {k} /\ Min(hits) = k
      <4>1. hits = {k}
        BY <3>9
      <4>2. k \in Nat
        BY <2>1
      <4>3. Min({k}) = k
        BY <4>2 DEF Min
      <4> QED BY <4>1, <4>3
    <3>11. f[q] = <<q>> \o PathFrom(p, n + 1)
      <4>1. ids[q] # ids[p]
        BY <2>4
      <4> HIDE DEF hits
      <4> QED BY <2>2, <3>7, <3>8, <3>10, <4>1
    <3>12. <<q>> \o PathFrom(p, n + 1) = PathFrom(p, n)
      <4> DEFINE m == Len(p) + 1 - n
                 s == PathFrom(p, n + 1)
                 t == PathFrom(p, n)
                 A == Seq(Nat)
      <4>1. m \in Nat /\ m - 1 \in Nat /\ Len(p) + 1 - (n + 1) = m - 1
        BY <1>p, <2>1, <3>1
      <4>2. \A i \in 1..m : n + i - 1 \in 0..Len(p)
        BY <1>p, <2>1, <3>1
      <4>3. t = [i \in 1..m |-> SubSeq(p, 1, n + i - 1)] /\ \A i \in 1..m : t[i] \in A
        BY <1>p, <4>2, PathUpTo DEF PathFrom
      <4>4. s = [i \in 1..(m - 1) |-> SubSeq(p, 1, n + 1 + i - 1)]
        BY <4>1 DEF PathFrom
      <4>5. ASSUME NEW i \in 1..(m - 1) PROVE s[i] = t[i + 1] /\ s[i] \in A
        <5>1. i + 1 \in 1..m /\ n + 1 + i - 1 = n + (i + 1) - 1
          BY <2>1, <4>1
        <5>2. s[i] = SubSeq(p, 1, n + 1 + i - 1)
          BY <4>4
        <5>3. t[i + 1] = SubSeq(p, 1, n + (i + 1) - 1) /\ t[i + 1] \in A
          BY <4>3, <5>1
        <5> HIDE DEF s, t, m
        <5> QED BY <5>1, <5>2, <5>3
      <4>6. t[1] = q
        <5>1. SubSeq(p, 1, n) \in Seq(Nat) /\ Len(SubSeq(p, 1, n)) = n
              /\ \A i \in 1..n : SubSeq(p, 1, n)[i] = p[i]
          BY <1>p, <2>1, <3>1, PathUpTo
        <5>2. SubSeq(p, 1, n) = q
          BY <2>1, <3>1, <5>1, SeqEqual
        <5>3. 1 \in 1..m /\ n + 1 - 1 = n
          BY <2>1, <4>1
        <5> HIDE DEF t, m
        <5> QED BY <4>3, <5>2, <5>3
      <4> HIDE DEF s, t, m, A
      <4>7. s \in Seq(A) /\ Len(s) = m - 1 /\ t \in Seq(A) /\ Len(t) = m
        <5>1. s \in [1..(m - 1) -> A] /\ t \in [1..m -> A]
          BY <4>3, <4>4, <4>5
        <5> QED BY <4>1, <5>1, SeqDef, LenProperties
      <4>8. <<q>> \in Seq(A) /\ Len(<<q>>) = 1 /\ <<q>>[1] = q
        BY <2>1 DEF A
      <4>9. /\ <<q>> \o s \in Seq(A) /\ Len(<<q>> \o s) = 1 + (m - 1)
            /\ \A i \in 1..(1 + (m - 1)) : (<<q>> \o s)[i] = IF i <= 1 THEN <<q>>[i] ELSE s[i - 1]
        BY <4>7, <4>8, ConcatProperties
      <4>10. ASSUME NEW i \in 1..m PROVE (<<q>> \o s)[i] = t[i]
        <5>1. i \in 1..(1 + (m - 1))
          BY <4>1
        <5>2. CASE i = 1
          BY <4>6, <4>8, <4>9, <5>1, <5>2
        <5>3. CASE i # 1
          <6>1. i - 1 \in 1..(m - 1) /\ (i - 1) + 1 = i /\ ~ (i <= 1)
            BY <4>1, <5>3
          <6>2. s[i - 1] = t[(i - 1) + 1]
            BY <4>5, <6>1
          <6>3. (<<q>> \o s)[i] = s[i - 1]
            BY <4>9, <5>1, <6>1
          <6> QED BY <6>1, <6>2, <6>3
        <5> QED BY <5>2, <5>3
      <4>11. Len(<<q>> \o s) = Len(t) /\ Len(<<q>> \o s) = m
        BY <4>1, <4>7, <4>9
      <4>12. <<q>> \o s = t
        BY <4>7, <4>9, <4>10, <4>11, SeqEqual
      <4> QED BY <4>12 DEF s, t
    <3> QED BY <3>11, <3>12
  <2>5. ASSUME ~ IsPrefixOf(q, p) PROVE f[q] = <<>>
    <3>1. q # p
      BY <1>p, <2>5 DEF IsPrefixOf
    <3>2. ASSUME NEW i \in 1..Degree(T, q) PROVE f[Append(q, i)] = <<>>
      <4> DEFINE d == Append(q, i)
      <4>1. i \in Nat
        BY <2>1
      <4>2. d \in Seq(Nat) /\ Len(d) = n + 1 /\ \A j \in 1..n : d[j] = q[j]
        BY <2>1, <4>1, AppendProperties
      <4> HIDE DEF d
      <4>3. DOMAIN d = 1..(n + 1) /\ \A j \in 1..n : j \in 1..(n + 1)
        BY <2>1, <4>2, LenProperties
      <4>4. ~ IsPrefixOf(d, p)
        <5> SUFFICES ASSUME IsPrefixOf(d, p) PROVE FALSE
          OBVIOUS
        <5>1. n + 1 <= Len(p) /\ \A j \in 1..(n + 1) : d[j] = p[j]
          BY <4>2, <4>3 DEF IsPrefixOf
        <5>2. n <= Len(p)
          BY <1>p, <2>1, <5>1
        <5>3. \A j \in 1..n : q[j] = p[j]
          BY <4>2, <4>3, <5>1
        <5> QED BY <2>1, <2>5, <5>2, <5>3 DEF IsPrefixOf
      <4> QED BY <1>1, <4>4 DEF d
    <3>3. hits = {}
      BY <3>2
    <3> QED BY <2>2, <3>1, <3>3
  <2> QED BY <2>3, <2>4, <2>5
<1>2. \A q \in DOMAIN T : (\A i \in 1..Degree(T, q) : Append(q, i) \in S) => q \in S
  BY <1>1
<1>3. \A q \in DOMAIN T : q \in S
  <2> HIDE DEF S
  <2> QED BY <1>2, TreeInduction
<1> QED BY <1>3

-----------------------------------------------------------------------------
(* The shopping list *)

\* f[q] is the deepest level reached at or below q, for every q.
Measures(T, f) ==
  f = [q \in DOMAIN T |-> Max({Len(q)} \cup {f[Append(q, i)] : i \in 1..Degree(T, q)})]

LEMMA MeasureUnfolds ==
  ASSUME NEW T, IsTree(T)
  PROVE  /\ \A p \in DOMAIN T : Measure(T, p) \in Nat
         /\ \A p \in DOMAIN T : ChildPaths(T, p) = {} => Measure(T, p) = Len(p)
<1> DEFINE A == DOMAIN T
           levels(q, kids) == {Len(q)} \cup {kids[i] : i \in 1..Degree(T, q)}
           step == [x \in A \X Seq(Nat) |-> Max(levels(x[1], x[2]))]
<1>1. ASSUME NEW q \in A, NEW kids \in [1..Degree(T, q) -> Nat]
      PROVE  step[<<q, kids>>] = Max(levels(q, kids)) /\ step[<<q, kids>>] \in Nat
  <2> DEFINE n == Degree(T, q)
             K == {kids[i] : i \in 1..n}
  <2>1. n \in Nat /\ Len(q) \in Nat /\ IsFiniteSet(1..n)
    <3>1. n \in Nat
      BY ChildrenAreAppended
    <3>2. Len(q) \in Nat
      BY LenProperties DEF IsTree
    <3> HIDE DEF n
    <3> QED BY <3>1, <3>2, FS_Interval
  <2>2. kids \in Seq(Nat)
    BY <2>1, SeqDef
  <2>3. IsFiniteSet(K) /\ K \subseteq Nat
    <3>1. kids = [i \in 1..n |-> kids[i]]
      OBVIOUS
    <3>2. K \subseteq Nat
      OBVIOUS
    <3> HIDE DEF n
    <3> QED BY <2>1, <3>1, <3>2, FiniteImage
  <2>4. levels(q, kids) = K \cup {Len(q)}
    OBVIOUS
  <2> HIDE DEF K
  <2>5. /\ levels(q, kids) \in SUBSET Nat /\ IsFiniteSet(levels(q, kids))
        /\ levels(q, kids) # {}
    BY <2>1, <2>3, <2>4, FS_AddElement
  <2>6. step[<<q, kids>>] = Max(levels(q, kids))
    <3> HIDE DEF levels
    <3> QED BY <2>2
  <2> HIDE DEF levels
  <2>7. Max(levels(q, kids)) \in Nat
    BY <2>5, MaxIsLargest
  <2> QED BY <2>6, <2>7
<1>2. Nat # {}
  OBVIOUS
<1> HIDE DEF step
<1>3. IsStep(T, Nat, step)
  BY <1>1 DEF IsStep
<1>4. PICK f \in [DOMAIN T -> Nat] : Follows(T, step, f)
  BY <1>2, <1>3, TreeRecursion
<1>5. Measures(T, f)
  <2>1. ASSUME NEW q \in DOMAIN T
        PROVE  f[q] = Max({Len(q)} \cup {f[Append(q, i)] : i \in 1..Degree(T, q)})
    <3>1. OfChildren(T, f, q) \in [1..Degree(T, q) -> Nat]
      BY ChildIsNode DEF OfChildren
    <3>2. f[q] = Max(levels(q, OfChildren(T, f, q)))
      BY <1>1, <1>4, <3>1 DEF Follows
    <3>3. {OfChildren(T, f, q)[i] : i \in 1..Degree(T, q)} = {f[Append(q, i)] : i \in 1..Degree(T, q)}
      BY DEF OfChildren
    <3> QED BY <3>2, <3>3
  <2> QED BY <2>1 DEF Measures
<1> DEFINE measure == CHOOSE g : Measures(T, g)
<1>6. Measures(T, measure)
  BY <1>5
<1>7. \A p : Measure(T, p) = measure[p]
  BY DEF Measure, Measures
<1> HIDE DEF measure
<1>8. \A q \in DOMAIN T : measure[q] = f[q]
  <2> DEFINE S == {q \in DOMAIN T : measure[q] = f[q]}
  <2>1. ASSUME NEW q \in DOMAIN T, \A i \in 1..Degree(T, q) : Append(q, i) \in S PROVE q \in S
    <3>1. {measure[Append(q, i)] : i \in 1..Degree(T, q)} = {f[Append(q, i)] : i \in 1..Degree(T, q)}
      BY <2>1
    <3>2. measure[q] = Max({Len(q)} \cup {measure[Append(q, i)] : i \in 1..Degree(T, q)})
      BY <1>6 DEF Measures
    <3>3. f[q] = Max({Len(q)} \cup {f[Append(q, i)] : i \in 1..Degree(T, q)})
      BY <1>5 DEF Measures
    <3> QED BY <3>1, <3>2, <3>3
  <2>2. \A q \in DOMAIN T : q \in S
    <3> HIDE DEF S
    <3> QED BY <2>1, TreeInduction
  <2> QED BY <2>2
<1>9. ASSUME NEW p \in DOMAIN T, ChildPaths(T, p) = {} PROVE Measure(T, p) = Len(p)
  <2>1. Degree(T, p) = 0
    BY <1>9, FS_EmptySet DEF Degree
  <2>2. 1..Degree(T, p) = {}
    BY <2>1
  <2>3. {measure[Append(p, i)] : i \in 1..Degree(T, p)} = {}
    BY <2>2
  <2>4. measure[p] = Max({Len(p)})
    BY <1>6, <2>3 DEF Measures
  <2>5. Len(p) \in Nat
    BY LenProperties DEF IsTree
  <2>6. Max({Len(p)}) = Len(p)
    BY <2>5 DEF Max
  <2> QED BY <1>7, <2>4, <2>6
<1> QED BY <1>7, <1>8, <1>9

\* The keys of the sort order the nodes of a tree.
LEMMA KeysOrder ==
  ASSUME NEW S, NEW m \in [S -> Int], NEW item \in [S -> Int], NEW id \in [S -> Int],
         \A p, q \in S : id[p] = id[q] => p = q, NEW R,
         \A p, q \in S : <<p, q>> \in R <=>
           \/ m[p] > m[q]
           \/ /\ m[p] = m[q]
              /\ \/ item[p] < item[q]
                 \/ item[p] = item[q] /\ id[p] < id[q]
  PROVE  Orders(R, S)
<1>1. ASSUME NEW x \in S, NEW y \in S, <<x, y>> \in R PROVE <<y, x>> \notin R
  BY <1>1
<1>2. ASSUME NEW x \in S, NEW y \in S, NEW z \in S, <<x, y>> \in R, <<y, z>> \in R PROVE <<x, z>> \in R
  <2>1. /\ m[x] \in Int /\ m[y] \in Int /\ m[z] \in Int /\ item[x] \in Int /\ item[y] \in Int
        /\ item[z] \in Int /\ id[x] \in Int /\ id[y] \in Int /\ id[z] \in Int
    OBVIOUS
  <2> QED BY <1>2, <2>1
<1>3. ASSUME NEW x \in S, NEW y \in S, x # y PROVE <<x, y>> \in R \/ <<y, x>> \in R
  <2>1. id[x] # id[y]
    BY <1>3
  <2>2. /\ m[x] \in Int /\ m[y] \in Int /\ item[x] \in Int /\ item[y] \in Int
        /\ id[x] \in Int /\ id[y] \in Int
    OBVIOUS
  <2> QED BY <2>1, <2>2
<1> QED BY <1>1, <1>2, <1>3 DEF Orders

-----------------------------------------------------------------------------
(* The walks agree *)

LEMMA TypedNumberingsAgree ==
  ASSUME TypeOK
  PROVE  NumberingsAgree
<1> DEFINE ids == AssignNodeIds(tree)
<1>1. IsTree(tree)
  BY DEF TypeOK
<1>2. /\ ids = [p \in DOMAIN tree |-> NodeId(tree, p)]
      /\ StoredTreeNodeIds(tree) = {NodeId(tree, p) : p \in DOMAIN tree}
      /\ \A p, q \in DOMAIN tree : NodeId(tree, p) = NodeId(tree, q) => p = q
  BY <1>1, WalkNumbers
<1> HIDE DEF ids
<1>3. StoredTreeNodeIds(tree) = {ids[p] : p \in DOMAIN tree}
  BY <1>2
<1>4. ASSUME NEW p \in DOMAIN tree
      PROVE  /\ ids[p] = NodeId(tree, p)
             /\ NodeAt(tree, ids[p]) = p
             /\ ChainTo(tree, ids, Root, ids[p]) = [k \in 1..(Len(p) + 1) |-> SubSeq(p, 1, k - 1)]
  <2>1. ids[p] = NodeId(tree, p)
    BY <1>2
  <2>2. NodeAt(tree, ids[p]) = p
    BY <1>2, <2>1 DEF NodeAt
  <2>3. PICK f : Searches(tree, ids, ids[p], f) /\ \A q : ChainTo(tree, ids, q, ids[p]) = f[q]
    BY <1>1, SearchUnfolds
  <2>4. \A a, b \in DOMAIN tree : ids[a] = ids[b] => a = b
    BY <1>2
  <2>5. Root \in DOMAIN tree /\ Len(p) \in Nat /\ Len(Root) = 0
    BY <1>1, LenProperties DEF IsTree, Root
  <2>6. IsPrefixOf(Root, p)
    BY <2>5 DEF IsPrefixOf, Root
  <2>7. \A q \in DOMAIN tree : f[q] = IF IsPrefixOf(q, p) THEN PathFrom(p, Len(q)) ELSE <<>>
    BY <1>1, <2>3, <2>4, SearchFindsTheChain
  <2>8. f[Root] = PathFrom(p, 0)
    BY <2>5, <2>6, <2>7
  <2>9. PathFrom(p, 0) = [k \in 1..(Len(p) + 1) |-> SubSeq(p, 1, k - 1)]
    <3>1. Len(p) + 1 - 0 = Len(p) + 1 /\ \A k \in 1..(Len(p) + 1) : 0 + k - 1 = k - 1
      BY <2>5
    <3> QED BY <3>1 DEF PathFrom
  <2> QED BY <2>1, <2>2, <2>3, <2>8, <2>9
<1> QED BY <1>3, <1>4 DEF NumberingsAgree, ids

LEMMA TypedLeavesFirst ==
  ASSUME TypeOK
  PROVE  DeepestLeavesFirst
<1> DEFINE S == Outstanding(tree, amounts, amounts)
           m == [p \in S |-> Measure(tree, p)]
           item == [p \in S |-> tree[p].item]
           id == [p \in S |-> NodeId(tree, p)]
           before(p, q) == \/ Measure(tree, p) > Measure(tree, q)
                           \/ /\ Measure(tree, p) = Measure(tree, q)
                              /\ \/ tree[p].item < tree[q].item
                                 \/ tree[p].item = tree[q].item /\ NodeId(tree, p) < NodeId(tree, q)
           R == {x \in S \X S : before(x[1], x[2])}
           list == FlattenRequirements(tree, amounts, amounts)
<1>1. IsTree(tree) /\ tree \in [DOMAIN tree -> [item : Nat, qty : Nat \ {0}]]
  BY DEF TypeOK
<1>2. S \subseteq DOMAIN tree /\ IsFiniteSet(S)
  <2>1. S \subseteq DOMAIN tree
    BY DEF Outstanding
  <2> HIDE DEF S
  <2> QED BY <1>1, <2>1, FS_Subset DEF IsTree
<1>3. list = [i \in 1..Cardinality(S) |->
                CHOOSE p \in S : Cardinality({q \in S : before(q, p)}) = i - 1]
  BY DEF FlattenRequirements
<1> HIDE DEF S, list
<1>4. \A p, q \in S : <<p, q>> \in R <=> before(p, q)
  OBVIOUS
<1>5. \A p \in S : {q \in S : before(q, p)} = {q \in S : <<q, p>> \in R}
  <2> HIDE DEF before
  <2> QED BY <1>4
<1>6. Orders(R, S)
  <2>1. m \in [S -> Int] /\ item \in [S -> Int] /\ id \in [S -> Int]
    <3>1. \A p \in S : Measure(tree, p) \in Int
      BY <1>1, <1>2, MeasureUnfolds
    <3>2. \A p \in S : tree[p].item \in Int
      BY <1>1, <1>2
    <3>3. \A p \in S : NodeId(tree, p) \in Int
      <4>1. ASSUME NEW p \in S PROVE NodeId(tree, p) \in Nat
        <5>1. {q \in DOMAIN tree : Before(q, p)} \in SUBSET DOMAIN tree
          OBVIOUS
        <5> QED BY <1>1, <5>1, FS_Subset, FS_CardinalityType DEF NodeId, IsTree
      <4> QED BY <4>1
    <3> QED BY <3>1, <3>2, <3>3
  <2>2. \A p, q \in S : id[p] = id[q] => p = q
    BY <1>1, <1>2, WalkNumbers
  <2>3. \A p, q \in S : before(p, q) <=>
           \/ m[p] > m[q]
           \/ /\ m[p] = m[q]
              /\ \/ item[p] < item[q]
                 \/ item[p] = item[q] /\ id[p] < id[q]
    OBVIOUS
  <2> HIDE DEF m, item, id, R, before
  <2> QED BY <1>4, <2>1, <2>2, <2>3, KeysOrder
<1> HIDE DEF R
<1>7. PutsByRank(S, R, list)
  <2> HIDE DEF before
  <2>1. ASSUME NEW i \in 1..Cardinality(S), NEW x \in S, RankIn(R, S, x) = i - 1
        PROVE  list[i] \in S /\ RankIn(R, S, list[i]) = i - 1
    <3>1. list[i] = CHOOSE p \in S : Cardinality({q \in S : before(q, p)}) = i - 1
      BY <1>3
    <3>2. Cardinality({q \in S : before(q, x)}) = i - 1
      BY <1>5, <2>1 DEF RankIn
    <3>3. list[i] \in S /\ Cardinality({q \in S : before(q, list[i])}) = i - 1
      BY <3>1, <3>2
    <3> QED BY <1>5, <3>3 DEF RankIn
  <2>2. list = [i \in 1..Cardinality(S) |-> list[i]]
    <3> DEFINE e(i) == CHOOSE p \in S : Cardinality({q \in S : before(q, p)}) = i - 1
               g == [i \in 1..Cardinality(S) |-> e(i)]
    <3>1. list = g
      BY <1>3
    <3> HIDE DEF e
    <3>2. g = [i \in 1..Cardinality(S) |-> g[i]]
      OBVIOUS
    <3> HIDE DEF g
    <3> QED BY <3>1, <3>2
  <2> QED BY <2>1, <2>2 DEF PutsByRank
<1>8. /\ list \in Seq(S) /\ Len(list) = Cardinality(S)
      /\ {list[i] : i \in DOMAIN list} = S
      /\ \A i, k \in 1..Len(list) : <<list[i], list[k]>> \in R <=> i < k
  <2> HIDE DEF before
  <2> QED BY <1>2, <1>6, <1>7, ArrangedByRank
<1>9. DOMAIN list = 1..Len(list) /\ \A i \in 1..Len(list) : list[i] \in S
  BY <1>8, LenProperties, ElementOfSeq
<1>10. ASSUME NEW i \in DOMAIN list, NEW k \in DOMAIN list, i < k,
              ChildPaths(tree, list[i]) = {}, ChildPaths(tree, list[k]) = {}
       PROVE  Len(list[i]) >= Len(list[k])
  <2>1. list[i] \in S /\ list[k] \in S /\ <<list[i], list[k]>> \in R
    BY <1>8, <1>9, <1>10
  <2>2. before(list[i], list[k])
    BY <1>4, <2>1
  <2>3. /\ Measure(tree, list[i]) = Len(list[i]) /\ Measure(tree, list[k]) = Len(list[k])
        /\ Measure(tree, list[i]) \in Nat /\ Measure(tree, list[k]) \in Nat
    BY <1>1, <1>2, <1>10, <2>1, MeasureUnfolds
  <2> QED BY <2>2, <2>3
<1>11. ToSet(list) = S
  BY <1>8 DEF ToSet
<1> HIDE DEF before
<1> QED BY <1>8, <1>10, <1>11 DEF DeepestLeavesFirst, list, S

(***************************************************************************)
(* On every tree a quest can have, the two counters and the search for a   *)
(* chain are one numbering, and the shopping list has each outstanding     *)
(* node once, of the leaves the deepest first.                             *)
(***************************************************************************)
THEOREM WalksAlwaysAgree == Spec => []WalksAgree
<1>1. TypeOK => WalksAgree
  BY TypedNumberingsAgree, TypedLeavesFirst DEF WalksAgree
<1> QED BY <1>1, TypeCorrect, PTL
===============================================================================
