------------------------------ MODULE QuestWalk ------------------------------
(***************************************************************************)
(* The recursive walks of core/quests.py and core/questdb.py, as written:  *)
(* a counter handed out in pre-order, a depth-first search for the chain   *)
(* of a node, and the depth measure of the shopping list.  They are        *)
(* compared with the closed definitions of QuestTree on every tree that    *)
(* QuestGrowth reaches.                                                    *)
(***************************************************************************)
EXTENDS QuestGrowth, SequencesExt

-----------------------------------------------------------------------------
(* The walks *)

\* Mutant: a node takes its number after its children.
WalkPostOrder(T, p) ==
  LET walk[q \in DOMAIN T] ==
        FlattenSeq([i \in 1..Degree(T, q) |-> walk[Append(q, i)]]) \o <<q>>
  IN  walk[p]

\* The nodes at and below p in the order in which assign_node_ids meets them.
Walk(T, p) ==
  LET walk[q \in DOMAIN T] ==
        <<q>> \o FlattenSeq([i \in 1..Degree(T, q) |-> walk[Append(q, i)]])
  IN  walk[p]

AssignNodeIds(T) ==
  LET order == Walk(T, Root)
  IN  [p \in DOMAIN T |-> (CHOOSE i \in DOMAIN order : order[i] = p) - 1]

\* How many ids the walk under p takes from the counter.
IdsUsed(T, p) ==
  LET used[q \in DOMAIN T] ==
        1 + SumFunctionOnSet([i \in 1..Degree(T, q) |-> used[Append(q, i)]], 1..Degree(T, q))
  IN  used[p]

StoredTreeNodeIds(T) == 0..(IdsUsed(T, Root) - 1)

\* The path stack when the walk under p has found the node, <<>> if it is not there.
ChainTo(T, ids, p, target) ==
  LET walk[q \in DOMAIN T] ==
        IF ids[q] = target
          THEN <<q>>
          ELSE LET found == {i \in 1..Degree(T, q) : walk[Append(q, i)] # <<>>}
               IN  IF found = {} THEN <<>> ELSE <<q>> \o walk[Append(q, Min(found))]
  IN  walk[p]

\* The deepest level reached at or below p.
Measure(T, p) ==
  LET measure[q \in DOMAIN T] ==
        Max({Len(q)} \cup {measure[Append(q, i)] : i \in 1..Degree(T, q)})
  IN  measure[p]

\* The nodes with something outstanding, largest measure first, then by name, each at the
\* place that the number of those before it gives it.
FlattenRequirements(T, pledged, turned) ==
  LET remaining == Outstanding(T, pledged, turned)
      before(p, q) ==
        \/ Measure(T, p) > Measure(T, q)
        \/ /\ Measure(T, p) = Measure(T, q)
           /\ \/ T[p].item < T[q].item
              \/ T[p].item = T[q].item /\ NodeId(T, p) < NodeId(T, q)
      rank(p) == Cardinality({q \in remaining : before(q, p)})
  IN  [i \in 1..Cardinality(remaining) |-> CHOOSE p \in remaining : rank(p) = i - 1]

-----------------------------------------------------------------------------
(* Properties *)

\* The counter, the ids accepted for pledges and the search for a chain are one numbering.
NumberingsAgree ==
  LET ids == AssignNodeIds(tree)
  IN  /\ StoredTreeNodeIds(tree) = {ids[p] : p \in DOMAIN tree}
      /\ \A p \in DOMAIN tree :
           /\ ids[p] = NodeId(tree, p)
           /\ NodeAt(tree, ids[p]) = p
           /\ ChainTo(tree, ids, Root, ids[p]) =
                [k \in 1..(Len(p) + 1) |-> SubSeq(p, 1, k - 1)]

\* The list has every outstanding node once, and of the nodes without parts the deepest
\* first.  A node that has parts ties with its deepest one, so nothing is said of those.
DeepestLeavesFirst ==
  LET list == FlattenRequirements(tree, amounts, amounts)
      leaf(p) == ChildPaths(tree, p) = {}
  IN  /\ Len(list) = Cardinality(Outstanding(tree, amounts, amounts))
      /\ ToSet(list) = Outstanding(tree, amounts, amounts)
      /\ \A i, j \in DOMAIN list :
           i < j /\ leaf(list[i]) /\ leaf(list[j]) => Len(list[i]) >= Len(list[j])

(***************************************************************************)
(* What the recursive walks compute, on every tree.  Three pieces of code  *)
(* number the nodes of a quest: assign_node_ids on the rebuilt tree,       *)
(* _stored_tree_node_ids on the stored one (it decides which pledges are   *)
(* accepted), and the chain search that looks an id up; they agree with    *)
(* each other and with document order.  flatten_requirements measures      *)
(* depths; of its "leaf-first shopping list: nodes with outstanding > 0,   *)
(* deepest first" it keeps what is said of leaves.                         *)
(***************************************************************************)
WalksAgree == NumberingsAgree /\ DeepestLeavesFirst
=============================================================================
