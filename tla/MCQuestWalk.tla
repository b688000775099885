----------------------------- MODULE MCQuestWalk -----------------------------
(***************************************************************************)
(* Small instances of QuestWalk: trees of up to three nodes (chains, forks *)
(* and both mixed), then re-expanded with recipes that overlap with them.  *)
(***************************************************************************)
EXTENDS QuestWalk

MCItems == {2}

MCQtys == {2, 3}

\* Two parts that no tree has at first, one before and one behind its items in the order
\* of names, and one that it may have.
MCRecipes ==
  {[item |-> 2, yield |-> 1, parts |-> <<[item |-> 1, qty |-> 1], [item |-> 3, qty |-> 1]>>],
   [item |-> 2, yield |-> 3, parts |-> <<[item |-> 2, qty |-> 1]>>]}
=============================================================================
