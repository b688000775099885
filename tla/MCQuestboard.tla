----------------------------- MODULE MCQuestboard -----------------------------
(***************************************************************************)
(* Instances of Questboard.  The item "bun" is resolved by the wiki; one   *)
(* batch makes two, of two flours and one egg.  After an edit of the page  *)
(* the same batch takes salt.                                              *)
(***************************************************************************)
EXTENDS Questboard

MCItems == {"bun", "flour", "egg", "salt"}

Part(item, qty) == [item |-> item, qty |-> qty]

Bun == [item |-> "bun", yield |-> 2, parts |-> <<Part("flour", 2), Part("egg", 1)>>]

SaltBun == [item |-> "bun", yield |-> 1, parts |-> <<Part("salt", 1)>>]

FlourBun == [item |-> "bun", yield |-> 2, parts |-> <<Part("flour", 2)>>]

OneRecipe == {FlourBun}

TwoRecipes == {Bun, SaltBun}

NoManual == {<<>>}

SaltByHand == {<<Part("salt", 1)>>}
=============================================================================
