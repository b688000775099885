--------------------------- MODULE QuestboardProofs ---------------------------
(***************************************************************************)
(* What is proved of Questboard for every set of workers, people, quests,  *)
(* pledges and recipes, with handlers that interleave and die anywhere:    *)
(* its types and its event log, that rows keep their pledge, that a        *)
(* complete quest is watched, that rows and log agree on every pledge      *)
(* whose turn-ins do not overlap, and that QuestLedger is implemented.     *)
(* Only that pledges stay on their node is proved for one process, or for  *)
(* several with one recipe: with both it is false.                         *)
(***************************************************************************)
EXTENDS Questboard, DataProofs

-----------------------------------------------------------------------------
(* The trees the handlers create and re-expand are finite *)

\* An element of a sequence over S is in S.
LEMMA SeqElement ==
  ASSUME NEW S, NEW s \in Seq(S), NEW i \in 1..Len(s)
  PROVE  s[i] \in S
OBVIOUS

\* The tree create_quest stores, a root and its direct children, is finite.
LEMMA FlatTreeIsFinite ==
  ASSUME NEW root, NEW S, NEW kids \in Seq(S)
  PROVE  IsFiniteSet(DOMAIN FlatTree(root, kids))
<1> DEFINE path == [i \in DOMAIN kids |-> <<i>>]
<1>1. IsFiniteSet(DOMAIN kids)
  BY FS_Interval
<1>2. IsFiniteSet({path[i] : i \in DOMAIN kids})
  <2>1. path = [i \in DOMAIN kids |-> path[i]]
    OBVIOUS
  <2> HIDE DEF path
  <2> QED BY <1>1, <2>1, FiniteImage
<1>3. {path[i] : i \in DOMAIN kids} = {<<i>> : i \in DOMAIN kids}
  OBVIOUS
<1>4. IsFiniteSet({Root} \cup {<<i>> : i \in DOMAIN kids})
  BY <1>2, <1>3, FS_Singleton, FS_Union
<1> QED BY <1>4 DEF FlatTree

\* update_quest_tree adds finitely many nodes to a finite tree.
LEMMA MergeIsFinite ==
  ASSUME NEW T, IsFiniteSet(DOMAIN T), NEW recipe \in Recipes
  PROVE  IsFiniteSet(DOMAIN MergeRecipe(T, recipe))
<1> DEFINE fresh == FreshParts(T, recipe)
           path == [i \in fresh |-> GraftPath(T, recipe, i)]
<1>1. IsFiniteSet(DOMAIN recipe.parts)
  <2>1. recipe.parts \in Seq([item : Items, qty : Nat])
    BY QuestboardConstants
  <2> QED BY <2>1, FS_Interval
<1>2. IsFiniteSet(fresh)
  BY <1>1, FS_Subset DEF FreshParts
<1>3. IsFiniteSet({path[i] : i \in fresh})
  <2>1. path = [i \in fresh |-> path[i]]
    OBVIOUS
  <2> HIDE DEF path, fresh
  <2> QED BY <1>2, <2>1, FiniteImage
<1>4. {path[i] : i \in fresh} = {GraftPath(T, recipe, i) : i \in fresh}
  OBVIOUS
<1>5. IsFiniteSet({GraftPath(T, recipe, i) : i \in fresh})
  BY <1>3, <1>4
<1>6. DOMAIN MergeRecipe(T, recipe) = DOMAIN T \cup {GraftPath(T, recipe, i) : i \in fresh}
  BY DEF MergeRecipe
<1> DEFINE added == {GraftPath(T, recipe, i) : i \in fresh}
<1> HIDE DEF added
<1>7. IsFiniteSet(DOMAIN T \cup added)
  BY <1>5, FS_Union DEF added
<1> QED BY <1>6, <1>7 DEF added

-----------------------------------------------------------------------------
(* Type correctness *)

\* What TypeOK says of the tasks, when handler w goes on to remember t.
LEMMA ContinueType ==
  ASSUME TypeOK, NEW w \in Workers, NEW t, TaskOK(t), Continue(w, t),
         \A q \in Quests : Exists(q) => Exists(q)',
         Unused' \subseteq Unused,
         RefersOK(t)'
  PROVE  /\ DOMAIN task' = Workers
         /\ \A v \in Workers : TaskOK(task'[v])
         /\ (\A v \in Workers : RefersOK(task[v]))'
<1>1. DOMAIN task' = Workers
  BY DEF Continue, TypeOK
<1>2. ASSUME NEW v \in Workers PROVE task'[v] = IF v = w THEN t ELSE task[v]
  BY DEF Continue, TypeOK
<1>3. ASSUME NEW v \in Workers PROVE TaskOK(task'[v])
  BY <1>2 DEF TypeOK
<1>4. ASSUME NEW v \in Workers PROVE RefersOK(task[v])'
  <2>1. CASE v = w
    BY <1>2, <2>1 DEF RefersOK
  <2>2. CASE v # w
    <3>1. task'[v] = task[v] /\ TaskOK(task[v]) /\ RefersOK(task[v])
      BY <1>2, <2>2 DEF TypeOK
    <3>2. task[v].kind \in {"pledge", "check", "amounts", "fulfil", "status", "merge"}
            => task[v].quest \in Quests
      BY <3>1 DEF TaskOK, Idle
    <3> QED BY <3>1, <3>2 DEF RefersOK
  <2> QED BY <2>1, <2>2
<1> QED BY <1>1, <1>3, <1>4

\* A step that reads the database and only remembers what it read.
LEMMA ReadType ==
  ASSUME TypeOK, NEW w \in Workers, NEW t, TaskOK(t), RefersOK(t), Continue(w, t),
         UNCHANGED <<status, statusBy, tree, pledges, ledger>>,
         orphaned' = orphaned \/ orphaned' \subseteq Quests
  PROVE  TypeOK'
<1>1. RefersOK(t)' /\ Unused' = Unused /\ \A q \in Quests : Exists(q)' = Exists(q)
  BY DEF RefersOK, Unused, Exists
<1>2. /\ DOMAIN task' = Workers
      /\ \A v \in Workers : TaskOK(task'[v])
      /\ (\A v \in Workers : RefersOK(task[v]))'
  BY <1>1, ContinueType
<1>3. (\A p \in PledgeIds \ Unused : Exists(pledges[p].quest))'
  BY DEF TypeOK, Unused, Exists
<1> QED BY <1>2, <1>3 DEF TypeOK

\* What a handler remembers is known from the step it is at.
LEMMA TaskByKind ==
  ASSUME NEW t, TaskOK(t)
  PROVE  /\ t.kind = "pledge" =>
              t.quest \in Quests /\ t.node \in Nat /\ t.who \in People /\ t.qty \in Nat \ {0}
         /\ t.kind = "withdraw" => t.pledge \in PledgeIds
         /\ t.kind = "turnin" =>
              t.pledge \in PledgeIds /\ t.turned \in Nat /\ t.amount \in Nat \ {0}
         /\ t.kind \in {"check", "amounts", "fulfil"} => t.quest \in Quests
         /\ t.kind = "status" =>
              /\ t.quest \in Quests
              /\ t.from \in Statuses
              /\ t.to \in Statuses
              /\ t.by \in {"board", "officer"}
         /\ t.kind = "merge" => t.quest \in Quests /\ IsFiniteSet(DOMAIN t.tree)
BY DEF TaskOK, Idle

\* The empty database has the type.
LEMMA InitType == Init => TypeOK
<1> SUFFICES ASSUME Init PROVE TypeOK
  OBVIOUS
<1>1. \A q \in Quests : IsFiniteSet(DOMAIN tree[q])
  <2>1. DOMAIN NoTree = {}
    BY DEF NoTree
  <2> QED BY <2>1, FS_EmptySet DEF Init
<1>2. \A w \in Workers : TaskOK(task[w])
  BY DEF Init, TaskOK
<1>3. /\ status \in [Quests -> Statuses \cup {"absent"}]
      /\ statusBy \in [Quests -> {"nobody", "board", "officer"}]
      /\ DOMAIN tree = Quests
      /\ pledges \in [PledgeIds -> Row \cup {NoPledge}]
      /\ ledger \in [PledgeIds -> Nat]
      /\ DOMAIN task = Workers
      /\ orphaned = {}
  BY DEF Init
<1>4. /\ Unused = PledgeIds
      /\ \A w \in Workers : RefersOK(task[w])
  BY DEF Init, Unused, RefersOK, Idle
<1> QED BY <1>1, <1>2, <1>3, <1>4 DEF TypeOK

\* The INSERT of a quest keeps the type.
LEMMA CreateType ==
  ASSUME TypeOK, NEW q \in Quests, Create(q)
  PROVE  TypeOK'
<1>1. \E T : IsFiniteSet(DOMAIN T) /\ CreateQuest(q, T)
  <2>1. CASE CreateFromWeb(q)
    <3>1. PICK recipe \in Recipes, qty \in CreateQtys, kids \in Manual :
            CreateQuest(q, FlatTree([item |-> recipe.item, qty |-> AtLeastOne(qty)],
                                    CreatedKids(recipe, qty) \o kids))
      BY <2>1 DEF CreateFromWeb
    <3> DEFINE Node == [item : Items, qty : Int]
    <3>2. CreatedKids(recipe, qty) \in Seq(Node)
      <4>1. recipe.parts \in Seq([item : Items, qty : Nat])
        BY QuestboardConstants
      <4>2. recipe.yield \in Nat \ {0} /\ qty \in Int
        BY QuestboardConstants
      <4>3. \A i \in 1..Len(recipe.parts) :
              [item |-> recipe.parts[i].item, qty |-> Scaled(recipe.parts[i], qty, recipe)] \in Node
        <5> TAKE i \in 1..Len(recipe.parts)
        <5>1. recipe.parts[i] \in [item : Items, qty : Nat]
          BY <4>1, SeqElement
        <5>2. Scaled(recipe.parts[i], qty, recipe) \in Int
          BY <4>2, <5>1 DEF Scaled, Truncated
        <5> QED BY <5>1, <5>2
      <4>4. DOMAIN recipe.parts = 1..Len(recipe.parts) /\ Len(recipe.parts) \in Nat
        BY <4>1
      <4> HIDE DEF Node
      <4> QED BY <4>3, <4>4 DEF CreatedKids
    <3>3. kids \in Seq(Node)
      BY QuestboardConstants
    <3>4. CreatedKids(recipe, qty) \o kids \in Seq(Node)
      <4> HIDE DEF Node
      <4> QED BY <3>2, <3>3
    <3> QED BY <3>1, <3>4, FlatTreeIsFinite
  <2>2. CASE CreateUnresolved(q)
    <3>1. PICK qty \in CreateQtys, kids \in Manual :
            CreateQuest(q, FlatTree([item |-> Unresolved, qty |-> AtLeastOne(qty)], kids))
      BY <2>2 DEF CreateUnresolved
    <3>2. kids \in Seq([item : Items, qty : Int])
      BY QuestboardConstants
    <3> QED BY <3>1, <3>2, FlatTreeIsFinite
  <2>3. CASE CreateFromBot(q)
    <3>1. PICK root : CreateQuest(q, FlatTree(root, <<>>))
      BY <2>3 DEF CreateFromBot
    <3>2. <<>> \in Seq({})
      OBVIOUS
    <3> QED BY <3>1, <3>2, FlatTreeIsFinite
  <2> QED BY <2>1, <2>2, <2>3 DEF Create
<1>2. PICK T : IsFiniteSet(DOMAIN T) /\ CreateQuest(q, T)
  BY <1>1
<1>3. \A r \in Quests : IsFiniteSet(DOMAIN tree'[r])
  BY <1>2 DEF CreateQuest, TypeOK
<1>4. Unused' = Unused /\ \A r \in Quests : Exists(r) => Exists(r)'
  BY <1>2 DEF CreateQuest, TypeOK, Exists, Unused
<1>5. (\A p \in PledgeIds \ Unused : Exists(pledges[p].quest))'
  <2>1. ASSUME NEW p \in PledgeIds \ Unused PROVE pledges[p].quest \in Quests
    BY DEF TypeOK, Unused, Row
  <2>2. pledges' = pledges
    BY <1>2 DEF CreateQuest
  <2> QED BY <1>4, <2>1, <2>2 DEF TypeOK, Exists
<1>6. /\ \A w \in Workers : TaskOK(task'[w])
      /\ (\A w \in Workers : RefersOK(task[w]))'
  <2>1. task' = task
    BY <1>2 DEF CreateQuest
  <2>2. ASSUME NEW w \in Workers PROVE RefersOK(task[w])'
    <3>1. TaskOK(task[w]) /\ RefersOK(task[w])
      BY DEF TypeOK
    <3>2. task[w].kind \in {"pledge", "check", "amounts", "fulfil", "status", "merge"}
            => task[w].quest \in Quests
      BY <3>1 DEF TaskOK, Idle
    <3> QED BY <1>4, <2>1, <3>1, <3>2 DEF RefersOK
  <2> QED BY <2>1, <2>2 DEF TypeOK
<1>7. /\ status' \in [Quests -> Statuses \cup {"absent"}]
      /\ DOMAIN tree' = Quests
  BY <1>2 DEF CreateQuest, TypeOK, Statuses
<1> QED BY <1>2, <1>3, <1>5, <1>6, <1>7 DEF CreateQuest, TypeOK

\* The SELECTs that begin a request keep the type.
LEMMA RequestType ==
  ASSUME TypeOK, NEW w \in Workers, Request(w)
  PROVE  TypeOK'
<1>1. ASSUME NEW q \in Quests, NEW node \in 0..Cardinality(DOMAIN tree[q]), NEW who \in People,
             NEW qty \in PledgeQtys, PledgeRead(w, q, node, who, qty)
      PROVE  TypeOK'
  <2>1. Cardinality(DOMAIN tree[q]) \in Nat
    BY FS_CardinalityType DEF TypeOK
  <2>2. node \in Nat /\ qty \in Nat \ {0}
    BY <1>1, <2>1, QuestboardConstants DEF PledgeRead, Pledgeable
  <2>3. TaskOK([kind |-> "pledge", quest |-> q, node |-> node, who |-> who, qty |-> qty])
    BY <2>2 DEF TaskOK
  <2>4. RefersOK([kind |-> "pledge", quest |-> q, node |-> node, who |-> who, qty |-> qty])
    BY <1>1 DEF RefersOK, PledgeRead, Pledgeable
  <2> QED BY <1>1, <2>3, <2>4, ReadType DEF PledgeRead
<1>2. ASSUME NEW q \in Quests, NEW to \in Decisions, OfficerRead(w, q, to)
      PROVE  TypeOK'
  <2>1. status[q] \in Statuses /\ to \in Statuses
    BY <1>2, QuestboardConstants DEF OfficerRead, Exists, TypeOK, Statuses
  <2>2. TaskOK([kind |-> "status", quest |-> q, from |-> status[q], to |-> to,
                by |-> "officer"])
    BY <2>1 DEF TaskOK
  <2>3. RefersOK([kind |-> "status", quest |-> q, from |-> status[q], to |-> to,
                  by |-> "officer"])
    BY <1>2 DEF RefersOK, OfficerRead
  <2> QED BY <1>2, <2>2, <2>3, ReadType DEF OfficerRead
<1>3. ASSUME NEW q \in Quests, MergeRead(w, q)
      PROVE  TypeOK'
  <2>1. TaskOK([kind |-> "merge", quest |-> q, tree |-> tree[q]])
    BY DEF TaskOK, TypeOK
  <2>2. RefersOK([kind |-> "merge", quest |-> q, tree |-> tree[q]])
    BY <1>3 DEF RefersOK, MergeRead
  <2> QED BY <1>3, <2>1, <2>2, ReadType DEF MergeRead
<1>4. ASSUME NEW p \in PledgeIds, NEW who \in People, WithdrawRead(w, p, who)
      PROVE  TypeOK'
  <2>1. TaskOK([kind |-> "withdraw", pledge |-> p])
    BY DEF TaskOK
  <2>2. RefersOK([kind |-> "withdraw", pledge |-> p])
    BY <1>4 DEF RefersOK, WithdrawRead, OwnLive, Unused
  <2> QED BY <1>4, <2>1, <2>2, ReadType DEF WithdrawRead
<1>5. ASSUME NEW p \in PledgeIds, NEW who \in People, NEW ask \in Asks, TurnInRead(w, p, who, ask)
      PROVE  TypeOK'
  <2>1. pledges[p] \in Row
    BY <1>5 DEF TurnInRead, OwnLive, TypeOK
  <2>2. /\ Amount(pledges[p], ask) \in Nat \ {0}
        /\ pledges[p].turned \in Nat
    BY <1>5, <2>1, QuestboardConstants DEF TurnInRead, Amount, Smaller, Row
  <2>3. TaskOK([kind |-> "turnin", pledge |-> p, turned |-> pledges[p].turned,
                amount |-> Amount(pledges[p], ask)])
    BY <2>2 DEF TaskOK
  <2>4. RefersOK([kind |-> "turnin", pledge |-> p, turned |-> pledges[p].turned,
                  amount |-> Amount(pledges[p], ask)])
    BY <1>5 DEF RefersOK, TurnInRead, OwnLive, Unused
  <2> QED BY <1>5, <2>3, <2>4, ReadType DEF TurnInRead
<1> QED BY <1>1, <1>2, <1>3, <1>4, <1>5 DEF Request

\* A stored row is never taken for a missing one.
LEMMA RowIsAPledge == ASSUME NEW row \in Row PROVE row # NoPledge
<1>1. "who" \in DOMAIN row
  BY DEF Row
<1>2. "who" \notin DOMAIN NoPledge
  BY DEF NoPledge
<1> QED BY <1>1, <1>2

\* Writing a row of a quest that exists.
LEMMA RowType ==
  ASSUME TypeOK, NEW p \in PledgeIds, NEW row \in Row, Exists(row.quest),
         pledges' = [pledges EXCEPT ![p] = row], status' = status
  PROVE  /\ pledges' \in [PledgeIds -> Row \cup {NoPledge}]
         /\ Unused' = Unused \ {p}
         /\ (\A r \in PledgeIds \ Unused : Exists(pledges[r].quest))'
<1>1. \A r \in PledgeIds : pledges'[r] = IF r = p THEN row ELSE pledges[r]
  BY DEF TypeOK
<1>2. Unused' = Unused \ {p}
  BY <1>1, RowIsAPledge DEF Unused
<1>3. (\A r \in PledgeIds \ Unused : Exists(pledges[r].quest))'
  BY <1>1, <1>2 DEF Exists, TypeOK
<1>4. pledges' \in [PledgeIds -> Row \cup {NoPledge}]
  BY DEF TypeOK
<1> QED BY <1>2, <1>3, <1>4

\* Every later step of a handler keeps the type.
LEMMA StepType ==
  ASSUME TypeOK, NEW w \in Workers, Step(w)
  PROVE  TypeOK'
<1> DEFINE t == task[w]
<1>t. TaskOK(t) /\ RefersOK(t)
  BY DEF TypeOK
<1>i. TaskOK(Idle) /\ RefersOK(Idle) /\ RefersOK(Idle)'
  BY DEF TaskOK, RefersOK, Idle
<1>u. (\A q \in Quests : Exists(q)' = Exists(q)) \/ status' # status
  BY DEF Exists
<1>1. ASSUME NEW p \in PledgeIds, PledgeCommit(w, p)
      PROVE  TypeOK'
  <2> DEFINE row == [quest |-> t.quest, node |-> t.node, who |-> t.who, qty |-> t.qty,
                     turned |-> 0, withdrawn |-> FALSE]
  <2>1. row \in Row /\ Exists(row.quest)
    BY <1>t, <1>1, TaskByKind DEF PledgeCommit, Row, RefersOK
  <2>2. pledges' = [pledges EXCEPT ![p] = row] /\ status' = status
    BY <1>1 DEF PledgeCommit
  <2> HIDE DEF row
  <2>3. /\ pledges' \in [PledgeIds -> Row \cup {NoPledge}]
        /\ Unused' = Unused \ {p}
        /\ (\A r \in PledgeIds \ Unused : Exists(pledges[r].quest))'
    BY <2>1, <2>2, RowType
  <2>4. /\ DOMAIN task' = Workers
        /\ \A v \in Workers : TaskOK(task'[v])
        /\ (\A v \in Workers : RefersOK(task[v]))'
    BY <1>1, <1>i, <1>u, <2>3, ContinueType DEF PledgeCommit
  <2> QED BY <1>1, <2>3, <2>4 DEF PledgeCommit, TypeOK
<1>2. CASE WithdrawCommit(w)
  <2> DEFINE row == [pledges[t.pledge] EXCEPT !.withdrawn = TRUE]
  <2>1. t.pledge \in PledgeIds /\ pledges[t.pledge] \in Row /\ Exists(pledges[t.pledge].quest)
    BY <1>t, <1>2, TaskByKind DEF WithdrawCommit, RefersOK, TypeOK, Unused
  <2>2. row \in Row /\ row.quest = pledges[t.pledge].quest
    BY <2>1 DEF Row
  <2>3. pledges' = [pledges EXCEPT ![t.pledge] = row] /\ status' = status
    BY <1>2 DEF WithdrawCommit
  <2> HIDE DEF row
  <2>4. /\ pledges' \in [PledgeIds -> Row \cup {NoPledge}]
        /\ Unused' = Unused \ {t.pledge}
        /\ (\A r \in PledgeIds \ Unused : Exists(pledges[r].quest))'
    BY <2>1, <2>2, <2>3, RowType
  <2>5. /\ DOMAIN task' = Workers
        /\ \A v \in Workers : TaskOK(task'[v])
        /\ (\A v \in Workers : RefersOK(task[v]))'
    BY <1>2, <1>i, <1>u, <2>4, ContinueType DEF WithdrawCommit
  <2> QED BY <1>2, <2>4, <2>5 DEF WithdrawCommit, TypeOK
<1>3. CASE TurnInCommit(w)
  <2> DEFINE row == TurnedInRow(pledges[t.pledge], t)
  <2>1. t.pledge \in PledgeIds /\ pledges[t.pledge] \in Row /\ Exists(pledges[t.pledge].quest)
    BY <1>t, <1>3, TaskByKind DEF TurnInCommit, RefersOK, TypeOK, Unused
  <2>2. t.turned + t.amount \in Nat
    BY <1>t, <1>3, TaskByKind DEF TurnInCommit
  <2>3. row \in Row /\ row.quest = pledges[t.pledge].quest
    BY <2>1, <2>2 DEF Row, TurnedInRow
  <2>4. pledges' = [pledges EXCEPT ![t.pledge] = row] /\ status' = status
    BY <1>3 DEF TurnInCommit
  <2>c. PICK q \in Quests : q = pledges[t.pledge].quest
    BY <2>1 DEF Row
  <2> DEFINE next == [kind |-> "check", quest |-> q]
  <2>5. TaskOK(next) /\ RefersOK(next)'
    BY <2>1, <2>4, <2>c DEF TaskOK, RefersOK, Exists
  <2>6. Continue(w, next)
    BY <1>3, <2>c DEF TurnInCommit, AfterTurnIn
  <2>7. ledger' \in [PledgeIds -> Nat]
    BY <1>t, <1>3, <2>1, TaskByKind DEF TurnInCommit, EventQty, TypeOK
  <2> HIDE DEF row, next
  <2>8. /\ pledges' \in [PledgeIds -> Row \cup {NoPledge}]
        /\ Unused' = Unused \ {t.pledge}
        /\ (\A r \in PledgeIds \ Unused : Exists(pledges[r].quest))'
    BY <2>1, <2>3, <2>4, RowType
  <2>9. /\ DOMAIN task' = Workers
        /\ \A v \in Workers : TaskOK(task'[v])
        /\ (\A v \in Workers : RefersOK(task[v]))'
    BY <1>u, <2>4, <2>5, <2>6, <2>8, ContinueType
  <2> QED BY <1>3, <2>7, <2>8, <2>9 DEF TurnInCommit, TypeOK
<1>4. CASE CheckStatus(w)
  <2> DEFINE next == IF status[t.quest] = "open"
                       THEN [kind |-> "amounts", quest |-> t.quest]
                       ELSE Idle
  <2>1. TaskOK(next) /\ RefersOK(next)
    BY <1>t, <1>i, <1>4, TaskByKind DEF CheckStatus, TaskOK, RefersOK
  <2> QED BY <1>4, <2>1, ReadType DEF CheckStatus
<1>5. CASE CheckAmounts(w)
  <2> DEFINE next == IF Complete(t.quest) THEN [kind |-> "fulfil", quest |-> t.quest] ELSE Idle
  <2>1. TaskOK(next) /\ RefersOK(next)
    BY <1>t, <1>i, <1>5, TaskByKind DEF CheckAmounts, TaskOK, RefersOK
  <2> QED BY <1>5, <2>1, ReadType DEF CheckAmounts
<1>6. CASE FulfilRead(w)
  <2> DEFINE next == [kind |-> "status", quest |-> t.quest, from |-> status[t.quest],
                      to |-> "fulfilled", by |-> "board"]
  <2>1. t.quest \in Quests /\ Exists(t.quest)
    BY <1>t, <1>6, TaskByKind DEF FulfilRead, RefersOK
  <2>2. status[t.quest] \in Statuses
    BY <2>1 DEF Exists, TypeOK, Statuses
  <2>3. TaskOK(next) /\ RefersOK(next)
    BY <2>1, <2>2 DEF TaskOK, RefersOK, Statuses
  <2> QED BY <1>6, <2>3, ReadType DEF FulfilRead
<1>7. CASE StatusCommit(w)
  <2>1. t.quest \in Quests /\ t.to \in Statuses /\ t.by \in {"board", "officer"}
    BY <1>t, <1>7, TaskByKind DEF StatusCommit
  <2>2. Unused' = Unused /\ pledges' = pledges
    BY <1>7 DEF StatusCommit, Unused
  <2>3. /\ status' \in [Quests -> Statuses \cup {"absent"}]
        /\ statusBy' \in [Quests -> {"nobody", "board", "officer"}]
    BY <1>7, <2>1 DEF StatusCommit, TypeOK
  <2>4. \A q \in Quests : Exists(q) => Exists(q)'
    BY <1>7, <2>1 DEF StatusCommit, TypeOK, Exists, Statuses
  <2>5. (\A p \in PledgeIds \ Unused : Exists(pledges[p].quest))'
    <3>1. ASSUME NEW p \in PledgeIds \ Unused
          PROVE  pledges[p].quest \in Quests /\ Exists(pledges[p].quest)
      BY DEF TypeOK, Unused, Row
    <3> QED BY <2>2, <2>4, <3>1 DEF Exists
  <2>6. /\ DOMAIN task' = Workers
        /\ \A v \in Workers : TaskOK(task'[v])
        /\ (\A v \in Workers : RefersOK(task[v]))'
    BY <1>7, <1>i, <2>2, <2>4, ContinueType DEF StatusCommit
  <2> QED BY <1>7, <2>3, <2>5, <2>6 DEF StatusCommit, TypeOK
<1>8. ASSUME NEW recipe \in Recipes, MergeCommit(w, recipe)
      PROVE  TypeOK'
  <2>1. t.quest \in Quests /\ IsFiniteSet(DOMAIN t.tree)
    BY <1>t, <1>8, TaskByKind DEF MergeCommit
  <2>2. IsFiniteSet(DOMAIN MergeRecipe(t.tree, recipe))
    BY <2>1, MergeIsFinite
  <2>3. DOMAIN tree' = Quests /\ \A q \in Quests : IsFiniteSet(DOMAIN tree'[q])
    BY <1>8, <2>1, <2>2 DEF MergeCommit, TypeOK
  <2>4. /\ Unused' = Unused
        /\ \A q \in Quests : Exists(q)' = Exists(q)
        /\ (\A p \in PledgeIds \ Unused : Exists(pledges[p].quest))'
    BY <1>8 DEF MergeCommit, TypeOK, Unused, Exists
  <2>5. /\ DOMAIN task' = Workers
        /\ \A v \in Workers : TaskOK(task'[v])
        /\ (\A v \in Workers : RefersOK(task[v]))'
    BY <1>8, <1>i, <2>4, ContinueType DEF MergeCommit
  <2> QED BY <1>8, <2>3, <2>4, <2>5 DEF MergeCommit, TypeOK
<1>9. CASE MergeNothing(w)
  BY <1>9, <1>i, ReadType DEF MergeNothing
<1> QED BY <1>1, <1>2, <1>3, <1>4, <1>5, <1>6, <1>7, <1>8, <1>9 DEF Step

\* TypeOK is inductive.
LEMMA NextType == TypeOK /\ [Next]_vars => TypeOK'
<1> SUFFICES ASSUME TypeOK, [Next]_vars PROVE TypeOK'
  OBVIOUS
<1>1. ASSUME NEW q \in Quests, Create(q) PROVE TypeOK'
  BY <1>1, CreateType
<1>2. ASSUME NEW w \in Workers, Request(w) PROVE TypeOK'
  BY <1>2, RequestType
<1>3. ASSUME NEW w \in Workers, Step(w) PROVE TypeOK'
  BY <1>3, StepType
<1>4. ASSUME NEW w \in Workers, Restart(w) PROVE TypeOK'
  <2>1. TaskOK(Idle) /\ RefersOK(Idle)
    BY DEF TaskOK, RefersOK, Idle
  <2>2. orphaned' \subseteq Quests
    BY <1>4 DEF Restart, TypeOK
  <2>3. Continue(w, Idle) /\ UNCHANGED <<status, statusBy, tree, pledges, ledger>>
    BY <1>4 DEF Restart
  <2> QED BY <2>1, <2>2, <2>3, ReadType
<1>5. CASE UNCHANGED vars
  BY <1>5 DEF vars, TypeOK, TaskOK, RefersOK, Unused, Exists
<1> QED BY <1>1, <1>2, <1>3, <1>4, <1>5 DEF Next

(***************************************************************************)
(* Questboard is type correct, for any number of processes: the columns    *)
(* keep their types, trees stay finite, and nothing refers to a quest or a *)
(* pledge that is not there.                                               *)
(***************************************************************************)
THEOREM TypeCorrect == Spec => []TypeOK
BY InitType, NextType, PTL DEF Spec

-----------------------------------------------------------------------------
(* The event log accounts for every row *)

\* A step that leaves rows and log alone, and remembers no more than the log holds.
LEMMA LedgerRemembered ==
  ASSUME TypeOK, LedgerCoversTurned, NEW w \in Workers, NEW t, Continue(w, t),
         t.kind = "turnin" => t.turned <= ledger[t.pledge],
         pledges' = pledges, ledger' = ledger
  PROVE  LedgerCoversTurned'
<1>1. ASSUME NEW v \in Workers, task'[v].kind = "turnin"
      PROVE  task'[v].turned <= ledger'[task'[v].pledge]
  <2>1. task'[v] = IF v = w THEN t ELSE task[v]
    BY DEF Continue, TypeOK
  <2> QED BY <1>1, <2>1 DEF LedgerCoversTurned, Busy
<1>2. Unused' = Unused
  BY DEF Unused
<1> QED BY <1>1, <1>2 DEF LedgerCoversTurned, Busy

\* The SELECTs that begin a request keep rows within the event log.
LEMMA LedgerRequest ==
  ASSUME TypeOK, LedgerCoversTurned, NEW w \in Workers, Request(w)
  PROVE  LedgerCoversTurned'
<1>1. ASSUME NEW p \in PledgeIds, NEW who \in People, NEW ask \in Asks, TurnInRead(w, p, who, ask)
      PROVE  LedgerCoversTurned'
  <2>1. p \notin Unused
    BY <1>1 DEF TurnInRead, OwnLive, Unused
  <2>2. pledges[p].turned <= ledger[p]
    BY <2>1 DEF LedgerCoversTurned
  <2> QED BY <1>1, <2>2, LedgerRemembered DEF TurnInRead
<1>2. ASSUME NEW q \in Quests, NEW node \in 0..Cardinality(DOMAIN tree[q]), NEW who \in People,
             NEW qty \in PledgeQtys, PledgeRead(w, q, node, who, qty)
      PROVE  LedgerCoversTurned'
  BY <1>2, LedgerRemembered DEF PledgeRead
<1>3. ASSUME NEW q \in Quests, NEW to \in Decisions, OfficerRead(w, q, to)
      PROVE  LedgerCoversTurned'
  BY <1>3, LedgerRemembered DEF OfficerRead
<1>4. ASSUME NEW q \in Quests, MergeRead(w, q)
      PROVE  LedgerCoversTurned'
  BY <1>4, LedgerRemembered DEF MergeRead
<1>5. ASSUME NEW p \in PledgeIds, NEW who \in People, WithdrawRead(w, p, who)
      PROVE  LedgerCoversTurned'
  BY <1>5, LedgerRemembered DEF WithdrawRead
<1> QED BY <1>1, <1>2, <1>3, <1>4, <1>5 DEF Request

\* Every later step of a handler keeps rows within the event log.
LEMMA LedgerStep ==
  ASSUME TypeOK, LedgerCoversTurned, NEW w \in Workers, Step(w)
  PROVE  LedgerCoversTurned'
<1> DEFINE t == task[w]
<1>t. TaskOK(t) /\ RefersOK(t)
  BY DEF TypeOK
<1>1. ASSUME NEW p \in PledgeIds, PledgeCommit(w, p)
      PROVE  LedgerCoversTurned'
  <2>1. ASSUME NEW r \in PledgeIds \ Unused'
        PROVE  pledges'[r].turned <= ledger'[r]
    <3>1. CASE r = p
      BY <1>1, <3>1 DEF PledgeCommit, TypeOK
    <3>2. CASE r # p
      BY <1>1, <2>1, <3>2 DEF PledgeCommit, TypeOK, Unused, LedgerCoversTurned
    <3> QED BY <3>1, <3>2
  <2>2. ASSUME NEW v \in Workers, task'[v].kind = "turnin"
        PROVE  task'[v].turned <= ledger'[task'[v].pledge]
    BY <1>1, <2>2 DEF PledgeCommit, Continue, TypeOK, Idle, LedgerCoversTurned, Busy
  <2> QED BY <2>1, <2>2 DEF LedgerCoversTurned, Busy
<1>2. CASE WithdrawCommit(w)
  <2>1. ASSUME NEW r \in PledgeIds \ Unused'
        PROVE  pledges'[r].turned <= ledger'[r]
    <3>1. t.pledge \in PledgeIds \ Unused
      BY <1>t, <1>2, TaskByKind DEF WithdrawCommit, RefersOK
    <3>2. r \notin Unused
      BY <1>2, <2>1, <3>1 DEF WithdrawCommit, TypeOK, Unused
    <3>3. pledges[r] \in Row
      BY <3>2 DEF TypeOK, Unused
    <3>4. pledges'[r].turned = pledges[r].turned
      BY <1>2, <3>3 DEF WithdrawCommit, TypeOK, Row
    <3> QED BY <1>2, <3>2, <3>4 DEF WithdrawCommit, LedgerCoversTurned
  <2>2. ASSUME NEW v \in Workers, task'[v].kind = "turnin"
        PROVE  task'[v].turned <= ledger'[task'[v].pledge]
    BY <1>2, <2>2 DEF WithdrawCommit, Continue, TypeOK, Idle, LedgerCoversTurned, Busy
  <2> QED BY <2>1, <2>2 DEF LedgerCoversTurned, Busy
<1>3. CASE TurnInCommit(w)
  <2>1. /\ t.pledge \in PledgeIds \ Unused
        /\ t.turned \in Nat /\ t.amount \in Nat /\ t.turned <= ledger[t.pledge]
    BY <1>t, <1>3, TaskByKind DEF TurnInCommit, RefersOK, LedgerCoversTurned, Busy
  <2>2. ASSUME NEW r \in PledgeIds
        PROVE  ledger'[r] = IF r = t.pledge THEN ledger[r] + t.amount ELSE ledger[r]
    BY <1>3, <2>1 DEF TurnInCommit, EventQty, TypeOK
  <2>3. ASSUME NEW r \in PledgeIds \ Unused'
        PROVE  pledges'[r].turned <= ledger'[r]
    <3>1. CASE r = t.pledge
      <4>1. pledges[r] \in Row
        BY <2>1, <3>1 DEF TypeOK, Unused
      <4>2. pledges'[r].turned = t.turned + t.amount
        BY <1>3, <3>1, <4>1 DEF TurnInCommit, TurnedInRow, TypeOK, Row
      <4> QED BY <2>1, <2>2, <3>1, <4>2 DEF TypeOK
    <3>2. CASE r # t.pledge
      <4>1. pledges'[r] = pledges[r] /\ r \notin Unused
        BY <1>3, <2>3, <3>2 DEF TurnInCommit, TypeOK, Unused
      <4> QED BY <2>2, <3>2, <4>1 DEF LedgerCoversTurned
    <3> QED BY <3>1, <3>2
  <2>4. ASSUME NEW v \in Workers, task'[v].kind = "turnin"
        PROVE  task'[v].turned <= ledger'[task'[v].pledge]
    <3>1. task'[v] = task[v]
      BY <1>3, <2>4 DEF TurnInCommit, AfterTurnIn, Continue, TypeOK
    <3>2. /\ task[v].pledge \in PledgeIds /\ task[v].turned \in Nat
          /\ task[v].turned <= ledger[task[v].pledge]
      BY <2>4, <3>1, TaskByKind DEF TypeOK, LedgerCoversTurned, Busy
    <3>3. ledger[task[v].pledge] <= ledger'[task[v].pledge]
      BY <2>1, <2>2, <3>2 DEF TypeOK
    <3> QED BY <2>2, <2>1, <3>1, <3>2, <3>3 DEF TypeOK
  <2> QED BY <2>3, <2>4 DEF LedgerCoversTurned, Busy
<1>4. CASE CheckStatus(w)
  <2>1. PICK next : Continue(w, next) /\ next.kind # "turnin"
    BY <1>4 DEF CheckStatus, Idle
  <2> QED BY <1>4, <2>1, LedgerRemembered DEF CheckStatus
<1>5. CASE CheckAmounts(w)
  <2>1. PICK next : Continue(w, next) /\ next.kind # "turnin"
    BY <1>5 DEF CheckAmounts, Idle
  <2> QED BY <1>5, <2>1, LedgerRemembered DEF CheckAmounts
<1>6. CASE FulfilRead(w)
  BY <1>6, LedgerRemembered DEF FulfilRead
<1>7. CASE StatusCommit(w)
  BY <1>7, LedgerRemembered DEF StatusCommit, Idle
<1>8. ASSUME NEW recipe \in Recipes, MergeCommit(w, recipe)
      PROVE  LedgerCoversTurned'
  BY <1>8, LedgerRemembered DEF MergeCommit, Idle
<1>9. CASE MergeNothing(w)
  BY <1>9, LedgerRemembered DEF MergeNothing, Idle
<1> QED BY <1>1, <1>2, <1>3, <1>4, <1>5, <1>6, <1>7, <1>8, <1>9 DEF Step

\* LedgerCoversTurned is inductive relative to TypeOK.
LEMMA LedgerNext == TypeOK /\ LedgerCoversTurned /\ [Next]_vars => LedgerCoversTurned'
<1> SUFFICES ASSUME TypeOK, LedgerCoversTurned, [Next]_vars PROVE LedgerCoversTurned'
  OBVIOUS
<1>1. ASSUME NEW q \in Quests, Create(q) PROVE LedgerCoversTurned'
  BY <1>1 DEF Create, CreateFromWeb, CreateUnresolved, CreateFromBot, CreateQuest,
              LedgerCoversTurned, Busy, Unused
<1>2. ASSUME NEW w \in Workers, Request(w) PROVE LedgerCoversTurned'
  BY <1>2, LedgerRequest
<1>3. ASSUME NEW w \in Workers, Step(w) PROVE LedgerCoversTurned'
  BY <1>3, LedgerStep
<1>4. ASSUME NEW w \in Workers, Restart(w) PROVE LedgerCoversTurned'
  BY <1>4, LedgerRemembered DEF Restart, Idle
<1>5. CASE UNCHANGED vars
  BY <1>5 DEF vars, LedgerCoversTurned, Busy, Unused
<1> QED BY <1>1, <1>2, <1>3, <1>4, <1>5 DEF Next

(***************************************************************************)
(* However many processes overwrite each other's turn-ins, the row of a    *)
(* pledge never claims more than its turn_in events add up to.             *)
(***************************************************************************)
THEOREM LedgerCorrect == Spec => []LedgerCoversTurned
<1>1. Init => LedgerCoversTurned
  BY DEF Init, LedgerCoversTurned, Unused, Busy, Idle
<1> QED BY <1>1, TypeCorrect, LedgerNext, PTL DEF Spec

-----------------------------------------------------------------------------
(* Rows keep what was promised *)

\* A step that writes at most one row, and keeps its promise.
LEMMA RowKept ==
  ASSUME TypeOK, NEW p \in PledgeIds \ Unused, NEW row \in Row,
         pledges' = [pledges EXCEPT ![p] = row],
         Promise(row) = Promise(pledges[p]),
         pledges[p].withdrawn => row.withdrawn,
         \A r \in PledgeIds : ledger'[r] >= ledger[r]
  PROVE  RowsKept
<1> SUFFICES ASSUME NEW r \in PledgeIds \ Unused
             PROVE  /\ pledges'[r] # NoPledge
                    /\ Promise(pledges'[r]) = Promise(pledges[r])
                    /\ pledges[r].withdrawn => pledges'[r].withdrawn
                    /\ ledger'[r] >= ledger[r]
  BY DEF RowsKept
<1>1. pledges'[r] = IF r = p THEN row ELSE pledges[r]
  BY DEF TypeOK
<1>2. pledges'[r] # NoPledge
  BY <1>1, RowIsAPledge DEF Unused
<1> QED BY <1>1, <1>2

\* A step that writes no row and no event keeps what was promised.
LEMMA RowsUnchanged ==
  ASSUME TypeOK, pledges' = pledges, ledger' = ledger
  PROVE  RowsKept
BY DEF RowsKept, TypeOK, Unused

\* Every later step of a handler keeps what was promised.
LEMMA RowsStep ==
  ASSUME TypeOK, NEW w \in Workers, Step(w)
  PROVE  RowsKept
<1> DEFINE t == task[w]
<1>t. TaskOK(t) /\ RefersOK(t)
  BY DEF TypeOK
<1>1. ASSUME NEW p \in PledgeIds, PledgeCommit(w, p)
      PROVE  RowsKept
  BY <1>1 DEF PledgeCommit, RowsKept, TypeOK, Unused
<1>2. CASE WithdrawCommit(w)
  <2> DEFINE row == [pledges[t.pledge] EXCEPT !.withdrawn = TRUE]
  <2>1. t.pledge \in PledgeIds \ Unused
    BY <1>t, <1>2, TaskByKind DEF WithdrawCommit, RefersOK
  <2>2. pledges[t.pledge] \in Row
    BY <2>1 DEF TypeOK, Unused
  <2>3. row \in Row /\ Promise(row) = Promise(pledges[t.pledge]) /\ row.withdrawn
    BY <2>2 DEF Row, Promise
  <2>4. pledges' = [pledges EXCEPT ![t.pledge] = row]
    BY <1>2 DEF WithdrawCommit
  <2>5. \A r \in PledgeIds : ledger'[r] >= ledger[r]
    BY <1>2 DEF WithdrawCommit, TypeOK
  <2> HIDE DEF row
  <2> QED BY <2>1, <2>3, <2>4, <2>5, RowKept
<1>3. CASE TurnInCommit(w)
  <2> DEFINE row == TurnedInRow(pledges[t.pledge], t)
  <2>1. t.pledge \in PledgeIds \ Unused /\ t.turned \in Nat /\ t.amount \in Nat
    BY <1>t, <1>3, TaskByKind DEF TurnInCommit, RefersOK
  <2>2. pledges[t.pledge] \in Row
    BY <2>1 DEF TypeOK, Unused
  <2>3. /\ row \in Row
        /\ Promise(row) = Promise(pledges[t.pledge])
        /\ row.withdrawn = pledges[t.pledge].withdrawn
    BY <2>1, <2>2 DEF Row, Promise, TurnedInRow
  <2>4. pledges' = [pledges EXCEPT ![t.pledge] = row]
    BY <1>3 DEF TurnInCommit
  <2>5. \A r \in PledgeIds : ledger'[r] >= ledger[r]
    BY <1>3, <2>1 DEF TurnInCommit, EventQty, TypeOK
  <2> HIDE DEF row
  <2> QED BY <2>1, <2>3, <2>4, <2>5, RowKept
<1>4. ASSUME pledges' = pledges, ledger' = ledger PROVE RowsKept
  BY <1>4, RowsUnchanged
<1> QED
  BY <1>1, <1>2, <1>3, <1>4 DEF Step, CheckStatus, CheckAmounts, FulfilRead, StatusCommit,
                               MergeCommit, MergeNothing

\* Every step keeps what was promised.
LEMMA RowsNext == TypeOK /\ [Next]_vars => [RowsKept]_vars
<1> SUFFICES ASSUME TypeOK, Next PROVE RowsKept
  OBVIOUS
<1>1. ASSUME NEW q \in Quests, Create(q) PROVE RowsKept
  BY <1>1, RowsUnchanged DEF Create, CreateFromWeb, CreateUnresolved, CreateFromBot, CreateQuest
<1>2. ASSUME NEW w \in Workers, Request(w) PROVE RowsKept
  BY <1>2, RowsUnchanged DEF Request, PledgeRead, OfficerRead, MergeRead, WithdrawRead, TurnInRead
<1>3. ASSUME NEW w \in Workers, Step(w) PROVE RowsKept
  BY <1>3, RowsStep
<1>4. ASSUME NEW w \in Workers, Restart(w) PROVE RowsKept
  BY <1>4, RowsUnchanged DEF Restart
<1> QED BY <1>1, <1>2, <1>3, <1>4 DEF Next

(***************************************************************************)
(* No interleaving of handlers changes what a member promised, revives a   *)
(* withdrawn pledge, or takes an event back.                               *)
(***************************************************************************)
THEOREM RowsAreKept == Spec => RowsKeepTheirPledge
BY TypeCorrect, RowsNext, PTL DEF Spec, RowsKeepTheirPledge

-----------------------------------------------------------------------------
(* Steps of a handler *)

\* What every handler remembers after one has moved on.
LEMMA Continues ==
  ASSUME TypeOK, NEW w \in Workers, NEW t, Continue(w, t)
  PROVE  \A v \in Workers : task'[v] = IF v = w THEN t ELSE task[v]
BY DEF Continue, TypeOK

\* The parts of a recipe are numbered.
LEMMA RecipeLength ==
  ASSUME NEW recipe \in Recipes
  PROVE  Len(recipe.parts) \in Nat /\ DOMAIN recipe.parts = 1..Len(recipe.parts)
<1>1. recipe.parts \in Seq([item : Items, qty : Nat])
  BY QuestboardConstants
<1> QED BY <1>1

\* A sequence over S is one over every larger set.
LEMMA SeqWiden ==
  ASSUME NEW S, NEW T, S \subseteq T, NEW s \in Seq(S)
  PROVE  s \in Seq(T)
<1>1. Len(s) \in Nat /\ s = [i \in 1..Len(s) |-> s[i]] /\ \A i \in 1..Len(s) : s[i] \in T
  OBVIOUS
<1> QED BY <1>1

\* A quest a handler is about exists.
LEMMA TaskQuest ==
  ASSUME TypeOK, NEW w \in Workers,
         task[w].kind \in {"pledge", "check", "amounts", "fulfil", "status", "merge"}
  PROVE  task[w].quest \in Quests /\ Exists(task[w].quest)
<1>1. TaskOK(task[w]) /\ RefersOK(task[w])
  BY DEF TypeOK
<1> QED BY <1>1, TaskByKind DEF RefersOK

\* A pledge a handler is about has a row.
LEMMA TaskPledge ==
  ASSUME TypeOK, NEW w \in Workers, task[w].kind \in {"withdraw", "turnin"}
  PROVE  /\ task[w].pledge \in PledgeIds \ Unused
         /\ pledges[task[w].pledge] \in Row
         /\ Exists(pledges[task[w].pledge].quest)
<1>1. TaskOK(task[w]) /\ RefersOK(task[w])
  BY DEF TypeOK
<1>2. task[w].pledge \in PledgeIds \ Unused
  BY <1>1, TaskByKind DEF RefersOK
<1> QED BY <1>2 DEF TypeOK, Unused

\* The row of a pledge, and its quest.
LEMMA UsedRow ==
  ASSUME TypeOK, NEW p \in PledgeIds \ Unused
  PROVE  /\ pledges[p] \in Row
         /\ pledges[p].quest \in Quests
         /\ Exists(pledges[p].quest)
BY DEF TypeOK, Unused, Row

\* Quests come into being by Create only, and none is lost.
LEMMA ExistsNext ==
  ASSUME TypeOK, Next, NEW q \in Quests
  PROVE  /\ Exists(q) => Exists(q)'
         /\ (\A r \in Quests : ~ Create(r)) => (Exists(q)' <=> Exists(q))
<1>1. ASSUME NEW r \in Quests, Create(r) PROVE Exists(q) => Exists(q)'
  BY <1>1 DEF Create, CreateFromWeb, CreateUnresolved, CreateFromBot, CreateQuest, TypeOK, Exists
<1>2. ASSUME NEW w \in Workers, StatusCommit(w) PROVE Exists(q)' <=> Exists(q)
  <2>1. task[w].quest \in Quests /\ Exists(task[w].quest) /\ task[w].to \in Statuses
    <3>1. task[w].kind = "status" /\ TaskOK(task[w])
      BY <1>2 DEF StatusCommit, TypeOK
    <3> QED BY <3>1, TaskQuest, TaskByKind
  <2> QED BY <1>2, <2>1 DEF StatusCommit, TypeOK, Exists, Statuses
<1>3. ASSUME NEW w \in Workers, Request(w) \/ Step(w) \/ Restart(w), ~ StatusCommit(w)
      PROVE  status' = status
  BY <1>3 DEF Request, PledgeRead, OfficerRead, MergeRead, WithdrawRead, TurnInRead, Restart,
              Step, PledgeCommit, WithdrawCommit, TurnInCommit, CheckStatus, CheckAmounts,
              FulfilRead, MergeCommit, MergeNothing
<1> QED BY <1>1, <1>2, <1>3 DEF Next, Exists

-----------------------------------------------------------------------------
(* The shape of stored trees *)

\* A root and its children, with a quantity that can be computed with.
Shaped(T) == (\E n : IsFlat(T, n)) /\ "qty" \in DOMAIN T[Root] /\ T[Root].qty \in Int

\* The tree create_quest stores.
LEMMA FlatTreeIsShaped ==
  ASSUME NEW root, "qty" \in DOMAIN root, root.qty \in Int, NEW S, NEW kids \in Seq(S)
  PROVE  Shaped(FlatTree(root, kids))
<1>1. DOMAIN kids = 1..Len(kids) /\ Len(kids) \in Nat
  OBVIOUS
<1>2. IsFlat(FlatTree(root, kids), Len(kids))
  BY <1>1 DEF IsFlat, FlatTree
<1>3. FlatTree(root, kids)[Root] = root
  BY DEF FlatTree
<1> QED BY <1>2, <1>3 DEF Shaped

\* Re-expansion keeps the shape, the root, and every id with its node; it only adds.
LEMMA MergeShape ==
  ASSUME NEW T, Shaped(T), NEW recipe \in Recipes
  PROVE  LET merged == MergeRecipe(T, recipe)
         IN  /\ Shaped(merged)
             /\ merged[Root] = T[Root]
             /\ NodeIds(T) \subseteq NodeIds(merged)
             /\ \A id \in NodeIds(T) : merged[NodeAt(merged, id)] = T[NodeAt(T, id)]
             /\ FreshParts(T, recipe) # {} =>
                  Cardinality(DOMAIN merged) > Cardinality(DOMAIN T)
             /\ FreshParts(merged, recipe) = {}
<1> DEFINE merged == MergeRecipe(T, recipe)
           c == Cardinality(FreshParts(T, recipe))
<1>1. PICK n : IsFlat(T, n)
  BY DEF Shaped
<1>n. n \in Nat /\ Root \in DOMAIN T
  BY <1>1 DEF IsFlat
<1>2. /\ IsFiniteSet(FreshParts(T, recipe))
      /\ IsFlat(merged, n + c)
      /\ \A p \in DOMAIN T : merged[p] = T[p]
  BY <1>1, MergeOfFlat, RecipeLength
<1>3. FreshParts(merged, recipe) = {}
  BY <1>1, FlatHasChildren, MergeLeavesNothingFresh, RecipeLength
<1>4. c \in Nat /\ (FreshParts(T, recipe) # {} => c > 0)
  BY <1>2, FS_CardinalityType, FS_EmptySet
<1> HIDE DEF merged, c
<1>5. /\ NodeIds(T) = 0..n
      /\ NodeIds(merged) = 0..(n + c)
      /\ \A k \in 0..n : NodeAt(T, k) = IF k = 0 THEN Root ELSE <<k>>
      /\ \A k \in 0..(n + c) : NodeAt(merged, k) = IF k = 0 THEN Root ELSE <<k>>
  BY <1>1, <1>2, FlatNumbering
<1>6. NodeIds(T) \subseteq NodeIds(merged)
  BY <1>n, <1>4, <1>5
<1>7. ASSUME NEW id \in NodeIds(T) PROVE merged[NodeAt(merged, id)] = T[NodeAt(T, id)]
  <2>1. id \in 0..n /\ id \in 0..(n + c)
    BY <1>5, <1>6
  <2>2. NodeAt(merged, id) = NodeAt(T, id)
    BY <1>5, <2>1
  <2>3. NodeAt(T, id) \in DOMAIN T
    <3>1. CASE id = 0
      BY <1>5, <1>n, <2>1, <3>1
    <3>2. CASE id # 0
      BY <1>1, <1>5, <1>n, <2>1, <3>2 DEF IsFlat
    <3> QED BY <3>1, <3>2
  <2> QED BY <1>2, <2>2, <2>3
<1>8. Cardinality(DOMAIN T) = n + 1 /\ Cardinality(DOMAIN merged) = n + c + 1
  BY <1>1, <1>2, FlatSize
<1>9. merged[Root] = T[Root] /\ Shaped(merged)
  BY <1>2, <1>n DEF Shaped
<1> QED BY <1>n, <1>3, <1>4, <1>6, <1>7, <1>8, <1>9 DEF merged

(***************************************************************************)
(* Stored trees have the shape, and what a re-expansion in progress read   *)
(* has the root the quest has now.                                         *)
(***************************************************************************)
TreesShaped ==
  /\ \A q \in Quests : Exists(q) => Shaped(tree[q])
  /\ \A q \in Quests : ~ Exists(q) => tree[q] = NoTree
  /\ \A w \in Busy("merge") :
       Shaped(task[w].tree) /\ task[w].tree[Root] = tree[task[w].quest][Root]

\* What is stored when a quest is created.
LEMMA CreateShape ==
  ASSUME NEW q \in Quests, Create(q)
  PROVE  \E T : Shaped(T) /\ CreateQuest(q, T)
<1>1. CASE CreateFromWeb(q)
  <2>1. PICK recipe \in Recipes, qty \in CreateQtys, kids \in Manual :
          CreateQuest(q, FlatTree([item |-> recipe.item, qty |-> AtLeastOne(qty)],
                                  CreatedKids(recipe, qty) \o kids))
    BY <1>1 DEF CreateFromWeb
  <2> DEFINE K == CreatedKids(recipe, qty)
             Parts == {K[i] : i \in DOMAIN K} \cup [item : Items, qty : Int]
  <2>2. K \in Seq(Parts)
    <3>1. DOMAIN K = 1..Len(recipe.parts) /\ Len(recipe.parts) \in Nat
      BY RecipeLength DEF CreatedKids
    <3>2. \A i \in 1..Len(recipe.parts) : K[i] \in Parts
      BY <3>1
    <3>3. K = [i \in 1..Len(recipe.parts) |-> K[i]]
      BY <3>1 DEF CreatedKids
    <3> HIDE DEF K, Parts
    <3> QED BY <3>1, <3>2, <3>3
  <2>3. kids \in Seq(Parts)
    <3>1. kids \in Seq([item : Items, qty : Int])
      BY QuestboardConstants
    <3>2. [item : Items, qty : Int] \subseteq Parts
      OBVIOUS
    <3> HIDE DEF Parts
    <3> QED BY <3>1, <3>2, SeqWiden
  <2>4. K \o kids \in Seq(Parts)
    <3> HIDE DEF K, Parts
    <3> QED BY <2>2, <2>3
  <2>5. qty \in Int /\ AtLeastOne(qty) \in Int
    BY QuestboardConstants DEF AtLeastOne
  <2>6. Shaped(FlatTree([item |-> recipe.item, qty |-> AtLeastOne(qty)], K \o kids))
    <3> HIDE DEF K, Parts
    <3> QED BY <2>4, <2>5, FlatTreeIsShaped
  <2> QED BY <2>1, <2>6
<1>2. CASE CreateUnresolved(q)
  <2>1. PICK qty \in CreateQtys, kids \in Manual :
          CreateQuest(q, FlatTree([item |-> Unresolved, qty |-> AtLeastOne(qty)], kids))
    BY <1>2 DEF CreateUnresolved
  <2>2. qty \in Int /\ AtLeastOne(qty) \in Int
    BY QuestboardConstants DEF AtLeastOne
  <2>3. kids \in Seq([item : Items, qty : Int])
    BY QuestboardConstants
  <2> QED BY <2>1, <2>2, <2>3, FlatTreeIsShaped
<1>3. CASE CreateFromBot(q)
  <2>1. PICK item \in {r.item : r \in Recipes} \cup {Unresolved}, qty \in CreateQtys :
          CreateQuest(q, FlatTree([item |-> item, qty |-> qty], <<>>))
    BY <1>3 DEF CreateFromBot
  <2>2. qty \in Int /\ <<>> \in Seq({})
    BY QuestboardConstants
  <2> QED BY <2>1, <2>2, FlatTreeIsShaped
<1> QED BY <1>1, <1>2, <1>3 DEF Create

\* A step that stores no tree.
LEMMA ShapeRemembered ==
  ASSUME TypeOK, TreesShaped, NEW w \in Workers, NEW t, Continue(w, t), tree' = tree,
         \A q \in Quests : Exists(q)' <=> Exists(q),
         t.kind = "merge" => Shaped(t.tree) /\ t.tree[Root] = tree[t.quest][Root]
  PROVE  TreesShaped'
<1>1. ASSUME NEW v \in Workers, task'[v].kind = "merge"
      PROVE  Shaped(task'[v].tree) /\ task'[v].tree[Root] = tree'[task'[v].quest][Root]
  <2>1. task'[v] = IF v = w THEN t ELSE task[v]
    BY Continues
  <2> QED BY <1>1, <2>1 DEF TreesShaped, Busy
<1> QED BY <1>1 DEF TreesShaped, Busy

\* TreesShaped is inductive relative to TypeOK.
LEMMA ShapeNext == TypeOK /\ TreesShaped /\ [Next]_vars => TreesShaped'
<1> SUFFICES ASSUME TypeOK, TreesShaped, [Next]_vars PROVE TreesShaped'
  OBVIOUS
<1>1. ASSUME NEW q \in Quests, Create(q) PROVE TreesShaped'
  <2>1. PICK T : Shaped(T) /\ CreateQuest(q, T)
    BY <1>1, CreateShape
  <2>2. \A r \in Quests : tree'[r] = IF r = q THEN T ELSE tree[r]
    BY <2>1 DEF CreateQuest, TypeOK
  <2>3. \A r \in Quests : Exists(r)' <=> r = q \/ Exists(r)
    BY <2>1 DEF CreateQuest, TypeOK, Exists
  <2>4. ASSUME NEW v \in Workers, task[v].kind = "merge"
        PROVE  tree'[task[v].quest] = tree[task[v].quest]
    <3>1. task[v].quest \in Quests /\ Exists(task[v].quest)
      BY <2>4, TaskQuest
    <3> QED BY <2>1, <2>2, <3>1 DEF CreateQuest
  <2>5. task' = task
    BY <2>1 DEF CreateQuest
  <2> QED BY <2>1, <2>2, <2>3, <2>4, <2>5 DEF TreesShaped, Busy
<1>2. ASSUME NEW w \in Workers, NEW recipe \in Recipes, MergeCommit(w, recipe)
      PROVE  TreesShaped'
  <2> DEFINE t == task[w]
             q == t.quest
             merged == MergeRecipe(t.tree, recipe)
  <2>1. q \in Quests /\ Exists(q) /\ w \in Busy("merge")
    BY <1>2, TaskQuest DEF MergeCommit, Busy
  <2>2. Shaped(t.tree) /\ t.tree[Root] = tree[q][Root]
    BY <2>1 DEF TreesShaped
  <2>3. Shaped(merged) /\ merged[Root] = tree[q][Root]
    BY <2>2, MergeShape
  <2>4. \A r \in Quests : tree'[r] = IF r = q THEN merged ELSE tree[r]
    BY <1>2 DEF MergeCommit, TypeOK
  <2>5. \A r \in Quests : Exists(r)' <=> Exists(r)
    BY <1>2 DEF MergeCommit, Exists
  <2>6. ASSUME NEW v \in Workers, task'[v].kind = "merge"
        PROVE  Shaped(task'[v].tree) /\ task'[v].tree[Root] = tree'[task'[v].quest][Root]
    <3>1. v # w /\ task'[v] = task[v]
      BY <1>2, <2>6, Continues DEF MergeCommit, Idle
    <3>2. v \in Busy("merge") /\ task[v].quest \in Quests
      BY <2>6, <3>1, TaskQuest DEF Busy
    <3> HIDE DEF merged
    <3> QED BY <2>3, <2>4, <3>1, <3>2 DEF TreesShaped
  <2> HIDE DEF merged
  <2> QED BY <2>1, <2>3, <2>4, <2>5, <2>6 DEF TreesShaped, Busy
<1>3. ASSUME NEW w \in Workers, NEW q \in Quests, MergeRead(w, q) PROVE TreesShaped'
  BY <1>3, ShapeRemembered DEF MergeRead, TreesShaped, Exists
<1>4. ASSUME NEW w \in Workers, StatusCommit(w) PROVE TreesShaped'
  <2>1. Next /\ \A q \in Quests : ~ Create(q)
    <3>1. task' # task
      BY <1>4, Continues DEF StatusCommit, Idle
    <3> QED BY <1>4, <3>1 DEF Next, Step, Create, CreateFromWeb, CreateUnresolved, CreateFromBot,
                           CreateQuest
  <2>2. \A q \in Quests : Exists(q)' <=> Exists(q)
    BY <2>1, ExistsNext
  <2> QED BY <1>4, <2>2, ShapeRemembered DEF StatusCommit, Idle
<1>5. ASSUME NEW w \in Workers, NEW t, Continue(w, t), t.kind # "merge",
             tree' = tree, status' = status
      PROVE  TreesShaped'
  BY <1>5, ShapeRemembered DEF Exists
<1>6. ASSUME NEW w \in Workers, Request(w) PROVE TreesShaped'
  BY <1>3, <1>5, <1>6 DEF Request, PledgeRead, OfficerRead, WithdrawRead, TurnInRead
<1>7. ASSUME NEW w \in Workers, Step(w) PROVE TreesShaped'
  <2>1. CASE CheckStatus(w)
    <3>1. PICK next : Continue(w, next) /\ next.kind # "merge"
      BY <2>1 DEF CheckStatus, Idle
    <3> QED BY <1>5, <2>1, <3>1 DEF CheckStatus
  <2>2. CASE CheckAmounts(w)
    <3>1. PICK next : Continue(w, next) /\ next.kind # "merge"
      BY <2>2 DEF CheckAmounts, Idle
    <3> QED BY <1>5, <2>2, <3>1 DEF CheckAmounts
  <2>3. CASE TurnInCommit(w)
    BY <1>5, <2>3 DEF TurnInCommit, AfterTurnIn
  <2>4. CASE (\E p \in PledgeIds : PledgeCommit(w, p)) \/ WithdrawCommit(w) \/ FulfilRead(w)
             \/ MergeNothing(w)
    BY <1>5, <2>4 DEF PledgeCommit, WithdrawCommit, FulfilRead, MergeNothing, Idle
  <2> QED BY <1>2, <1>4, <1>7, <2>1, <2>2, <2>3, <2>4 DEF Step
<1>8. ASSUME NEW w \in Workers, Restart(w) PROVE TreesShaped'
  BY <1>5, <1>8 DEF Restart, Idle
<1>9. CASE UNCHANGED vars
  BY <1>9 DEF vars, TreesShaped, Busy, Exists
<1> QED BY <1>1, <1>6, <1>7, <1>8, <1>9 DEF Next

\* The stored trees have their shape in every reachable state.
LEMMA TreesAreShaped == Spec => []TreesShaped
<1>1. Init => TreesShaped
  BY DEF Init, TreesShaped, Exists, Busy, Idle
<1> QED BY <1>1, TypeCorrect, ShapeNext, PTL DEF Spec

-----------------------------------------------------------------------------
(* Pledges stay on their node *)

\* One process serves the board.
OneProcess == \A v, w \in Workers : v = w

\* The wiki gives the same answer to everybody, always.
OneRecipe == \A r, s \in Recipes : r = s

(***************************************************************************)
(* What a re-expansion read is still stored, or somebody else has merged   *)
(* the same recipe into it since.                                          *)
(***************************************************************************)
MergesKnown ==
  \A w \in Busy("merge") :
    \/ tree[task[w].quest] = task[w].tree
    \/ OneRecipe /\ \E r \in Recipes : tree[task[w].quest] = MergeRecipe(task[w].tree, r)

\* Under either assumption a quest's tree only ever changes by being re-expanded.
LEMMA TreeStep ==
  ASSUME TypeOK, MergesKnown, OneProcess \/ OneRecipe, Next,
         NEW q \in Quests, Exists(q)
  PROVE  \/ tree'[q] = tree[q]
         \/ \E r \in Recipes : Mergeable(tree[q], r) /\ tree'[q] = MergeRecipe(tree[q], r)
<1>1. ASSUME NEW r \in Quests, Create(r) PROVE tree'[q] = tree[q]
  BY <1>1 DEF Create, CreateFromWeb, CreateUnresolved, CreateFromBot, CreateQuest, TypeOK
<1>2. ASSUME NEW w \in Workers, NEW r \in Recipes, MergeCommit(w, r)
      PROVE  \/ tree'[q] = tree[q]
             \/ Mergeable(tree[q], r) /\ tree'[q] = MergeRecipe(tree[q], r)
  <2> DEFINE t == task[w]
             merged == MergeRecipe(t.tree, r)
  <2>1. /\ \/ tree[t.quest] = t.tree
           \/ OneRecipe /\ \E s \in Recipes : tree[t.quest] = MergeRecipe(t.tree, s)
        /\ tree'[q] = IF q = t.quest THEN merged ELSE tree[q]
        /\ Mergeable(t.tree, r)
    BY <1>2 DEF MergesKnown, Busy, MergeCommit, TypeOK
  <2>2. tree[t.quest] = t.tree \/ tree[t.quest] = merged
    BY <2>1 DEF OneRecipe
  <2> HIDE DEF merged
  <2>3. CASE tree[t.quest] = merged
    BY <2>1, <2>3
  <2>4. CASE tree[t.quest] = t.tree
    BY <2>1, <2>4 DEF merged
  <2> QED BY <2>2, <2>3, <2>4
<1>3. ASSUME NEW w \in Workers, Request(w) \/ Step(w) \/ Restart(w),
             \A r \in Recipes : ~ MergeCommit(w, r)
      PROVE  tree' = tree
  BY <1>3 DEF Request, PledgeRead, OfficerRead, MergeRead, WithdrawRead, TurnInRead, Restart,
              Step, PledgeCommit, WithdrawCommit, TurnInCommit, CheckStatus, CheckAmounts,
              FulfilRead, StatusCommit, MergeNothing
<1> QED BY <1>1, <1>2, <1>3 DEF Next

\* A step by which w goes on to remember t, and which stores no tree.
LEMMA MergesRemembered ==
  ASSUME TypeOK, MergesKnown, NEW w \in Workers, NEW t, Continue(w, t), tree' = tree,
         t.kind = "merge" => tree[t.quest] = t.tree
  PROVE  MergesKnown'
<1>1. ASSUME NEW v \in Workers, task'[v].kind = "merge"
      PROVE  \/ tree'[task'[v].quest] = task'[v].tree
             \/ OneRecipe /\ \E r \in Recipes :
                               tree'[task'[v].quest] = MergeRecipe(task'[v].tree, r)
  <2>1. task'[v] = IF v = w THEN t ELSE task[v]
    BY Continues
  <2> QED BY <1>1, <2>1 DEF MergesKnown, Busy
<1> QED BY <1>1 DEF MergesKnown, Busy

\* A commit of a re-expansion, seen by another one under way.
LEMMA MergesCommit ==
  ASSUME TypeOK, TreesShaped, MergesKnown, OneProcess \/ OneRecipe,
         NEW w \in Workers, NEW r \in Recipes, MergeCommit(w, r)
  PROVE  MergesKnown'
<1> DEFINE t == task[w]
           q == t.quest
           Known(u, T) == \/ T = u.tree
                          \/ OneRecipe /\ \E s \in Recipes : T = MergeRecipe(u.tree, s)
<1>1. /\ q \in Quests
      /\ tree' = [tree EXCEPT ![q] = MergeRecipe(t.tree, r)]
      /\ Mergeable(t.tree, r)
      /\ w \in Busy("merge")
  BY TaskQuest DEF MergeCommit, Busy
<1>2. SUFFICES ASSUME NEW v \in Workers, task'[v].kind = "merge"
               PROVE  Known(task'[v], tree'[task'[v].quest])
  BY DEF MergesKnown, Busy
<1> DEFINE u == task[v]
<1>3. v # w /\ task'[v] = u /\ u.kind = "merge" /\ v \in Busy("merge")
  BY <1>2, Continues DEF MergeCommit, Idle, Busy
<1>4. u.quest \in Quests /\ Shaped(u.tree) /\ Known(u, tree[u.quest]) /\ Known(t, tree[q])
  BY <1>1, <1>3, TaskQuest DEF TreesShaped, MergesKnown
<1>5. OneRecipe
  BY <1>3 DEF OneProcess
<1>6. CASE u.quest # q
  BY <1>1, <1>3, <1>4, <1>6 DEF TypeOK
<1>7. CASE u.quest = q
  <2>1. tree'[u.quest] = MergeRecipe(t.tree, r)
    BY <1>1, <1>7 DEF TypeOK
  <2>2. CASE tree[q] # t.tree
    <3>1. tree[q] = MergeRecipe(t.tree, r)
      BY <1>4, <1>5, <2>2 DEF OneRecipe
    <3>2. tree'[u.quest] = tree[u.quest]
      BY <1>7, <2>1, <3>1
    <3> HIDE DEF Known
    <3> QED BY <1>3, <1>4, <3>2
  <2>3. CASE tree[q] = t.tree
    <3>1. CASE tree[q] = u.tree
      BY <1>3, <1>5, <2>1, <2>3, <3>1
    <3>2. CASE tree[q] # u.tree
      <4>1. tree[q] = MergeRecipe(u.tree, r)
        BY <1>4, <1>5, <1>7, <3>2 DEF OneRecipe
      <4>2. FreshParts(MergeRecipe(u.tree, r), r) = {}
        BY <1>4, MergeShape
      <4> QED BY <1>1, <2>3, <4>1, <4>2 DEF Mergeable
    <3> QED BY <3>1, <3>2
  <2> QED BY <2>2, <2>3
<1> QED BY <1>6, <1>7

\* MergesKnown is inductive.
LEMMA MergesNext ==
  ASSUME OneProcess \/ OneRecipe
  PROVE  TypeOK /\ TreesShaped /\ MergesKnown /\ [Next]_vars => MergesKnown'
<1> SUFFICES ASSUME TypeOK, TreesShaped, MergesKnown, [Next]_vars PROVE MergesKnown'
  OBVIOUS
<1>1. ASSUME NEW q \in Quests, Create(q) PROVE MergesKnown'
  <2>1. PICK T : CreateQuest(q, T)
    BY <1>1, CreateShape
  <2>2. ASSUME NEW v \in Workers, task[v].kind = "merge"
        PROVE  tree'[task[v].quest] = tree[task[v].quest]
    <3>1. task[v].quest \in Quests /\ Exists(task[v].quest)
      BY <2>2, TaskQuest
    <3> QED BY <2>1, <3>1 DEF CreateQuest, TypeOK
  <2> QED BY <2>1, <2>2 DEF CreateQuest, MergesKnown, Busy
<1>2. ASSUME NEW w \in Workers, NEW t, Continue(w, t), t.kind # "merge", tree' = tree
      PROVE  MergesKnown'
  BY <1>2, MergesRemembered
<1>3. ASSUME NEW w \in Workers, Request(w) PROVE MergesKnown'
  <2>1. ASSUME NEW q \in Quests, MergeRead(w, q) PROVE MergesKnown'
    BY <2>1, MergesRemembered DEF MergeRead
  <2> QED BY <1>2, <1>3, <2>1 DEF Request, PledgeRead, OfficerRead, WithdrawRead, TurnInRead
<1>4. ASSUME NEW w \in Workers, Step(w) PROVE MergesKnown'
  <2>1. CASE CheckStatus(w)
    <3>1. PICK next : Continue(w, next) /\ next.kind # "merge"
      BY <2>1 DEF CheckStatus, Idle
    <3> QED BY <1>2, <2>1, <3>1 DEF CheckStatus
  <2>2. CASE CheckAmounts(w)
    <3>1. PICK next : Continue(w, next) /\ next.kind # "merge"
      BY <2>2 DEF CheckAmounts, Idle
    <3> QED BY <1>2, <2>2, <3>1 DEF CheckAmounts
  <2>3. CASE TurnInCommit(w)
    BY <1>2, <2>3 DEF TurnInCommit, AfterTurnIn
  <2>4. CASE (\E p \in PledgeIds : PledgeCommit(w, p)) \/ WithdrawCommit(w) \/ FulfilRead(w)
             \/ StatusCommit(w) \/ MergeNothing(w)
    BY <1>2, <2>4 DEF PledgeCommit, WithdrawCommit, FulfilRead, StatusCommit, MergeNothing, Idle
  <2>5. ASSUME NEW r \in Recipes, MergeCommit(w, r) PROVE MergesKnown'
    BY <2>5, MergesCommit
  <2> QED BY <1>4, <2>1, <2>2, <2>3, <2>4, <2>5 DEF Step
<1>5. ASSUME NEW w \in Workers, Restart(w) PROVE MergesKnown'
  BY <1>2, <1>5 DEF Restart, Idle
<1>6. CASE UNCHANGED vars
  BY <1>6 DEF vars, MergesKnown, Busy
<1> QED BY <1>1, <1>3, <1>4, <1>5, <1>6 DEF Next

\* A tree that is re-expanded, or not, keeps the ids and the nodes they name.
LEMMA NodesKept ==
  ASSUME TypeOK, TreesShaped, MergesKnown, OneProcess \/ OneRecipe, Next,
         NEW q \in Quests, Exists(q)
  PROVE  /\ NodeIds(tree[q]) \subseteq NodeIds(tree'[q])
         /\ \A id \in NodeIds(tree[q]) :
              tree'[q][NodeAt(tree'[q], id)] = tree[q][NodeAt(tree[q], id)]
<1>1. Shaped(tree[q])
  BY DEF TreesShaped
<1>2. CASE tree'[q] = tree[q]
  BY <1>2
<1>3. ASSUME NEW r \in Recipes, tree'[q] = MergeRecipe(tree[q], r)
      PROVE  /\ NodeIds(tree[q]) \subseteq NodeIds(tree'[q])
             /\ \A id \in NodeIds(tree[q]) :
                  tree'[q][NodeAt(tree'[q], id)] = tree[q][NodeAt(tree[q], id)]
  BY <1>1, <1>3, MergeShape
<1> QED BY <1>2, <1>3, TreeStep

\* Every pledge, and every pledge about to be stored, names a node of its quest.
PledgesAnchored ==
  /\ \A p \in PledgeIds \ Unused : pledges[p].node \in NodeIds(tree[pledges[p].quest])
  /\ \A w \in Busy("pledge") : task[w].node \in NodeIds(tree[task[w].quest])

\* Rows appear by PledgeCommit only, with what the handler remembered.
LEMMA NewRow ==
  ASSUME TypeOK, Next, NEW p \in Unused, p \notin Unused'
  PROVE  \E w \in Workers : PledgeCommit(w, p)
<1>p. p \in PledgeIds
  BY DEF Unused
<1>1. ASSUME NEW w \in Workers, NEW r \in PledgeIds \ Unused, NEW row,
             pledges' = [pledges EXCEPT ![r] = row]
      PROVE  p \in Unused'
  BY <1>1, <1>p DEF TypeOK, Unused
<1>2. ASSUME pledges' = pledges PROVE p \in Unused'
  BY <1>2 DEF Unused
<1>3. ASSUME NEW w \in Workers, WithdrawCommit(w) PROVE p \in Unused'
  <2>1. task[w].pledge \in PledgeIds \ Unused
    BY <1>3, TaskPledge DEF WithdrawCommit
  <2> QED BY <1>1, <1>3, <2>1 DEF WithdrawCommit
<1>4. ASSUME NEW w \in Workers, TurnInCommit(w) PROVE p \in Unused'
  <2>1. task[w].pledge \in PledgeIds \ Unused
    BY <1>4, TaskPledge DEF TurnInCommit
  <2> QED BY <1>1, <1>4, <2>1 DEF TurnInCommit
<1>5. ASSUME NEW w \in Workers, NEW r \in PledgeIds, PledgeCommit(w, r), r # p
      PROVE  p \in Unused'
  BY <1>5, <1>p DEF PledgeCommit, TypeOK, Unused
<1>6. ASSUME NEW q \in Quests, Create(q) PROVE pledges' = pledges
  BY <1>6 DEF Create, CreateFromWeb, CreateUnresolved, CreateFromBot, CreateQuest
<1>7. ASSUME NEW w \in Workers, Request(w) \/ Restart(w) PROVE pledges' = pledges
  BY <1>7 DEF Request, PledgeRead, OfficerRead, MergeRead, WithdrawRead, TurnInRead, Restart
<1> QED
  BY <1>2, <1>3, <1>4, <1>5, <1>6, <1>7 DEF Next, Step, CheckStatus, CheckAmounts, FulfilRead,
     StatusCommit, MergeCommit, MergeNothing

\* A handler that remembers something new has made a step of its own.
LEMMA TaskMoves ==
  ASSUME TypeOK, Next, NEW v \in Workers, task'[v] # task[v]
  PROVE  Request(v) \/ Step(v) \/ Restart(v)
<1>1. ASSUME NEW q \in Quests, Create(q) PROVE FALSE
  BY <1>1 DEF Create, CreateFromWeb, CreateUnresolved, CreateFromBot, CreateQuest
<1>2. ASSUME NEW w \in Workers, Request(w) \/ Step(w) \/ Restart(w) PROVE w = v
  <2>1. \E t : Continue(w, t)
    BY <1>2 DEF Request, PledgeRead, OfficerRead, MergeRead, WithdrawRead, TurnInRead, Restart,
                Step, PledgeCommit, WithdrawCommit, TurnInCommit, CheckStatus, CheckAmounts,
                FulfilRead, StatusCommit, MergeCommit, MergeNothing
  <2> QED BY <2>1, Continues
<1> QED BY <1>1, <1>2 DEF Next

\* What a handler remembers tells the step it has made last.
LEMMA TaskOrigin ==
  ASSUME TypeOK, Next, NEW v \in Workers, task'[v] # task[v]
  PROVE  LET kind == task'[v].kind
         IN  /\ kind = "pledge" =>
                  \E q \in Quests :
                    \E node \in 0..Cardinality(DOMAIN tree[q]), who \in People,
                       qty \in PledgeQtys : PledgeRead(v, q, node, who, qty)
             /\ kind = "withdraw" => \E p \in PledgeIds, who \in People : WithdrawRead(v, p, who)
             /\ kind = "turnin" =>
                  \E p \in PledgeIds, who \in People, ask \in Asks : TurnInRead(v, p, who, ask)
             /\ kind = "check" => TurnInCommit(v)
             /\ kind = "amounts" => CheckStatus(v)
             /\ kind = "fulfil" => CheckAmounts(v)
             /\ kind = "status" =>
                  FulfilRead(v) \/ \E q \in Quests, to \in Decisions : OfficerRead(v, q, to)
             /\ kind = "merge" => \E q \in Quests : MergeRead(v, q)
<1>1. ASSUME NEW t, Continue(v, t) PROVE task'[v] = t
  BY <1>1, Continues
<1>2. CASE Request(v)
  <2>1. ASSUME NEW q \in Quests, NEW node \in 0..Cardinality(DOMAIN tree[q]), NEW who \in People,
               NEW qty \in PledgeQtys, PledgeRead(v, q, node, who, qty)
        PROVE  task'[v].kind = "pledge"
    BY <1>1, <2>1 DEF PledgeRead
  <2>2. ASSUME NEW q \in Quests, NEW to \in Decisions, OfficerRead(v, q, to)
        PROVE  task'[v].kind = "status"
    BY <1>1, <2>2 DEF OfficerRead
  <2>3. ASSUME NEW q \in Quests, MergeRead(v, q) PROVE task'[v].kind = "merge"
    BY <1>1, <2>3 DEF MergeRead
  <2>4. ASSUME NEW p \in PledgeIds, NEW who \in People, WithdrawRead(v, p, who)
        PROVE  task'[v].kind = "withdraw"
    BY <1>1, <2>4 DEF WithdrawRead
  <2>5. ASSUME NEW p \in PledgeIds, NEW who \in People, NEW ask \in Asks, TurnInRead(v, p, who, ask)
        PROVE  task'[v].kind = "turnin"
    BY <1>1, <2>5 DEF TurnInRead
  <2>6. CASE \E q \in Quests :
               \E node \in 0..Cardinality(DOMAIN tree[q]), who \in People, qty \in PledgeQtys :
                  PledgeRead(v, q, node, who, qty)
    BY <2>1, <2>6
  <2>7. CASE \E q \in Quests : \E to \in Decisions : OfficerRead(v, q, to)
    BY <2>2, <2>7
  <2>8. CASE \E q \in Quests : MergeRead(v, q)
    BY <2>3, <2>8
  <2>9. CASE \E p \in PledgeIds, who \in People : WithdrawRead(v, p, who)
    BY <2>4, <2>9
  <2>10. CASE \E p \in PledgeIds, who \in People : \E ask \in Asks : TurnInRead(v, p, who, ask)
    BY <2>5, <2>10
  <2> QED BY <1>2, <2>6, <2>7, <2>8, <2>9, <2>10 DEF Request
<1>3. CASE Restart(v)
  BY <1>1, <1>3 DEF Restart, Idle
<1>4. CASE Step(v)
  <2>1. CASE CheckStatus(v)
    BY <1>1, <2>1 DEF CheckStatus, Idle
  <2>2. CASE CheckAmounts(v)
    BY <1>1, <2>2 DEF CheckAmounts, Idle
  <2>3. CASE FulfilRead(v) \/ TurnInCommit(v)
    BY <1>1, <2>3 DEF FulfilRead, TurnInCommit, AfterTurnIn
  <2>4. ASSUME Continue(v, Idle) PROVE task'[v].kind = "idle"
    BY <1>1, <2>4 DEF Idle
  <2> QED BY <1>4, <2>1, <2>2, <2>3, <2>4 DEF Step, PledgeCommit, WithdrawCommit, StatusCommit,
                                      MergeCommit, MergeNothing
<1> QED BY <1>2, <1>3, <1>4, TaskMoves

\* PledgesAnchored is inductive.
LEMMA AnchoredNext ==
  ASSUME OneProcess \/ OneRecipe
  PROVE  TypeOK /\ TreesShaped /\ MergesKnown /\ PledgesAnchored /\ [Next]_vars => PledgesAnchored'
<1> SUFFICES ASSUME TypeOK, TreesShaped, MergesKnown, PledgesAnchored, [Next]_vars
             PROVE  PledgesAnchored'
  OBVIOUS
<1>1. CASE UNCHANGED vars
  BY <1>1 DEF vars, PledgesAnchored, Busy, Unused
<1>2. CASE Next
  <2>1. ASSUME NEW q \in Quests, Exists(q) PROVE NodeIds(tree[q]) \subseteq NodeIds(tree'[q])
    BY <1>2, <2>1, NodesKept
  <2>2. ASSUME NEW w \in Workers, task'[w].kind = "pledge"
        PROVE  task'[w].node \in NodeIds(tree'[task'[w].quest])
    <3>1. CASE task'[w] = task[w]
      <4>1. /\ task[w].quest \in Quests /\ Exists(task[w].quest)
            /\ task[w].node \in NodeIds(tree[task[w].quest])
        BY <2>2, <3>1, TaskQuest DEF PledgesAnchored, Busy
      <4> QED BY <2>1, <3>1, <4>1
    <3>2. CASE task'[w] # task[w]
      <4>0. PICK q \in Quests :
              \E node \in 0..Cardinality(DOMAIN tree[q]), who \in People,
                 qty \in PledgeQtys : PledgeRead(w, q, node, who, qty)
        BY <1>2, <2>2, <3>2, TaskOrigin
      <4>1. PICK node \in 0..Cardinality(DOMAIN tree[q]), who \in People, qty \in PledgeQtys :
              PledgeRead(w, q, node, who, qty)
        BY <4>0
      <4>2. task'[w].node = node /\ task'[w].quest = q
        BY <4>1, Continues DEF PledgeRead
      <4> QED BY <4>1, <4>2 DEF PledgeRead, Pledgeable
    <3> QED BY <3>1, <3>2
  <2>3. ASSUME NEW p \in PledgeIds \ Unused'
        PROVE  pledges'[p].node \in NodeIds(tree'[pledges'[p].quest])
    <3>1. CASE p \in Unused
      <4>1. PICK w \in Workers : PledgeCommit(w, p)
        BY <1>2, <2>3, <3>1, NewRow
      <4>2. /\ task[w].quest \in Quests /\ Exists(task[w].quest)
            /\ task[w].node \in NodeIds(tree[task[w].quest])
        BY <4>1, TaskQuest DEF PledgeCommit, PledgesAnchored, Busy
      <4>3. pledges'[p].node = task[w].node /\ pledges'[p].quest = task[w].quest
        BY <4>1 DEF PledgeCommit, TypeOK
      <4> QED BY <2>1, <4>2, <4>3
    <3>2. CASE p \notin Unused
      <4>1. /\ pledges[p].quest \in Quests /\ Exists(pledges[p].quest)
            /\ pledges[p].node \in NodeIds(tree[pledges[p].quest])
        BY <3>2, UsedRow DEF PledgesAnchored
      <4>2. pledges'[p].node = pledges[p].node /\ pledges'[p].quest = pledges[p].quest
        <5>1. RowsKept \/ UNCHANGED vars
          BY <1>2, RowsNext
        <5> QED BY <3>2, <5>1 DEF RowsKept, Promise, vars
      <4> QED BY <2>1, <4>1, <4>2
    <3> QED BY <3>1, <3>2
  <2> QED BY <2>2, <2>3 DEF PledgesAnchored, Busy
<1> QED BY <1>1, <1>2

\* In the empty database there is nothing to be wrong about.
LEMMA InitAnchored == Init => MergesKnown /\ PledgesAnchored
BY DEF Init, MergesKnown, PledgesAnchored, Busy, Unused, Idle

\* What a re-expansion in progress knows, in every reachable state.
LEMMA MergesAreKnown ==
  ASSUME OneProcess \/ OneRecipe
  PROVE  Spec => []MergesKnown
BY InitAnchored, TypeCorrect, TreesAreShaped, MergesNext, PTL DEF Spec

(***************************************************************************)
(* A live pledge names a node of its quest: with one process whatever the  *)
(* wiki says, and with any number of processes as long as the wiki's       *)
(* answer does not change.                                                 *)
(***************************************************************************)
THEOREM PledgesAreOnTree ==
  ASSUME OneProcess \/ OneRecipe
  PROVE  Spec => []PledgesOnTree
<1>1. PledgesAnchored => PledgesOnTree
  BY DEF PledgesAnchored, PledgesOnTree
<1> QED
  BY <1>1, InitAnchored, TypeCorrect, TreesAreShaped, MergesAreKnown, AnchoredNext, PTL DEF Spec

\* A step leaves every pledge's node as it is.
LEMMA NodeKept ==
  ASSUME OneProcess \/ OneRecipe
  PROVE  TypeOK /\ TreesShaped /\ MergesKnown /\ PledgesOnTree /\ [Next]_vars =>
           [\A p \in PledgeIds \ Unused :
              LET q    == pledges[p].quest
                  node == pledges[p].node
              IN  ~ pledges[p].withdrawn =>
                    /\ node \in NodeIds(tree'[q])
                    /\ tree'[q][NodeAt(tree'[q], node)] = tree[q][NodeAt(tree[q], node)]]_vars
<1> SUFFICES ASSUME TypeOK, TreesShaped, MergesKnown, PledgesOnTree, Next,
                    NEW p \in PledgeIds \ Unused, ~ pledges[p].withdrawn
             PROVE  LET q    == pledges[p].quest
                        node == pledges[p].node
                    IN  /\ node \in NodeIds(tree'[q])
                        /\ tree'[q][NodeAt(tree'[q], node)] = tree[q][NodeAt(tree[q], node)]
  OBVIOUS
<1>1. /\ pledges[p].quest \in Quests /\ Exists(pledges[p].quest)
      /\ pledges[p].node \in NodeIds(tree[pledges[p].quest])
  BY UsedRow DEF PledgesOnTree
<1> QED BY <1>1, NodesKept

(***************************************************************************)
(* Under the same assumption a live pledge keeps naming the same item with *)
(* the same requirement: re-expansion never slides one under it.           *)
(***************************************************************************)
THEOREM PledgesKeptTheirNode ==
  ASSUME OneProcess \/ OneRecipe
  PROVE  Spec => PledgesKeepTheirNode
BY TypeCorrect, TreesAreShaped, MergesAreKnown, PledgesAreOnTree, NodeKept, PTL
   DEF Spec, PledgesKeepTheirNode

-----------------------------------------------------------------------------
(* When a quest is complete *)

\* The live pledges on the root of q, and what they have turned in together.
OnRoot(q) == {p \in Live(q) : pledges[p].node = 0}

RootTurned(q) == SumFunctionOnSet([p \in Live(q) |-> pledges[p].turned], OnRoot(q))

\* The rows a sum runs over.
LEMMA LiveRows ==
  ASSUME TypeOK, NEW q \in Quests
  PROVE  /\ IsFiniteSet(Live(q)) /\ IsFiniteSet(OnRoot(q))
         /\ OnRoot(q) \subseteq Live(q)
         /\ \A p \in Live(q) : p \in PledgeIds \ Unused /\ pledges[p].turned \in Nat
<1>1. Live(q) \subseteq PledgeIds /\ OnRoot(q) \subseteq Live(q)
  BY DEF Live, OnRoot
<1>2. IsFiniteSet(Live(q)) /\ IsFiniteSet(OnRoot(q))
  BY <1>1, FS_Subset, QuestboardConstants
<1>3. ASSUME NEW p \in Live(q) PROVE p \in PledgeIds \ Unused
  BY DEF Live, Unused
<1> QED BY <1>1, <1>2, <1>3, UsedRow DEF Row

\* The sum is a number.
LEMMA RootTurnedType == TypeOK => \A q \in Quests : RootTurned(q) \in Nat
<1> SUFFICES ASSUME TypeOK, NEW q \in Quests PROVE RootTurned(q) \in Nat
  OBVIOUS
<1> DEFINE f == [p \in Live(q) |-> pledges[p].turned]
<1>1. \A p \in OnRoot(q) : f[p] \in Nat
  BY LiveRows
<1> HIDE DEF f
<1>2. SumFunctionOnSet(f, OnRoot(q)) \in Nat
  BY <1>1, LiveRows, SumIsNat
<1> QED BY <1>2 DEF RootTurned, f

\* So it is after a step.
LEMMA RootTurnedTypeNext == (TypeOK => \A q \in Quests : RootTurned(q) \in Nat)'
BY RootTurnedType, PTL

(***************************************************************************)
(* What the handler that closes quests computes from the whole tree comes  *)
(* down to this: what was turned in on the root covers its quantity.       *)
(***************************************************************************)
LEMMA CompleteAtRoot ==
  TypeOK /\ TreesShaped =>
    \A q \in Quests :
      Exists(q) => (Complete(q) <=> RootTurned(q) >= AtLeastOne(tree[q][Root].qty))
<1> SUFFICES ASSUME TypeOK, TreesShaped, NEW q \in Quests, Exists(q)
             PROVE  Complete(q) <=> RootTurned(q) >= AtLeastOne(tree[q][Root].qty)
  OBVIOUS
<1>s. Shaped(tree[q])
  BY DEF TreesShaped
<1> DEFINE f == [p \in Live(q) |-> pledges[p].turned]
           W == WebTree(tree[q])
<1>1. NodeId(W, Root) = 0 /\ W[Root].qty = AtLeastOne(tree[q][Root].qty)
  BY <1>s, WebTreeIsFlat DEF Shaped
<1>2. AmountOf(TurnedIn(q), 0) = RootTurned(q)
  <2>1. CASE 0 \in {pledges[p].node : p \in Live(q)}
    BY <2>1 DEF AmountOf, TurnedIn, SumByNode, RootTurned, OnRoot
  <2>2. CASE 0 \notin {pledges[p].node : p \in Live(q)}
    <3>1. OnRoot(q) = {}
      BY <2>2 DEF OnRoot
    <3>2. RootTurned(q) = 0
      <4>1. SumFunctionOnSet(f, {}) = 0
        <5> HIDE DEF f
        <5> QED BY SumUnfolds, FS_EmptySet
      <4> QED BY <3>1, <4>1 DEF RootTurned
    <3>3. AmountOf(TurnedIn(q), 0) = 0
      BY <2>2 DEF AmountOf, TurnedIn, SumByNode
    <3> QED BY <3>2, <3>3
  <2> QED BY <2>1, <2>2
<1> HIDE DEF W
<1>3. ChainSum(W, TurnedIn(q), Root) = <<RootTurned(q), AtLeastOne(tree[q][Root].qty)>>
  BY <1>1, <1>2, ChainSumAtRoot
<1> QED BY <1>3 DEF Complete, QuestComplete, Covers, W

\* Two states in which the same rows count the same.
LEMMA RootTurnedSame ==
  ASSUME TypeOK, NEW q \in Quests, OnRoot(q)' = OnRoot(q),
         \A p \in OnRoot(q) : pledges'[p].turned = pledges[p].turned
  PROVE  RootTurned(q)' = RootTurned(q)
<1> DEFINE f == [p \in Live(q) |-> pledges[p].turned]
           g == [p \in Live(q)' |-> pledges'[p].turned]
<1>1. OnRoot(q) \subseteq Live(q) /\ OnRoot(q)' \subseteq Live(q)'
  BY DEF OnRoot
<1>2. \A p \in OnRoot(q) : f[p] = g[p]
  BY <1>1
<1> HIDE DEF f, g
<1>3. SumFunctionOnSet(f, OnRoot(q)) = SumFunctionOnSet(g, OnRoot(q))
  BY <1>2, LiveRows, SumAgrees
<1>4. RootTurned(q) = SumFunctionOnSet(f, OnRoot(q))
  BY DEF RootTurned, f
<1>5. RootTurned(q)' = SumFunctionOnSet(g, OnRoot(q)')
  BY DEF RootTurned, g
<1> QED BY <1>3, <1>4, <1>5

\* A row that leaves the sum lowers it, or leaves it as it was.
LEMMA RootTurnedWithout ==
  ASSUME TypeOK, NEW q \in Quests, NEW r, OnRoot(q)' = OnRoot(q) \ {r},
         \A p \in OnRoot(q) \ {r} : pledges'[p].turned = pledges[p].turned
  PROVE  RootTurned(q)' <= RootTurned(q)
<1> DEFINE f == [p \in Live(q) |-> pledges[p].turned]
           g == [p \in Live(q)' |-> pledges'[p].turned]
           S == OnRoot(q)
<1>1. OnRoot(q) \subseteq Live(q) /\ OnRoot(q)' \subseteq Live(q)'
  BY DEF OnRoot
<1>2. /\ IsFiniteSet(S) /\ IsFiniteSet(S \ {r})
      /\ \A p \in S : f[p] \in Nat
      /\ \A p \in S \ {r} : f[p] = g[p]
  BY <1>1, LiveRows, FS_RemoveElement
<1>3. RootTurned(q) = SumFunctionOnSet(f, S) /\ RootTurned(q)' = SumFunctionOnSet(g, S \ {r})
  BY DEF RootTurned
<1> HIDE DEF f, g, S
<1>4. SumFunctionOnSet(g, S \ {r}) = SumFunctionOnSet(f, S \ {r})
  BY <1>2, SumAgrees
<1>5. SumFunctionOnSet(f, S) \in Nat /\ SumFunctionOnSet(f, S \ {r}) \in Nat
  BY <1>2, SumIsNat
<1>6. CASE r \in S
  <2>1. SumFunctionOnSet(f, S) = f[r] + SumFunctionOnSet(f, S \ {r}) /\ f[r] \in Nat
    BY <1>2, <1>6, SumWithout
  <2> QED BY <1>3, <1>4, <1>5, <2>1
<1>7. CASE r \notin S
  <2>1. S \ {r} = S
    BY <1>7
  <2> QED BY <1>3, <1>4, <1>5, <2>1
<1> QED BY <1>6, <1>7

\* A row that enters the sum with nothing turned in leaves it as it was.
LEMMA RootTurnedWith ==
  ASSUME TypeOK, TypeOK', NEW q \in Quests, NEW r, OnRoot(q)' = OnRoot(q) \cup {r},
         r \notin OnRoot(q), pledges'[r].turned = 0,
         \A p \in OnRoot(q) : pledges'[p].turned = pledges[p].turned
  PROVE  RootTurned(q)' = RootTurned(q)
<1> DEFINE f == [p \in Live(q) |-> pledges[p].turned]
           g == [p \in Live(q)' |-> pledges'[p].turned]
           S == OnRoot(q)
<1>1. OnRoot(q) \subseteq Live(q) /\ OnRoot(q)' \subseteq Live(q)'
  BY DEF OnRoot
<1>2. /\ IsFiniteSet(S) /\ IsFiniteSet(S \cup {r})
      /\ \A p \in S : f[p] \in Nat /\ g[p] = f[p]
      /\ g[r] = 0
      /\ r \notin S
  BY <1>1, LiveRows, FS_AddElement
<1>3. RootTurned(q) = SumFunctionOnSet(f, S) /\ RootTurned(q)' = SumFunctionOnSet(g, S \cup {r})
  BY DEF RootTurned
<1> HIDE DEF f, g, S
<1>4. SumFunctionOnSet(f, S) = SumFunctionOnSet(g, S)
  BY <1>2, SumAgrees
<1>5. SumFunctionOnSet(g, S) \in Nat
  BY <1>2, SumIsNat
<1>6. (S \cup {r}) \ {r} = S /\ \A p \in S \cup {r} : g[p] \in Nat
  BY <1>2
<1>7. SumFunctionOnSet(g, S \cup {r}) = g[r] + SumFunctionOnSet(g, (S \cup {r}) \ {r})
  BY <1>2, <1>6, SumWithout
<1>8. SumFunctionOnSet(g, S \cup {r}) = 0 + SumFunctionOnSet(g, S)
  BY <1>2, <1>6, <1>7
<1> QED BY <1>3, <1>4, <1>5, <1>8

\* How each step changes the rows.
LEMMA RowActions ==
  ASSUME TypeOK, Next
  PROVE  \/ pledges' = pledges /\ ledger' = ledger
         \/ \E w \in Workers : \E p \in PledgeIds : PledgeCommit(w, p)
         \/ \E w \in Workers : WithdrawCommit(w)
         \/ \E w \in Workers : TurnInCommit(w)
<1>1. ASSUME NEW q \in Quests, Create(q) PROVE pledges' = pledges /\ ledger' = ledger
  BY <1>1 DEF Create, CreateFromWeb, CreateUnresolved, CreateFromBot, CreateQuest
<1>2. ASSUME NEW w \in Workers, Request(w) \/ Restart(w)
      PROVE  pledges' = pledges /\ ledger' = ledger
  BY <1>2 DEF Request, PledgeRead, OfficerRead, MergeRead, WithdrawRead, TurnInRead, Restart
<1> QED BY <1>1, <1>2 DEF Next, Step, CheckStatus, CheckAmounts, FulfilRead, StatusCommit,
                        MergeCommit, MergeNothing

\* Only a turn-in on the quest itself adds to what was turned in on its root.
LEMMA RootTurnedNext ==
  ASSUME TypeOK, Next, NEW q \in Quests,
         \A w \in Workers : TurnInCommit(w) => pledges[task[w].pledge].quest # q
  PROVE  RootTurned(q)' <= RootTurned(q)
<1>t. TypeOK' /\ RootTurned(q) \in Nat /\ RootTurned(q)' \in Nat
  <2>1. TypeOK'
    BY NextType
  <2> QED BY <2>1, RootTurnedType, RootTurnedTypeNext
<1>1. CASE pledges' = pledges
  <2>1. RootTurned(q)' = RootTurned(q)
    BY <1>1 DEF RootTurned, Live, OnRoot
  <2> QED BY <1>t, <2>1
<1>2. ASSUME NEW w \in Workers, NEW r \in PledgeIds, PledgeCommit(w, r)
      PROVE  RootTurned(q)' <= RootTurned(q)
  <2>1. \A p \in PledgeIds \ {r} : pledges'[p] = pledges[p]
    BY <1>2 DEF PledgeCommit, TypeOK
  <2>2. /\ r \in Unused
        /\ pledges'[r].turned = 0
        /\ r \notin OnRoot(q)
    BY <1>2 DEF PledgeCommit, TypeOK, OnRoot, Live, Unused
  <2>3. OnRoot(q)' \ {r} = OnRoot(q)
    BY <2>1, <2>2 DEF OnRoot, Live
  <2>4. \A p \in OnRoot(q) : pledges'[p].turned = pledges[p].turned
    BY <2>1, <2>2 DEF OnRoot, Live
  <2>5. OnRoot(q)' = OnRoot(q) \/ OnRoot(q)' = OnRoot(q) \cup {r}
    BY <2>3
  <2>6. RootTurned(q)' = RootTurned(q)
    BY <1>t, <2>2, <2>4, <2>5, RootTurnedSame, RootTurnedWith
  <2> QED BY <1>t, <2>6
<1>3. ASSUME NEW w \in Workers, WithdrawCommit(w)
      PROVE  RootTurned(q)' <= RootTurned(q)
  <2> DEFINE r == task[w].pledge
  <2>1. r \in PledgeIds \ Unused /\ pledges[r] \in Row
    BY <1>3, TaskPledge DEF WithdrawCommit
  <2>2. /\ \A p \in PledgeIds \ {r} : pledges'[p] = pledges[p]
        /\ pledges'[r].withdrawn
    BY <1>3, <2>1 DEF WithdrawCommit, TypeOK, Row
  <2>3. OnRoot(q)' = OnRoot(q) \ {r}
    BY <2>1, <2>2 DEF OnRoot, Live
  <2>4. \A p \in OnRoot(q) \ {r} : pledges'[p].turned = pledges[p].turned
    BY <2>2 DEF OnRoot, Live
  <2> HIDE DEF r
  <2> QED BY <2>3, <2>4, RootTurnedWithout
<1>4. ASSUME NEW w \in Workers, TurnInCommit(w)
      PROVE  RootTurned(q)' <= RootTurned(q)
  <2> DEFINE r == task[w].pledge
  <2>1. r \in PledgeIds \ Unused /\ pledges[r] \in Row /\ pledges[r].quest # q
    BY <1>4, TaskPledge DEF TurnInCommit
  <2>2. /\ \A p \in PledgeIds \ {r} : pledges'[p] = pledges[p]
        /\ pledges'[r].quest # q
    BY <1>4, <2>1 DEF TurnInCommit, TurnedInRow, TypeOK, Row
  <2>3. OnRoot(q)' = OnRoot(q)
    BY <2>1, <2>2 DEF OnRoot, Live
  <2>4. \A p \in OnRoot(q) : pledges'[p].turned = pledges[p].turned
    BY <2>1, <2>2 DEF OnRoot, Live
  <2>5. RootTurned(q)' = RootTurned(q)
    BY <2>3, <2>4, RootTurnedSame
  <2> QED BY <1>t, <2>5
<1> QED BY <1>1, <1>2, <1>3, <1>4, RowActions

\* Whoever re-expands a quest, from whatever tree it read, its root stays as it was.
LEMMA RootKept ==
  ASSUME TypeOK, TreesShaped, Next, NEW q \in Quests, Exists(q)
  PROVE  tree'[q][Root] = tree[q][Root]
<1>1. ASSUME NEW r \in Quests, Create(r) PROVE tree'[q] = tree[q]
  BY <1>1 DEF Create, CreateFromWeb, CreateUnresolved, CreateFromBot, CreateQuest, TypeOK
<1>2. ASSUME NEW w \in Workers, NEW r \in Recipes, MergeCommit(w, r)
      PROVE  tree'[q][Root] = tree[q][Root]
  <2> DEFINE t == task[w]
             merged == MergeRecipe(t.tree, r)
  <2>1. /\ Shaped(t.tree) /\ t.tree[Root] = tree[t.quest][Root]
        /\ tree'[q] = IF q = t.quest THEN merged ELSE tree[q]
    BY <1>2 DEF TreesShaped, Busy, MergeCommit, TypeOK
  <2>2. merged[Root] = t.tree[Root]
    BY <2>1, MergeShape
  <2> HIDE DEF merged
  <2> QED BY <2>1, <2>2
<1>3. ASSUME NEW w \in Workers, Request(w) \/ Step(w) \/ Restart(w),
             \A r \in Recipes : ~ MergeCommit(w, r)
      PROVE  tree' = tree
  BY <1>3 DEF Request, PledgeRead, OfficerRead, MergeRead, WithdrawRead, TurnInRead, Restart,
              Step, PledgeCommit, WithdrawCommit, TurnInCommit, CheckStatus, CheckAmounts,
              FulfilRead, StatusCommit, MergeNothing
<1> QED BY <1>1, <1>2, <1>3 DEF Next

\* CompleteAtRoot, after a step.
LEMMA CompleteAtRootNext ==
  (TypeOK /\ TreesShaped =>
     \A q \in Quests :
       Exists(q) => (Complete(q) <=> RootTurned(q) >= AtLeastOne(tree[q][Root].qty)))'
BY CompleteAtRoot, PTL

\* A quest becomes complete by a turn-in on it, and in no other way.
LEMMA CompleteNext ==
  ASSUME TypeOK, TreesShaped, Next, NEW q \in Quests, Complete(q)',
         \A w \in Workers : TurnInCommit(w) => pledges[task[w].pledge].quest # q
  PROVE  Complete(q)
<1>1. TypeOK' /\ TreesShaped' /\ Exists(q)'
  BY NextType, ShapeNext DEF Complete
<1>2. RootTurned(q)' >= AtLeastOne(tree'[q][Root].qty)
  BY <1>1, CompleteAtRootNext DEF AtLeastOne
<1>3. RootTurned(q)' <= RootTurned(q) /\ RootTurned(q)' \in Nat /\ RootTurned(q) \in Nat
  BY <1>1, RootTurnedNext, RootTurnedType, RootTurnedTypeNext
<1>4. CASE Exists(q)
  <2>1. tree'[q][Root] = tree[q][Root] /\ tree[q][Root].qty \in Int
    BY <1>4, RootKept DEF TreesShaped, Shaped
  <2> QED BY <1>2, <1>3, <1>4, <2>1, CompleteAtRoot DEF AtLeastOne
<1>5. CASE ~ Exists(q)
  <2>1. OnRoot(q) = {}
    BY <1>5, UsedRow DEF OnRoot, Live, Unused
  <2>2. RootTurned(q) = 0
    <3> DEFINE f == [p \in Live(q) |-> pledges[p].turned]
    <3>1. SumFunctionOnSet(f, {}) = 0
      <4> HIDE DEF f
      <4> QED BY SumUnfolds, FS_EmptySet
    <3> QED BY <2>1, <3>1 DEF RootTurned
  <2>3. tree'[q][Root].qty \in Int
    BY <1>1 DEF TreesShaped, Shaped
  <2> QED BY <1>2, <1>3, <2>2, <2>3 DEF AtLeastOne
<1> QED BY <1>4, <1>5

-----------------------------------------------------------------------------
(* Somebody closes what is complete *)

\* A quest whose status nobody has changed is as it was created.
Untouched == \A q \in Quests : statusBy[q] = "nobody" => status[q] \in {"absent", "open"}

\* What each step does to the column statusBy.
LEMMA StatusActions ==
  ASSUME TypeOK, Next
  PROVE  \/ status' = status /\ statusBy' = statusBy
         \/ \E q \in Quests : status' = [status EXCEPT ![q] = "open"] /\ statusBy' = statusBy
         \/ \E w \in Workers : StatusCommit(w)
<1>1. ASSUME NEW q \in Quests, Create(q)
      PROVE  status' = [status EXCEPT ![q] = "open"] /\ statusBy' = statusBy
  BY <1>1 DEF Create, CreateFromWeb, CreateUnresolved, CreateFromBot, CreateQuest
<1>2. ASSUME NEW w \in Workers, Request(w) \/ Step(w) \/ Restart(w), ~ StatusCommit(w)
      PROVE  status' = status /\ statusBy' = statusBy
  BY <1>2 DEF Request, PledgeRead, OfficerRead, MergeRead, WithdrawRead, TurnInRead, Restart,
              Step, PledgeCommit, WithdrawCommit, TurnInCommit, CheckStatus, CheckAmounts,
              FulfilRead, MergeCommit, MergeNothing
<1> QED BY <1>1, <1>2 DEF Next

\* Untouched is inductive, and a status once set by somebody stays so.
LEMMA UntouchedNext ==
  TypeOK /\ Untouched /\ [Next]_vars =>
    Untouched' /\ \A q \in Quests : statusBy'[q] = "nobody" => statusBy[q] = "nobody"
<1> SUFFICES ASSUME TypeOK, Untouched, [Next]_vars, NEW q \in Quests, statusBy'[q] = "nobody"
             PROVE  status'[q] \in {"absent", "open"} /\ statusBy[q] = "nobody"
  BY DEF Untouched
<1>1. CASE status' = status /\ statusBy' = statusBy
  BY <1>1 DEF Untouched
<1>2. ASSUME NEW r \in Quests, status' = [status EXCEPT ![r] = "open"], statusBy' = statusBy
      PROVE  status'[q] \in {"absent", "open"} /\ statusBy[q] = "nobody"
  BY <1>2 DEF Untouched, TypeOK
<1>3. ASSUME NEW w \in Workers, StatusCommit(w)
      PROVE  status'[q] \in {"absent", "open"} /\ statusBy[q] = "nobody"
  <2>1. task[w].by \in {"board", "officer"}
    <3>1. task[w].kind = "status" /\ TaskOK(task[w])
      BY <1>3 DEF StatusCommit, TypeOK
    <3> QED BY <3>1, TaskByKind
  <2>2. task[w].quest # q
    BY <1>3, <2>1 DEF StatusCommit, TypeOK
  <2> QED BY <1>3, <2>2 DEF StatusCommit, TypeOK, Untouched
<1> QED BY <1>1, <1>2, <1>3, StatusActions DEF vars

\* A quest stays orphaned until the next turn-in on it.
LEMMA OrphanedNext ==
  ASSUME TypeOK, Next, NEW q \in Quests, q \notin orphaned',
         \A w \in Workers : TurnInCommit(w) => pledges[task[w].pledge].quest # q
  PROVE  q \notin orphaned
<1>1. ASSUME NEW r \in Quests, Create(r) PROVE orphaned' = orphaned
  BY <1>1 DEF Create, CreateFromWeb, CreateUnresolved, CreateFromBot, CreateQuest
<1>2. ASSUME NEW w \in Workers, Request(w) PROVE orphaned' = orphaned
  BY <1>2 DEF Request, PledgeRead, OfficerRead, MergeRead, WithdrawRead, TurnInRead
<1>3. ASSUME NEW w \in Workers, Step(w), ~ TurnInCommit(w) PROVE orphaned' = orphaned
  BY <1>3 DEF Step, PledgeCommit, WithdrawCommit, CheckStatus, CheckAmounts, FulfilRead,
              StatusCommit, MergeCommit, MergeNothing
<1>4. ASSUME NEW w \in Workers, TurnInCommit(w) PROVE q \notin orphaned
  BY <1>4 DEF TurnInCommit
<1>5. ASSUME NEW w \in Workers, Restart(w) PROVE orphaned \subseteq orphaned'
  BY <1>5 DEF Restart
<1> QED BY <1>1, <1>2, <1>3, <1>4, <1>5 DEF Next

\* A watcher of a complete quest hands over to itself until it has closed the quest or died.
LEMMA WatcherGoesOn ==
  ASSUME TypeOK, Untouched, Next, NEW q \in Quests,
         Complete(q), statusBy[q] = "nobody", statusBy'[q] = "nobody", Watched(q),
         q \notin orphaned'
  PROVE  Watched(q)'
<1>w. ASSUME NEW u \in Workers, Watches(task'[u], q) PROVE Watched(q)'
  BY <1>w DEF Watched, Watches
<1>1. PICK v \in Workers : Watches(task[v], q)
  BY DEF Watched
<1>2. CASE task'[v] = task[v]
  BY <1>1, <1>2, <1>w
<1>3. CASE task'[v] # task[v]
  <2>1. task[v] # Idle
    BY <1>1 DEF Watches, Idle
  <2>2. ~ Request(v)
    BY <2>1 DEF Request, PledgeRead, OfficerRead, MergeRead, WithdrawRead, TurnInRead
  <2>3. Step(v) \/ Restart(v)
    BY <1>3, <2>2, TaskMoves
  <2>4. status[q] = "open"
    BY DEF Untouched, Complete, Exists
  <2>5. CASE CheckStatus(v)
    <3>1. task'[v] = [kind |-> "amounts", quest |-> q]
      BY <1>1, <2>4, <2>5, Continues DEF CheckStatus, Watches
    <3> QED BY <1>w, <3>1 DEF Watches
  <2>6. CASE CheckAmounts(v)
    <3>1. task'[v] = [kind |-> "fulfil", quest |-> q]
      BY <1>1, <2>6, Continues DEF CheckAmounts, Watches
    <3> QED BY <1>w, <3>1 DEF Watches
  <2>7. CASE FulfilRead(v)
    <3>1. task'[v].kind = "status" /\ task'[v].quest = q /\ task'[v].by = "board"
      BY <1>1, <2>7, Continues DEF FulfilRead, Watches
    <3> QED BY <1>w, <3>1 DEF Watches
  <2>8. CASE StatusCommit(v)
    BY <1>1, <2>8 DEF StatusCommit, TypeOK, Watches
  <2>9. CASE Restart(v)
    <3>1. ~ \A u \in Workers : Watches(task[u], q) <=> u = v
      BY <2>9 DEF Restart
    <3>2. PICK u \in Workers \ {v} : Watches(task[u], q)
      BY <1>1, <3>1
    <3>3. task'[u] = task[u]
      BY <2>9, <3>2, Continues DEF Restart
    <3> QED BY <1>w, <3>2, <3>3
  <2> QED BY <1>1, <2>3, <2>5, <2>6, <2>7, <2>8, <2>9 DEF Step, PledgeCommit, WithdrawCommit,
             TurnInCommit, MergeCommit, MergeNothing, Watches
<1> QED BY <1>2, <1>3

\* CompleteQuestIsWatched is inductive relative to TreesShaped and Untouched.
LEMMA WatchedNext ==
  TypeOK /\ TreesShaped /\ Untouched /\ CompleteQuestIsWatched /\ [Next]_vars =>
    CompleteQuestIsWatched'
<1> SUFFICES ASSUME TypeOK, TreesShaped, Untouched, CompleteQuestIsWatched, [Next]_vars
             PROVE  CompleteQuestIsWatched'
  OBVIOUS
<1>1. CASE UNCHANGED vars
  <2>1. \A q : Complete(q)' <=> Complete(q)
    BY <1>1 DEF vars, Complete, Exists, TurnedIn, SumByNode, Live
  <2>2. \A q : Watched(q)' <=> Watched(q)
    BY <1>1 DEF vars, Watched, Watches
  <2>3. statusBy' = statusBy /\ orphaned' = orphaned
    BY <1>1 DEF vars
  <2> QED BY <2>1, <2>2, <2>3 DEF CompleteQuestIsWatched, Closable
<1>2. CASE Next
  <2> SUFFICES ASSUME NEW q \in Quests, Complete(q)', statusBy'[q] = "nobody", q \notin orphaned'
               PROVE  Watched(q)'
    BY DEF CompleteQuestIsWatched, Closable
  <2>1. ASSUME NEW w \in Workers, TurnInCommit(w), pledges[task[w].pledge].quest = q
        PROVE  Watched(q)'
    <3>1. task'[w] = [kind |-> "check", quest |-> q]
      BY <2>1, Continues DEF TurnInCommit, AfterTurnIn
    <3> QED BY <3>1 DEF Watched, Watches
  <2>2. CASE \A w \in Workers : TurnInCommit(w) => pledges[task[w].pledge].quest # q
    <3>1. Complete(q) /\ statusBy[q] = "nobody"
      BY <1>2, <2>2, CompleteNext, UntouchedNext
    <3>2. q \notin orphaned
      BY <1>2, <2>2, OrphanedNext
    <3>3. Watched(q)
      BY <3>1, <3>2 DEF CompleteQuestIsWatched, Closable
    <3> QED BY <1>2, <3>1, <3>3, WatcherGoesOn
  <2> QED BY <2>1, <2>2
<1> QED BY <1>1, <1>2

(***************************************************************************)
(* However many handlers turn in, withdraw and re-expand at once, and      *)
(* whichever die: a quest that is complete and whose status nobody has     *)
(* touched has a handler on the way to close it, unless the last such      *)
(* handler died since the last turn-in on the quest.                       *)
(***************************************************************************)
THEOREM CompleteQuestsAreWatched == Spec => []CompleteQuestIsWatched
<1>1. Init => Untouched /\ CompleteQuestIsWatched
  BY DEF Init, Untouched, CompleteQuestIsWatched, Closable, Complete, Exists
<1> QED BY <1>1, TypeCorrect, TreesAreShaped, UntouchedNext, WatchedNext, PTL DEF Spec

-----------------------------------------------------------------------------
(* A pledge's row and its events agree until two turn-ins of it overlap *)

(***************************************************************************)
(* Row and log agree, nothing is logged without a row, and whoever is      *)
(* turning in on the pledge still knows what the row says.                 *)
(***************************************************************************)
Accounted(p) ==
  /\ Exact(p)
  /\ p \in Unused => ledger[p] = 0
  /\ \A w \in TurningIn(p) : task[w].turned = pledges[p].turned

\* Who turns in on p after a step did so before it, or has just read p's row.
LEMMA TurningInNext ==
  ASSUME TypeOK, Next, NEW p \in PledgeIds, NEW v \in TurningIn(p)'
  PROVE  \/ v \in TurningIn(p) /\ task'[v] = task[v]
         \/ task'[v].turned = pledges[p].turned /\ pledges' = pledges /\ ledger' = ledger
<1>1. v \in Workers /\ task'[v].kind = "turnin" /\ task'[v].pledge = p
  BY DEF TurningIn, Busy
<1>2. CASE task'[v] = task[v]
  BY <1>1, <1>2 DEF TurningIn, Busy
<1>3. CASE task'[v] # task[v]
  <2>1. PICK r \in PledgeIds, who \in People, ask \in Asks : TurnInRead(v, r, who, ask)
    BY <1>1, <1>3, TaskOrigin
  <2>2. task'[v] = [kind |-> "turnin", pledge |-> r, turned |-> pledges[r].turned,
                    amount |-> Amount(pledges[r], ask)]
    BY <1>1, <2>1, Continues DEF TurnInRead
  <2> QED BY <1>1, <2>1, <2>2 DEF TurnInRead
<1> QED BY <1>2, <1>3

\* A row, and what is logged for it, after a step that is not a turn-in on it.
LEMMA RowStays ==
  ASSUME TypeOK, Next, NEW p \in PledgeIds \ Unused,
         \A w \in Workers : TurnInCommit(w) => task[w].pledge # p
  PROVE  p \notin Unused' /\ pledges'[p].turned = pledges[p].turned /\ ledger'[p] = ledger[p]
<1>1. CASE pledges' = pledges /\ ledger' = ledger
  BY <1>1 DEF Unused
<1>2. ASSUME NEW w \in Workers, NEW r \in PledgeIds, PledgeCommit(w, r)
      PROVE  pledges'[p] = pledges[p] /\ ledger'[p] = ledger[p]
  BY <1>2 DEF PledgeCommit, TypeOK
<1>3. ASSUME NEW w \in Workers, TurnInCommit(w)
      PROVE  pledges'[p] = pledges[p] /\ ledger'[p] = ledger[p]
  BY <1>3 DEF TurnInCommit, TypeOK
<1>4. ASSUME NEW w \in Workers, WithdrawCommit(w)
      PROVE  /\ pledges'[p].turned = pledges[p].turned /\ pledges'[p] \in Row
             /\ ledger'[p] = ledger[p]
  <2>1. pledges[p] \in Row /\ p \in PledgeIds
    BY UsedRow
  <2> DEFINE row == [pledges[p] EXCEPT !.withdrawn = TRUE]
  <2>2. pledges'[p] = row \/ pledges'[p] = pledges[p]
    BY <1>4 DEF WithdrawCommit, TypeOK
  <2>3. row \in Row /\ row.turned = pledges[p].turned
    BY <2>1 DEF Row
  <2>4. ledger' = ledger
    BY <1>4 DEF WithdrawCommit
  <2> HIDE DEF row
  <2> QED BY <2>1, <2>2, <2>3, <2>4
<1>5. ASSUME pledges'[p] = pledges[p] \/ pledges'[p] \in Row PROVE p \notin Unused'
  BY <1>5, RowIsAPledge DEF Unused
<1> QED BY <1>1, <1>2, <1>3, <1>4, <1>5, RowActions

\* Accounted is inductive for a pledge with one turn-in at a time.
LEMMA AccountedNext ==
  ASSUME NEW p \in PledgeIds
  PROVE  TypeOK /\ Alone(p) /\ Accounted(p) /\ [Next]_vars => Accounted(p)'
<1> SUFFICES ASSUME TypeOK, Alone(p), Accounted(p), [Next]_vars PROVE Accounted(p)'
  OBVIOUS
<1>1. CASE UNCHANGED vars
  BY <1>1 DEF vars, Accounted, Exact, TurningIn, Busy, Unused
<1>2. CASE Next /\ p \in Unused
  <2>1. TurningIn(p) = {}
    BY <1>2, TaskPledge DEF TurningIn, Busy
  <2>2. CASE p \in Unused'
    <3>1. pledges'[p] = pledges[p]
      BY <1>2, <2>2 DEF Unused
    <3>2. ledger'[p] = ledger[p]
      <4>1. ASSUME NEW w \in Workers, TurnInCommit(w) PROVE ledger'[p] = ledger[p]
        <5>1. task[w].pledge # p
          BY <1>2, <4>1, TaskPledge DEF TurnInCommit
        <5> QED BY <4>1, <5>1 DEF TurnInCommit, TypeOK
      <4> QED BY <1>2, <4>1, RowActions DEF PledgeCommit, WithdrawCommit
    <3>3. \A v \in TurningIn(p)' : task'[v].turned = pledges'[p].turned
      BY <1>2, <2>1, <3>1, TurningInNext
    <3> QED BY <1>2, <2>2, <3>2, <3>3 DEF Accounted, Exact
  <2>3. CASE p \notin Unused'
    <3>1. PICK w \in Workers : PledgeCommit(w, p)
      BY <1>2, <2>3, NewRow
    <3>2. pledges'[p].turned = 0 /\ ledger' = ledger /\ pledges'[p] # pledges[p]
      BY <1>2, <2>3, <3>1 DEF PledgeCommit, TypeOK, Unused
    <3>3. TurningIn(p)' = {}
      BY <1>2, <2>1, <3>2, TurningInNext
    <3> QED BY <1>2, <2>3, <3>2, <3>3 DEF Accounted, Exact
  <2> QED BY <2>2, <2>3
<1>3. ASSUME Next, p \notin Unused, NEW w \in Workers, TurnInCommit(w), task[w].pledge = p
      PROVE  Accounted(p)'
  <2> DEFINE t == task[w]
  <2>1. TurningIn(p) = {w}
    BY <1>3 DEF Alone, TurningIn, Busy, TurnInCommit
  <2>2. /\ pledges[p] \in Row /\ ledger[p] \in Nat
        /\ t.turned = pledges[p].turned /\ pledges[p].turned = ledger[p]
        /\ t.turned \in Nat /\ t.amount \in Nat
    <3>1. TaskOK(t) /\ t.kind = "turnin" /\ pledges[p] \in Row /\ ledger[p] \in Nat
      BY <1>3, UsedRow DEF TurnInCommit, TypeOK
    <3> QED BY <1>3, <2>1, <3>1, TaskByKind DEF Accounted, Exact
  <2>3. /\ pledges'[p].turned = t.turned + t.amount
        /\ ledger'[p] = ledger[p] + t.amount
        /\ pledges'[p] \in Row
    BY <1>3, <2>2 DEF TurnInCommit, TurnedInRow, EventQty, TypeOK, Row
  <2>4. p \notin Unused'
    BY <2>3, RowIsAPledge DEF Unused
  <2>5. task'[w].kind = "check" /\ ledger' # ledger
    <3>1. task'[w].kind = "check"
      BY <1>3, Continues DEF TurnInCommit, AfterTurnIn
    <3>2. t.amount \in Nat \ {0}
      BY <1>3, TaskByKind DEF TurnInCommit, TypeOK
    <3> QED BY <2>2, <2>3, <3>1, <3>2
  <2>6. TurningIn(p)' = {}
    BY <1>3, <2>1, <2>5, TurningInNext DEF TurningIn, Busy
  <2> QED BY <2>2, <2>3, <2>4, <2>6 DEF Accounted, Exact
<1>4. CASE Next /\ p \notin Unused /\ \A w \in Workers : TurnInCommit(w) => task[w].pledge # p
  <2>1. p \notin Unused' /\ pledges'[p].turned = pledges[p].turned /\ ledger'[p] = ledger[p]
    BY <1>4, RowStays
  <2>2. \A v \in TurningIn(p)' : task'[v].turned = pledges'[p].turned
    BY <1>4, <2>1, TurningInNext DEF Accounted
  <2> QED BY <1>4, <2>1, <2>2 DEF Accounted, Exact
<1> QED BY <1>1, <1>2, <1>3, <1>4

(***************************************************************************)
(* However many processes serve the board and wherever they die: the row   *)
(* of a pledge holds exactly what its turn_in events add up to, as long as *)
(* no two turn-ins of this very pledge have overlapped.                    *)
(***************************************************************************)
THEOREM LedgerIsExact == Spec => LedgerExact
<1>1. ASSUME NEW p \in PledgeIds PROVE Spec => ([]Alone(p) => []Exact(p))
  <2>1. Init => Accounted(p)
    BY DEF Init, Accounted, Exact, Unused, TurningIn, Busy, Idle
  <2>2. Accounted(p) => Exact(p)
    BY DEF Accounted
  <2> QED BY <2>1, <2>2, TypeCorrect, AccountedNext, PTL DEF Spec
<1> QED BY <1>1 DEF LedgerExact

-----------------------------------------------------------------------------
(* Questboard implements QuestLedger *)

\* The variables of QuestLedger, as ServesLedger defines them.
need == [q \in Quests |-> IF Exists(q) THEN WebTree(tree[q])[Root].qty ELSE 0]

promise == [p \in PledgeIds |->
              IF p \in Unused
                THEN NoPledge
                ELSE [f \in {"quest", "node", "who", "qty"} |-> pledges[p][f]]]

delivered == [p \in PledgeIds |-> IF p \in Unused THEN 0 ELSE pledges[p].turned]

retracted == {p \in PledgeIds \ Unused : pledges[p].withdrawn}

desk == [w \in Workers |-> Desk(task[w])]

NobodyAt == [doing |-> "nothing"]

\* What is stored determines them.
LEMMA LedgerViews ==
  /\ status' = status /\ tree' = tree => need' = need
  /\ pledges' = pledges => promise' = promise /\ delivered' = delivered /\ retracted' = retracted
  /\ task' = task => desk' = desk
BY DEF need, promise, delivered, retracted, desk, Exists, Unused

\* What each kind of task is to the ledger.
LEMMA DeskOf ==
  ASSUME NEW t
  PROVE  /\ t.kind = "turnin" =>
              Desk(t) = [doing |-> "delivering", on |-> t.pledge, saw |-> t.turned]
         /\ t.kind = "check" => Desk(t) = [doing |-> "looking", on |-> t.quest]
         /\ t.kind = "amounts" => Desk(t) = [doing |-> "summing", on |-> t.quest]
         /\ t.kind = "fulfil" => Desk(t) = [doing |-> "closing", on |-> t.quest]
         /\ t.kind = "status" /\ t.by = "board" => Desk(t) = [doing |-> "closing", on |-> t.quest]
         /\ t.kind = "status" /\ t.by = "officer" => Desk(t) = NobodyAt
         /\ t.kind \in {"idle", "pledge", "withdraw", "merge"} => Desk(t) = NobodyAt
BY DEF Desk, NobodyAt

\* A step of w moves no other clerk.
LEMMA DeskMoves ==
  ASSUME TypeOK, NEW w \in Workers, NEW t, Continue(w, t)
  PROVE  /\ desk' = [desk EXCEPT ![w] = Desk(t)]
         /\ desk[w] = Desk(task[w])
         /\ Desk(t) = Desk(task[w]) => desk' = desk
<1>1. \A v \in Workers : task'[v] = IF v = w THEN t ELSE task[v]
  BY Continues
<1> QED BY <1>1 DEF desk

\* A promise is none only where there is no row.
LEMMA PromiseOfRow ==
  ASSUME TypeOK, NEW p \in PledgeIds
  PROVE  promise[p] # NoPledge <=> p \notin Unused
<1>1. ASSUME p \notin Unused PROVE promise[p] # NoPledge
  <2>1. "who" \in DOMAIN promise[p]
    BY <1>1 DEF promise
  <2>2. "who" \notin DOMAIN NoPledge
    BY DEF NoPledge
  <2> QED BY <2>1, <2>2
<1> QED BY <1>1 DEF promise

\* QuestLedger's sum over the root is the board's.
LEMMA DeliveredOnRoot ==
  ASSUME TypeOK, NEW q \in Quests
  PROVE  Ledger!RootDelivered(q) = RootTurned(q)
<1> DEFINE S == {p \in {r \in PledgeIds : promise[r] # NoPledge} \ retracted :
                   promise[p].quest = q /\ promise[p].node = 0}
           f == [p \in Live(q) |-> pledges[p].turned]
<1>1. Ledger!RootDelivered(q) = SumFunctionOnSet(delivered, S)
  BY DEF Ledger!RootDelivered, Ledger!Promised, Ledger!NoPromise, Ledger!SumFunctionOnSet,
         Ledger!FoldFunctionOnSet, Ledger!MapThenFoldSet, SumFunctionOnSet, FoldFunctionOnSet,
         MapThenFoldSet, NoPledge, promise, delivered, retracted
<1>2. S = OnRoot(q)
  <2>1. \A p \in PledgeIds : promise[p] # NoPledge <=> p \notin Unused
    BY PromiseOfRow
  <2>2. \A p \in PledgeIds \ Unused :
          /\ promise[p].quest = pledges[p].quest
          /\ promise[p].node = pledges[p].node
    BY DEF promise
  <2>3. \A p : p \in S <=> /\ p \in PledgeIds \ Unused
                           /\ ~ pledges[p].withdrawn
                           /\ pledges[p].quest = q
                           /\ pledges[p].node = 0
    BY <2>1, <2>2 DEF retracted
  <2>4. \A p : p \in OnRoot(q) <=> /\ p \in PledgeIds \ Unused
                                   /\ ~ pledges[p].withdrawn
                                   /\ pledges[p].quest = q
                                   /\ pledges[p].node = 0
    BY DEF OnRoot, Live, Unused
  <2> HIDE DEF S
  <2> QED BY <2>3, <2>4
<1>3. \A p \in OnRoot(q) : delivered[p] = f[p]
  BY LiveRows DEF delivered
<1> HIDE DEF S, f
<1>4. SumFunctionOnSet(delivered, OnRoot(q)) = SumFunctionOnSet(f, OnRoot(q))
  BY <1>3, LiveRows, SumAgrees
<1> QED BY <1>1, <1>2, <1>4 DEF RootTurned, f

\* The quantity a member sees on the root.
LEMMA ShapedViews ==
  ASSUME NEW T, Shaped(T)
  PROVE  WebTree(T)[Root].qty = AtLeastOne(T[Root].qty) /\ AtLeastOne(T[Root].qty) >= 1
BY WebTreeIsFlat DEF Shaped, AtLeastOne

\* What is needed of a quest is settled when it is created.
LEMMA NeedKept ==
  ASSUME TypeOK, TreesShaped, Next, \A q \in Quests : ~ Create(q)
  PROVE  need' = need
<1>1. ASSUME NEW q \in Quests, Exists(q)
      PROVE  WebTree(tree'[q])[Root].qty = WebTree(tree[q])[Root].qty
  <2>1. Exists(q)' /\ TreesShaped'
    BY <1>1, ExistsNext, ShapeNext
  <2>2. Shaped(tree[q]) /\ Shaped(tree'[q])
    BY <1>1, <2>1 DEF TreesShaped
  <2>3. tree'[q][Root] = tree[q][Root]
    BY <1>1, RootKept
  <2> QED BY <2>2, <2>3, ShapedViews
<1>2. \A q \in Quests : Exists(q)' <=> Exists(q)
  BY ExistsNext
<1>3. \A q \in Quests : need'[q] = need[q]
  BY <1>1, <1>2 DEF need
<1> QED BY <1>3 DEF need

\* A handler's step creates no quest.
LEMMA HandlersCreateNothing ==
  ASSUME TypeOK, NEW w \in Workers, NEW t, Continue(w, t), t # task[w]
  PROVE  \A q \in Quests : ~ Create(q)
<1>1. task' # task
  BY Continues
<1> QED BY <1>1 DEF Create, CreateFromWeb, CreateUnresolved, CreateFromBot, CreateQuest

\* Creating a quest opens it.
LEMMA CreateOpens ==
  ASSUME TypeOK, NEW q \in Quests, Create(q)
  PROVE  Ledger!OpenQuest(q)
<1>1. PICK T : Shaped(T) /\ CreateQuest(q, T)
  BY CreateShape
<1>2. \A r \in Quests : /\ status'[r] = IF r = q THEN "open" ELSE status[r]
                        /\ tree'[r] = IF r = q THEN T ELSE tree[r]
  BY <1>1 DEF CreateQuest, TypeOK
<1>3. need'[q] = AtLeastOne(T[Root].qty) /\ need'[q] >= 1
  <2>1. WebTree(T)[Root].qty = AtLeastOne(T[Root].qty) /\ AtLeastOne(T[Root].qty) >= 1
    BY <1>1, ShapedViews
  <2> QED BY <1>2, <2>1 DEF need, Exists
<1>4. \A r \in Quests \ {q} : need'[r] = need[r]
  BY <1>2 DEF need, Exists
<1>5. need' = [need EXCEPT ![q] = need'[q]]
  BY <1>4 DEF need
<1>6. /\ promise' = promise /\ delivered' = delivered /\ retracted' = retracted
      /\ desk' = desk /\ ledger' = ledger
  BY <1>1, LedgerViews DEF CreateQuest
<1>7. /\ status[q] = "absent" /\ status' = [status EXCEPT ![q] = "open"]
      /\ statusBy' = statusBy
  BY <1>1 DEF CreateQuest, Exists
<1> QED BY <1>3, <1>5, <1>6, <1>7 DEF Ledger!OpenQuest, need, promise, delivered, retracted, desk

\* A SELECT is nothing to the ledger, except that a turn-in is taken up.
LEMMA RequestStarts ==
  ASSUME TypeOK, NEW w \in Workers, Request(w)
  PROVE  UNCHANGED Ledger!vars \/ \E p \in PledgeIds : Ledger!StartDelivery(w, p)
<1>i. task[w] = Idle /\ Desk(task[w]) = NobodyAt
  <2>1. task[w] = Idle
    BY DEF Request, PledgeRead, OfficerRead, MergeRead, WithdrawRead, TurnInRead
  <2> QED BY <2>1, DeskOf DEF Idle
<1>v. /\ UNCHANGED <<status, statusBy, ledger>>
      /\ need' = need /\ promise' = promise /\ delivered' = delivered /\ retracted' = retracted
  <2>1. UNCHANGED <<status, statusBy, tree, pledges, ledger>>
    BY DEF Request, PledgeRead, OfficerRead, MergeRead, WithdrawRead, TurnInRead
  <2> QED BY <2>1, LedgerViews
<1>1. ASSUME NEW t, Continue(w, t), Desk(t) = NobodyAt
      PROVE  UNCHANGED Ledger!vars
  <2>1. desk' = desk
    BY <1>1, <1>i, DeskMoves
  <2> QED BY <1>v, <2>1 DEF Ledger!vars, need, promise, delivered, retracted, desk
<1>2. ASSUME NEW q \in Quests, NEW node \in 0..Cardinality(DOMAIN tree[q]), NEW who \in People,
             NEW qty \in PledgeQtys, PledgeRead(w, q, node, who, qty)
      PROVE  UNCHANGED Ledger!vars
  BY <1>1, <1>2, DeskOf DEF PledgeRead
<1>3. ASSUME NEW q \in Quests, NEW to \in Decisions, OfficerRead(w, q, to)
      PROVE  UNCHANGED Ledger!vars
  BY <1>1, <1>3, DeskOf DEF OfficerRead
<1>4. ASSUME NEW q \in Quests, MergeRead(w, q) PROVE UNCHANGED Ledger!vars
  BY <1>1, <1>4, DeskOf DEF MergeRead
<1>5. ASSUME NEW p \in PledgeIds, NEW who \in People, WithdrawRead(w, p, who)
      PROVE  UNCHANGED Ledger!vars
  BY <1>1, <1>5, DeskOf DEF WithdrawRead
<1>6. ASSUME NEW p \in PledgeIds, NEW who \in People, NEW ask \in Asks, TurnInRead(w, p, who, ask)
      PROVE  Ledger!StartDelivery(w, p)
  <2> DEFINE t == [kind |-> "turnin", pledge |-> p, turned |-> pledges[p].turned,
                   amount |-> Amount(pledges[p], ask)]
  <2>1. p \notin Unused /\ ~ pledges[p].withdrawn /\ Continue(w, t)
    BY <1>6 DEF TurnInRead, OwnLive, Unused
  <2>2. promise[p] # NoPledge /\ p \notin retracted /\ delivered[p] = pledges[p].turned
    BY <2>1, PromiseOfRow DEF retracted, delivered
  <2>3. Desk(t) = [doing |-> "delivering", on |-> p, saw |-> delivered[p]]
    BY <2>2, DeskOf
  <2> HIDE DEF t
  <2>4. /\ desk[w] = NobodyAt
        /\ desk' = [desk EXCEPT ![w] =
                      [doing |-> "delivering", on |-> p, saw |-> delivered[p]]]
    BY <1>i, <2>1, <2>3, DeskMoves
  <2> QED
    BY <1>v, <2>2, <2>4
       DEF Ledger!StartDelivery, Ledger!Free, Ledger!Promised, Ledger!NoPromise, NobodyAt, NoPledge,
           need, promise, delivered, retracted, desk
<1> QED BY <1>2, <1>3, <1>4, <1>5, <1>6 DEF Request

\* Storing a pledge makes a promise.
LEMMA PledgePromises ==
  ASSUME TypeOK, TreesShaped, NEW w \in Workers, NEW p \in PledgeIds, PledgeCommit(w, p)
  PROVE  Ledger!MakePromise(p)
<1> DEFINE t == task[w]
           q == t.quest
           new == promise'[p]
<1>1. /\ q \in Quests /\ Exists(q) /\ t.qty \in Nat \ {0} /\ t.kind = "pledge"
  <2>1. t.kind = "pledge" /\ TaskOK(t)
    BY DEF PledgeCommit, TypeOK
  <2> QED BY <2>1, TaskQuest, TaskByKind
<1>3. p \in Unused /\ p \notin Unused'
  <2>1. "who" \in DOMAIN pledges'[p] /\ "who" \notin DOMAIN NoPledge
    BY DEF PledgeCommit, TypeOK, NoPledge
  <2> QED BY <2>1 DEF PledgeCommit, Unused
<1>4. \A s \in PledgeIds \ {p} : pledges'[s] = pledges[s]
  BY DEF PledgeCommit, TypeOK
<1>5. pledges'[p] = [quest |-> q, node |-> t.node, who |-> t.who, qty |-> t.qty,
                     turned |-> 0, withdrawn |-> FALSE]
  BY DEF PledgeCommit, TypeOK
<1>6. Unused' = Unused \ {p}
  BY <1>3, <1>4 DEF Unused
<1>7. promise' = [promise EXCEPT ![p] = new]
  <2>1. \A s \in PledgeIds \ {p} : promise'[s] = promise[s]
    BY <1>4, <1>6 DEF promise
  <2> QED BY <2>1 DEF promise
<1>8. new = [f \in {"quest", "node", "who", "qty"} |-> pledges'[p][f]] /\ new # NoPledge
  <2>1. new = [f \in {"quest", "node", "who", "qty"} |-> pledges'[p][f]]
    BY <1>3 DEF promise
  <2>2. "who" \in DOMAIN new /\ "who" \notin DOMAIN NoPledge
    <3> HIDE DEF new
    <3> QED BY <2>1 DEF NoPledge
  <2> QED BY <2>1, <2>2
<1>9. new.quest = q /\ new.qty = t.qty
  <2> HIDE DEF new
  <2> QED BY <1>5, <1>8
<1>10. delivered' = delivered /\ retracted' = retracted
  <2>1. \A s \in PledgeIds : delivered'[s] = delivered[s]
    <3> TAKE s \in PledgeIds
    <3>1. CASE s = p
      BY <1>3, <1>5, <3>1 DEF delivered
    <3>2. CASE s # p
      BY <1>4, <1>6, <3>2 DEF delivered
    <3> QED BY <3>1, <3>2
  <2>2. delivered' = delivered
    BY <2>1 DEF delivered
  <2>3. retracted' = retracted
    BY <1>3, <1>4, <1>5, <1>6 DEF retracted
  <2> QED BY <2>2, <2>3
<1>11. promise[p] = NoPledge
  BY <1>3 DEF promise
<1>12. status' = status /\ statusBy' = statusBy /\ tree' = tree /\ ledger' = ledger
  BY DEF PledgeCommit
<1>13. need' = need
  BY <1>12, LedgerViews
<1>14. desk' = desk
  <2>1. Desk(Idle) = NobodyAt /\ Desk(t) = NobodyAt
    BY <1>1, DeskOf DEF Idle
  <2> QED BY <2>1, DeskMoves DEF PledgeCommit
<1>15. status[new.quest] # "absent" /\ new.qty >= 1
  BY <1>1, <1>9 DEF Exists
<1> QED
  BY <1>7, <1>8, <1>10, <1>11, <1>12, <1>13, <1>14, <1>15
     DEF Ledger!MakePromise, Ledger!Promised, Ledger!NoPromise, NoPledge, need, promise, delivered,
         retracted, desk

\* A row that is rewritten, and says what was promised.
LEMMA RowRewritten ==
  ASSUME TypeOK, NEW r \in PledgeIds \ Unused, NEW row \in Row,
         pledges' = [pledges EXCEPT ![r] = row],
         Promise(row) = Promise(pledges[r])
  PROVE  /\ r \notin Unused'
         /\ promise' = promise
         /\ delivered' = [delivered EXCEPT ![r] = row.turned]
         /\ retracted' = IF row.withdrawn THEN retracted \cup {r} ELSE retracted \ {r}
<1>1. \A p \in PledgeIds : pledges'[p] = IF p = r THEN row ELSE pledges[p]
  BY DEF TypeOK
<1>2. Unused' = Unused
  BY <1>1, RowIsAPledge DEF Unused
<1>3. promise' = promise
  <2>1. \A f \in {"quest", "node", "who", "qty"} : row[f] = pledges[r][f]
    BY DEF Promise
  <2>2. [f \in {"quest", "node", "who", "qty"} |-> row[f]] =
          [f \in {"quest", "node", "who", "qty"} |-> pledges[r][f]]
    BY <2>1
  <2>3. \A p \in PledgeIds : promise'[p] = promise[p]
    BY <1>1, <1>2, <2>2 DEF promise
  <2> QED BY <2>3 DEF promise
<1>4. delivered' = [delivered EXCEPT ![r] = row.turned]
  <2>1. \A p \in PledgeIds : delivered'[p] = IF p = r THEN row.turned ELSE delivered[p]
    BY <1>1, <1>2 DEF delivered
  <2> QED BY <2>1 DEF delivered
<1>5. retracted' = IF row.withdrawn THEN retracted \cup {r} ELSE retracted \ {r}
  BY <1>1, <1>2 DEF retracted
<1> QED BY <1>2, <1>3, <1>4, <1>5

\* Withdrawing retracts a promise, unless another handler has done so already.
LEMMA WithdrawRetracts ==
  ASSUME TypeOK, NEW w \in Workers, WithdrawCommit(w), NEW r, r = task[w].pledge
  PROVE  Ledger!Retract(r) \/ UNCHANGED Ledger!vars
<1> DEFINE row == [pledges[r] EXCEPT !.withdrawn = TRUE]
<1>1. r \in PledgeIds \ Unused /\ pledges[r] \in Row /\ task[w].kind = "withdraw"
  BY TaskPledge DEF WithdrawCommit
<1>2. /\ row \in Row /\ Promise(row) = Promise(pledges[r])
      /\ row.withdrawn /\ row.turned = pledges[r].turned
  BY <1>1 DEF Row, Promise
<1>3. pledges' = [pledges EXCEPT ![r] = row]
  BY DEF WithdrawCommit
<1> HIDE DEF row
<1>4. /\ promise' = promise
      /\ delivered' = [delivered EXCEPT ![r] = row.turned]
      /\ retracted' = retracted \cup {r}
  BY <1>1, <1>2, <1>3, RowRewritten
<1>5. delivered' = delivered
  <2>1. delivered[r] = row.turned
    BY <1>1, <1>2 DEF delivered
  <2> QED BY <1>4, <2>1 DEF delivered
<1>6. desk' = desk
  <2>1. Desk(Idle) = NobodyAt /\ Desk(task[w]) = NobodyAt
    BY <1>1, DeskOf DEF Idle
  <2> QED BY <2>1, DeskMoves DEF WithdrawCommit
<1>7. status' = status /\ statusBy' = statusBy /\ need' = need /\ ledger' = ledger
  BY LedgerViews DEF WithdrawCommit
<1>8. promise[r] # NoPledge
  BY <1>1, PromiseOfRow
<1>9. CASE r \in retracted
  <2>1. retracted' = retracted
    BY <1>4, <1>9
  <2> QED BY <1>4, <1>5, <1>6, <1>7, <2>1 DEF Ledger!vars, need, promise, delivered, retracted, desk
<1>10. CASE r \notin retracted
  BY <1>1, <1>4, <1>5, <1>6, <1>7, <1>8, <1>10
     DEF Ledger!Retract, Ledger!Promised, Ledger!NoPromise, NoPledge, need, promise, delivered,
         retracted, desk
<1> QED BY <1>9, <1>10

(***************************************************************************)
(* A turn-in is logged; it is added to what was delivered before if that   *)
(* is still what it read, and stays within the log if it is not.           *)
(***************************************************************************)
LEMMA TurnInDelivers ==
  ASSUME TypeOK, LedgerCoversTurned, NEW w \in Workers, TurnInCommit(w)
  PROVE  Ledger!Deliver(w)
<1> DEFINE t == task[w]
           r == t.pledge
           row == TurnedInRow(pledges[r], t)
<1>1. /\ r \in PledgeIds \ Unused /\ pledges[r] \in Row /\ t.kind = "turnin"
      /\ t.turned \in Nat /\ t.amount \in Nat \ {0} /\ t.turned <= ledger[r]
      /\ ledger[r] \in Nat
  <2>1. t.kind = "turnin" /\ TaskOK(t)
    BY DEF TurnInCommit, TypeOK
  <2> QED BY <2>1, TaskPledge, TaskByKind DEF LedgerCoversTurned, Busy, TypeOK
<1>2. /\ row \in Row /\ Promise(row) = Promise(pledges[r])
      /\ row.withdrawn = pledges[r].withdrawn
      /\ row.turned = t.turned + t.amount
  <2>1. t.turned + t.amount \in Nat
    BY <1>1
  <2> QED BY <1>1, <2>1 DEF Row, Promise, TurnedInRow
<1>3. pledges' = [pledges EXCEPT ![r] = row]
  BY DEF TurnInCommit
<1> HIDE DEF row
<1>4. /\ promise' = promise
      /\ delivered' = [delivered EXCEPT ![r] = row.turned]
      /\ retracted' = IF row.withdrawn THEN retracted \cup {r} ELSE retracted \ {r}
  BY <1>1, <1>2, <1>3, RowRewritten
<1>5. retracted' = retracted
  BY <1>1, <1>2, <1>4 DEF retracted
<1>6. ledger' = [ledger EXCEPT ![r] = ledger[r] + t.amount]
  BY DEF TurnInCommit, EventQty
<1>7. /\ ledger'[r] = ledger[r] + t.amount
      /\ delivered'[r] = t.turned + t.amount
      /\ delivered[r] \in Nat
  <2>1. delivered[r] = pledges[r].turned /\ delivered'[r] = row.turned
    BY <1>1, <1>4 DEF delivered
  <2>2. ledger'[r] = ledger[r] + t.amount
    BY <1>1, <1>6 DEF TypeOK
  <2>3. pledges[r].turned \in Nat
    BY <1>1 DEF Row
  <2> QED BY <1>2, <2>1, <2>2, <2>3
<1>8. /\ desk[w] = [doing |-> "delivering", on |-> r, saw |-> t.turned]
      /\ desk' = [desk EXCEPT ![w] = [doing |-> "looking", on |-> promise[r].quest]]
  <2> DEFINE next == [kind |-> "check", quest |-> pledges[r].quest]
  <2>1. Continue(w, next)
    BY DEF TurnInCommit, AfterTurnIn
  <2>2. Desk(next) = [doing |-> "looking", on |-> pledges[r].quest]
    BY DeskOf
  <2>3. Desk(t) = [doing |-> "delivering", on |-> r, saw |-> t.turned]
    BY <1>1, DeskOf
  <2>4. promise[r].quest = pledges[r].quest
    BY <1>1 DEF promise
  <2> HIDE DEF next, t
  <2> QED BY <2>1, <2>2, <2>3, <2>4, DeskMoves DEF t
<1>9. status' = status /\ statusBy' = statusBy /\ need' = need
  BY LedgerViews DEF TurnInCommit
<1>10. desk[w].on = r /\ desk[w].saw = t.turned /\ desk[w].doing = "delivering"
  BY <1>8
<1> DEFINE gain == ledger'[r] - ledger[r]
<1>11. /\ gain > 0
       /\ delivered'[r] \in gain..ledger'[r]
       /\ t.turned = delivered[r] => delivered'[r] = delivered[r] + gain
  <2> HIDE DEF t, r
  <2> QED BY <1>1, <1>7
<1>12. /\ ledger' = [ledger EXCEPT ![r] = ledger'[r]]
       /\ delivered' = [delivered EXCEPT ![r] = delivered'[r]]
  <2> HIDE DEF t, r
  <2> QED BY <1>1, <1>4, <1>6, <1>7 DEF TypeOK, delivered
<1> HIDE DEF t, r
<1> QED
  BY <1>4, <1>5, <1>8, <1>9, <1>10, <1>11, <1>12
     DEF Ledger!Deliver, need, promise, delivered, retracted, desk

\* A handler that goes on looking, with nothing stored.
LEMMA LooksOn ==
  ASSUME TypeOK, TreesShaped, NEW w \in Workers,
         CheckStatus(w) \/ CheckAmounts(w) \/ FulfilRead(w)
  PROVE  Ledger!FindsOpen(w) \/ Ledger!FindsDelivered(w) \/ Ledger!Leave(w)
           \/ UNCHANGED Ledger!vars
<1> DEFINE t == task[w]
           q == t.quest
<1>q. q \in Quests /\ Exists(q)
  BY TaskQuest DEF CheckStatus, CheckAmounts, FulfilRead
<1>v. /\ UNCHANGED <<status, statusBy, ledger>>
      /\ need' = need /\ promise' = promise /\ delivered' = delivered /\ retracted' = retracted
  <2>1. UNCHANGED <<status, statusBy, tree, pledges, ledger>>
    BY DEF CheckStatus, CheckAmounts, FulfilRead
  <2> QED BY <2>1, LedgerViews
<1>l. ASSUME Continue(w, Idle), desk[w].doing # "nothing" PROVE Ledger!Leave(w)
  <2>1. desk' = [desk EXCEPT ![w] = NobodyAt] /\ desk[w] # NobodyAt
    <3>1. Desk(Idle) = NobodyAt
      BY DeskOf DEF Idle
    <3> QED BY <1>l, <3>1, DeskMoves DEF NobodyAt
  <2> QED BY <1>v, <2>1 DEF Ledger!Leave, Ledger!Free, NobodyAt, need, promise, delivered,
                           retracted, desk
<1>1. CASE CheckStatus(w)
  <2>1. desk[w] = [doing |-> "looking", on |-> q]
    BY <1>1, DeskOf DEF CheckStatus, desk
  <2>2. CASE status[q] = "open"
    <3> DEFINE next == [kind |-> "amounts", quest |-> q]
    <3>1. Continue(w, next)
      BY <1>1, <2>2 DEF CheckStatus
    <3>2. Desk(next) = [doing |-> "summing", on |-> q]
      BY DeskOf
    <3> HIDE DEF next, q
    <3>3. desk' = [desk EXCEPT ![w] = [doing |-> "summing", on |-> q]]
      BY <3>1, <3>2, DeskMoves
    <3>4. desk[w].on = q /\ desk[w].doing = "looking"
      BY <2>1
    <3> QED BY <1>v, <2>2, <3>3, <3>4 DEF Ledger!FindsOpen, Ledger!GoesOn, need, promise, delivered,
                                   retracted, desk
  <2>3. CASE status[q] # "open"
    <3>1. Continue(w, Idle)
      BY <1>1, <2>3 DEF CheckStatus
    <3> QED BY <1>l, <2>1, <3>1
  <2> QED BY <2>2, <2>3
<1>2. CASE CheckAmounts(w)
  <2>1. desk[w] = [doing |-> "summing", on |-> q]
    BY <1>2, DeskOf DEF CheckAmounts, desk
  <2>2. CASE Complete(q)
    <3> DEFINE next == [kind |-> "fulfil", quest |-> q]
    <3>1. Continue(w, next)
      BY <1>2, <2>2 DEF CheckAmounts
    <3>2. Desk(next) = [doing |-> "closing", on |-> q]
      BY DeskOf
    <3>3. Ledger!RootDelivered(q) >= need[q]
      <4>1. RootTurned(q) >= AtLeastOne(tree[q][Root].qty)
        BY <1>q, <2>2, CompleteAtRoot
      <4>2. need[q] = AtLeastOne(tree[q][Root].qty)
        BY <1>q, ShapedViews DEF need, TreesShaped
      <4> QED BY <1>q, <4>1, <4>2, DeliveredOnRoot
    <3> HIDE DEF next, q
    <3>4. desk' = [desk EXCEPT ![w] = [doing |-> "closing", on |-> q]]
      BY <3>1, <3>2, DeskMoves
    <3>5. desk[w].on = q /\ desk[w].doing = "summing"
      BY <2>1
    <3>6. Ledger!RootDelivered(desk[w].on) >= need[desk[w].on]
      BY <3>3, <3>5
    <3> QED BY <1>v, <3>4, <3>5, <3>6 DEF Ledger!FindsDelivered, Ledger!GoesOn, need, promise, delivered,
                                   retracted, desk
  <2>3. CASE ~ Complete(q)
    <3>1. Continue(w, Idle)
      BY <1>2, <2>3 DEF CheckAmounts
    <3> QED BY <1>l, <2>1, <3>1
  <2> QED BY <2>2, <2>3
<1>3. CASE FulfilRead(w)
  <2> DEFINE next == [kind |-> "status", quest |-> q, from |-> status[q],
                      to |-> "fulfilled", by |-> "board"]
  <2>1. Continue(w, next) /\ t.kind = "fulfil"
    BY <1>3 DEF FulfilRead
  <2>2. Desk(next) = [doing |-> "closing", on |-> q] /\ Desk(t) = [doing |-> "closing", on |-> q]
    BY <2>1, DeskOf
  <2> HIDE DEF next, q
  <2>3. desk' = desk
    BY <2>1, <2>2, DeskMoves
  <2> QED BY <1>v, <2>3 DEF Ledger!vars, need, promise, delivered, retracted, desk
<1> QED BY <1>1, <1>2, <1>3

\* The board closes quests, and writes no other status of its own.
BoardFulfils ==
  \A w \in Workers :
    task[w].kind = "status" /\ task[w].by = "board" => task[w].to = "fulfilled"

\* BoardFulfils is inductive.
LEMMA FulfilsNext == TypeOK /\ BoardFulfils /\ [Next]_vars => BoardFulfils'
<1> SUFFICES ASSUME TypeOK, BoardFulfils, [Next]_vars,
                    NEW v \in Workers, task'[v].kind = "status", task'[v].by = "board"
             PROVE  task'[v].to = "fulfilled"
  BY DEF BoardFulfils
<1>1. CASE task'[v] = task[v]
  BY <1>1 DEF BoardFulfils
<1>2. CASE task'[v] # task[v]
  <2>1. Next
    BY <1>2 DEF vars
  <2>2. FulfilRead(v) \/ \E q \in Quests, to \in Decisions : OfficerRead(v, q, to)
    BY <1>2, <2>1, TaskOrigin
  <2>3. CASE FulfilRead(v)
    BY <2>3, Continues DEF FulfilRead
  <2>4. ASSUME NEW q \in Quests, NEW to \in Decisions, OfficerRead(v, q, to) PROVE FALSE
    <3>1. task'[v].by = "officer"
      BY <2>4, Continues DEF OfficerRead
    <3> QED BY <3>1
  <2> QED BY <2>2, <2>3, <2>4
<1> QED BY <1>1, <1>2

\* A status is written by a clerk that is closing a quest, or is an officer's word.
LEMMA StatusDecides ==
  ASSUME TypeOK, TreesShaped, BoardFulfils, NEW w \in Workers, StatusCommit(w)
  PROVE  Ledger!Close(w) \/ Ledger!Moderate(task[w].quest, task[w].to)
<1> DEFINE t == task[w]
           q == t.quest
<1>1. /\ q \in Quests /\ Exists(q) /\ t.kind = "status"
      /\ t.to \in Statuses /\ t.by \in {"board", "officer"}
      /\ t.by = "board" => t.to = "fulfilled"
  <2>1. t.kind = "status" /\ TaskOK(t)
    BY DEF StatusCommit, TypeOK
  <2> QED BY <2>1, TaskQuest, TaskByKind DEF BoardFulfils
<1>2. /\ status' \in {status, [status EXCEPT ![q] = t.to]}
      /\ statusBy' = [statusBy EXCEPT ![q] = t.by]
      /\ UNCHANGED <<tree, pledges, ledger>>
      /\ Continue(w, Idle)
  BY DEF StatusCommit
<1>3. promise' = promise /\ delivered' = delivered /\ retracted' = retracted
  BY <1>2, LedgerViews
<1>4. need' = need
  <2>1. \A r \in Quests : ~ Create(r)
    BY <1>1, <1>2, HandlersCreateNothing DEF Idle
  <2>2. Next
    BY DEF Next, Step
  <2> QED BY <2>1, <2>2, NeedKept
<1>5. Desk(Idle) = NobodyAt
  BY DeskOf DEF Idle
<1>6. CASE t.by = "board"
  <2>1. Desk(t) = [doing |-> "closing", on |-> q]
    BY <1>1, <1>6, DeskOf
  <2>2. desk' = [desk EXCEPT ![w] = NobodyAt] /\ desk[w] = [doing |-> "closing", on |-> q]
    BY <1>2, <1>5, <2>1, DeskMoves
  <2>3. desk[w].doing = "closing" /\ desk[w].on = q
    BY <2>2
  <2>4. /\ status' \in {status, [status EXCEPT ![q] = "fulfilled"]}
        /\ statusBy' = [statusBy EXCEPT ![q] = "board"]
    BY <1>1, <1>2, <1>6
  <2> HIDE DEF q
  <2> QED
    BY <1>2, <1>3, <1>4, <2>2, <2>3, <2>4
       DEF Ledger!Close, Ledger!Writes, Ledger!Free, NobodyAt, need, promise, delivered, retracted,
           desk
<1>7. CASE t.by = "officer"
  <2>1. Desk(t) = NobodyAt
    BY <1>1, <1>7, DeskOf
  <2>2. desk' = desk
    BY <1>2, <1>5, <2>1, DeskMoves
  <2> QED
    BY <1>1, <1>2, <1>3, <1>4, <1>7, <2>2
       DEF Ledger!Moderate, Ledger!Writes, Exists, need, promise, delivered, retracted, desk
<1> QED BY <1>1, <1>6, <1>7

\* Re-expanding is nothing to the ledger: what is needed of a quest is its root's.
LEMMA MergesDoNothing ==
  ASSUME TypeOK, TreesShaped, NEW w \in Workers,
         MergeNothing(w) \/ \E r \in Recipes : MergeCommit(w, r)
  PROVE  UNCHANGED Ledger!vars
<1>1. task[w].kind = "merge" /\ Continue(w, Idle)
  BY DEF MergeCommit, MergeNothing
<1>2. UNCHANGED <<status, statusBy, pledges, ledger>>
  BY DEF MergeCommit, MergeNothing
<1>3. need' = need
  <2>1. \A q \in Quests : ~ Create(q)
    BY <1>1, HandlersCreateNothing DEF Idle
  <2>2. Next
    BY DEF Next, Step
  <2> QED BY <2>1, <2>2, NeedKept
<1>4. desk' = desk
  <2>1. Desk(Idle) = NobodyAt /\ Desk(task[w]) = NobodyAt
    BY <1>1, DeskOf DEF Idle
  <2> QED BY <1>1, <2>1, DeskMoves
<1>5. promise' = promise /\ delivered' = delivered /\ retracted' = retracted
  BY <1>2, LedgerViews
<1> QED BY <1>2, <1>3, <1>4, <1>5 DEF Ledger!vars, need, promise, delivered, retracted, desk

\* A process that dies leaves, if it was about anything the ledger knows of.
LEMMA RestartLeaves ==
  ASSUME TypeOK, NEW w \in Workers, Restart(w)
  PROVE  Ledger!Leave(w) \/ UNCHANGED Ledger!vars
<1>1. UNCHANGED <<status, statusBy, tree, pledges, ledger>> /\ Continue(w, Idle)
  BY DEF Restart
<1>2. need' = need /\ promise' = promise /\ delivered' = delivered /\ retracted' = retracted
  BY <1>1, LedgerViews
<1>3. desk' = [desk EXCEPT ![w] = NobodyAt] /\ desk[w] = Desk(task[w])
  <2>1. Desk(Idle) = NobodyAt
    BY DeskOf DEF Idle
  <2> QED BY <1>1, <2>1, DeskMoves
<1>4. CASE desk[w] = NobodyAt
  <2>1. desk' = desk
    BY <1>3, <1>4 DEF desk
  <2> QED BY <1>1, <1>2, <2>1 DEF Ledger!vars, need, promise, delivered, retracted, desk
<1>5. CASE desk[w] # NobodyAt
  BY <1>1, <1>2, <1>3, <1>5
     DEF Ledger!Leave, Ledger!Free, NobodyAt, need, promise, delivered, retracted, desk
<1> QED BY <1>4, <1>5

\* Every step of the board is a step of the ledger, or none.
LEMMA LedgerSimulates ==
  TypeOK /\ TreesShaped /\ LedgerCoversTurned /\ BoardFulfils /\ [Next]_vars =>
    [Ledger!Next]_(Ledger!vars)
<1> SUFFICES ASSUME TypeOK, TreesShaped, LedgerCoversTurned, BoardFulfils, [Next]_vars
             PROVE  Ledger!Next \/ UNCHANGED Ledger!vars
  OBVIOUS
<1>1. ASSUME NEW q \in Quests, Create(q) PROVE Ledger!Next
  BY <1>1, CreateOpens DEF Ledger!Next
<1>2. ASSUME NEW w \in Workers, Request(w) PROVE Ledger!Next \/ UNCHANGED Ledger!vars
  BY <1>2, RequestStarts DEF Ledger!Next
<1>3. ASSUME NEW w \in Workers, Restart(w) PROVE Ledger!Next \/ UNCHANGED Ledger!vars
  BY <1>3, RestartLeaves DEF Ledger!Next
<1>4. ASSUME NEW w \in Workers, Step(w) PROVE Ledger!Next \/ UNCHANGED Ledger!vars
  <2>1. ASSUME NEW p \in PledgeIds, PledgeCommit(w, p) PROVE Ledger!Next
    BY <2>1, PledgePromises DEF Ledger!Next
  <2>2. CASE WithdrawCommit(w)
    <3>1. PICK p \in PledgeIds : p = task[w].pledge
      BY <2>2, TaskPledge DEF WithdrawCommit
    <3>2. Ledger!Retract(p) \/ UNCHANGED Ledger!vars
      BY <2>2, <3>1, WithdrawRetracts
    <3> QED BY <3>2 DEF Ledger!Next
  <2>3. CASE TurnInCommit(w)
    <3>1. Ledger!Deliver(w)
      BY <2>3, TurnInDelivers
    <3> QED BY <3>1 DEF Ledger!Next
  <2>4. CASE StatusCommit(w)
    <3>1. task[w].quest \in Quests /\ task[w].to \in {"open", "fulfilled", "cancelled"}
      <4>1. task[w].kind = "status" /\ TaskOK(task[w])
        BY <2>4 DEF StatusCommit, TypeOK
      <4> QED BY <4>1, TaskByKind DEF Statuses
    <3>2. Ledger!Close(w) \/ Ledger!Moderate(task[w].quest, task[w].to)
      BY <2>4, StatusDecides
    <3> QED BY <3>1, <3>2 DEF Ledger!Next
  <2>5. CASE MergeNothing(w) \/ \E r \in Recipes : MergeCommit(w, r)
    BY <2>5, MergesDoNothing
  <2>6. CASE CheckStatus(w) \/ CheckAmounts(w) \/ FulfilRead(w)
    <3>1. Ledger!FindsOpen(w) \/ Ledger!FindsDelivered(w) \/ Ledger!Leave(w)
            \/ UNCHANGED Ledger!vars
      BY <2>6, LooksOn
    <3> QED BY <3>1 DEF Ledger!Next
  <2> QED BY <1>4, <2>1, <2>2, <2>3, <2>4, <2>5, <2>6 DEF Step
<1>5. CASE UNCHANGED vars
  <2>1. /\ need' = need /\ promise' = promise /\ delivered' = delivered /\ retracted' = retracted
        /\ desk' = desk /\ UNCHANGED <<status, statusBy, ledger>>
    BY <1>5, LedgerViews DEF vars
  <2> QED BY <2>1 DEF Ledger!vars, need, promise, delivered, retracted, desk
<1> QED BY <1>1, <1>2, <1>3, <1>4, <1>5 DEF Next

\* The empty database is the empty ledger, and nobody is at work.
LEMMA LedgerInit == Init => Ledger!Init /\ BoardFulfils
<1> SUFFICES ASSUME Init PROVE Ledger!Init /\ BoardFulfils
  OBVIOUS
<1>1. Desk(Idle) = NobodyAt
  BY DeskOf DEF Idle
<1>2. /\ need = [q \in Quests |-> 0]
      /\ promise = [p \in PledgeIds |-> NoPledge]
      /\ delivered = [p \in PledgeIds |-> 0]
      /\ retracted = {}
      /\ desk = [w \in Workers |-> NobodyAt]
  <2>1. Unused = PledgeIds
    BY DEF Init, Unused
  <2> QED BY <1>1, <2>1 DEF Init, need, promise, delivered, retracted, desk, Exists
<1>3. Ledger!Init
  BY <1>2 DEF Init, Ledger!Init, Ledger!NoPromise, Ledger!Free, NobodyAt, NoPledge, need, promise,
              delivered, retracted, desk
<1>4. BoardFulfils
  BY DEF Init, BoardFulfils, Idle
<1> QED BY <1>3, <1>4

(***************************************************************************)
(* However many processes serve it, wherever their steps interleave and    *)
(* wherever they die: the board is the ledger its members think it is.     *)
(***************************************************************************)
THEOREM BoardServesLedger == Spec => ServesLedger
<1>1. Spec => []BoardFulfils
  BY LedgerInit, FulfilsNext, TypeCorrect, PTL DEF Spec
<1> QED
  BY <1>1, LedgerInit, LedgerSimulates, TypeCorrect, TreesAreShaped, LedgerCorrect, PTL
     DEF Spec, ServesLedger, Ledger!Spec
=============================================================================
