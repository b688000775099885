------------------------------ MODULE Questboard ------------------------------
(***************************************************************************)
(* The shared quest database (core/questdb.py) and the handlers that write *)
(* it: the web API (app/questboard.py) and the Discord commands            *)
(* (bot/questboard.py).  Several processes run handlers at once: two       *)
(* synchronous web workers and the bot.                                    *)
(*                                                                         *)
(* A handler reads a row with a SELECT that holds no lock once it has      *)
(* returned, computes in Python, and writes in one transaction at the end; *)
(* the columns it writes are those whose new value differs from the one    *)
(* READ.  So an operation is two steps, ...Read and ...Commit, and         *)
(* task[w] is what process w remembers between them.  Requests that the    *)
(* code refuses change nothing and are left out.                           *)
(***************************************************************************)
EXTENDS QuestTree, FiniteSetsExt

CONSTANTS
  Workers,      \* processes that run handlers
  People,       \* Discord users
  Quests,       \* quest ids
  Items,        \* item names
  PledgeIds,    \* pledge ids
  PledgeQtys,   \* quantities people pledge
  Asks,         \* quantities people ask to turn in; 0 is an answer the API reads as None
  CreateQtys,   \* quantities of new quests
  Manual,       \* sequences of children entered by hand
  Recipes,      \* what the wiki may answer
  Decisions,    \* statuses officers set
  MaxDelivered, \* bound: no further turn-in of a pledge once its log holds this much
  MayRestart    \* whether a process may die between two steps

ASSUME QuestboardConstants ==
  /\ IsFiniteSet(PledgeIds)
  /\ PledgeQtys \subseteq Nat
  /\ Asks \subseteq Nat
  /\ CreateQtys \subseteq Int
  /\ Manual \subseteq Seq([item : Items, qty : Int])
  /\ Recipes \subseteq [item : Items, yield : Nat \ {0}, parts : Seq([item : Items, qty : Nat])]
  /\ Decisions \subseteq {"open", "fulfilled", "cancelled"}
  /\ MaxDelivered \in Nat
  /\ MayRestart \in BOOLEAN

VARIABLES
  status,   \* quest -> "absent" or its status
  statusBy, \* quest -> what wrote its last status_changed event
  tree,     \* quest -> its stored requirement tree
  pledges,  \* pledge id -> row, or NoPledge
  ledger,   \* pledge id -> sum of the quantities of its turn_in events
  task,     \* worker -> what its handler remembers
  orphaned  \* history: quests whose last closing handler died, until the next turn-in

vars == <<status, statusBy, tree, pledges, ledger, task, orphaned>>

Statuses == {"open", "fulfilled", "cancelled"}

NoTree == <<>>

NoPledge == [quest |-> "none"]

Row == [quest : Quests, node : Nat, who : People, qty : Nat \ {0},
        turned : Nat, withdrawn : BOOLEAN]

Idle == [kind |-> "idle"]

\* The name a root has when the wiki knows no such item (its item id is 0).
Unresolved == "unresolved"

Exists(q) == status[q] # "absent"

Busy(kind) == {w \in Workers : task[w].kind = kind}

Unused == {p \in PledgeIds : pledges[p] = NoPledge}

Init ==
  /\ status = [q \in Quests |-> "absent"]
  /\ statusBy = [q \in Quests |-> "nobody"]
  /\ tree = [q \in Quests |-> NoTree]
  /\ pledges = [p \in PledgeIds |-> NoPledge]
  /\ ledger = [p \in PledgeIds |-> 0]
  /\ task = [w \in Workers |-> Idle]
  /\ orphaned = {}

-----------------------------------------------------------------------------
(* Creating a quest is one INSERT *)

CreateQuest(q, T) ==
  /\ ~ Exists(q)
  /\ status' = [status EXCEPT ![q] = "open"]
  /\ tree' = [tree EXCEPT ![q] = T]
  /\ UNCHANGED <<statusBy, pledges, ledger, task, orphaned>>

\* api_create when the recipe is found: its parts, then the manual children.
CreateFromWeb(q) ==
  \E recipe \in Recipes, qty \in CreateQtys, kids \in Manual :
    CreateQuest(q, FlatTree([item |-> recipe.item, qty |-> AtLeastOne(qty)],
                            CreatedKids(recipe, qty) \o kids))

\* api_create when it is not.
CreateUnresolved(q) ==
  \E qty \in CreateQtys, kids \in Manual :
    CreateQuest(q, FlatTree([item |-> Unresolved, qty |-> AtLeastOne(qty)], kids))

\* /quest-create stores the quantity as typed, and no children.
CreateFromBot(q) ==
  \E item \in {r.item : r \in Recipes} \cup {Unresolved}, qty \in CreateQtys :
    CreateQuest(q, FlatTree([item |-> item, qty |-> qty], <<>>))

-----------------------------------------------------------------------------
(* Pledges *)

Continue(w, t) == task' = [task EXCEPT ![w] = t]

\* Mutant: any quantity is taken.
PledgeableAnyQty(q, node, qty) == Exists(q) /\ node \in NodeIds(tree[q])

\* Mutant: any node is taken.
PledgeableAnyNode(q, node, qty) == Exists(q) /\ qty >= 1

\* add_pledge looks at the quest's tree, not at its status.
Pledgeable(q, node, qty) == Exists(q) /\ node \in NodeIds(tree[q]) /\ qty >= 1

PledgeRead(w, q, node, who, qty) ==
  /\ task[w] = Idle
  /\ Pledgeable(q, node, qty)
  /\ Cardinality(Busy("pledge")) < Cardinality(Unused)   \* bound: a row is left
  /\ Continue(w, [kind |-> "pledge", quest |-> q, node |-> node, who |-> who, qty |-> qty])
  /\ UNCHANGED <<status, statusBy, tree, pledges, ledger, orphaned>>

PledgeCommit(w, p) ==
  LET t == task[w]
  IN  /\ t.kind = "pledge"
      /\ p \in Unused
      /\ pledges' = [pledges EXCEPT ![p] =
                       [quest |-> t.quest, node |-> t.node, who |-> t.who, qty |-> t.qty,
                        turned |-> 0, withdrawn |-> FALSE]]
      /\ Continue(w, Idle)
      /\ UNCHANGED <<status, statusBy, tree, ledger, orphaned>>

\* Mutant: the check for a withdrawn pledge is missing.
OwnLiveUnchecked(p, who) == pledges[p] # NoPledge /\ pledges[p].who = who

\* withdraw_pledge and mark_turned_in refuse other people's and withdrawn pledges.
OwnLive(p, who) ==
  /\ pledges[p] # NoPledge
  /\ pledges[p].who = who
  /\ ~ pledges[p].withdrawn

WithdrawRead(w, p, who) ==
  /\ task[w] = Idle
  /\ OwnLive(p, who)
  /\ Continue(w, [kind |-> "withdraw", pledge |-> p])
  /\ UNCHANGED <<status, statusBy, tree, pledges, ledger, orphaned>>

WithdrawCommit(w) ==
  LET t == task[w]
  IN  /\ t.kind = "withdraw"
      /\ pledges' = [pledges EXCEPT ![t.pledge].withdrawn = TRUE]
      /\ Continue(w, Idle)
      /\ UNCHANGED <<status, statusBy, tree, ledger, orphaned>>

-----------------------------------------------------------------------------
(* Turning in, and closing what is complete *)

Smaller(m, n) == IF m < n THEN m ELSE n

\* The clamp holds for a stated quantity only: without one it is the whole pledge.
Amount(row, ask) == IF ask = 0 THEN row.qty ELSE Smaller(ask, row.qty - row.turned)

TurnInRead(w, p, who, ask) ==
  LET row == pledges[p]
  IN  /\ task[w] = Idle
      /\ OwnLive(p, who)
      /\ Amount(row, ask) > 0
      /\ ledger[p] + Amount(row, ask) <= MaxDelivered   \* bound
      /\ Continue(w, [kind |-> "turnin", pledge |-> p, turned |-> row.turned,
                      amount |-> Amount(row, ask)])
      /\ UNCHANGED <<status, statusBy, tree, pledges, ledger, orphaned>>

\* Mutant: the whole row is written as it was read, before any withdrawal.
TurnedInWholeRow(row, t) == [row EXCEPT !.turned = t.turned + t.amount, !.withdrawn = FALSE]

\* The row gets the sum computed from what was read ...
TurnedInRow(row, t) == [row EXCEPT !.turned = t.turned + t.amount]

\* Mutants: the event records the whole pledge; a withdrawn pledge gets no event.
EventQtyOfPledge(row, t) == row.qty

EventQtyUnlessWithdrawn(row, t) == IF row.withdrawn THEN 0 ELSE t.amount

\* ... and the event the amount.
EventQty(row, t) == t.amount

\* Mutant: only a pledge delivered in full makes the handler look at the quest.
AfterTurnInOfAll(row, t) ==
  IF t.turned + t.amount >= row.qty THEN [kind |-> "check", quest |-> row.quest] ELSE Idle

AfterTurnIn(row, t) == [kind |-> "check", quest |-> row.quest]

TurnInCommit(w) ==
  LET t   == task[w]
      row == pledges[t.pledge]
  IN  /\ t.kind = "turnin"
      /\ pledges' = [pledges EXCEPT ![t.pledge] = TurnedInRow(row, t)]
      /\ ledger' = [ledger EXCEPT ![t.pledge] = @ + EventQty(row, t)]
      /\ Continue(w, AfterTurnIn(row, t))
      /\ orphaned' = orphaned \ {row.quest}
      /\ UNCHANGED <<status, statusBy, tree>>

Live(q) ==
  {p \in PledgeIds : pledges[p] # NoPledge /\ pledges[p].quest = q /\ ~ pledges[p].withdrawn}

\* Sums by node id over the live pledges of a quest: half of what quest_amounts returns.
SumByNode(q, qty) ==
  [id \in {pledges[p].node : p \in Live(q)} |->
     SumFunctionOnSet(qty, {p \in Live(q) : pledges[p].node = id})]

PledgedIn(q) == SumByNode(q, [p \in Live(q) |-> pledges[p].qty])

TurnedIn(q) == SumByNode(q, [p \in Live(q) |-> pledges[p].turned])

Complete(q) == Exists(q) /\ QuestComplete(WebTree(tree[q]), TurnedIn(q))

\* The rest of api_turnin: get_quest, then quest_amounts, then set_quest_status.
CheckStatus(w) ==
  LET t == task[w]
  IN  /\ t.kind = "check"
      /\ Continue(w, IF status[t.quest] = "open"
                       THEN [kind |-> "amounts", quest |-> t.quest]
                       ELSE Idle)
      /\ UNCHANGED <<status, statusBy, tree, pledges, ledger, orphaned>>

\* Mutant: leave it to the other handler that is at work on the quest.
CheckAmountsPolite(w) ==
  LET t == task[w]
  IN  /\ t.kind = "amounts"
      /\ Continue(w, IF ~ Complete(t.quest) THEN Idle
                     ELSE IF Busy("check") \cup Busy("amounts") # {w}
                            THEN [kind |-> "check", quest |-> t.quest]
                            ELSE [kind |-> "fulfil", quest |-> t.quest])
      /\ UNCHANGED <<status, statusBy, tree, pledges, ledger, orphaned>>

CheckAmounts(w) ==
  LET t == task[w]
  IN  /\ t.kind = "amounts"
      /\ Continue(w, IF Complete(t.quest) THEN [kind |-> "fulfil", quest |-> t.quest] ELSE Idle)
      /\ UNCHANGED <<status, statusBy, tree, pledges, ledger, orphaned>>

\* set_quest_status reads the old status (here, and next for an officer) ...
FulfilRead(w) ==
  LET t == task[w]
  IN  /\ t.kind = "fulfil"
      /\ Continue(w, [kind |-> "status", quest |-> t.quest, from |-> status[t.quest],
                      to |-> "fulfilled", by |-> "board"])
      /\ UNCHANGED <<status, statusBy, tree, pledges, ledger, orphaned>>

OfficerRead(w, q, to) ==
  /\ task[w] = Idle
  /\ Exists(q)
  /\ Continue(w, [kind |-> "status", quest |-> q, from |-> status[q], to |-> to, by |-> "officer"])
  /\ UNCHANGED <<status, statusBy, tree, pledges, ledger, orphaned>>

\* ... and writes the column if the new one differs from it; the event is always written.
StatusCommit(w) ==
  LET t == task[w]
  IN  /\ t.kind = "status"
      /\ status' = IF t.from = t.to THEN status ELSE [status EXCEPT ![t.quest] = t.to]
      /\ statusBy' = [statusBy EXCEPT ![t.quest] = t.by]
      /\ Continue(w, Idle)
      /\ UNCHANGED <<tree, pledges, ledger, orphaned>>

-----------------------------------------------------------------------------
(* Re-expanding: the tree is read, the wiki asked, the whole tree written *)

MergeRead(w, q) ==
  /\ task[w] = Idle
  /\ Exists(q)
  /\ Continue(w, [kind |-> "merge", quest |-> q, tree |-> tree[q]])
  /\ UNCHANGED <<status, statusBy, tree, pledges, ledger, orphaned>>

\* A recipe of another item is not merged, and nothing is written when nothing is new.
Mergeable(T, recipe) ==
  /\ T[Root].item \in {Unresolved, recipe.item}
  /\ FreshParts(T, recipe) # {}

MergeCommit(w, recipe) ==
  LET t == task[w]
  IN  /\ t.kind = "merge"
      /\ Mergeable(t.tree, recipe)
      /\ tree' = [tree EXCEPT ![t.quest] = MergeRecipe(t.tree, recipe)]
      /\ Continue(w, Idle)
      /\ UNCHANGED <<status, statusBy, pledges, ledger, orphaned>>

\* "nothing new to merge", or the wiki could not be reached.
MergeNothing(w) ==
  /\ task[w].kind = "merge"
  /\ Continue(w, Idle)
  /\ UNCHANGED <<status, statusBy, tree, pledges, ledger, orphaned>>

-----------------------------------------------------------------------------

\* A handler that remembers t is on the way to closing q.
Watches(t, q) ==
  \/ t.kind \in {"check", "amounts", "fulfil"} /\ t.quest = q
  \/ t.kind = "status" /\ t.quest = q /\ t.by = "board"

\* The process dies, or the handler fails (the database stays locked too long).
Restart(w) ==
  /\ MayRestart
  /\ task[w] # Idle
  /\ Continue(w, Idle)
  /\ orphaned' =
       orphaned \cup {q \in Quests : \A v \in Workers : Watches(task[v], q) <=> v = w}
  /\ UNCHANGED <<status, statusBy, tree, pledges, ledger>>

Create(q) == CreateFromWeb(q) \/ CreateUnresolved(q) \/ CreateFromBot(q)

Request(w) ==
  \/ \E q \in Quests :
       \/ \E node \in 0..Cardinality(DOMAIN tree[q]), who \in People, qty \in PledgeQtys :
            PledgeRead(w, q, node, who, qty)
       \/ \E to \in Decisions : OfficerRead(w, q, to)
       \/ MergeRead(w, q)
  \/ \E p \in PledgeIds, who \in People :
       \/ WithdrawRead(w, p, who)
       \/ \E ask \in Asks : TurnInRead(w, p, who, ask)

Step(w) ==
  \/ \E p \in PledgeIds : PledgeCommit(w, p)
  \/ WithdrawCommit(w)
  \/ TurnInCommit(w)
  \/ CheckStatus(w)
  \/ CheckAmounts(w)
  \/ FulfilRead(w)
  \/ StatusCommit(w)
  \/ \E recipe \in Recipes : MergeCommit(w, recipe)
  \/ MergeNothing(w)

Next ==
  \/ \E q \in Quests : Create(q)
  \/ \E w \in Workers : Request(w) \/ Step(w) \/ Restart(w)

Spec == Init /\ [][Next]_vars

\* A handler that has started runs on: nothing in it waits for another request.
FairSpec == Spec /\ \A w \in Workers : WF_vars(Step(w))

-----------------------------------------------------------------------------
(* Properties *)

TaskOK(t) ==
  \/ t = Idle
  \/ t \in [kind : {"pledge"}, quest : Quests, node : Nat, who : People, qty : Nat \ {0}]
  \/ t \in [kind : {"withdraw"}, pledge : PledgeIds]
  \/ t \in [kind : {"turnin"}, pledge : PledgeIds, turned : Nat, amount : Nat \ {0}]
  \/ t \in [kind : {"check", "amounts", "fulfil"}, quest : Quests]
  \/ t \in [kind : {"status"}, quest : Quests, from : Statuses, to : Statuses,
            by : {"board", "officer"}]
  \/ /\ t.kind = "merge"
     /\ t = [kind |-> "merge", quest |-> t.quest, tree |-> t.tree]
     /\ t.quest \in Quests
     /\ IsFiniteSet(DOMAIN t.tree)

\* The quest or the pledge a handler is about.
RefersOK(t) ==
  /\ t.kind \in {"pledge", "check", "amounts", "fulfil", "status", "merge"} => Exists(t.quest)
  /\ t.kind \in {"withdraw", "turnin"} => t.pledge \notin Unused

(***************************************************************************)
(* Every variable has its type, a stored quest has a finite tree, and no   *)
(* pledge and no handler refers to a quest or a pledge that is not there   *)
(* (nothing in the code deletes one).                                      *)
(***************************************************************************)
TypeOK ==
  /\ status \in [Quests -> Statuses \cup {"absent"}]
  /\ statusBy \in [Quests -> {"nobody", "board", "officer"}]
  /\ DOMAIN tree = Quests
  /\ \A q \in Quests : IsFiniteSet(DOMAIN tree[q])
  /\ pledges \in [PledgeIds -> Row \cup {NoPledge}]
  /\ ledger \in [PledgeIds -> Nat]
  /\ DOMAIN task = Workers
  /\ \A w \in Workers : TaskOK(task[w])
  /\ orphaned \subseteq Quests
  /\ \A p \in PledgeIds \ Unused : Exists(pledges[p].quest)
  /\ \A w \in Workers : RefersOK(task[w])

(***************************************************************************)
(* A turn-in may be overwritten by one that read the row before it.  What  *)
(* remains: a row never claims more than the event log can account for, so *)
(* the log can always repair the row.  The second half, about what         *)
(* handlers remember, makes the first inductive.                           *)
(***************************************************************************)
LedgerCoversTurned ==
  /\ \A p \in PledgeIds \ Unused : pledges[p].turned <= ledger[p]
  /\ \A w \in Busy("turnin") : task[w].turned <= ledger[task[w].pledge]

TurningIn(p) == {w \in Busy("turnin") : task[w].pledge = p}

Alone(p) == \A v, w \in TurningIn(p) : v = w

Exact(p) == p \notin Unused => pledges[p].turned = ledger[p]

(***************************************************************************)
(* docs/questboard.md: every turn-in is appended to the event log and      *)
(* reduces the open requirement.  Two turn-ins of the SAME pledge that     *)
(* overlap are the only way to lose one: a pledge that never has two holds *)
(* exactly what its events add up to, whatever else runs beside it, is     *)
(* withdrawn between a turn-in's read and its write, or dies in between.   *)
(***************************************************************************)
LedgerExact == \A p \in PledgeIds : []Alone(p) => []Exact(p)

\* What a pledge says, apart from what became of it.
Promise(row) == <<row.quest, row.node, row.who, row.qty>>

RowsKept ==
  \A p \in PledgeIds \ Unused :
    /\ pledges'[p] # NoPledge
    /\ Promise(pledges'[p]) = Promise(pledges[p])
    /\ pledges[p].withdrawn => pledges'[p].withdrawn
    /\ ledger'[p] >= ledger[p]

(***************************************************************************)
(* Handlers that rewrite rows they read earlier never change what a member *)
(* promised, never revive a withdrawn pledge, and never lose a row or an   *)
(* event.                                                                  *)
(***************************************************************************)
RowsKeepTheirPledge == [][RowsKept]_vars

(***************************************************************************)
(* The comment in update_quest_tree and docs/questboard.md: re-expansion   *)
(* keeps node ids stable, so a live pledge never dangles.                  *)
(***************************************************************************)
PledgesOnTree ==
  \A p \in PledgeIds \ Unused :
    ~ pledges[p].withdrawn => pledges[p].node \in NodeIds(tree[pledges[p].quest])

(***************************************************************************)
(* Stronger: a live pledge keeps naming the item it was made for, with the *)
(* same requirement, through every re-expansion.                           *)
(***************************************************************************)
PledgesKeepTheirNode ==
  [][\A p \in PledgeIds \ Unused :
       LET q    == pledges[p].quest
           node == pledges[p].node
       IN  ~ pledges[p].withdrawn =>
             /\ node \in NodeIds(tree'[q])
             /\ tree'[q][NodeAt(tree'[q], node)] = tree[q][NodeAt(tree[q], node)]]_vars

\* Somebody is on the way to closing q.
Watched(q) == \E w \in Workers : Watches(task[w], q)

\* q is delivered, nobody has changed its status, and the last to watch it has not died.
Closable(q) == Complete(q) /\ statusBy[q] = "nobody" /\ q \notin orphaned

(***************************************************************************)
(* Completion is noticed by the handler whose turn-in caused it, from      *)
(* amounts it reads afterwards, while other turn-ins and withdrawals       *)
(* commit in between.  A quest whose status nobody has changed yet is      *)
(* never left open and complete with no handler about to close it, unless  *)
(* the last of these handlers died; the next turn-in then makes it good.   *)
(***************************************************************************)
CompleteQuestIsWatched == \A q \in Quests : Closable(q) => Watched(q)

(***************************************************************************)
(* So a delivered quest closes, unless an officer decides, its handler     *)
(* dies, or what was delivered is withdrawn or overwritten first.          *)
(***************************************************************************)
CompleteQuestCloses ==
  \A q \in Quests : Closable(q) ~> ~ Closable(q)

(***************************************************************************)
(* tests/test_questdb.py, test_over_turnin_clamped_to_pledge: a turn-in    *)
(* beyond the pledge is clamped to it.                                     *)
(***************************************************************************)
TurnedWithinPledge == \A p \in PledgeIds \ Unused : pledges[p].turned <= pledges[p].qty

(***************************************************************************)
(* docs/questboard.md: Discord and web show the same state.  Both rebuild  *)
(* the stored tree and compute the status of every node from the same      *)
(* rows; either both fail or both get the same figures.                    *)
(***************************************************************************)
SurfacesAgree ==
  \A q \in {r \in Quests : Exists(r)} :
    LET web == WebTree(tree[q])
        bot == BotTree(tree[q])
        ids == DOMAIN PledgedIn(q)
    IN  /\ Computable(web, ids) <=> Computable(bot, ids)
        /\ Computable(web, ids) =>
             \A p \in DOMAIN web :
               NodeStatus(web, PledgedIn(q), TurnedIn(q), p) =
                 NodeStatus(bot, PledgedIn(q), TurnedIn(q), p)

\* What a handler remembers, as QuestLedger sees it.
Desk(t) ==
  CASE t.kind = "turnin"  -> [doing |-> "delivering", on |-> t.pledge, saw |-> t.turned]
    [] t.kind = "check"   -> [doing |-> "looking", on |-> t.quest]
    [] t.kind = "amounts" -> [doing |-> "summing", on |-> t.quest]
    [] t.kind = "fulfil" \/ (t.kind = "status" /\ t.by = "board") ->
         [doing |-> "closing", on |-> t.quest]
    [] OTHER -> [doing |-> "nothing"]

(***************************************************************************)
(* The board keeps the promises of QuestLedger, however many processes     *)
(* serve it, wherever they interleave and die: no delivery is started on a *)
(* withdrawn pledge, one that nobody overtook adds up, an overtaken one    *)
(* stays within the log, and only what was found open, and after that      *)
(* found delivered, is closed by the board.                                *)
(***************************************************************************)
Ledger == INSTANCE QuestLedger WITH
  Pledges   <- PledgeIds,
  Clerks    <- Workers,
  need      <- [q \in Quests |-> IF Exists(q) THEN WebTree(tree[q])[Root].qty ELSE 0],
  promise   <- [p \in PledgeIds |->
                  IF p \in Unused
                    THEN NoPledge
                    ELSE [f \in {"quest", "node", "who", "qty"} |-> pledges[p][f]]],
  logged    <- ledger,
  delivered <- [p \in PledgeIds |-> IF p \in Unused THEN 0 ELSE pledges[p].turned],
  retracted <- {p \in PledgeIds \ Unused : pledges[p].withdrawn},
  desk      <- [w \in Workers |-> Desk(task[w])]

ServesLedger == Ledger!Spec
=============================================================================
