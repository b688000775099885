----------------------------- MODULE QuestLedger -----------------------------
(***************************************************************************)
(* What the questboard promises its members, as a book that several clerks *)
(* keep.  A promise is kept until retracted, and no delivery is taken up   *)
(* on a retracted one.  A delivery is always logged; it is added to what   *)
(* was delivered before, unless another delivery on the same promise       *)
(* overtook it, and even then no more is shown than is logged.  The clerk  *)
(* that took a delivery looks at the quest afterwards: only one that found *)
(* it open, and after that found it delivered, closes it.  Everything else *)
(* about the status is an officer's word.  A clerk may leave at any time.  *)
(*                                                                         *)
(* Questboard refines this specification.  Quantities are unbounded here:  *)
(* an action says how the new value is related to the old one, and the     *)
(* refinement supplies it.                                                 *)
(***************************************************************************)
EXTENDS Integers, FiniteSetsExt

CONSTANTS Quests, Pledges, Clerks

VARIABLES
  need,       \* quest -> required quantity of its root, 0 before it exists
  status,     \* quest -> "absent", "open", "fulfilled" or "cancelled"
  statusBy,   \* quest -> who last had a word on its status
  promise,    \* pledge -> [quest, node, who, qty], or NoPromise
  logged,     \* pledge -> quantity logged as delivered on it
  delivered,  \* pledge -> quantity shown as delivered on it
  retracted,  \* the pledges withdrawn
  desk        \* clerk -> what it is doing, and on which pledge or quest

vars == <<need, status, statusBy, promise, logged, delivered, retracted, desk>>

NoPromise == [quest |-> "none"]

Free == [doing |-> "nothing"]

Promised == {p \in Pledges : promise[p] # NoPromise}

RootDelivered(q) ==
  SumFunctionOnSet(delivered,
    {p \in Promised \ retracted : promise[p].quest = q /\ promise[p].node = 0})

Init ==
  /\ need = [q \in Quests |-> 0]
  /\ status = [q \in Quests |-> "absent"]
  /\ statusBy = [q \in Quests |-> "nobody"]
  /\ promise = [p \in Pledges |-> NoPromise]
  /\ logged = [p \in Pledges |-> 0]
  /\ delivered = [p \in Pledges |-> 0]
  /\ retracted = {}
  /\ desk = [c \in Clerks |-> Free]

OpenQuest(q) ==
  /\ status[q] = "absent"
  /\ status' = [status EXCEPT ![q] = "open"]
  /\ need' = [need EXCEPT ![q] = need'[q]] /\ need'[q] >= 1
  /\ UNCHANGED <<statusBy, promise, logged, delivered, retracted, desk>>

MakePromise(p) ==
  LET new == promise'[p]
  IN  /\ p \notin Promised
      /\ promise' = [promise EXCEPT ![p] = new]
      /\ new # NoPromise
      /\ status[new.quest] # "absent"
      /\ new.qty >= 1
      /\ UNCHANGED <<need, status, statusBy, logged, delivered, retracted, desk>>

Retract(p) ==
  /\ p \in Promised \ retracted
  /\ retracted' = retracted \cup {p}
  /\ UNCHANGED <<need, status, statusBy, promise, logged, delivered, desk>>

StartDelivery(c, p) ==
  /\ desk[c] = Free
  /\ p \in Promised \ retracted
  /\ desk' = [desk EXCEPT ![c] = [doing |-> "delivering", on |-> p, saw |-> delivered[p]]]
  /\ UNCHANGED <<need, status, statusBy, promise, logged, delivered, retracted>>

Deliver(c) ==
  LET p    == desk[c].on
      gain == logged'[p] - logged[p]
  IN  /\ desk[c].doing = "delivering"
      /\ logged' = [logged EXCEPT ![p] = logged'[p]]
      /\ delivered' = [delivered EXCEPT ![p] = delivered'[p]]
      /\ gain > 0
      /\ delivered'[p] \in gain..logged'[p]
      /\ desk[c].saw = delivered[p] => delivered'[p] = delivered[p] + gain
      /\ desk' = [desk EXCEPT ![c] = [doing |-> "looking", on |-> promise[p].quest]]
      /\ UNCHANGED <<need, status, statusBy, promise, retracted>>

\* A clerk at the quest it delivered to finds what it hopes for and goes on.
GoesOn(c, next) ==
  /\ desk' = [desk EXCEPT ![c] = [doing |-> next, on |-> desk[c].on]]
  /\ UNCHANGED <<need, status, statusBy, promise, logged, delivered, retracted>>

FindsOpen(c) ==
  /\ desk[c].doing = "looking"
  /\ status[desk[c].on] = "open"
  /\ GoesOn(c, "summing")

FindsDelivered(c) ==
  /\ desk[c].doing = "summing"
  /\ RootDelivered(desk[c].on) >= need[desk[c].on]
  /\ GoesOn(c, "closing")

Leave(c) ==
  /\ desk[c] # Free
  /\ desk' = [desk EXCEPT ![c] = Free]
  /\ UNCHANGED <<need, status, statusBy, promise, logged, delivered, retracted>>

\* Whoever writes status s may find that it was already written.
Writes(q, s, by) ==
  /\ status' \in {status, [status EXCEPT ![q] = s]}
  /\ statusBy' = [statusBy EXCEPT ![q] = by]
  /\ UNCHANGED <<need, promise, logged, delivered, retracted>>

Close(c) ==
  /\ desk[c].doing = "closing"
  /\ Writes(desk[c].on, "fulfilled", "board")
  /\ desk' = [desk EXCEPT ![c] = Free]

Moderate(q, s) ==
  /\ status[q] # "absent"
  /\ Writes(q, s, "officer")
  /\ UNCHANGED desk

Next ==
  \/ \E q \in Quests :
       \/ OpenQuest(q)
       \/ \E s \in {"open", "fulfilled", "cancelled"} : Moderate(q, s)
  \/ \E p \in Pledges : MakePromise(p) \/ Retract(p)
  \/ \E c \in Clerks :
       \/ \E p \in Pledges : StartDelivery(c, p)
       \/ Deliver(c)
       \/ FindsOpen(c)
       \/ FindsDelivered(c)
       \/ Close(c)
       \/ Leave(c)

Spec == Init /\ [][Next]_vars
=============================================================================
