-------------------------------- MODULE HomePost --------------------------------
(***************************************************************************)
(* The message by which a party is joined and left in its home channel     *)
(* (PersistentPartyView and /setup-home-channel, bot/commands.py), above   *)
(* the roster it shows.                                                    *)
(*                                                                         *)
(* A callback of the bot runs until it awaits Discord; others run before   *)
(* it goes on.  Posts are numbered as they are sent.  What one shows is    *)
(* the number of changes of the party's members it was built after.  The   *)
(* bot may die between any two steps; its buttons answer again when it is  *)
(* back.                                                                   *)
(***************************************************************************)
EXTENDS Roster

CONSTANTS
  MaxPosts,    \* bound: posts sent, the first included
  MaxClicks    \* bound: callbacks under way

ASSUME HomePostConstants == MaxPosts \in Nat \ {0} /\ MaxClicks \in Nat

VARIABLES
  posts,     \* what was sent, in that order
  clicks     \* callbacks under way

postVars == <<posts, clicks>>

vars == <<rosterVars, postVars>>

Post(party, shows) == [party |-> party, shows |-> shows, live |-> TRUE]

\* A callback: of a button on a post (0 for the command), how far it has come, the change
\* it was clicked after, the embed it built and the post it sent.
Click(kind, party, on, at) ==
  [kind |-> kind, party |-> party, on |-> on, at |-> at, seen |-> changes[party], embed |-> 0, sent |-> 0]

TypeOK ==
  /\ RosterTypeOK
  /\ posts \in Seq([party : Parties, shows : Nat, live : BOOLEAN])
  /\ clicks \subseteq [kind : {"refresh", "move", "setup"}, party : Parties, on : 0..MaxPosts,
                       at : {"deferring", "editing", "sending", "deleting", "storing"},
                       seen : Nat, embed : Nat, sent : 0..MaxPosts]
  /\ home \in [Parties -> 0..MaxPosts]

Begin(c) == Cardinality(clicks) < MaxClicks /\ clicks' = clicks \cup {c}

Continue(c, d) == clicks' = (clicks \ {c}) \cup {d}

End(c) == clicks' = clicks \ {c}

Live(i) == posts[i].live

---------------------------------------------------------------------------
(* Buttons                                                                 *)

\* Whoever has no row in people gets an error instead.
Join(u, i) ==
  /\ Idle /\ Ask /\ Live(i)
  /\ IsRegistered(u) /\ Accepts(posts[i].party)
  /\ AddPersonToParty(u, posts[i].party)
  /\ Begin([Click("refresh", posts[i].party, i, "deferring") EXCEPT !.seen = changes'[posts[i].party]])
  /\ UNCHANGED <<parties, jobs, settings, home, active, dash, view, saving, plan, posts>>

Leave(u, i) ==
  /\ Idle /\ Ask /\ Live(i)
  /\ SetMembers(posts[i].party, members[posts[i].party] \ {u})
  /\ Begin([Click("refresh", posts[i].party, i, "deferring") EXCEPT !.seen = changes'[posts[i].party]])
  /\ UNCHANGED <<parties, jobs, settings, home, active, dash, view, saving, plan, posts>>

MoveToBottom(i) ==
  /\ Idle /\ Ask /\ Live(i)
  /\ Begin(Click("move", posts[i].party, i, "deferring"))
  /\ UNCHANGED <<parties, jobs, members, settings, home, active, dash, view, saving, plan, changes, posts>>

\* Mutant: the embed of the clicked message is taken up again.
EmbedOfMessage(c) == posts[c.on].shows

\* _build_party_embed, once the click was answered.
BuildPartyEmbed(c) == changes[c.party]

Build(c) ==
  /\ Idle
  /\ c.at = "deferring"
  /\ Continue(c, [c EXCEPT !.at = IF c.kind = "refresh" THEN "editing" ELSE "sending",
                           !.embed = BuildPartyEmbed(c)])
  /\ UNCHANGED <<rosterVars, posts>>

\* The edit arrives; of a post that is gone it fails.
PostEdited(c) ==
  /\ Idle
  /\ c.at = "editing"
  /\ posts' = IF Live(c.on) THEN [posts EXCEPT ![c.on].shows = c.embed] ELSE posts
  /\ End(c)
  /\ UNCHANGED rosterVars

\* /setup-home-channel, for a party that exists or is created on the way.
SetupHomeChannel(p) ==
  /\ Idle /\ Ask
  /\ parties' = parties \cup {p}
  /\ Begin([Click("setup", p, 0, "sending") EXCEPT !.seen = 0])
  /\ UNCHANGED <<jobs, members, settings, home, active, dash, view, saving, plan, changes, posts>>

\* Only a move deletes the post it was clicked on.
Sent(c) ==
  /\ Idle
  /\ c.at = "sending"
  /\ Len(posts) < MaxPosts
  /\ posts' = Append(posts, Post(c.party, c.embed))
  /\ Continue(c, [c EXCEPT !.at = IF c.kind = "move" THEN "deleting" ELSE "storing", !.sent = Len(posts) + 1])
  /\ UNCHANGED rosterVars

\* The call fails, or the embed cannot be built from unreadable constraints.
Fails(c) ==
  /\ Idle
  /\ c.at \in {"deferring", "sending", "editing"}
  /\ End(c)
  /\ UNCHANGED <<rosterVars, posts>>

\* Mutant: the post a move deletes is the latest.
LatestPost(c) == Len(posts)

\* interaction.message
ClickedPost(c) == c.on

\* A failure to delete is logged.
OldDeleted(c) ==
  /\ Idle
  /\ c.at = "deleting"
  /\ posts' \in {posts, [posts EXCEPT ![ClickedPost(c)].live = FALSE]}
  /\ Continue(c, [c EXCEPT !.at = "storing"])
  /\ UNCHANGED rosterVars

StoreHome(c) ==
  /\ Idle
  /\ c.at = "storing"
  /\ home' = IF c.party \in parties THEN [home EXCEPT ![c.party] = c.sent] ELSE home
  /\ End(c)
  /\ UNCHANGED <<parties, jobs, members, settings, active, dash, view, saving, plan, changes, requests, posts>>

\* What the bot had under way is lost, its open views with it.
RestartBot ==
  /\ Ask
  /\ clicks' = {} /\ view' = [u \in Users |-> Absent] /\ saving' = NoSave
  /\ UNCHANGED <<parties, jobs, members, settings, home, active, dash, plan, changes, posts>>

---------------------------------------------------------------------------
(* Specification                                                           *)

PostNext ==
  \/ \E u \in Users, i \in DOMAIN posts : Join(u, i) \/ Leave(u, i)
  \/ \E i \in DOMAIN posts : MoveToBottom(i)
  \/ \E p \in Parties : SetupHomeChannel(p)
  \/ \E c \in clicks :
       Build(c) \/ PostEdited(c) \/ Sent(c) \/ Fails(c) \/ OldDeleted(c) \/ StoreHome(c)
  \/ RestartBot

\* The party that is shown was set up before.
Init ==
  /\ RosterInit
  /\ posts = <<Post(active, 0)>>
  /\ clicks = {}

Next ==
  \/ (DashboardNext \/ InitDb \/ JobsNext) /\ UNCHANGED postVars
  \/ PostNext

Spec == Init /\ [][Next]_vars

---------------------------------------------------------------------------
(* Properties                                                              *)

\* What is shown when a computation completes counts every choice of jobs that the
\* constraints allow, and shows each division of the roles among the members once, by a
\* choice that no other of its division beats, the better ones first.
PlanIsBest ==
  [][plan.at = "reading" /\ plan'.at = "made"
       => MeetsPromise(plan'.people, plan'.settings, plan'.result)]_vars

\* A party created under the name of one that was deleted starts without members,
\* constraints and home message, whatever dashboards that still showed the old one saved
\* in between.
NewPartyIsEmpty ==
  [][\A p \in Parties : p \in parties' \ parties =>
       members'[p] = {} /\ settings'[p] = DefaultSettings /\ home'[p] = 0]_vars

\* Whatever moves are under way, fail or die half-way, the last post sent for a party is
\* not deleted: there is always one to join by.
NewestPostIsLive ==
  \A i \in DOMAIN posts : (\A j \in DOMAIN posts : j > i => posts[j].party # posts[i].party) => Live(i)

\* An embed on its way shows at least the members that the click it answers left behind.
EditCoversItsClick == \A c \in clicks : c.at # "deferring" => c.embed >= c.seen

================================================================================
