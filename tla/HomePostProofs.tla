----------------------------- MODULE HomePostProofs -----------------------------
(***************************************************************************)
(* What HomePost promises for any people, parties and number of clicks:    *)
(* the last post of a party is not deleted, an embed covers the click it   *)
(* answers, a party that is created again starts empty, nobody is a member *)
(* without a row or is listed with a job twice, and a plan shows the best  *)
(* choice of each division of the roles.                                   *)
(***************************************************************************)
EXTENDS HomePost, DataProofs

---------------------------------------------------------------------------
(* The invariant                                                           *)

IsTable(f) == f = [p \in Parties |-> f[p]]

Tables ==
  /\ IsTable(members) /\ IsTable(settings) /\ IsTable(home)
  /\ changes \in [Parties -> Nat]

\* Nothing is kept for a party that does not exist.
GoneIsEmpty ==
  \A p \in Parties \ parties : members[p] = {} /\ settings[p] = DefaultSettings /\ home[p] = 0

RosterInv == Tables /\ GoneIsEmpty

PostType == [party : Parties, shows : Nat, live : BOOLEAN]

ClickType ==
  [kind : {"refresh", "move", "setup"}, party : Parties, on : Nat,
   at : {"deferring", "editing", "sending", "deleting", "storing"},
   seen : Nat, embed : Nat, sent : Nat]

\* What a callback knows of the change it answers.
ClickCovers(c) == c.seen <= changes[c.party] /\ (c.at # "deferring" => c.embed >= c.seen)

\* A move works on posts of its party, and deletes only after it has sent a later one.
ClickMoves(c) ==
  /\ c.kind = "move" => c.on \in DOMAIN posts /\ posts[c.on].party = c.party
  /\ c.at = "deleting" => /\ c.kind = "move"
                          /\ c.sent \in DOMAIN posts /\ c.on < c.sent
                          /\ posts[c.sent].party = c.party

ClicksInv == \A c \in clicks : c \in ClickType /\ ClickCovers(c) /\ ClickMoves(c)

PostsInv == posts \in Seq(PostType) /\ NewestPostIsLive

Inv == RosterInv /\ PostsInv /\ ClicksInv

\* What every step does to the roster.
Grows == \A p \in Parties : changes'[p] >= changes[p]

NewIsEmpty ==
  \A p \in Parties : p \in parties' \ parties =>
    members'[p] = {} /\ settings'[p] = DefaultSettings /\ home'[p] = 0

RosterStep == RosterInv' /\ Grows /\ NewIsEmpty

---------------------------------------------------------------------------
(* Steps of the roster                                                     *)

\* Writing the members of a party counts a change or none.
LEMMA SetMembersCounts ==
  ASSUME Tables, NEW STATE p, NEW STATE names, SetMembers(p, names)
  PROVE  /\ IsTable(members') /\ changes' \in [Parties -> Nat] /\ Grows
         /\ \A q \in Parties : q # p => members'[q] = members[q]
         /\ p \in Parties => members'[p] = names
<1>1. /\ members' = [members EXCEPT ![p] = names]
      /\ changes' = [changes EXCEPT ![p] = IF names = members[p] THEN @ ELSE @ + 1]
  BY DEF SetMembers
<1>2. members = [q \in Parties |-> members[q]] /\ changes \in [Parties -> Nat]
  BY DEF Tables, IsTable
<1>3. \A q \in Parties : q # p => members'[q] = members[q]
  BY <1>1, <1>2
<1>4. p \in Parties => members'[p] = names
  BY <1>1, <1>2
<1>5. members' = [q \in Parties |-> members'[q]]
  BY <1>1, <1>2
<1>6. changes' \in [Parties -> Nat]
  <2>1. \A q \in Parties : changes'[q] = changes[q] \/ changes'[q] = changes[q] + 1
    BY <1>1, <1>2
  <2>2. \A q \in Parties : changes[q] \in Nat /\ changes[q] + 1 \in Nat
    BY <1>2
  <2>3. \A q \in Parties : changes'[q] \in Nat
    BY <2>1, <2>2
  <2>4. changes' = [q \in Parties |-> changes'[q]]
    BY <1>1, <1>2
  <2> QED
    BY <2>3, <2>4
<1>7. \A q \in Parties : changes'[q] >= changes[q]
  BY <1>1, <1>2
<1> QED
  BY <1>3, <1>4, <1>5, <1>6, <1>7 DEF IsTable, Grows

\* A step that leaves the parties' rows alone.
LEMMA RowsKept ==
  ASSUME RosterInv, parties \subseteq parties',
         UNCHANGED <<members, settings, home, changes>>
  PROVE  RosterStep
BY DEF RosterInv, Tables, IsTable, GoneIsEmpty, RosterStep, Grows, NewIsEmpty

\* A step that writes the members of one party that exists, or removes some of them.
LEMMA MembersWritten ==
  ASSUME RosterInv, NEW STATE p, NEW STATE names, SetMembers(p, names),
         p \in parties \/ names \subseteq members[p],
         UNCHANGED <<parties, settings, home>>
  PROVE  RosterStep
<1>1. IsTable(members') /\ changes' \in [Parties -> Nat] /\ Grows
  BY SetMembersCounts DEF RosterInv
<1>2. \A q \in Parties : q # p => members'[q] = members[q]
  BY SetMembersCounts DEF RosterInv
<1>3. p \in Parties => members'[p] = names
  BY SetMembersCounts DEF RosterInv
<1>4. \A q \in Parties \ parties : members'[q] = {}
  BY <1>2, <1>3 DEF RosterInv, GoneIsEmpty
<1>5. GoneIsEmpty'
  BY <1>4 DEF RosterInv, GoneIsEmpty
<1>6. Tables'
  BY <1>1 DEF RosterInv, Tables, IsTable
<1> QED
  BY <1>1, <1>5, <1>6 DEF RosterStep, RosterInv, NewIsEmpty

LEMMA PeopleWritten ==
  ASSUME RosterInv, NEW STATE rows, NEW STATE p, PeopleToDb(rows, p), UNCHANGED <<parties, settings, home>>
  PROVE  RosterStep
<1>1. CASE Accepts(p)
  <2>1. SetMembers(p, DOMAIN rows) /\ p \in parties
    BY <1>1 DEF PeopleToDb, Accepts
  <2> QED
    BY <2>1, MembersWritten
<1>2. CASE ~ Accepts(p)
  BY <1>2, RowsKept DEF PeopleToDb
<1> QED
  BY <1>1, <1>2

LEMMA PersonAdded ==
  ASSUME RosterInv, NEW STATE n, NEW STATE p, AddPersonToParty(n, p), UNCHANGED <<parties, settings, home>>
  PROVE  RosterStep
<1>1. CASE Accepts(p) /\ IsRegistered(n)
  <2>1. SetMembers(p, members[p] \cup {n}) /\ p \in parties
    BY <1>1 DEF AddPersonToParty, Accepts
  <2> QED
    BY <2>1, MembersWritten
<1>2. CASE ~ (Accepts(p) /\ IsRegistered(n))
  BY <1>2, RowsKept DEF AddPersonToParty
<1> QED
  BY <1>1, <1>2

LEMMA ConstraintsWritten ==
  ASSUME RosterInv, NEW d \in Dashboards, SaveConstraints(d)
  PROVE  RosterStep
<1>1. PICK s \in Settings \cup {Unreadable} : settings' = [settings EXCEPT ![dash[d].party] = s]
  BY DEF SaveConstraints
<1>2. dash[d].party \in parties
  BY DEF SaveConstraints, Accepts
<1>3. UNCHANGED <<parties, members, home, changes>>
  BY DEF SaveConstraints
<1> QED
  BY <1>1, <1>2, <1>3 DEF RosterInv, Tables, IsTable, GoneIsEmpty, RosterStep, Grows, NewIsEmpty

LEMMA PartyDeleted ==
  ASSUME RosterInv, NEW d \in Dashboards, DeleteCurrentParty(d)
  PROVE  RosterStep
<1> DEFINE p == dash[d].party
<1>1. SetMembers(p, {})
  BY DEF DeleteCurrentParty
<1>2. /\ parties' = parties \ {p}
      /\ settings' = [settings EXCEPT ![p] = DefaultSettings]
      /\ home' = [home EXCEPT ![p] = 0]
  BY DEF DeleteCurrentParty, Cascade
<1> HIDE DEF p
<1>3. IsTable(members') /\ changes' \in [Parties -> Nat] /\ Grows
  BY <1>1, SetMembersCounts DEF RosterInv
<1>4. \A q \in Parties : q # p => members'[q] = members[q]
  BY <1>1, SetMembersCounts DEF RosterInv
<1>5. p \in Parties => members'[p] = {}
  BY <1>1, SetMembersCounts DEF RosterInv
<1>6. Tables'
  BY <1>2, <1>3 DEF RosterInv, Tables, IsTable
<1>7. GoneIsEmpty'
  BY <1>2, <1>4, <1>5 DEF RosterInv, Tables, IsTable, GoneIsEmpty
<1> QED
  BY <1>2, <1>3, <1>6, <1>7 DEF RosterStep, RosterInv, NewIsEmpty

LEMMA DashboardSteps == RosterInv /\ DashboardNext => RosterStep
<1> SUFFICES ASSUME RosterInv, DashboardNext PROVE RosterStep
  OBVIOUS
<1>1. CASE PlanMade
  BY <1>1, RowsKept DEF PlanMade
<1>2. ASSUME NEW d \in Dashboards, NEW p \in Parties, SwitchParty(d, p)
      PROVE  RosterStep
  BY <1>2, RowsKept DEF SwitchParty
<1>3. ASSUME NEW d \in Dashboards, NEW c \in dash[d].calls,
             SwitchAnswered(d, c) \/ PeopleAnswered(d, c) \/ PartiesAnswered(d, c) \/ ComputeAsked(d, c)
      PROVE  RosterStep
  BY <1>3, RowsKept DEF SwitchAnswered, PeopleAnswered, PartiesAnswered, ComputeAsked
<1>4. ASSUME NEW d \in Dashboards, EditJobs(d) \/ RemovePerson(d) \/ AddPerson(d)
      PROVE  RosterStep
  <2>1. PICK rows : Save(d, rows)
    BY <1>4 DEF EditJobs, RemovePerson, AddPerson
  <2> QED
    BY <2>1, PeopleWritten DEF Save
<1>5. ASSUME NEW d \in Dashboards, AddPoolPerson(d)
      PROVE  RosterStep
  BY <1>5, PersonAdded DEF AddPoolPerson
<1>6. ASSUME NEW d \in Dashboards, ComputeParties(d)
      PROVE  RosterStep
  BY <1>6, RowsKept DEF ComputeParties
<1>7. ASSUME NEW d \in Dashboards, NEW p \in Others, CreateParty(d, p)
      PROVE  RosterStep
  BY <1>7, RowsKept DEF CreateParty
<1> QED
  BY <1>1, <1>2, <1>3, <1>4, <1>5, <1>6, <1>7, ConstraintsWritten, PartyDeleted DEF DashboardNext

LEMMA JobsSteps == RosterInv /\ (InitDb \/ JobsNext) => RosterStep
<1> SUFFICES ASSUME RosterInv, InitDb \/ JobsNext PROVE RosterStep
  OBVIOUS
<1>1. CASE InitDb
  BY <1>1, RowsKept DEF InitDb
<1>2. ASSUME NEW u \in Users, OpenView(u) \/ EditView(u)
      PROVE  RosterStep
  BY <1>2, RowsKept DEF OpenView, EditView
<1>3. CASE PoolSave
  BY <1>3, RowsKept DEF PoolSave
<1>4. CASE JoinDefault
  BY <1>4, PersonAdded DEF JoinDefault
<1> QED
  BY <1>1, <1>2, <1>3, <1>4 DEF JobsNext

---------------------------------------------------------------------------
(* Steps of the posts                                                      *)

PostsKept == \A i \in DOMAIN posts : i \in DOMAIN posts' /\ posts'[i].party = posts[i].party

\* Callbacks stay as they were while the roster moves on and posts are sent.
LEMMA ClickStays ==
  ASSUME Tables, Grows, changes' \in [Parties -> Nat], PostsKept,
         NEW STATE c, c \in ClickType, ClickCovers(c), ClickMoves(c)
  PROVE  /\ c.seen <= changes'[c.party] /\ (c.at # "deferring" => c.embed >= c.seen)
         /\ c.kind = "move" => c.on \in DOMAIN posts' /\ posts'[c.on].party = c.party
         /\ c.at = "deleting" => /\ c.kind = "move"
                                 /\ c.sent \in DOMAIN posts' /\ c.on < c.sent
                                 /\ posts'[c.sent].party = c.party
<1>1. c.party \in Parties /\ c.seen \in Nat
  BY DEF ClickType
<1>2. changes[c.party] \in Nat /\ changes'[c.party] \in Nat /\ changes'[c.party] >= changes[c.party]
  BY <1>1 DEF Tables, Grows
<1>3. c.seen <= changes'[c.party]
  BY <1>1, <1>2 DEF ClickCovers
<1> QED
  BY <1>3 DEF ClickCovers, ClickMoves, PostsKept

\* Each callback that is under way afterwards was so before or has what it needs.
LEMMA ClicksHold ==
  ASSUME Inv, RosterStep, PostsInv', PostsKept,
         \A c \in clicks' :
           \/ c \in clicks
           \/ /\ c \in ClickType
              /\ c.seen <= changes'[c.party] /\ (c.at # "deferring" => c.embed >= c.seen)
              /\ c.kind = "move" => c.on \in DOMAIN posts' /\ posts'[c.on].party = c.party
              /\ c.at = "deleting" => /\ c.kind = "move"
                                      /\ c.sent \in DOMAIN posts' /\ c.on < c.sent
                                      /\ posts'[c.sent].party = c.party
  PROVE  Inv'
<1>1. ASSUME NEW c \in clicks'
      PROVE  c \in ClickType /\ ClickCovers(c)' /\ ClickMoves(c)'
  <2>1. CASE c \in clicks
    <3>1. c \in ClickType /\ ClickCovers(c) /\ ClickMoves(c)
      BY <2>1 DEF Inv, ClicksInv
    <3>2. Tables /\ Grows /\ changes' \in [Parties -> Nat]
      BY DEF Inv, RosterInv, RosterStep, Tables
    <3> QED
      BY <3>1, <3>2, ClickStays DEF ClickCovers, ClickMoves
  <2>2. CASE c \notin clicks
    BY <2>2 DEF ClickCovers, ClickMoves
  <2> QED
    BY <2>1, <2>2
<1> QED
  BY <1>1 DEF Inv, ClicksInv, RosterStep

\* No post changes, and no callback comes to delete one.
LEMMA ClicksGoOn ==
  ASSUME Inv, RosterStep, posts' = posts,
         \A c \in clicks' :
           \/ c \in clicks
           \/ /\ c \in ClickType
              /\ c.seen <= changes'[c.party] /\ (c.at # "deferring" => c.embed >= c.seen)
              /\ c.kind = "move" => c.on \in DOMAIN posts /\ posts[c.on].party = c.party
              /\ c.at # "deleting"
  PROVE  Inv'
<1>1. PostsInv'
  BY DEF Inv, PostsInv, NewestPostIsLive, Live
<1>2. PostsKept
  BY DEF PostsKept
<1> QED
  BY <1>1, <1>2, ClicksHold

\* What is in the list of posts.
LEMMA PostTyped ==
  ASSUME Inv, NEW i \in DOMAIN posts
  PROVE  i \in 1..Len(posts) /\ i \in Nat /\ posts[i] \in PostType /\ posts[i].party \in Parties
<1>1. posts \in Seq(PostType)
  BY DEF Inv, PostsInv
<1>2. i \in 1..Len(posts) /\ Len(posts) \in Nat
  BY <1>1
<1>3. posts[i] \in PostType
  BY <1>1, <1>2
<1> QED
  BY <1>2, <1>3 DEF PostType

\* A step of the bot alone leaves the roster as it was.
LEMMA RosterRests ==
  ASSUME Inv, UNCHANGED <<parties, members, settings, home, changes>>
  PROVE  RosterStep
BY RowsKept DEF Inv

\* Join and Leave: the click knows the change it made.
LEMMA RefreshBegins ==
  ASSUME Inv, RosterStep, NEW i \in DOMAIN posts, posts' = posts,
         Begin([Click("refresh", posts[i].party, i, "deferring")
                  EXCEPT !.seen = changes'[posts[i].party]])
  PROVE  Inv'
<1>1. posts[i].party \in Parties /\ i \in Nat
  BY PostTyped
<1>2. changes' \in [Parties -> Nat]
  BY DEF RosterStep, RosterInv, Tables
<1>3. changes'[posts[i].party] \in Nat
  BY <1>1, <1>2
<1> DEFINE d == [kind |-> "refresh", party |-> posts[i].party, on |-> i, at |-> "deferring",
                 seen |-> changes'[posts[i].party], embed |-> 0, sent |-> 0]
<1>4. \A c \in clicks' : c \in clicks \/ c = d
  BY DEF Begin, Click
<1>5. /\ d \in ClickType
      /\ d.seen <= changes'[d.party] /\ d.at = "deferring"
      /\ d.kind # "move"
  BY <1>1, <1>3 DEF ClickType
<1> HIDE DEF d
<1> QED
  BY <1>4, <1>5, ClicksGoOn

LEMMA MoveBegins ==
  ASSUME Inv, NEW i \in DOMAIN posts, MoveToBottom(i)
  PROVE  Inv'
<1>1. RosterStep /\ posts' = posts /\ changes' = changes
  BY RosterRests DEF MoveToBottom
<1>2. posts[i].party \in Parties /\ i \in Nat
  BY PostTyped
<1>3. changes[posts[i].party] \in Nat
  BY <1>2 DEF Inv, RosterInv, Tables
<1> DEFINE d == [kind |-> "move", party |-> posts[i].party, on |-> i, at |-> "deferring",
                 seen |-> changes[posts[i].party], embed |-> 0, sent |-> 0]
<1>4. \A c \in clicks' : c \in clicks \/ c = d
  BY DEF MoveToBottom, Begin, Click
<1>5. /\ d \in ClickType
      /\ d.seen <= changes'[d.party] /\ d.at = "deferring"
      /\ d.on \in DOMAIN posts /\ posts[d.on].party = d.party
  BY <1>1, <1>2, <1>3 DEF ClickType
<1> HIDE DEF d
<1> QED
  BY <1>1, <1>4, <1>5, ClicksGoOn

LEMMA SetupBegins ==
  ASSUME Inv, NEW p \in Parties, SetupHomeChannel(p)
  PROVE  Inv'
<1>1. RosterStep /\ posts' = posts /\ changes' = changes
  BY RowsKept DEF SetupHomeChannel, Inv
<1>2. changes[p] \in Nat
  BY DEF Inv, RosterInv, Tables
<1> DEFINE d == [kind |-> "setup", party |-> p, on |-> 0, at |-> "sending",
                 seen |-> 0, embed |-> 0, sent |-> 0]
<1>3. \A c \in clicks' : c \in clicks \/ c = d
  BY DEF SetupHomeChannel, Begin, Click
<1>4. /\ d \in ClickType
      /\ d.seen <= changes'[d.party] /\ d.embed >= d.seen
      /\ d.kind # "move" /\ d.at # "deleting"
  BY <1>1, <1>2 DEF ClickType
<1> HIDE DEF d
<1> QED
  BY <1>1, <1>3, <1>4, ClicksGoOn

LEMMA EmbedBuilt ==
  ASSUME Inv, NEW c \in clicks, Build(c)
  PROVE  Inv'
<1>1. RosterStep /\ posts' = posts /\ changes' = changes
  BY RosterRests DEF Build, rosterVars
<1>2. c \in ClickType /\ ClickCovers(c) /\ ClickMoves(c)
  BY DEF Inv, ClicksInv
<1>3. changes[c.party] \in Nat /\ changes[c.party] >= c.seen /\ c.seen \in Nat
  BY <1>2 DEF ClickType, ClickCovers, Inv, RosterInv, Tables
<1> DEFINE at == IF c.kind = "refresh" THEN "editing" ELSE "sending"
           d == [c EXCEPT !.at = at, !.embed = changes[c.party]]
<1>4. \A e \in clicks' : e \in clicks \/ e = d
  BY DEF Build, Continue, BuildPartyEmbed
<1>5. /\ d.kind = c.kind /\ d.party = c.party /\ d.on = c.on /\ d.seen = c.seen
      /\ d.sent = c.sent /\ d.at = at /\ d.embed = changes[c.party]
      /\ d \in ClickType
  BY <1>2, <1>3 DEF ClickType
<1>6. d.at # "deleting"
  BY <1>5
<1> HIDE DEF d
<1>7. d.seen <= changes'[d.party] /\ d.embed >= d.seen
  BY <1>1, <1>3, <1>5
<1>8. d.kind = "move" => d.on \in DOMAIN posts /\ posts[d.on].party = d.party
  BY <1>2, <1>5 DEF ClickMoves
<1> QED
  BY <1>1, <1>4, <1>5, <1>6, <1>7, <1>8, ClicksGoOn

LEMMA CallEnds ==
  ASSUME Inv, NEW c \in clicks, Fails(c)
  PROVE  Inv'
BY RosterRests, ClicksGoOn DEF Fails, End, rosterVars

LEMMA HomeStored ==
  ASSUME Inv, NEW c \in clicks, StoreHome(c)
  PROVE  Inv'
<1>1. /\ UNCHANGED <<parties, members, settings, changes, posts>>
      /\ clicks' = clicks \ {c}
      /\ home' = IF c.party \in parties THEN [home EXCEPT ![c.party] = c.sent] ELSE home
  BY DEF StoreHome, End
<1>2. RosterStep
  BY <1>1 DEF Inv, RosterInv, Tables, IsTable, GoneIsEmpty, RosterStep, Grows, NewIsEmpty
<1> QED
  BY <1>1, <1>2, ClicksGoOn

LEMMA BotRestarted ==
  ASSUME Inv, RestartBot
  PROVE  Inv'
BY RosterRests, ClicksGoOn DEF RestartBot

LEMMA EditArrived ==
  ASSUME Inv, NEW c \in clicks, PostEdited(c)
  PROVE  Inv'
<1>1. RosterStep
  BY RosterRests DEF PostEdited, rosterVars
<1>2. clicks' = clicks \ {c}
  BY DEF PostEdited, End
<1>3. CASE posts' = posts
  BY <1>1, <1>2, <1>3, ClicksGoOn
<1>4. CASE posts' = [posts EXCEPT ![c.on].shows = c.embed]
  <2>1. posts \in Seq(PostType) /\ c.embed \in Nat
    BY DEF Inv, PostsInv, ClicksInv, ClickType
  <2>2. DOMAIN posts' = DOMAIN posts /\ Len(posts') = Len(posts)
    BY <1>4, <2>1
  <2>3. \A i \in DOMAIN posts : posts'[i].party = posts[i].party /\ posts'[i].live = posts[i].live
    BY <1>4, <2>1 DEF PostType
  <2>4. \A i \in DOMAIN posts : posts'[i] \in PostType
    <3>1. \A i \in DOMAIN posts : posts[i] \in PostType
      BY PostTyped
    <3>2. \A i \in DOMAIN posts : posts'[i] = posts[i] \/ posts'[i] = [posts[i] EXCEPT !.shows = c.embed]
      BY <1>4, <2>1
    <3> QED
      BY <2>1, <3>1, <3>2 DEF PostType
  <2>5. posts' \in Seq(PostType)
    <3>1. posts = [i \in 1..Len(posts) |-> posts[i]] /\ Len(posts) \in Nat
      BY <2>1
    <3>2. posts' = [i \in 1..Len(posts) |-> posts'[i]]
      BY <1>4, <3>1
    <3> QED
      BY <2>1, <2>4, <3>1, <3>2
  <2>6. NewestPostIsLive'
    BY <2>2, <2>3 DEF Inv, PostsInv, NewestPostIsLive, Live
  <2>7. PostsKept
    BY <2>2, <2>3 DEF PostsKept
  <2> QED
    BY <1>1, <1>2, <2>5, <2>6, <2>7, ClicksHold DEF PostsInv
<1> QED
  BY <1>3, <1>4 DEF PostEdited

\* A deletion spares the last post: it is of a post before the one that was sent.
LEMMA OldPostDeleted ==
  ASSUME Inv, NEW c \in clicks, OldDeleted(c)
  PROVE  Inv'
<1>1. RosterStep
  BY RosterRests DEF OldDeleted, rosterVars
<1>2. /\ c \in ClickType /\ ClickCovers(c)
      /\ c.kind = "move" /\ c.on \in DOMAIN posts /\ posts[c.on].party = c.party
      /\ c.sent \in DOMAIN posts /\ c.on < c.sent /\ posts[c.sent].party = c.party
  BY DEF OldDeleted, Inv, ClicksInv, ClickMoves
<1> DEFINE d == [c EXCEPT !.at = "storing"]
<1>3. /\ d \in ClickType /\ d.at = "storing" /\ d.party = c.party
      /\ d.kind = c.kind /\ d.on = c.on /\ d.seen = c.seen /\ d.embed = c.embed
  BY <1>2 DEF ClickType
<1>4. clicks' = (clicks \ {c}) \cup {d}
  BY DEF OldDeleted, Continue
<1> HIDE DEF d
<1>5. c.seen <= changes'[c.party]
  <2>1. c.party \in Parties /\ c.seen \in Nat
    BY <1>2 DEF ClickType
  <2>2. changes[c.party] \in Nat /\ changes' = changes
    BY <2>1 DEF Inv, RosterInv, Tables, OldDeleted, rosterVars
  <2> QED
    BY <1>2, <2>1, <2>2 DEF ClickCovers
<1>6. c.embed >= c.seen
  BY <1>2 DEF OldDeleted, ClickCovers
<1>7. CASE posts' = posts
  BY <1>1, <1>2, <1>3, <1>4, <1>5, <1>6, <1>7, ClicksGoOn
<1>8. CASE posts' = [posts EXCEPT ![c.on].live = FALSE]
  <2>1. posts \in Seq(PostType)
    BY DEF Inv, PostsInv
  <2>2. DOMAIN posts' = DOMAIN posts /\ Len(posts') = Len(posts)
    BY <1>8, <2>1
  <2>3. \A i \in DOMAIN posts : posts'[i].party = posts[i].party
    BY <1>8, <2>1 DEF PostType
  <2>4. \A i \in DOMAIN posts : i # c.on => posts'[i] = posts[i]
    BY <1>8, <2>1
  <2>5. \A i \in DOMAIN posts : posts'[i] \in PostType
    <3>1. \A i \in DOMAIN posts : posts[i] \in PostType
      BY PostTyped
    <3>2. posts'[c.on] = [posts[c.on] EXCEPT !.live = FALSE]
      BY <1>2, <1>8, <2>1
    <3>3. posts'[c.on] \in PostType
      BY <1>2, <3>1, <3>2 DEF PostType
    <3> QED
      BY <2>4, <3>1, <3>3
  <2>6. posts' \in Seq(PostType)
    <3>1. posts = [i \in 1..Len(posts) |-> posts[i]] /\ Len(posts) \in Nat
      BY <2>1
    <3>2. posts' = [i \in 1..Len(posts) |-> posts'[i]]
      BY <1>8, <3>1
    <3> QED
      BY <2>1, <2>5, <3>1, <3>2
  <2>7. ASSUME NEW i \in DOMAIN posts',
               \A j \in DOMAIN posts' : j > i => posts'[j].party # posts'[i].party
        PROVE  Live(i)'
    <3>1. i \in DOMAIN posts /\ \A j \in DOMAIN posts : j > i => posts[j].party # posts[i].party
      BY <2>2, <2>3, <2>7
    <3>2. i \in Nat /\ c.on \in Nat /\ c.sent \in Nat
      BY <1>2, <3>1, PostTyped
    <3>3. i # c.on
      BY <1>2, <3>1, <3>2
    <3>4. Live(i)
      BY <3>1 DEF Inv, PostsInv, NewestPostIsLive
    <3> QED
      BY <2>4, <3>1, <3>3, <3>4 DEF Live
  <2>8. PostsInv'
    BY <2>6, <2>7 DEF PostsInv, NewestPostIsLive
  <2>9. PostsKept
    BY <2>2, <2>3 DEF PostsKept
  <2>10. \A e \in clicks' : e \in clicks \/ e = d
    BY <1>4
  <2>11. d.on \in DOMAIN posts' /\ posts'[d.on].party = d.party
    BY <1>2, <1>3, <2>2, <2>3
  <2> QED
    BY <1>1, <1>3, <1>5, <1>6, <2>8, <2>9, <2>10, <2>11, ClicksHold
<1> QED
  BY <1>7, <1>8 DEF OldDeleted, ClickedPost

LEMMA PostSent ==
  ASSUME Inv, NEW c \in clicks, Sent(c)
  PROVE  Inv'
<1>1. RosterStep
  BY RosterRests DEF Sent, rosterVars
<1>2. /\ c \in ClickType /\ ClickCovers(c) /\ ClickMoves(c) /\ c.party \in Parties /\ c.embed \in Nat
      /\ c.kind = "move" => c.on \in DOMAIN posts /\ posts[c.on].party = c.party
  BY DEF Inv, ClicksInv, ClickMoves, ClickType
<1> DEFINE new == [party |-> c.party, shows |-> c.embed, live |-> TRUE]
<1>3. posts' = Append(posts, new) /\ posts \in Seq(PostType) /\ new \in PostType
  BY <1>2 DEF Sent, Post, Inv, PostsInv, PostType
<1>4. new.party = c.party /\ new.live = TRUE
  OBVIOUS
<1> HIDE DEF new
<1> DEFINE n == Len(posts)
<1>5. /\ n \in Nat /\ DOMAIN posts = 1..n /\ DOMAIN posts' = 1..(n + 1)
      /\ posts' \in Seq(PostType)
  BY <1>3
<1>6. posts'[n + 1] = new /\ \A i \in 1..n : posts'[i] = posts[i]
  BY <1>3
<1> HIDE DEF n
<1>7. PostsKept
  BY <1>5, <1>6 DEF PostsKept
<1>8. ASSUME NEW i \in DOMAIN posts',
             \A j \in DOMAIN posts' : j > i => posts'[j].party # posts'[i].party
      PROVE  Live(i)'
  <2>1. CASE i = n + 1
    BY <1>4, <1>6, <2>1 DEF Live
  <2>2. CASE i # n + 1
    <3>1. i \in 1..n
      BY <1>5, <2>2
    <3>2. \A j \in DOMAIN posts : j > i => posts[j].party # posts[i].party
      BY <1>5, <1>6, <1>8, <3>1
    <3>3. Live(i)
      BY <1>5, <3>1, <3>2 DEF Inv, PostsInv, NewestPostIsLive
    <3> QED
      BY <1>6, <3>1, <3>3 DEF Live
  <2> QED
    BY <2>1, <2>2
<1>9. PostsInv'
  BY <1>5, <1>8 DEF PostsInv, NewestPostIsLive
<1> DEFINE at == IF c.kind = "move" THEN "deleting" ELSE "storing"
           d == [c EXCEPT !.at = at, !.sent = n + 1]
<1>10. /\ d.kind = c.kind /\ d.party = c.party /\ d.on = c.on /\ d.seen = c.seen
       /\ d.embed = c.embed /\ d.at = at /\ d.sent = n + 1 /\ d \in ClickType
  <2>1. n + 1 \in Nat
    BY <1>5
  <2>2. CASE c.kind = "move"
    BY <1>2, <2>1, <2>2 DEF ClickType
  <2>3. CASE c.kind # "move"
    BY <1>2, <2>1, <2>3 DEF ClickType
  <2> QED
    BY <2>2, <2>3
<1>11. clicks' = (clicks \ {c}) \cup {d}
  BY DEF Sent, Continue, n
<1> HIDE DEF d
<1>12. \A e \in clicks' : e \in clicks \/ e = d
  BY <1>11
<1>13. d.seen <= changes'[d.party] /\ d.embed >= d.seen
  <2>1. c.seen \in Nat /\ changes[c.party] \in Nat /\ changes' = changes
    BY <1>2 DEF ClickType, Inv, RosterInv, Tables, Sent, rosterVars
  <2> QED
    BY <1>2, <1>10, <2>1 DEF ClickCovers, Sent
<1>14. d.kind = "move" => d.on \in DOMAIN posts' /\ posts'[d.on].party = d.party
  BY <1>2, <1>7, <1>10 DEF PostsKept
<1>15. d.at = "deleting" => /\ d.kind = "move" /\ d.sent \in DOMAIN posts' /\ d.on < d.sent
                            /\ posts'[d.sent].party = d.party
  <2>1. d.at = "deleting" => d.kind = "move"
    BY <1>10
  <2>2. d.sent \in DOMAIN posts' /\ posts'[d.sent].party = d.party
    BY <1>4, <1>5, <1>6, <1>10
  <2>3. d.kind = "move" => d.on < d.sent
    BY <1>2, <1>5, <1>10
  <2> QED
    BY <2>1, <2>2, <2>3
<1> QED
  BY <1>1, <1>7, <1>9, <1>10, <1>12, <1>13, <1>14, <1>15, ClicksHold

---------------------------------------------------------------------------
(* The theorems                                                            *)

LEMMA InvAtFirst == Init => Inv
<1> SUFFICES ASSUME Init PROVE Inv
  OBVIOUS
<1>1. active \in Parties /\ posts = <<Post(active, 0)>> /\ clicks = {}
  BY DEF Init, RosterInit, Parties
<1>2. Tables
  BY RosterConstants DEF Init, RosterInit, Tables, IsTable, Parties, Names
<1>3. GoneIsEmpty
  BY DEF Init, RosterInit, GoneIsEmpty
<1>4. posts \in Seq(PostType) /\ DOMAIN posts = {1} /\ posts[1].live = TRUE
  BY <1>1 DEF PostType, Post
<1>5. NewestPostIsLive
  BY <1>4 DEF NewestPostIsLive, Live
<1> QED
  BY <1>1, <1>2, <1>3, <1>4, <1>5 DEF Inv, RosterInv, PostsInv, ClicksInv

LEMMA JoinStep ==
  ASSUME Inv, NEW u \in Users, NEW i \in DOMAIN posts, Join(u, i) \/ Leave(u, i)
  PROVE  RosterStep /\ Inv'
<1>1. CASE Join(u, i)
  <2>1. RosterStep
    BY <1>1, PersonAdded DEF Join, Inv
  <2>2. posts' = posts
    BY <1>1 DEF Join
  <2> QED
    BY <1>1, <2>1, <2>2, RefreshBegins DEF Join
<1>2. CASE Leave(u, i)
  <2>1. SetMembers(posts[i].party, members[posts[i].party] \ {u})
    BY <1>2 DEF Leave
  <2>2. RosterStep
    BY <1>2, <2>1, MembersWritten DEF Leave, Inv
  <2>3. posts' = posts
    BY <1>2 DEF Leave
  <2> QED
    BY <1>2, <2>2, <2>3, RefreshBegins DEF Leave
<1> QED
  BY <1>1, <1>2

LEMMA InvStays == Inv /\ [Next]_vars => Inv'
<1> SUFFICES ASSUME Inv, [Next]_vars PROVE Inv'
  OBVIOUS
<1>1. CASE (DashboardNext \/ InitDb \/ JobsNext) /\ UNCHANGED postVars
  <2>1. RosterStep
    BY <1>1, DashboardSteps, JobsSteps DEF Inv
  <2> QED
    BY <1>1, <2>1, ClicksGoOn DEF postVars
<1>2. CASE PostNext
  BY <1>2, JoinStep, MoveBegins, SetupBegins, EmbedBuilt, EditArrived, PostSent, CallEnds,
     OldPostDeleted, HomeStored, BotRestarted DEF PostNext
<1>3. CASE UNCHANGED vars
  BY <1>3, RosterRests, ClicksGoOn DEF vars, rosterVars, postVars
<1> QED
  BY <1>1, <1>2, <1>3 DEF Next

\* move_to_bottom sends before it deletes: whatever is under way or dies half-way, the
\* last post of a party is never the one that is deleted.
THEOREM NewestPostStays == Spec => []NewestPostIsLive
<1>1. Inv => NewestPostIsLive
  BY DEF Inv, PostsInv
<1> QED
  BY InvAtFirst, InvStays, <1>1, PTL DEF Spec

\* update_embed builds the embed after the click was stored: what is sent shows at least
\* the members as that click left them.
THEOREM EmbedsCover == Spec => []EditCoversItsClick
<1>1. Inv => EditCoversItsClick
  BY DEF Inv, ClicksInv, ClickCovers, EditCoversItsClick
<1> QED
  BY InvAtFirst, InvStays, <1>1, PTL DEF Spec

LEMMA EveryStepNewIsEmpty == Inv /\ [Next]_vars => NewIsEmpty
<1> SUFFICES ASSUME Inv, [Next]_vars PROVE NewIsEmpty
  OBVIOUS
<1>1. CASE DashboardNext \/ InitDb \/ JobsNext
  BY <1>1, DashboardSteps, JobsSteps DEF Inv, RosterStep
<1>2. CASE PostNext
  <2>1. ASSUME NEW u \in Users, NEW i \in DOMAIN posts, Join(u, i) \/ Leave(u, i)
        PROVE  NewIsEmpty
    BY <2>1, JoinStep DEF RosterStep
  <2>2. ASSUME NEW p \in Parties, SetupHomeChannel(p)
        PROVE  NewIsEmpty
    BY <2>2, RowsKept DEF SetupHomeChannel, Inv, RosterStep
  <2>3. ASSUME NEW i \in DOMAIN posts, MoveToBottom(i)
        PROVE  NewIsEmpty
    BY <2>3 DEF MoveToBottom, NewIsEmpty
  <2>4. ASSUME NEW c \in clicks,
               Build(c) \/ PostEdited(c) \/ Sent(c) \/ Fails(c) \/ OldDeleted(c) \/ StoreHome(c)
        PROVE  NewIsEmpty
    BY <2>4 DEF Build, PostEdited, Sent, Fails, OldDeleted, StoreHome, rosterVars, NewIsEmpty
  <2>5. CASE RestartBot
    BY <2>5 DEF RestartBot, NewIsEmpty
  <2> QED
    BY <1>2, <2>1, <2>2, <2>3, <2>4, <2>5 DEF PostNext
<1>3. CASE UNCHANGED vars
  BY <1>3 DEF vars, rosterVars, NewIsEmpty
<1> QED
  BY <1>1, <1>2, <1>3 DEF Next

\* Foreign keys and their cascade: no row is kept or written for a party that is gone, so
\* one that is created again starts empty.
THEOREM NewPartiesAreEmpty == Spec => NewPartyIsEmpty
<1>1. Inv /\ [Next]_vars
        => [\A p \in Parties : p \in parties' \ parties =>
              members'[p] = {} /\ settings'[p] = DefaultSettings /\ home'[p] = 0]_vars
  BY EveryStepNewIsEmpty DEF NewIsEmpty
<1> QED
  BY InvAtFirst, InvStays, <1>1, PTL DEF Spec, NewPartyIsEmpty

---------------------------------------------------------------------------
(* Lists of jobs                                                           *)

Entries == [job : STRING, priority : Nat]

\* g holds what a loop of n rounds has made of the list after each of them.
Runs(n, start, step, g) ==
  g = [i \in 0..n |-> IF i = 0 THEN start ELSE step[<<g[i - 1], i>>]]

LEMMA RunsExist ==
  ASSUME NEW n \in Nat, NEW S, NEW start \in S, NEW step, \A l \in S, i \in 1..n : step[<<l, i>>] \in S
  PROVE  \E g : g \in [0..n -> S] /\ Runs(n, start, step, g)
<1> DEFINE F == {k \in 0..n : \E g : g \in [0..k -> S] /\ Runs(k, start, step, g)}
<1>1. 0 \in F
  <2> DEFINE g == [i \in 0..0 |-> start]
  <2>1. g \in [0..0 -> S]
    OBVIOUS
  <2>2. Runs(0, start, step, g)
    BY DEF Runs
  <2> HIDE DEF g
  <2> QED BY <2>1, <2>2
<1>2. ASSUME NEW k \in 0..(n - 1), k \in F PROVE k + 1 \in F
  <2>1. PICK g : g \in [0..k -> S] /\ Runs(k, start, step, g)
    BY <1>2
  <2> DEFINE h == [i \in 0..(k + 1) |-> IF i = k + 1 THEN step[<<g[k], k + 1>>] ELSE g[i]]
  <2>2. g[k] \in S /\ k + 1 \in 1..n /\ k \in Nat
    BY <2>1
  <2>3. step[<<g[k], k + 1>>] \in S
    BY <2>2
  <2>4. \A i \in 0..(k + 1) : i # k + 1 => i \in 0..k
    BY <2>2
  <2>5. h \in [0..(k + 1) -> S]
    BY <2>1, <2>3, <2>4
  <2>6. \A i \in 0..k : g[i] = IF i = 0 THEN start ELSE step[<<g[i - 1], i>>]
    BY <2>1 DEF Runs
  <2>7. \A i \in 0..(k + 1) : h[i] = IF i = 0 THEN start ELSE step[<<h[i - 1], i>>]
    <3> SUFFICES ASSUME NEW i \in 0..(k + 1) PROVE h[i] = IF i = 0 THEN start ELSE step[<<h[i - 1], i>>]
      OBVIOUS
    <3>1. CASE i = k + 1
      <4>1. i - 1 = k /\ k \in 0..(k + 1) /\ k # k + 1 /\ i # 0
        BY <2>2, <3>1
      <4>2. h[i - 1] = g[k]
        BY <4>1
      <4> QED BY <3>1, <4>1, <4>2
    <3>2. CASE i # k + 1 /\ i # 0
      <4>1. i \in 0..k /\ i - 1 \in 0..(k + 1) /\ i - 1 # k + 1
        BY <2>2, <3>2
      <4>2. h[i] = g[i] /\ h[i - 1] = g[i - 1]
        BY <3>2, <4>1
      <4> QED BY <2>6, <3>2, <4>1, <4>2
    <3>3. CASE i = 0
      <4>1. 0 \in 0..k /\ 0 # k + 1
        BY <2>2
      <4> QED BY <2>6, <3>3, <4>1
    <3> QED BY <3>1, <3>2, <3>3
  <2>8. h = [i \in 0..(k + 1) |-> h[i]]
    OBVIOUS
  <2> HIDE DEF h
  <2>9. Runs(k + 1, start, step, h)
    BY <2>7, <2>8 DEF Runs
  <2>10. k + 1 \in 0..n
    BY <2>2
  <2> QED BY <2>5, <2>9, <2>10
<1>3. n \in F
  <2> HIDE DEF F
  <2>1. n \in 0..n
    OBVIOUS
  <2> QED BY <1>1, <1>2, <2>1, InductionUpTo
<1> QED BY <1>3

LEMMA ListTyped ==
  ASSUME NEW list, IsJobList(list)
  PROVE  /\ list \in Seq(Entries) /\ Len(list) \in Nat /\ DOMAIN list = 1..Len(list)
         /\ \A i \in DOMAIN list : list[i] \in Entries /\ list[i].job \in STRING /\ list[i].priority \in Nat
<1>1. list \in Seq(Entries)
  BY DEF IsJobList, Entries
<1>2. Len(list) \in Nat /\ DOMAIN list = 1..Len(list) /\ \A i \in DOMAIN list : list[i] \in Entries
  BY <1>1
<1> QED BY <1>1, <1>2 DEF Entries

\* A job that was not on a list may be added at its end.
LEMMA EntryAdded ==
  ASSUME NEW list, IsJobList(list), NEW e \in Entries, ~ Has(list, e.job)
  PROVE  IsJobList(Append(list, e))
<1> DEFINE n == Len(list)
           longer == Append(list, e)
<1>1. list \in Seq(Entries) /\ n \in Nat /\ DOMAIN list = 1..n
  BY ListTyped
<1>2. longer \in Seq(Entries) /\ DOMAIN longer = 1..(n + 1) /\ longer[n + 1] = e
      /\ \A i \in 1..n : longer[i] = list[i]
  BY <1>1
<1> HIDE DEF n, longer
<1>3. \A i, j \in 1..n : list[i].job = list[j].job => i = j
  BY <1>1 DEF IsJobList
<1>4. \A i \in 1..n : list[i].job # e.job
  BY <1>1 DEF Has
<1>5. \A i \in 1..(n + 1) : i \in 1..n \/ i = n + 1
  BY <1>1
<1>6. \A i, j \in DOMAIN longer : longer[i].job = longer[j].job => i = j
  <2> SUFFICES ASSUME NEW i \in 1..(n + 1), NEW j \in 1..(n + 1), longer[i].job = longer[j].job
               PROVE  i = j
    BY <1>2
  <2>1. CASE i \in 1..n /\ j \in 1..n
    BY <1>2, <1>3, <2>1
  <2>2. CASE i = n + 1 /\ j \in 1..n
    BY <1>2, <1>4, <2>2
  <2>3. CASE i \in 1..n /\ j = n + 1
    BY <1>2, <1>4, <2>3
  <2> QED BY <1>5, <2>1, <2>2, <2>3
<1>7. longer \in Seq([job : STRING, priority : Nat])
  BY <1>2 DEF Entries
<1> QED BY <1>6, <1>7 DEF IsJobList, longer

LEMMA JobsAdded ==
  ASSUME NEW list, IsJobList(list), NEW added \in Seq(STRING)
  PROVE  IsJobList(WithJobs(list, added))
<1> DEFINE n == Len(added)
           S == {l \in Seq(Entries) : IsJobList(l)}
           more(l, i) == IF Has(l, added[i]) THEN l ELSE Append(l, Entry(added[i], 5))
           step == [q \in S \X (1..n) |-> more(q[1], q[2])]
           Loop(g) == g = [i \in 0..n |-> IF i = 0 THEN list
                                          ELSE IF Has(g[i - 1], added[i]) THEN g[i - 1]
                                          ELSE Append(g[i - 1], Entry(added[i], 5))]
           upto == CHOOSE g : Loop(g)
<1>1. n \in Nat /\ \A i \in 1..n : added[i] \in STRING
  OBVIOUS
<1>2. list \in S
  BY ListTyped
<1>3. ASSUME NEW l \in S, NEW i \in 1..n PROVE more(l, i) \in S
  <2>1. Entry(added[i], 5) \in Entries /\ Entry(added[i], 5).job = added[i]
    BY <1>1 DEF Entry, Entries
  <2>2. CASE Has(l, added[i])
    BY <2>2
  <2>3. CASE ~ Has(l, added[i])
    <3>1. IsJobList(l)
      OBVIOUS
    <3>2. IsJobList(Append(l, Entry(added[i], 5)))
      BY <2>1, <2>3, <3>1, EntryAdded
    <3> QED BY <2>3, <3>2, ListTyped
  <2> QED BY <2>2, <2>3
<1>4. \A l \in S, i \in 1..n : step[<<l, i>>] = more(l, i)
  OBVIOUS
<1> HIDE DEF S, step
<1>5. \A l \in S, i \in 1..n : step[<<l, i>>] \in S
  BY <1>3, <1>4
<1>6. PICK g \in [0..n -> S] : Runs(n, list, step, g)
  BY <1>1, <1>2, <1>5, RunsExist
<1>7. Loop(g)
  <2>1. \A i \in 0..n : i # 0 => g[i - 1] \in S /\ i \in 1..n
    BY <1>1
  <2>2. \A i \in 0..n : i # 0 => step[<<g[i - 1], i>>] = more(g[i - 1], i)
    BY <1>4, <2>1
  <2>3. g = [i \in 0..n |-> IF i = 0 THEN list ELSE step[<<g[i - 1], i>>]]
    BY <1>6 DEF Runs
  <2>4. [i \in 0..n |-> IF i = 0 THEN list ELSE step[<<g[i - 1], i>>]]
          = [i \in 0..n |-> IF i = 0 THEN list ELSE more(g[i - 1], i)]
    BY <2>2
  <2> QED BY <2>3, <2>4
<1>8. Loop(upto)
  <2> HIDE DEF Loop
  <2> QED BY <1>7
<1>9. WithJobs(list, added) = upto[n]
  BY DEF WithJobs
<1>10. \A i \in 0..n : upto[i] = IF i = 0 THEN list ELSE more(upto[i - 1], i)
  <2> HIDE DEF upto
  <2> QED BY <1>8
<1> DEFINE F == {k \in 0..n : upto[k] \in S}
<1> HIDE DEF upto, Loop, more
<1>11. 0 \in F
  BY <1>1, <1>2, <1>10
<1>12. ASSUME NEW k \in 0..(n - 1), k \in F PROVE k + 1 \in F
  <2>1. k + 1 \in 1..n /\ k + 1 \in 0..n /\ (k + 1) - 1 = k /\ k + 1 # 0
    BY <1>1
  <2>2. upto[k + 1] = more(upto[k], k + 1)
    BY <1>10, <2>1
  <2> QED BY <1>3, <1>12, <2>1, <2>2
<1>13. n \in F
  <2> HIDE DEF F
  <2>1. n \in 0..n
    BY <1>1
  <2> QED BY <1>1, <1>11, <1>12, <2>1, InductionUpTo
<1> QED BY <1>9, <1>13 DEF S

\* Leaving out one job keeps the order of the others and brings in no new one.
LEMMA JobRemoved ==
  ASSUME NEW list, IsJobList(list), NEW job
  PROVE  IsJobList(WithoutJob(list, job))
<1> DEFINE n == Len(list)
           S == Seq(Entries)
           more(l, i) == IF list[i].job = job THEN l ELSE Append(l, list[i])
           step == [q \in S \X (1..n) |-> more(q[1], q[2])]
           Loop(g) == g = [i \in 0..n |-> IF i = 0 THEN <<>>
                                          ELSE IF list[i].job = job THEN g[i - 1]
                                          ELSE Append(g[i - 1], list[i])]
           upto == CHOOSE g : Loop(g)
<1>1. n \in Nat /\ \A i \in 1..n : list[i] \in Entries
  BY ListTyped
<1>2. <<>> \in S
  OBVIOUS
<1>3. ASSUME NEW l \in S, NEW i \in 1..n PROVE more(l, i) \in S
  BY <1>1
<1>4. \A l \in S, i \in 1..n : step[<<l, i>>] = more(l, i)
  OBVIOUS
<1> HIDE DEF S, step
<1>5. \A l \in S, i \in 1..n : step[<<l, i>>] \in S
  BY <1>3, <1>4
<1>6. PICK g \in [0..n -> S] : Runs(n, <<>>, step, g)
  BY <1>1, <1>2, <1>5, RunsExist
<1>7. Loop(g)
  <2>1. \A i \in 0..n : i # 0 => g[i - 1] \in S /\ i \in 1..n
    BY <1>1
  <2>2. \A i \in 0..n : i # 0 => step[<<g[i - 1], i>>] = more(g[i - 1], i)
    BY <1>4, <2>1
  <2>3. g = [i \in 0..n |-> IF i = 0 THEN <<>> ELSE step[<<g[i - 1], i>>]]
    BY <1>6 DEF Runs
  <2>4. [i \in 0..n |-> IF i = 0 THEN <<>> ELSE step[<<g[i - 1], i>>]]
          = [i \in 0..n |-> IF i = 0 THEN <<>> ELSE more(g[i - 1], i)]
    BY <2>2
  <2> QED BY <2>3, <2>4
<1>8. Loop(upto)
  <2> HIDE DEF Loop
  <2> QED BY <1>7
<1>9. WithoutJob(list, job) = upto[n]
  BY DEF WithoutJob
<1>10. \A i \in 0..n : upto[i] = IF i = 0 THEN <<>> ELSE more(upto[i - 1], i)
  <2> HIDE DEF upto
  <2> QED BY <1>8
<1> HIDE DEF upto, Loop
\* What is kept of the first k entries.
<1> DEFINE Kept(l, k) == IsJobList(l) /\ \A a \in DOMAIN l : \E b \in 1..k : l[a].job = list[b].job
           F == {k \in 0..n : Kept(upto[k], k)}
<1>11. 0 \in F
  <2>1. upto[0] = <<>>
    BY <1>1, <1>10
  <2>2. IsJobList(<<>>) /\ DOMAIN <<>> = {}
    BY DEF IsJobList
  <2> QED BY <1>1, <2>1, <2>2
<1>12. ASSUME NEW k \in 0..(n - 1), k \in F PROVE k + 1 \in F
  <2>1. k + 1 \in 1..n /\ k + 1 \in 0..n /\ (k + 1) - 1 = k /\ k + 1 # 0 /\ 1..k \subseteq 1..(k + 1)
    BY <1>1
  <2>2. upto[k + 1] = more(upto[k], k + 1)
    BY <1>10, <2>1
  <2>3. Kept(upto[k], k)
    BY <1>12
  <2>4. CASE list[k + 1].job = job
    BY <2>1, <2>2, <2>3, <2>4
  <2>5. CASE list[k + 1].job # job
    <3> DEFINE l == upto[k]
               e == list[k + 1]
    <3>1. upto[k + 1] = Append(l, e)
      BY <2>2, <2>5
    <3>2. IsJobList(l) /\ \A a \in DOMAIN l : \E b \in 1..k : l[a].job = list[b].job
      BY <2>3
    <3>3. e \in Entries
      BY <1>1, <2>1
    <3>4. \A b \in 1..k : list[b].job # e.job
      <4>1. DOMAIN list = 1..n /\ \A i, j \in DOMAIN list : list[i].job = list[j].job => i = j
        BY ListTyped DEF IsJobList
      <4>2. \A b \in 1..k : b \in 1..n /\ b # k + 1
        BY <1>1
      <4> QED BY <2>1, <4>1, <4>2
    <3> HIDE DEF l, e
    <3>5. ~ Has(l, e.job)
      BY <3>2, <3>4 DEF Has
    <3>6. IsJobList(Append(l, e))
      BY <3>2, <3>3, <3>5, EntryAdded
    <3>7. /\ DOMAIN Append(l, e) = DOMAIN l \cup {Len(l) + 1}
          /\ \A a \in DOMAIN l : Append(l, e)[a] = l[a]
          /\ Append(l, e)[Len(l) + 1] = e
      BY <3>2, <3>3, ListTyped
    <3>8. \A a \in DOMAIN Append(l, e) : \E b \in 1..(k + 1) : Append(l, e)[a].job = list[b].job
      <4>1. ASSUME NEW a \in DOMAIN l PROVE \E b \in 1..(k + 1) : Append(l, e)[a].job = list[b].job
        BY <2>1, <3>2, <3>7
      <4>2. k + 1 \in 1..(k + 1) /\ Append(l, e)[Len(l) + 1].job = list[k + 1].job
        BY <2>1, <3>7 DEF e
      <4> QED BY <3>7, <4>1, <4>2
    <3> QED BY <2>1, <3>1, <3>6, <3>8
  <2> QED BY <2>4, <2>5
<1>13. n \in F
  <2> HIDE DEF F
  <2>1. n \in 0..n
    BY <1>1
  <2> QED BY <1>1, <1>11, <1>12, <2>1, InductionUpTo
<1> QED BY <1>9, <1>13

LEMMA PrioritySet ==
  ASSUME NEW list, IsJobList(list), NEW i \in DOMAIN list, NEW p \in Priorities
  PROVE  IsJobList(Reprioritised(list, list[i].job, p))
<1> DEFINE n == Len(list)
           job == list[i].job
           new == Reprioritised(list, job, p)
<1>1. n \in Nat /\ DOMAIN list = 1..n /\ \A j \in DOMAIN list : list[j] \in Entries /\ list[j].job \in STRING
  BY ListTyped
<1>2. new = [j \in 1..n |-> IF list[j].job = job THEN Entry(job, p) ELSE list[j]]
  BY <1>1 DEF Reprioritised
<1>3. Entry(job, p) \in Entries /\ Entry(job, p).job = job
  BY <1>1, RosterConstants DEF Entry, Entries
<1> HIDE DEF new, job, n
<1>4. \A j \in 1..n : new[j] \in Entries /\ new[j].job = list[j].job
  BY <1>1, <1>2, <1>3
<1>5. new \in Seq(Entries) /\ DOMAIN new = 1..n
  <2>1. new \in [1..n -> Entries]
    BY <1>2, <1>4
  <2> QED BY <1>1, <2>1
<1>6. \A a, b \in 1..n : list[a].job = list[b].job => a = b
  BY <1>1 DEF IsJobList
<1>7. IsJobList(new)
  BY <1>4, <1>5, <1>6 DEF IsJobList, Entries
<1> QED BY <1>7 DEF new, job

\* Whatever is done to a list leaves one without a job twice.
LEMMA EditsAreLists ==
  ASSUME NEW list, IsJobList(list), NEW new \in Edits(list)
  PROVE  IsJobList(new)
<1>1. CASE \E added \in Offered : new = WithJobs(list, added)
  BY <1>1, JobsAdded, RosterConstants
<1>2. CASE \E i \in DOMAIN list, p \in Priorities : new = Reprioritised(list, list[i].job, p)
  BY <1>2, PrioritySet
<1>3. CASE \E i \in DOMAIN list : new = WithoutJob(list, list[i].job)
  BY <1>3, JobRemoved
<1> QED BY <1>1, <1>2, <1>3 DEF Edits

---------------------------------------------------------------------------
(* Types of the roster                                                     *)

\* A step that leaves the parties' rows alone: everybody registered stays so.
LEMMA RowsOfPeople ==
  ASSUME TablesOK, parties' \subseteq Parties, active' \in Parties,
         settings' \in [Parties -> Settings \cup {DefaultSettings, Unreadable}],
         home' \in [Parties -> Nat],
         UNCHANGED <<jobs, members, changes>>
  PROVE  TablesOK'
BY DEF TablesOK, IsRegistered

\* Writing the members of one party: who is written must be registered.
LEMMA MembersTyped ==
  ASSUME TablesOK, NEW STATE p, p \in Parties, NEW STATE names, names \subseteq Names, SetMembers(p, names),
         jobs' = [n \in Names |-> jobs'[n]],
         \A n \in Names : jobs'[n] = Absent \/ IsJobList(jobs'[n]),
         \A n \in Names : IsRegistered(n) => jobs'[n] # Absent,
         \A n \in names : jobs'[n] # Absent,
         parties' \subseteq Parties, active' \in Parties,
         settings' \in [Parties -> Settings \cup {DefaultSettings, Unreadable}],
         home' \in [Parties -> Nat]
  PROVE  TablesOK'
<1>1. members \in [Parties -> SUBSET Names] /\ changes \in [Parties -> Nat]
  BY DEF TablesOK
<1>2. /\ members' = [members EXCEPT ![p] = names]
      /\ changes' = [changes EXCEPT ![p] = IF names = members[p] THEN @ ELSE @ + 1]
  BY DEF SetMembers
<1>3. members' \in [Parties -> SUBSET Names]
  BY <1>1, <1>2
<1>4. changes' \in [Parties -> Nat]
  <2>1. (IF names = members[p] THEN changes[p] ELSE changes[p] + 1) \in Nat
    BY <1>1
  <2> QED BY <1>1, <1>2, <2>1
<1>5. \A q \in Parties : \A n \in members'[q] : jobs'[n] # Absent
  <2> SUFFICES ASSUME NEW q \in Parties, NEW n \in members'[q] PROVE jobs'[n] # Absent
    OBVIOUS
  <2>1. CASE q = p
    BY <1>1, <1>2, <2>1
  <2>2. CASE q # p
    <3>1. n \in members[q] /\ n \in Names
      BY <1>1, <1>2, <2>2
    <3> QED BY <3>1 DEF TablesOK
  <2> QED BY <2>1, <2>2
<1>6. \A n \in Names : jobs'[n] # Absent => IsJobList(jobs'[n])
  OBVIOUS
<1> QED BY <1>3, <1>4, <1>5, <1>6 DEF TablesOK, IsRegistered

\* Facts of the present rows in the form the last lemma asks for.
LEMMA JobsTyped ==
  ASSUME TablesOK
  PROVE  /\ jobs = [n \in Names |-> jobs[n]]
         /\ \A n \in Names : jobs[n] = Absent \/ IsJobList(jobs[n])
         /\ parties \subseteq Parties /\ active \in Parties
         /\ settings \in [Parties -> Settings \cup {DefaultSettings, Unreadable}]
         /\ home \in [Parties -> Nat]
BY DEF TablesOK, IsRegistered

LEMMA PersonAddedTyped ==
  ASSUME TablesOK, NEW STATE n, n \in Names, NEW STATE p, p \in Parties, AddPersonToParty(n, p),
         UNCHANGED <<parties, jobs, settings, home, active>>
  PROVE  TablesOK'
<1>1. CASE Accepts(p) /\ IsRegistered(n)
  <2>1. SetMembers(p, members[p] \cup {n})
    BY <1>1 DEF AddPersonToParty
  <2>2. members[p] \cup {n} \subseteq Names
    BY DEF TablesOK
  <2>3. \A m \in members[p] \cup {n} : jobs'[m] # Absent
    BY <1>1 DEF TablesOK, IsRegistered
  <2> DEFINE names == members[p] \cup {n}
  <2> HIDE DEF names
  <2>4. SetMembers(p, names) /\ names \subseteq Names /\ \A m \in names : jobs'[m] # Absent
    BY <2>1, <2>2, <2>3 DEF names
  <2> QED BY <2>4, JobsTyped, MembersTyped DEF IsRegistered
<1>2. CASE ~ (Accepts(p) /\ IsRegistered(n))
  <2>1. UNCHANGED <<jobs, members, changes>>
    BY <1>2 DEF AddPersonToParty
  <2> QED BY <2>1, JobsTyped, RowsOfPeople
<1> QED BY <1>1, <1>2

\* people_to_db of a page's list.
LEMMA PeopleTyped ==
  ASSUME TablesOK, NEW STATE rows, NEW STATE p, p \in Parties, PeopleToDb(rows, p),
         DOMAIN rows \subseteq Names, \A n \in DOMAIN rows : IsJobList(rows[n]),
         UNCHANGED <<parties, settings, home, active>>
  PROVE  TablesOK'
<1>1. CASE Accepts(p)
  <2>1. /\ jobs' = [n \in Names |-> IF n \in DOMAIN rows THEN rows[n] ELSE jobs[n]]
        /\ SetMembers(p, DOMAIN rows)
    BY <1>1 DEF PeopleToDb
  <2>2. jobs' = [n \in Names |-> jobs'[n]]
    BY <2>1
  <2>3. \A n \in DOMAIN rows : jobs'[n] # Absent
    BY <2>1, RosterConstants
  <2>4. \A n \in Names : jobs'[n] = Absent \/ IsJobList(jobs'[n])
    BY <2>1, JobsTyped
  <2>5. \A n \in Names : IsRegistered(n) => jobs'[n] # Absent
    BY <2>1, RosterConstants DEF IsRegistered
  <2> DEFINE names == DOMAIN rows
  <2>6. SetMembers(p, names) /\ names \subseteq Names /\ \A n \in names : jobs'[n] # Absent
    BY <2>1, <2>3
  <2> HIDE DEF names
  <2> QED BY <2>2, <2>4, <2>5, <2>6, JobsTyped, MembersTyped
<1>2. CASE ~ Accepts(p)
  <2>1. UNCHANGED <<jobs, members, changes>>
    BY <1>2 DEF PeopleToDb
  <2> QED BY <2>1, JobsTyped, RowsOfPeople
<1> QED BY <1>1, <1>2

Calls == [what : {"people", "shown", "parties", "plan", "switch"}, party : Parties]

\* One page changes to one that is typed.
LEMMA PageTyped ==
  ASSUME PagesOK, NEW STATE d, d \in Dashboards, NEW STATE page, DashOK(page),
         dash' = [dash EXCEPT ![d] = page]
  PROVE  PagesOK'
<1>1. dash = [e \in Dashboards |-> dash[e]] /\ \A e \in Dashboards : DashOK(dash[e])
  BY DEF PagesOK
<1>2. dash' = [e \in Dashboards |-> IF e = d THEN page ELSE dash[e]]
  BY <1>1
<1>3. \A e \in Dashboards : DashOK(dash'[e])
  BY <1>1, <1>2
<1> QED BY <1>2, <1>3 DEF PagesOK

\* A page has four parts.
PageOf(party, people, deletable, calls) ==
  [party |-> party, people |-> people, deletable |-> deletable, calls |-> calls]

LEMMA PageCalls ==
  ASSUME NEW page, page = PageOf(page.party, page.people, page.deletable, page.calls), NEW x
  PROVE  [page EXCEPT !.calls = x] = PageOf(page.party, page.people, page.deletable, x)
<1>1. PICK a, b, c, e : page = [party |-> a, people |-> b, deletable |-> c, calls |-> e]
  BY DEF PageOf
<1> QED BY <1>1 DEF PageOf

LEMMA PageParty ==
  ASSUME NEW page, page = PageOf(page.party, page.people, page.deletable, page.calls), NEW x
  PROVE  [page EXCEPT !.party = x] = PageOf(x, page.people, page.deletable, page.calls)
<1>1. PICK a, b, c, e : page = [party |-> a, people |-> b, deletable |-> c, calls |-> e]
  BY DEF PageOf
<1> QED BY <1>1 DEF PageOf

LEMMA PagePeople ==
  ASSUME NEW page, page = PageOf(page.party, page.people, page.deletable, page.calls), NEW x
  PROVE  [page EXCEPT !.people = x] = PageOf(page.party, x, page.deletable, page.calls)
<1>1. PICK a, b, c, e : page = [party |-> a, people |-> b, deletable |-> c, calls |-> e]
  BY DEF PageOf
<1> QED BY <1>1 DEF PageOf

LEMMA PageDeletable ==
  ASSUME NEW page, page = PageOf(page.party, page.people, page.deletable, page.calls), NEW x
  PROVE  [page EXCEPT !.deletable = x] = PageOf(page.party, page.people, x, page.calls)
<1>1. PICK a, b, c, e : page = [party |-> a, people |-> b, deletable |-> c, calls |-> e]
  BY DEF PageOf
<1> QED BY <1>1 DEF PageOf

\* The parts of a page are what it was put together from.
LEMMA PartsOfPage ==
  ASSUME NEW a, NEW b, NEW c, NEW e
  PROVE  /\ PageOf(a, b, c, e).party = a /\ PageOf(a, b, c, e).people = b
         /\ PageOf(a, b, c, e).deletable = c /\ PageOf(a, b, c, e).calls = e
BY DEF PageOf

LEMMA PageParts ==
  ASSUME PagesOK, NEW STATE d, d \in Dashboards
  PROVE  /\ dash[d] = PageOf(dash[d].party, dash[d].people, dash[d].deletable, dash[d].calls)
         /\ dash[d].party \in Parties /\ dash[d].deletable \in BOOLEAN
         /\ DOMAIN dash[d].people \subseteq Names
         /\ \A n \in DOMAIN dash[d].people : IsJobList(dash[d].people[n])
         /\ dash[d].calls \subseteq Calls
BY DEF PagesOK, DashOK, PageOf, Calls

LEMMA PageWritten ==
  ASSUME PagesOK, NEW STATE d, d \in Dashboards,
         NEW STATE party, party \in Parties,
         NEW STATE people, DOMAIN people \subseteq Names, \A n \in DOMAIN people : IsJobList(people[n]),
         NEW STATE deletable, deletable \in BOOLEAN,
         NEW STATE calls, calls \subseteq Calls,
         dash' = [dash EXCEPT ![d] = PageOf(party, people, deletable, calls)]
  PROVE  PagesOK'
<1> DEFINE page == PageOf(party, people, deletable, calls)
<1>1. DashOK(page)
  BY DEF DashOK, PageOf, Calls
<1>2. dash' = [dash EXCEPT ![d] = page]
  OBVIOUS
<1> HIDE DEF page
<1> QED BY <1>1, <1>2, PageTyped

LEMMA CallsIssued ==
  ASSUME PagesOK, NEW STATE d, d \in Dashboards, NEW STATE more, more \subseteq Calls, Issue(d, more)
  PROVE  PagesOK'
<1> DEFINE calls == more \cup dash[d].calls
<1>1. dash' = [dash EXCEPT ![d] = PageOf(dash[d].party, dash[d].people, dash[d].deletable, calls)]
  <2>1. dash' = [dash EXCEPT ![d] = [dash[d] EXCEPT !.calls = calls]]
    BY DEF Issue
  <2> DEFINE page == dash[d]
  <2>2. page = PageOf(page.party, page.people, page.deletable, page.calls)
    BY PageParts
  <2> HIDE DEF calls, page
  <2>3. [page EXCEPT !.calls = calls] = PageOf(page.party, page.people, page.deletable, calls)
    BY <2>2, PageCalls
  <2> QED BY <2>1, <2>3 DEF page
<1>2. calls \subseteq Calls
  BY PageParts
<1> HIDE DEF calls
<1> QED BY <1>1, <1>2, PageParts, PageWritten

LEMMA CallTyped ==
  ASSUME NEW what \in {"people", "shown", "parties", "plan", "switch"}, NEW p \in Parties
  PROVE  Call(what, p) \in Calls
BY DEF Call, Calls

\* What a reply brings.
LEMMA Replies ==
  ASSUME TablesOK, PagesOK, NEW d \in Dashboards, NEW c \in dash[d].calls,
         SwitchAnswered(d, c) \/ PeopleAnswered(d, c) \/ PartiesAnswered(d, c) \/ ComputeAsked(d, c)
  PROVE  PagesOK'
<1> DEFINE page == dash[d]
           rest == Answered(d, c)
<1>p. page = PageOf(page.party, page.people, page.deletable, page.calls)
  BY PageParts
<1>1. c \in Calls /\ c.party \in Parties /\ rest \subseteq Calls
  BY PageParts DEF Calls, Answered
<1>2. CASE SwitchAnswered(d, c)
  <2> DEFINE calls == rest \cup {Call("shown", c.party)}
  <2>1. dash' = [dash EXCEPT ![d] = [[dash[d] EXCEPT !.party = c.party] EXCEPT !.calls = calls]]
    BY <1>2 DEF SwitchAnswered
  <2>2. calls \subseteq Calls
    BY <1>1, CallTyped
  <2> HIDE DEF calls, rest, page
  <2>3. [[page EXCEPT !.party = c.party] EXCEPT !.calls = calls]
          = PageOf(c.party, page.people, page.deletable, calls)
    <3> DEFINE p == [page EXCEPT !.party = c.party]
    <3>1. p = PageOf(c.party, page.people, page.deletable, page.calls)
      BY <1>p, PageParty
    <3> HIDE DEF p
    <3>2. p = PageOf(p.party, p.people, p.deletable, p.calls)
      BY <3>1, PartsOfPage
    <3>3. [p EXCEPT !.calls = calls] = PageOf(p.party, p.people, p.deletable, calls)
      BY <3>2, PageCalls
    <3>4. [p EXCEPT !.calls = calls] = PageOf(c.party, page.people, page.deletable, calls)
      BY <3>1, <3>3, PartsOfPage
    <3> QED BY <3>4 DEF p
  <2>4. dash' = [dash EXCEPT ![d] = PageOf(c.party, page.people, page.deletable, calls)]
    BY <2>1, <2>3 DEF page
  <2> QED BY <1>1, <2>2, <2>4, PageParts, PageWritten DEF page
<1>3. CASE PeopleAnswered(d, c)
  <2> DEFINE calls == IF c.what = "people" THEN Answered(d, c)
                      ELSE Answered(d, c) \cup {Call("parties", c.party), Call("plan", c.party)}
             people == Rows(c.party)
  <2>1. dash' = [dash EXCEPT ![d] = [[dash[d] EXCEPT !.people = people] EXCEPT !.calls = calls]]
    BY <1>3 DEF PeopleAnswered
  <2>2. calls \subseteq Calls
    BY <1>1, CallTyped
  <2>3. DOMAIN people \subseteq Names /\ \A n \in DOMAIN people : IsJobList(people[n])
    <3>1. members[c.party] \subseteq Names /\ \A n \in members[c.party] : IsRegistered(n)
      BY <1>1 DEF TablesOK
    <3>2. \A n \in members[c.party] : IsJobList(jobs[n])
      BY <3>1 DEF TablesOK
    <3> QED BY <3>1, <3>2 DEF Rows
  <2> HIDE DEF calls, people, rest, page
  <2>4. [[page EXCEPT !.people = people] EXCEPT !.calls = calls]
          = PageOf(page.party, people, page.deletable, calls)
    <3> DEFINE p == [page EXCEPT !.people = people]
    <3>1. p = PageOf(page.party, people, page.deletable, page.calls)
      BY <1>p, PagePeople
    <3> HIDE DEF p
    <3>2. p = PageOf(p.party, p.people, p.deletable, p.calls)
      BY <3>1, PartsOfPage
    <3>3. [p EXCEPT !.calls = calls] = PageOf(p.party, p.people, p.deletable, calls)
      BY <3>2, PageCalls
    <3>4. [p EXCEPT !.calls = calls] = PageOf(page.party, people, page.deletable, calls)
      BY <3>1, <3>3, PartsOfPage
    <3> QED BY <3>4 DEF p
  <2>5. dash' = [dash EXCEPT ![d] = PageOf(page.party, people, page.deletable, calls)]
    BY <2>1, <2>4 DEF page
  <2> QED BY <2>2, <2>3, <2>5, PageParts, PageWritten DEF page
<1>4. CASE PartiesAnswered(d, c)
  <2> DEFINE deletable == (active # Default)
  <2>1. dash' = [dash EXCEPT ![d] = [[[dash[d] EXCEPT !.party = active] EXCEPT !.deletable = deletable]
                                       EXCEPT !.calls = rest]]
    BY <1>4 DEF PartiesAnswered
  <2>2. deletable \in BOOLEAN /\ active \in Parties
    BY DEF TablesOK
  <2> HIDE DEF deletable, rest, page
  <2>3. [[[page EXCEPT !.party = active] EXCEPT !.deletable = deletable]
                                       EXCEPT !.calls = rest]
          = PageOf(active, page.people, deletable, rest)
    <3> DEFINE p == [page EXCEPT !.party = active]
               q == [p EXCEPT !.deletable = deletable]
    <3>1. p = PageOf(active, page.people, page.deletable, page.calls)
      BY <1>p, PageParty
    <3> HIDE DEF p
    <3>2. p = PageOf(p.party, p.people, p.deletable, p.calls)
      BY <3>1, PartsOfPage
    <3>3. q = PageOf(p.party, p.people, deletable, p.calls)
      BY <3>2, PageDeletable
    <3>4. q = PageOf(active, page.people, deletable, page.calls)
      BY <3>1, <3>3, PartsOfPage
    <3> HIDE DEF q
    <3>5. q = PageOf(q.party, q.people, q.deletable, q.calls)
      BY <3>4, PartsOfPage
    <3>6. [q EXCEPT !.calls = rest] = PageOf(q.party, q.people, q.deletable, rest)
      BY <3>5, PageCalls
    <3>7. [q EXCEPT !.calls = rest] = PageOf(active, page.people, deletable, rest)
      BY <3>4, <3>6, PartsOfPage
    <3> QED BY <3>7 DEF p, q
  <2>4. dash' = [dash EXCEPT ![d] = PageOf(active, page.people, deletable, rest)]
    BY <2>1, <2>3 DEF page
  <2> QED BY <1>1, <2>2, <2>4, PageParts, PageWritten DEF page
<1>5. CASE ComputeAsked(d, c)
  <2>1. dash' = [dash EXCEPT ![d] = [dash[d] EXCEPT !.calls = rest]]
    BY <1>5 DEF ComputeAsked
  <2> HIDE DEF rest, page
  <2>2. [page EXCEPT !.calls = rest] = PageOf(page.party, page.people, page.deletable, rest)
    BY <1>p, PageCalls
  <2>3. dash' = [dash EXCEPT ![d] = PageOf(page.party, page.people, page.deletable, rest)]
    BY <2>1, <2>2 DEF page
  <2> QED BY <1>1, <2>3, PageParts, PageWritten DEF page
<1> QED BY <1>2, <1>3, <1>4, <1>5

\* savePeople: the list a page shows is the one that is written.
LEMMA SaveTyped ==
  ASSUME TablesOK, PagesOK, NEW d \in Dashboards, NEW STATE rows, Save(d, rows),
         DOMAIN rows \subseteq Names, \A n \in DOMAIN rows : IsJobList(rows[n])
  PROVE  TablesOK' /\ PagesOK'
<1>1. TablesOK'
  <2> DEFINE p == dash[d].party
  <2>1. p \in Parties /\ PeopleToDb(rows, p) /\ UNCHANGED <<parties, settings, home, active>>
    BY PageParts DEF Save
  <2> HIDE DEF p
  <2> QED BY <2>1, PeopleTyped
<1>2. PagesOK'
  <2> DEFINE more == IF Accepts(dash[d].party) THEN {Call("people", dash[d].party)} ELSE {}
             calls == dash[d].calls \cup more
             page == dash[d]
  <2>1. dash' = [dash EXCEPT ![d] = [[dash[d] EXCEPT !.people = rows] EXCEPT !.calls = calls]]
    BY DEF Save
  <2>2. calls \subseteq Calls
    BY PageParts, CallTyped
  <2>p. page = PageOf(page.party, page.people, page.deletable, page.calls)
    BY PageParts
  <2> HIDE DEF calls, more, page
  <2>3. [[page EXCEPT !.people = rows] EXCEPT !.calls = calls]
          = PageOf(page.party, rows, page.deletable, calls)
    <3> DEFINE p == [page EXCEPT !.people = rows]
    <3>1. p = PageOf(page.party, rows, page.deletable, page.calls)
      BY <2>p, PagePeople
    <3> HIDE DEF p
    <3>2. p = PageOf(p.party, p.people, p.deletable, p.calls)
      BY <3>1, PartsOfPage
    <3>3. [p EXCEPT !.calls = calls] = PageOf(p.party, p.people, p.deletable, calls)
      BY <3>2, PageCalls
    <3>4. [p EXCEPT !.calls = calls] = PageOf(page.party, rows, page.deletable, calls)
      BY <3>1, <3>3, PartsOfPage
    <3> QED BY <3>4 DEF p
  <2>4. dash' = [dash EXCEPT ![d] = PageOf(page.party, rows, page.deletable, calls)]
    BY <2>1, <2>3 DEF page
  <2> QED BY <2>2, <2>4, PageParts, PageWritten DEF page
<1> QED BY <1>1, <1>2

LEMMA ListEdited ==
  ASSUME TablesOK, PagesOK, NEW d \in Dashboards, EditJobs(d) \/ RemovePerson(d) \/ AddPerson(d)
  PROVE  TablesOK' /\ PagesOK'
<1> DEFINE people == dash[d].people
<1>p. DOMAIN people \subseteq Names /\ \A n \in DOMAIN people : IsJobList(people[n])
  BY PageParts
<1>1. CASE EditJobs(d)
  <2>1. PICK n \in Edited \cap DOMAIN people :
          \E list \in Edits(people[n]) : Save(d, [people EXCEPT ![n] = list])
    BY <1>1 DEF EditJobs
  <2>2. PICK list \in Edits(people[n]) : Save(d, [people EXCEPT ![n] = list])
    BY <2>1
  <2> HIDE DEF people
  <2>3. IsJobList(list)
    BY <1>p, <2>1, <2>2, EditsAreLists
  <2> DEFINE rows == [people EXCEPT ![n] = list]
  <2>4. DOMAIN rows = DOMAIN people /\ \A m \in DOMAIN rows : IsJobList(rows[m])
    BY <1>p, <2>3
  <2>5. Save(d, rows)
    BY <2>2
  <2> HIDE DEF rows
  <2> QED BY <1>p, <2>4, <2>5, SaveTyped
<1>2. CASE RemovePerson(d)
  <2>1. PICK n \in Edited : Save(d, Restrict(people, DOMAIN people \ {n}))
    BY <1>2 DEF RemovePerson
  <2> HIDE DEF people
  <2> DEFINE rows == Restrict(people, DOMAIN people \ {n})
  <2>2. DOMAIN rows \subseteq Names /\ \A m \in DOMAIN rows : IsJobList(rows[m])
    BY <1>p DEF Restrict
  <2>3. Save(d, rows)
    BY <2>1
  <2> HIDE DEF rows
  <2> QED BY <2>2, <2>3, SaveTyped
<1>3. CASE AddPerson(d)
  <2>1. PICK n \in Edited : Save(d, [m \in DOMAIN people \cup {n} |-> IF m = n THEN <<>> ELSE people[m]])
    BY <1>3 DEF AddPerson
  <2> HIDE DEF people
  <2> DEFINE rows == [m \in DOMAIN people \cup {n} |-> IF m = n THEN <<>> ELSE people[m]]
  <2>2. IsJobList(<<>>)
    BY DEF IsJobList
  <2>3. n \in Names
    BY <2>1, RosterConstants
  <2>4. DOMAIN rows \subseteq Names /\ \A m \in DOMAIN rows : IsJobList(rows[m])
    BY <1>p, <2>2, <2>3
  <2>5. Save(d, rows)
    BY <2>1
  <2> HIDE DEF rows
  <2> QED BY <2>4, <2>5, SaveTyped
<1> QED BY <1>1, <1>2, <1>3

\* Only an edit asks for a list of the bot's to be written.
LEMMA BotRests ==
  ASSUME BotOK, UNCHANGED <<view, saving>>
  PROVE  BotOK'
BY DEF BotOK

LEMMA PagesRest ==
  ASSUME PagesOK, UNCHANGED dash
  PROVE  PagesOK'
BY DEF PagesOK

LEMMA ViewTyped ==
  ASSUME BotOK, NEW u \in Users, NEW STATE list, list = Absent \/ IsJobList(list),
         view' = [view EXCEPT ![u] = list]
  PROVE  view' = [v \in Users |-> view'[v]] /\ \A v \in Users : view'[v] = Absent \/ IsJobList(view'[v])
<1>1. view = [v \in Users |-> view[v]] /\ \A v \in Users : view[v] = Absent \/ IsJobList(view[v])
  BY DEF BotOK
<1>2. view' = [v \in Users |-> IF v = u THEN list ELSE view[v]]
  BY <1>1
<1> QED BY <1>1, <1>2

LEMMA UsersAreNames == Users \subseteq Names /\ Default \in Parties /\ Others \subseteq Parties
BY RosterConstants DEF Parties

LEMMA BotSteps ==
  ASSUME TablesOK, PagesOK, BotOK, JobsNext
  PROVE  TablesOK' /\ PagesOK' /\ BotOK'
<1>1. ASSUME NEW u \in Users, OpenView(u) PROVE TablesOK' /\ PagesOK' /\ BotOK'
  <2> DEFINE list == IF IsRegistered(u) THEN jobs[u] ELSE <<>>
  <2>1. /\ view' = [view EXCEPT ![u] = list]
        /\ UNCHANGED <<parties, jobs, members, settings, home, active, dash, saving, changes>>
    BY <1>1 DEF OpenView
  <2>2. IsJobList(<<>>)
    BY DEF IsJobList
  <2>3. list = Absent \/ IsJobList(list)
    BY <2>2, UsersAreNames DEF TablesOK
  <2> HIDE DEF list
  <2>4. BotOK'
    BY <2>1, <2>3, ViewTyped DEF BotOK
  <2> QED BY <2>1, <2>4, JobsTyped, RowsOfPeople, PagesRest
<1>2. ASSUME NEW u \in Users, EditView(u) PROVE TablesOK' /\ PagesOK' /\ BotOK'
  <2>1. PICK list \in Edits(view[u]) :
          /\ view' = [view EXCEPT ![u] = list]
          /\ saving' = [at |-> "writing", user |-> u, pool |-> [jobs EXCEPT ![u] = list]]
    BY <1>2 DEF EditView
  <2>2. UNCHANGED <<parties, jobs, members, settings, home, active, dash, changes>>
    BY <1>2 DEF EditView
  <2>3. IsJobList(list)
    <3>1. IsJobList(view[u])
      BY <1>2 DEF BotOK, EditView
    <3> QED BY <2>1, <3>1, EditsAreLists
  <2> DEFINE pool == [jobs EXCEPT ![u] = list]
  <2>4. \A n \in Names : pool[n] = Absent \/ IsJobList(pool[n])
    <3>1. jobs = [n \in Names |-> jobs[n]] /\ \A n \in Names : jobs[n] = Absent \/ IsJobList(jobs[n])
      BY JobsTyped
    <3> QED BY <2>3, <3>1
  <2>5. saving' = [at |-> "writing", user |-> u, pool |-> pool]
    BY <2>1
  <2> HIDE DEF pool
  <2>6. /\ saving'.at = "writing" /\ saving'.user = u /\ saving'.pool = pool
        /\ saving' = [at |-> saving'.at, user |-> saving'.user, pool |-> saving'.pool]
    BY <2>5
  <2>7. view' = [v \in Users |-> view'[v]] /\ \A v \in Users : view'[v] = Absent \/ IsJobList(view'[v])
    BY <2>1, <2>3, ViewTyped
  <2>8. BotOK'
    BY <2>4, <2>6, <2>7 DEF BotOK
  <2> QED BY <2>2, <2>8, JobsTyped, RowsOfPeople, PagesRest
<1>3. ASSUME PoolSave PROVE TablesOK' /\ PagesOK' /\ BotOK'
  <2>1. /\ saving.at = "writing"
        /\ jobs' = [n \in Names |-> IF saving.pool[n] = Absent THEN jobs[n] ELSE saving.pool[n]]
        /\ saving' = [saving EXCEPT !.at = "joining"]
        /\ UNCHANGED <<parties, members, settings, home, active, dash, view, changes>>
    BY <1>3 DEF PoolSave
  <2>2. /\ saving = [at |-> saving.at, user |-> saving.user, pool |-> saving.pool]
        /\ saving.user \in Users
        /\ \A n \in Names : saving.pool[n] = Absent \/ IsJobList(saving.pool[n])
    BY <2>1 DEF BotOK, NoSave
  <2>3. /\ saving' = [at |-> saving'.at, user |-> saving'.user, pool |-> saving'.pool]
        /\ saving'.at = "joining" /\ saving'.user = saving.user /\ saving'.pool = saving.pool
    <3>1. PICK a, b, c : saving = [at |-> a, user |-> b, pool |-> c]
      BY <2>2
    <3>2. saving' = [at |-> "joining", user |-> b, pool |-> c]
      BY <2>1, <3>1
    <3> QED BY <3>1, <3>2
  <2>4. BotOK'
    BY <2>1, <2>2, <2>3 DEF BotOK
  <2>5. jobs' = [n \in Names |-> jobs'[n]] /\ \A n \in Names : jobs'[n] # Absent => IsJobList(jobs'[n])
    BY <2>1, <2>2, JobsTyped
  <2>6. \A n \in Names : IsRegistered(n) => jobs'[n] # Absent
    BY <2>1 DEF IsRegistered
  <2>7. TablesOK'
    <3>1. \A p \in Parties : \A n \in members[p] : jobs'[n] # Absent
      BY <2>6 DEF TablesOK
    <3> QED BY <2>1, <2>5, <3>1 DEF TablesOK, IsRegistered
  <2> QED BY <2>1, <2>4, <2>7, PagesRest
<1>4. ASSUME JoinDefault PROVE TablesOK' /\ PagesOK' /\ BotOK'
  <2>1. /\ saving.at = "joining" /\ saving' = NoSave /\ AddPersonToParty(saving.user, Default)
        /\ UNCHANGED <<parties, jobs, settings, home, active, dash, view>>
    BY <1>4 DEF JoinDefault
  <2>2. saving.user \in Names /\ Default \in Parties
    BY <2>1, UsersAreNames DEF BotOK, NoSave
  <2>3. TablesOK'
    BY <2>1, <2>2, PersonAddedTyped
  <2>4. BotOK'
    BY <2>1 DEF BotOK
  <2> QED BY <2>1, <2>3, <2>4, PagesRest
<1> QED BY <1>1, <1>2, <1>3, <1>4 DEF JobsNext

LEMMA PageSteps ==
  ASSUME TablesOK, PagesOK, BotOK, DashboardNext
  PROVE  TablesOK' /\ PagesOK' /\ BotOK'
<1>1. CASE PlanMade
  BY <1>1, JobsTyped, RowsOfPeople, PagesRest, BotRests DEF PlanMade
<1>2. ASSUME NEW d \in Dashboards, NEW p \in Parties, SwitchParty(d, p)
      PROVE  TablesOK' /\ PagesOK' /\ BotOK'
  <2>1. {Call("switch", p)} \subseteq Calls
    BY CallTyped
  <2> QED BY <1>2, <2>1, CallsIssued, JobsTyped, RowsOfPeople, BotRests DEF SwitchParty
<1>3. ASSUME NEW d \in Dashboards, NEW c \in dash[d].calls,
             SwitchAnswered(d, c) \/ PeopleAnswered(d, c) \/ PartiesAnswered(d, c) \/ ComputeAsked(d, c)
      PROVE  TablesOK' /\ PagesOK' /\ BotOK'
  <2>1. PagesOK'
    BY <1>3, Replies
  <2>2. /\ UNCHANGED <<parties, jobs, members, settings, home, view, saving, changes>>
        /\ active' = active \/ active' = c.party
    BY <1>3 DEF SwitchAnswered, PeopleAnswered, PartiesAnswered, ComputeAsked
  <2>3. active' \in Parties
    <3>1. c \in Calls
      BY PageParts
    <3> QED BY <2>2, <3>1, JobsTyped DEF Calls
  <2> QED BY <2>1, <2>2, <2>3, JobsTyped, RowsOfPeople, BotRests
<1>4. ASSUME NEW d \in Dashboards, EditJobs(d) \/ RemovePerson(d) \/ AddPerson(d)
      PROVE  TablesOK' /\ PagesOK' /\ BotOK'
  <2>1. UNCHANGED <<view, saving>>
    BY <1>4 DEF EditJobs, RemovePerson, AddPerson, Save
  <2> QED BY <1>4, <2>1, ListEdited, BotRests
<1>5. ASSUME NEW d \in Dashboards, AddPoolPerson(d)
      PROVE  TablesOK' /\ PagesOK' /\ BotOK'
  <2> DEFINE p == dash[d].party
  <2>1. PICK n \in Edited \ DOMAIN dash[d].people : IsRegistered(n) /\ AddPersonToParty(n, p)
    BY <1>5 DEF AddPoolPerson
  <2>2. n \in Names /\ p \in Parties
    BY <2>1, PageParts, RosterConstants
  <2>3. {Call("people", p)} \subseteq Calls
    BY <2>2, CallTyped
  <2>4. Issue(d, {Call("people", p)}) /\ UNCHANGED <<parties, jobs, settings, home, active, view, saving>>
    BY <1>5 DEF AddPoolPerson
  <2> HIDE DEF p
  <2>5. TablesOK'
    BY <2>1, <2>2, <2>4, PersonAddedTyped
  <2> QED BY <2>3, <2>4, <2>5, CallsIssued, BotRests
<1>6. ASSUME NEW d \in Dashboards, SaveConstraints(d)
      PROVE  TablesOK' /\ PagesOK' /\ BotOK'
  <2>1. PICK s \in Settings \cup {Unreadable} : settings' = [settings EXCEPT ![dash[d].party] = s]
    BY <1>6 DEF SaveConstraints
  <2>2. UNCHANGED <<parties, jobs, members, home, active, dash, view, saving, changes>>
    BY <1>6 DEF SaveConstraints
  <2>3. settings' \in [Parties -> Settings \cup {DefaultSettings, Unreadable}]
    BY <2>1, JobsTyped
  <2> QED BY <2>2, <2>3, JobsTyped, RowsOfPeople, PagesRest, BotRests
<1>7. ASSUME NEW d \in Dashboards, DeleteCurrentParty(d)
      PROVE  TablesOK' /\ PagesOK' /\ BotOK'
  <2> DEFINE p == dash[d].party
  <2>1. /\ parties' = parties \ {p} /\ SetMembers(p, {})
        /\ settings' = [settings EXCEPT ![p] = DefaultSettings] /\ home' = [home EXCEPT ![p] = 0]
        /\ Issue(d, {Call("switch", Default)}) /\ UNCHANGED <<jobs, active, view, saving>>
    BY <1>7 DEF DeleteCurrentParty, Cascade
  <2>2. p \in Parties
    BY PageParts
  <2> HIDE DEF p
  <2>3. settings' \in [Parties -> Settings \cup {DefaultSettings, Unreadable}] /\ home' \in [Parties -> Nat]
    BY <2>1, <2>2, JobsTyped
  <2> DEFINE names == {}
  <2>4. SetMembers(p, names) /\ names \subseteq Names /\ \A n \in names : jobs'[n] # Absent
    BY <2>1
  <2> HIDE DEF names
  <2>5. TablesOK'
    BY <2>1, <2>2, <2>3, <2>4, JobsTyped, MembersTyped DEF IsRegistered
  <2>6. {Call("switch", Default)} \subseteq Calls
    BY CallTyped, UsersAreNames
  <2> QED BY <2>1, <2>5, <2>6, CallsIssued, BotRests
<1>8. ASSUME NEW d \in Dashboards, ComputeParties(d)
      PROVE  TablesOK' /\ PagesOK' /\ BotOK'
  <2>1. {Call("plan", dash[d].party)} \subseteq Calls
    BY CallTyped, PageParts
  <2> QED BY <1>8, <2>1, CallsIssued, JobsTyped, RowsOfPeople, BotRests DEF ComputeParties
<1>9. ASSUME NEW d \in Dashboards, NEW p \in Others, CreateParty(d, p)
      PROVE  TablesOK' /\ PagesOK' /\ BotOK'
  <2>1. {Call("switch", p)} \subseteq Calls /\ p \in Parties
    BY CallTyped, UsersAreNames
  <2> QED BY <1>9, <2>1, CallsIssued, JobsTyped, RowsOfPeople, BotRests DEF CreateParty
<1> QED BY <1>1, <1>2, <1>3, <1>4, <1>5, <1>6, <1>7, <1>8, <1>9 DEF DashboardNext

\* Requests are counted up to their bound, and a computation has one of four states.
Counted == plan.at \in {"none", "reading", "made", "failed"} /\ requests \in 0..MaxRequests

LEMMA AskCounts ==
  ASSUME Counted, Ask
  PROVE  requests' \in 0..MaxRequests
BY RosterConstants DEF Counted, Ask

LEMMA CountedStays ==
  ASSUME Counted, DashboardNext \/ InitDb \/ JobsNext
  PROVE  Counted'
<1>1. CASE PlanMade
  <2>1. plan'.at \in {"made", "failed"} /\ requests' = requests
    BY <1>1 DEF PlanMade
  <2> QED BY <2>1 DEF Counted
<1>2. ASSUME NEW d \in Dashboards, NEW c \in dash[d].calls, ComputeAsked(d, c) PROVE Counted'
  <2>1. plan'.at \in {"none", "reading"} /\ requests' = requests
    BY <1>2 DEF ComputeAsked, NoPlan
  <2> QED BY <2>1 DEF Counted
<1>3. ASSUME NEW d \in Dashboards, NEW c \in dash[d].calls,
             SwitchAnswered(d, c) \/ PeopleAnswered(d, c) \/ PartiesAnswered(d, c)
      PROVE  Counted'
  BY <1>3 DEF Counted, SwitchAnswered, PeopleAnswered, PartiesAnswered
<1>4. CASE Ask /\ UNCHANGED plan
  BY <1>4, AskCounts DEF Counted
<1>5. ASSUME NEW d \in Dashboards,
             \/ \E p \in Parties : SwitchParty(d, p)
             \/ EditJobs(d) \/ RemovePerson(d) \/ AddPerson(d) \/ AddPoolPerson(d)
             \/ SaveConstraints(d) \/ DeleteCurrentParty(d) \/ ComputeParties(d)
             \/ \E p \in Others : CreateParty(d, p)
      PROVE  Ask /\ UNCHANGED plan
  BY <1>5 DEF SwitchParty, EditJobs, RemovePerson, AddPerson, Save, AddPoolPerson, SaveConstraints,
              DeleteCurrentParty, ComputeParties, CreateParty
<1>6. CASE InitDb
  BY <1>4, <1>6 DEF InitDb
<1>7. ASSUME NEW u \in Users, OpenView(u) \/ EditView(u) PROVE Counted'
  BY <1>4, <1>7 DEF OpenView, EditView
<1>8. CASE PoolSave \/ JoinDefault
  BY <1>8 DEF PoolSave, JoinDefault, Counted
<1> QED BY <1>1, <1>2, <1>3, <1>4, <1>5, <1>6, <1>7, <1>8 DEF DashboardNext, JobsNext

\* Every step of the roster keeps its types.
LEMMA RosterTyped ==
  ASSUME RosterTypeOK, DashboardNext \/ InitDb \/ JobsNext
  PROVE  RosterTypeOK'
<1>1. TablesOK' /\ PagesOK' /\ BotOK'
  <2>1. TablesOK /\ PagesOK /\ BotOK
    BY DEF RosterTypeOK
  <2>2. CASE InitDb
    BY <2>1, <2>2, JobsTyped, RowsOfPeople, PagesRest, BotRests, UsersAreNames DEF InitDb
  <2> QED BY <2>1, <2>2, PageSteps, BotSteps
<1>2. Counted'
  BY CountedStays DEF RosterTypeOK, Counted
<1> QED BY <1>1, <1>2 DEF RosterTypeOK, Counted

---------------------------------------------------------------------------
(* Bounds of the posts                                                     *)

\* No more posts are sent than the bound allows, and nobody refers to one beyond it.
Bounded ==
  /\ Len(posts) <= MaxPosts
  /\ \A c \in clicks : c.on <= MaxPosts /\ c.sent <= MaxPosts
  /\ \A p \in Parties : home[p] <= MaxPosts

Typed == RosterTypeOK /\ Inv /\ Bounded

LEMMA RosterTypedAtFirst == RosterInit => RosterTypeOK
<1> SUFFICES ASSUME RosterInit PROVE RosterTypeOK
  OBVIOUS
<1>1. /\ jobs = [n \in Names |-> jobs[n]] /\ \A n \in Names : jobs[n] = Absent \/ IsJobList(jobs[n])
      /\ members \in [Parties -> SUBSET Names] /\ active \in Parties
      /\ \A p \in Parties : \A n \in members[p] : n \in Names /\ jobs[n] # Absent
  BY RosterConstants, UsersAreNames DEF RosterInit
<1>2. /\ settings \in [Parties -> Settings \cup {DefaultSettings, Unreadable}]
      /\ home \in [Parties -> Nat] /\ changes \in [Parties -> Nat] /\ parties \subseteq Parties
  BY DEF RosterInit
<1>3. TablesOK
  BY <1>1, <1>2 DEF TablesOK, IsRegistered
<1> DEFINE page == [party |-> active, people |-> Rows(active), deletable |-> TRUE, calls |-> {}]
<1>4. DashOK(page)
  <2>1. DOMAIN Rows(active) \subseteq Names /\ \A n \in DOMAIN Rows(active) : IsJobList(Rows(active)[n])
    BY <1>1 DEF Rows
  <2> HIDE DEF TablesOK
  <2> QED BY <1>1, <2>1 DEF DashOK
<1>5. PagesOK
  <2>1. dash = [d \in Dashboards |-> page]
    BY DEF RosterInit
  <2> HIDE DEF page
  <2> QED BY <1>4, <2>1 DEF PagesOK
<1>6. BotOK
  BY DEF RosterInit, BotOK
<1>7. plan.at = "none" /\ requests = 0 /\ MaxRequests \in Nat
  BY RosterConstants DEF RosterInit, NoPlan
<1> QED
  BY <1>3, <1>5, <1>6, <1>7 DEF RosterTypeOK

\* A step that leaves the rows alone, but for parties that it adds and home messages.
LEMMA RosterSpared ==
  ASSUME RosterTypeOK, parties' \subseteq Parties, home' \in [Parties -> Nat], requests' \in 0..MaxRequests,
         UNCHANGED <<jobs, members, settings, active, dash, view, saving, plan, changes>>
  PROVE  RosterTypeOK'
BY JobsTyped, RowsOfPeople, PagesRest, BotRests DEF RosterTypeOK

\* A button that adds or removes a member.
LEMMA MembersClicked ==
  ASSUME RosterTypeOK, Inv, NEW u \in Users, NEW i \in DOMAIN posts, Join(u, i) \/ Leave(u, i)
  PROVE  RosterTypeOK'
<1> DEFINE p == posts[i].party
<1>1. p \in Parties /\ u \in Names
  BY PostTyped, UsersAreNames
<1>2. /\ Ask /\ UNCHANGED <<parties, jobs, settings, home, active, dash, view, saving, plan>>
  BY DEF Join, Leave
<1>3. TablesOK'
  <2>1. CASE Join(u, i)
    <3>1. AddPersonToParty(u, p)
      BY <2>1 DEF Join
    <3> HIDE DEF p
    <3> QED BY <1>1, <1>2, <3>1, PersonAddedTyped DEF RosterTypeOK
  <2>2. CASE Leave(u, i)
    <3> DEFINE names == members[p] \ {u}
    <3>1. SetMembers(p, names)
      BY <2>2 DEF Leave
    <3>2. names \subseteq Names /\ \A n \in names : jobs'[n] # Absent
      BY <1>1, <1>2 DEF RosterTypeOK, TablesOK, IsRegistered
    <3> HIDE DEF p, names
    <3>3. TablesOK
      BY DEF RosterTypeOK
    <3> QED BY <1>1, <1>2, <3>1, <3>2, <3>3, JobsTyped, MembersTyped DEF IsRegistered
  <2> QED BY <2>1, <2>2
<1>4. PagesOK' /\ BotOK'
  BY <1>2, PagesRest, BotRests DEF RosterTypeOK
<1>5. requests' \in 0..MaxRequests /\ plan' = plan
  BY <1>2, AskCounts DEF RosterTypeOK, Counted
<1> QED
  BY <1>3, <1>4, <1>5 DEF RosterTypeOK

\* A callback of the bot keeps the types of the roster.
LEMMA RosterOfPosts ==
  ASSUME RosterTypeOK, Inv, PostNext
  PROVE  RosterTypeOK'
<1>t. TablesOK /\ Counted
  BY DEF RosterTypeOK, Counted
<1>h. parties \subseteq Parties /\ home \in [Parties -> Nat] /\ requests \in 0..MaxRequests
  BY DEF RosterTypeOK, TablesOK
<1>1. ASSUME NEW u \in Users, NEW i \in DOMAIN posts, Join(u, i) \/ Leave(u, i) PROVE RosterTypeOK'
  BY <1>1, MembersClicked
<1>2. ASSUME NEW i \in DOMAIN posts, MoveToBottom(i) PROVE RosterTypeOK'
  BY <1>2, <1>t, <1>h, AskCounts, RosterSpared DEF MoveToBottom
<1>3. ASSUME NEW p \in Parties, SetupHomeChannel(p) PROVE RosterTypeOK'
  BY <1>3, <1>t, <1>h, AskCounts, RosterSpared DEF SetupHomeChannel
<1>4. ASSUME NEW c \in clicks, Build(c) \/ PostEdited(c) \/ Sent(c) \/ Fails(c) \/ OldDeleted(c)
      PROVE  RosterTypeOK'
  <2>1. UNCHANGED rosterVars
    BY <1>4 DEF Build, PostEdited, Sent, Fails, OldDeleted
  <2> QED BY <2>1, <1>h, RosterSpared DEF rosterVars
<1>5. ASSUME NEW c \in clicks, StoreHome(c) PROVE RosterTypeOK'
  <2>1. c.sent \in Nat
    BY DEF Inv, ClicksInv, ClickType
  <2>2. home' \in [Parties -> Nat]
    BY <1>5, <1>h, <2>1 DEF StoreHome
  <2> QED BY <1>5, <1>h, <2>2, RosterSpared DEF StoreHome
<1>6. CASE RestartBot
  <2>1. TablesOK' /\ PagesOK'
    BY <1>6, <1>t, JobsTyped, RowsOfPeople, PagesRest DEF RestartBot, RosterTypeOK
  <2>2. BotOK'
    BY <1>6 DEF RestartBot, BotOK
  <2>3. requests' \in 0..MaxRequests /\ plan' = plan
    BY <1>6, <1>t, AskCounts DEF RestartBot
  <2> QED BY <2>1, <2>2, <2>3 DEF RosterTypeOK
<1> QED
  BY <1>1, <1>2, <1>3, <1>4, <1>5, <1>6 DEF PostNext

\* Only a deletion and a finished move write home messages.
LEMMA HomesRest ==
  ASSUME [Next]_vars
  PROVE  \/ UNCHANGED home
         \/ \E d \in Dashboards : DeleteCurrentParty(d)
         \/ \E c \in clicks : StoreHome(c)
<1>1. CASE DashboardNext
  <2>1. ASSUME NEW d \in Dashboards, NEW c \in dash[d].calls,
               SwitchAnswered(d, c) \/ PeopleAnswered(d, c) \/ PartiesAnswered(d, c) \/ ComputeAsked(d, c)
        PROVE  UNCHANGED home
    BY <2>1 DEF SwitchAnswered, PeopleAnswered, PartiesAnswered, ComputeAsked
  <2>2. ASSUME NEW d \in Dashboards,
               \/ \E p \in Parties : SwitchParty(d, p)
               \/ EditJobs(d) \/ RemovePerson(d) \/ AddPerson(d) \/ AddPoolPerson(d)
               \/ SaveConstraints(d) \/ ComputeParties(d)
               \/ \E p \in Others : CreateParty(d, p)
        PROVE  UNCHANGED home
    BY <2>2 DEF SwitchParty, EditJobs, RemovePerson, AddPerson, Save, AddPoolPerson, SaveConstraints,
                ComputeParties, CreateParty
  <2>3. CASE PlanMade
    BY <2>3 DEF PlanMade
  <2> QED BY <1>1, <2>1, <2>2, <2>3 DEF DashboardNext
<1>2. CASE InitDb \/ JobsNext
  BY <1>2 DEF InitDb, JobsNext, OpenView, EditView, PoolSave, JoinDefault
<1>3. CASE PostNext
  <2>1. ASSUME NEW u \in Users, NEW i \in DOMAIN posts, Join(u, i) \/ Leave(u, i) PROVE UNCHANGED home
    BY <2>1 DEF Join, Leave
  <2>2. ASSUME NEW c \in clicks, Build(c) \/ PostEdited(c) \/ Sent(c) \/ Fails(c) \/ OldDeleted(c)
        PROVE  UNCHANGED home
    BY <2>2 DEF Build, PostEdited, Sent, Fails, OldDeleted, rosterVars
  <2>3. ASSUME NEW i \in DOMAIN posts, MoveToBottom(i) PROVE UNCHANGED home
    BY <2>3 DEF MoveToBottom
  <2>4. ASSUME NEW p \in Parties, SetupHomeChannel(p) PROVE UNCHANGED home
    BY <2>4 DEF SetupHomeChannel
  <2>5. CASE RestartBot
    BY <2>5 DEF RestartBot
  <2> QED BY <1>3, <2>1, <2>2, <2>3, <2>4, <2>5 DEF PostNext
<1>4. CASE UNCHANGED vars
  BY <1>4 DEF vars, rosterVars
<1> QED BY <1>1, <1>2, <1>3, <1>4 DEF Next

\* The home message of a party is one that was sent, or none.
LEMMA HomesBounded ==
  ASSUME RosterTypeOK, Bounded, Inv, [Next]_vars
  PROVE  \A p \in Parties : home'[p] <= MaxPosts
<1>0. home \in [Parties -> Nat] /\ \A p \in Parties : home[p] <= MaxPosts
  BY DEF RosterTypeOK, TablesOK, Bounded
<1>m. MaxPosts \in Nat /\ 0 <= MaxPosts
  BY HomePostConstants
<1>1. CASE UNCHANGED home
  BY <1>0, <1>1
<1>2. ASSUME NEW d \in Dashboards, DeleteCurrentParty(d) PROVE \A p \in Parties : home'[p] <= MaxPosts
  <2>1. home' = [home EXCEPT ![dash[d].party] = 0]
    BY <1>2 DEF DeleteCurrentParty
  <2> QED BY <1>0, <1>m, <2>1
<1>3. ASSUME NEW c \in clicks, StoreHome(c) PROVE \A p \in Parties : home'[p] <= MaxPosts
  <2>1. c.sent <= MaxPosts
    BY DEF Bounded
  <2>2. home' = home \/ home' = [home EXCEPT ![c.party] = c.sent]
    BY <1>3 DEF StoreHome
  <2> QED BY <1>0, <2>1, <2>2
<1> QED BY <1>1, <1>2, <1>3, HomesRest

\* Callbacks refer to posts that were sent.
LEMMA ClicksBounded ==
  ASSUME Inv, Bounded, [Next]_vars
  PROVE  /\ Len(posts') <= MaxPosts
         /\ \A c \in clicks' : c.on <= MaxPosts /\ c.sent <= MaxPosts
<1>m. MaxPosts \in Nat /\ Len(posts) \in Nat /\ Len(posts) <= MaxPosts /\ posts \in Seq(PostType)
  BY HomePostConstants DEF Bounded, Inv, PostsInv
<1>o. \A c \in clicks : c \in ClickType /\ c.on <= MaxPosts /\ c.sent <= MaxPosts
  BY DEF Bounded, Inv, ClicksInv
<1>i. \A i \in DOMAIN posts : i \in Nat /\ i <= MaxPosts
  BY <1>m
<1> DEFINE Fine(c) == c.on <= MaxPosts /\ c.sent <= MaxPosts
<1>1. ASSUME posts' = posts, NEW d, Fine(d), clicks' \subseteq clicks \cup {d}
      PROVE  Len(posts') <= MaxPosts /\ \A c \in clicks' : Fine(c)
  BY <1>m, <1>o, <1>1
<1>2. ASSUME NEW i \in DOMAIN posts, NEW kind, NEW at, NEW seen,
             posts' = posts,
             Begin([Click(kind, posts[i].party, i, at) EXCEPT !.seen = seen])
      PROVE  Len(posts') <= MaxPosts /\ \A c \in clicks' : Fine(c)
  <2> DEFINE d == [Click(kind, posts[i].party, i, at) EXCEPT !.seen = seen]
  <2>1. clicks' \subseteq clicks \cup {d}
    BY <1>2 DEF Begin
  <2>2. d.on = i /\ d.sent = 0
    BY DEF Click
  <2> HIDE DEF d
  <2>3. Fine(d)
    BY <1>i, <1>m, <2>2
  <2> QED BY <1>1, <1>2, <2>1, <2>3
<1>3. ASSUME NEW u \in Users, NEW i \in DOMAIN posts, Join(u, i) \/ Leave(u, i)
      PROVE  Len(posts') <= MaxPosts /\ \A c \in clicks' : Fine(c)
  BY <1>2, <1>3 DEF Join, Leave
<1>4. ASSUME NEW i \in DOMAIN posts, MoveToBottom(i)
      PROVE  Len(posts') <= MaxPosts /\ \A c \in clicks' : Fine(c)
  <2> DEFINE d == Click("move", posts[i].party, i, "deferring")
  <2>1. clicks' \subseteq clicks \cup {d} /\ posts' = posts
    BY <1>4 DEF MoveToBottom, Begin
  <2>2. d.on = i /\ d.sent = 0
    BY DEF Click
  <2> HIDE DEF d
  <2>3. Fine(d)
    BY <1>i, <1>m, <2>2
  <2> QED BY <1>1, <2>1, <2>3
<1>5. ASSUME NEW p \in Parties, SetupHomeChannel(p)
      PROVE  Len(posts') <= MaxPosts /\ \A c \in clicks' : Fine(c)
  <2> DEFINE d == [Click("setup", p, 0, "sending") EXCEPT !.seen = 0]
  <2>1. clicks' \subseteq clicks \cup {d} /\ posts' = posts
    BY <1>5 DEF SetupHomeChannel, Begin
  <2>2. d.on = 0 /\ d.sent = 0
    BY DEF Click
  <2> HIDE DEF d
  <2>3. Fine(d)
    BY <1>m, <2>2
  <2> QED BY <1>1, <2>1, <2>3
<1>6. ASSUME NEW c \in clicks, Build(c)
      PROVE  Len(posts') <= MaxPosts /\ \A e \in clicks' : Fine(e)
  <2> DEFINE d == [c EXCEPT !.at = IF c.kind = "refresh" THEN "editing" ELSE "sending",
                            !.embed = BuildPartyEmbed(c)]
  <2>1. clicks' \subseteq clicks \cup {d} /\ posts' = posts
    BY <1>6 DEF Build, Continue
  <2>2. d.on = c.on /\ d.sent = c.sent
    BY <1>o DEF ClickType
  <2> HIDE DEF d
  <2> QED BY <1>1, <1>o, <2>1, <2>2
<1>7. ASSUME NEW c \in clicks, PostEdited(c)
      PROVE  Len(posts') <= MaxPosts /\ \A e \in clicks' : Fine(e)
  <2>1. clicks' \subseteq clicks /\ (posts' = posts \/ posts' = [posts EXCEPT ![c.on].shows = c.embed])
    BY <1>7 DEF PostEdited, End
  <2>2. Len(posts') = Len(posts)
    BY <1>m, <2>1
  <2> QED BY <1>m, <1>o, <2>1, <2>2
<1>8. ASSUME NEW c \in clicks, Sent(c)
      PROVE  Len(posts') <= MaxPosts /\ \A e \in clicks' : Fine(e)
  <2> DEFINE n == Len(posts) + 1
             d == [c EXCEPT !.at = IF c.kind = "move" THEN "deleting" ELSE "storing", !.sent = n]
             new == Post(c.party, c.embed)
  <2>1. clicks' \subseteq clicks \cup {d} /\ posts' = Append(posts, new) /\ Len(posts) < MaxPosts
    BY <1>8 DEF Sent, Continue
  <2>2. n <= MaxPosts
    BY <1>m, <2>1
  <2>3. d.on = c.on /\ d.sent = n
    BY <1>o DEF ClickType
  <2> HIDE DEF d, new
  <2>4. Len(posts') = n
    BY <1>m, <2>1
  <2>5. Fine(d)
    BY <1>o, <2>2, <2>3
  <2> HIDE DEF n
  <2> QED BY <1>o, <2>1, <2>2, <2>4, <2>5
<1>9. ASSUME NEW c \in clicks, Fails(c) \/ StoreHome(c)
      PROVE  Len(posts') <= MaxPosts /\ \A e \in clicks' : Fine(e)
  BY <1>m, <1>o, <1>9 DEF Fails, StoreHome, End
<1>10. ASSUME NEW c \in clicks, OldDeleted(c)
      PROVE  Len(posts') <= MaxPosts /\ \A e \in clicks' : Fine(e)
  <2> DEFINE d == [c EXCEPT !.at = "storing"]
  <2>1. /\ clicks' \subseteq clicks \cup {d}
        /\ posts' = posts \/ posts' = [posts EXCEPT ![c.on].live = FALSE]
    BY <1>10 DEF OldDeleted, Continue, ClickedPost
  <2>2. d.on = c.on /\ d.sent = c.sent
    BY <1>o DEF ClickType
  <2>3. Len(posts') = Len(posts)
    BY <1>m, <2>1
  <2> HIDE DEF d
  <2> QED BY <1>m, <1>o, <2>1, <2>2, <2>3
<1>11. CASE RestartBot
  BY <1>m, <1>11 DEF RestartBot
<1>12. CASE PostNext
  BY <1>3, <1>4, <1>5, <1>6, <1>7, <1>8, <1>9, <1>10, <1>11, <1>12 DEF PostNext
<1>13. CASE UNCHANGED postVars
  BY <1>m, <1>o, <1>13 DEF postVars
<1> QED
  BY <1>12, <1>13 DEF Next, vars

LEMMA TypedAtFirst == Init => Typed
<1> SUFFICES ASSUME Init PROVE Typed
  OBVIOUS
<1>1. RosterTypeOK /\ Inv
  BY RosterTypedAtFirst, InvAtFirst DEF Init
<1>2. Len(posts) = 1 /\ clicks = {} /\ \A p \in Parties : home[p] = 0
  BY DEF Init, RosterInit
<1> QED
  BY <1>1, <1>2, HomePostConstants DEF Typed, Bounded

LEMMA TypedStays == Typed /\ [Next]_vars => Typed'
<1> SUFFICES ASSUME Typed, [Next]_vars PROVE Typed'
  OBVIOUS
<1>1. RosterTypeOK /\ Inv /\ Bounded
  BY DEF Typed
<1>2. RosterTypeOK'
  <2>1. CASE DashboardNext \/ InitDb \/ JobsNext
    BY <1>1, <2>1, RosterTyped
  <2>2. CASE PostNext
    BY <1>1, <2>2, RosterOfPosts
  <2>3. CASE UNCHANGED vars
    BY <1>1, <2>3, RosterSpared DEF vars, rosterVars, RosterTypeOK, TablesOK
  <2> QED BY <2>1, <2>2, <2>3 DEF Next
<1>3. Bounded'
  BY <1>1, ClicksBounded, HomesBounded DEF Bounded
<1> QED
  BY <1>1, <1>2, <1>3, InvStays DEF Typed

\* Whatever dashboards, job views and buttons do at once, members of a party are people
\* with a row, a list names a job once, whoever wrote it, and a home message is a post
\* that was sent.
THEOREM TypeCorrect == Spec => []TypeOK
<1>1. ASSUME Typed PROVE TypeOK
  <2>1. RosterTypeOK /\ Inv /\ Bounded
    BY <1>1 DEF Typed
  <2>2. posts \in Seq([party : Parties, shows : Nat, live : BOOLEAN])
    BY <2>1 DEF Inv, PostsInv, PostType
  <2>3. home \in [Parties -> 0..MaxPosts]
    <3>1. home \in [Parties -> Nat] /\ \A p \in Parties : home[p] <= MaxPosts
      BY <2>1 DEF RosterTypeOK, TablesOK, Bounded
    <3>2. \A p \in Parties : home[p] \in 0..MaxPosts
      BY <3>1, HomePostConstants
    <3> QED BY <3>1, <3>2
  <2>4. ASSUME NEW c \in clicks
        PROVE  c \in [kind : {"refresh", "move", "setup"}, party : Parties, on : 0..MaxPosts,
                      at : {"deferring", "editing", "sending", "deleting", "storing"},
                      seen : Nat, embed : Nat, sent : 0..MaxPosts]
    <3>1. c \in ClickType /\ c.on <= MaxPosts /\ c.sent <= MaxPosts
      BY <2>1 DEF Inv, ClicksInv, Bounded
    <3>2. c.on \in 0..MaxPosts /\ c.sent \in 0..MaxPosts
      BY <3>1, HomePostConstants DEF ClickType
    <3> QED BY <3>1, <3>2 DEF ClickType
  <2> QED
    BY <2>1, <2>2, <2>3, <2>4 DEF TypeOK
<1> QED
  BY TypedAtFirst, TypedStays, <1>1, PTL DEF Spec

---------------------------------------------------------------------------
(* Lists of what is picked                                                 *)

Distinct(list) == \A i, k \in 1..Len(list) : list[i] = list[k] => i = k

\* The list has every member of S, and nothing else, once.
Lists(list, S) ==
  /\ list \in Seq(S)
  /\ \A x \in S : \E i \in 1..Len(list) : list[i] = x
  /\ Distinct(list)

UpTo(s, places, k) == {s[i] : i \in {j \in places : j <= k}}

\* What the loop of Picked has after k rounds.
Got(s, places, k, u) ==
  /\ u \in Seq(UpTo(s, places, k))
  /\ \A x \in UpTo(s, places, k) : \E i \in 1..Len(u) : u[i] = x
  /\ Distinct(s) => Distinct(u)

LEMMA SeqGrows ==
  ASSUME NEW S, NEW u \in Seq(S), NEW x
  PROVE  /\ Append(u, x) \in Seq(S \cup {x})
         /\ Len(u) \in Nat /\ Len(Append(u, x)) = Len(u) + 1
         /\ \A i \in 1..Len(u) : Append(u, x)[i] = u[i] /\ u[i] \in S
         /\ Append(u, x)[Len(u) + 1] = x
<1>1. u \in Seq(S \cup {x})
  BY SeqMonotonic
<1>2. x \in S \cup {x}
  OBVIOUS
<1> DEFINE T == S \cup {x}
<1> HIDE DEF T
<1>3. u \in Seq(T) /\ x \in T
  BY <1>1, <1>2 DEF T
<1>4. /\ Append(u, x) \in Seq(T)
      /\ Len(u) \in Nat /\ Len(Append(u, x)) = Len(u) + 1
      /\ \A i \in 1..Len(u) : Append(u, x)[i] = u[i]
      /\ Append(u, x)[Len(u) + 1] = x
  BY <1>3, AppendProperties, LenProperties
<1>5. \A i \in 1..Len(u) : u[i] \in S
  BY ElementOfSeq
<1> QED BY <1>4, <1>5 DEF T

LEMMA GotMore ==
  ASSUME NEW A, NEW s \in Seq(A), NEW places \in SUBSET (1..Len(s)), NEW k \in 1..Len(s),
         NEW u, Got(s, places, k - 1, u)
  PROVE  Got(s, places, k, IF k \in places THEN Append(u, s[k]) ELSE u)
<1>1. Len(s) \in Nat /\ k \in Nat /\ \A i \in places : i \in Nat
  BY LenProperties
<1> DEFINE S == UpTo(s, places, k - 1)
           T == UpTo(s, places, k)
<1>2. \A x : x \in S <=> \E i \in places : i <= k - 1 /\ x = s[i]
  BY DEF UpTo
<1>3. \A x : x \in T <=> \E i \in places : i <= k /\ x = s[i]
  BY DEF UpTo
<1>4. \A i \in places : i <= k <=> i = k \/ i <= k - 1
  BY <1>1
<1>5. /\ u \in Seq(S)
      /\ \A x \in S : \E i \in 1..Len(u) : u[i] = x
      /\ Distinct(s) => Distinct(u)
  BY DEF Got
<1> HIDE DEF S, T
<1>6. CASE k \notin places
  <2>1. \A x : x \in T <=> x \in S
    BY <1>2, <1>3, <1>4, <1>6
  <2>2. T = S
    BY <2>1
  <2> QED BY <1>5, <1>6, <2>2 DEF Got, T
<1>7. CASE k \in places
  <2> DEFINE v == Append(u, s[k])
             n == Len(u)
  <2>1. T = S \cup {s[k]}
    <3>1. \A x : x \in T <=> x \in S \/ x = s[k]
      BY <1>2, <1>3, <1>4, <1>7
    <3> QED BY <3>1
  <2>2. /\ v \in Seq(T) /\ n \in Nat /\ Len(v) = n + 1
        /\ \A i \in 1..n : v[i] = u[i] /\ u[i] \in S
        /\ v[n + 1] = s[k]
    <3>1. u \in Seq(S)
      BY <1>5
    <3> QED BY <2>1, <3>1, SeqGrows
  <2> HIDE DEF v
  <2>3. \A i \in 1..(n + 1) : i \in 1..n \/ i = n + 1
    BY <2>2
  <2>4. n + 1 \in 1..(n + 1) /\ \A i \in 1..n : i \in 1..(n + 1)
    BY <2>2
  <2>5. ASSUME NEW x \in T PROVE \E i \in 1..Len(v) : v[i] = x
    <3>1. CASE x = s[k]
      BY <2>2, <2>4, <3>1
    <3>2. CASE x \in S
      <4>1. PICK i \in 1..n : u[i] = x
        BY <1>5, <3>2
      <4> QED BY <2>2, <2>4, <4>1
    <3> QED BY <2>1, <3>1, <3>2
  <2>6. ASSUME Distinct(s) PROVE Distinct(v)
    <3>1. \A i \in 1..n : u[i] # s[k]
      <4> SUFFICES ASSUME NEW i \in 1..n, u[i] = s[k] PROVE FALSE
        OBVIOUS
      <4>1. s[k] \in S
        BY <2>2
      <4>2. PICK j \in places : j <= k - 1 /\ s[k] = s[j]
        BY <1>2, <4>1
      <4>3. j = k
        BY <2>6, <4>2 DEF Distinct
      <4> QED BY <1>1, <4>2, <4>3
    <3>2. \A i, j \in 1..n : u[i] = u[j] => i = j
      BY <1>5, <2>6 DEF Distinct
    <3>3. \A i, j \in 1..(n + 1) : v[i] = v[j] => i = j
      <4> SUFFICES ASSUME NEW i \in 1..(n + 1), NEW j \in 1..(n + 1), v[i] = v[j] PROVE i = j
        OBVIOUS
      <4>1. CASE i \in 1..n /\ j \in 1..n
        BY <2>2, <3>2, <4>1
      <4>2. CASE i = n + 1 /\ j \in 1..n
        BY <2>2, <3>1, <4>2
      <4>3. CASE i \in 1..n /\ j = n + 1
        BY <2>2, <3>1, <4>3
      <4> QED BY <2>3, <4>1, <4>2, <4>3
    <3> QED BY <2>2, <3>3 DEF Distinct
  <2> QED BY <1>7, <2>2, <2>5, <2>6 DEF Got, T, v
<1> QED BY <1>6, <1>7

\* Picked has what is at the places it is given; of a list without repetition, it has each once.
LEMMA PickedIsThere ==
  ASSUME NEW A, NEW s \in Seq(A), NEW places \in SUBSET (1..Len(s))
  PROVE  /\ Picked(s, places) \in Seq({s[i] : i \in places})
         /\ Distinct(s) => Lists(Picked(s, places), {s[i] : i \in places})
<1> DEFINE n == Len(s)
           S == Seq(A)
           more(u, i) == IF i \in places THEN Append(u, s[i]) ELSE u
           step == [q \in S \X (1..n) |-> more(q[1], q[2])]
           Loop(g) == g = [i \in 0..n |-> IF i = 0 THEN <<>>
                                          ELSE IF i \in places THEN Append(g[i - 1], s[i])
                                          ELSE g[i - 1]]
           upto == CHOOSE g : Loop(g)
<1>1. n \in Nat /\ \A i \in 1..n : s[i] \in A
  BY LenProperties, ElementOfSeq
<1>2. <<>> \in S
  BY EmptySeq
<1>3. ASSUME NEW u \in S, NEW i \in 1..n PROVE more(u, i) \in S
  BY <1>1, AppendProperties
<1>4. \A u \in S, i \in 1..n : step[<<u, i>>] = more(u, i)
  OBVIOUS
<1> HIDE DEF S, step
<1>5. \A u \in S, i \in 1..n : step[<<u, i>>] \in S
  BY <1>3, <1>4
<1>6. PICK g \in [0..n -> S] : Runs(n, <<>>, step, g)
  BY <1>1, <1>2, <1>5, RunsExist
<1>7. Loop(g)
  <2>1. \A i \in 0..n : i # 0 => g[i - 1] \in S /\ i \in 1..n
    BY <1>1
  <2>2. \A i \in 0..n : i # 0 => step[<<g[i - 1], i>>] = more(g[i - 1], i)
    BY <1>4, <2>1
  <2>3. g = [i \in 0..n |-> IF i = 0 THEN <<>> ELSE step[<<g[i - 1], i>>]]
    BY <1>6 DEF Runs
  <2>4. [i \in 0..n |-> IF i = 0 THEN <<>> ELSE step[<<g[i - 1], i>>]]
          = [i \in 0..n |-> IF i = 0 THEN <<>> ELSE more(g[i - 1], i)]
    BY <2>2
  <2> QED BY <2>3, <2>4
<1>8. Loop(upto)
  <2> HIDE DEF Loop
  <2> QED BY <1>7
<1>9. Picked(s, places) = upto[n]
  BY DEF Picked
<1>10. \A i \in 0..n : upto[i] = IF i = 0 THEN <<>> ELSE more(upto[i - 1], i)
  <2> HIDE DEF upto
  <2> QED BY <1>8
<1> DEFINE F == {k \in 0..n : Got(s, places, k, upto[k])}
<1> HIDE DEF upto, Loop
<1>11. 0 \in F
  <2>1. upto[0] = <<>>
    BY <1>1, <1>10
  <2>2. UpTo(s, places, 0) = {}
    BY <1>1 DEF UpTo
  <2>3. <<>> \in Seq({}) /\ Len(<<>>) = 0
    BY EmptySeq
  <2>4. Distinct(<<>>)
    BY <2>3 DEF Distinct
  <2>5. Got(s, places, 0, <<>>)
    BY <2>2, <2>3, <2>4 DEF Got
  <2> QED BY <1>1, <2>1, <2>5
<1>12. ASSUME NEW k \in 0..(n - 1), k \in F PROVE k + 1 \in F
  <2>1. k + 1 \in 1..n /\ k + 1 \in 0..n /\ (k + 1) - 1 = k /\ k + 1 # 0
    BY <1>1
  <2>2. upto[k + 1] = more(upto[k], k + 1)
    BY <1>10, <2>1
  <2>3. Got(s, places, (k + 1) - 1, upto[k])
    BY <1>12, <2>1
  <2>4. Got(s, places, k + 1, more(upto[k], k + 1))
    BY <2>1, <2>3, GotMore
  <2> QED BY <2>1, <2>2, <2>4
<1>13. Got(s, places, n, upto[n])
  <2>1. n \in F
    <3> HIDE DEF F
    <3>1. n \in 0..n
      BY <1>1
    <3> QED BY <1>1, <1>11, <1>12, <3>1, InductionUpTo
  <2> QED BY <2>1
<1>14. UpTo(s, places, n) = {s[i] : i \in places}
  BY <1>1 DEF UpTo
<1> QED BY <1>9, <1>13, <1>14 DEF Got, Lists

\* A function takes as many values as its domain has members, unless it takes one twice.
LEMMA ImageCounts ==
  ASSUME NEW S, IsFiniteSet(S), NEW f, f = [x \in S |-> f[x]]
  PROVE  LET T == {f[x] : x \in S}
         IN  /\ IsFiniteSet(T)
             /\ Cardinality(T) = Cardinality(S) <=> \A x, y \in S : f[x] = f[y] => x = y
<1> DEFINE T == {f[x] : x \in S}
<1>1. f \in [S -> T]
  OBVIOUS
<1>2. \A t \in T : \E x \in S : f[x] = t
  OBVIOUS
<1> HIDE DEF T
<1>3. f \in Surjection(S, T)
  BY <1>1, <1>2 DEF Surjection
<1>4. IsFiniteSet(T) /\ (Cardinality(T) = Cardinality(S) <=> f \in Injection(S, T))
  BY <1>3, FS_Surjection
<1>5. f \in Injection(S, T) <=> \A x, y \in S : f[x] = f[y] => x = y
  BY <1>1 DEF Injection, IsInjective
<1> QED BY <1>4, <1>5 DEF T

\* What a list lists has as many members as the list is long.
LEMMA ListCounts ==
  ASSUME NEW S, NEW list, Lists(list, S)
  PROVE  /\ Len(list) \in Nat /\ DOMAIN list = 1..Len(list)
         /\ \A i \in 1..Len(list) : list[i] \in S
         /\ IsFiniteSet(S) /\ Cardinality(S) = Len(list)
<1>1. list \in Seq(S) /\ Len(list) \in Nat /\ DOMAIN list = 1..Len(list)
  BY LenProperties DEF Lists
<1>2. \A i \in 1..Len(list) : list[i] \in S
  BY <1>1, ElementOfSeq
<1> DEFINE n == Len(list)
<1>3. IsFiniteSet(1..n) /\ Cardinality(1..n) = n
  BY <1>1, FS_Interval
<1>4. list = [i \in 1..n |-> list[i]]
  BY <1>1, LenProperties
<1>5. \A x, y \in 1..n : list[x] = list[y] => x = y
  BY DEF Lists, Distinct
<1> DEFINE T == {list[i] : i \in 1..n}
<1>6. IsFiniteSet(T) /\ Cardinality(T) = n
  <2>1. IsFiniteSet(T) /\ (Cardinality(T) = Cardinality(1..n)
                             <=> \A x, y \in 1..n : list[x] = list[y] => x = y)
    <3> DEFINE I == 1..n
    <3> HIDE DEF I, n
    <3>1. list = [i \in I |-> list[i]] /\ IsFiniteSet(I)
      BY <1>3, <1>4 DEF I
    <3>2. LET U == {list[i] : i \in I}
          IN  /\ IsFiniteSet(U)
              /\ Cardinality(U) = Cardinality(I) <=> \A x, y \in I : list[x] = list[y] => x = y
      BY <3>1, ImageCounts
    <3> QED BY <3>2 DEF I
  <2> QED BY <1>3, <1>5, <2>1
<1>7. T = S
  BY <1>2 DEF Lists
<1> QED BY <1>1, <1>2, <1>6, <1>7

LEMMA ListsJoin ==
  ASSUME NEW A, NEW B, NEW v, Lists(v, A), NEW w, Lists(w, B), A \cap B = {}
  PROVE  Lists(v \o w, A \cup B)
<1> DEFINE S == A \cup B
           u == v \o w
<1>1. /\ v \in Seq(S) /\ w \in Seq(S) /\ Len(v) \in Nat /\ Len(w) \in Nat
      /\ \A i \in 1..Len(v) : v[i] \in A
      /\ \A i \in 1..Len(w) : w[i] \in B
  <2>1. v \in Seq(A) /\ w \in Seq(B)
    BY DEF Lists
  <2>2. v \in Seq(S) /\ w \in Seq(S)
    BY <2>1, SeqMonotonic
  <2> QED BY <2>1, <2>2, LenProperties, ElementOfSeq
<1>2. /\ u \in Seq(S) /\ Len(u) = Len(v) + Len(w)
      /\ \A i \in 1..(Len(v) + Len(w)) : u[i] = IF i <= Len(v) THEN v[i] ELSE w[i - Len(v)]
  <2> HIDE DEF S
  <2> QED BY <1>1, ConcatProperties
<1> HIDE DEF u
<1>3. ASSUME NEW x \in S PROVE \E i \in 1..Len(u) : u[i] = x
  <2>1. CASE x \in A
    <3>1. PICK i \in 1..Len(v) : v[i] = x
      BY <2>1 DEF Lists
    <3>2. i \in 1..Len(u) /\ u[i] = x
      BY <1>1, <1>2, <3>1
    <3> QED BY <3>2
  <2>2. CASE x \in B
    <3>1. PICK i \in 1..Len(w) : w[i] = x
      BY <2>2 DEF Lists
    <3>2. Len(v) + i \in 1..Len(u) /\ ~ (Len(v) + i <= Len(v)) /\ (Len(v) + i) - Len(v) = i
      BY <1>1, <1>2
    <3>3. u[Len(v) + i] = x
      BY <1>2, <3>1, <3>2
    <3> QED BY <3>2, <3>3
  <2> QED BY <2>1, <2>2
<1>4. ASSUME NEW i \in 1..Len(u), NEW k \in 1..Len(u), u[i] = u[k] PROVE i = k
  <2>1. \A m \in 1..Len(u) : \/ m \in 1..Len(v) /\ u[m] = v[m]
                             \/ m - Len(v) \in 1..Len(w) /\ u[m] = w[m - Len(v)] /\ ~ (m <= Len(v))
    BY <1>1, <1>2
  <2>2. CASE i \in 1..Len(v) /\ u[i] = v[i] /\ k \in 1..Len(v) /\ u[k] = v[k]
    BY <1>4, <2>2 DEF Lists, Distinct
  <2>3. CASE i - Len(v) \in 1..Len(w) /\ u[i] = w[i - Len(v)] /\ k - Len(v) \in 1..Len(w) /\ u[k] = w[k - Len(v)]
    <3>1. i - Len(v) = k - Len(v)
      BY <1>4, <2>3 DEF Lists, Distinct
    <3> QED BY <1>1, <1>2, <3>1
  <2>4. ~ (i \in 1..Len(v) /\ u[i] = v[i] /\ k - Len(v) \in 1..Len(w) /\ u[k] = w[k - Len(v)])
    BY <1>1, <1>4
  <2>5. ~ (k \in 1..Len(v) /\ u[k] = v[k] /\ i - Len(v) \in 1..Len(w) /\ u[i] = w[i - Len(v)])
    BY <1>1, <1>4
  <2> QED BY <2>1, <2>2, <2>3, <2>4, <2>5
<1>5. Lists(u, S)
  <2> HIDE DEF S
  <2> QED BY <1>2, <1>3, <1>4 DEF Lists, Distinct
<1> QED BY <1>5 DEF u

\* Lists of sets that have nothing in common, behind each other, list their union.
LEMMA FlattenLists ==
  ASSUME NEW n \in Nat, NEW C, NEW s, s = [k \in 1..n |-> s[k]],
         \A k \in 1..n : Lists(s[k], C[k]),
         \A i, k \in 1..n : i # k => C[i] \cap C[k] = {}
  PROVE  Lists(FlattenSeq(s), UNION {C[k] : k \in 1..n})
<1> DEFINE A == UNION {C[k] : k \in 1..n}
           before(m) == UNION {C[k] : k \in 1..m}
<1>1. s \in [1..n -> Seq(A)]
  <2>1. ASSUME NEW k \in 1..n PROVE s[k] \in Seq(A)
    <3>1. s[k] \in Seq(C[k])
      BY DEF Lists
    <3>2. C[k] \subseteq A
      OBVIOUS
    <3> HIDE DEF A
    <3> QED BY <3>1, <3>2, SeqMonotonic
  <2> HIDE DEF A
  <2> QED BY <2>1
<1>2. PICK j : Joins(A, n, s, j) /\ FlattenSeq(s) = j[n]
  <2> HIDE DEF A
  <2> QED BY <1>1, FlattenJoins
<1> DEFINE F == {m \in 0..n : Lists(j[m], before(m))}
<1>3. 0 \in F
  <2>1. before(0) = {} /\ j[0] = <<>>
    BY <1>2 DEF Joins
  <2>2. <<>> \in Seq({}) /\ Len(<<>>) = 0
    BY EmptySeq
  <2>3. Lists(<<>>, {})
    BY <2>2 DEF Lists, Distinct
  <2> QED BY <2>1, <2>3
<1>4. ASSUME NEW m \in 0..(n - 1), m \in F PROVE m + 1 \in F
  <2>1. m + 1 \in 1..n /\ m + 1 \in 0..n /\ (m + 1) - 1 = m
    OBVIOUS
  <2>2. j[m + 1] = j[m] \o s[m + 1]
    BY <1>2, <2>1 DEF Joins
  <2>3. before(m + 1) = before(m) \cup C[m + 1]
    <3>1. \A k : k \in 1..(m + 1) <=> k \in 1..m \/ k = m + 1
      OBVIOUS
    <3> QED BY <3>1
  <2>4. before(m) \cap C[m + 1] = {}
    <3>1. \A k \in 1..m : k \in 1..n /\ k # m + 1
      OBVIOUS
    <3>2. \A k \in 1..m : C[k] \cap C[m + 1] = {}
      BY <2>1, <3>1
    <3> QED BY <3>2
  <2>5. Lists(j[m], before(m))
    BY <1>4
  <2>6. Lists(j[m] \o s[m + 1], before(m) \cup C[m + 1])
    <3> HIDE DEF before, F
    <3> QED BY <2>1, <2>4, <2>5, ListsJoin
  <2> HIDE DEF before
  <2> QED BY <2>1, <2>2, <2>3, <2>6
<1>5. n \in F
  <2> HIDE DEF F
  <2>1. \A k \in 0..n : k \in F
    BY <1>3, <1>4, InductionUpTo
  <2> QED BY <2>1
<1> QED BY <1>2, <1>5

---------------------------------------------------------------------------
(* Every choice of jobs is met once                                        *)

\* What the planner is given: people whose lists name no job twice.
ArePeople(people) ==
  /\ Len(people) \in Nat /\ DOMAIN people = 1..Len(people)
  /\ \A i \in 1..Len(people) : IsJobList(people[i].jobs)

KnownAt(list) == {e \in DOMAIN list : list[e].job \in Jobs}

\* The entries of a person that compute_parties_stream considers.
Known(list) == {list[e] : e \in KnownAt(list)}

ChoicesUpTo(people, n) ==
  {c \in [1..n -> Entries] : \A i \in 1..n : c[i] \in Known(people[i].jobs)}

LEMMA OptionsAreKnown ==
  ASSUME NEW person, IsJobList(person.jobs)
  PROVE  Lists(Options(person), Known(person.jobs)) /\ Known(person.jobs) \subseteq Entries
<1> DEFINE list == person.jobs
<1>1. /\ list \in Seq(Entries) /\ Len(list) \in Nat /\ DOMAIN list = 1..Len(list)
      /\ \A i \in DOMAIN list : list[i] \in Entries
  <2> HIDE DEF list
  <2> QED BY ListTyped DEF list
<1>2. Distinct(list)
  BY <1>1 DEF IsJobList, Distinct
<1>3. KnownAt(list) \in SUBSET (1..Len(list))
  BY <1>1 DEF KnownAt
<1>4. Options(person) = Picked(list, KnownAt(list))
  BY DEF Options, KnownAt
<1> HIDE DEF list
<1>5. Lists(Picked(list, KnownAt(list)), {list[i] : i \in KnownAt(list)})
  BY <1>1, <1>2, <1>3, PickedIsThere
<1>6. Known(list) \subseteq Entries
  BY <1>1 DEF Known, KnownAt
<1> QED BY <1>4, <1>5, <1>6 DEF Known, list

\* A choice for one more person.
LEMMA ChoiceExtended ==
  ASSUME NEW n \in Nat \ {0}, NEW c \in [1..(n - 1) -> Entries], NEW e \in Entries
  PROVE  Append(c, e) = [i \in 1..n |-> IF i = n THEN e ELSE c[i]]
<1>1. c \in Seq(Entries)
  <2>1. n - 1 \in Nat
    OBVIOUS
  <2> QED BY <2>1, SeqDef
<1>2. Len(c) = n - 1
  <2>1. DOMAIN c = 1..(n - 1) /\ DOMAIN c = 1..Len(c) /\ Len(c) \in Nat /\ n - 1 \in Nat
    BY <1>1, LenProperties
  <2> QED BY <2>1
<1>3. /\ Append(c, e) \in Seq(Entries) /\ Len(Append(c, e)) = n
      /\ \A i \in 1..(n - 1) : Append(c, e)[i] = c[i]
      /\ Append(c, e)[n] = e
  <2>1. (n - 1) + 1 = n
    OBVIOUS
  <2> QED BY <1>1, <1>2, <2>1, AppendProperties
<1> DEFINE a == Append(c, e)
<1> HIDE DEF a
<1>4. a = [i \in 1..n |-> a[i]]
  <2>1. a \in Seq(Entries) /\ Len(a) = n
    BY <1>3 DEF a
  <2>2. a \in [1..Len(a) -> Entries]
    BY <2>1, LenProperties
  <2> QED BY <2>1, <2>2
<1>5. \A i \in 1..n : a[i] = IF i = n THEN e ELSE c[i]
  <2>1. \A i \in 1..n : i = n \/ i \in 1..(n - 1)
    OBVIOUS
  <2>2. \A i \in 1..(n - 1) : i # n
    OBVIOUS
  <2> QED BY <1>3, <2>1, <2>2 DEF a
<1>6. a = [i \in 1..n |-> IF i = n THEN e ELSE c[i]]
  BY <1>4, <1>5
<1> QED BY <1>6 DEF a

\* The choices that go on from c with one of the options.
Onward(c, here) == [o \in DOMAIN here |-> Append(c, here[o])]

\* One level of the search.
Level(earlier, here) == FlattenSeq([k \in DOMAIN earlier |-> Onward(earlier[k], here)])

LEMMA LevelTyped ==
  ASSUME NEW l \in Seq(Seq(Entries)), NEW here \in Seq(Entries)
  PROVE  Level(l, here) \in Seq(Seq(Entries))
<1> DEFINE A == Seq(Entries)
           n == Len(l)
           s == [k \in DOMAIN l |-> Onward(l[k], here)]
<1>1. n \in Nat /\ DOMAIN l = 1..n /\ \A k \in 1..n : l[k] \in A
  BY LenProperties, ElementOfSeq
<1>2. ASSUME NEW k \in 1..n PROVE Onward(l[k], here) \in Seq(A)
  <2>1. Len(here) \in Nat /\ DOMAIN here = 1..Len(here) /\ \A o \in 1..Len(here) : here[o] \in Entries
    BY LenProperties, ElementOfSeq
  <2>2. \A o \in 1..Len(here) : Append(l[k], here[o]) \in A
    BY <1>1, <2>1, AppendProperties
  <2>3. Onward(l[k], here) \in [1..Len(here) -> A]
    BY <2>1, <2>2 DEF Onward
  <2> HIDE DEF A
  <2> QED BY <2>1, <2>3, SeqDef
<1>3. s \in [1..n -> Seq(A)]
  BY <1>1, <1>2
<1> HIDE DEF A, s, n
<1>4. PICK j : Joins(A, n, s, j) /\ FlattenSeq(s) = j[n]
  BY <1>1, <1>3, FlattenJoins
<1>5. j[n] \in Seq(A)
  BY <1>1, <1>4 DEF Joins
<1> QED BY <1>4, <1>5 DEF Level, A, s

\* A level of the search lists the choices for one more person.
LEMMA LevelLists ==
  ASSUME NEW people, ArePeople(people), NEW n \in 1..Len(people), NEW l, Lists(l, ChoicesUpTo(people, n - 1))
  PROVE  Lists(Level(l, Options(people[n])), ChoicesUpTo(people, n))
<1> DEFINE here == Options(people[n])
           E == Known(people[n].jobs)
           B == ChoicesUpTo(people, n - 1)
           m == Len(l)
           s == [k \in DOMAIN l |-> Onward(l[k], here)]
           C == [k \in 1..m |-> {Append(l[k], e) : e \in E}]
<1>1. n \in Nat \ {0} /\ IsJobList(people[n].jobs)
  BY DEF ArePeople
<1>2. Lists(here, E) /\ E \subseteq Entries
  BY <1>1, OptionsAreKnown
<1>3. /\ m \in Nat /\ DOMAIN l = 1..m /\ \A k \in 1..m : l[k] \in B
      /\ \A k, i \in 1..m : l[k] = l[i] => i = k
      /\ \A c \in B : \E k \in 1..m : l[k] = c
  <2>1. m \in Nat /\ DOMAIN l = 1..m /\ \A k \in 1..m : l[k] \in B
    BY ListCounts
  <2> QED BY <2>1 DEF Lists, Distinct
<1>4. \A c : c \in B <=> c \in [1..(n - 1) -> Entries] /\ \A i \in 1..(n - 1) : c[i] \in Known(people[i].jobs)
  BY DEF ChoicesUpTo
<1>5. /\ Len(here) \in Nat /\ DOMAIN here = 1..Len(here) /\ \A o \in 1..Len(here) : here[o] \in E
      /\ \A o, i \in 1..Len(here) : here[o] = here[i] => o = i
      /\ \A e \in E : \E o \in 1..Len(here) : here[o] = e
  <2> HIDE DEF here, E
  <2>1. Len(here) \in Nat /\ DOMAIN here = 1..Len(here) /\ \A o \in 1..Len(here) : here[o] \in E
    BY <1>2, ListCounts
  <2> QED BY <1>2, <2>1 DEF Lists, Distinct
<1> HIDE DEF here, E, B
<1>6. \A c \in B, e \in E : Append(c, e) = [i \in 1..n |-> IF i = n THEN e ELSE c[i]]
  BY <1>1, <1>2, <1>4, ChoiceExtended
<1>7. \A c, d \in B, e, f \in E : Append(c, e) = Append(d, f) => c = d /\ e = f
  <2> SUFFICES ASSUME NEW c \in B, NEW d \in B, NEW e \in E, NEW f \in E, Append(c, e) = Append(d, f)
               PROVE  c = d /\ e = f
    OBVIOUS
  <2> DEFINE a == Append(c, e)
             b == Append(d, f)
  <2>1. a = [i \in 1..n |-> IF i = n THEN e ELSE c[i]] /\ b = [i \in 1..n |-> IF i = n THEN f ELSE d[i]]
    BY <1>6
  <2>2. n \in 1..n /\ \A i \in 1..(n - 1) : i \in 1..n /\ i # n
    BY <1>1
  <2>3. a[n] = e /\ b[n] = f /\ \A i \in 1..(n - 1) : a[i] = c[i] /\ b[i] = d[i]
    <3> HIDE DEF a, b
    <3> QED BY <2>1, <2>2
  <2>4. e = f /\ \A i \in 1..(n - 1) : c[i] = d[i]
    BY <2>3
  <2>5. c \in [1..(n - 1) -> Entries] /\ d \in [1..(n - 1) -> Entries]
    BY <1>4
  <2> QED BY <2>4, <2>5
<1>8. ASSUME NEW k \in 1..m PROVE Lists(s[k], C[k])
  <2> DEFINE b == Onward(l[k], here)
             D == {Append(l[k], e) : e \in E}
             h == Len(here)
  <2>1. s[k] = b /\ C[k] = D
    BY <1>3
  <2>2. b = [o \in 1..h |-> Append(l[k], here[o])]
    BY <1>5 DEF Onward
  <2>3. \A o \in 1..h : b[o] = Append(l[k], here[o]) /\ b[o] \in D
    BY <1>5, <2>2
  <2>4. b \in Seq(D) /\ Len(b) = h
    <3>1. b \in [1..h -> D]
      BY <2>2, <2>3
    <3> HIDE DEF b, D
    <3>2. b \in Seq(D)
      BY <1>5, <3>1, SeqDef
    <3> QED BY <1>5, <3>1, <3>2, LenProperties
  <2>5. \A o, i \in 1..h : b[o] = b[i] => o = i
    <3> SUFFICES ASSUME NEW o \in 1..h, NEW i \in 1..h, b[o] = b[i] PROVE o = i
      OBVIOUS
    <3>1. l[k] \in B /\ here[o] \in E /\ here[i] \in E
      BY <1>3, <1>5
    <3>2. b[o] = Append(l[k], here[o]) /\ b[i] = Append(l[k], here[i])
      BY <2>3
    <3> HIDE DEF b, D
    <3>3. Append(l[k], here[o]) = Append(l[k], here[i])
      BY <3>2
    <3>4. here[o] = here[i]
      BY <1>7, <3>1, <3>3
    <3> QED BY <1>5, <3>4
  <2>6. ASSUME NEW x \in D PROVE \E o \in 1..h : b[o] = x
    <3>1. PICK e \in E : x = Append(l[k], e)
      OBVIOUS
    <3>2. PICK o \in 1..h : here[o] = e
      BY <1>5
    <3> HIDE DEF b, D
    <3>3. b[o] = x
      BY <2>3, <3>1, <3>2
    <3> QED BY <3>3
  <2> HIDE DEF b, D
  <2>7. Lists(b, D)
    BY <2>4, <2>5, <2>6 DEF Lists, Distinct
  <2> HIDE DEF s, C
  <2> QED BY <2>1, <2>7
<1>9. \A i, k \in 1..m : i # k => C[i] \cap C[k] = {}
  <2> SUFFICES ASSUME NEW i \in 1..m, NEW k \in 1..m, i # k, NEW x \in C[i], x \in C[k] PROVE FALSE
    OBVIOUS
  <2>1. PICK e \in E : x = Append(l[i], e)
    OBVIOUS
  <2>2. PICK f \in E : x = Append(l[k], f)
    OBVIOUS
  <2>3. l[i] = l[k]
    BY <1>3, <1>7, <2>1, <2>2
  <2> QED BY <1>3, <2>3
<1>10. UNION {C[k] : k \in 1..m} = ChoicesUpTo(people, n)
  <2>1. ASSUME NEW k \in 1..m, NEW e \in E PROVE Append(l[k], e) \in ChoicesUpTo(people, n)
    <3> DEFINE a == Append(l[k], e)
               c == l[k]
    <3>1. c \in B
      BY <1>3
    <3> HIDE DEF c
    <3>2. a = [i \in 1..n |-> IF i = n THEN e ELSE c[i]]
      BY <1>6, <3>1 DEF c
    <3>3. \A i \in 1..n : i = n \/ i \in 1..(n - 1)
      BY <1>1
    <3>4. \A i \in 1..(n - 1) : c[i] \in Entries /\ c[i] \in Known(people[i].jobs)
      BY <1>4, <3>1
    <3>5. e \in Entries /\ e \in Known(people[n].jobs)
      BY <1>2 DEF E
    <3> HIDE DEF a
    <3>6. \A i \in 1..n : a[i] \in Entries /\ a[i] \in Known(people[i].jobs)
      BY <3>2, <3>3, <3>4, <3>5
    <3>7. a \in [1..n -> Entries]
      BY <3>2, <3>6
    <3> QED BY <3>6, <3>7 DEF ChoicesUpTo, a
  <2>2. ASSUME NEW d \in ChoicesUpTo(people, n) PROVE \E k \in 1..m : d \in C[k]
    <3> DEFINE c == [i \in 1..(n - 1) |-> d[i]]
    <3>1. d \in [1..n -> Entries] /\ \A i \in 1..n : d[i] \in Known(people[i].jobs)
      BY DEF ChoicesUpTo
    <3>2. n \in 1..n /\ \A i \in 1..(n - 1) : i \in 1..n /\ i # n
      BY <1>1
    <3>3. c \in B
      BY <1>4, <3>1, <3>2
    <3>4. PICK k \in 1..m : l[k] = c
      BY <1>3, <3>3
    <3>5. d[n] \in E
      BY <3>1, <3>2 DEF E
    <3>6. Append(c, d[n]) = d
      <4>1. Append(c, d[n]) = [i \in 1..n |-> IF i = n THEN d[n] ELSE c[i]]
        <5> HIDE DEF c
        <5> QED BY <1>6, <3>3, <3>5
      <4>2. \A i \in 1..n : i # n => i \in 1..(n - 1)
        BY <1>1
      <4>3. \A i \in 1..n : d[i] = IF i = n THEN d[n] ELSE c[i]
        BY <4>2
      <4>4. d = [i \in 1..n |-> d[i]]
        BY <3>1
      <4> HIDE DEF c
      <4> QED BY <4>1, <4>3, <4>4
    <3> HIDE DEF c
    <3>7. d \in C[k]
      BY <3>4, <3>5, <3>6
    <3> QED BY <3>7
  <2>3. \A k \in 1..m : C[k] \subseteq ChoicesUpTo(people, n)
    BY <2>1
  <2> HIDE DEF C
  <2> QED BY <2>2, <2>3
<1>11. s = [k \in 1..m |-> s[k]]
  BY <1>3
<1> HIDE DEF s, C
<1>12. Lists(FlattenSeq(s), UNION {C[k] : k \in 1..m})
  BY <1>3, <1>8, <1>9, <1>11, FlattenLists
<1> QED BY <1>10, <1>12 DEF Level, s, here

LEMMA SearchIsComplete ==
  ASSUME NEW people, ArePeople(people)
  PROVE  Lists(AllChoices(people), ChoicesUpTo(people, Len(people)))
<1> DEFINE n == Len(people)
           S == Seq(Seq(Entries))
           more(u, i) == Level(u, Options(people[i]))
           step == [q \in S \X (1..n) |-> more(q[1], q[2])]
           Loop(g) == g = [i \in 0..n |-> IF i = 0 THEN << <<>> >> ELSE more(g[i - 1], i)]
           upto == CHOOSE g : Loop(g)
<1>1. n \in Nat
  BY DEF ArePeople
<1>2. << <<>> >> \in S
  <2>1. <<>> \in Seq(Entries)
    BY EmptySeq
  <2> QED BY <2>1
<1>3. ASSUME NEW u \in S, NEW i \in 1..n PROVE more(u, i) \in S
  <2>1. IsJobList(people[i].jobs)
    BY DEF ArePeople
  <2>2. Lists(Options(people[i]), Known(people[i].jobs)) /\ Known(people[i].jobs) \subseteq Entries
    BY <2>1, OptionsAreKnown
  <2>3. Options(people[i]) \in Seq(Entries)
    BY <2>2, SeqMonotonic DEF Lists
  <2> QED BY <2>3, LevelTyped
<1>4. \A u \in S, i \in 1..n : step[<<u, i>>] = more(u, i)
  OBVIOUS
<1> HIDE DEF S, step
<1>5. \A u \in S, i \in 1..n : step[<<u, i>>] \in S
  BY <1>3, <1>4
<1>6. PICK g \in [0..n -> S] : Runs(n, << <<>> >>, step, g)
  BY <1>1, <1>2, <1>5, RunsExist
<1>7. Loop(g)
  <2> HIDE DEF more
  <2>1. \A i \in 0..n : i # 0 => g[i - 1] \in S /\ i \in 1..n
    BY <1>1
  <2>2. \A i \in 0..n : i # 0 => step[<<g[i - 1], i>>] = more(g[i - 1], i)
    BY <1>4, <2>1
  <2>3. g = [i \in 0..n |-> IF i = 0 THEN << <<>> >> ELSE step[<<g[i - 1], i>>]]
    BY <1>6 DEF Runs
  <2>4. [i \in 0..n |-> IF i = 0 THEN << <<>> >> ELSE step[<<g[i - 1], i>>]]
          = [i \in 0..n |-> IF i = 0 THEN << <<>> >> ELSE more(g[i - 1], i)]
    BY <2>2
  <2> QED BY <2>3, <2>4
<1>8. Loop(upto)
  <2> HIDE DEF Loop
  <2> QED BY <1>7
<1>9. AllChoices(people) = upto[n]
  BY DEF AllChoices, Level, Onward
<1>10. \A i \in 0..n : upto[i] = IF i = 0 THEN << <<>> >> ELSE more(upto[i - 1], i)
  <2> HIDE DEF upto, more
  <2> QED BY <1>8
<1> DEFINE F == {k \in 0..n : Lists(upto[k], ChoicesUpTo(people, k))}
<1> HIDE DEF upto, Loop
<1>11. 0 \in F
  <2>1. upto[0] = << <<>> >>
    BY <1>1, <1>10
  <2>2. ChoicesUpTo(people, 0) = {<<>>}
    <3>1. [1..0 -> Entries] = {<<>>}
      <4>1. <<>> \in Seq(Entries) /\ Len(<<>>) = 0
        BY EmptySeq
      <4>2. <<>> \in [1..0 -> Entries]
        BY <4>1, LenProperties
      <4>3. ASSUME NEW c \in [1..0 -> Entries] PROVE c = <<>>
        <5>1. DOMAIN c = DOMAIN <<>> /\ DOMAIN c = {}
          BY <4>2
        <5> QED BY <4>2, <5>1
      <4> QED BY <4>2, <4>3
    <3>2. \A i \in 1..0 : FALSE
      OBVIOUS
    <3> QED BY <3>1, <3>2 DEF ChoicesUpTo
  <2>3. << <<>> >> \in Seq({<<>>}) /\ Len(<< <<>> >>) = 1 /\ << <<>> >>[1] = <<>>
    OBVIOUS
  <2>4. Lists(<< <<>> >>, {<<>>})
    BY <2>3 DEF Lists, Distinct
  <2>5. Lists(upto[0], ChoicesUpTo(people, 0))
    BY <2>1, <2>2, <2>4
  <2> QED BY <1>1, <2>5
<1>12. ASSUME NEW k \in 0..(n - 1), k \in F PROVE k + 1 \in F
  <2>1. k + 1 \in 1..n /\ k + 1 \in 0..n /\ (k + 1) - 1 = k /\ k + 1 # 0
    BY <1>1
  <2>2. upto[k + 1] = more(upto[k], k + 1)
    <3> HIDE DEF F, more
    <3> QED BY <1>10, <2>1
  <2>3. Lists(upto[k], ChoicesUpTo(people, (k + 1) - 1))
    BY <1>12, <2>1
  <2>4. Lists(more(upto[k], k + 1), ChoicesUpTo(people, k + 1))
    BY <2>1, <2>3, LevelLists
  <2> HIDE DEF more
  <2> QED BY <2>1, <2>2, <2>4
<1>13. n \in F
  <2> HIDE DEF F
  <2>1. n \in 0..n
    BY <1>1
  <2> QED BY <1>1, <1>11, <1>12, <2>1, InductionUpTo
<1> QED BY <1>9, <1>13

---------------------------------------------------------------------------
(* What is allowed is what is valid                                        *)

\* Every way to give each person one of their known entries.
Ways(people) ==
  {f \in [DOMAIN people -> Nat] : \A i \in DOMAIN people : f[i] \in KnownAt(people[i].jobs)}

\* The choice that gives everybody the entry at that place of their list.
Taken(people, f) == [i \in DOMAIN people |-> people[i].jobs[f[i]]]

Takers(people, f, known) == {i \in DOMAIN people : people[i].jobs[f[i]].job \in known}

\* The conditions of Allowed.
Suits(people, s, f) ==
  /\ s.std_comp => <<2, 2, 4>> = <<Cardinality(Takers(people, f, Tanks)),
                                   Cardinality(Takers(people, f, Healers)),
                                   Cardinality(Takers(people, f, Dps))>>
  /\ s.no_dupes => \A i, j \in DOMAIN people :
                     i # j => people[i].jobs[f[i]].job # people[j].jobs[f[j]].job
  /\ s.heal_mix => Cardinality(Takers(people, f, Pure)) = 1 /\ Cardinality(Takers(people, f, Shield)) = 1
  /\ ~ \E group \in s.exclusions :
         group # {} /\ group \subseteq {people[i].jobs[f[i]].job : i \in DOMAIN people}
  /\ Cardinality(Takers(people, f, Melee)) \in s.melee
  /\ Cardinality(Takers(people, f, Pranged)) \in s.pranged
  /\ Cardinality(Takers(people, f, Caster)) \in s.caster
  /\ Cardinality(Takers(people, f, Selfish)) \in s.selfish
  /\ Cardinality(Takers(people, f, Dps) \ Takers(people, f, Selfish)) \in s.utility

LEMMA TakenTyped ==
  ASSUME NEW people, ArePeople(people), NEW f \in Ways(people)
  PROVE  /\ Taken(people, f) \in ChoicesUpTo(people, Len(people))
         /\ Len(Taken(people, f)) = Len(people)
         /\ DOMAIN Taken(people, f) = 1..Len(people)
         /\ \A i \in 1..Len(people) : Taken(people, f)[i] = people[i].jobs[f[i]]
<1> DEFINE n == Len(people)
           c == Taken(people, f)
<1>1. n \in Nat /\ DOMAIN people = 1..n
  BY DEF ArePeople
<1>2. c = [i \in 1..n |-> people[i].jobs[f[i]]]
  BY <1>1 DEF Taken
<1>3. ASSUME NEW i \in 1..n PROVE c[i] \in Entries /\ c[i] \in Known(people[i].jobs)
  <2>1. IsJobList(people[i].jobs) /\ f[i] \in KnownAt(people[i].jobs)
    BY <1>1 DEF ArePeople, Ways
  <2>2. people[i].jobs[f[i]] \in Known(people[i].jobs)
    BY <2>1 DEF Known
  <2>3. Known(people[i].jobs) \subseteq Entries
    BY <2>1, OptionsAreKnown
  <2>4. c[i] = people[i].jobs[f[i]]
    BY <1>2
  <2> QED BY <2>2, <2>3, <2>4
<1> HIDE DEF c
<1>4. c \in [1..n -> Entries]
  BY <1>2, <1>3
<1>5. c \in Seq(Entries) /\ Len(c) = n
  <2>1. c \in Seq(Entries)
    BY <1>1, <1>4, SeqDef
  <2>2. DOMAIN c = 1..n /\ DOMAIN c = 1..Len(c) /\ Len(c) \in Nat
    BY <1>4, <2>1, LenProperties
  <2> QED BY <1>1, <2>1, <2>2
<1>6. c \in ChoicesUpTo(people, n)
  BY <1>3, <1>4 DEF ChoicesUpTo
<1> QED BY <1>2, <1>5, <1>6 DEF c

\* Each choice is taken in exactly one way.
LEMMA WaysAreChoices ==
  ASSUME NEW people, ArePeople(people)
  PROVE  /\ {Taken(people, f) : f \in Ways(people)} = ChoicesUpTo(people, Len(people))
         /\ \A f, g \in Ways(people) : Taken(people, f) = Taken(people, g) => f = g
<1> DEFINE n == Len(people)
<1>1. n \in Nat /\ DOMAIN people = 1..n /\ \A i \in 1..n : IsJobList(people[i].jobs)
  BY DEF ArePeople
<1>2. \A i \in 1..n : DOMAIN people[i].jobs \subseteq Nat
  <2>1. ASSUME NEW i \in 1..n PROVE DOMAIN people[i].jobs \subseteq Nat
    <3>1. IsJobList(people[i].jobs)
      BY <1>1
    <3> DEFINE list == people[i].jobs
    <3> HIDE DEF list
    <3>2. DOMAIN list = 1..Len(list) /\ Len(list) \in Nat
      BY <3>1, ListTyped DEF list
    <3>3. DOMAIN list \subseteq Nat
      BY <3>2
    <3> QED BY <3>3 DEF list
  <2> QED BY <2>1
<1>3. ASSUME NEW c \in ChoicesUpTo(people, n) PROVE \E f \in Ways(people) : Taken(people, f) = c
  <2> DEFINE f == [i \in 1..n |-> CHOOSE e \in KnownAt(people[i].jobs) : people[i].jobs[e] = c[i]]
  <2>1. c \in [1..n -> Entries] /\ \A i \in 1..n : c[i] \in Known(people[i].jobs)
    BY DEF ChoicesUpTo
  <2>2. ASSUME NEW i \in 1..n
        PROVE  f[i] \in KnownAt(people[i].jobs) /\ people[i].jobs[f[i]] = c[i]
    <3>1. \E e \in KnownAt(people[i].jobs) : people[i].jobs[e] = c[i]
      BY <2>1 DEF Known
    <3>2. f[i] = CHOOSE e \in KnownAt(people[i].jobs) : people[i].jobs[e] = c[i]
      OBVIOUS
    <3> HIDE DEF f
    <3> QED BY <3>1, <3>2
  <2>3. f = [i \in 1..n |-> f[i]]
    OBVIOUS
  <2> HIDE DEF f
  <2>4. \A i \in 1..n : f[i] \in Nat
    BY <1>2, <2>2 DEF KnownAt
  <2>5. f \in Ways(people)
    BY <1>1, <2>2, <2>3, <2>4 DEF Ways
  <2>6. Taken(people, f) = [i \in 1..n |-> c[i]]
    BY <1>1, <2>2 DEF Taken
  <2>7. Taken(people, f) = c
    BY <2>1, <2>6
  <2> QED BY <2>5, <2>7
<1>4. ASSUME NEW f \in Ways(people), NEW g \in Ways(people), Taken(people, f) = Taken(people, g)
      PROVE  f = g
  <2>1. f \in [1..n -> Nat] /\ g \in [1..n -> Nat]
        /\ \A i \in 1..n : f[i] \in KnownAt(people[i].jobs) /\ g[i] \in KnownAt(people[i].jobs)
    BY <1>1 DEF Ways
  <2>2. ASSUME NEW i \in 1..n PROVE f[i] = g[i]
    <3>1. people[i].jobs[f[i]] = people[i].jobs[g[i]]
      BY <1>4, TakenTyped
    <3>2. f[i] \in DOMAIN people[i].jobs /\ g[i] \in DOMAIN people[i].jobs
      BY <2>1 DEF KnownAt
    <3> QED BY <1>1, <3>1, <3>2 DEF IsJobList
  <2> QED BY <2>1, <2>2
<1>5. \A f \in Ways(people) : Taken(people, f) \in ChoicesUpTo(people, n)
  BY TakenTyped
<1> QED BY <1>3, <1>4, <1>5

\* What the constraints ask of a choice is what Allowed asks of who takes what.
LEMMA SuitsIsValid ==
  ASSUME NEW people, ArePeople(people), NEW s, NEW f \in Ways(people)
  PROVE  Suits(people, s, f) <=> Valid(s, Taken(people, f))
<1> DEFINE n == Len(people)
           c == Taken(people, f)
<1>1. n \in Nat /\ DOMAIN people = 1..n
  BY DEF ArePeople
<1>2. Len(c) = n /\ DOMAIN c = 1..n /\ \A i \in 1..n : c[i] = people[i].jobs[f[i]]
  BY TakenTyped
<1> HIDE DEF c
<1>3. \A known : {i \in DOMAIN c : c[i].job \in known} = Takers(people, f, known)
  BY <1>1, <1>2 DEF Takers
<1>4. \A known : CountIn(c, known) = Cardinality(Takers(people, f, known))
  BY <1>3 DEF CountIn
<1>5. JobsOf(c) = {people[i].jobs[f[i]].job : i \in DOMAIN people}
  BY <1>1, <1>2 DEF JobsOf
<1>6. Takers(people, f, Dps \ Selfish) = Takers(people, f, Dps) \ Takers(people, f, Selfish)
  BY DEF Takers
<1>7. Cardinality(JobsOf(c)) = Len(c)
        <=> \A i, j \in DOMAIN people : i # j => people[i].jobs[f[i]].job # people[j].jobs[f[j]].job
  <2> DEFINE I == 1..n
             job == [i \in I |-> c[i].job]
             T == {job[i] : i \in I}
  <2>1. IsFiniteSet(I) /\ Cardinality(I) = n
    <3> HIDE DEF n
    <3> QED BY <1>1, FS_Interval
  <2>2. job = [i \in I |-> job[i]]
    OBVIOUS
  <2>3. Cardinality(T) = Cardinality(I) <=> \A x, y \in I : job[x] = job[y] => x = y
    <3> HIDE DEF job, I
    <3> QED BY <2>1, <2>2, ImageCounts
  <2>4. T = JobsOf(c)
    BY <1>2 DEF JobsOf
  <2>5. \A x, y \in I : job[x] = job[y] <=> people[x].jobs[f[x]].job = people[y].jobs[f[y]].job
    BY <1>2
  <2> HIDE DEF T, job
  <2> QED BY <1>1, <1>2, <2>1, <2>3, <2>4, <2>5
<1>8. (CountIn(c, Tanks) = 2 /\ CountIn(c, Healers) = 2 /\ CountIn(c, Dps) = 4)
        <=> <<2, 2, 4>> = <<Cardinality(Takers(people, f, Tanks)),
                            Cardinality(Takers(people, f, Healers)),
                            Cardinality(Takers(people, f, Dps))>>
  BY <1>4
<1>9. Suits(people, s, f) <=> Valid(s, c)
  BY <1>4, <1>5, <1>6, <1>7, <1>8 DEF Suits, Valid
<1> QED BY <1>9 DEF c

LEMMA AllowedIsValid ==
  ASSUME NEW people, ArePeople(people), NEW s
  PROVE  Allowed(people, s) = {f \in Ways(people) : Valid(s, Taken(people, f))}
<1> DEFINE ids == DOMAIN people
           torn == {i \in ids : Len(people[i].jobs) > 1}
           picks == [torn -> UNION {DOMAIN people[i].jobs : i \in torn}]
           tried == {[i \in ids |-> IF i \in torn THEN g[i] ELSE 1] : g \in picks}
           ways == {f \in tried : \A i \in ids : f[i] \in DOMAIN people[i].jobs
                                                 /\ people[i].jobs[f[i]].job \in Jobs}
<1>1. Allowed(people, s) = {f \in ways : Suits(people, s, f)}
  BY DEF Allowed, Suits, Takers
<1>2. \A i \in ids : /\ Len(people[i].jobs) \in Nat
                     /\ DOMAIN people[i].jobs = 1..Len(people[i].jobs)
  <2>1. ASSUME NEW i \in ids
        PROVE  Len(people[i].jobs) \in Nat /\ DOMAIN people[i].jobs = 1..Len(people[i].jobs)
    <3>1. IsJobList(people[i].jobs)
      BY DEF ArePeople
    <3> DEFINE list == people[i].jobs
    <3> HIDE DEF list
    <3>2. DOMAIN list = 1..Len(list) /\ Len(list) \in Nat
      BY <3>1, ListTyped DEF list
    <3> QED BY <3>2 DEF list
  <2> QED BY <2>1
<1>3. ASSUME NEW f \in ways PROVE f \in Ways(people)
  <2>1. f = [i \in ids |-> f[i]] /\ \A i \in ids : f[i] \in KnownAt(people[i].jobs)
    BY DEF KnownAt
  <2>2. \A i \in ids : f[i] \in Nat
    <3>1. \A i \in ids : f[i] \in 1..Len(people[i].jobs)
      BY <1>2, <2>1 DEF KnownAt
    <3> QED BY <3>1
  <2> QED BY <2>1, <2>2 DEF Ways
<1>4. ASSUME NEW f \in Ways(people) PROVE f \in ways
  <2>1. f = [i \in ids |-> f[i]]
    BY DEF Ways
  <2>2. \A i \in ids : f[i] \in DOMAIN people[i].jobs /\ people[i].jobs[f[i]].job \in Jobs
    BY DEF Ways, KnownAt
  <2> DEFINE g == [i \in torn |-> f[i]]
  <2>3. g \in picks
    BY <2>2
  <2>4. ASSUME NEW i \in ids, i \notin torn PROVE f[i] = 1
    <3>1. f[i] \in 1..Len(people[i].jobs) /\ Len(people[i].jobs) \in Nat /\ ~ (Len(people[i].jobs) > 1)
      BY <1>2, <2>2, <2>4
    <3> QED BY <3>1
  <2>5. f = [i \in ids |-> IF i \in torn THEN g[i] ELSE 1]
    BY <2>1, <2>4
  <2> HIDE DEF g, picks
  <2>6. f \in tried
    BY <2>3, <2>5
  <2> QED BY <2>2, <2>6
<1> HIDE DEF ways
<1>5. ways = Ways(people)
  BY <1>3, <1>4
<1> QED BY <1>1, <1>5, SuitsIsValid

---------------------------------------------------------------------------
(* The best of a group, and the order in which they are shown              *)

LEMMA ScoreIsNat ==
  ASSUME NEW people, NEW n \in Nat, NEW c \in ChoicesUpTo(people, n)
  PROVE  Score(c) \in Nat
<1> DEFINE f == [i \in DOMAIN c |-> c[i].priority]
<1>1. DOMAIN c = 1..n /\ \A i \in 1..n : c[i].priority \in Nat
  BY DEF ChoicesUpTo, Entries
<1>2. DOMAIN f = 1..n /\ \A i \in 1..n : f[i] \in Nat
  BY <1>1
<1>3. IsFiniteSet(1..n)
  BY FS_Interval
<1>4. Score(c) = SumFunctionOnSet(f, DOMAIN f)
  BY DEF Score, SumFunction
<1> HIDE DEF f
<1> DEFINE S == 1..n
<1> HIDE DEF S
<1>5. SumFunctionOnSet(f, S) \in Nat
  BY <1>2, <1>3, SumIsNat DEF S
<1> QED BY <1>2, <1>4, <1>5 DEF S

\* No member of a list is better than what max() finds in it.
LEMMA BestIsBest ==
  ASSUME NEW D, \A c \in D : Score(c) \in Nat, NEW list, Lists(list, D), D # {}
  PROVE  BestOf(list) \in D /\ \A c \in D : Score(c) <= Score(BestOf(list))
<1> DEFINE m == Len(list)
           I == 1..m
           score == [k \in DOMAIN list |-> Score(list[k])]
           values == {score[k] : k \in I}
           top == Max(values)
           tops == {k \in I : score[k] = top}
           first == Min(tops)
           IsBest(k) == /\ \A j \in DOMAIN list : score[j] <= score[k]
                        /\ \A j \in 1..(k - 1) : score[j] < score[k]
<1>1. m \in Nat /\ DOMAIN list = I /\ \A k \in I : list[k] \in D
  BY ListCounts
<1>2. \A c \in D : \E k \in I : list[k] = c
  BY DEF Lists
<1>3. score = [k \in I |-> score[k]] /\ \A k \in I : score[k] \in Nat /\ score[k] = Score(list[k])
  BY <1>1
<1>4. IsFiniteSet(I)
  <2> HIDE DEF m
  <2> QED BY <1>1, FS_Interval
<1> HIDE DEF score, I
<1>5. top \in values /\ \A x \in values : x <= top
  <2>1. IsFiniteSet(values)
    BY <1>3, <1>4, FiniteImage
  <2>2. values \in SUBSET Nat /\ values # {}
    BY <1>2, <1>3
  <2> HIDE DEF values
  <2> QED BY <2>1, <2>2, MaxIsLargest
<1>6. top \in Nat /\ \A k \in I : score[k] <= top
  BY <1>3, <1>5
<1>7. first \in tops /\ \A k \in tops : first <= k
  <2>1. tops \in SUBSET Nat /\ tops # {}
    <3>1. \A k \in I : k \in Nat
      BY DEF I
    <3> HIDE DEF top
    <3> QED BY <1>5, <3>1
  <2> HIDE DEF tops
  <2> QED BY <2>1, MinIsLeast
<1> HIDE DEF top, first, values
<1>8. first \in I /\ first \in Nat /\ score[first] = top
  BY <1>7 DEF I
<1>9. \A j \in 1..(first - 1) : score[j] < score[first]
  <2> SUFFICES ASSUME NEW j \in 1..(first - 1) PROVE score[j] < score[first]
    OBVIOUS
  <2>1. j \in I /\ j \in Nat /\ ~ (first <= j)
    BY <1>1, <1>8 DEF I
  <2>2. score[j] # top
    BY <1>7, <2>1
  <2>3. score[j] <= top /\ score[j] \in Nat
    BY <1>3, <1>6, <2>1
  <2> QED BY <1>6, <1>8, <2>2, <2>3
<1>10. \E k \in DOMAIN list : IsBest(k)
  BY <1>1, <1>6, <1>8, <1>9
<1> DEFINE best == CHOOSE k \in DOMAIN list : IsBest(k)
<1>11. best \in DOMAIN list /\ IsBest(best)
  <2> HIDE DEF IsBest
  <2> QED BY <1>10
<1>12. BestOf(list) = list[best]
  BY DEF BestOf, score
<1> HIDE DEF best
<1>13. ASSUME NEW c \in D PROVE Score(c) <= Score(list[best])
  <2>1. PICK k \in I : list[k] = c
    BY <1>2
  <2>2. score[k] <= score[best]
    BY <1>1, <1>11
  <2> QED BY <1>1, <1>3, <1>11, <2>1, <2>2
<1> QED BY <1>1, <1>11, <1>12, <1>13

\* Higher scores first, and of equal ones the earlier.
LEMMA ScoresOrder ==
  ASSUME NEW m \in Nat, NEW score \in [1..m -> Int], NEW R,
         \A i, j \in 1..m : <<i, j>> \in R <=> score[i] > score[j] \/ (score[i] = score[j] /\ i < j)
  PROVE  Orders(R, 1..m)
<1>1. \A i \in 1..m : score[i] \in Int /\ i \in Int
  OBVIOUS
<1>2. ASSUME NEW x \in 1..m, NEW y \in 1..m, <<x, y>> \in R PROVE <<y, x>> \notin R
  BY <1>1, <1>2
<1>3. ASSUME NEW x \in 1..m, NEW y \in 1..m, NEW z \in 1..m, <<x, y>> \in R, <<y, z>> \in R
      PROVE  <<x, z>> \in R
  BY <1>1, <1>3
<1>4. ASSUME NEW x \in 1..m, NEW y \in 1..m, x # y PROVE <<x, y>> \in R \/ <<y, x>> \in R
  BY <1>1, <1>4
<1> QED BY <1>2, <1>3, <1>4 DEF Orders

\* A list of m choices that have a score.
AreScored(list, m) ==
  list = [k \in 1..m |-> list[k]] /\ \A k \in 1..m : Score(list[k]) \in Nat

\* What is shown is what was given, the better first.
LEMMA SortedByScore ==
  ASSUME NEW m \in Nat, NEW list, AreScored(list, m)
  PROVE  /\ DOMAIN ByScore(list) = 1..m /\ Len(ByScore(list)) = m
         /\ \A k \in 1..m : \E i \in 1..m : ByScore(list)[k] = list[i]
         /\ \A i \in 1..m : \E k \in 1..m : ByScore(list)[k] = list[i]
         /\ \A k \in 2..m : Score(ByScore(list)[k]) <= Score(ByScore(list)[k - 1])
<1> DEFINE S == 1..m
           score == [k \in DOMAIN list |-> Score(list[k])]
           ahead(i, j) == score[i] > score[j] \/ (score[i] = score[j] /\ i < j)
           rank(k) == Cardinality({j \in DOMAIN list : ahead(j, k)})
           order == [n \in DOMAIN list |-> CHOOSE k \in DOMAIN list : rank(k) = n - 1]
           R == {q \in S \X S : ahead(q[1], q[2])}
           sorted == [n \in DOMAIN list |-> list[order[n]]]
<1>1. DOMAIN list = S
  BY DEF AreScored
<1>2. IsFiniteSet(S) /\ Cardinality(S) = m
  BY FS_Interval
<1>3. ByScore(list) = sorted
  BY DEF ByScore
<1>4. \A k \in S : score[k] = Score(list[k]) /\ score[k] \in Nat
  BY <1>1 DEF AreScored
<1>5. score \in [S -> Int]
  BY <1>1, <1>4
<1> HIDE DEF score
<1>6. \A i, j \in S : <<i, j>> \in R <=> ahead(i, j)
  OBVIOUS
<1>7. \A k \in S : rank(k) = RankIn(R, S, k)
  <2>1. ASSUME NEW k \in S PROVE {j \in DOMAIN list : ahead(j, k)} = {j \in S : <<j, k>> \in R}
    BY <1>1
  <2> HIDE DEF R, ahead
  <2> QED BY <2>1 DEF RankIn
<1>8. Orders(R, S)
  <2> HIDE DEF R, rank, order, sorted
  <2> QED BY <1>5, <1>6, ScoresOrder
<1> HIDE DEF R
<1>9. PutsByRank(S, R, order)
  <2>1. order = [i \in 1..Cardinality(S) |-> order[i]]
    <3> HIDE DEF rank
    <3> QED BY <1>1, <1>2
  <2>2. ASSUME NEW i \in S, \E x \in S : RankIn(R, S, x) = i - 1
        PROVE  order[i] \in S /\ RankIn(R, S, order[i]) = i - 1
    <3>1. \E k \in DOMAIN list : rank(k) = i - 1
      <4> HIDE DEF rank, S
      <4> QED BY <1>1, <1>7, <2>2
    <3>2. order[i] = CHOOSE k \in DOMAIN list : rank(k) = i - 1
      <4> HIDE DEF rank
      <4> QED BY <1>1
    <3>3. order[i] \in DOMAIN list /\ rank(order[i]) = i - 1
      <4> HIDE DEF rank, order
      <4> QED BY <3>1, <3>2
    <3> HIDE DEF rank, order, S
    <3> QED BY <1>1, <1>7, <3>3
  <2>3. \A i \in 1..Cardinality(S) : i \in S
    BY <1>2
  <2> HIDE DEF order, rank
  <2> QED BY <2>1, <2>2, <2>3 DEF PutsByRank
<1> HIDE DEF order, rank
<1>10. /\ order \in Seq(S) /\ Len(order) = m
       /\ {order[i] : i \in DOMAIN order} = S
       /\ \A i, k \in 1..Len(order) : <<order[i], order[k]>> \in R <=> i < k
  <2> HIDE DEF S
  <2> QED BY <1>2, <1>8, <1>9, ArrangedByRank
<1>11. DOMAIN order = S /\ \A k \in S : order[k] \in S
  <2>1. DOMAIN order = 1..Len(order)
    <3> HIDE DEF S
    <3> QED BY <1>10, LenProperties
  <2> QED BY <1>10, <2>1
<1>12. /\ DOMAIN sorted = S /\ \A k \in S : sorted[k] = list[order[k]]
       /\ Len(sorted) = m
  <2>1. DOMAIN sorted = S /\ \A k \in S : sorted[k] = list[order[k]]
    BY <1>1
  <2>2. sorted \in Seq({list[k] : k \in S})
    <3>1. sorted \in [1..m -> {list[k] : k \in S}]
      BY <1>1, <1>11
    <3> HIDE DEF sorted
    <3> QED BY <3>1, SeqDef
  <2>3. Len(sorted) \in Nat /\ 1..Len(sorted) = 1..m
    <3> HIDE DEF sorted
    <3> QED BY <2>1, <2>2, LenProperties
  <2>4. Len(sorted) = m
    <3> HIDE DEF sorted
    <3> QED BY <2>3
  <2> QED BY <2>1, <2>4
<1> HIDE DEF sorted
<1>13. ASSUME NEW i \in S PROVE \E k \in S : sorted[k] = list[i]
  <2>1. PICK k \in S : order[k] = i
    BY <1>10, <1>11
  <2> QED BY <1>12, <2>1
<1>14. ASSUME NEW k \in 2..m PROVE Score(sorted[k]) <= Score(sorted[k - 1])
  <2>1. k \in S /\ k - 1 \in S /\ k - 1 < k
    OBVIOUS
  <2>2. <<order[k - 1], order[k]>> \in R
    BY <1>10, <2>1
  <2>3. score[order[k]] <= score[order[k - 1]]
    <3>1. ahead(order[k - 1], order[k])
      BY <1>6, <1>11, <2>1, <2>2
    <3>2. score[order[k]] \in Nat /\ score[order[k - 1]] \in Nat
      BY <1>4, <1>11, <2>1
    <3> QED BY <3>1, <3>2
  <2>4. score[order[k]] = Score(sorted[k]) /\ score[order[k - 1]] = Score(sorted[k - 1])
    BY <1>4, <1>11, <1>12, <2>1
  <2> QED BY <2>3, <2>4
<1>15. \A k \in S : \E i \in S : sorted[k] = list[i]
  BY <1>11, <1>12
<1> QED BY <1>3, <1>12, <1>13, <1>14, <1>15

---------------------------------------------------------------------------
(* One choice of each division of the roles                                *)

\* The divisions of the roles among these choices.
Divisions(people, D) == {RoleGroup(people, c) : c \in D}

IsBestOfGroup(people, D, c) ==
  c \in D /\ \A d \in D : RoleGroup(people, d) = RoleGroup(people, c) => Score(d) <= Score(c)

GroupsOf(people, choices) == [k \in DOMAIN choices |-> RoleGroup(people, choices[k])]

FirstsOf(choices, group) ==
  Picked([k \in DOMAIN choices |-> k],
         {k \in DOMAIN choices : \A j \in 1..(k - 1) : group[j] # group[k]})

\* The places at which a division is met first name each of them once.
LEMMA FirstsAreDivisions ==
  ASSUME NEW people, NEW D, NEW choices, Lists(choices, D), NEW group, group = GroupsOf(people, choices),
         NEW first, first = FirstsOf(choices, group)
  PROVE  /\ Len(first) \in Nat /\ DOMAIN first = 1..Len(first)
         /\ \A n \in 1..Len(first) : first[n] \in DOMAIN choices
         /\ {group[first[n]] : n \in 1..Len(first)} = Divisions(people, D)
         /\ Len(first) = Cardinality(Divisions(people, D))
<1> DEFINE m == Len(choices)
           I == 1..m
           all == [k \in I |-> k]
           Firsts == {k \in I : \A j \in 1..(k - 1) : group[j] # group[k]}
           n == Len(first)
<1>1. m \in Nat /\ DOMAIN choices = I /\ \A k \in I : choices[k] \in D
  BY ListCounts
<1>2. \A c \in D : \E k \in I : choices[k] = c
  BY DEF Lists
<1>3. \A k \in I : group[k] = RoleGroup(people, choices[k])
  BY <1>1 DEF GroupsOf
<1>4. first = Picked(all, Firsts)
  BY <1>1 DEF FirstsOf
<1>5. Lists(first, Firsts)
  <2>1. all \in Seq(I) /\ Len(all) = m
    <3>1. all \in [1..m -> I]
      OBVIOUS
    <3>2. DOMAIN all = 1..m
      OBVIOUS
    <3> HIDE DEF all
    <3>3. all \in Seq(I)
      BY <1>1, <3>1, SeqDef
    <3>4. DOMAIN all = 1..Len(all) /\ Len(all) \in Nat
      BY <3>3, LenProperties
    <3>5. Len(all) = m
      <4> HIDE DEF m
      <4> QED BY <1>1, <3>2, <3>4
    <3> QED BY <3>3, <3>5
  <2>2. \A k \in I : all[k] = k
    OBVIOUS
  <2> HIDE DEF all
  <2>3. Distinct(all)
    BY <2>1, <2>2 DEF Distinct
  <2>4. Firsts \in SUBSET (1..Len(all))
    BY <2>1
  <2>5. {all[i] : i \in Firsts} = Firsts
    BY <2>2
  <2> HIDE DEF Firsts, I
  <2> QED BY <1>4, <2>1, <2>3, <2>4, <2>5, PickedIsThere
<1>6. /\ n \in Nat /\ DOMAIN first = 1..n /\ \A i \in 1..n : first[i] \in Firsts
      /\ \A i, k \in 1..n : first[i] = first[k] => i = k
      /\ \A f \in Firsts : \E i \in 1..n : first[i] = f
  <2> HIDE DEF Firsts
  <2>1. n \in Nat /\ DOMAIN first = 1..n /\ \A i \in 1..n : first[i] \in Firsts
    BY <1>5, ListCounts
  <2> QED BY <1>5, <2>1 DEF Lists, Distinct
<1>7. \A i, k \in Firsts : group[i] = group[k] => i = k
  <2>1. ASSUME NEW i \in Firsts, NEW k \in Firsts, i < k PROVE group[i] # group[k]
    <3>1. i \in 1..(k - 1)
      BY <1>1, <2>1
    <3> QED BY <3>1
  <2>2. \A i, k \in Firsts : i = k \/ i < k \/ k < i
    BY <1>1
  <2> HIDE DEF Firsts
  <2> QED BY <2>1, <2>2
<1>8. ASSUME NEW c \in D PROVE \E f \in Firsts : group[f] = RoleGroup(people, c)
  <2>1. PICK k \in I : choices[k] = c
    BY <1>2
  <2> DEFINE T == {j \in I : group[j] = group[k]}
             f == Min(T)
  <2>2. T \in SUBSET Nat /\ k \in T
    OBVIOUS
  <2>3. f \in T /\ \A j \in T : f <= j
    <3> HIDE DEF T
    <3> QED BY <2>2, MinIsLeast
  <2> HIDE DEF f
  <2>4. f \in I /\ group[f] = group[k]
    BY <2>3
  <2>5. ASSUME NEW j \in 1..(f - 1) PROVE group[j] # group[f]
    <3>1. j \in I /\ j \in Nat /\ f \in Nat /\ ~ (f <= j)
      BY <1>1, <2>4
    <3> QED BY <2>3, <2>4, <3>1
  <2> HIDE DEF T
  <2>6. f \in Firsts
    BY <2>4, <2>5
  <2> QED BY <1>3, <2>1, <2>4, <2>6
<1> HIDE DEF I, all, n
<1>9. \A f \in Firsts : f \in I
  OBVIOUS
<1> HIDE DEF Firsts
<1> DEFINE J == 1..n
           shown == [i \in J |-> group[first[i]]]
           G == {shown[i] : i \in J}
<1>10. G = Divisions(people, D)
  <2>1. ASSUME NEW i \in J PROVE shown[i] \in Divisions(people, D)
    <3>1. first[i] \in I
      BY <1>6, <1>9
    <3>2. group[first[i]] = RoleGroup(people, choices[first[i]]) /\ choices[first[i]] \in D
      BY <1>1, <1>3, <3>1
    <3> QED BY <3>2 DEF Divisions
  <2>2. ASSUME NEW g \in Divisions(people, D) PROVE \E i \in J : shown[i] = g
    <3>1. PICK c \in D : g = RoleGroup(people, c)
      BY DEF Divisions
    <3>2. PICK f \in Firsts : group[f] = g
      BY <1>8, <3>1
    <3>3. PICK i \in J : first[i] = f
      BY <1>6
    <3> QED BY <3>2, <3>3
  <2> HIDE DEF shown, J
  <2> QED BY <2>1, <2>2
<1>11. Cardinality(G) = n
  <2>1. IsFiniteSet(J) /\ Cardinality(J) = n
    BY <1>6, FS_Interval
  <2>2. shown = [i \in J |-> shown[i]]
    OBVIOUS
  <2>3. \A x, y \in J : shown[x] = shown[y] => x = y
    <3> SUFFICES ASSUME NEW x \in J, NEW y \in J, shown[x] = shown[y] PROVE x = y
      OBVIOUS
    <3>1. first[x] \in Firsts /\ first[y] \in Firsts /\ group[first[x]] = group[first[y]]
      BY <1>6
    <3>2. first[x] = first[y]
      BY <1>7, <3>1
    <3> QED BY <1>6, <3>2
  <2> HIDE DEF shown, J
  <2> QED BY <2>1, <2>2, <2>3, ImageCounts
<1>12. G = {group[first[i]] : i \in J}
  OBVIOUS
<1>13. \A i \in J : first[i] \in DOMAIN choices
  BY <1>1, <1>6, <1>9
<1> HIDE DEF G, shown
<1> QED BY <1>6, <1>10, <1>11, <1>12, <1>13 DEF n

\* Each division is shown once, by the best of it, the better ones first.
ShowsTheBest(people, D, shown) ==
  /\ Len(shown) = Cardinality(Divisions(people, D))
  /\ DOMAIN shown = 1..Len(shown)
  /\ \A k \in DOMAIN shown : IsBestOfGroup(people, D, shown[k])
  /\ {RoleGroup(people, shown[k]) : k \in DOMAIN shown} = Divisions(people, D)
  /\ \A k \in 2..Len(shown) : Score(shown[k]) <= Score(shown[k - 1])

\* What _collapse_by_role_group makes of the choices it is given.
LEMMA CollapseIsBest ==
  ASSUME NEW people, NEW D, \A c \in D : Score(c) \in Nat, NEW choices, Lists(choices, D), NEW shown,
         shown = CollapseByRoleGroup(people, choices)
  PROVE  ShowsTheBest(people, D, shown)
<1> DEFINE group == [k \in DOMAIN choices |-> RoleGroup(people, choices[k])]
           first == Picked([k \in DOMAIN choices |-> k],
                           {k \in DOMAIN choices : \A j \in 1..(k - 1) : group[j] # group[k]})
           OfGroup(g) == Picked(choices, {k \in DOMAIN choices : group[k] = g})
           best == [n \in DOMAIN first |-> BestOf(OfGroup(group[first[n]]))]
           m == Len(first)
<1>1. shown = ByScore(best)
  BY DEF CollapseByRoleGroup
<1>2. /\ m \in Nat /\ DOMAIN first = 1..m /\ \A n \in 1..m : first[n] \in DOMAIN choices
      /\ {group[first[n]] : n \in 1..m} = Divisions(people, D)
      /\ m = Cardinality(Divisions(people, D))
  <2>1. group = GroupsOf(people, choices)
    BY DEF GroupsOf
  <2> HIDE DEF group
  <2>2. first = FirstsOf(choices, group)
    BY DEF FirstsOf
  <2> HIDE DEF first, OfGroup
  <2> QED BY <2>1, <2>2, FirstsAreDivisions
<1>3. \A k \in DOMAIN choices : group[k] = RoleGroup(people, choices[k])
  OBVIOUS
<1>4. /\ choices \in Seq(D) /\ Distinct(choices) /\ Len(choices) \in Nat /\ DOMAIN choices = 1..Len(choices)
      /\ \A k \in DOMAIN choices : choices[k] \in D
      /\ \A c \in D : \E k \in DOMAIN choices : choices[k] = c
  BY ListCounts DEF Lists
<1> HIDE DEF first, group, m
<1>5. ASSUME NEW n \in 1..m
      PROVE  IsBestOfGroup(people, D, best[n]) /\ RoleGroup(people, best[n]) = group[first[n]]
  <2> DEFINE g == group[first[n]]
             E == {c \in D : RoleGroup(people, c) = g}
             places == {k \in DOMAIN choices : group[k] = g}
  <2>1. Lists(OfGroup(g), E)
    <3>1. {choices[k] : k \in places} = E
      BY <1>3, <1>4
    <3>2. places \in SUBSET (1..Len(choices))
      BY <1>4
    <3> HIDE DEF places, E
    <3>3. Lists(Picked(choices, places), E)
      BY <1>4, <3>1, <3>2, PickedIsThere
    <3> QED BY <3>3 DEF places
  <2>2. E # {}
    <3>1. first[n] \in DOMAIN choices
      BY <1>2
    <3>2. choices[first[n]] \in E
      BY <1>3, <1>4, <3>1
    <3> QED BY <3>2
  <2>3. best[n] = BestOf(OfGroup(g))
    <3> HIDE DEF OfGroup
    <3> QED BY <1>2
  <2>4. \A c \in E : Score(c) \in Nat
    OBVIOUS
  <2> DEFINE b == best[n]
  <2> HIDE DEF E, OfGroup, best, b
  <2>5. b \in E /\ \A c \in E : Score(c) <= Score(b)
    BY <2>1, <2>2, <2>3, <2>4, BestIsBest DEF b
  <2>6. b \in D /\ RoleGroup(people, b) = g
        /\ \A d \in D : RoleGroup(people, d) = RoleGroup(people, b) => Score(d) <= Score(b)
    BY <2>5 DEF E
  <2> QED BY <2>6 DEF b, IsBestOfGroup
<1>6. best = [n \in 1..m |-> best[n]]
  <2> HIDE DEF OfGroup
  <2> QED BY <1>2
<1> HIDE DEF best
<1>7. AreScored(best, m)
  BY <1>5, <1>6 DEF AreScored, IsBestOfGroup
<1>8. /\ DOMAIN shown = 1..m /\ Len(shown) = m
      /\ \A k \in 1..m : \E i \in 1..m : shown[k] = best[i]
      /\ \A i \in 1..m : \E k \in 1..m : shown[k] = best[i]
      /\ \A k \in 2..m : Score(shown[k]) <= Score(shown[k - 1])
  <2> DEFINE sorted == ByScore(best)
  <2>1. /\ DOMAIN sorted = 1..m /\ Len(sorted) = m
        /\ \A k \in 1..m : \E i \in 1..m : sorted[k] = best[i]
        /\ \A i \in 1..m : \E k \in 1..m : sorted[k] = best[i]
        /\ \A k \in 2..m : Score(sorted[k]) <= Score(sorted[k - 1])
    <3>1. m \in Nat
      BY <1>2
    <3> QED BY <1>7, <3>1, SortedByScore
  <2>2. shown = sorted
    BY <1>1
  <2> HIDE DEF sorted
  <2> QED BY <2>1, <2>2
<1>9. \A k \in 1..m : IsBestOfGroup(people, D, shown[k])
  BY <1>5, <1>8
<1>10. {RoleGroup(people, shown[k]) : k \in 1..m} = Divisions(people, D)
  <2>1. ASSUME NEW k \in 1..m PROVE RoleGroup(people, shown[k]) \in Divisions(people, D)
    BY <1>9 DEF IsBestOfGroup, Divisions
  <2>2. ASSUME NEW r \in Divisions(people, D) PROVE \E k \in 1..m : RoleGroup(people, shown[k]) = r
    <3>1. PICK n \in 1..m : group[first[n]] = r
      BY <1>2
    <3>2. PICK k \in 1..m : shown[k] = best[n]
      BY <1>8
    <3> QED BY <1>5, <3>1, <3>2
  <2> QED BY <2>1, <2>2
<1> QED BY <1>2, <1>8, <1>9, <1>10 DEF ShowsTheBest

---------------------------------------------------------------------------
(* Plans keep their promise                                                *)

LEMMA ResultsAreAllowed ==
  ASSUME NEW people, ArePeople(people), NEW s, NEW results,
         results = Picked(AllChoices(people), {k \in DOMAIN AllChoices(people) : Valid(s, AllChoices(people)[k])})
  PROVE  LET D == {Taken(people, f) : f \in Allowed(people, s)}
         IN  /\ Lists(results, D)
             /\ Cardinality(Allowed(people, s)) = Len(results)
             /\ \A f \in Allowed(people, s) : f \in Ways(people)
             /\ \A c \in D : Score(c) \in Nat
<1> DEFINE n == Len(people)
           choices == AllChoices(people)
           C == ChoicesUpTo(people, n)
           places == {k \in DOMAIN choices : Valid(s, choices[k])}
           A == Allowed(people, s)
           D == {Taken(people, f) : f \in A}
<1>1. n \in Nat
  BY DEF ArePeople
<1>2. Lists(choices, C)
  BY SearchIsComplete
<1>3. /\ choices \in Seq(C) /\ Distinct(choices) /\ DOMAIN choices = 1..Len(choices)
      /\ \A k \in DOMAIN choices : choices[k] \in C
      /\ \A c \in C : \E k \in DOMAIN choices : choices[k] = c
  <2> HIDE DEF choices, C
  <2> QED BY <1>2, ListCounts DEF Lists
<1>4. A = {f \in Ways(people) : Valid(s, Taken(people, f))}
  BY AllowedIsValid
<1>5. {Taken(people, f) : f \in Ways(people)} = C
      /\ \A f, g \in Ways(people) : Taken(people, f) = Taken(people, g) => f = g
  BY WaysAreChoices
<1>6. results = Picked(choices, places)
  OBVIOUS
<1> HIDE DEF choices, C, A
<1>7. D = {choices[k] : k \in places}
  <2>1. ASSUME NEW f \in A PROVE \E k \in places : choices[k] = Taken(people, f)
    <3>1. Taken(people, f) \in C /\ Valid(s, Taken(people, f))
      BY <1>4, <1>5
    <3>2. PICK k \in DOMAIN choices : choices[k] = Taken(people, f)
      BY <1>3, <3>1
    <3> QED BY <3>1, <3>2
  <2>2. ASSUME NEW k \in places PROVE \E f \in A : Taken(people, f) = choices[k]
    <3>1. choices[k] \in C /\ Valid(s, choices[k])
      BY <1>3
    <3>2. PICK f \in Ways(people) : Taken(people, f) = choices[k]
      BY <1>5, <3>1
    <3>3. f \in A
      BY <1>4, <3>1, <3>2
    <3> QED BY <3>2, <3>3
  <2> HIDE DEF places
  <2> QED BY <2>1, <2>2
<1>8. places \in SUBSET (1..Len(choices))
  BY <1>3
<1> HIDE DEF places
<1>9. Lists(results, D)
  <2> HIDE DEF D
  <2> QED BY <1>3, <1>6, <1>7, <1>8, PickedIsThere
<1>10. IsFiniteSet(D) /\ Cardinality(D) = Len(results)
  <2> HIDE DEF D
  <2> QED BY <1>9, ListCounts
<1>11. Cardinality(A) = Cardinality(D)
  <2> DEFINE t == [f \in A |-> Taken(people, f)]
  <2>1. t \in [A -> D] /\ (\A d \in D : \E f \in A : t[f] = d)
    OBVIOUS
  <2>2. \A f, g \in A : t[f] = t[g] => f = g
    BY <1>4, <1>5
  <2> HIDE DEF t, D
  <2>3. t \in Injection(A, D) /\ t \in Surjection(A, D)
    BY <2>1, <2>2 DEF Injection, Surjection, IsInjective
  <2> QED BY <1>10, <2>3, FS_Injection
<1>12. \A c \in D : Score(c) \in Nat
  <2>1. \A c \in D : c \in C
    BY <1>4, <1>5
  <2> HIDE DEF D
  <2> QED BY <1>1, <2>1, ScoreIsNat DEF C
<1>13. \A f \in A : f \in Ways(people)
  BY <1>4
<1> QED BY <1>9, <1>10, <1>11, <1>12, <1>13 DEF A

\* What a complete computation returns is what the plan promises.
LEMMA ComputedIsBest ==
  ASSUME NEW people, ArePeople(people), NEW s
  PROVE  MeetsPromise(people, s, ComputePartiesStream(people, s, TRUE))
<1> DEFINE plan0 == ComputePartiesStream(people, s, TRUE)
           choices == AllChoices(people)
           results == Picked(choices, {k \in DOMAIN choices : Valid(s, choices[k])})
           A == Allowed(people, s)
           D == {Taken(people, f) : f \in A}
           shown == plan0.parties
           Roles(f) == {<<people[i].name, Role(people[i].jobs[f[i]].job)>> : i \in DOMAIN people}
           Points(f) == SumFunction([i \in DOMAIN people |-> people[i].jobs[f[i]].priority])
           GroupOf(k) == {<<people[i].name, Role(shown[k][i].job)>> : i \in DOMAIN people}
<1>1. /\ plan0.found = Len(results) /\ plan0.parties = CollapseByRoleGroup(people, results)
      /\ plan0.distinct = Cardinality({RoleGroup(people, results[k]) : k \in DOMAIN results})
  BY DEF ComputePartiesStream
<1>2. /\ Lists(results, D) /\ Cardinality(A) = Len(results) /\ \A f \in A : f \in Ways(people)
      /\ \A c \in D : Score(c) \in Nat
  BY ResultsAreAllowed
<1>3. Len(people) \in Nat /\ DOMAIN people = 1..Len(people)
  BY DEF ArePeople
<1> HIDE DEF results, A, plan0
<1>4. ASSUME NEW f \in A
      PROVE  /\ DOMAIN Taken(people, f) = DOMAIN people
             /\ \A i \in DOMAIN people : Taken(people, f)[i] = people[i].jobs[f[i]]
  BY <1>2, <1>3, TakenTyped
<1>5. ASSUME NEW f \in A PROVE Roles(f) = RoleGroup(people, Taken(people, f))
  <2> DEFINE c == Taken(people, f)
  <2>1. DOMAIN c = DOMAIN people /\ \A i \in DOMAIN people : c[i] = people[i].jobs[f[i]]
    BY <1>4
  <2> HIDE DEF c
  <2>2. Roles(f) = RoleGroup(people, c)
    BY <2>1 DEF RoleGroup
  <2> QED BY <2>2 DEF c
<1>6. ASSUME NEW f \in A PROVE Points(f) = Score(Taken(people, f))
  <2> DEFINE c == Taken(people, f)
  <2>1. DOMAIN c = DOMAIN people /\ \A i \in DOMAIN people : c[i] = people[i].jobs[f[i]]
    BY <1>4
  <2> HIDE DEF c
  <2>2. [i \in DOMAIN c |-> c[i].priority] = [i \in DOMAIN people |-> people[i].jobs[f[i]].priority]
    BY <2>1
  <2>3. Points(f) = Score(c)
    BY <2>2 DEF Score
  <2> QED BY <2>3 DEF c
<1>7. {Roles(f) : f \in A} = Divisions(people, D)
  <2> HIDE DEF Roles
  <2> QED BY <1>5 DEF Divisions
<1>8. {RoleGroup(people, results[k]) : k \in DOMAIN results} = Divisions(people, D)
  <2>1. DOMAIN results = 1..Len(results) /\ \A k \in DOMAIN results : results[k] \in D
    <3> HIDE DEF D
    <3> QED BY <1>2, ListCounts
  <2>2. \A c \in D : \E k \in DOMAIN results : results[k] = c
    BY <1>2, <2>1 DEF Lists
  <2> HIDE DEF D
  <2> QED BY <2>1, <2>2 DEF Divisions
<1>9. /\ Len(shown) = Cardinality(Divisions(people, D))
      /\ DOMAIN shown = 1..Len(shown)
      /\ \A k \in DOMAIN shown : IsBestOfGroup(people, D, shown[k])
      /\ {RoleGroup(people, shown[k]) : k \in DOMAIN shown} = Divisions(people, D)
      /\ \A k \in 2..Len(shown) : Score(shown[k]) <= Score(shown[k - 1])
  <2>1. shown = CollapseByRoleGroup(people, results)
    BY <1>1
  <2>2. Lists(results, D) /\ \A c \in D : Score(c) \in Nat
    BY <1>2
  <2> HIDE DEF shown, D, Roles, Points, GroupOf
  <2>3. ShowsTheBest(people, D, shown)
    BY <2>1, <2>2, CollapseIsBest
  <2> QED BY <2>3 DEF ShowsTheBest
<1> HIDE DEF shown
<1>10. ASSUME NEW k \in DOMAIN shown
       PROVE  \E f \in A : /\ shown[k] = Taken(people, f)
                           /\ \A g \in A : Roles(g) = Roles(f) => Points(g) <= Points(f)
  <2>1. IsBestOfGroup(people, D, shown[k])
    BY <1>9
  <2>2. PICK f \in A : shown[k] = Taken(people, f)
    BY <2>1 DEF IsBestOfGroup
  <2>3. ASSUME NEW g \in A, Roles(g) = Roles(f) PROVE Points(g) <= Points(f)
    <3> HIDE DEF Roles, Points
    <3>1. Taken(people, g) \in D /\ RoleGroup(people, Taken(people, g)) = RoleGroup(people, shown[k])
      BY <1>5, <2>2, <2>3
    <3>2. Score(Taken(people, g)) <= Score(shown[k])
      BY <2>1, <3>1 DEF IsBestOfGroup
    <3> QED BY <1>6, <2>2, <3>2
  <2> HIDE DEF Roles, Points
  <2> QED BY <2>2, <2>3
<1>11. ASSUME NEW k \in DOMAIN shown PROVE GroupOf(k) = RoleGroup(people, shown[k])
  <2>1. DOMAIN shown[k] = DOMAIN people
    BY <1>4, <1>10
  <2> QED BY <2>1 DEF RoleGroup
<1>12. {GroupOf(k) : k \in DOMAIN shown} = {Roles(f) : f \in A}
  <2>1. {GroupOf(k) : k \in DOMAIN shown} = {RoleGroup(people, shown[k]) : k \in DOMAIN shown}
    <3> HIDE DEF GroupOf
    <3> QED BY <1>11
  <2> HIDE DEF GroupOf, Roles
  <2> QED BY <1>7, <1>9, <2>1
<1>13. /\ plan0.found = Cardinality(A)
       /\ plan0.distinct = Cardinality({Roles(f) : f \in A})
       /\ Len(shown) = plan0.distinct
  <2> HIDE DEF Roles, D
  <2> QED BY <1>1, <1>2, <1>7, <1>8, <1>9
<1>14. \A k \in DOMAIN shown : \E f \in A :
          /\ shown[k] = [i \in DOMAIN people |-> people[i].jobs[f[i]]]
          /\ \A g \in A : Roles(g) = Roles(f) => Points(g) <= Points(f)
  <2> HIDE DEF Roles, Points
  <2> QED BY <1>10 DEF Taken
<1>15. \A k \in 2..Len(shown) : Score(shown[k]) <= Score(shown[k - 1])
  BY <1>9
<1>16. MeetsPromise(people, s, plan0)
  BY <1>12, <1>13, <1>14, <1>15 DEF MeetsPromise, A, shown
<1> QED BY <1>16 DEF plan0

\* What a computation has read.
PlanReads == plan.at = "reading" => ArePeople(plan.people)

\* The members of the active party are registered, so their lists name no job twice.
LEMMA AskedReads ==
  ASSUME TablesOK, NEW d, NEW c, ComputeAsked(d, c)
  PROVE  PlanReads'
<1> DEFINE places == {i \in DOMAIN Roll : Roll[i] \in members[active]}
           here == Picked(Roll, places)
           people == [i \in DOMAIN here |-> [name |-> here[i], jobs |-> jobs[here[i]]]]
<1>1. plan' = IF people = <<>> THEN NoPlan ELSE [at |-> "reading", party |-> active, people |-> people]
  BY DEF ComputeAsked
<1>2. here \in Seq(members[active])
  <2>1. Roll \in Seq(STRING)
    BY RosterConstants
  <2>2. places \in SUBSET (1..Len(Roll))
    BY <2>1, LenProperties
  <2>3. {Roll[i] : i \in places} \subseteq members[active]
    OBVIOUS
  <2> HIDE DEF places
  <2>4. here \in Seq({Roll[i] : i \in places})
    BY <2>1, <2>2, PickedIsThere
  <2> HIDE DEF here
  <2> QED BY <2>3, <2>4, SeqMonotonic
<1>3. \A n \in members[active] : IsJobList(jobs[n])
  <2>1. active \in Parties /\ members[active] \subseteq Names
    BY DEF TablesOK
  <2> QED BY <2>1 DEF TablesOK
<1> HIDE DEF here, places
<1>4. Len(here) \in Nat /\ DOMAIN here = 1..Len(here) /\ \A i \in 1..Len(here) : here[i] \in members[active]
  BY <1>2, LenProperties, ElementOfSeq
<1>5. ArePeople(people)
  <2>1. DOMAIN people = 1..Len(here) /\ \A i \in 1..Len(here) : people[i].jobs = jobs[here[i]]
    BY <1>4
  <2>2. Len(people) = Len(here)
    <3> DEFINE S == {people[i] : i \in 1..Len(here)}
               n == Len(here)
    <3>1. people \in [1..n -> S] /\ n \in Nat
      BY <1>4
    <3> HIDE DEF people, S, n
    <3>2. people \in Seq(S)
      BY <3>1, SeqDef
    <3>3. DOMAIN people = 1..Len(people) /\ Len(people) \in Nat /\ DOMAIN people = 1..n
      BY <3>1, <3>2, LenProperties
    <3>4. Len(people) = n
      BY <3>1, <3>3
    <3> QED BY <3>4 DEF n
  <2> HIDE DEF people
  <2> QED BY <1>3, <1>4, <2>1, <2>2 DEF ArePeople
<1> HIDE DEF people
<1>6. plan'.at = "reading" => plan'.people = people
  BY <1>1 DEF NoPlan
<1> QED BY <1>5, <1>6 DEF PlanReads

\* Only a request for a plan and its answer write the plan.
LEMMA PlanRests ==
  ASSUME [Next]_vars
  PROVE  \/ UNCHANGED plan
         \/ PlanMade
         \/ \E d \in Dashboards : \E c \in dash[d].calls : ComputeAsked(d, c)
<1>1. CASE DashboardNext
  <2>1. ASSUME NEW d \in Dashboards, NEW c \in dash[d].calls,
               SwitchAnswered(d, c) \/ PeopleAnswered(d, c) \/ PartiesAnswered(d, c)
        PROVE  UNCHANGED plan
    BY <2>1 DEF SwitchAnswered, PeopleAnswered, PartiesAnswered
  <2>2. ASSUME NEW d \in Dashboards,
               \/ \E p \in Parties : SwitchParty(d, p)
               \/ EditJobs(d) \/ RemovePerson(d) \/ AddPerson(d) \/ AddPoolPerson(d)
               \/ SaveConstraints(d) \/ DeleteCurrentParty(d) \/ ComputeParties(d)
               \/ \E p \in Others : CreateParty(d, p)
        PROVE  UNCHANGED plan
    BY <2>2 DEF SwitchParty, EditJobs, RemovePerson, AddPerson, Save, AddPoolPerson, SaveConstraints,
                DeleteCurrentParty, ComputeParties, CreateParty
  <2> QED BY <1>1, <2>1, <2>2 DEF DashboardNext
<1>2. CASE InitDb \/ JobsNext
  BY <1>2 DEF InitDb, JobsNext, OpenView, EditView, PoolSave, JoinDefault
<1>3. CASE PostNext
  <2>1. ASSUME NEW u \in Users, NEW i \in DOMAIN posts, Join(u, i) \/ Leave(u, i) PROVE UNCHANGED plan
    BY <2>1 DEF Join, Leave
  <2>2. ASSUME NEW c \in clicks,
               Build(c) \/ PostEdited(c) \/ Sent(c) \/ Fails(c) \/ OldDeleted(c) \/ StoreHome(c)
        PROVE  UNCHANGED plan
    BY <2>2 DEF Build, PostEdited, Sent, Fails, OldDeleted, StoreHome, rosterVars
  <2>3. ASSUME NEW i \in DOMAIN posts, MoveToBottom(i) PROVE UNCHANGED plan
    BY <2>3 DEF MoveToBottom
  <2>4. ASSUME NEW p \in Parties, SetupHomeChannel(p) PROVE UNCHANGED plan
    BY <2>4 DEF SetupHomeChannel
  <2>5. CASE RestartBot
    BY <2>5 DEF RestartBot
  <2> QED BY <1>3, <2>1, <2>2, <2>3, <2>4, <2>5 DEF PostNext
<1>4. CASE UNCHANGED vars
  BY <1>4 DEF vars, rosterVars
<1> QED BY <1>1, <1>2, <1>3, <1>4 DEF Next

LEMMA PlanStays == Typed /\ PlanReads /\ [Next]_vars => PlanReads'
<1> SUFFICES ASSUME Typed, PlanReads, [Next]_vars PROVE PlanReads'
  OBVIOUS
<1>1. CASE UNCHANGED plan
  BY <1>1 DEF PlanReads
<1>2. CASE PlanMade
  BY <1>2 DEF PlanMade, PlanReads
<1>3. ASSUME NEW d \in Dashboards, NEW c \in dash[d].calls, ComputeAsked(d, c) PROVE PlanReads'
  BY <1>3, AskedReads DEF Typed, RosterTypeOK
<1> QED BY <1>1, <1>2, <1>3, PlanRests

\* compute_parties_stream meets every choice of jobs once and keeps those the constraints
\* allow; _collapse_by_role_group shows each division of the roles once, by a choice that
\* no other of it beats, the better ones first.
THEOREM PlansAreBest == Spec => PlanIsBest
<1>1. ASSUME PlanReads, [Next]_vars, plan.at = "reading", plan'.at = "made"
      PROVE  MeetsPromise(plan'.people, plan'.settings, plan'.result)
  <2>1. CASE UNCHANGED plan
    BY <1>1, <2>1
  <2>2. CASE \E d \in Dashboards : \E c \in dash[d].calls : ComputeAsked(d, c)
    BY <1>1, <2>2 DEF ComputeAsked
  <2>3. CASE PlanMade
    <3> DEFINE s == settings[plan.party]
               result == ComputePartiesStream(plan.people, s, TRUE)
    <3>1. plan' = IF s = Unreadable THEN [at |-> "failed"]
                  ELSE [at |-> "made", people |-> plan.people, settings |-> s, result |-> result]
      BY <2>3 DEF PlanMade
    <3> HIDE DEF s, result
    <3>2. plan'.people = plan.people /\ plan'.settings = s /\ plan'.result = result
      BY <1>1, <3>1
    <3>3. ArePeople(plan.people)
      BY <1>1 DEF PlanReads
    <3>4. MeetsPromise(plan.people, s, result)
      BY <3>3, ComputedIsBest DEF result
    <3> QED BY <3>2, <3>4
  <2> QED BY <1>1, <2>1, <2>2, <2>3, PlanRests
<1>2. Typed /\ PlanReads /\ [Next]_vars
        => [plan.at = "reading" /\ plan'.at = "made"
              => MeetsPromise(plan'.people, plan'.settings, plan'.result)]_vars
  BY <1>1
<1>3. Init => PlanReads
  BY DEF Init, RosterInit, NoPlan, PlanReads
<1> QED BY TypedAtFirst, TypedStays, PlanStays, <1>2, <1>3, PTL DEF Spec, PlanIsBest

================================================================================
