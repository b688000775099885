--------------------------------- MODULE Roster ---------------------------------
(***************************************************************************)
(* Parties, their members and their constraints, as the dashboard          *)
(* (static/partydashboard.html over app/routes.py) and the job view of the *)
(* bot (bot/commands.py) read and write them (app/db.py).                  *)
(*                                                                         *)
(* Dashboards are those of admins.  Each call of a browser reaches the     *)
(* server some time after it is made, so calls made in one order may be    *)
(* answered in another.  Code of the bot runs without interruption between *)
(* two awaits, but the web processes use the database meanwhile.  The      *)
(* Discord account of a person and changes of their name are left out.     *)
(***************************************************************************)
EXTENDS PartyPlan

CONSTANTS
  Roll,         \* names of people, in the order of their names
  Default,      \* the party that init_db creates
  Others,       \* parties that may be created beside it
  Users,        \* people who use the bot
  Edited,       \* people whose entry a dashboard edits
  Offered,      \* sequences of jobs that one choice in the menus adds
  Priorities,   \* priorities that are chosen
  Settings,     \* constraints that are saved
  Unreadable,   \* constraints saved with a number left empty
  Absent,       \* stands for the jobs of a person who is not registered
  Dashboards,
  Registered,   \* people at first: name -> entries, or Absent
  Joined,       \* party_people at first: party -> names
  MaxRequests   \* bound: what users ask for in total

Names == ToSet(Roll)
Parties == {Default} \cup Others

Entry(job, priority) == [job |-> job, priority |-> priority]

\* A list of jobs as all who write one leave it: no job is on it twice.
IsJobList(list) ==
  /\ list \in Seq([job : STRING, priority : Nat])
  /\ \A i, j \in DOMAIN list : list[i].job = list[j].job => i = j

ASSUME RosterConstants ==
  /\ Roll \in Seq(STRING)
  /\ Default \notin Others
  /\ Unreadable \notin Settings
  /\ Users \cup Edited \subseteq Names
  /\ Offered \subseteq Seq(STRING)
  /\ Priorities \subseteq Nat
  /\ ~ IsJobList(Absent)
  /\ Registered = [n \in Names |-> Registered[n]]
  /\ \A n \in Names : Registered[n] = Absent \/ IsJobList(Registered[n])
  /\ Joined \in [Parties -> SUBSET Names]
  /\ \A p \in Parties : \A n \in Joined[p] : Registered[n] # Absent
  /\ MaxRequests \in Nat

VARIABLES
  parties,    \* parties
  jobs,       \* people: name -> entries
  members,    \* party_people: party -> names
  settings,   \* party_constraints and party_exclusions: party -> constraints
  home,       \* parties.home_message_id: party -> the number of a post, or 0
  active,     \* app_state.active_party
  dash,       \* dashboard -> what its script holds
  view,       \* user -> the list in their open MyJobsView
  saving,     \* the call of _save_person under way
  plan,       \* the computation a dashboard asked for last
  changes,    \* party -> how often its members changed (history)
  requests

rosterVars == <<parties, jobs, members, settings, home, active, dash, view, saving, plan, changes, requests>>

NoSave == [at |-> "idle"]
NoPlan == [at |-> "none"]

\* What is asked of the server and not yet answered.
Call(what, party) == [what |-> what, party |-> party]

Ask == requests < MaxRequests /\ requests' = requests + 1

IsRegistered(n) == jobs[n] # Absent

\* The rows: those of party_people refer to people who are registered.
TablesOK ==
  /\ parties \subseteq Parties
  /\ jobs = [n \in Names |-> jobs[n]]
  /\ \A n \in Names : IsRegistered(n) => IsJobList(jobs[n])
  /\ members \in [Parties -> SUBSET Names]
  /\ \A p \in Parties : \A n \in members[p] : IsRegistered(n)
  /\ settings \in [Parties -> Settings \cup {DefaultSettings, Unreadable}]
  /\ home \in [Parties -> Nat]
  /\ active \in Parties
  /\ changes \in [Parties -> Nat]

\* What a page holds: the people it lists have lists of their own.
DashOK(page) ==
  /\ page = [party |-> page.party, people |-> page.people, deletable |-> page.deletable,
             calls |-> page.calls]
  /\ page.party \in Parties /\ page.deletable \in BOOLEAN
  /\ DOMAIN page.people \subseteq Names
  /\ \A n \in DOMAIN page.people : IsJobList(page.people[n])
  /\ page.calls \subseteq [what : {"people", "shown", "parties", "plan", "switch"}, party : Parties]

PagesOK ==
  /\ dash = [d \in Dashboards |-> dash[d]]
  /\ \A d \in Dashboards : DashOK(dash[d])

\* The bot's views, and the call of _save_person with what it has read.
BotOK ==
  /\ view = [u \in Users |-> view[u]]
  /\ \A u \in Users : view[u] = Absent \/ IsJobList(view[u])
  /\ \/ saving = NoSave
     \/ /\ saving = [at |-> saving.at, user |-> saving.user, pool |-> saving.pool]
        /\ saving.at \in {"writing", "joining"} /\ saving.user \in Users
        /\ \A n \in Names : saving.pool[n] = Absent \/ IsJobList(saving.pool[n])

RosterTypeOK ==
  /\ TablesOK /\ PagesOK /\ BotOK
  /\ plan.at \in {"none", "reading", "made", "failed"}
  /\ requests \in 0..MaxRequests

Rows(p) == [n \in members[p] |-> jobs[n]]

\* The whole page has loaded: both parties exist, one of them is shown.
RosterInit ==
  /\ parties = Parties
  /\ jobs = Registered
  /\ members = Joined
  /\ \E s \in Settings : settings = [p \in Parties |-> IF p = Default THEN DefaultSettings ELSE s]
  /\ home = [p \in Parties |-> 0]
  /\ active \in Others
  /\ dash = [d \in Dashboards |->
               [party |-> active, people |-> Rows(active), deletable |-> TRUE, calls |-> {}]]
  /\ view = [u \in Users |-> Absent]
  /\ saving = NoSave
  /\ plan = NoPlan
  /\ changes = [p \in Parties |-> 0]
  /\ requests = 0

---------------------------------------------------------------------------
(* Lists of jobs                                                           *)

Has(list, job) == \E i \in DOMAIN list : list[i].job = job

\* Mutant: a job is added whether or not it is there.
WithJobsAgain(list, added) == list \o [i \in DOMAIN added |-> Entry(added[i], 5)]

\* A choice in the menu adds, one after the other, the jobs that are not there, at
\* priority 5.
WithJobs(list, added) ==
  LET upto[i \in 0..Len(added)] ==
        IF i = 0 THEN list
        ELSE IF Has(upto[i - 1], added[i]) THEN upto[i - 1]
        ELSE Append(upto[i - 1], Entry(added[i], 5))
  IN upto[Len(added)]

Reprioritised(list, job, priority) ==
  [i \in DOMAIN list |-> IF list[i].job = job THEN Entry(job, priority) ELSE list[i]]

WithoutJob(list, job) ==
  LET upto[i \in 0..Len(list)] ==
        IF i = 0 THEN <<>>
        ELSE IF list[i].job = job THEN upto[i - 1]
        ELSE Append(upto[i - 1], list[i])
  IN upto[Len(list)]

Edits(list) ==
  {WithJobs(list, added) : added \in Offered}
    \cup {Reprioritised(list, list[i].job, p) : i \in DOMAIN list, p \in Priorities}
    \cup {WithoutJob(list, list[i].job) : i \in DOMAIN list}

---------------------------------------------------------------------------
(* Tables                                                                  *)

\* Mutant: foreign keys are not enforced.
AcceptsAny(p) == TRUE

\* PRAGMA foreign_keys = ON: rows of party_people, party_constraints and
\* party_exclusions need their party.
Accepts(p) == p \in parties

SetMembers(p, names) ==
  /\ members' = [members EXCEPT ![p] = names]
  /\ changes' = [changes EXCEPT ![p] = IF names = members[p] THEN @ ELSE @ + 1]

\* people_to_db: the listed rows become the members and are written as they are listed.
PeopleToDb(rows, p) ==
  IF Accepts(p)
  THEN /\ jobs' = [n \in Names |-> IF n \in DOMAIN rows THEN rows[n] ELSE jobs[n]]
       /\ SetMembers(p, DOMAIN rows)
  ELSE UNCHANGED <<jobs, members, changes>>

\* add_person_to_party
AddPersonToParty(n, p) ==
  IF Accepts(p) /\ IsRegistered(n)
  THEN SetMembers(p, members[p] \cup {n})
  ELSE UNCHANGED <<members, changes>>

---------------------------------------------------------------------------
(* The dashboard                                                           *)

Issue(d, more) == dash' = [dash EXCEPT ![d].calls = more \cup @]

Answered(d, c) == dash[d].calls \ {c}

\* switchParty asks the server, then loads the people; what follows waits for them.
SwitchParty(d, p) ==
  /\ Ask
  /\ Issue(d, {Call("switch", p)})
  /\ UNCHANGED <<parties, jobs, members, settings, home, active, view, saving, plan, changes>>

\* POST /api/parties/switch does not ask whether the party exists.
SwitchAnswered(d, c) ==
  /\ c.what = "switch"
  /\ active' = c.party
  /\ dash' = [dash EXCEPT ![d].party = c.party, ![d].calls = Answered(d, c) \cup {Call("shown", c.party)}]
  /\ UNCHANGED <<parties, jobs, members, settings, home, view, saving, plan, changes, requests>>

\* fetchPeople shows what was asked for, whichever party the page is at by then.
PeopleAnswered(d, c) ==
  /\ c.what \in {"people", "shown"}
  /\ dash' = [dash EXCEPT ![d].people = Rows(c.party),
                          ![d].calls = IF c.what = "people" THEN Answered(d, c)
                                       ELSE Answered(d, c) \cup {Call("parties", c.party), Call("plan", c.party)}]
  /\ UNCHANGED <<parties, jobs, members, settings, home, active, view, saving, plan, changes, requests>>

\* fetchParties moves the page to the active party of the server.
PartiesAnswered(d, c) ==
  /\ c.what = "parties"
  /\ dash' = [dash EXCEPT ![d].party = active, ![d].deletable = (active # Default),
                          ![d].calls = Answered(d, c)]
  /\ UNCHANGED <<parties, jobs, members, settings, home, active, view, saving, plan, changes, requests>>

\* savePeople after an edit of the list; the list stays edited if the server refuses.
Save(d, rows) ==
  /\ PeopleToDb(rows, dash[d].party)
  /\ dash' = [dash EXCEPT ![d].people = rows,
                          ![d].calls = @ \cup (IF Accepts(dash[d].party)
                                               THEN {Call("people", dash[d].party)} ELSE {})]
  /\ UNCHANGED <<parties, settings, home, active, view, saving, plan>>

\* addJob, removeJob, setPrio
EditJobs(d) ==
  /\ Ask
  /\ \E n \in Edited \cap DOMAIN dash[d].people : \E list \in Edits(dash[d].people[n]) :
       Save(d, [dash[d].people EXCEPT ![n] = list])

RemovePerson(d) ==
  /\ Ask
  /\ \E n \in Edited \cap DOMAIN dash[d].people : Save(d, Restrict(dash[d].people, DOMAIN dash[d].people \ {n}))

\* addPerson: a name is typed, and stands for whoever has it.
AddPerson(d) ==
  /\ Ask
  /\ \E n \in Edited \ DOMAIN dash[d].people :
       Save(d, [m \in DOMAIN dash[d].people \cup {n} |-> IF m = n THEN <<>> ELSE dash[d].people[m]])

AddPoolPerson(d) ==
  /\ Ask
  /\ \E n \in Edited \ DOMAIN dash[d].people : IsRegistered(n) /\ AddPersonToParty(n, dash[d].party)
  /\ Issue(d, {Call("people", dash[d].party)})
  /\ UNCHANGED <<parties, jobs, settings, home, active, view, saving, plan>>

SaveConstraints(d) ==
  /\ Ask
  /\ Accepts(dash[d].party)
  /\ \E s \in Settings \cup {Unreadable} : settings' = [settings EXCEPT ![dash[d].party] = s]
  /\ UNCHANGED <<parties, jobs, members, home, active, dash, view, saving, plan, changes>>

\* A second row of that name is refused; the page switches to the party in any case.
CreateParty(d, p) ==
  /\ Ask
  /\ parties' = parties \cup {p}
  /\ Issue(d, {Call("switch", p)})
  /\ UNCHANGED <<jobs, members, settings, home, active, view, saving, plan, changes>>

\* Mutant: the constraints outlive their party.
CascadeMembers(p) == settings

\* What ON DELETE CASCADE leaves of the constraints.
Cascade(p) == [settings EXCEPT ![p] = DefaultSettings]

\* The button is shown or hidden when the parties are fetched.
DeleteCurrentParty(d) ==
  /\ Ask
  /\ dash[d].deletable
  /\ parties' = parties \ {dash[d].party}
  /\ SetMembers(dash[d].party, {})
  /\ settings' = Cascade(dash[d].party)
  /\ home' = [home EXCEPT ![dash[d].party] = 0]
  /\ Issue(d, {Call("switch", Default)})
  /\ UNCHANGED <<jobs, active, view, saving, plan>>

\* GET /api/compute/stream names no party: the active one is meant.
ComputeAsked(d, c) ==
  /\ c.what = "plan"
  /\ plan.at # "reading"
  /\ LET here == Picked(Roll, {i \in DOMAIN Roll : Roll[i] \in members[active]})
         people == [i \in DOMAIN here |-> [name |-> here[i], jobs |-> jobs[here[i]]]]
     IN plan' = IF people = <<>> THEN NoPlan ELSE [at |-> "reading", party |-> active, people |-> people]
  /\ dash' = [dash EXCEPT ![d].calls = Answered(d, c)]
  /\ UNCHANGED <<parties, jobs, members, settings, home, active, view, saving, changes, requests>>

\* The constraints are read after the people.
PlanMade ==
  /\ plan.at = "reading"
  /\ LET s == settings[plan.party]
     IN plan' = IF s = Unreadable THEN [at |-> "failed"]
                ELSE [at |-> "made", people |-> plan.people, settings |-> s,
                      result |-> ComputePartiesStream(plan.people, s, TRUE)]
  /\ UNCHANGED <<parties, jobs, members, settings, home, active, dash, view, saving, changes, requests>>

\* The button beside the list.
ComputeParties(d) ==
  /\ Ask
  /\ Issue(d, {Call("plan", dash[d].party)})
  /\ UNCHANGED <<parties, jobs, members, settings, home, active, view, saving, plan, changes>>

DashboardNext ==
  \/ PlanMade
  \/ \E d \in Dashboards :
       \/ \E p \in Parties : SwitchParty(d, p)
       \/ \E c \in dash[d].calls :
            SwitchAnswered(d, c) \/ PeopleAnswered(d, c) \/ PartiesAnswered(d, c) \/ ComputeAsked(d, c)
       \/ EditJobs(d) \/ RemovePerson(d) \/ AddPerson(d) \/ AddPoolPerson(d)
       \/ SaveConstraints(d) \/ DeleteCurrentParty(d) \/ ComputeParties(d)
       \/ \E p \in Others : CreateParty(d, p)

\* A web process starts: init_db creates what is missing, and does not look at which
\* party is active.
InitDb ==
  /\ Ask
  /\ parties' = parties \cup {Default}
  /\ UNCHANGED <<jobs, members, settings, home, active, dash, view, saving, plan, changes>>

---------------------------------------------------------------------------
(* The job view of the bot                                                 *)

Idle == saving = NoSave

\* /setjobs or Set Jobs
OpenView(u) ==
  /\ Idle /\ Ask
  /\ view' = [view EXCEPT ![u] = IF IsRegistered(u) THEN jobs[u] ELSE <<>>]
  /\ UNCHANGED <<parties, jobs, members, settings, home, active, dash, saving, plan, changes>>

\* Every edit saves the whole list; _save_person first reads everybody.
EditView(u) ==
  /\ Idle /\ Ask
  /\ view[u] # Absent
  /\ \E list \in Edits(view[u]) :
       /\ view' = [view EXCEPT ![u] = list]
       /\ saving' = [at |-> "writing", user |-> u, pool |-> [jobs EXCEPT ![u] = list]]
  /\ UNCHANGED <<parties, jobs, members, settings, home, active, dash, plan, changes>>

\* pool_save writes everybody back, the others as they were read.
PoolSave ==
  /\ saving.at = "writing"
  /\ jobs' = [n \in Names |-> IF saving.pool[n] = Absent THEN jobs[n] ELSE saving.pool[n]]
  /\ saving' = [saving EXCEPT !.at = "joining"]
  /\ UNCHANGED <<parties, members, settings, home, active, dash, view, plan, changes, requests>>

\* The default party is joined in a transaction of its own.
JoinDefault ==
  /\ saving.at = "joining"
  /\ AddPersonToParty(saving.user, Default)
  /\ saving' = NoSave
  /\ UNCHANGED <<parties, jobs, settings, home, active, dash, view, plan, requests>>

JobsNext ==
  \/ \E u \in Users : OpenView(u) \/ EditView(u)
  \/ PoolSave \/ JoinDefault

================================================================================
