-------------------------------- MODULE Scraper --------------------------------
(***************************************************************************)
(* The bot keeps the Lodestone sheets of linked characters up to date:     *)
(* scraper_loop, /setlodestone and the recheck button (bot/commands.py),   *)
(* fetch_character (app/lodestone.py) and the three tables they share      *)
(* (app/db.py).  Coroutines of the bot interleave where they await; a      *)
(* fetch of the loop runs in a thread beside them; the process may die     *)
(* between any two transactions.                                           *)
(*                                                                         *)
(* Times of fetching are modelled by the order of the links and by whether *)
(* a link or a cached sheet is older than three hours; either may come to  *)
(* be so at any time (the two are stamped in local time and compared in    *)
(* different zones).  What a sheet says is left out.                       *)
(***************************************************************************)
EXTENDS Integers, SequencesExt

CONSTANTS
  Links,        \* pairs of a person and a character that may come to be linked
  Chars,
  Gone,         \* characters the Lodestone never answers for
  Nobody,
  MaxRechecks,  \* bound: presses of the recheck button
  MaxCrashes    \* bound: deaths of the bot, and rounds that a failure cuts short

People == {l[1] : l \in Links}

ASSUME ScraperConstants ==
  /\ Links \subseteq People \X Chars
  /\ Gone \subseteq Chars
  /\ MaxRechecks \in Nat /\ MaxCrashes \in Nat

VARIABLES
  links,     \* lodestone_links, the one fetched longest ago first
  stale,     \* how many of them were fetched more than three hours ago
  cached,    \* characters with a sheet in character_cache that is not older
  tasks,     \* scraper_tasks, in the order they are due
  loop,      \* how far the scraper loop has come
  rechecks,
  crashes

vars == <<links, stale, cached, tasks, loop, rechecks, crashes>>

\* In a round the loop holds the character, the person it was picked for, and whether
\* it was picked from the tasks.
Round(at, char, person, task) == [at |-> at, char |-> char, person |-> person, task |-> task]

Resting(at) == Round(at, Nobody, Nobody, FALSE)

Moved(at) == [loop EXCEPT !.at = at]

TypeOK ==
  /\ links \in Seq(People \X Chars) /\ IsInjective(links)
  /\ stale \in 0..Len(links)
  /\ cached \subseteq Chars
  /\ tasks \in Seq(Chars) /\ IsInjective(tasks)
  /\ loop \in [at : {"first", "fetching", "fetched", "stamping", "linking", "posting", "resting", "dead"},
               char : Chars \cup {Nobody}, person : People \cup {Nobody}, task : BOOLEAN]
  /\ loop.at \in {"fetching", "fetched", "stamping", "linking", "posting"} => loop.char \in Chars
  /\ rechecks \in 0..MaxRechecks /\ crashes \in 0..MaxCrashes

\* A character may have gone since it was linked.
Init ==
  /\ links \in {<<>>} \cup {<<l>> : l \in {k \in Links : k[2] \in Gone}}
  /\ stale = 0
  /\ cached = {}
  /\ tasks = <<>>
  /\ loop = Resting("first")
  /\ rechecks = 0
  /\ crashes = 0

IsStale(l) == \E i \in 1..stale : links[i] = l

LinksOf(c) == {l \in ToSet(links) : l[2] = c}

---------------------------------------------------------------------------
(* Storing                                                                 *)

\* Mutant: the link is added again.
StampedAgain(l) == Append(links, l)

\* Session.merge of a link, stamped now: inserted, or moved behind all others.
Stamped(l) == Append(RemoveFirst(links, l), l)

StampLink(l) ==
  /\ links' = Stamped(l)
  /\ stale' = IF IsStale(l) THEN stale - 1 ELSE stale

\* The coroutine that writes without awaiting holds the bot's event loop.
LoopYields == loop.at \notin {"stamping", "linking"}

\* Time passes: the oldest link that is not stale becomes so, or a cached sheet.
LinkAges ==
  /\ stale < Len(links)
  /\ stale' = stale + 1
  /\ UNCHANGED <<links, cached, tasks, loop, rechecks, crashes>>

SheetAges(c) ==
  /\ c \in cached
  /\ cached' = cached \ {c}
  /\ UNCHANGED <<links, stale, tasks, loop, rechecks, crashes>>

---------------------------------------------------------------------------
(* Members                                                                 *)

\* /setlodestone: the sheet comes from the cache or the Lodestone while the bot waits.
\* A failed fetch and a person who is not registered change nothing.
SetLodestone(l) ==
  /\ LoopYields
  /\ l[2] \in cached \/ l[2] \notin Gone
  /\ cached' = cached \cup {l[2]}
  /\ StampLink(l)
  /\ UNCHANGED <<tasks, loop, rechecks, crashes>>

\* The recheck button, for one of the links of the person: the task is merged with a new
\* created_at.
Recheck(c) ==
  /\ LoopYields
  /\ rechecks < MaxRechecks
  /\ LinksOf(c) # {}
  /\ rechecks' = rechecks + 1
  /\ tasks' = Append(RemoveFirst(tasks, c), c)
  /\ UNCHANGED <<links, stale, cached, loop, crashes>>

---------------------------------------------------------------------------
(* The loop                                                                *)

\* Mutant: the person of the round before stays.
PersonKept(c) == IF loop.person = Nobody THEN {l[1] : l \in LinksOf(c)} ELSE {loop.person}

\* The person of the first link with that character; which is first is not specified.
PersonsFor(c) == IF LinksOf(c) = {} THEN {Nobody} ELSE {l[1] : l \in LinksOf(c)}

AtTop == loop.at \in {"first", "resting"}

PickTask ==
  /\ AtTop
  /\ tasks # <<>>
  /\ \E p \in PersonsFor(Head(tasks)) : loop' = Round("fetching", Head(tasks), p, TRUE)
  /\ UNCHANGED <<links, stale, cached, tasks, rechecks, crashes>>

\* Without tasks the link fetched longest ago is picked, if it is older than three hours.
PickLink ==
  /\ AtTop
  /\ tasks = <<>>
  /\ stale > 0
  /\ loop' = Round("fetching", links[1][2], links[1][1], FALSE)
  /\ UNCHANGED <<links, stale, cached, tasks, rechecks, crashes>>

NothingToDo ==
  /\ loop.at = "first"
  /\ tasks = <<>>
  /\ stale = 0
  /\ loop' = Resting("resting")
  /\ UNCHANGED <<links, stale, cached, tasks, rechecks, crashes>>

\* Reading the next task raises.  In the first round sleep_time is not yet set, the
\* handler's own sleep raises, and the loop is gone for as long as the bot lives.
PickFails ==
  /\ loop.at = "first"
  /\ loop' = Resting("dead")
  /\ UNCHANGED <<links, stale, cached, tasks, rechecks, crashes>>

\* fetch_character in its thread: the cached sheet, or a new one, which it caches.
Fetch ==
  /\ loop.at = "fetching"
  /\ loop.char \in cached \/ loop.char \notin Gone
  /\ cached' = cached \cup {loop.char}
  /\ loop' = Moved("fetched")
  /\ UNCHANGED <<links, stale, tasks, rechecks, crashes>>

\* Mutant: the task is deleted all the same.
TasksWithout == RemoveFirst(tasks, loop.char)

\* A task whose fetch failed stays where it is.
TasksAfterFailure == tasks

FetchFails ==
  /\ loop.at = "fetching"
  /\ loop.char \notin cached
  /\ loop' = Resting("resting")
  /\ tasks' = TasksAfterFailure
  /\ UNCHANGED <<links, stale, cached, rechecks, crashes>>

\* The thread's answer is taken up: cache_character, whether or not the sheet is new.
CacheSheet ==
  /\ loop.at = "fetched"
  /\ cached' = cached \cup {loop.char}
  /\ loop' = Moved("stamping")
  /\ UNCHANGED <<links, stale, tasks, rechecks, crashes>>

\* update_lodestone_fetched_at stamps the first link with the character.
StampFirst ==
  /\ loop.at = "stamping"
  /\ IF LinksOf(loop.char) = {} THEN UNCHANGED <<links, stale>>
     ELSE \E l \in LinksOf(loop.char) : StampLink(l)
  /\ loop' = Moved("linking")
  /\ UNCHANGED <<cached, tasks, rechecks, crashes>>

\* Mutant: the first link's stamp is thought to be enough.
NoLink == {}

\* The link set_lodestone_link merges, if a person was found.
LinkToStamp == IF loop.person = Nobody THEN {} ELSE {<<loop.person, loop.char>>}

StampPicked ==
  /\ loop.at = "linking"
  /\ IF LinkToStamp = {} THEN UNCHANGED <<links, stale>>
     ELSE \E l \in LinkToStamp : StampLink(l)
  /\ loop' = Moved("posting")
  /\ UNCHANGED <<cached, tasks, rechecks, crashes>>

\* Mutant: only a person's own round ends a task.
TasksIfNobody == IF loop.person = Nobody THEN RemoveFirst(tasks, loop.char) ELSE tasks

TasksAfterRound == IF loop.task THEN RemoveFirst(tasks, loop.char) ELSE tasks

\* The posts of the character's parties have been edited, failures logged; then the task
\* goes, also one that was asked for again meanwhile.
FinishRound ==
  /\ loop.at = "posting"
  /\ tasks' = TasksAfterRound
  /\ loop' = [loop EXCEPT !.at = "resting", !.task = FALSE]
  /\ UNCHANGED <<links, stale, cached, rechecks, crashes>>

Crash ==
  /\ crashes < MaxCrashes
  /\ crashes' = crashes + 1
  /\ loop' = Resting("first")
  /\ UNCHANGED <<links, stale, cached, tasks, rechecks>>

\* A call of the database raises, or the number of a channel does not parse: the round ends
\* where it stands, its task stays, and the loop goes on.
RoundAborts ==
  /\ loop.at \in {"fetched", "stamping", "linking", "posting"}
  /\ crashes < MaxCrashes
  /\ crashes' = crashes + 1
  /\ loop' = Resting("resting")
  /\ UNCHANGED <<links, stale, cached, tasks, rechecks>>

Work == PickTask \/ PickLink \/ NothingToDo \/ CacheSheet \/ StampFirst \/ StampPicked \/ FinishRound

Next ==
  \/ Work \/ Fetch \/ FetchFails \/ PickFails \/ RoundAborts \/ Crash \/ LinkAges
  \/ \E c \in Chars : SheetAges(c) \/ Recheck(c)
  \/ \E l \in Links : SetLodestone(l)

\* The loop goes on as long as it lives, and whoever asks the Lodestone for a character
\* that exists again and again is answered at last.
FairSpec ==
  /\ Init /\ [][Next]_vars
  /\ WF_vars(Work) /\ WF_vars(Fetch \/ FetchFails)
  /\ \A c \in Chars \ Gone : SF_vars(loop.char = c /\ Fetch)

---------------------------------------------------------------------------
(* Properties                                                              *)

Queued(c) == c \in ToSet(tasks)

\* A task leaves the table only after its character's sheet, stamp and link have been
\* stored: a failed fetch or the death of the bot never loses one
\* (delete_scraper_task is the last step of a round).
TaskSurvives ==
  [][\A c \in Chars : Queued(c) /\ ~Queued(c)' =>
       loop.at = "posting" /\ loop.char = c]_vars

\* Who is linked to whom is decided by /setlodestone alone: the merge of the scraper
\* never inserts a link, neither for a person carried over from another round nor for
\* one who linked another character while the sheet was fetched.
ScraperLinksNobody ==
  [][ToSet(links') # ToSet(links) => UNCHANGED loop]_vars

\* A character that cannot be fetched is not in the way.
Unblocked == ~(\E c \in Gone : Queued(c) \/ LinksOf(c) # {})

\* Every task ends, whatever fails meanwhile and however often, unless the loop died in
\* its first round or a character that is gone is queued or linked.
TaskEnds ==
  \A c \in Chars \ Gone : Queued(c) ~> (~Queued(c) \/ loop.at = "dead" \/ ~Unblocked)

\* Every link that has become stale is fetched again, also when two people are linked to
\* the same character and update_lodestone_fetched_at stamps the other's link.
StaleIsRefreshed ==
  \A l \in Links : IsStale(l) ~> (~IsStale(l) \/ loop.at = "dead" \/ ~Unblocked)
================================================================================
