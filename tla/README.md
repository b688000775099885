# A verification of ffxivpp

ffxivpp serves one Free Company of Final Fantasy XIV: a board of crafting quests
shared between a web site and a Discord bot, a party planner, a keybind trainer and a
few tools around them. This directory holds TLA+ models of its core, the TLC
configurations that check them on small instances, and theorems checked by TLAPS.

    tlc -workers 2 -config MCQuestboard.cfg MCQuestboard
    tlapm QuestboardProofs.tla
    tlc -workers 2 -config MCTrainerSync.cfg MCTrainerSync
    tlapm TrainerSyncProofs.tla
    tlc -workers 2 -config MCBoardWatch.cfg MCBoardWatch
    tlapm BoardWatchProofs.tla
    tlc -workers 2 -config MCReminders.cfg MCReminders
    tlapm RemindersProofs.tla
    tlc -workers 2 -config MCScraper.cfg MCScraper
    tlapm ScraperProofs.tla
    tlc -workers 2 -config MCHomePost.cfg MCHomePost
    tlapm HomePostProofs.tla
    tlc -workers 2 -config MCQuestWalk.cfg MCQuestWalk
    tlapm DataProofs.tla
    tlapm QuestGrowthProofs.tla

## The system

Three processes share one SQLite database (WAL mode): two synchronous gunicorn workers
(`deploy/ffxiv-flask.service`) and the Discord bot, one asyncio process whose database
calls block. Nothing else coordinates them.

| component | source | state | operations | interacts by | hard behaviour |
|---|---|---|---|---|---|
| requirement tree | `core/quests.py` | a tree of item nodes with quantities | build, number nodes, node statuses, completion, shopping list | pure, called by both surfaces | positional ids, sums of fractions, rounding, truncation |
| quest database | `core/questdb.py` | quests, pledges, events, reminder opt-ins; a change counter per process | create, pledge, withdraw, turn in, set status, replace tree, deadline, reminders | shared tables | read-compute-write without a lock, last writer wins |
| web board | `app/questboard.py` | price cache per process | JSON API, auto-fulfil, re-expand, event stream | calls the two above; asks the wiki | completion checked after the commit; re-expansion spans a network call |
| Discord board | `bot/questboard.py` | thread and message ids on the quest | commands, embeds, reminder loop | calls the two above; awaits Discord | embeds stale or out of order, reminders missed or doubled |
| recipe lookup | `core/wiki.py` | page cache | lookup by name | HTTP | stale pages: two lookups may differ |
| scraper | `bot/commands.py`, `app/lodestone.py` | task queue, character cache | scrape loop, re-check requests | queue table | a failing head of the queue, re-check lost during a fetch |
| accounts, party planner | `app/db.py`, `app/routes.py`, `app/compute.py`, `static/partydashboard.html`, `bot/commands.py` | people, parties, exclusions, active party, home posts | edit, compute best party, join and leave by a post | shared tables | whole-pool rewrites from stale reads, replies out of order, posts moved while others click |
| schema creation | `app/db.py`, `app/trainer/store.py` | the schema | create, migrate | file lock | three processes at once |
| chest | `app/chest.py` | snapshots | ingest, suggest | writes quest events | session removed inside a loop |
| trainer | `app/trainer/`, `static/trainer/js/` | local sessions, account copy | drill, save, load | HTTP, retry by hand | lost responses, sessions finished during a save |
| voyages, teamcraft | `core/voyages.py`, `core/teamcraft.py` | none | parse, convert | pure | |
| authentication | `app/auth.py` | web session | OAuth | external | |
| deployment | `deploy/` | checkout, services | poll, deploy | shell | a step that fails after the pull |

What makes each correct:

- *requirement tree*: all users of a node id mean the same node; a delivery on a node
  covers what is below it and nothing else; re-expansion only adds.
- *quest database and surfaces*: nobody's promise is changed or lost; a withdrawn
  pledge stays withdrawn; the row of a pledge agrees with the event log; a delivered
  quest closes; nothing but the board's rule and officers changes a status.
- *reminders, mirror, stream*: no chosen time is passed over; what a member sees
  eventually is what is stored. (That one time brings one reminder, and that every change
  reaches every page, is promised and not kept: see the disagreements below.)
- *scraper*: every request is eventually served; a request made later than a fetch is
  not answered by it.
- *party planner*: what is shown is complete and best; a party created anew inherits
  nothing; there is always a post to join by, and it shows what its click did.
- *trainer*: every finished session is counted exactly once.
- *deployment, schema*: after a failure the next attempt repairs.

`PROJECT.json` lists the hazards behind this, each at its line.

## The modules

| module | models | checked by | proofs |
|---|---|---|---|
| `QuestTree` | trees, node ids, merge, accounting: operators | all | `DataProofs`, lemmas other proofs build on |
| `QuestGrowth` | a tree that is built, stored, paid into and re-expanded | with `QuestWalk` | `QuestGrowthProofs` |
| `QuestWalk` (extends `QuestGrowth`) | the recursive walks as written, over that tree | `MCQuestWalk` | with `QuestGrowth` |
| `Questboard` | the quest database under its handlers | `MCQuestboard` | `QuestboardProofs` |
| `QuestLedger` | what the board promises, as a book kept by several clerks | as a property of `Questboard` | the refinement, in `QuestboardProofs` |
| `TrainerSync` | training history between a user's pages, their localStorage and the account | `MCTrainerSync` | `TrainerSyncProofs` |
| `Prices` | the price cache of each web process and the fetches of its threads | with `BoardWatch` | with `BoardWatch` |
| `BoardWatch` (extends `Prices`) | how a change reaches pages (counter, event streams, reloads, slots of a worker) and the message of the quest's thread | `MCBoardWatch` | `BoardWatchProofs` |
| `Reminders` | opt-ins of both surfaces and the reminder loop against the clock | `MCReminders` | `RemindersProofs` |
| `Scraper` | links, cache, tasks and the scraper loop | `MCScraper` | `ScraperProofs` |
| `PartyPlan` | `app/compute.py`: a pure computation, and what it promises | with `HomePost` | with `HomePost` |
| `Roster` (extends `PartyPlan`) | parties, members, jobs and constraints under dashboards and the bot's job view | with `HomePost` | with `HomePost` |
| `HomePost` (extends `Roster`) | the posts by which parties are joined and left | `MCHomePost` | `HomePostProofs` |

### QuestTree, QuestGrowth and QuestWalk

A tree is a function from paths (sequences of child numbers) to `[item, qty]`. The code
numbers nodes with a counter in a recursive walk; `NodeId` defines the same numbering
without recursion, as the number of nodes that come before in document order, which is
what the other modules compute with. `QuestWalk` contains the counters and searches as the
code has them, as recursive functions over the paths of the tree, and `WalksAgree` compares
the two and looks at the order of the shopping list. What a quest's tree goes through (`build_tree`, `create_quest`, turn-ins, additive
merges) is the state machine of `QuestGrowth`, which has no recursion and is proved about.

Floats are replaced by exact fractions. `round` is half to even, `int()` truncates toward
zero. What the floats would add, an error of one unit in the last place at a rounding
boundary or a completion that misses 1.0 by an ulp, is outside the model. Item names and
ids are one thing here: the identity check of a re-expansion (same id, or root without
id) and the comparison of children by name are both comparisons of items, and the order of
names is that of the numbers which stand for them. Quality, source
flags and categories are left out; nothing computes with them.

`build_tree`'s recursion is used by the code with a lookup that knows no recipe, so a
tree stored by a handler is a root and its direct children (`FlatTree`). `QuestGrowth`
nevertheless builds arbitrary small trees, because the walks are written for them, and
because the documents describe full expansion.

### Questboard

Variables and code:

| variable | code |
|---|---|
| `status`, `tree` | columns of `Quest` |
| `pledges` | rows of `QuestPledge` (`NoPledge`: no such row) |
| `ledger` | per pledge, the sum of `qty` in its `turn_in` events |
| `statusBy` | whether the last `status_changed` event is auto-fulfil's (`board`) or an officer's |
| `task` | what the handler running in each process has read and not yet used |
| `orphaned` | history: the quests whose last closing handler died, until the next turn-in |

A handler is two steps, `...Read` and `...Commit`. The reason is how the code uses the
database: a SELECT outside a transaction holds no lock after it returned (pysqlite opens
its transaction at the first INSERT or UPDATE), SQLAlchemy's UPDATE names only the
columns whose value differs from the one loaded, and every function commits once. So
between a handler's SELECT and its commit any other handler may commit, and the commit
writes the columns it computed over whatever is there. `app/questboard.py`'s `api_turnin`
goes on after `mark_turned_in` with three more reads and a write, each its own step:
`CheckStatus`, `CheckAmounts`, `FulfilRead`, `StatusCommit`. `update_quest_tree` begins
with a SELECT of its own, which decides nothing but whether the row exists (nothing
deletes rows); it is folded into `MergeCommit`.

One case is worth naming. A column equal to the value read is not written:
`StatusCommit` leaves the status alone when `from = to`, and still writes the event.

Left out: requests the code refuses (they change nothing), titles, timestamps,
deadlines, voyage fields, reminders, the change counter. A turn-in is taken to name
the quest its pledge belongs to, as the page's form does. `Asks` contains 0 for a turn-in
without a quantity: the API turns a missing quantity and a 0 into None.
`Restart` is a process that dies, or a statement that fails, between two steps.

`QuestLedger` is what a member may rely on. Its clerks are the processes, each with one
thing on its desk: a delivery it has taken up, with what was delivered when it did, or the
way to closing a quest (look whether it is open, sum up, close). It says how the new value
of a quantity is related to the old one, and the refinement mapping supplies the value: a
delivery that no other one on the same pledge overtook is added to what was delivered, an
overtaken one leaves no more than the log has; and a clerk closes a quest only after it
found it open and then delivered. Trees, re-expansions and the officers' forms are not in it.

`Recipes` stands for `core/wiki.py` and is external: a lookup answers any of them, so
two lookups may differ, which the page cache allows (a stale page is fetched again).

### TrainerSync

| variable | code |
|---|---|
| `tab` | the object `state` of `static/trainer/js/app.js` in each page: `sessions`, `remoteStats` (`remote`), `syncing` |
| `disk` | the same two in localStorage (`storage.js`), one per browser |
| `save`, `load` | the request a page is waiting for, and how far the server has come with it |
| `stray` | batches on the way to the server after their page was closed or its connection broke |
| `rows` | per session, its rows in the `sessions` table of the account |
| `profile` | whether the account has a row in `profiles` |
| `home` | history: where a finished session was finished |

JavaScript runs a function without interruption up to its `await`, so `saveToAccount` is
`SaveStart` and, when the answer is there, `SaveDone` or `SaveFailed`; in between any other
handler of the page may run. The server's handler is `SaveProfile`, `SaveSessions` (one
transaction each) and `AnswerSave`, which reads the counters. `Break` is a connection
that fails, or a handler that raises, at any of these points: the browser learns nothing
of what was stored. A request that was sent may still arrive (`StoreStray`) long after
its page is gone. `Refuse` is the check of the number of sessions; `Accepted` the walk
that stops at the limit on attempts. The checks of single fields (`app/trainer/views.py:269`),
which skip malformed sessions and attempts, are left out: the page sends none.

Sessions are numbered in the order in which they finish, which is the order of the list
in every page, so the list is a set. Every session has `Attempts` attempts; a session in
which the walk reaches the limit is stored with the attempts up to there, and counts as
stored. The counters the server sends are sums over its sessions and are modelled as the
set of them. Left out: the two files, bar selection, order and taught keys, which
travel with a save and overwrite each other by design; the buttons' other conditions
(signed in, a file uploaded); localStorage that is full, which `writeJSON` reports and
nobody looks at; the drill and its scores.

### BoardWatch and Prices

| variable | code |
|---|---|
| `changes` | number of committed changes of the board; a change is known by its number |
| `counter` | `_change_version` of `core/questdb.py`, one per process |
| `unbumped` | requests that have committed and not yet called `_bump_change_version` |
| `page` | what a browser shows: the changes it certainly includes; whether it is loading or told to reload |
| `stream` | the generators `_sse_events`, with `seen` and the browser that listens, if one still does |
| `thread` | the two ids `ensure_thread` stores, and how far it has come |
| `message`, `refreshes` | the message on Discord and the calls of `refresh_quest_message` |
| `price`, `fetches` | `_price_cache` of a process, and its threads between the check and the entry |

`Slots` is how many requests a worker serves at a time. `deploy/ffxiv-flask.service`
starts gunicorn with sync workers, which is 1; `app.py` run by itself gives every request a
thread. A stream occupies a slot (`Free`), also after its browser went away, because the
generator notices only when it writes, and it writes only when the counter moved. A change
is any of the calls that end in `_bump_change_version`; which one it is makes no difference
to those who watch. Commit and bump are two steps, because a page may load in between.

An edit of the message is three steps: the bot's command commits, `fetch_message` ends and
the embed is built, the edit arrives. Edits may arrive in any order or be refused.
`ensure_thread` is called from `/quest-create` only; if the bot dies or a call fails before
the ids are stored, nothing repeats it (`lost`).

In `Prices` time passes in units; an entry is not said to be a price or a failure, since
both are kept alike. `Left` is `now + PRICE_TTL_SECONDS` with the `now` taken before the
fetch. Failures of the market's answer are entries too.

### Reminders

| variable | code |
|---|---|
| `clock` | time in ticks of a quarter of a minute, over a week that repeats |
| `optin` | rows of `ReminderOptIn` (`NoRow`: none) |
| `clicks` | calls of `api_remind` between their read and their write |
| `status`, `owes` | the quest's status, and whether the member has an undelivered pledge on it |
| `healthy` | Discord and the database answer; while they do not, an account may be missing and a read may raise |
| `loop` | where `reminder_loop` stands: asleep, between two entries, awaiting an account, reading pledges, sending |
| `scans`, `awake` | history: rounds begun in this minute; the bot ran all through it |

`api_remind` reads whether there is a row, and in a second step deletes it or stores what the
request asks for, so two clicks may cross. The loop reads the due rows once per round and
then, per entry, the account, the quest and the pledges, each when it comes to it; so
somebody may opt out or deliver during a round.
`MaxRound` bounds the time the awaits of one round take. Entries of one round are taken in
any order: the query names none. Left out: the text of a reminder. Quiet hours and the ping
of the thread described in `docs/questboard.md` are not in the code.

### Scraper

| variable | code |
|---|---|
| `links` | `lodestone_links`, in the order of `fetched_at` |
| `stale` | how many of them are older than three hours |
| `cached` | characters whose sheet in `character_cache` is not older |
| `tasks` | `scraper_tasks`, in the order of `created_at` |
| `loop` | where `scraper_loop` stands, with the character, the person and whether it was a task |

A round is: pick (a task, else the oldest link if it is stale), fetch in a thread,
`cache_character`, `update_lodestone_fetched_at`, `set_lodestone_link`, edit posts, delete the
task. Each database call is a step because the bot may die between any two; between
`StampFirst` and `StampPicked` no other coroutine runs, since nothing is awaited
(`LoopYields`). `/setlodestone` and the recheck button run whenever the loop awaits.
A database call that raises, or a channel number that does not parse, ends the round where
it stands and leaves its task (`RoundAborts`); what goes wrong with a post is caught and
logged. `LinkAges` and `SheetAges` happen at any time: the stamps are written in local time and
compared in different zones, so no relation between the two ages is assumed. Left out:
the parsing of sheets, the rate limit, which only delays, and unlinking, which no code does.

### PartyPlan, Roster and HomePost

`PartyPlan` translates `app/compute.py`: the product of the options, `Valid`, the grouping
by role, the choice of the best and the stable sort. `Allowed` and `MeetsPromise` say what
a plan promises without saying how: functions and sets in place of sequences and folds.

| variable | code |
|---|---|
| `parties`, `jobs`, `members`, `settings`, `home`, `active` | the tables `parties`, `people`, `party_people`, `party_constraints` with `party_exclusions`, the column `home_message_id`, and `app_state` |
| `dash` | the script of `partydashboard.html` in each admin's browser, with the calls it has under way |
| `view`, `saving` | the bot's `MyJobsView` of each user, and `_save_person` between its three transactions |
| `plan` | the computation behind `/api/compute/stream`, between its two reads |
| `posts`, `clicks` | messages sent for parties, and callbacks of `PersistentPartyView` and `/setup-home-channel` under way |
| `changes`, `requests` | history: how often a party's members changed; what was asked for so far |

An edit of the list saves it at once (one step: the server handles a save in one
transaction), while replies that only fetch are separate steps and may be answered in any
order. A party that is gone refuses rows (`Accepts`, foreign keys are on) and leaves none
(`Cascade`). Callbacks of the bot are cut where they await Discord; `Idle` says that
`_save_person`, which awaits nothing, holds the bot's loop, though not the web's.
`Unreadable` stands for constraints saved with a number field left empty, on which the
computation and the embed raise.

Left out: polls, Discord accounts, the name that follows a person's character, the home
channel chosen on the dashboard, and two calls the dashboard never makes
(`PUT /api/exclusions`, `/api/people-pool/remove`); and the answer 'Illegal job' of the compute
stream (`app/routes.py:180`), for jobs that no list in the model holds.

## The runs

| run | instance | question |
|---|---|---|
| `quest_walk` | trees of 1 to 3 nodes, requirements 2 and 3, two recipes that overlap with the tree, up to 3 units turned in (1 626 states) | do the walks agree, does accounting move only what it should |
| `board` | two processes that may die at any step; 1 member, 1 quest of 2 units with a part entered by hand, 2 pledges, one recipe, fairness (288 963 states) | does the board implement `QuestLedger`, and what survives interleaving and death |
| `trainer_sync` | two machines with a page each, two sessions, localStorage and saves of one session, fairness (242 722 states) | is training history counted once and never lost |
| `board_watch` | a worker with one slot and a threaded one, one browser, 2 streams, 2 changes, one restart, prices with a time to live of 2 units and fetches of up to 1, fairness (215 970 states) | does a change come to be seen, how old may a price be |
| `reminders` | a week of 2 days of 2 minutes of 4 ticks, a daily and a weekly reminder, one of which changes, rounds of up to half a minute, fairness (162 048 states) | is no minute missed, do reminders go on and stop |
| `scraper` | 2 people, 3 characters of which one is gone, 2 rechecks, one death of the bot or round that raises, fairness (107 888 states) | does every request and stale link get its turn |
| `party_plan` | 8 people who just form a party and one to register, 2 parties, 2 dashboards, 3 requests, 3 posts, 2 callbacks at a time (608 925 states, with symmetry) | are plans right, parties clean, posts alive |
| `over_turn_in`, `reexpand_race`, `surfaces_disagree`, `drill_while_saving`, `streams_deaf` | minimal | statements of the repository that the code does not meet |

**Bounds.** Three stored nodes give every shape the walks distinguish (a chain, a fork, a
node with a sibling after its child is reached by a merge), and a re-expansion adds up
to two more. Two processes are enough for every race of a read and a commit: the
commits touch one row each. Two pledges let one be delivered while the other is read or
withdrawn, and it takes both to complete the quest of 2. `MaxDelivered` stops turn-ins of a
pledge once its log holds that much. It is looked at when a turn-in reads, so that with 1 two
that overlap still both commit, which is the lost update; `over_turn_in` has 2, for two
turn-ins in sequence. The run `board` turns in one unit of two, a partial delivery; a turn-in
without a quantity is in `over_turn_in`, and either is any amount in the proofs. `PledgeRead` asks for a free row, so that a handler is never stuck for want of
one. `quest_walk` bounds the sum of credits by `MaxAmount`. In `trainer_sync` two sessions
in one page exceed every limit (a kept list of one, a save of one), and one in each page
make two saves race in the account; `MaxStray` allows one request without a sender, which
is enough for it to overtake or repeat a save; one load is under way at a time. Two
strays with equal batches count as one, since storing is idempotent; a load is asked for
only while there is no stray, but may be overtaken by one that appears later.

In `board_watch` both kinds of worker are there because they behave differently; two streams
are one that is abandoned and the one that replaced it; two changes are enough for a page to
load between a commit and a bump, and for two edits to cross. One restart resets a counter
under an open page's reconnection. A time to live of 2 lets a price grow old between its
fetch and its end. In `reminders` two days tell daily from weekly, two minutes tell the minute chosen
from another, and a quarter of a minute is the loop's start delay; `MaxRound = 2` ticks is
the half minute within which `NoMinuteMissed` holds. Only one of the two entries changes:
the other is there to be behind it in a round, and to be hurt by its failure. In `scraper`
two links to one character are what makes stamping the first link differ from stamping
the picked one; the second link of a person and the character that is gone are the ways
to be in the wrong order. Deaths and rounds that raise share one bound, `MaxCrashes`. In `party_plan` eight people are the least for which the standard
composition means anything; their jobs allow several divisions of the roles and several
choices within one. Three requests reach create after delete with a save in between, and
a move during a move; the initial state has a page loaded and a post sent, so that none
are spent on the way there. The run stops when the requests are used up, hence
`CHECK_DEADLOCK FALSE`.

**Fairness.** `FairSpec` has weak fairness of `Step(w)` for each process: a handler that
has started runs on. In a gunicorn sync worker and in a database call of the bot nothing
waits for another request; SQLite makes a writer wait for another's commit, which is
short. Requests (`Create`, `Request`) are not fair: nobody has to press a button. Nor is
`Restart`; a process that dies after its turn-in committed really leaves its quest open, which
`Closable` excepts by way of `orphaned`, until another turn-in looks at the quest
again. In `TrainerSync` each page's `Saving` is weakly
fair: the browser settles every `fetch`, with an answer or an error, and runs what awaits
it. The user's own steps and loads are not fair.

In `BoardWatch`, requests under way end (`Bump`), streams poll once a second (`Poll`), and a
page told to reload does so and is served (`Reload`, `LoadPage`); nobody has to open a board,
connect or change anything. `LoadPage` is weakly fair although a worker may be full: the
property is about pages that have a stream in a worker with room for a request beside it.
`streams_deaf` has the same fairness: its counterexample is not a poll that never comes, but
polls that see a counter nobody moves.
In `Reminders` time passes, and what the loop awaits ends (discord.py's calls have
time limits). In `Scraper` the loop goes on while it lives, a fetch ends with an answer or an
error, and a character that exists is fetched if it is tried again and again (strong
fairness: each single attempt may fail). `HomePost` has no liveness.

### What they show

`quest_walk`
- `WalksAgree`: `assign_node_ids`, `_stored_tree_node_ids` and the search in
  `_chain_fraction` use one numbering (`NumberingsAgree`), and the shopping list names
  the parts at the bottom of the tree deepest first (`DeepestLeavesFirst`).
- `ParentCoversDescendants`: below a fulfilled node nothing is outstanding, and a
  complete quest has an empty shopping list, in spite of rounding.
- `CreditMovesOnlyTheSubtree`: a turn-in changes no figure outside its subtree and
  never makes more outstanding.
- `StoredIdsAreStable`, `MergeIsIdempotent`: re-expansion is additive and can be repeated.

`board`
- `ServesLedger`: two processes, interleaved and dying anywhere, implement `QuestLedger`: no
  delivery is taken up on a retracted promise, one that was taken up before still counts, the
  board closes only what one handler found open and then delivered, promises are never edited.
  An officer's cancellation may fall between finding and closing and is then overwritten;
  the ledger allows that, because the code does.
- `LedgerExact`: a pledge on which no two turn-ins ever overlap has a row equal to its log,
  whatever else runs, is withdrawn or dies. So the overlap of two turn-ins of the same pledge
  is the only way to lose an update.
- `LedgerCoversTurned`: and where one is lost, the row loses it, never the log.
- `RowsKeepTheirPledge`: no interleaving revives a withdrawn pledge or edits a promise.
- `PledgesOnTree`, `PledgesKeepTheirNode`: with one recipe, live pledges stay on the tree, on the
  same item and requirement, even when re-expansions overlap (each computes the same merge).
- `CompleteQuestIsWatched`, `CompleteQuestCloses`: the turn-in that completes a quest is
  followed by its closing, unless an officer decides, what made it complete is
  withdrawn or overwritten, or the last handler on the way to closing it dies; the next
  turn-in, on whatever pledge of the quest, then repairs that.

`trainer_sync`
- `CountedOnce`: retries, late requests and several machines never count a session twice.
- `AnswerCountsBatch`: the counters in an answer include what the page now forgets.
- `NothingLost`: a session is in the account or waits in the browser, unless it aged out
  of localStorage; here no session finishes while its page saves (`DrillWhileSaving`).
- `SaveEnds`: whatever becomes of a request, the page can save again.

`board_watch`
- `ChangeReachesPage`: a change in the process a page's stream runs in is shown on the page
  or the page has lost its stream; it cannot fall between the commit, the bump, the reload and
  the new baseline.
- `EditCoversItsChange`: an embed never shows less than the change it was made for.
- `PriceIsFresh`: no price is shown at the age of its time to live, however slow the fetch
  and whichever thread stores last.

`reminders`
- `NoMinuteMissed`: with rounds of up to half a minute every minute of a running bot is
  scanned.
- `KeepsReminding`: failures, of Discord, of the database or of somebody else's entry, end no
  more than the round.
- `StopsReminding`: an opt-out, a delivery or a closed quest is obeyed in the end.

`scraper`
- `TaskSurvives`: a task is deleted only after its sheet, stamp and link are stored.
- `ScraperLinksNobody`: the loop's merge of a link never inserts one.
- `TaskEnds`, `StaleIsRefreshed`: unless the loop died in its first round or a character
  that is gone is queued or linked, every task and every stale link gets its turn.

`party_plan`
- `PlanIsBest`: what is shown counts every allowed choice, shows each division of the roles
  once, by the best choice of its kind, and the better ones first.
- `NewestPostIsLive`: no crossing of moves and setups, failures included, deletes the last
  post of a party.
- `EditCoversItsClick`: the embed on its way was built after the click's own change.
- `NewPartyIsEmpty`: what stale dashboards save for a deleted party never turns up in one
  created under its name.

### What the code also does

Facts of the models that contradict no statement of the repository, kept here because they
delimit the properties above:

- An abandoned stream holds its slot until the counter of its worker moves; two of them
  occupy both sync workers until gunicorn's time limit restarts them.
- Two edits of a thread's message may arrive in the wrong order and stay so until the next.
- Rounds of the reminder loop whose awaits take more than half a minute skip minutes.
- Two status changes that overlap may leave another status than the last event says;
  `docs/surfaces.md:42` announces last-write-wins per field, and does not order the log.
- A character the Lodestone does not know, once it is queued or linked longest ago, keeps
  everything behind it waiting. A recheck made during its character's fetch is deleted with
  the older task, and one inside the cache's three hours fetches nothing.
- If the first read of the scraper loop fails, the handler of the failure itself raises and
  the loop ends for the life of the process.
- `_save_person` writes everybody's jobs back as it read them; an edit made on the web in
  between is undone.
- A dashboard shows, and with its next edit saves, the list of another party if replies
  arrive out of order. Plans are computed for the active party of the server, whichever
  party the page shows.
- `home_message_id` may name a deleted post until the next move, and constraints with an
  emptied number make every computation and embed of the party fail.

### Where the code and its documents disagree

Shown by a run each:

- `over_turn_in`: the clamp tested by `test_over_turnin_clamped_to_pledge` is missing
  when no quantity is given; two such turn-ins count double.
- `reexpand_race`: overlapping re-expansions with a recipe that changed in between drop a
  node with a live pledge. The comment in `update_quest_tree` asks callers for a merge that
  keeps ids; the merge does, the write of a tree read earlier does not.
- `surfaces_disagree`: a created quest may hold an ingredient with quantity 0, on which the
  web page fails and Discord shows 1.
- `drill_while_saving`: the list is taken before the request and emptied after it, so a
  session that finishes in between is lost.
- `streams_deaf`: the board's page says it reloads "whenever any quest changes"
  (`templates/questboard.html:50`; so do `docs/surfaces.md:35` and the comment at
  `core/questdb.py:26`). The counter a stream polls lives in one process: a change made by the bot
  or in the other web worker moves another one, and the page is never told. On the deployed
  workers the stream moreover occupies the one slot of its own, so every change is of this
  kind. That gunicorn restarts a silent worker after its time limit does not help: the
  browser connects again, takes a new baseline, and loads nothing.

In the models, and not the subject of a run:

- `docs/questboard.md:72` gives members daily or weekly reminders at a time of day they pick.
  The loop compares minutes and sleeps half a minute after each round, so that with quick
  rounds it scans a minute twice and sends everybody due two messages (`scans` in
  `Reminders` reaches 2; nothing remembers what was sent). Quiet hours (line 76 there) and
  the ping of the thread are not in the code.
- `docs/surfaces.md:37` has the bot edit a quest's embed on every change, wherever it was made.
  Only the bot's own commands refresh the message: in `BoardWatch` `Commit`, a change on the
  web, leaves `refreshes` alone.
- `core/quests.py:230` calls the shopping list "leaf-first". It sorts by the distance to the root
  of a node's deepest part, so an intermediate product ties with that part and comes before it
  if its name does. `DeepestLeavesFirst`, a part of `WalksAgree`, therefore speaks of the
  leaves only, among which the order is the one announced.

Two more ways to lose sessions are conditions of `NothingLost` and contradict no document:
two tabs of one browser write their lists over each other's, and a save with more
attempts than the server's limit is cut without an error.

## The proofs

Every theorem holds for all values of the constants that the named assumptions allow, and
each is about a property that a run above checks on its instance. A condition on the
constants that a theorem needs beside them is in its statement, and each is
explained here.

### The requirement tree

`DataProofs` holds the lemmas that the proofs about quests and about parties share, on sums
over a finite set, least and largest members, joined sequences and ranks, and those about
`QuestTree`'s operators, most of them on trees of any depth: the root comes first in document order; a merge puts new parts behind the children
of the root (`AppendsBehind`), so that nothing comes before an old node that did not
already and no id moves; fractions along a chain are compared over one common
denominator; `round` keeps the order. Of the trees the handlers store, a root and its
parts, it says which id names which node (`FlatNumbering`). It also says what a walk needs:
a claim that passes from the children of a node to the node holds of every node
(`TreeInduction`), a function defined that way exists and does what its recursion says
(`TreeRecursion`), and what is placed by rank in an order comes out in that order
(`ArrangedByRank`).

The library's induction theorems take an operator as an argument, which no installed prover
can instantiate. Where a claim is about a sum or a chain of ancestors, the proofs take
instead the set of counterexamples and, by `WFMin`, a least one.

`QuestGrowthProofs` proves of `QuestGrowth` and of the walks in `QuestWalk`, for any items,
recipes and bounds:

- `TypeCorrect`: `Spec => []TypeOK`; `Unpaid` (before the quest is stored only the root has
  an amount, 0) makes it inductive.
- `StoredIdsStay`: `Spec => StoredIdsAreStable`, from the lemmas on merges.
- `MergesAreIdempotent`: `Spec => []MergeIsIdempotent`.
- `ParentsCover`: `Spec => []ParentCoversDescendants`. Coverage of a node is the sum of the
  fractions along its chain, so it is at least that of the node above it; the rest is
  the monotony of rounding.
- `CreditsMoveTheSubtree`: `Spec => CreditMovesOnlyTheSubtree`. A node whose figures move
  has the credited one among its ancestors or is it.
- `WalksAlwaysAgree`: `Spec => []WalksAgree`, for trees of any depth, by induction over the
  tree. The walk under a node lists its subtree in document order, each node once
  (`WalkIsInOrder`), so a node's place in it is the number of nodes before it
  (`WalkNumbers`); the ids taken under a node are as many as its subtree has nodes
  (`CountUnfolds`); and the search returns the chain of the node whose id it is given,
  since a subtree without that node returns nothing (`SearchFindsTheChain`).

### The board

`QuestboardProofs` proves of `Questboard` (so for any number of processes, people, quests
and pledges, with restarts or without, unless said otherwise):

- `TypeCorrect`: `Spec => []TypeOK`. `TypeOK` is inductive because it includes
  `RefersOK`: a handler's memory refers to quests and pledges that exist. Without it a
  commit could write a row of a missing quest.
- `LedgerCorrect`: `Spec => []LedgerCoversTurned`. The first half of the invariant, about
  rows, is not inductive: a commit adds to what its handler READ. The second half bounds
  what is remembered by the log, which only grows.
- `RowsAreKept`: `Spec => RowsKeepTheirPledge`, from `TypeOK`.
- `PledgesAreOnTree`, `PledgesKeptTheirNode`: `[]PledgesOnTree` and `PledgesKeepTheirNode` if
  there is one process (`OneProcess`) or every lookup answers the same (`OneRecipe`). One of
  the two is necessary: the run `reexpand_race` is the counterexample. The invariant
  says that stored trees are a root and its children (`TreesShaped`), that a merge in memory
  is the tree it was computed from with one recipe's parts behind (`MergesKnown`), and that
  every pledge, stored or about to be, names a node of the tree (`PledgesAnchored`).
- `CompleteQuestsAreWatched`: `Spec => []CompleteQuestIsWatched`, with any number of processes
  that may all die. A watcher hands over to itself until it has closed the quest
  (`WatcherGoesOn`), and a quest becomes complete by a turn-in only, whose handler then
  watches it. `Untouched` adds that a quest whose status nobody has changed is
  still as it was created; `OrphanedNext` says that only a turn-in ends the exception for
  quests whose last watcher died.
- `LedgerIsExact`: `Spec => LedgerExact`, with any number of processes that may all die.
  `Accounted` is inductive for a pledge with at most one turn-in at a time (`Alone`): row and log agree, and
  whoever is turning in still knows what the row says.
- `BoardServesLedger`: the refinement, `Spec => ServesLedger`, with any number of processes that
  may all die: each initial state is one of `QuestLedger`, and each step, by cases over the
  actions of the handlers, is one of its steps or leaves its state alone. `LedgerCorrect` bounds
  what an overtaken delivery leaves, `TreesAreShaped` makes the sum on the root the condition
  for completion (`DeliveredOnRoot`), and `BoardFulfils` says that the board's own word on a
  status is always 'fulfilled'. A process that dies leaves its desk, which any clerk may do.

### The trainer

`TrainerSyncProofs` proves of `TrainerSync`, for any number of pages, browsers and
sessions and any limits:

- `TypeCorrect`: types, and that a page shows it is saving exactly while a save of its own
  is under way. The proof goes by page: `StepOfPage` says that a step which concerns one
  page leaves the others typed, so each action has to be looked at for one page only.
- `NoDoubleCount`: `Spec => []CountedOnce`, since rows change by `Stored` only (`RowsStep`).
- `AnswersAreComplete`: `Spec => []AnswerCountsBatch`; counters never shrink
  (`CountedGrows`), and no step comes between storing and answering that could take away.
- `SessionsAreKept`: `Spec => []NothingLost` under three conditions: no session finishes
  during a save, one tab per browser (`OneTabPerBrowser`), and a batch that passes
  the check on its size is within the limit on attempts (`BatchesAreStoredWhole`: with the
  code's 200 and 5 000, at most 25 attempts a session). `NothingLost` is not inductive: it
  does not say that what `SaveDone` clears was sent. `KeptInv` adds that an open page
  knows all its localStorage holds, that the batch under way is still the page's list,
  that it is small enough, and that what was acknowledged is counted. TLC finds a
  counterexample when any one of the conditions is dropped.

### Prices, streams and messages

`BoardWatchProofs` proves of `BoardWatch`, for any workers, slots, browsers and bounds. The
invariant falls into parts that concern different variables, each kept by every step
on its own (`PriceStays`, `RefreshStays`, `StreamStays`):

- `PricesAreFresh`: `Spec => []PriceIsFresh`. The inductive form (`PriceInv`) is that what
  an entry has left and its age together never exceed the time to live: storing gives it what
  the fetch has not used up, and a unit of time moves one from the first to the second.
- `EditsCover`: `Spec => []EditCoversItsChange`; `RefreshInv` adds that the change of a
  refresh is committed, so that the embed, built from all that is committed, includes it.
- `TypeCorrect`: `Spec => []TypeOK`. `StreamInv` has the types of what a step of a stream reads.
  That counters stay within `MaxChanges` is not inductive;
  `BumpsCounted` adds that what a worker has counted and has yet to count together are at
  most the changes committed.

### Reminders

`RemindersProofs` proves of `Reminders`, for any calendar, members and delays:

- `TypeCorrect`: `FairSpec => []TypeOK`. `ScansCounted` bounds the scans of a minute
  by the ticks of it that have passed.
- `NeverMissed`: `NoMinuteMissed` if `Interval + MaxRound <= TicksPerMinute` and
  `StartDelay <= TicksPerMinute`: the code sleeps 30 seconds between rounds and 15 at first,
  so rounds must end within 30 seconds. `ScanAhead` is the invariant: in a minute not yet
  scanned that the bot has run through, the latest time of the next scan is within it.

In the run the conditions on `Interval` and `MaxRound` are met with equality. A longer round
makes the next scan come later than the end of the minute.

### The scraper

`ScraperProofs` proves of `Scraper`, for any people, characters and bounds, with deaths of
the bot, failures and members' commands at any time:

- `TypeCorrect`: `FairSpec => []TypeOK`: tasks and links are sequences without repetition
  through every insertion, restamping and deletion.
- `TasksSurvive`: `FairSpec => TaskSurvives`.
- `LinksAreMembersOwn`: `FairSpec => ScraperLinksNobody`. `PickedIsLinked` is the invariant
  that an upsert late in a round needs: the pair it writes was linked when it was picked, and
  no code unlinks.

### Parties and their posts

`HomePostProofs` proves of `HomePost`, and with it of `Roster`, for any people, parties,
dashboards, clicks and posts:

- `TypeCorrect`: `Spec => []TypeOK`: members have a row of their own (the foreign key),
  and no list of jobs, stored, shown on a page, open in a view or about to be written
  back, names a job twice. The loops that edit a list are recursive functions;
  `RunsExist` shows that such a function exists, and `InductionUpTo` follows a claim
  through its rounds. `Bounded` relates home messages and callbacks to the posts sent.
- `NewestPostStays`: `Spec => []NewestPostIsLive`. What is not inductive is deletion: `ClicksInv`
  adds that a move which is about to delete has already sent a later post of its party
  (`ClickMoves`).
- `EmbedsCover`: `Spec => []EditCoversItsClick`, since the counts of changes only grow
  (`Grows`) and an embed is built from the present count (`ClickCovers`).
- `NewPartiesAreEmpty`: `Spec => NewPartyIsEmpty`, from `GoneIsEmpty`: nothing is stored for a
  party that does not exist. Each way to write members, constraints or a post keeps it
  by the foreign key, and deletion by the cascade.
- `PlansAreBest`: `Spec => PlanIsBest`, for any people with any lists of jobs and any settings.
  The depth-first search, written as a loop over the people, lists every choice of their
  known entries once (`SearchIsComplete`, by induction over the people), and a list whose
  members differ is as long as their set is large (`ListCounts`), which makes `found` a number
  of ways. A way picks a place in each person's list, a choice is the entries found there;
  where no list names a job twice the two correspond one to one (`WaysAreChoices`), and the
  code's counts admit the same ones (`AllowedIsValid`). `BestIsBest` and `SortedByScore` say
  that what stands for a group has its largest score and that the sort by rank only permutes,
  downwards; `CollapseIsBest` joins them. The invariant `PlanReads` says that the lists a
  computation has read name each job once: members are registered (`TypeOK`), and without
  that the search would find one choice twice.

### Assumptions, and what is only model-checked

Assumed: `QuestboardConstants`, `GrowthConstants`, `TrainerConstants`, `PricesConstants`,
`BoardWatchConstants`, `RemindersConstants`, `ScraperConstants`, `RosterConstants` and
`HomePostConstants`; TLC evaluates each on the runs of its module. They give types and
say of the first state what the schema enforces: the pledges the board can ever hold are
finitely many, members have a row, stored lists name a job once, and `Absent` is
no list.

Only model-checked: liveness (`CompleteQuestCloses`, `SaveEnds`, `ChangeReachesPage`,
`KeepsReminding`, `StopsReminding`, `TaskEnds`, `StaleIsRefreshed`), which is out of the
prover's reach. Every other property of the passing runs is stated by a theorem.

## Plan

Modelled, in this order: the board's tree, ledger and handlers; the trainer's history; what
watches the board (`BoardWatch`, `Reminders`); the scraper; the party planner with its
computation and posts. What a continuation would take up:

1. the trainer's scoring and its bar resolution against reference definitions;
2. the chest's suggestions, should they come to be made in more than one transaction.

## Not modelled

- *Recipe lookup* (`core/wiki.py`): a conversion of wiki text behind an HTTP call, external to
  the board. The patch check marks cached pages stale, which only makes a later lookup
  differ; `Recipes` already allows it.
- *Schema creation and migration*: runs once under a file lock in one transaction; what it
  leaves behind is the initial state, and its insertion of the default party is `InitDb`.
- *Company chest*: sequential code over one snapshot.
- *Voyages* and *Teamcraft*: pure text conversion and a build-time search.
- *Authentication*: an exchange with Discord whose only effect here is to refuse requests.
- *Deployment*: shell scripts whose steps are external programs.
- *Templates, styles, icons, the plugin and the tools under `tools/`*: no state of the
  running system.
- Of modelled components: titles, voyage fields and event texts of quests; the files, bar
  choices and drill of the trainer; Discord accounts, names, polls and the home channel of
  parties; requests the code refuses, which change nothing.
