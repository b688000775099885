------------------------------- MODULE Reminders -------------------------------
(***************************************************************************)
(* Reminders of open pledges: the opt-ins members set on the web           *)
(* (app/questboard.py, api_remind) and on Discord (/quest-remind-me), and  *)
(* the loop of the bot that scans them (bot/questboard.py, reminder_loop). *)
(*                                                                         *)
(* Time advances in ticks of a quarter of a minute and starts again after  *)
(* the last day of the week.  An opt-in names a minute of the day and a    *)
(* day of the week, or every day.  An entry is a quest with a member; what *)
(* the member still owes of it is followed as owing or not.                *)
(***************************************************************************)
EXTENDS Integers

CONSTANTS
  Quests,
  Entries,         \* pairs of a quest and a member that are followed
  Movers,          \* bound: the entries whose row and pledges change
  Weekdays,        \* bound: days of the week, from 0
  MinutesPerDay,   \* bound: minutes of a day
  TicksPerMinute,
  StartDelay,      \* ticks the loop sleeps first (15 seconds)
  Interval,        \* ticks between two rounds (REMINDER_LOOP_INTERVAL)
  MaxRound,        \* bound: ticks the awaits of one round take
  Choices,         \* what members ask for: a frequency, a minute, a day of the week
  WebDefault       \* WEB_REMINDER_DEFAULTS

Everyday == -1

Times == [minute : 0..(MinutesPerDay - 1), day : 0..(Weekdays - 1) \cup {Everyday}]

ASSUME RemindersConstants ==
  /\ Movers \subseteq Entries
  /\ \A e \in Entries : e[1] \in Quests
  /\ {Weekdays, MinutesPerDay, TicksPerMinute, StartDelay, Interval} \subseteq Nat \ {0}
  /\ MaxRound \in Nat
  /\ Choices \cup {WebDefault} \subseteq [frequency : {"daily", "weekly"}, minute : Int, day : Int]

VARIABLES
  clock,    \* ticks since the week began
  optin,    \* entry -> quest_reminder_optins row
  clicks,   \* toggles on the web that have read the row and not yet written it
  status,   \* quest -> open or closed
  owes,     \* entry -> has a pledge that is neither withdrawn nor turned in
  healthy,  \* Discord and the database answer
  loop,     \* how far the loop of the bot has come
  scans,    \* rounds begun in this minute
  awake     \* the bot has been running since this minute began

vars == <<clock, optin, clicks, status, owes, healthy, loop, scans, awake>>

NoRow == [minute |-> -1, day |-> Everyday]

Nothing == <<>>

Ticks == Weekdays * MinutesPerDay * TicksPerMinute

Minute == (clock \div TicksPerMinute) % MinutesPerDay

Today == clock \div (TicksPerMinute * MinutesPerDay)

\* Where the loop stands: asleep for some ticks; or in a round with the entries left,
\* waiting for the member's account, about to read the pledges, or sending.
Asleep(ticks) == [at |-> "asleep", left |-> ticks, queue |-> {}, entry |-> Nothing, spent |-> 0]

Off == [Asleep(0) EXCEPT !.at = "off"]

TypeOK ==
  /\ clock \in 0..(Ticks - 1)
  /\ optin \in [Entries -> Times \cup {NoRow}]
  /\ clicks \subseteq (Entries \X {"add", "remove"})
  /\ status \in [Quests -> {"open", "closed"}]
  /\ owes \in [Entries -> BOOLEAN]
  /\ healthy \in BOOLEAN
  /\ loop \in [at : {"off", "asleep", "round", "account", "pledges", "sending"},
               left : (0..StartDelay) \cup (0..Interval), queue : SUBSET Entries,
               entry : Entries \cup {Nothing}, spent : 0..MaxRound]
  /\ scans \in 0..TicksPerMinute
  /\ awake \in BOOLEAN

\* Mutant: hour and minute are not checked.
AnyMinute(choice) == choice.frequency = "weekly" => choice.day \in 0..(Weekdays - 1)

\* The checks of upsert_reminder_optin, on the hour, the minute and the weekday.
Accepted(choice) ==
  /\ choice.minute \in 0..(MinutesPerDay - 1)
  /\ choice.frequency = "weekly" => choice.day \in 0..(Weekdays - 1)

\* The row it stores.
Row(choice) == [minute |-> choice.minute,
                day |-> IF choice.frequency = "weekly" THEN choice.day ELSE Everyday]

Rows == {Row(choice) : choice \in {c \in Choices \cup {WebDefault} : Accepted(c)}}

Init ==
  /\ clock = 0
  /\ optin \in [Entries -> Rows \cup {NoRow}]
  /\ clicks = {}
  /\ status = [q \in Quests |-> "open"]
  /\ owes = [e \in Entries |-> optin[e] # NoRow]
  /\ healthy = TRUE
  /\ loop = Off
  /\ scans = 0
  /\ awake = FALSE

members == <<optin, clicks, status, owes>>

---------------------------------------------------------------------------
(* Members and officers                                                    *)

\* The page's checkbox: get_quest and get_reminder_optin.
ToggleRead(e) ==
  /\ clicks' = clicks \cup {<<e, IF optin[e] = NoRow THEN "add" ELSE "remove">>}
  /\ UNCHANGED <<clock, optin, status, owes, healthy, loop, scans, awake>>

\* remove_reminder_optin, or upsert_reminder_optin with what the request asks for or the
\* defaults.  What it refuses, and the second of two inserts at once, changes nothing.
ToggleWrite(e, plan) ==
  /\ <<e, plan>> \in clicks
  /\ clicks' = clicks \ {<<e, plan>>}
  /\ \/ plan = "remove" /\ optin' = [optin EXCEPT ![e] = NoRow]
     \/ plan = "add" /\ \E row \in Rows : optin' = [optin EXCEPT ![e] = row]
     \/ plan = "add" /\ UNCHANGED optin
  /\ UNCHANGED <<clock, status, owes, healthy, loop, scans, awake>>

\* /quest-remind-me; what is refused changes nothing.
RemindMe(e, choice) ==
  /\ Accepted(choice)
  /\ optin' = [optin EXCEPT ![e] = Row(choice)]
  /\ UNCHANGED <<clock, clicks, status, owes, healthy, loop, scans, awake>>

\* set_quest_status, from either side.
SetStatus(q) ==
  /\ \E s \in {"open", "closed"} : status' = [status EXCEPT ![q] = s]
  /\ UNCHANGED <<clock, optin, clicks, owes, healthy, loop, scans, awake>>

\* A pledge is made, or what was owed is turned in or withdrawn.
Owe(e) ==
  /\ owes' = [owes EXCEPT ![e] = ~@]
  /\ UNCHANGED <<clock, optin, clicks, status, healthy, loop, scans, awake>>

Trouble ==
  /\ healthy' = ~healthy
  /\ UNCHANGED <<clock, members, loop, scans, awake>>

---------------------------------------------------------------------------
(* The loop of the bot                                                     *)

StartBot ==
  /\ loop.at = "off"
  /\ loop' = Asleep(StartDelay)
  /\ UNCHANGED <<clock, members, healthy, scans, awake>>

StopBot ==
  /\ loop.at # "off"
  /\ loop' = Off
  /\ awake' = FALSE
  /\ UNCHANGED <<clock, members, healthy, scans>>

\* Mutant: a daily opt-in, stored with weekday -1, is compared like a weekly one.
DueToday == {e \in Entries : /\ optin[e] # NoRow
                             /\ optin[e].minute = Minute
                             /\ optin[e].day = Today}

\* due_reminders: minute of the day and, for a weekly one, the day must match.
Due == {e \in Entries : /\ optin[e] # NoRow
                        /\ optin[e].minute = Minute
                        /\ optin[e].day \in {Everyday, Today}}

\* Mutant: a round is due after four ticks.
EveryMinute == Asleep(2 * Interval)

\* asyncio.sleep(REMINDER_LOOP_INTERVAL)
RoundOver == Asleep(Interval)

\* The timer fires: the rows are read once for the whole round, or reading them fails.
BeginRound ==
  /\ loop.at = "asleep"
  /\ loop.left = 0
  /\ scans' = scans + 1
  /\ \/ loop' = [loop EXCEPT !.at = "round", !.queue = Due]
     \/ ~healthy /\ loop' = RoundOver
  /\ UNCHANGED <<clock, members, healthy, awake>>

\* The next entry: the account of the member is asked for.
NextEntry(e) ==
  /\ loop.at = "round"
  /\ e \in loop.queue
  /\ loop' = [loop EXCEPT !.at = "account", !.queue = @ \ {e}, !.entry = e]
  /\ UNCHANGED <<clock, members, healthy, scans, awake>>

EndRound ==
  /\ loop.at = "round"
  /\ loop.queue = {}
  /\ loop' = RoundOver
  /\ UNCHANGED <<clock, members, healthy, scans, awake>>

EntryDone == [loop EXCEPT !.at = "round", !.entry = Nothing]

\* Mutant: a quest that is closed is not skipped.
AnyQuest == TRUE

QuestIsOpen == status[loop.entry[1]] = "open"

\* _safe_fetch_user has answered; without an account, or unless the quest is open, the
\* entry is skipped.
AccountFetched ==
  /\ loop.at = "account"
  /\ \/ QuestIsOpen /\ loop' = [loop EXCEPT !.at = "pledges"]
     \/ ~(QuestIsOpen /\ healthy) /\ loop' = EntryDone
  /\ UNCHANGED <<clock, members, healthy, scans, awake>>

\* _raw_pledges, in a transaction of its own.
PledgesRead ==
  /\ loop.at = "pledges"
  /\ loop' = IF owes[loop.entry] THEN [loop EXCEPT !.at = "sending"] ELSE EntryDone
  /\ UNCHANGED <<clock, members, healthy, scans, awake>>

\* user.send has ended, well or with an HTTPException.
Sent ==
  /\ loop.at = "sending"
  /\ loop' = EntryDone
  /\ UNCHANGED <<clock, members, healthy, scans, awake>>

\* A read raises in the middle of a round, or user.send raises something other than an
\* HTTPException: nobody after this entry is reminded.
RoundFails ==
  /\ loop.at \in {"account", "pledges", "sending"}
  /\ ~healthy
  /\ loop' = RoundOver
  /\ UNCHANGED <<clock, members, healthy, scans, awake>>

\* A quarter of a minute passes while the loop sleeps or awaits Discord.
Tick ==
  /\ \/ loop.at = "off" /\ UNCHANGED loop
     \/ loop.at = "asleep" /\ loop.left > 0 /\ loop' = [loop EXCEPT !.left = @ - 1]
     \/ loop.at \in {"account", "sending"} /\ loop.spent < MaxRound /\ loop' = [loop EXCEPT !.spent = @ + 1]
  /\ clock' = (clock + 1) % Ticks
  /\ IF clock' % TicksPerMinute = 0
     THEN scans' = 0 /\ awake' = (loop.at # "off")
     ELSE UNCHANGED <<scans, awake>>
  /\ UNCHANGED <<members, healthy>>

LoopStep ==
  \/ BeginRound \/ EndRound \/ AccountFetched \/ PledgesRead \/ Sent \/ RoundFails
  \/ \E e \in Entries : NextEntry(e)

Next ==
  \/ \E e \in Movers : ToggleRead(e) \/ Owe(e)
  \/ \E e \in Movers, plan \in {"add", "remove"} : ToggleWrite(e, plan)
  \/ \E e \in Movers, choice \in Choices : RemindMe(e, choice)
  \/ \E q \in Quests : SetStatus(q)
  \/ Trouble \/ StartBot \/ StopBot
  \/ LoopStep
  \/ Tick

\* Time passes and the bot, while it runs, goes on with its loop: what it awaits ends.
FairSpec == Init /\ [][Next]_vars /\ WF_vars(Tick) /\ WF_vars(LoopStep)

---------------------------------------------------------------------------
(* Properties                                                              *)

\* No minute in which the bot was running throughout ends without a scan, however long
\* the round before it took up to half a minute: the comparison for equality of
\* due_reminders may therefore not miss a member's minute (reminder_loop sleeps half a
\* minute after every round).
NoMinuteMissed ==
  [][clock' # clock /\ clock' % TicksPerMinute = 0 /\ awake => scans >= 1]_vars

\* A member who stays opted in, with something owed of an open quest, is reminded again
\* and again while the bot runs, Discord and the database having recovered, whatever the
\* failures before and whoever else is in the round.
KeepsReminding ==
  \A e \in Entries : \A row \in Rows :
    <>[](optin[e] = row /\ owes[e] /\ status[e[1]] = "open" /\ healthy /\ loop.at # "off")
      => []<>(loop.at = "sending" /\ loop.entry = e)

\* Once a member has opted out for good, or owes nothing any more, or the quest stays
\* closed, the reminders stop: rows are read again for every round, status and pledges
\* for every message.  (That the quest was open and that something was owed is read at
\* two moments, and may never have been true at once.)
StopsReminding ==
  \A e \in Entries :
    (<>[](optin[e] = NoRow) \/ <>[](~owes[e]) \/ <>[](status[e[1]] = "closed"))
      => <>[](loop.at = "sending" => loop.entry # e)
===============================================================================
