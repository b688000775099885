----------------------------- MODULE RemindersProofs -----------------------------
(***************************************************************************)
(* Proofs about the reminder loop for any calendar and any interval: its   *)
(* types, and when it cannot miss a minute.                                *)
(***************************************************************************)
EXTENDS Reminders, TLAPS

---------------------------------------------------------------------------
(* Remainders                                                              *)

LEMMA Division ==
  ASSUME NEW d \in Nat \ {0}, NEW n \in Nat
  PROVE  n % d \in 0..(d - 1) /\ n \div d \in Nat /\ n = d * (n \div d) + (n % d)
  OBVIOUS

\* The remainder is the only number that is one.
LEMMA Remainder ==
  ASSUME NEW d \in Nat \ {0}, NEW n \in Nat, NEW q \in Nat, NEW r \in 0..(d - 1), n = d * q + r
  PROVE  n % d = r
<1> DEFINE p == n \div d
           s == n % d
<1>1. p \in Nat /\ s \in 0..(d - 1) /\ n = d * p + s
  BY Division
<1> HIDE DEF p, s
<1>2. d * (p - q) = r - s
  BY <1>1
<1>3. p - q = 0
  <2>1. CASE p - q >= 1
    <3>1. d * (p - q) >= d
      BY <1>1, <2>1
    <3>. QED BY <3>1, <1>2, <1>1
  <2>2. CASE p - q <= -1
    <3>1. d * (p - q) <= -d
      BY <1>1, <2>2
    <3>. QED BY <3>1, <1>2, <1>1
  <2>. QED BY <2>1, <2>2, <1>1
<1>4. s = r
  BY <1>1, <1>2, <1>3
<1>. QED BY <1>4 DEF s

---------------------------------------------------------------------------
(* The clock                                                               *)

\* Ticks since the minute began.
Phase == clock % TicksPerMinute

LEMMA TicksNat == Ticks \in Nat \ {0} /\ TicksPerMinute \in Nat \ {0}
<1>1. /\ Weekdays \in Nat \ {0} /\ MinutesPerDay \in Nat \ {0}
      /\ TicksPerMinute \in Nat \ {0}
  BY RemindersConstants
<1>2. Weekdays * MinutesPerDay \in Nat \ {0}
  BY <1>1
<1>. QED BY <1>1, <1>2 DEF Ticks

LEMMA PhaseType == TypeOK => Phase \in 0..(TicksPerMinute - 1)
BY TicksNat, Division DEF TypeOK, Phase

\* One tick later it is one tick later in the minute, or the next minute; the end of the
\* week is the end of a minute.
LEMMA PhaseTicks ==
  ASSUME TypeOK, clock' = (clock + 1) % Ticks
  PROVE  /\ clock' \in 0..(Ticks - 1)
         /\ clock' % TicksPerMinute = IF Phase = TicksPerMinute - 1 THEN 0 ELSE Phase + 1
<1> DEFINE d == TicksPerMinute
           q == clock \div d
<1>1. d \in Nat \ {0} /\ clock \in Nat /\ Ticks \in Nat /\ clock < Ticks
  BY TicksNat DEF TypeOK
<1>2. Phase \in 0..(d - 1) /\ q \in Nat /\ clock = d * q + Phase
  BY <1>1, Division DEF Phase
<1> HIDE DEF q
<1>3. (clock + 1) % d = IF Phase = d - 1 THEN 0 ELSE Phase + 1
  <2>1. CASE Phase = d - 1
    <3>1. clock + 1 = d * (q + 1) + 0
      BY <1>1, <1>2, <2>1
    <3>. QED BY <3>1, <2>1, <1>1, <1>2, Remainder
  <2>2. CASE Phase # d - 1
    <3>1. clock + 1 = d * q + (Phase + 1) /\ Phase + 1 \in 0..(d - 1)
      BY <1>1, <1>2, <2>2
    <3>. QED BY <3>1, <2>2, <1>1, <1>2, Remainder
  <2>. QED BY <2>1, <2>2
<1>4. CASE clock + 1 < Ticks
  <2>1. clock' = clock + 1
    BY <1>1, <1>4
  <2>. QED BY <2>1, <1>1, <1>3, <1>4
<1>5. CASE clock + 1 = Ticks
  <2>1. clock' = 0
    BY <1>1, <1>5
  <2>2. (clock + 1) % d = 0
    <3> DEFINE m == Weekdays * MinutesPerDay
    <3>1. m \in Nat
      BY RemindersConstants
    <3>2. clock + 1 = d * m + 0
      BY <1>1, <1>5, <3>1, RemindersConstants DEF Ticks
    <3> HIDE DEF m
    <3>3. 0 \in 0..(d - 1) /\ clock + 1 \in Nat
      BY <1>1
    <3>. QED BY <3>1, <3>2, <3>3, <1>1, Remainder
  <2>3. 0 % d = 0
    BY <1>1
  <2>. QED BY <2>1, <2>2, <2>3, <1>1, <1>2, <1>3
<1>. QED BY <1>1, <1>4, <1>5

---------------------------------------------------------------------------
(* Type correctness                                                        *)

\* The loop is about to begin a round.
Firing == loop.at = "asleep" /\ loop.left = 0

\* However often the bot is started again, a minute has at most one scan for each of its
\* ticks: the loop sleeps before its first round and after every round.
ScansCounted == scans <= Phase + 1 /\ (Firing => scans <= Phase)

Typed == TypeOK /\ ScansCounted

\* What members choose is stored as a time of the week.
LEMMA RowsAreTimes == Rows \subseteq Times
<1> SUFFICES ASSUME NEW choice \in Choices \cup {WebDefault}, Accepted(choice)
             PROVE  Row(choice) \in Times
  BY DEF Rows
<1>. QED BY RemindersConstants DEF Row, Accepted, Times

LEMMA TypeInit == Init => Typed
<1> SUFFICES ASSUME Init PROVE Typed
  OBVIOUS
<1>1. optin \in [Entries -> Times \cup {NoRow}]
  BY RowsAreTimes DEF Init
<1>2. 0 \in 0..(Ticks - 1) /\ 0 % TicksPerMinute = 0 /\ 0 \in 0..TicksPerMinute
  BY TicksNat
<1>3. loop \in [at : {"off", "asleep", "round", "account", "pledges", "sending"},
                left : (0..StartDelay) \cup (0..Interval), queue : SUBSET Entries,
                entry : Entries \cup {Nothing}, spent : 0..MaxRound]
  BY RemindersConstants DEF Init, Off, Asleep
<1>4. TypeOK
  BY <1>1, <1>2, <1>3 DEF Init, TypeOK
<1>. QED BY <1>2, <1>4 DEF Init, Typed, ScansCounted, Phase, Off, Asleep, Firing

\* The parts of the state only members change.
MembersType ==
  /\ optin \in [Entries -> Times \cup {NoRow}]
  /\ clicks \subseteq (Entries \X {"add", "remove"})
  /\ status \in [Quests -> {"open", "closed"}]
  /\ owes \in [Entries -> BOOLEAN]

LEMMA MembersNext == TypeOK /\ [Next]_vars => MembersType'
<1> SUFFICES ASSUME TypeOK, [Next]_vars PROVE MembersType'
  OBVIOUS
<1> USE DEF TypeOK, MembersType
<1>1. ASSUME NEW e \in Movers, ToggleRead(e) PROVE MembersType'
  BY <1>1, RemindersConstants DEF ToggleRead
<1>2. ASSUME NEW e \in Movers, Owe(e) PROVE MembersType'
  BY <1>2 DEF Owe
<1>3. ASSUME NEW e \in Movers, NEW plan \in {"add", "remove"}, ToggleWrite(e, plan)
      PROVE  MembersType'
  BY <1>3, RowsAreTimes DEF ToggleWrite
<1>4. ASSUME NEW e \in Movers, NEW choice \in Choices, RemindMe(e, choice) PROVE MembersType'
  <2>1. Row(choice) \in Times
    BY <1>4, RowsAreTimes DEF RemindMe, Rows
  <2>. QED BY <1>4, <2>1 DEF RemindMe
<1>5. ASSUME NEW q \in Quests, SetStatus(q) PROVE MembersType'
  BY <1>5 DEF SetStatus
<1>6. CASE UNCHANGED members
  BY <1>6 DEF members
<1>. QED
  BY <1>1, <1>2, <1>3, <1>4, <1>5, <1>6
  DEF Next, LoopStep, Trouble, StartBot, StopBot, BeginRound, EndRound, AccountFetched,
      PledgesRead, Sent, RoundFails, NextEntry, Tick, vars, members

\* The loop of the bot and the clock.
LoopType ==
  /\ clock \in 0..(Ticks - 1)
  /\ healthy \in BOOLEAN
  /\ loop \in [at : {"off", "asleep", "round", "account", "pledges", "sending"},
               left : (0..StartDelay) \cup (0..Interval), queue : SUBSET Entries,
               entry : Entries \cup {Nothing}, spent : 0..MaxRound]
  /\ scans \in Nat
  /\ awake \in BOOLEAN

\* Sleeping is always for a time, never for none.
LEMMA Sleeps ==
  /\ \A ticks \in {StartDelay, Interval} :
       /\ Asleep(ticks).at = "asleep" /\ Asleep(ticks).left = ticks /\ ticks > 0
       /\ Asleep(ticks).spent = 0
       /\ Asleep(ticks) \in [at : {"off", "asleep", "round", "account", "pledges", "sending"},
                             left : (0..StartDelay) \cup (0..Interval), queue : SUBSET Entries,
                             entry : Entries \cup {Nothing}, spent : 0..MaxRound]
  /\ Off \in [at : {"off", "asleep", "round", "account", "pledges", "sending"},
              left : (0..StartDelay) \cup (0..Interval), queue : SUBSET Entries,
              entry : Entries \cup {Nothing}, spent : 0..MaxRound]
  /\ Off.at = "off"
BY RemindersConstants DEF Asleep, Off

\* What a step does to the time the loop has left: nothing, or it moves on within its
\* round, or one of the named steps.
InRound == loop.at \in {"round", "account", "pledges", "sending"}

Within ==
  /\ InRound /\ InRound'
  /\ loop'.spent = loop.spent
  /\ UNCHANGED <<clock, healthy, scans, awake>>

Over ==
  /\ InRound
  /\ loop' = Asleep(Interval)
  /\ UNCHANGED <<clock, healthy, scans, awake>>

LEMMA LoopMoves ==
  ASSUME TypeOK, [Next]_vars
  PROVE  /\ LoopType'
         /\ \/ UNCHANGED <<clock, loop, scans, awake>>
            \/ StartBot \/ StopBot \/ BeginRound \/ Within \/ Over \/ Tick
<1> DEFINE Goal == /\ LoopType'
                   /\ \/ UNCHANGED <<clock, loop, scans, awake>>
                      \/ StartBot \/ StopBot \/ BeginRound \/ Within \/ Over \/ Tick
<1> USE DEF LoopType
<1>0. scans \in Nat
  BY TicksNat DEF TypeOK
<1>1. CASE UNCHANGED <<clock, healthy, loop, scans, awake>>
  BY <1>0, <1>1 DEF TypeOK
<1>2. CASE Trouble
  BY <1>0, <1>2 DEF Trouble, TypeOK
<1>3. CASE StartBot
  <2>1. LoopType'
    BY <1>0, <1>3, Sleeps DEF StartBot, TypeOK
  <2>. QED BY <1>3, <2>1
<1>4. CASE StopBot
  <2>1. LoopType'
    BY <1>0, <1>4, Sleeps DEF StopBot, TypeOK
  <2>. QED BY <1>4, <2>1
<1>5. CASE BeginRound
  <2>1. Due \subseteq Entries
    BY DEF Due
  <2>2. scans' \in Nat
    BY <1>0, <1>5 DEF BeginRound
  <2>3. CASE loop' = [loop EXCEPT !.at = "round", !.queue = Due]
    BY <1>5, <2>1, <2>2, <2>3 DEF BeginRound, TypeOK
  <2>4. CASE loop' = Asleep(Interval)
    BY <1>5, <2>2, <2>4, Sleeps DEF BeginRound, TypeOK
  <2>. QED BY <1>5, <2>3, <2>4 DEF BeginRound, RoundOver
<1>6. ASSUME NEW e \in Entries, NextEntry(e) PROVE Goal
  BY <1>0, <1>6 DEF NextEntry, TypeOK, Within, InRound
<1>7. CASE EndRound
  BY <1>0, <1>7, Sleeps DEF EndRound, RoundOver, TypeOK, Over, InRound
<1>8. CASE AccountFetched
  BY <1>0, <1>8 DEF AccountFetched, EntryDone, TypeOK, Within, InRound
<1>9. CASE PledgesRead
  BY <1>0, <1>9 DEF PledgesRead, EntryDone, TypeOK, Within, InRound
<1>10. CASE Sent
  BY <1>0, <1>10 DEF Sent, EntryDone, TypeOK, Within, InRound
<1>11. CASE RoundFails
  BY <1>0, <1>11, Sleeps DEF RoundFails, RoundOver, TypeOK, Over, InRound
<1>12. CASE Tick
  <2>1. clock' \in 0..(Ticks - 1)
    BY <1>12, PhaseTicks DEF Tick
  <2>2. loop' \in [at : {"off", "asleep", "round", "account", "pledges", "sending"},
                   left : (0..StartDelay) \cup (0..Interval), queue : SUBSET Entries,
                   entry : Entries \cup {Nothing}, spent : 0..MaxRound]
    <3>1. CASE UNCHANGED loop
      BY <3>1 DEF TypeOK
    <3>2. CASE loop.at = "asleep" /\ loop.left > 0 /\ loop' = [loop EXCEPT !.left = @ - 1]
      <4>1. loop.left - 1 \in (0..StartDelay) \cup (0..Interval)
        BY <3>2, RemindersConstants DEF TypeOK
      <4>. QED BY <3>2, <4>1 DEF TypeOK
    <3>3. CASE loop.spent < MaxRound /\ loop' = [loop EXCEPT !.spent = @ + 1]
      <4>1. loop.spent + 1 \in 0..MaxRound
        BY <3>3, RemindersConstants DEF TypeOK
      <4>. QED BY <3>3, <4>1 DEF TypeOK
    <3>. QED BY <1>12, <3>1, <3>2, <3>3 DEF Tick
  <2>3. scans' \in Nat /\ awake' \in BOOLEAN /\ healthy' \in BOOLEAN
    <3>1. healthy' = healthy
      BY <1>12 DEF Tick
    <3>2. CASE scans' = 0 /\ awake' = (loop.at # "off")
      BY <3>1, <3>2 DEF TypeOK
    <3>3. CASE UNCHANGED <<scans, awake>>
      BY <1>0, <3>1, <3>3 DEF TypeOK
    <3>. QED BY <1>12, <3>2, <3>3 DEF Tick
  <2>. QED BY <1>12, <2>1, <2>2, <2>3
<1>13. \/ UNCHANGED <<clock, healthy, loop, scans, awake>>
       \/ Trouble \/ StartBot \/ StopBot \/ LoopStep \/ Tick
  BY DEF Next, ToggleRead, Owe, ToggleWrite, RemindMe, SetStatus, vars
<1>. QED
  BY <1>1, <1>2, <1>3, <1>4, <1>5, <1>6, <1>7, <1>8, <1>9, <1>10, <1>11, <1>12, <1>13 DEF LoopStep

\* What a tick does, seen from within the minute.
LEMMA TickMoves ==
  ASSUME TypeOK, Tick
  PROVE  /\ \/ /\ Phase = TicksPerMinute - 1 /\ Phase' = 0
               /\ scans' = 0 /\ awake' = (loop.at # "off")
            \/ /\ Phase # TicksPerMinute - 1 /\ Phase' = Phase + 1
               /\ UNCHANGED <<scans, awake>>
         /\ \/ loop.at = "off" /\ UNCHANGED loop
            \/ loop.at = "asleep" /\ loop'.at = "asleep" /\ loop.left > 0 /\ loop'.left = loop.left - 1
            \/ InRound /\ InRound' /\ loop.spent < MaxRound /\ loop'.spent = loop.spent + 1
<1>1. clock' % TicksPerMinute = IF Phase = TicksPerMinute - 1 THEN 0 ELSE Phase + 1
  BY PhaseTicks DEF Tick
<1>2. Phase' = clock' % TicksPerMinute
  BY DEF Phase
<1>3. Phase \in 0..(TicksPerMinute - 1)
  BY PhaseType
<1>4. IF Phase = TicksPerMinute - 1 THEN Phase' = 0 ELSE Phase' = Phase + 1 /\ Phase' # 0
  BY <1>1, <1>2, <1>3
<1>5. IF Phase' = 0 THEN scans' = 0 /\ awake' = (loop.at # "off") ELSE UNCHANGED <<scans, awake>>
  BY <1>2 DEF Tick
<1>6. \/ loop.at = "off" /\ UNCHANGED loop
      \/ loop.at = "asleep" /\ loop'.at = "asleep" /\ loop.left > 0 /\ loop'.left = loop.left - 1
      \/ InRound /\ InRound' /\ loop.spent < MaxRound /\ loop'.spent = loop.spent + 1
  BY DEF Tick, TypeOK, InRound
<1>. QED BY <1>4, <1>5, <1>6

\* The clock stands still in every other step.
LEMMA SamePhase == clock' = clock => Phase' = Phase
BY DEF Phase

LEMMA TypeNext == Typed /\ [Next]_vars => Typed'
<1> SUFFICES ASSUME Typed, [Next]_vars PROVE Typed'
  OBVIOUS
<1>0. TypeOK /\ ScansCounted /\ Phase \in 0..(TicksPerMinute - 1) /\ scans \in Nat
  BY PhaseType, TicksNat DEF Typed, TypeOK
<1>1. MembersType' /\ LoopType'
  BY <1>0, MembersNext, LoopMoves
<1>2. ScansCounted'
  <2>1. CASE UNCHANGED <<clock, loop, scans, awake>>
    BY <2>1, <1>0, SamePhase DEF ScansCounted, Firing
  <2>2. CASE StartBot
    BY <2>2, <1>0, SamePhase, Sleeps DEF ScansCounted, Firing, StartBot
  <2>3. CASE StopBot
    BY <2>3, <1>0, SamePhase, Sleeps DEF ScansCounted, Firing, StopBot
  <2>4. CASE BeginRound
    <3>1. ~Firing'
      <4>1. CASE loop' = [loop EXCEPT !.at = "round", !.queue = Due]
        BY <4>1, <1>0 DEF Firing, TypeOK
      <4>2. CASE loop' = Asleep(Interval)
        BY <4>2, Sleeps DEF Firing
      <4>. QED BY <2>4, <4>1, <4>2 DEF BeginRound, RoundOver
    <3>. QED BY <2>4, <3>1, <1>0, SamePhase DEF ScansCounted, Firing, BeginRound
  <2>5. CASE Within
    BY <2>5, <1>0, SamePhase DEF ScansCounted, Firing, Within, InRound
  <2>6. CASE Over
    BY <2>6, <1>0, SamePhase, Sleeps DEF ScansCounted, Firing, Over, InRound
  <2>7. CASE Tick
    <3>1. ~Firing
      BY <2>7 DEF Tick, Firing
    <3>2. Phase' \in Nat /\ scans' <= Phase'
      BY <2>7, <3>1, <1>0, TickMoves DEF ScansCounted
    <3>3. scans' \in Nat
      BY <1>1 DEF LoopType
    <3>4. ASSUME NEW k \in Nat, NEW p \in Nat, k <= p PROVE k <= p + 1
      BY <3>4
    <3>5. scans' <= Phase' + 1
      BY <3>2, <3>3, <3>4
    <3>. QED BY <3>2, <3>5 DEF ScansCounted
  <2>. QED BY <1>0, <2>1, <2>2, <2>3, <2>4, <2>5, <2>6, <2>7, LoopMoves
<1>3. scans' \in 0..TicksPerMinute
  <2>1. clock' \in Nat /\ scans' \in Nat
    BY <1>1, TicksNat DEF LoopType
  <2>2. clock' % TicksPerMinute \in 0..(TicksPerMinute - 1)
    BY <2>1, TicksNat, Division
  <2>3. Phase' \in 0..(TicksPerMinute - 1)
    BY <2>2 DEF Phase
  <2>4. scans' <= Phase' + 1
    BY <1>2, <2>3 DEF ScansCounted
  <2>5. ASSUME NEW k \in Nat, NEW p \in 0..(TicksPerMinute - 1), k <= p + 1
        PROVE  k \in 0..TicksPerMinute
    BY <2>5, TicksNat
  <2>. QED BY <2>1, <2>3, <2>4, <2>5
<1>. QED BY <1>1, <1>2, <1>3 DEF MembersType, LoopType, Typed, TypeOK

LEMMA AlwaysTyped == FairSpec => []Typed
<1>1. FairSpec => Init /\ [][Next]_vars
  BY PTL DEF FairSpec
<1>. QED BY <1>1, TypeInit, TypeNext, PTL

\* The rows, the clock and the loop stay what they are meant to be: every stored opt-in is
\* a time of the week, the loop sleeps no longer than one of its two delays, and restarts
\* of the bot never make more scans of a minute than it has ticks.
THEOREM TypeCorrect == FairSpec => []TypeOK
<1>1. Typed => TypeOK
  BY DEF Typed
<1>. QED BY <1>1, AlwaysTyped, PTL

---------------------------------------------------------------------------
(* No minute is missed                                                     *)

\* Ticks after which the loop has begun its next round at the latest.
Latest == IF loop.at = "asleep" THEN loop.left ELSE (MaxRound - loop.spent) + Interval

\* While the bot runs, a minute not yet scanned will be before its last tick is over.
ScanAhead ==
  awake => /\ loop.at # "off"
           /\ scans = 0 => Phase + Latest <= TicksPerMinute - 1

LEMMA ScanAheadInit == Init => ScanAhead
BY DEF Init, ScanAhead

LEMMA LatestTyped == TypeOK => Latest \in Nat
BY RemindersConstants DEF TypeOK, Latest

\* Whatever leaves the scans of the minute alone must not put off the next one.
LEMMA StillAhead ==
  ASSUME TypeOK, ScanAhead, Phase \in Nat, Phase' \in Nat, Latest \in Nat, Latest' \in Nat,
         awake' => awake, loop.at # "off" => loop'.at # "off", scans' = scans,
         Phase' + Latest' <= Phase + Latest
  PROVE  ScanAhead'
<1>1. \A m \in Nat, n \in Nat, p \in Nat, q \in Nat, i \in Int : m + n <= p + q /\ p + q <= i => m + n <= i
  OBVIOUS
<1>2. TicksPerMinute - 1 \in Int
  BY TicksNat
<1>. QED BY <1>1, <1>2 DEF ScanAhead

LEMMA ScanAheadNext ==
  ASSUME Interval + MaxRound <= TicksPerMinute, StartDelay <= TicksPerMinute
  PROVE  TypeOK /\ TypeOK' /\ ScanAhead /\ [Next]_vars => ScanAhead'
<1> SUFFICES ASSUME TypeOK, TypeOK', ScanAhead, [Next]_vars PROVE ScanAhead'
  OBVIOUS
<1>0. /\ Phase \in 0..(TicksPerMinute - 1) /\ Phase \in Nat
      /\ Latest \in Nat /\ Latest' \in Nat
      /\ Interval \in Nat \ {0} /\ TicksPerMinute \in Nat /\ MaxRound \in Nat
      /\ StartDelay \in Nat \ {0}
  BY PhaseType, LatestTyped, TicksNat, RemindersConstants DEF TypeOK, Latest
<1>1. CASE UNCHANGED <<clock, loop, scans, awake>>
  <2>1. Phase' = Phase /\ Latest' = Latest
    BY <1>1, SamePhase DEF Latest
  <2>. QED BY <2>1, <1>0, <1>1, StillAhead
<1>2. CASE StartBot
  <2>1. ~awake /\ awake' = awake
    BY <1>2 DEF StartBot, ScanAhead
  <2>. QED BY <2>1 DEF ScanAhead
<1>3. CASE StopBot
  BY <1>3 DEF StopBot, ScanAhead
<1>4. CASE BeginRound
  <2>1. scans' # 0 /\ awake' = awake
    <3>1. scans \in Nat
      BY TicksNat DEF TypeOK
    <3>. QED BY <1>4, <3>1 DEF BeginRound
  <2>2. loop'.at # "off"
    <3>1. CASE loop' = [loop EXCEPT !.at = "round", !.queue = Due]
      BY <3>1 DEF TypeOK
    <3>2. CASE loop' = Asleep(Interval)
      BY <3>2, Sleeps
    <3>. QED BY <1>4, <3>1, <3>2 DEF BeginRound, RoundOver
  <2>. QED BY <2>1, <2>2 DEF ScanAhead
<1>5. CASE Within
  <2>1. Phase' = Phase /\ Latest' = Latest
    BY <1>5, SamePhase DEF Latest, Within, InRound
  <2>. QED BY <2>1, <1>0, <1>5, StillAhead DEF Within, InRound
<1>6. CASE Over
  <2>1. Phase' = Phase /\ Latest' <= Latest /\ loop'.at # "off"
    <3>1. Latest' = Interval /\ Latest = (MaxRound - loop.spent) + Interval
      BY <1>6, Sleeps DEF Latest, Over, InRound
    <3>2. loop.spent \in 0..MaxRound
      BY DEF TypeOK
    <3>. QED BY <3>1, <3>2, <1>0, <1>6, SamePhase, Sleeps DEF Over
  <2>2. \A p \in Nat, m \in Nat, n \in Nat : m <= n => p + m <= p + n
    OBVIOUS
  <2>3. Phase' + Latest' <= Phase + Latest /\ Phase' \in Nat
    BY <2>1, <2>2, <1>0
  <2>. QED BY <2>1, <2>3, <1>0, <1>6, StillAhead DEF Over
<1>7. CASE Tick
  <2>1. CASE Phase' = 0 /\ scans' = 0 /\ awake' = (loop.at # "off")
    <3>1. CASE loop.at = "off"
      BY <2>1, <3>1 DEF ScanAhead
    <3>2. CASE loop.at = "asleep"
      <4>1. loop'.at = "asleep" /\ Latest' = loop.left - 1 /\ loop.left > 0
        BY <1>7, <3>2, TickMoves DEF Latest, InRound
      <4>2. loop.left \in Nat /\ loop.left <= TicksPerMinute
        BY <1>0 DEF TypeOK
      <4>3. 0 + Latest' <= TicksPerMinute - 1
        BY <4>1, <4>2, <1>0
      <4>. QED BY <2>1, <4>1, <4>3 DEF ScanAhead
    <3>3. CASE InRound
      <4>1. InRound' /\ loop'.spent = loop.spent + 1 /\ loop.spent \in 0..MaxRound
        BY <1>7, <3>3, TickMoves DEF InRound, TypeOK
      <4>2. Latest' = (MaxRound - loop'.spent) + Interval /\ loop'.at # "off"
        BY <4>1 DEF Latest, InRound
      <4>3. 0 + Latest' <= TicksPerMinute - 1
        BY <4>1, <4>2, <1>0
      <4>. QED BY <2>1, <4>2, <4>3 DEF ScanAhead
    <3>. QED BY <1>7, <3>1, <3>2, <3>3, TickMoves
  <2>2. CASE Phase' = Phase + 1 /\ UNCHANGED <<scans, awake>>
    <3>1. CASE loop.at = "off"
      BY <2>2, <3>1 DEF ScanAhead
    <3>2. CASE loop.at = "asleep"
      <4>1. loop'.at = "asleep" /\ Latest' = Latest - 1
        BY <1>7, <3>2, TickMoves DEF Latest, InRound
      <4>2. Phase' + Latest' <= Phase + Latest /\ Phase' \in Nat
        BY <2>2, <4>1, <1>0
      <4>. QED BY <2>2, <4>1, <4>2, <1>0, StillAhead
    <3>3. CASE InRound
      <4>1. InRound' /\ loop'.spent = loop.spent + 1 /\ loop.spent \in 0..MaxRound
        BY <1>7, <3>3, TickMoves DEF InRound, TypeOK
      <4>2. /\ Latest' = (MaxRound - loop'.spent) + Interval
            /\ Latest = (MaxRound - loop.spent) + Interval
            /\ loop'.at # "off"
        BY <3>3, <4>1 DEF Latest, InRound
      <4>3. Phase' + Latest' <= Phase + Latest /\ Phase' \in Nat
        BY <2>2, <4>1, <4>2, <1>0
      <4>. QED BY <2>2, <4>2, <4>3, <1>0, StillAhead
    <3>. QED BY <1>7, <3>1, <3>2, <3>3, TickMoves
  <2>. QED BY <1>7, <2>1, <2>2, TickMoves
<1>. QED BY <1>1, <1>2, <1>3, <1>4, <1>5, <1>6, <1>7, LoopMoves

\* A minute ends only by a tick, and a tick can end it only after a scan.
LEMMA ScannedFirst ==
  ASSUME TypeOK, ScanAhead, [Next]_vars,
         clock' # clock, clock' % TicksPerMinute = 0, awake
  PROVE  scans >= 1
<1> SUFFICES ASSUME scans = 0 PROVE FALSE
  BY TicksNat DEF TypeOK
<1>1. Tick
  BY LoopMoves DEF StartBot, StopBot, BeginRound, Within, Over
<1>2. Phase \in 0..(TicksPerMinute - 1) /\ Phase = TicksPerMinute - 1
  <2>1. clock' % TicksPerMinute = IF Phase = TicksPerMinute - 1 THEN 0 ELSE Phase + 1
    BY <1>1, PhaseTicks DEF Tick
  <2>. QED BY <2>1, PhaseType
<1>3. Latest \in Nat /\ Phase + Latest <= TicksPerMinute - 1 /\ loop.at # "off"
  BY LatestTyped DEF ScanAhead
<1>4. Latest = 0
  BY <1>2, <1>3, TicksNat
<1>5. CASE loop.at = "asleep"
  BY <1>1, <1>4, <1>5 DEF Tick, Latest
<1>6. CASE loop.at # "asleep"
  BY <1>4, <1>6, RemindersConstants DEF Latest, TypeOK
<1>. QED BY <1>5, <1>6

\* When a round with the sleep after it fits into a minute, no minute in which the bot
\* runs ends without a scan, so that comparing minutes for equality misses no reminder.
THEOREM NeverMissed ==
  ASSUME Interval + MaxRound <= TicksPerMinute, StartDelay <= TicksPerMinute
  PROVE  FairSpec => NoMinuteMissed
<1>1. FairSpec => Init /\ [][Next]_vars
  BY PTL DEF FairSpec
<1>2. TypeOK /\ TypeOK' /\ ScanAhead /\ [Next]_vars => ScanAhead'
  BY ScanAheadNext
<1>3. TypeOK /\ ScanAhead /\ [Next]_vars =>
        [clock' # clock /\ clock' % TicksPerMinute = 0 /\ awake => scans >= 1]_vars
  BY ScannedFirst
<1>. QED BY <1>1, <1>2, <1>3, ScanAheadInit, TypeCorrect, PTL DEF NoMinuteMissed
==================================================================================
