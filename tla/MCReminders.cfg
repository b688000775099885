SPECIFICATION FairSpec

CONSTANTS
  q1 = q1
  alice = alice
  bob = bob
  Quests = {q1}
  Entries <- MCEntries
  Movers <- MCMovers
  Weekdays = 2
  MinutesPerDay = 2
  TicksPerMinute = 4
  StartDelay = 1
  Interval = 2
  MaxRound = 2
  Choices <- MCChoices
  WebDefault <- Daily

INVARIANT TypeOK
PROPERTY NoMinuteMissed
PROPERTY KeepsReminding
PROPERTY StopsReminding
