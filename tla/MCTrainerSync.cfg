SPECIFICATION FairSpec

CONSTANTS
  laptop = laptop
  desktop = desktop
  Tabs <- TwoBrowsers
  Browsers <- TwoBrowsers
  BrowserOf <- OneTabEach
  MaxKept = 1
  MaxPerSave = 1
  MaxAttempts = 1
  Attempts = 1
  MaxFinished = 2
  MaxStray = 1
  DrillWhileSaving = FALSE

INVARIANT TypeOK
INVARIANT CountedOnce
INVARIANT AnswerCountsBatch
INVARIANT NothingLost
PROPERTY SaveEnds
