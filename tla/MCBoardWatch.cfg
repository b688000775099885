SPECIFICATION FairSpec

CONSTANTS
  sync = sync
  sync2 = sync2
  threaded = threaded
  Workers <- MCWorkers
  Slots <- MCSlots
  Browsers = {b1}
  MaxStreams = 2
  MaxChanges = 2
  MaxRestarts = 1
  TimeToLive = 2
  MaxFetch = 1
  Asked = {threaded}

INVARIANT TypeOK
INVARIANT PriceIsFresh
INVARIANT EditCoversItsChange
PROPERTY ChangeReachesPage
