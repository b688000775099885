SPECIFICATION FairSpec

CONSTANTS
  sync = sync
  sync2 = sync2
  threaded = threaded
  Workers <- Deployed
  Slots <- DeployedSlots
  Browsers = {b1}
  MaxStreams = 1
  MaxChanges = 1
  MaxRestarts = 0
  TimeToLive = 1
  MaxFetch = 0
  Asked = {}

PROPERTY EveryChangeReachesPage
