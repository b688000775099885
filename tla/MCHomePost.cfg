SPECIFICATION Spec

CONSTANTS
  Default = Default
  raid = raid
  Unreadable = Unreadable
  Absent = Absent
  desk = desk
  laptop = laptop
  Roll <- MCRoll
  Others = {raid}
  Users = {"zoe", "amy"}
  Edited = {"amy"}
  Offered <- MCOffered
  Priorities = {9}
  Settings <- MCSettings
  Registered <- MCJobs
  Joined <- MCJoined
  Dashboards = {desk, laptop}
  MaxRequests = 3
  MaxPosts = 3
  MaxClicks = 2

INVARIANT TypeOK
PROPERTY PlanIsBest
INVARIANT NewestPostIsLive
INVARIANT EditCoversItsClick
PROPERTY NewPartyIsEmpty
SYMMETRY Symmetry
CHECK_DEADLOCK FALSE
