SPECIFICATION FairSpec

CONSTANTS
  ann = ann
  ben = ben
  c1 = c1
  c2 = c2
  lost = lost
  Nobody = Nobody
  Links <- MCLinks
  Chars = {c1, c2, lost}
  Gone = {lost}
  MaxRechecks = 2
  MaxCrashes = 1

INVARIANT TypeOK
PROPERTY TaskSurvives
PROPERTY ScraperLinksNobody
PROPERTY TaskEnds
PROPERTY StaleIsRefreshed
