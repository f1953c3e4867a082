SPECIFICATION Spec
CONSTANTS
  Model = {m1}
  Target = {t1}
  Scheduled = {s1, s2}
  Manual = {}
  NoModel = NoModel
  Deleted = Deleted
  Workers = 2
  MaxKeys = 1
  Deadlines = {1}
  Interval = 1
  Grace = 2
  MaxWait = 0
  MaxSettle = 1
  MaxCrashes = 1
INVARIANTS
  OneScheduledRun
PROPERTIES
  EveryRunEnds
