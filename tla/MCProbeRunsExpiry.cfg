SPECIFICATION Spec
CONSTANTS
  Model = {m1}
  Target = {t1}
  Scheduled = {}
  Manual = {a1}
  NoModel = NoModel
  Deleted = Deleted
  Workers = 2
  MaxKeys = 1
  Deadlines = {1, 3}
  Interval = 1
  Grace = 2
  MaxWait = 0
  MaxSettle = 1
  MaxCrashes = 0
PROPERTIES
  OnlyDeadRunsExpire
