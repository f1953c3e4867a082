SPECIFICATION Spec
CONSTANTS
  Model = {m1}
  Target = {t1, t2}
  Scheduled = {}
  Manual = {a1}
  NoModel = NoModel
  Deleted = Deleted
  Workers = 2
  MaxKeys = 2
  Deadlines = {1}
  Interval = 1
  Grace = 3
  MaxWait = 1
  MaxSettle = 1
  MaxCrashes = 1
INVARIANTS
  TypeOK
  VerdictIsHonest
PROPERTIES
  OnlyDeadRunsExpire
  
