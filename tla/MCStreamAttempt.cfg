SPECIFICATION Spec
CONSTANTS
  FirstOutput = 3
  Idle = 2
  MaxLines = 3
  MaxExpiring = 2
INVARIANTS
  TypeOK
  OnlySilentAttemptsRetry
  CutIsNeverSuccess
PROPERTIES
  StalledStreamEnds
