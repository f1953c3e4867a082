SPECIFICATION Spec
CONSTANTS
  FirstOutput = 2
  Idle = 2
  MaxLines = 2
  MaxExpiring = 1
PROPERTIES
  IdleCutIsDeserved
