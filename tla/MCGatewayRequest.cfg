SPECIFICATION Spec
CONSTANTS
  Sites = 3
  MaxKeys = 2
INVARIANTS
  TypeOK
  
  BlameIsDeserved
  NoSiteForgotten
PROPERTIES
  NoRetryAfterOutput
  EveryRequestEnds
