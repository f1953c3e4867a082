SPECIFICATION Spec
CONSTANTS
  Live = {r1, r2, r3}
  Probe = {p1}
  Policies <- TwoPolicies
  MaxCooldown = 2
  Deadline = 2
  FirstOutput = 1
  ProbeKeys = 1
  Slack = 2
  MaxWait = 1
  MaxTime = 5
  NoTime = NoTime
  NoIncident = NoIncident
SYMMETRY AttemptSymmetry
INVARIANTS
  TypeOK
  IndependentFailures
  OneTrialPerEpisode
  RecoveryHorizon
PROPERTIES
  CoolingIsRespected
