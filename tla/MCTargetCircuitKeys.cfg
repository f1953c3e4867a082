SPECIFICATION Spec
CONSTANTS
  Live = {r1, r2, r3}
  Probe = {p1}
  Policies <- DefaultOnly
  MaxCooldown = 1
  Deadline = 6
  FirstOutput = 2
  ProbeKeys = 2
  Slack = 1
  MaxWait = 0
  MaxTime = 5
  NoTime = NoTime
  NoIncident = NoIncident
INVARIANTS
  OneTrialPerEpisode
CHECK_DEADLOCK FALSE
