SPECIFICATION Spec
CONSTANTS
  Live = {r1, r2}
  Probe = {}
  Policies <- DefaultOnly
  MaxCooldown = 1
  Deadline = 2
  FirstOutput = 1
  ProbeKeys = 1
  Slack = 2
  MaxWait = 1
  MaxTime = 3
  NoTime = NoTime
  NoIncident = NoIncident
PROPERTIES
  SecondFailureOpens
CHECK_DEADLOCK FALSE
