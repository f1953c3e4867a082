SPECIFICATION MCSpec
CONSTANTS
  Owners <- MCOwners
  Logins <- MCLogins
  Callers <- MCCallers
  Sweeper = Sweeper
  Nobody = Nobody
  Keep = Keep
  NoAccount = NoAccount
  NoOwner = NoOwner
  MaxGeneration = 2
  Clients = {"c1", "c2", "c3"}
  Attempts = {"a1", "a2"}
  MaxEntries = 2
  IdleTTL = 3
  BackoffMax = 2
  Keys = {"k1"}
  Calls = {"r1", "r2"}
  Limits <- MCLimits
  Window = 2
  BusyTimeout = 1
  NoEntry = NoEntry
  Vacant = Vacant
  MaxTime = 7
  Upstreams = {1, 2, 3}
  ByHand = {9}
  Origins = {"o1", "o2"}
  Urls = {"x", "y"}
  Names = {1}
  Auths = {"a", "b"}
  Usages = {"p", "q"}
  MaxChanges = 2
  NoRow = NoRow
  Gone = Gone
  NoUsage = NoUsage
  Route <- MCRoute
  Requests = {"q1", "q2"}
  Probes = {"p1"}
  Budgets <- MCBudgets
  Threshold = 2
  FailureWindow = 1
  Cooldown = 1
  RetryAfter = 2
  Deadline = 2
  ProbeTimeout = 1
  Slack = 1
  MaxWait = 1
  Horizon = 4
  NoTime = NoTime
INVARIANTS AdminTypeOK  RateLimitHolds 
PROPERTIES BlocksAreHonoured  ServiceIsKept 
CHECK_DEADLOCK FALSE
