SPECIFICATION LiveSpec
CONSTANTS
  Key = {k1}
  Request = {r1, r2, r3}
  NoKey = NoKey
  Unlimited = Unlimited
  Quotas = {2, 3}
  Amounts = {0, 2}
  MaxInt = 5
INVARIANTS
  TypeOK
  QuotaNeverOverspent
  
PROPERTIES
  KeysArePrepaid
  SpendingIsJournaled
  RestartFinishesEveryOrphan
