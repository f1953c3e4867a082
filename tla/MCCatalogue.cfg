SPECIFICATION MCSpec
CONSTANTS
  s1 = s1  s2 = s2  e1 = e1  e2 = e2  c1 = c1  c2 = c2  t1 = t1  t2 = t2
  n1 = n1  n2 = n2  u1 = u1  u2 = u2  k1 = k1  k2 = k2  r1 = r1  r2 = r2
  Sites = {s1, s2}
  Endpoints = {e1, e2}
  Credentials = {c1, c2}
  Targets = {t1, t2}
  Names = {n1, n2}
  Urls = {u1, u2}
  Secrets = {k1, k2}
  Runs = {r1, r2}
  SiteOf <- MCSiteOf
  Offers <- MCOffers
  MaxEdits = 3
  Unborn = Unborn
  Gone = Gone
  NoSecret = NoSecret
CHECK_DEADLOCK FALSE
INVARIANTS
  TypeOK
  RouteIsSound
  UnsupportedIsEarned
PROPERTIES
  EvidenceIsCurrent
  
