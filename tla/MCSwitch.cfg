SPECIFICATION MCSpec
CONSTANTS
  Size = 2
  Links = {l1, l2, l3, l4}
  NoLink = NoLink
  Users = {u1, u2}
  Reconnectors = {g1, g2, g3}
  PoolClosers = {p1}
  Muxes = {m1, m2}
  NoMux = NoMux
  Requests = {r1}
  Stoppers = {s1}
  KeepaliveBounded = TRUE
  Makers = {m1, m2, m3}
  NoObject = NoObject
  People = {u1}
  Roles = {r1}
  Passwords = {p1, p2}
  NoPassword = NoPassword
  Visits = {q1}
  Metrics = {1, 2}
  MaxUpdates = 2
  Checks = {h1, h2}
INVARIANTS
  PoolSound ConnectorSound   OpsTell
PROPERTIES
  PoolServes 
CHECK_DEADLOCK FALSE
