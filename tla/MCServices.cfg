SPECIFICATION MCSpec
CONSTANTS
  Conns = {n1, n2}
  NoConn = NoConn
  ListenerClosers = {l1, l2}
  Frames = {f1}
  OnError = TRUE
  Keys = {k1, k2}
  Entries = {e1, e2}
  Waiters = {w1, w2}
  MaxVersion = 4
  Direct = {d1}
  KvKeys = {x1, x2}
  Values = {v1, v2}
  NoValue = NoValue
  Clients = {c1, c2}
PROPERTIES
  QuietAfterStop  WaitersServed WatcherConverges 
CHECK_DEADLOCK FALSE
