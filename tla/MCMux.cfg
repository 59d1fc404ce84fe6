SPECIFICATION Spec
CONSTANTS
  r1 = r1
  r2 = r2
  r3 = r3
  k1 = k1
  k2 = k2
  NoKey = NoKey
  None = None
  Reqs <- MCReqs
  Keys = {k1, k2}
  KeyOf <- MCKeyOf
  PeerKeys = {k1, NoKey}
  Closers = {c1}
  Serial = TRUE
  MaxPeer = 1
INVARIANTS StaysRegistered OwnAnswer
