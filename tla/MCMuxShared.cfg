SPECIFICATION FairSpec
CONSTANTS
  r1 = r1
  r2 = r2
  r3 = r3
  k1 = k1
  k2 = k2
  NoKey = NoKey
  None = None
  Reqs <- MCReqs
  Keys = {k1, k2}
  KeyOf <- MCKeyOfFails
  PeerKeys = {k1}
  Closers = {c1}
  Serial = FALSE
  MaxPeer = 1
PROPERTY CallsReturn
