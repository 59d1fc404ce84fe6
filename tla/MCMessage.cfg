SPECIFICATION MCSpec
CONSTANTS
  Msgs = {m1, m2}
  Kids = {k1, k2}
  NoKid = NoKid
  Vals = {1, 2}
  Wires <- TwoWires
  MaxOps = 5
  IntBits = 16
  MaxScale = 4
  WordBits = 8
  MaxFields = 2
  Parsers = {g1, g2}
  CacheLimit = 2
  MaxPathDepth = 2
  MaxIndex = 99
  NoText = NoText
  MaxNumber = 3
  Builders = {b1, b2}
  Cells = {c1, c2, c3}
  Arrays = {a1, a2, a3}
  SchemaDEs = {0, 2, 5}
  MaxDEIndex = 4
  MaxUnits = 2
  MaxCallsMade = 6
  Base = 2
  MaxFrame = 6
  MaxSends = 3
  NoFrame = NoFrame
  MaxShown = 7
  Bits = 2
  CounterBits = 3
  MaxBlockLen = 36
  MaxData = 8
  Sample = {0, 3}
  Callers = {v1, v2}
  MaxCalls = 3
  Refs = {ra}
  VaultKeys = {x1, x2}
  NoKey = NoKey
  Rand = {255}
  Pins <- SomePins
  Pan <- SomePan
  HsmCallers = {h1, h2}
  MaxCommands = 3
  LenDigits = 1
  Payloads <- SomePayloads
  None = None
  st1 = st1
  st2 = st2
  grpMain = grpMain
  grpMore = grpMore
  dupKey = dupKey
  Runs = {r1, r2}
  Stages = {st1, st2}
  Committers = {st1, st2}
  Aborters = {st1}
  Retried = {st2}
  MaxAttempts = 2
  Groups <- LoopingGroups
  Entry = grpMain
  MaxStages = 2
  Keys = {dupKey}
  Key <- Duplicates
INVARIANTS
    CacheTells  FramesInOrder 
  CryptoHolds   
PROPERTIES
  NoLeakage OverlaysApart Terminates
CHECK_DEADLOCK FALSE
