SPECIFICATION FairSpec
CONSTANTS
  a = a
  b = b
  x = x
  y = y
  None = None
  Disabled = Disabled
  Unusable = Unusable
  Unread = Unread
  NPaths = 2
  Descriptor <- ThreeDescriptors
  Scanners = {loop, direct}
  Loop = loop
  FirstDirs <- EnabledDirs
  MaxEdits = 2
  MaxFails = 1
INVARIANT AppliedTrue
PROPERTIES InSync Undisturbed ConvergesUnlessLapsed
