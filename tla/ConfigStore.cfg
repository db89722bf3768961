CONSTANTS
  c1 = c1
  c2 = c2
  Path = {p1, p2}
  Caller <- TwoCallers
  Loop = Loop
  MaxVersion = 2
  Time = {1}
  Size = {1}
  Absent = Absent
  Nobody = Nobody
  Document <- Documents
  Env <- Environment
  Unset = Unset
  Null = Null
  NotANumber = NotANumber
  Rejected = Rejected
  Width = 8
  Millisecond = 2
  BaseDelay = 10
  Attempts = 12
SPECIFICATION FairSpec
INVARIANTS CurrentIsFresh ServedSettingsAreSafe RetryDelayIsCapped
PROPERTIES NeverGoesBack CatchesUp
