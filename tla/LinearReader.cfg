CONSTANTS
  Issue = {1, 2, 3}
  PageSize = 2
  Asked <- TwoLists
  Assignee = "me"
  Match <- AllOrOne
  All = All
  Gone = Gone
  Nothing = Nothing
  Failed = Failed
SPECIFICATION ReaderSpec
INVARIANTS NothingMissed NoForeignWork
