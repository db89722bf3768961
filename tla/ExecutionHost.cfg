SPECIFICATION Spec
CONSTANTS
  Dirs <- AllDirs
  Hosts <- SomeHosts
INVARIANTS ResultIsHonest RunsInItsDirectory QuietAfterReturn ReachesItsHost
PROPERTIES TimedOutReturns
CHECK_DEADLOCK FALSE
