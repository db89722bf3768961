CONSTANTS
  i1 = i1
  i2 = i2
  h1 = h1
  h2 = h2
  Local = Local
  Item = {i1}
  Wanted = {i1}
  Name = {i1}
  SafeName <- OwnName
  Host <- Machines
  Fleet <- LocalOnly
  Run = {r1}
  Stale <- NothingStale
SYMMETRY Symmetry
SPECIFICATION Spec
INVARIANTS PreparedBeforeRun
