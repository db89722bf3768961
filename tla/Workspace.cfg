CONSTANTS
  i1 = i1
  i2 = i2
  h1 = h1
  h2 = h2
  Local = Local
  Item = {i1, i2}
  Wanted = {i1}
  Name = {i1, i2}
  SafeName <- OwnName
  Host <- Machines
  Fleet <- LocalOrRemote
  Run = {r1, r2}
  Stale <- TwoStale
SYMMETRY Symmetry
SPECIFICATION Spec
INVARIANTS SweepComplete
PROPERTIES TrackedRunKeepsWorkspace ContentsKept
