SPECIFICATION Spec
CONSTANTS
  c1 = c1
  c2 = c2
  Clients <- TwoClients
  TicksPerSecond = 2
  Window = 3
  MaxDelay = 1
  MaxUsage = 2
  MaxTotal = 3
  MaxRuns = 2
  MaxSamples = 3
SYMMETRY AnyOrder
INVARIANTS TotalsMatchReports IdleShowsZero
