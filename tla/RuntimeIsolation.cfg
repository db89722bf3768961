CONSTANTS
  i1 = i1
  r1 = r1
  r2 = r2
  r3 = r3
  Item <- OneItem
  Run <- ThreeRuns
  MaxTurns = 1
  NoHandle = NoHandle
  Ended = Ended
  Hosts <- NoHosts
  MaxPerHost = Unlimited
  Unlimited = Unlimited
  Local = Local
  State <- AllStates
  ActiveState <- ActiveStates
  TerminalState <- TerminalStates
  View <- TwoViews
  Missing = Missing
  MaxConcurrent = 1
  StateLimit <- NoLimits
  StallRecovery = TRUE
  MaxAttempt = 1
  Nonce = {1, 2, 3}
  MaxBlocked = 1
  NoRun = NoRun
  NoRetry = NoRetry
  NoTimer = NoTimer
SYMMETRY Symmetry
SPECIFICATION RuntimeSpec
INVARIANTS RunsIsolated
