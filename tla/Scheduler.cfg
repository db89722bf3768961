CONSTANTS
  i1 = i1
  i2 = i2
  i3 = i3
  h1 = h1
  h2 = h2
  Item <- ThreeItems
  Hosts <- TwoHosts
  MaxPerHost = 1
  Unlimited = Unlimited
  Local = Local
  State <- AllStates
  ActiveState <- ActiveStates
  TerminalState <- TerminalStates
  View <- MainViews
  Missing = Missing
  MaxConcurrent = 2
  StateLimit <- NoLimits
  StallRecovery = TRUE
  MaxAttempt = 2
  Nonce = {1, 2, 3}
  MaxBlocked = 1
  NoRun = NoRun
  NoRetry = NoRetry
  NoTimer = NoTimer
SYMMETRY Symmetry
SPECIFICATION Spec
INVARIANTS MapsAgree CapacityRespected
  RetryNeverLost ArmedTimersAreCurrent
PROPERTIES HostFilledByEventsOnly BackoffRespected LineageKept ClosedStartsNothing
