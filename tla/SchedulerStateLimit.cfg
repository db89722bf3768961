CONSTANTS
  i1 = i1
  i2 = i2
  i3 = i3
  h1 = h1
  h2 = h2
  Item <- TwoItems
  Hosts <- TwoHosts
  MaxPerHost = 1
  Unlimited = Unlimited
  Local = Local
  State <- AllStates
  ActiveState <- ActiveStates
  TerminalState <- TerminalStates
  View <- AllViews
  Missing = Missing
  MaxConcurrent = 2
  StateLimit <- OneDoing
  StallRecovery = TRUE
  MaxAttempt = 2
  Nonce = {1, 2, 3, 4}
  MaxBlocked = 2
  NoRun = NoRun
  NoRetry = NoRetry
  NoTimer = NoTimer
SYMMETRY Symmetry
SPECIFICATION Spec
PROPERTIES StateLimitAtDispatch
