CONSTANTS
  Item = {i1}
  Hosts <- NoHosts
  MaxPerHost = Unlimited
  Unlimited = Unlimited
  Local = Local
  State <- AllStates
  ActiveState <- ActiveStates
  TerminalState <- TerminalStates
  View <- TwoViews
  Missing = Missing
  MaxConcurrent = 1
  StateLimit <- NoLimits
  StallRecovery = TRUE
  MaxAttempt = 2
  Nonce = {1, 2, 3}
  MaxBlocked = 1
  NoRun = NoRun
  NoRetry = NoRetry
  NoTimer = NoTimer
  PollNonce = {1, 2, 3, 4}
  MaxBlockedPolls = 2
  MaxSetbacks = 2
SPECIFICATION ServiceSpec
INVARIANTS PollingGoesOn OnePollAtATime
PROPERTIES RetryServed SilentRunStopped KeepsPollContract
