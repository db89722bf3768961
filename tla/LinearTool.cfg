CONSTANTS
  MaxTurns = 2
  Request = {3, 4}
  AutoApprove = TRUE
  MaxInbox = 3
SPECIFICATION FairToolSpec
INVARIANTS TurnsAgree RequestsAnsweredOnce NoOrphanProcess VerdictsAreTrue
PROPERTIES TurnsEnd StoppedSessionEnds
