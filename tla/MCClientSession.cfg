SPECIFICATION FairSpec
CONSTANTS
  MaxSockets = 3
  NetLimit = 1
  LogoutGrace = 2
  MaxReads = 2
  MaxUnread = 1
  MaxWords = 2
INVARIANTS
  NoGameSocketLeaks
  OutgoingInStep
PROPERTIES
  LossIsNoticed
  LoginReturns
