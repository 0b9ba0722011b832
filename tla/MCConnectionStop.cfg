\* A discovery loop that fails.
SPECIFICATION FairSpec
CONSTANTS
  Breakable = {"discovery"}
  Expiring = FALSE
  MaxStarts = 1
  MaxRotations = 0
  MaxWorldFailures = 0
  MaxChecks = 0
PROPERTIES StopWorks
