\* Both modes, every part that may fail, a certificate that ends.
SPECIFICATION Spec
CONSTANTS
  Breakable = {"discovery", "login", "guest", "host", "gateway"}
  Expiring = TRUE
  MaxStarts = 2
  MaxRotations = 1
  MaxWorldFailures = 1
  MaxChecks = 1
INVARIANTS NoServerForgotten SecretOpensHost ForgottenAreOut StatusIsCurrent
