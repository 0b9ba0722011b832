SPECIFICATION FairSpec
CONSTANTS
  Clients = {c1, c2, c3}
  Cap = 2
  MaxAttempts = 3
  MaxWindows = 1
  AcceptMayFail = TRUE
INVARIANTS Quiet
PROPERTIES PlaceComesBack DisposeEnds
