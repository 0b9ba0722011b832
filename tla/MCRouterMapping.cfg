\* Lost and late calls, a renewal, a crash, a router that forgets; others
\* act between, not within, Connect's sequences of calls.
SPECIFICATION Spec
CONSTANTS
  Ports = {1, 2}
  MaxAttempts = 2
  MaxStarts = 2
  MaxRenewals = 1
  MaxLost = 1
  MaxForgets = 1
  MaxCrashes = 1
  Interference = FALSE
INVARIANTS OthersAreSafe QuietStopUnmaps
