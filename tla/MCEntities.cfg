\* Three players that come and go.
SPECIFICATION Spec
CONSTANTS
  Kinds = {"player"}
  Ids = {1, 2, 3}
  Places = {0}
  Bases = {0}
INVARIANTS EntriesAreAlive
