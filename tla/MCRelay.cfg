\* One session whose sockets may fail; two chunks in each direction.
SPECIFICATION RelayFairSpec
CONSTANTS
  MaxSent = 2
  MayFail = TRUE
  Secure = {"up"}
INVARIANTS EndIsTheEnd HalfCloseIsPreserved
PROPERTIES AllIsCarried
