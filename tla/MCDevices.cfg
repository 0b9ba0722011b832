\* One instance of each part; see MCDevices.tla.  A buffer of ten bytes, and at
\* most nine an update: no update fills two.  Two tracks that are there and one
\* that is not; more effects than play at a time.
SPECIFICATION DevicesSpec
CONSTANTS
  Pads = {p1, p2}
  NoPad = NoPad
  Cameras = {"left"}
  MaxEvents = 2
  MaxHeld = 2
  Xboxes = {"x1", "x2"}
  PCs = {"p1", "p2"}
  MaxFound = 1
  MaxLogins <- PerXbox
  MaxBoots <- PerXbox
  MaxStarts = 1
  Tracks = {"a", "b", "missing"}
  OnDisc = {"a", "b", "title"}
  Title = "title"
  Effects = 2
  Delay = 2
  MaxWaves = 4
  Chars = {0, 1, 12, 13, 26, 40, 60}
  MaxLength = 3
  Texts <- ShortTexts
  Remembered = 1
  MaxMessages = 2
  MaxChats = 3
  IconIds = {1, 2, 3}
  IconCounts = {1, 10}
  Counted = {1}
  Linked <- Certificates
  Buckets = 2
  IconRoom = 2
  Nodes = {n1, n2, n3}
  Null = Null
  Limit = 10
  Sizes = {2, 3, 5}
  PerUpdate = 9
  MaxTracked = 6
SYMMETRY Symmetry
INVARIANTS NoneIsLost NothingSticks OneComputer CodesAreCurrent RightSound ReadsAsWritten
PROPERTIES ImplementsIconCache
