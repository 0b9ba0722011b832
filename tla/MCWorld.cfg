\* One instance of each part of the client's world; see MCWorld.tla.  Two tiles an
\* entity is sent to, too far apart to walk, and those it walks to from there;
\* three waypoints, so that a route is full.  One door, within two of four windows
\* of the scene, at the edge of a third and outside the last; a map of two files.
SPECIFICATION Spec
CONSTANTS
  Kinds = {"player", "npc"}
  Ids = {2, 3}
  Places = {0, 1}
  Bases = {0, 1}
  RouteTiles = {1, 10}
  EntitySize = 1
  TileWidth = 16
  TurnStep = 512
  MaxRoute = 3
  SceneFrom = 1
  SceneTo = 13
  Shifts <- OneEitherWay
  MaxSlide = 2
  MaxStall = 2
  MaxPackets = 3
  MapSize = 5
  Barriers <- SevenThings
  MaxBarriers = 3
  MaxWaypoints = 2
  MaxDetour = 4
  Span = 6
  ZoneSize = 2
  Windows = {0, 2, 4, 6}
  Doors = {4}
  MapFiles = {{0, 1, 2, 3, 4, 5, 6, 7}, {8, 9, 10, 11}}
  FilesOnDisc = FALSE
  MaxMerges = 1
  Ground = {3}
  Single = "sword"
  Piled = "coins"
  PileCounts = {1, 4}
  Cost <- Costs
  MaxPile = 3
INVARIANTS InStep LooksRight OnRoute LocsAsTold ThingsAsTold FlagsMatch RoutesAreShortest
PROPERTIES Arrives
