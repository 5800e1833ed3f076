CONSTANTS
  Scenes = {"farm", "collect", "report", "search", "spawning"}
  NoBot = NoBot
  Bots = {b1, b2}
  Tiles = {t1}
  Meddles = FALSE
  MaxEvents = 1
  Hands = {b1, b2}
  Objects = {o1, o2}
  PerTick = 1
  Reaches = {"circle", "corner"}
  MaxTurns = 2
  Finders = {b1, b2}
  MaxFinds = 4
  MaxFaults = 2
  GridWidth = 34
  Hideouts = {0, 3, 9, 15, 20, 27, 33}
  HuntSteps = 3
  MaxAvoid = 1
  ann = ann  cat = cat
  Lines = {ann, cat}
  Parse <- MCParse
  Contents <- MCContents
  NoContent = NoContent
  Exits = {g1}
  NoExit = NoExit
  Cap = 1
  MaxId = 2
  MaxOps = 3
SPECIFICATION MCSpec
SYMMETRY Alike
INVARIANTS Apart GivesBack OneSeeker OneMessage CandidatesSound NextDealsInOrder
CHECK_DEADLOCK FALSE
