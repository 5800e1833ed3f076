CONSTANTS
  Scenes = {"automation", "pool", "place"}
  Accounts = {ann, bob}
  Tokens = {}
  Pooling = {ann}
  Cap = 1
  MaxId = 2
  MaxEdits = 2
  MaxSaves = 2
  MaxChanges = 3
  p1 = p1  p2 = p2
  Exits = {p1, p2}
  NoExit = NoExit
  Bots = {b1, b2}
  NoBot = NoBot
  NoFile = NoFile
  Edits <- Either
  RRPeriod = 4
  Items = {dirt, seed}
  Tiles = {t1, t2}
  Empty = Empty
  MaxAmount = 3
  MaxSent = 5
  Plays <- Both
SPECIFICATION MCSpec
SYMMETRY Alike
INVARIANTS PublishedIsConfig ReservedIsPending NeverOverspent
PROPERTIES RestoredAsSaved SpawnUnderLimit RotationFindsClean
CHECK_DEADLOCK FALSE
