\* Two bots, one world and one GrowID.
SPECIFICATION MCSpec
CONSTANTS
  n1 = n1  w1 = w1
  Names = {n1}
  NoName = NoName
  Worlds = {w1}
  NoWorld = NoWorld
  NoBot = NoBot
  Configs <- AllOrFirst
  MaxSpawns = 2
  MaxQueue = 1
  Faulty = {0}
INVARIANTS BeliefIsOwnership RosterConsistent NothingLeftBehind
PROPERTIES ClaimsNotStolen ImplementsRoster
