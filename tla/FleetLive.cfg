\* Two bots that are stopped and joined; three bots at a connected-phase gate
\* whose horizon is two and a half spacings ahead.
SPECIFICATION MCSpec
CONSTANTS
  w1 = w1
  Names = {}
  NoName = NoName
  Worlds = {w1}
  NoWorld = NoWorld
  NoBot = NoBot
  Configs <- FirstOn
  MaxSpawns = 2
  MaxQueue = 0
  Faulty = {}
  b1 = b1  b2 = b2  b3 = b3
  Bots = {b1, b2, b3}
  Spacing = 2
  MaxAhead = 5
  Cooldown = 0
  MaxNow = 6
  MaxGrants = 4
INVARIANT Paced
PROPERTY StoppedBotReleases
