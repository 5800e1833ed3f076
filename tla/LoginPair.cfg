CONSTANTS
  ann = ann
  bob = bob
  e1 = e1
  e2 = e2
  g1 = g1
  g2 = g2
  Bots = {ann, bob}
  NoBot = NoBot
  Hows <- GrowIds
  Pool <- MCPool
  Games = {g1, g2}
  NoExit = NoExit
  Flaky = {}
  MaxLogins <- Two
  MaxFaults = 1
SPECIFICATION LoginSpec
PROPERTY OnePair
CHECK_DEADLOCK FALSE
