CONSTANTS
  ann = ann
  bob = bob
  e1 = e1
  e2 = e2
  g1 = g1
  g2 = g2
  Bots = {ann, bob}
  NoBot = NoBot
  Hows <- Mixed
  Pool <- MCPool
  Games = {g1, g2}
  NoExit = NoExit
  Flaky = {e1}
  MaxLogins <- TwoAndOne
  MaxFaults = 1
SPECIFICATION FairLogin
PROPERTIES LogonFromPin DeviceKept StopEndsLogin
CHECK_DEADLOCK FALSE
