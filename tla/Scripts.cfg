CONSTANTS
  Scenes = {"bridge", "scripts"}
  Clients = {c1, c2}
  MaxRequests = 2
  MaxStarts = 2
  Names = {startup}
  Outside = Outside
  NoFile = NoFile
  Kinds = {"nested", "greedy", "sleepy", "stubborn"}
  Limit = 1
  Budget = 1
  MaxRevisions = 1
  MaxFailures = 1
  MaxRuns = 2
SPECIFICATION MCSpec
INVARIANT NeverTorn
PROPERTIES ImplementsExchange ForwardsEnd LoopsEnd
CHECK_DEADLOCK FALSE
