\* Bots left to themselves and bots with a user, before a server that may fall
\* silent; and two turns of the AI, three rounds and three calls each.
SPECIFICATION MCSpec
CONSTANTS
  Methods <- Every
  Replies <- MCReplies
  AiTools = {"look"}
  Sendings <- MCSendings
  MaxRounds = 3
  MaxToolCalls = 3
  MaxTurns = 2
INVARIANTS NeverStranded DueSparesSession RightLogon HistoryAccepted RunsOnce
PROPERTY Redials
CHECK_DEADLOCK FALSE
