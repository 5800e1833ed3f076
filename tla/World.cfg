CONSTANTS
  Width = 3
  Items = {"dirt", "mask"}
  Temporary = {"mask"}
  PackSize = 2
  Cap = 1
  Byte = 2
  Peers = {"ann"}
  Topics <- MCTopics
  MaxUid = 2
  MaxQuestions = 2
  MaxMoves = 2
  Maps <- MCMaps
  Starts <- MCMaps
  Warps <- MCWarps
  Queries <- MCQueries
  CacheLimit = 1
  MaxAsks <- MCAsks
SPECIFICATION MCSpec
INVARIANTS StateAgrees OneAnswerEach AnswersRight
PROPERTY WalkEnds
CHECK_DEADLOCK FALSE
