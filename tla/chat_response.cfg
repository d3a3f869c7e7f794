SPECIFICATION FairSpec
CONSTANTS
  Handler = Handler
  Task = Task
  MaxChunks = 3
  Null = Null
INVARIANTS TypeOK StreamIsFaithful SentMeansWhole
PROPERTY HandlerEnds
CHECK_DEADLOCK FALSE
