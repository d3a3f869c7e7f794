SPECIFICATION FairSpec
CONSTANTS
  w1 = w1  w2 = w2  c1 = c1  c2 = c2  c3 = c3
  Workers <- OneWorker
  Conns <- TwoConns
  Routes <- AnsweredRoutes
  MaxCount = 2
  MaxInterrupts = 2
  Null = Null
PROPERTIES StopEnds AcceptedIsHeard
CHECK_DEADLOCK FALSE
