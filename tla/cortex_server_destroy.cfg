SPECIFICATION FairSpec
CONSTANTS
  w1 = w1  w2 = w2  c1 = c1  c2 = c2  c3 = c3
  Workers <- TwoWorkers
  Conns <- TwoConns
  Routes <- AllRoutes
  MaxCount = 1
  MaxInterrupts = 0
  Null = Null
PROPERTY DestroyEnds
CHECK_DEADLOCK FALSE
