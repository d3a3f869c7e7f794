SPECIFICATION Spec
CONSTANTS
  w1 = w1  w2 = w2  c1 = c1  c2 = c2  c3 = c3
  Workers <- TwoWorkers
  Conns <- ThreeConns
  Routes <- AllRoutes
  MaxCount = 2
  MaxInterrupts = 1
  Null = Null
SYMMETRY Symmetry
INVARIANTS TypeOK EngineOutlivesHandlers StopFindsSocket OneRequestAfterStop OnlyStopDrops
CHECK_DEADLOCK FALSE
