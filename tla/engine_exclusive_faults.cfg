SPECIFICATION Spec
CONSTANTS
  r1 = r1  r2 = r2  r3 = r3  r4 = r4  r5 = r5  p1 = p1  p2 = p2
  Null = Null
  Requests <- Five
  Paths <- OnePath
  Histories <- OneHistory
  MaxTokens = 1
  Ops <- AllOps
  Faults <- FaultKinds
  Exclusive = TRUE
  InitialFlags <- AnyFlag
SYMMETRY Symmetry5
INVARIANTS UnloadedEngineHoldsNothing
PROPERTIES ServesInOrder
CHECK_DEADLOCK FALSE
