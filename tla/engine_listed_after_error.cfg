SPECIFICATION Spec
CONSTANTS
  r1 = r1  r2 = r2  r3 = r3  r4 = r4  r5 = r5  p1 = p1  p2 = p2
  Null = Null
  Requests <- Three
  Paths <- OnePath
  Histories <- OneHistory
  MaxTokens = 1
  Ops <- AllOps
  Faults = {"infer"}
  Exclusive = TRUE
  InitialFlags <- NoFlag
PROPERTIES ListedModelIsRunning
CHECK_DEADLOCK FALSE
