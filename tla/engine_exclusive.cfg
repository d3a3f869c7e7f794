SPECIFICATION Spec
CONSTANTS
  r1 = r1  r2 = r2  r3 = r3  r4 = r4  r5 = r5  p1 = p1  p2 = p2
  Null = Null
  Requests <- Five
  Paths <- TwoPaths
  Histories <- OneHistory
  MaxTokens = 2
  Ops <- AllOps
  Faults = {"chat_args"}
  Exclusive = TRUE
  InitialFlags <- NoFlag
SYMMETRY Symmetry5
INVARIANTS NeverCrashes LoadedEngineIsWhole ServesTheListedModel QueueIsKept
PROPERTIES DecodedByItsModel
CHECK_DEADLOCK FALSE
