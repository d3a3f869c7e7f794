SPECIFICATION Spec
CONSTANTS
  MaxInt = 7
  MaxMessages = 4
INVARIANTS TypeOK PromptIsFormatted LatestKept
CHECK_DEADLOCK FALSE
