SPECIFICATION FairSpec
CONSTANTS
  Kinds <- SomeKinds
  MaxRequests = 3
  MaxCount = 3
INVARIANTS TypeOK AnswersTheRequest
PROPERTY RequestIsAnswered
CHECK_DEADLOCK FALSE
