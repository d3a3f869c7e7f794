SPECIFICATION FairSpec
CONSTANTS
  w1 = w1  w2 = w2  h1 = h1  h2 = h2  a1 = a1  a2 = a2
  Null = Null
  Threads <- FourThreads
  Writers <- TwoWriters
  Readers <- TwoReaders
  Answers <- TwoAnswers
  MaxPushes = 3
INVARIANTS TypeOK FrontIsPopped NoLostWakeup
PROPERTIES IsAnswerQueue ServesEveryCaller
CHECK_DEADLOCK FALSE
