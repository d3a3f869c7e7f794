SPECIFICATION FairSpec
CONSTANTS
  w1 = w1  w2 = w2  w3 = w3  j1 = j1  j2 = j2
  Listener = l
  Null = Null
  Workers <- ThreeWorkers
  Jobs <- TwoJobs
  MaxJobs = 3
INVARIANTS TypeOK NoLostWakeup NoLateSleeper
PROPERTIES IsJobPool ServesEveryJob
CHECK_DEADLOCK FALSE
