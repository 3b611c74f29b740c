CONSTANTS
  Threads = {t1, t2}
  NumRounds = 3
SPECIFICATION FairSpec
PROPERTIES
  Termination
  ImplementsAllRounds
