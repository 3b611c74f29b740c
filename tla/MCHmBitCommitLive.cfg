CONSTANTS
  Threads = {t1, t2}
  NumRounds = 3
  CallerBuffers = {"null"}
SPECIFICATION FairSpec
PROPERTIES
  Termination
  ImplementsAllRounds
