CONSTANTS
  Threads = {t1, t2}
  NumRounds = 2
  CallerBuffers = {"null"}
SPECIFICATION Spec
INVARIANT SuccessMeansSampled
