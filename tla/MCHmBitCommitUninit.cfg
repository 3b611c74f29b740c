CONSTANTS
  Threads = {t1, t2}
  NumRounds = 2
  CallerBuffers = {"uninit"}
SPECIFICATION Spec
INVARIANT NoBadFree
