CONSTANTS
  Threads = {t1, t2, t3}
  NumRounds = 3
SYMMETRY Symmetry
SPECIFICATION Spec
INVARIANTS
  TypeOK
  VerdictExact
  NoBadFree
  NothingLeaks
  ReadyStateInUse
