CONSTANTS
  Threads = {t1, t2, t3}
  NumRounds = 3
  CallerBuffers = {"absent", "null"}
SYMMETRY Symmetry
SPECIFICATION Spec
INVARIANTS
  TypeOK
  CompleteOnSuccess
  VerdictExact
  NoBadFree
  OwnershipAtReturn
  ReadyStateInUse
  SingleProofFile
