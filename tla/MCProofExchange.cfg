CONSTANTS
  Threads = {t1, t2}
  Checkers = {c1}
  NumRounds = 2
  CallerBuffers = {"null"}
  MaxCalls = 2
SYMMETRY Symmetry
SPECIFICATION ExchangeSpec
INVARIANTS
  AcceptedWasComplete
  HonestExchangeAccepted
