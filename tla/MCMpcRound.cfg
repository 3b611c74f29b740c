SPECIFICATION FairSpec
CONSTANTS
  Width = 32
  LBits = 1030
  HashBits = 4
  Inputs <- MCInputs
  HashA <- MCHashA
  Junk <- MCJunk
  Digests <- MCDigests
  Rehash <- MCRehash
  Tape <- MCTape
INVARIANTS
  TypeOK
  SharesReconstruct
  BudgetExact
  RoundExact
PROPERTY
  OracleAnswers
