SPECIFICATION Spec
CONSTANTS
  Width = 3
  MaxGates = 2
  Inputs <- MCInputs
  Tapes <- MCTapes
  Addend <- MCAddend
INVARIANTS
  TypeOK
  CarriesRipple
  ProductsCompute
  SumsCompute
  HonestViewsAccepted
  VerifierFollows
