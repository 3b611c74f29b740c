SPECIFICATION Spec
SYMMETRY Symmetry
CONSTANTS
  ByteBits = 4
  WordBits = 8
  BindingBits = 1
  DigestLen = 8
  MaxMsgBits = 9
  Contexts = {c1, c2}
  Lengths = {0, 5, 10}
  Messages <- MCMessages
  Entropy <- MCEntropy
  MaxCommits = 1
  Null = Null
INVARIANTS
  TypeOK
  VerifyExact
  HonestAccepted
  PaddingZero
  NothingLeaks
