SPECIFICATION Spec
CONSTANTS
  ByteBits = 4
  WordBits = 8
  BindingBits = 0
  DigestLen = 8
  MaxMsgBits = 9
  Contexts = {c1}
  Lengths = {1, 2, 8, 9}
  Messages <- MCMessages
  Entropy <- MCEntropy
  MaxCommits = 1
  Null = Null
INVARIANTS
  VerifyExact
  HonestAccepted
