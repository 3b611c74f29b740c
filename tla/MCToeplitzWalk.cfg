SPECIFICATION Spec
CONSTANTS
  ByteBits = 8
  WordBits = 32
  BindingBits = 256
  DigestLen = 32
  MaxMsgBits = 70
INVARIANTS TypeOK WindowInBounds RowInsideMatrix BytesFitWords
