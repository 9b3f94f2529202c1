CONSTANTS
  ByteBits = 1
  Words32 = {0, 1, 2, 4, 7, 8, 15}
  Words64 <- MCWords64
  NoWord = NoWord
SPECIFICATION DatapathSpec
INVARIANT Compliant
