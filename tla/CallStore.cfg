CONSTANTS
  ByteBits = 1
  CallAddrBits = 2
  CallDepth = 3
  Unknowns = {0, 255}
  Calls <- MCCalls
SPECIFICATION Spec
INVARIANT ReadsWhatWasStored
