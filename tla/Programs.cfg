CONSTANTS
  ByteBits = 1
  OffsetBits = 3
  AddrBits = 3
  IpBits = 3
  PgmBits = 2
  HasCallHandler = TRUE
  CallAddrBits = 2
  CallDepth = 3
  Unknowns = {0, 255}
  Inputs <- HostInputs
  Programs <- HostPrograms
  Memories <- MCMemories
SPECIFICATION LiveSpec
PROPERTIES Implements InstructionCompletes
