CONSTANTS
  ByteBits = 1
  OffsetBits = 3
  AddrBits = 3
  IpBits = 3
  PgmBits = 2
  HasCallHandler = FALSE
  CallAddrBits = 2
  CallDepth = 3
  Unknowns = {0}
  Inputs <- MCInputs
  Programs <- MCPrograms
  Memories <- MCMemories
  Uploads <- MCUploads
  Accesses <- MCAccesses
  RuleWords <- MCRuleWords
  MaxSwitches = 1
  NoMemory = NoMemory
SPECIFICATION ReprogramSpec
INVARIANT HostStoresLand
PROPERTIES RunsWhatWasLoaded CompletesUnlessStopped
