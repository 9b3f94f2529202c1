CONSTANTS
  ByteBits = 1
  OffsetBits = 7
  AddrBits = 7
  PgmBits = 3
  STACK_SIZE = 16
  MAX_EXT_FUNCS = 2
  NULL = NULL
  Names = {"f", "g"}
  Files <- MCFiles
  Maps <- MCMaps
  Calls <- MCCalls
  Trash = {0, 201}
SPECIFICATION Spec
INVARIANTS TypeOK CallerRestored CallsFollowAbi CallsBound
PROPERTIES JitImplements Returns
