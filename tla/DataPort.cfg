CONSTANTS
  ByteBits = 1
  AddrBits = 4
  Accesses <- MCAccesses
SPECIFICATION LiveSpec
INVARIANTS TypeOK ReadsWhatIsThere StoresLand NoStaleAck
PROPERTIES InRange Answered
