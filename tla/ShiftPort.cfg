CONSTANTS
  ByteBits = 1
  Requests <- MCRequests
SPECIFICATION LiveSpec
INVARIANTS TypeOK ResultCorrect NoStrayAck
PROPERTY Answered
