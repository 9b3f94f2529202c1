CONSTANTS
  data_width = 4
  NoRequest = NoRequest
  ByteBits = 1
  Words32 = {0, 1, 2, 4, 7, 8, 15}
  Words64 <- MCWords64
  NoWord = NoWord
SPECIFICATION ArithmeticSpec
INVARIANTS AnswerCorrect IInv ZeroAgrees ResultAgrees TakenAgrees
