---------------------------- MODULE CallPortProof -----------------------------
(***************************************************************************)
(* The call handler's promises, for every width, depth of the store and    *)
(* program.                                                                *)
(***************************************************************************)
EXTENDS CallPort, WordsProof

\* stb is high exactly in STATE_CALL_PENDING.
Driven == port.stb <=> phase = "pending"

\* The extra execution on the edge after ack leaves write_enable high for good, once a
\* store call has been answered: where it is low, no store call has been answered since
\* the last reset, except on that edge itself.
Acknowledged(f) == phase = "pending" /\ ch.ack /\ port.func = f
Unspoilt ==
  /\ Acknowledged(FuncStore) => ~ch.write_enable
  /\ ~ch.write_enable => store = kept \/ Acknowledged(FuncStore)

CallInv ==
  /\ TypeOK /\ kept \in [0 .. CallDepth - 1 -> Data] /\ Driven
  /\ StoreAnswered /\ ReadAnswered /\ Unspoilt

-----------------------------------------------------------------------------

LEMMA Address ==
  ASSUME NEW p, p.r1 \in Data
  PROVE  address(p) \in Nat /\ (address(p) < CallDepth => address(p) \in 0 .. CallDepth - 1)
<1>1. CallAddrBits \in 0 .. W64
  BY CallMemoryAssumption
<1>2. 2^CallAddrBits \in Nat /\ 2^CallAddrBits > 0
  BY <1>1, Power
<1>3. 2^W64 \in Nat /\ W64 \in 0 .. W64
  BY Widths, Power
<1>4. p.r1 \in Nat
  BY <1>3 DEF Data, Word
<1>5. CallDepth \in Nat
  BY <1>2, CallMemoryAssumption
<1> QED BY <1>2, <1>4, <1>5 DEF address

LEMMA FuncCodes ==
  /\ FuncBase \in Nat
  /\ FuncLeds # FuncStore /\ FuncStore # FuncRead /\ FuncLeds # FuncRead
<1>1. 3 * ByteBits \in 0 .. W64 /\ ByteBits \in 0 .. W64
  BY Widths
<1>2. 2^ByteBits - 1 \in Nat /\ 2^(3 * ByteBits) \in Nat
  BY <1>1, Power
<1>3. FuncBase \in Nat
  BY <1>2 DEF FuncBase
<1> QED BY <1>3 DEF FuncLeds, FuncStore, FuncRead

\* The ports of every call.
LEMMA Driving ==
  /\ NoCall \in [func : Word(W32), r1 : Data, r2 : Data]
  /\ \A b \in BOOLEAN, c \in [func : Word(W32), r1 : Data, r2 : Data] :
       /\ Drive(b, c) \in [stb : BOOLEAN, func : Word(W32), r1 : Data, r2 : Data]
       /\ Drive(b, c).stb = b
<1>1. 0 \in Word(W32) /\ 0 \in Data
  BY ZeroWord, Widths DEF Data
<1> QED BY <1>1 DEF Drive, NoCall

\* The registers after an edge.
LEMMA EdgeType ==
  ASSUME TypeOK, NEW rst \in BOOLEAN, Edge(rst, port)
  PROVE  ch' \in Registers /\ store' \in [0 .. CallDepth - 1 -> Data]
<1>1. ch \in Registers /\ store \in [0 .. CallDepth - 1 -> Data] /\ port.r1 \in Data /\ port.r2 \in Data
  BY DEF TypeOK
<1>2. store' \in [0 .. CallDepth - 1 -> Data]
  BY <1>1, Address DEF Edge, MemEdge
<1>3. 0 \in Data
  BY ZeroWord, Widths DEF Data
<1>4. ResetRegs \in Registers
  BY <1>3 DEF ResetRegs, Registers
<1>5. ASSUME NEW data \in Data PROVE StepRead(data) \in Registers
  BY <1>1 DEF StepRead, Registers
<1>6. data_r(port) \subseteq Data
  BY <1>1, Address, CallMemoryAssumption DEF data_r, Data
<1>7. StepStore \in Registers /\ Unknown \in Registers /\ Idle \in Registers
  BY <1>1 DEF StepStore, Unknown, Idle, Registers
<1>8. SetLeds(port) \in Registers
  <2>1. port.r1 \in Nat
    BY <1>1, Widths, Power DEF Data, Word
  <2>2. ASSUME NEW i \in 1 .. 3 PROVE (port.r1 \div 2^(i - 1)) % 2 \in 0 .. 1
    <3>1. i - 1 \in 0 .. W64
      BY ByteBitsAssumption DEF W64
    <3>2. 2^(i - 1) \in Nat /\ 2^(i - 1) > 0
      BY <3>1, Power
    <3>3. port.r1 \div 2^(i - 1) \in Int
      BY <2>1, <3>2
    <3> QED BY <3>3
  <2>3. [i \in 1 .. 3 |-> (port.r1 \div 2^(i - 1)) % 2] \in [1 .. 3 -> 0 .. 1]
    BY <2>2
  <2> QED BY <1>1, <2>3 DEF SetLeds, Registers
<1>9. Serve(port) \subseteq Registers
  BY <1>5, <1>6, <1>7, <1>8, FuncCodes DEF Serve
<1> QED BY <1>2, <1>4, <1>7, <1>9 DEF Edge

\* What a call in progress does, by its function.
LEMMA Served ==
  ASSUME TypeOK, port.stb, Edge(FALSE, port)
  PROVE  /\ port.func = FuncStore => ch' = StepStore
         /\ port.func = FuncRead => \E data \in data_r(port) : ch' = StepRead(data)
         /\ port.func # FuncStore => (ch'.write_enable <=> ch.write_enable)
         /\ ch.write_enable /\ address(port) < CallDepth => store'[address(port)] = port.r2
         /\ ~ch.write_enable => store' = store
<1>1. ch \in Registers /\ store \in [0 .. CallDepth - 1 -> Data] /\ port.r1 \in Data
  BY DEF TypeOK
<1>2. /\ port.func = FuncStore => ch' = StepStore
      /\ port.func = FuncRead => \E data \in data_r(port) : ch' = StepRead(data)
  BY FuncCodes DEF Edge, Serve
<1>3. port.func # FuncStore =>
        \/ ch' = SetLeds(port) \/ ch' = Unknown
        \/ \E data \in data_r(port) : ch' = StepRead(data)
  BY FuncCodes DEF Edge, Serve
<1>4. port.func # FuncStore => (ch'.write_enable <=> ch.write_enable)
  BY <1>1, <1>3 DEF SetLeds, Unknown, StepRead, Registers
<1>5. ch.write_enable /\ address(port) < CallDepth => store'[address(port)] = port.r2
  BY <1>1, Address DEF Edge, MemEdge
<1>6. ~ch.write_enable => store' = store
  BY DEF Edge, MemEdge
<1> QED BY <1>2, <1>4, <1>5, <1>6

\* What an edge without a call does.
LEMMA Idled ==
  ASSUME TypeOK, ~port.stb, Edge(FALSE, port)
  PROVE  ~ch'.ack /\ (ch'.write_enable <=> ch.write_enable) /\ (~ch.write_enable => store' = store)
<1>1. ch' = Idle /\ ch \in Registers
  BY DEF Edge, TypeOK
<1>2. ~ch.write_enable => store' = store
  BY DEF Edge, MemEdge
<1> QED BY <1>1, <1>2 DEF Idle, Registers

-----------------------------------------------------------------------------

LEMMA CallInit == Init => CallInv
<1> SUFFICES ASSUME Init PROVE CallInv
  OBVIOUS
<1>1. 0 \in Data
  BY ZeroWord, Widths DEF Data
<1>2. ch \in Registers /\ store \in [0 .. CallDepth - 1 -> Data]
  BY <1>1 DEF Init, ResetRegs, Registers
<1>3. ~ch.ack /\ ~ch.write_enable /\ kept = store /\ phase = "run"
  BY DEF Init, ResetRegs
<1>4. port \in [stb : BOOLEAN, func : Word(W32), r1 : Data, r2 : Data] /\ ~port.stb
  BY Driving DEF Init
<1> QED BY <1>2, <1>3, <1>4 DEF CallInv, TypeOK, Driven, StoreAnswered, ReadAnswered, Answers,
           Unspoilt, Acknowledged

LEMMA CallStep == CallInv /\ [Next]_vars => CallInv'
<1> SUFFICES ASSUME CallInv, [Next]_vars PROVE CallInv'
  OBVIOUS
<1> USE DEF CallInv
<1>0. /\ port \in [stb : BOOLEAN, func : Word(W32), r1 : Data, r2 : Data]
      /\ phase \in {"run", "pending", "return", "halt"}
      /\ ch \in Registers
  BY DEF TypeOK
<1>1. ASSUME NEW c \in Calls, Call(c) PROVE CallInv'
  <2>1. c \in [func : Word(W32), r1 : Data, r2 : Data]
    BY CallsAssumption
  <2>2. TypeOK' /\ port'.stb /\ phase' = "pending" /\ kept' = kept
    BY <1>1, <2>1, EdgeType, Driving DEF Call, TypeOK
  <2>3. ~ch'.ack /\ (ch'.write_enable <=> ch.write_enable) /\ (~ch.write_enable => store' = store)
    BY <1>1, Idled DEF Call, Driven
  <2>4. Unspoilt'
    BY <1>1, <2>2, <2>3 DEF Unspoilt, Acknowledged, Call
  <2> QED BY <2>2, <2>3, <2>4 DEF Driven, StoreAnswered, ReadAnswered, Answers
<1>2. CASE Pending
  <2>1. TypeOK' /\ UNCHANGED <<port, phase, kept>> /\ port.stb /\ ~ch.ack /\ phase = "pending"
    BY <1>2, EdgeType DEF Pending, TypeOK, Driven
  <2>2. Edge(FALSE, port)
    BY <1>2 DEF Pending
  <2>3. ~ch.write_enable => store = kept
    BY <2>1 DEF Unspoilt, Acknowledged
  <2>4. CASE port.func = FuncStore
    <3>1. ch' = StepStore
      BY <2>1, <2>2, <2>4, Served
    <3>2. ch'.ack => ch.write_enable /\ ~ch'.write_enable
      BY <1>0, <2>1, <3>1 DEF StepStore, Registers
    <3>3. ~ch'.write_enable => ch'.ack
      BY <1>0, <2>1, <3>1 DEF StepStore, Registers
    <3>4. StoreAnswered'
      BY <2>1, <2>2, <3>2, Served DEF StoreAnswered, Answers, address
    <3>5. ReadAnswered'
      BY <2>1, <2>4, FuncCodes DEF ReadAnswered, Answers
    <3>6. Unspoilt'
      BY <2>1, <2>4, <3>2, <3>3 DEF Unspoilt, Acknowledged
    <3> QED BY <2>1, <3>4, <3>5, <3>6 DEF Driven
  <2>5. CASE port.func # FuncStore
    <3>1. (ch'.write_enable <=> ch.write_enable) /\ (~ch.write_enable => store' = store)
      BY <2>1, <2>2, <2>5, Served
    <3>2. StoreAnswered' /\ Unspoilt'
      BY <2>1, <2>3, <2>5, <3>1 DEF StoreAnswered, Answers, Unspoilt, Acknowledged
    <3>3. ReadAnswered'
      <4> SUFFICES ASSUME port.func = FuncRead, address(port) < CallDepth, ch'.ack, ~ch'.write_enable
                   PROVE  ch'.ret = kept[address(port)]
        BY <2>1 DEF ReadAnswered, Answers, address
      <4>1. PICK data \in data_r(port) : ch' = StepRead(data)
        BY <2>1, <2>2, Served
      <4>2. data = kept[address(port)]
        BY <2>3, <3>1, <4>1 DEF data_r
      <4> QED BY <1>0, <2>1, <4>1, <4>2 DEF StepRead, Registers
    <3> QED BY <2>1, <3>2, <3>3 DEF Driven
  <2> QED BY <2>4, <2>5
<1>3. CASE Answer
  <2>1. port.stb /\ ch.ack /\ phase = "pending" /\ Edge(FALSE, port)
    BY <1>3 DEF Answer, Driven
  <2>2. port' \in [stb : BOOLEAN, func : Word(W32), r1 : Data, r2 : Data] /\ ~port'.stb
    BY <1>0, <1>3 DEF Answer
  <2>3. phase' \in {"halt", "return"}
    BY <1>3 DEF Answer
  <2>4. kept' \in [0 .. CallDepth - 1 -> Data]
    BY <1>0, <1>3 DEF Answer
  <2>5. TypeOK'
    BY <2>1, <2>2, <2>3, EdgeType DEF TypeOK
  <2>6. Unspoilt'
    <3>1. CASE port.func = FuncStore
      <4>1. ~ch.write_enable /\ ch' = StepStore
        BY <2>1, <3>1, Served DEF Unspoilt, Acknowledged
      <4>2. ch'.write_enable
        BY <1>0, <4>1 DEF StepStore, Registers
      <4> QED BY <2>3, <4>2 DEF Unspoilt, Acknowledged
    <3>2. CASE port.func # FuncStore
      <4>1. (ch'.write_enable <=> ch.write_enable) /\ (~ch.write_enable => store' = store)
        BY <2>1, <3>2, Served
      <4>2. kept' = kept
        BY <1>3, <3>2 DEF Answer
      <4> QED BY <2>3, <3>2, <4>1, <4>2 DEF Unspoilt, Acknowledged
    <3> QED BY <3>1, <3>2
  <2> QED BY <2>2, <2>3, <2>4, <2>5, <2>6 DEF Driven, StoreAnswered, ReadAnswered, Answers
<1>4. CASE Resume \/ Elsewhere
  <2>1. /\ UNCHANGED <<port, kept>> /\ Edge(FALSE, port) /\ ~port.stb
        /\ phase' \in {"run", "halt"} /\ phase # "pending"
    BY <1>4 DEF Resume, Elsewhere, Driven
  <2>2. TypeOK'
    BY <2>1, EdgeType DEF TypeOK
  <2>3. ~ch'.ack /\ (ch'.write_enable <=> ch.write_enable) /\ (~ch.write_enable => store' = store)
    BY <2>1, Idled
  <2>4. Unspoilt'
    BY <2>1, <2>3 DEF Unspoilt, Acknowledged
  <2> QED BY <2>1, <2>2, <2>4 DEF Driven, StoreAnswered, ReadAnswered, Answers
<1>5. CASE Reset
  <2>1. ch' = ResetRegs /\ store' = store /\ kept' = store' /\ phase' = "run"
    BY <1>5 DEF Reset, Edge, MemEdge
  <2>2. ~ch'.write_enable /\ ~ch'.ack
    BY <2>1 DEF ResetRegs
  <2>3. port' \in [stb : BOOLEAN, func : Word(W32), r1 : Data, r2 : Data] /\ ~port'.stb
    BY <1>5, Driving DEF Reset
  <2>4. TypeOK'
    BY <1>5, <2>1, <2>3, EdgeType DEF Reset, TypeOK
  <2> QED BY <2>1, <2>2, <2>3, <2>4
          DEF TypeOK, Driven, StoreAnswered, ReadAnswered, Answers, Unspoilt, Acknowledged
<1>6. CASE UNCHANGED vars
  BY <1>6 DEF vars, TypeOK, Driven, StoreAnswered, ReadAnswered, Answers, Unspoilt, Acknowledged, address
<1> QED BY <1>1, <1>2, <1>3, <1>4, <1>5, <1>6 DEF Next

\* The handler's registers and its store always hold words of their widths
\* (call_handler.v 47-105).
THEOREM CallTyped == Spec => []TypeOK
<1>1. CallInv => TypeOK
  BY DEF CallInv
<1> QED BY <1>1, CallInit, CallStep, PTL DEF Spec

\* A store call is answered only once its word is in the store, whatever the extra
\* executions of earlier calls left in pause and write_enable (call_handler.v 69-82).
THEOREM StoreCallsLand == Spec => []StoreAnswered
<1>1. CallInv => StoreAnswered
  BY DEF CallInv
<1> QED BY <1>1, CallInit, CallStep, PTL DEF Spec

\* A read call returns the word the store had, as long as write_enable is low
\* (call_handler.v 85-93).
THEOREM ReadCallsReturn == Spec => []ReadAnswered
<1>1. CallInv => ReadAnswered
  BY DEF CallInv
<1> QED BY <1>1, CallInit, CallStep, PTL DEF Spec
=============================================================================
