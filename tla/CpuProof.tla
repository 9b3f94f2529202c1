------------------------------ MODULE CpuProof -------------------------------
(***************************************************************************)
(* What the processor never does, for every width, program, data memory    *)
(* and input: execute a word that is not its program's, take an answer     *)
(* that another instruction asked for or that is left from an earlier      *)
(* request, or change anything once it has halted.                         *)
(*                                                                         *)
(* And the inductive invariant of a program that is run by the host, from  *)
(* which HostProof shows that the processor implements the interpreter:    *)
(* what was asked of the components belongs to the word being executed.    *)
(* The components' own proofs are instantiated with the processor's ports. *)
(***************************************************************************)
EXTENDS Host, WordsProof, TLAPS

\* What Advance leaves for the next edge: the memory's output register will be, or
\* is, the word at ip.  A fault in between spoils it, but the processor then halts.
Fetching ==
  state_next = "OP_FETCH_DELAY" /\ ~halt =>
    /\ state_next_temp = "DECODE"
    /\ pgm_dat_r = pgm[Prog!PgmIndex(ip)]
    /\ ip_next = (ip + 1) % 2^IpBits

FetchInv == Fetching /\ PrefetchCoherent

-----------------------------------------------------------------------------
(* What an edge may do to the fetch registers and the state.               *)

Stays ==
  /\ UNCHANGED <<ip, ip_next, instruction>>
  /\ state_next \in Executing
  /\ state_next' \in Executing
Leaves == state_next' \in {"OP_FETCH", "HALT"}
Faults == UNCHANGED <<ip, ip_next, instruction, state_next>> /\ halt'
Loads ==
  /\ state_next = "OP_FETCH_DELAY" /\ ~halt
  /\ instruction' = pgm_dat_r /\ UNCHANGED <<ip, ip_next>>
  /\ state_next' = state_next_temp

Shape == Advance \/ Stays \/ Leaves \/ Faults \/ Loads

\* With reset released the program memory is only read, at ip_next.
LEMMA ProgramRead ==
  ASSUME NEW in \in Inputs, in.reset_n_int, Parts(in)
  PROVE  pgm' = pgm /\ pgm_dat_r' = pgm[Prog!PgmIndex(ip_next)]
<1>1. ~in.prog_reset /\ ~in.prog_write_enable
  BY ProgramAssumption
<1> QED  BY <1>1 DEF Parts, Prog!Edge

\* Every branch of cpu.v has one of the five shapes.
LEMMA ExecuteShape ==
  ASSUME NEW in, Execute(in)
  PROVE  Shape /\ in.reset_n_int /\ Parts(in)
<1> USE DEF Shape, InState, Decode, DecodeAlu, Goto, Executing, fetch, states, faults
<1>1. CASE Halted(in)
  BY <1>1 DEF Halted, Leaves
<1>2. CASE Fault(in)
  BY <1>2 DEF Fault, Faults, Raise
<1>3. CASE OpFetch(in)
  BY <1>3 DEF OpFetch
<1>4. CASE OpFetchDelay(in)
  BY <1>4 DEF OpFetchDelay, Loads
<1>5. CASE LddwLow(in)
  BY <1>5 DEF LddwLow
<1>6. CASE LddwHigh(in)
  BY <1>6 DEF LddwHigh
<1>7. CASE Reserved(in)
  BY <1>7 DEF Reserved, Raise, Faults
<1>8. CASE LoadStart(in)
  BY <1>8 DEF LoadStart, Stays
<1>9. CASE LoadDone(in)
  BY <1>9 DEF LoadDone
<1>10. CASE StoreStart(in)
  BY <1>10 DEF StoreStart, Stays
<1>11. CASE StoreDone(in)
  BY <1>11 DEF StoreDone
<1>12. CASE DivStart(in)
  BY <1>12 DEF DivStart, Stays
<1>13. CASE DivDone(in)
  BY <1>13 DEF DivDone
<1>14. CASE ShiftWait(in)
  BY <1>14 DEF ShiftWait, Stays
<1>15. CASE ShiftDone(in)
  BY <1>15 DEF ShiftDone
<1>16. CASE Plain(in)
  BY <1>16 DEF Plain
<1>17. CASE Endian(in)
  BY <1>17 DEF Endian
<1>18. CASE BadAlu(in)
  BY <1>18 DEF BadAlu
<1>19. CASE Call(in)
  BY <1>19 DEF Call, Stays
<1>20. CASE Jump(in)
  BY <1>20 DEF Jump, Leaves
<1>21. CASE DataFetch(in)
  BY <1>21 DEF DataFetch, Stays
<1>22. CASE DataAck(in)
  BY <1>22 DEF DataAck, Stays
<1>23. CASE DivPending(in)
  BY <1>23 DEF DivPending, Stays
<1>24. CASE DivAck(in)
  BY <1>24 DEF DivAck, Stays
<1>25. CASE DivError(in)
  BY <1>25 DEF DivError, Stays
<1>26. CASE CallPending(in)
  BY <1>26 DEF CallPending, Stays
<1>27. CASE CallReturn(in)
  BY <1>27 DEF CallReturn
<1>28. CASE CallError(in)
  BY <1>28 DEF CallError, Stays
<1> QED
  BY <1>1, <1>2, <1>3, <1>4, <1>5, <1>6, <1>7, <1>8, <1>9, <1>10, <1>11, <1>12, <1>13,
     <1>14, <1>15, <1>16, <1>17, <1>18, <1>19, <1>20, <1>21, <1>22, <1>23, <1>24, <1>25,
     <1>26, <1>27, <1>28 DEF Execute

LEMMA FetchInit == Init => FetchInv
BY DEF Init, FetchInv, Fetching, PrefetchCoherent, Executing

LEMMA FetchStep == FetchInv /\ [Next]_vars => FetchInv'
<1> SUFFICES ASSUME FetchInv, [Next]_vars PROVE FetchInv'
  OBVIOUS
<1> USE DEF FetchInv, Fetching, PrefetchCoherent, Executing, Prog!PgmIndex
<1>1. CASE UNCHANGED vars
  BY <1>1 DEF vars, faults, fetch, states, parts
<1>2. ASSUME NEW in \in Inputs, Reset(in)
      PROVE  FetchInv'
  BY <1>2 DEF Reset
<1>3. ASSUME NEW in \in Inputs, Execute(in)
      PROVE  FetchInv'
  <2>1. Shape /\ in.reset_n_int /\ Parts(in)
    BY <1>3, ExecuteShape
  <2>2. pgm' = pgm /\ pgm_dat_r' = pgm[Prog!PgmIndex(ip_next)]
    BY <2>1, ProgramRead
  <2>3. CASE Advance
    BY <2>2, <2>3 DEF Advance, NextIp
  <2>4. CASE Stays
    BY <2>2, <2>4 DEF Stays
  <2>5. CASE Leaves
    BY <2>5 DEF Leaves
  <2>6. CASE Faults
    BY <2>2, <2>6 DEF Faults
  <2>7. CASE Loads
    BY <2>2, <2>7 DEF Loads
  <2> QED  BY <2>1, <2>3, <2>4, <2>5, <2>6, <2>7 DEF Shape
<1> QED  BY <1>1, <1>2, <1>3 DEF Next

\* The words cpu.v executes are those of its program (cpu.v 1091-1106 and every
\* branch of the FSM), as long as the program memory is not written meanwhile.
THEOREM FetchCorrect == Spec => []PrefetchCoherent
<1>1. FetchInv => PrefetchCoherent
  BY DEF FetchInv
<1> QED  BY <1>1, FetchInit, FetchStep, PTL DEF Spec
-----------------------------------------------------------------------------
(* The answers.  An access or a division is decoded twice, and waits in    *)
(* between in a state of its own; a shift waits in STATE_DECODE.  What has *)
(* to be carried along is that the word the first decode accepted is still *)
(* the one in the instruction register, and still accepted.                *)

MemClass == opclass(opcode) \in {OPC_LDX, OPC_ST, OPC_STX}
Accepted == ~halt /\ ~BadFields

ControlOK == keep_op \in {0, EBPF_OP_LDDW} /\ state_next_temp \in {"OP_FETCH", "DECODE"}
DataOK ==
  /\ state_next = "DATA_FETCH" => MemClass /\ ~BadFields
  /\ cpu_data_ack => state_next = "DECODE" /\ MemClass /\ Accepted
DivOK ==
  /\ state_next = "DIV_PENDING" => IsDiv(opcode) /\ ~BadFields
  /\ cpu_div64_ack => state_next = "DECODE" /\ IsDiv(opcode) /\ Accepted
ShiftOK ==
  /\ sh.ack \/ sh.state => arsh64.stb
  /\ arsh64.stb => state_next = "DECODE" /\ IsShift(opcode) /\ Accepted

AckInv == ControlOK /\ DataOK /\ DivOK /\ ShiftOK

\* What matters of the decoded word is as it was.
WordKept ==
  /\ keep_op' \in {0, EBPF_OP_LDDW}
  /\ BadFields' = BadFields
  /\ opclass(opcode)' = opclass(opcode)
  /\ IsDiv(opcode)' = IsDiv(opcode)
  /\ IsShift(opcode)' = IsShift(opcode)

\* Only a LDDW is ever kept, so a word of another class is the instruction
\* register's own: while it stays there it has its class and stays accepted.
LEMMA SameWord ==
  ASSUME ControlOK, opclass(opcode) # OPC_LD, keep_op' \in {0, keep_op},
         instruction' = instruction
  PROVE  WordKept
<1>1. keep_op = 0
  BY DEF ControlOK, opcode, opclass, OPC_LD, EBPF_OP_LDDW
<1>2. keep_op' = 0
  BY <1>1
<1>3. opcode' = opcode /\ dst' = dst /\ src' = src
  BY <1>1, <1>2 DEF opcode, dst, src
<1>4. BadFields' = BadFields
  BY <1>1, <1>2, <1>3 DEF BadFields
<1> QED  BY <1>2, <1>3, <1>4 DEF WordKept

\* The shifter is at work after an edge only if it was asked and had not answered.
LEMMA ShifterEdge ==
  ASSUME NEW in, Parts(in), sh.ack \/ sh.state => arsh64.stb
  PROVE  (sh.ack \/ sh.state)' => arsh64.stb /\ ~sh.ack
BY DEF Parts, Shift!Edge, Shift!Finish, Shift!Present, Shift!Start, Shift!ResetRegs

\* The classes do not overlap.
LEMMA Classes ==
  /\ \A op : IsDiv(op) => opclass(op) \in {OPC_ALU, OPC_ALU64} /\ ~IsShift(op)
  /\ \A op : IsShift(op) => opclass(op) \in {OPC_ALU, OPC_ALU64}
  /\ \A op : IsShift(op) \/ IsDiv(op) => ~IsPlain(op) /\ ~IsNeg(op) /\ ~IsEndian(op)
  /\ {OPC_ALU, OPC_ALU64} \cap {OPC_LD, OPC_RES, OPC_LDX, OPC_ST, OPC_STX, OPC_JMP} = {}
  /\ {OPC_LDX, OPC_ST, OPC_STX} \cap {OPC_LD, OPC_RES, OPC_ALU, OPC_ALU64, OPC_JMP} = {}
BY DEF IsDiv, IsShift, IsPlain, IsNeg, IsEndian, DivOps, ShiftOps, PlainOps,
       OPC_LD, OPC_RES, OPC_LDX, OPC_ST, OPC_STX, OPC_JMP, OPC_ALU, OPC_ALU64,
       ALU_ADD, ALU_SUB, ALU_MUL, ALU_DIV, ALU_OR, ALU_AND, ALU_LSH, ALU_RSH, ALU_NEG,
       ALU_MOD, ALU_XOR, ALU_MOV, ALU_ARSH, ALU_ENDC

LEMMA AckInit == Init => AckInv
BY DEF Init, AckInv, ControlOK, DataOK, DivOK, ShiftOK, NoShift, Shift!ResetRegs

LEMMA AckStep == AckInv /\ [Next]_vars => AckInv'
<1> SUFFICES ASSUME AckInv, [Next]_vars PROVE AckInv'
  OBVIOUS
<1> USE DEF AckInv, ControlOK, DataOK, DivOK, ShiftOK, MemClass, Accepted
<1>1. CASE UNCHANGED vars
  BY <1>1 DEF vars, faults, fetch, states, keeps, acks, ports, parts, opcode, BadFields,
              src, dst
<1>2. ASSUME NEW in \in Inputs, Reset(in)
      PROVE  AckInv'
  BY <1>2 DEF Reset, NoShift, Parts, Shift!Edge, Shift!ResetRegs
<1>3. ASSUME NEW in \in Inputs, Execute(in)
      PROVE  AckInv'
  <2>1. (sh.ack \/ sh.state)' => arsh64.stb /\ ~sh.ack
    BY <1>3, ExecuteShape, ShifterEdge
  <2> USE <2>1, Classes DEF InState, Decode, DecodeAlu, Goto, Advance, Raise,
        faults, fetch, states, keeps, acks, ports
  <2>2. CASE Halted(in)
    BY <2>2 DEF Halted
  <2>3. CASE Fault(in)
    BY <2>3 DEF Fault
  <2>4. CASE OpFetch(in)
    BY <2>4 DEF OpFetch
  <2>5. CASE OpFetchDelay(in)
    BY <2>5 DEF OpFetchDelay
  <2>6. CASE LddwLow(in)
    BY <2>6 DEF LddwLow
  <2>7. CASE LddwHigh(in)
    BY <2>7 DEF LddwHigh
  <2>8. CASE Reserved(in)
    BY <2>8 DEF Reserved
  <2>9. CASE LoadStart(in)
    <3>1. WordKept
      BY <2>9, SameWord DEF LoadStart
    <3> QED  BY <2>9, <3>1 DEF WordKept, LoadStart
  <2>10. CASE LoadDone(in)
    BY <2>10 DEF LoadDone
  <2>11. CASE StoreStart(in)
    <3>1. WordKept
      BY <2>11, SameWord DEF StoreStart
    <3> QED  BY <2>11, <3>1 DEF WordKept, StoreStart
  <2>12. CASE StoreDone(in)
    BY <2>12 DEF StoreDone
  <2>13. CASE DivStart(in)
    <3>1. WordKept
      BY <2>13, SameWord DEF DivStart
    <3> QED  BY <2>13, <3>1 DEF WordKept, DivStart
  <2>14. CASE DivDone(in)
    BY <2>14 DEF DivDone
  <2>15. CASE ShiftWait(in)
    <3>1. WordKept
      BY <2>15, SameWord DEF ShiftWait
    <3> QED  BY <2>15, <3>1 DEF WordKept, ShiftWait, ShiftRequest32, ShiftRequest64
  <2>16. CASE ShiftDone(in)
    BY <2>16 DEF ShiftDone
  <2>17. CASE Plain(in)
    BY <2>17 DEF Plain
  <2>18. CASE Endian(in)
    BY <2>18 DEF Endian
  <2>19. CASE BadAlu(in)
    BY <2>19 DEF BadAlu
  <2>20. CASE Call(in)
    BY <2>20 DEF Call
  <2>21. CASE Jump(in)
    BY <2>21 DEF Jump
  <2>22. CASE DataFetch(in)
    <3>1. WordKept
      BY <2>22, SameWord DEF DataFetch
    <3> QED  BY <2>22, <3>1 DEF WordKept, DataFetch
  <2>23. CASE DataAck(in)
    <3>1. WordKept
      BY <2>23, SameWord DEF DataAck
    <3> QED  BY <2>23, <3>1 DEF WordKept, DataAck
  <2>24. CASE DivPending(in)
    <3>1. WordKept
      BY <2>24, SameWord DEF DivPending
    <3> QED  BY <2>24, <3>1 DEF WordKept, DivPending
  <2>25. CASE DivAck(in)
    <3>1. WordKept
      BY <2>25, SameWord DEF DivAck
    <3> QED  BY <2>25, <3>1 DEF WordKept, DivAck
  <2>26. CASE DivError(in)
    <3>1. WordKept
      BY <2>26, SameWord DEF DivError
    <3> QED  BY <2>26, <3>1 DEF WordKept, DivError
  <2>27. CASE CallPending(in)
    BY <2>27 DEF CallPending
  <2>28. CASE CallReturn(in)
    BY <2>28 DEF CallReturn
  <2>29. CASE CallError(in)
    BY <2>29 DEF CallError
  <2> QED
    BY <1>3, <2>2, <2>3, <2>4, <2>5, <2>6, <2>7, <2>8, <2>9, <2>10, <2>11, <2>12, <2>13,
       <2>14, <2>15, <2>16, <2>17, <2>18, <2>19, <2>20, <2>21, <2>22, <2>23,
       <2>24, <2>25, <2>26, <2>27, <2>28, <2>29 DEF Execute
<1> QED  BY <1>1, <1>2, <1>3 DEF Next

\* An answer is only ever seen by the instruction that asked for it (cpu.v 362,
\* 1380-1399 and alike, 2255-2290), resets in mid-operation included.
THEOREM AnswersBelong == Spec => []AcksBelong
<1>1. AckInv => AcksBelong
  BY DEF AckInv, DataOK, DivOK, ShiftOK, MemClass, AcksBelong
<1> QED  BY <1>1, AckInit, AckStep, PTL DEF Spec

-----------------------------------------------------------------------------
(* The requests to the data memory and to the call handler.  Both keep     *)
(* their ack, and the data memory and the store their write enable, past   *)
(* the end of the request: what has to be shown is that the processor asks *)
(* for nothing else until the ack has fallen, and that a write enable left *)
(* up when it halts repeats a write that has been made.                    *)

Shaped ==
  /\ {"ack", "we1", "adr0", "dat_w1", "wait_1", "wcnt", "write_complete_flag"}
       \subseteq DOMAIN dm
  /\ {"ack", "err", "write_enable"} \subseteq DOMAIN ch
  /\ "stb" \in DOMAIN data
  /\ {"stb", "func", "r1", "r2"} \subseteq DOMAIN call_handler

DataAsked ==
  /\ data.stb => state_next = "DATA_FETCH" /\ Accepted
  /\ dm.ack => \/ data.stb
               \/ state_next = "OP_FETCH"
               \/ state_next = "DECODE" /\ cpu_data_ack

KnownFuncs == {Helper!FuncLeds, Helper!FuncStore, Helper!FuncRead}
CallAsked ==
  /\ call_handler.stb =>
       state_next = "CALL_PENDING" /\ Accepted /\ opclass(opcode) = OPC_JMP
  /\ ch.ack => call_handler.stb \/ state_next \in {"OP_FETCH_DELAY", "CALL_PENDING"}
  /\ call_handler.stb /\ ch.err => call_handler.func \notin KnownFuncs
  /\ ~HasCallHandler => ~ch.ack /\ ~ch.err

\* What the write ports hold when the processor is halted is in the memories already.
MemSettled == dm.we1 => [mem EXCEPT ![dm.adr0] = dm.dat_w1] = mem
StoreSettled ==
  HasCallHandler /\ ch.write_enable /\ Helper!address(call_handler) < CallDepth =>
    [store EXCEPT ![Helper!address(call_handler)] = call_handler.r2] = store
HaltSettled == halt => MemSettled /\ StoreSettled

RequestInv == AckInv /\ Shaped /\ DataAsked /\ CallAsked /\ HaltSettled

\* What an edge with reset released does to the two request ports.
DataWaits ==
  /\ state_next = "DATA_FETCH" /\ Accepted
  /\ "stb" \in DOMAIN data' /\ data.stb'
  /\ UNCHANGED <<halt, state_next, instruction, keep_op, call_handler>>
DataAnswered ==
  /\ state_next = "DATA_FETCH" /\ Accepted
  /\ state_next' = "DECODE" /\ cpu_data_ack'
  /\ "stb" \in DOMAIN data' /\ ~data.stb'
  /\ UNCHANGED <<halt, call_handler>>
CallStarts ==
  /\ state_next = "DECODE" /\ Accepted /\ opclass(opcode) = OPC_JMP
  /\ state_next' = "CALL_PENDING" /\ keep_op' = 0
  /\ {"stb", "func", "r1", "r2"} \subseteq DOMAIN call_handler'
  /\ UNCHANGED <<halt, instruction, data>>
CallWaits ==
  /\ state_next = "CALL_PENDING" /\ Accepted
  /\ UNCHANGED <<halt, state_next, instruction, keep_op, data, call_handler>>
CallEnds ==
  /\ state_next = "CALL_PENDING" /\ Accepted
  /\ call_handler' = [call_handler EXCEPT !.stb = FALSE]
  /\ state_next' \in {"OP_FETCH_DELAY", "CALL_PENDING"}
  /\ halt' => ch.err
  /\ UNCHANGED data
NoRequest ==
  /\ ~(state_next \in {"DATA_FETCH", "CALL_PENDING"} /\ Accepted)
  /\ "stb" \in DOMAIN data' /\ data.stb' = data.stb
  /\ UNCHANGED call_handler

PortShape ==
  DataWaits \/ DataAnswered \/ CallStarts \/ CallWaits \/ CallEnds \/ NoRequest

\* Every branch of cpu.v treats the two ports in one of these ways.
LEMMA ExecutePorts ==
  ASSUME NEW in \in Inputs, Execute(in), "stb" \in DOMAIN data
  PROVE  PortShape
<1> USE DEF PortShape, InState, Decode, DecodeAlu, Goto, Advance, Raise, Accepted,
            fetch, states, keeps, faults, ports
<1>1. CASE Halted(in)
  BY <1>1 DEF Halted, NoRequest
<1>2. CASE Fault(in)
  BY <1>2 DEF Fault, NoRequest
<1>3. CASE OpFetch(in)
  BY <1>3 DEF OpFetch, NoRequest
<1>4. CASE OpFetchDelay(in)
  BY <1>4 DEF OpFetchDelay, NoRequest
<1>5. CASE LddwLow(in)
  BY <1>5 DEF LddwLow, NoRequest
<1>6. CASE LddwHigh(in)
  BY <1>6 DEF LddwHigh, NoRequest
<1>7. CASE Reserved(in)
  BY <1>7 DEF Reserved, NoRequest
<1>8. CASE LoadStart(in)
  BY <1>8 DEF LoadStart, NoRequest
<1>9. CASE LoadDone(in)
  BY <1>9 DEF LoadDone, NoRequest
<1>10. CASE StoreStart(in)
  BY <1>10 DEF StoreStart, StorePort, NoRequest
<1>11. CASE StoreDone(in)
  BY <1>11 DEF StoreDone, NoRequest
<1>12. CASE DivStart(in)
  BY <1>12 DEF DivStart, NoRequest
<1>13. CASE DivDone(in)
  BY <1>13 DEF DivDone, NoRequest
<1>14. CASE ShiftWait(in)
  BY <1>14 DEF ShiftWait, NoRequest
<1>15. CASE ShiftDone(in)
  BY <1>15 DEF ShiftDone, NoRequest
<1>16. CASE Plain(in)
  BY <1>16 DEF Plain, NoRequest
<1>17. CASE Endian(in)
  BY <1>17 DEF Endian, NoRequest
<1>18. CASE BadAlu(in)
  BY <1>18 DEF BadAlu, NoRequest
<1>19. CASE Call(in)
  BY <1>19 DEF Call, CallStarts
<1>20. CASE Jump(in)
  BY <1>20 DEF Jump, NoRequest
<1>21. CASE DataFetch(in)
  BY <1>21 DEF DataFetch, DataWaits
<1>22. CASE DataAck(in)
  BY <1>22 DEF DataAck, DataAnswered
<1>23. CASE DivPending(in)
  BY <1>23 DEF DivPending, NoRequest
<1>24. CASE DivAck(in)
  BY <1>24 DEF DivAck, NoRequest
<1>25. CASE DivError(in)
  BY <1>25 DEF DivError, NoRequest
<1>26. CASE CallPending(in)
  BY <1>26 DEF CallPending, CallWaits
<1>27. CASE CallReturn(in)
  BY <1>27 DEF CallReturn, CallEnds
<1>28. CASE CallError(in)
  BY <1>28 DEF CallError, CallEnds
<1> QED
  BY <1>1, <1>2, <1>3, <1>4, <1>5, <1>6, <1>7, <1>8, <1>9, <1>10, <1>11, <1>12, <1>13,
     <1>14, <1>15, <1>16, <1>17, <1>18, <1>19, <1>20, <1>21, <1>22, <1>23, <1>24, <1>25,
     <1>26, <1>27, <1>28 DEF Execute

\* Writing the same thing at the same place again changes nothing.
LEMMA WrittenTwice ==
  ASSUME NEW f, NEW a, NEW v
  PROVE  LET g == [f EXCEPT ![a] = v] IN [g EXCEPT ![a] = v] = g
OBVIOUS

\* With reset released the data memory is the processor's, or is itself held in reset.
LEMMA MemoryOwner ==
  ASSUME NEW in \in Inputs, in.reset_n_int, Parts(in)
  PROVE  \/ DataM!Edge(TRUE, in.host)
         \/ DataM!Edge(FALSE, data)
<1>1. in.csr_ctl1 \in BOOLEAN
  BY InputsAssumption DEF Pins
<1>2. CASE in.csr_ctl1
  <2>1. ((~in.reset_n_int) # in.csr_ctl1) = TRUE
    BY <1>2
  <2> QED  BY <1>2, <2>1 DEF Parts
<1>3. CASE ~in.csr_ctl1
  <2>1. ((~in.reset_n_int) # in.csr_ctl1) = FALSE
    BY <1>1, <1>3
  <2> QED  BY <1>3, <2>1 DEF Parts
<1> QED  BY <1>1, <1>2, <1>3

\* The data memory answers only a request, and with none leaves its write port alone.
LEMMA MemoryEdge ==
  ASSUME NEW in \in Inputs, in.reset_n_int, Parts(in), Shaped
  PROVE  /\ DOMAIN dm' = DOMAIN dm
         /\ dm.ack' => data.stb
         /\ ~data.stb => MemSettled'
         /\ MemSettled => mem' = mem
<1> USE DEF Shaped
<1>1. CASE DataM!Edge(TRUE, in.host)
  BY <1>1 DEF DataM!Edge, DataM!Fsm, DataM!ResetRegs, DataM!MemWrite, MemSettled
<1>2. CASE DataM!Edge(FALSE, data)
  <2>1. DOMAIN dm' = DOMAIN dm
    BY <1>2 DEF DataM!Edge, DataM!Fsm, DataM!Idle, DataM!StartWrite, DataM!WriteByte,
                DataM!AfterAck, DataM!StartRead, DataM!WaitRead, DataM!ReadByte
  <2>2. CASE ~data.stb
    <3>1. /\ ~dm.ack'
          /\ dm.we1' = dm.we1 /\ dm.adr0' = dm.adr0 /\ dm.dat_w1' = dm.dat_w1
      BY <1>2, <2>2 DEF DataM!Edge, DataM!Fsm, DataM!Idle
    <3>2. mem' = IF dm.we1 THEN [mem EXCEPT ![dm.adr0] = dm.dat_w1] ELSE mem
      BY <1>2 DEF DataM!Edge, DataM!MemWrite
    <3> QED  BY <2>1, <3>1, <3>2, WrittenTwice DEF MemSettled
  <2>3. MemSettled => mem' = mem
    BY <1>2 DEF DataM!Edge, DataM!MemWrite, MemSettled
  <2> QED  BY <2>1, <2>2, <2>3
<1> QED  BY <1>1, <1>2, MemoryOwner

\* The call handler answers only a request.  Without one, or for a function it does
\* not know, it leaves the store's write port alone.
LEMMA HandlerEdge ==
  ASSUME NEW in \in Inputs, in.reset_n_int, Parts(in), Shaped, CallAsked
  PROVE  /\ DOMAIN ch' = DOMAIN ch
         /\ ch.ack' => call_handler.stb
         /\ ch.err' => call_handler.stb /\ call_handler.func \notin KnownFuncs
         /\ StoreSettled => store' = store
         /\ /\ ~call_handler.stb \/ call_handler.func \notin KnownFuncs
            /\ call_handler.r1' = call_handler.r1 /\ call_handler.r2' = call_handler.r2
            => StoreSettled'
<1> USE DEF Shaped
<1>1. CASE ~HasCallHandler
  BY <1>1 DEF Parts, CallAsked, StoreSettled
<1>2. CASE HasCallHandler
  <2>1. Helper!Edge(FALSE, call_handler)
    <3>1. (~in.reset_n_int) = FALSE
      OBVIOUS
    <3> QED  BY <1>2, <3>1 DEF Parts
  <2>2. ch' \in IF call_handler.stb THEN Helper!Serve(call_handler) ELSE {Helper!Idle}
    BY <2>1 DEF Helper!Edge
  <2>3. StoreSettled => store' = store
    BY <1>2, <2>1 DEF Helper!Edge, Helper!MemEdge, StoreSettled
  <2> DEFINE Unasked == ~call_handler.stb \/ call_handler.func \notin KnownFuncs
  <2>4. /\ DOMAIN ch' = DOMAIN ch
        /\ ch.ack' => call_handler.stb
        /\ ch.err' => call_handler.stb /\ call_handler.func \notin KnownFuncs
        /\ Unasked => ch.write_enable' = ch.write_enable
    <3>1. CASE ~call_handler.stb
      BY <2>2, <3>1 DEF Helper!Idle
    <3>2. CASE call_handler.stb /\ call_handler.func \notin KnownFuncs
      <4>1. ch' = Helper!Unknown
        BY <2>2, <3>2 DEF Helper!Serve, KnownFuncs
      <4> QED  BY <3>2, <4>1 DEF Helper!Unknown
    <3>3. CASE call_handler.stb /\ call_handler.func \in KnownFuncs
      <4>1. ~ch.err
        BY <3>3 DEF CallAsked
      <4>2. \/ ch' = Helper!SetLeds(call_handler)
            \/ ch' = Helper!StepStore
            \/ \E word : ch' = Helper!StepRead(word)
        BY <2>2, <3>3 DEF Helper!Serve, KnownFuncs
      <4> QED  BY <3>3, <4>1, <4>2 DEF Helper!SetLeds, Helper!StepStore, Helper!StepRead
    <3> QED  BY <3>1, <3>2, <3>3
  <2>5. ASSUME Unasked, call_handler.r1' = call_handler.r1,
               call_handler.r2' = call_handler.r2
        PROVE  StoreSettled'
    <3> DEFINE a == Helper!address(call_handler)
    <3>1. a' = a
      BY <2>5 DEF Helper!address
    <3>2. store' = IF ch.write_enable /\ a < CallDepth
                   THEN [store EXCEPT ![a] = call_handler.r2] ELSE store
      BY <2>1 DEF Helper!Edge, Helper!MemEdge
    <3> HIDE DEF a, Unasked
    <3>3. ch.write_enable' = ch.write_enable
      BY <2>4, <2>5
    <3>4. SUFFICES ASSUME ch.write_enable, a < CallDepth
                   PROVE  [store' EXCEPT ![a] = call_handler.r2] = store'
      BY <2>5, <3>1, <3>3 DEF StoreSettled, a
    <3> QED  BY <3>2, <3>4, WrittenTwice
  <2> QED  BY <2>3, <2>4, <2>5
<1> QED  BY <1>1, <1>2

LEMMA RequestInit == Init => RequestInv
BY AckInit DEF Init, RequestInv, Shaped, DataAsked, CallAsked, HaltSettled, NoData, NoCall,
               DataM!ClearRegs, Helper!ResetRegs

LEMMA RequestReset ==
  ASSUME RequestInv, NEW in \in Inputs, Reset(in)
  PROVE  (Shaped /\ DataAsked /\ CallAsked /\ HaltSettled)'
<1> USE DEF RequestInv
<1>1. /\ state_next' = "OP_FETCH" /\ ~halt'
      /\ data' = NoData /\ call_handler' = NoCall
  BY DEF Reset
<1>2. DOMAIN dm' = DOMAIN dm
  BY DEF Reset, Parts, DataM!Edge, DataM!Fsm, DataM!ResetRegs, DataM!Idle,
         DataM!StartWrite, DataM!WriteByte, DataM!AfterAck, DataM!StartRead,
         DataM!WaitRead, DataM!ReadByte
<1>3. {"ack", "err", "write_enable"} \subseteq DOMAIN ch' /\ ~ch.ack' /\ ~ch.err'
  <2>1. CASE HasCallHandler
    BY <2>1 DEF Reset, Parts, Helper!Edge, Helper!ResetRegs
  <2>2. CASE ~HasCallHandler
    BY <2>2 DEF Reset, Parts, CallAsked, Shaped
  <2> QED  BY <2>1, <2>2
<1> QED
  BY <1>1, <1>2, <1>3 DEF Shaped, DataAsked, CallAsked, HaltSettled, NoData, NoCall

LEMMA RequestExecute ==
  ASSUME RequestInv, NEW in \in Inputs, Execute(in)
  PROVE  (Shaped /\ DataAsked /\ CallAsked /\ HaltSettled)'
<1> USE DEF RequestInv
<1>1. in.reset_n_int /\ Parts(in)
  BY ExecuteShape
<1>2. PortShape
  BY ExecutePorts DEF Shaped
<1>3. /\ DOMAIN dm' = DOMAIN dm
      /\ dm.ack' => data.stb
      /\ ~data.stb => MemSettled'
  BY <1>1, MemoryEdge
<1>4. /\ DOMAIN ch' = DOMAIN ch
      /\ ch.ack' => call_handler.stb
      /\ ch.err' => call_handler.stb /\ call_handler.func \notin KnownFuncs
      /\ /\ ~call_handler.stb \/ call_handler.func \notin KnownFuncs
         /\ call_handler.r1' = call_handler.r1 /\ call_handler.r2' = call_handler.r2
         => StoreSettled'
  BY <1>1, HandlerEdge
<1>5. ~HasCallHandler => ~ch.ack' /\ ~ch.err'
  BY <1>1 DEF Parts, CallAsked
<1> USE DEF Shaped, DataAsked, CallAsked, HaltSettled, Accepted
<1>6. CASE DataWaits
  <2>1. WordKept
    BY <1>6, SameWord, Classes DEF DataWaits, AckInv, DataOK, MemClass
  <2> QED  BY <1>3, <1>4, <1>5, <1>6, <2>1 DEF DataWaits, WordKept
<1>7. CASE DataAnswered
  BY <1>3, <1>4, <1>5, <1>7 DEF DataAnswered
<1>8. CASE CallStarts
  <2>1. WordKept
    BY <1>8, SameWord DEF CallStarts, AckInv, OPC_JMP, OPC_LD
  <2> QED  BY <1>3, <1>4, <1>5, <1>8, <2>1 DEF CallStarts, WordKept
<1>9. CASE CallWaits
  <2>1. call_handler.stb => WordKept
    BY <1>9, SameWord DEF CallWaits, AckInv, OPC_JMP, OPC_LD
  <2> QED  BY <1>3, <1>4, <1>5, <1>9, <2>1 DEF CallWaits, WordKept
<1>10. CASE CallEnds
  <2>1. /\ ~call_handler.stb'
        /\ call_handler.r1' = call_handler.r1 /\ call_handler.r2' = call_handler.r2
    BY <1>10 DEF CallEnds
  <2> QED  BY <1>3, <1>4, <1>5, <1>10, <2>1 DEF CallEnds
<1>11. CASE NoRequest
  BY <1>3, <1>4, <1>5, <1>11 DEF NoRequest
<1> QED  BY <1>2, <1>6, <1>7, <1>8, <1>9, <1>10, <1>11 DEF PortShape

LEMMA RequestStep == RequestInv /\ [Next]_vars => RequestInv'
<1> SUFFICES ASSUME RequestInv, [Next]_vars PROVE RequestInv'
  OBVIOUS
<1>1. AckInv'
  BY AckStep DEF RequestInv
<1>2. CASE UNCHANGED vars
  BY <1>1, <1>2 DEF RequestInv, Shaped, DataAsked, CallAsked, HaltSettled, MemSettled,
     StoreSettled, Accepted, vars, faults, fetch, states, keeps, acks, ports, parts,
     opcode, BadFields, src, dst, Helper!address
<1>3. ASSUME NEW in \in Inputs, Reset(in)
      PROVE  RequestInv'
  BY <1>1, <1>3, RequestReset DEF RequestInv
<1>4. ASSUME NEW in \in Inputs, Execute(in)
      PROVE  RequestInv'
  BY <1>1, <1>4, RequestExecute DEF RequestInv
<1> QED  BY <1>2, <1>3, <1>4 DEF Next

\* The acks of the data memory and of the call handler outlast their requests by an
\* edge (ram_module_v3.v 238, call_handler.v 101), and are down again when the next access
\* or call is decoded, wherever the host resets the processor or takes the memory.
THEOREM AnswersGone == Spec => []NoStaleAck
<1>1. RequestInv => NoStaleAck
  BY DEF RequestInv, DataAsked, CallAsked, NoStaleAck
<1> QED  BY <1>1, RequestInit, RequestStep, PTL DEF Spec

\* A halted processor (cpu.v 960-1046) leaves its registers, error, the data memory
\* and the call handler's store alone until the next reset, although the write
\* enables of both memories may have been left up.
THEOREM HaltedFreezes == Spec => HaltFreezes
<1>1. RequestInv /\ [Next]_vars => [halt /\ halt' => UNCHANGED <<regs, error, mem, store>>]_vars
  <2> SUFFICES ASSUME RequestInv, Next, halt, halt'
               PROVE  UNCHANGED <<regs, error, mem, store>>
    BY DEF vars, faults, parts
  <2>1. PICK in \in Inputs : Reset(in) \/ Execute(in)
    BY DEF Next
  <2>2. Halted(in)
    <3> USE DEF InState, Decode, DecodeAlu
    <3>1. Execute(in)
      BY <2>1 DEF Reset
    <3> QED
      BY <3>1 DEF Execute, Fault, OpFetch, OpFetchDelay, LddwLow, LddwHigh, Reserved,
        LoadStart, LoadDone, StoreStart, StoreDone, DivStart, DivDone, ShiftWait,
        ShiftDone, Plain, Endian, BadAlu, Call, Jump, DataFetch, DataAck, DivPending,
        DivAck, DivError, CallPending, CallReturn, CallError
  <2>3. in.reset_n_int /\ Parts(in) /\ UNCHANGED <<regs, error>>
    BY <2>2 DEF Halted, faults
  <2>4. MemSettled /\ StoreSettled
    BY DEF RequestInv, HaltSettled
  <2>5. mem' = mem
    BY <2>3, <2>4, MemoryEdge DEF RequestInv
  <2>6. store' = store
    BY <2>3, <2>4, HandlerEdge DEF RequestInv
  <2> QED  BY <2>3, <2>5, <2>6
<1> QED  BY <1>1, RequestInit, RequestStep, PTL DEF Spec, HaltFreezes

-----------------------------------------------------------------------------
(* Types.  The components' own proofs say that their registers keep their  *)
(* widths on every edge, for the inputs the processor gives them.          *)

\* The division in progress or just answered, or none.
Nothing == CHOOSE x : x \notin Word(W64) \X Word(W64)
Dividing ==
  IF ~div64.stb /\ (state_next = "DIV_PENDING" \/ cpu_div64_ack)
  THEN <<div64.dividend, div64.divisor>> ELSE Nothing
NoInsn == CHOOSE x : x \notin Instructions

Arith == INSTANCE ArithmeticProof WITH
           data_width <- W64, NoRequest <- Nothing, asked <- Dividing, i <- insn, r <- regs,
           NoWord <- NoInsn, Words32 <- Word(W32), Words64 <- Word(W64)
ShiftP == INSTANCE ShiftPortProof WITH port <- arsh64, asked <- arsh64, Requests <- {}
DataP == INSTANCE DataPortProof WITH Accesses <- {}, phase <- state_next, want <- mem
CallP == INSTANCE CallPortProof WITH port <- call_handler, phase <- "run", kept <- store, Calls <- {}

LEMMA SameWidths ==
  /\ Arith!W64 = W64 /\ Arith!W32 = W32 /\ ShiftP!W64 = W64 /\ DataP!W64 = W64
  /\ CallP!W64 = W64 /\ CallP!W32 = W32 /\ DataM!W64 = W64 /\ Shift!W64 = W64 /\ Helper!W64 = W64
BY DEF Arith!W64, Arith!W32, ShiftP!W64, DataP!W64, CallP!W64, CallP!W32, DataM!W64, Shift!W64,
   Helper!W64, W64, W32

LEMMA SameWords ==
  \A w : /\ Arith!Word(w) = Word(w) /\ ShiftP!Word(w) = Word(w) /\ DataP!Word(w) = Word(w)
         /\ CallP!Word(w) = Word(w) /\ DataM!Word(w) = Word(w) /\ Shift!Word(w) = Word(w)
         /\ Helper!Word(w) = Word(w)
BY DEF Arith!Word, ShiftP!Word, DataP!Word, CallP!Word, DataM!Word, Shift!Word, Helper!Word, Word

\* What the divider's proof assumes of its width.
LEMMA DividerWidth ==
  /\ W64 \in Nat \ {0}
  /\ 2^0 = 1
  /\ \A n \in 0 .. W64 : /\ 2^n \in Nat \ {0} /\ n < 2^n /\ 2^(n + 1) = 2 * 2^n
                         /\ 2^n * 2^(W64 - n) = 2^W64
  /\ Nothing \notin Arith!Data \X Arith!Data
<1>1. ASSUME NEW n \in 0 .. W64
      PROVE  2^n \in Nat \ {0} /\ n < 2^n /\ 2^(n + 1) = 2 * 2^n /\ 2^n * 2^(W64 - n) = 2^W64
  <2>1. W64 - n \in Nat /\ n \in Nat /\ n + (W64 - n) = W64 /\ n + 1 \in 1 .. W64 + 1 /\ (n + 1) - 1 = n
    BY Widths
  <2>2. 2^(n + (W64 - n)) = 2^n * 2^(W64 - n)
    BY <2>1, PowerSum, Widths
  <2>3. 2^(n + 1) = 2 * 2^n
    BY <2>1, PowersAssumption
  <2> QED BY <2>1, <2>2, <2>3, Power, PowerLarger
<1>2. Nothing \notin Word(W64) \X Word(W64)
  BY NoSetContainsEverything DEF Nothing
<1>3. Arith!Data = Word(W64)
  BY DEF Arith!Data, Word
<1> QED BY <1>1, <1>2, <1>3, Widths, Power

\* And the proofs of the other components, of theirs.
LEMMA Widthwise ==
  /\ ByteBits \in Nat \ {0}
  /\ 2^0 = 1
  /\ \A n \in 0 .. Arith!W64 + 1 : 2^n \in Nat \ {0}
  /\ \A n \in 1 .. Arith!W64 + 1 : 2^n = 2 * 2^(n - 1)
  /\ \A n \in 0 .. ShiftP!W64 + 1 : 2^n \in Nat \ {0}
  /\ \A n \in 1 .. ShiftP!W64 + 1 : 2^n = 2 * 2^(n - 1)
  /\ \A n \in 0 .. DataP!W64 + 1 : 2^n \in Nat \ {0}
  /\ \A n \in 1 .. DataP!W64 + 1 : 2^n = 2 * 2^(n - 1)
  /\ \A n \in 0 .. CallP!W64 + 1 : 2^n \in Nat \ {0}
  /\ \A n \in 1 .. CallP!W64 + 1 : 2^n = 2 * 2^(n - 1)
BY PowersAssumption, ByteBitsAssumption, SameWidths

LEMMA ArithWords ==
  Word(W32) \subseteq Arith!Word(Arith!W32) /\ Word(W64) \subseteq Arith!Word(Arith!W64)
BY SameWidths, SameWords

LEMMA DataWidth == AddrBits \in 3 .. DataP!W64
BY WidthsAssumption, SameWidths

LEMMA CallWidth ==
  /\ CallAddrBits \in 1 .. CallP!W64 /\ CallDepth \in 1 .. 2^CallAddrBits
  /\ Unknowns \subseteq CallP!Word(CallP!W64) /\ Unknowns # {}
BY CallAssumption, SameWidths, SameWords

LEMMA DataEdge ==
  ASSUME dm \in DataM!Registers, mem \in [Word(AddrBits) -> Word(ByteBits)],
         NEW p \in DataM!Ports, NEW rst \in BOOLEAN, DataM!Edge(rst, p)
  PROVE  dm' \in DataM!Registers /\ mem' \in [Word(AddrBits) -> Word(ByteBits)]
<1>1. DataP!Addr = Word(AddrBits) /\ DataP!Registers = DataM!Registers /\ DataP!Ports = DataM!Ports
  BY SameWords, SameWidths DEF DataP!Addr, DataM!Addr, DataP!Registers, DataM!Registers, DataP!Ports, DataM!Ports
<1>2. DataP!Edge(rst, p)
  BY DEF DataM!Edge, DataP!Edge, DataM!Fsm, DataP!Fsm, DataM!MemWrite, DataP!MemWrite, DataM!MemRead,
     DataP!MemRead, DataM!ResetRegs, DataP!ResetRegs, DataM!Idle, DataP!Idle,
     DataM!StartWrite, DataP!StartWrite, DataM!WriteByte, DataP!WriteByte, DataM!AfterAck, DataP!AfterAck,
     DataM!StartRead, DataP!StartRead, DataM!WaitRead, DataP!WaitRead, DataM!ReadByte, DataP!ReadByte,
     DataM!Next1, DataP!Next1, DataM!PutByte, DataP!PutByte, DataM!Byte, DataP!Byte
<1>3. DataP!Word(ByteBits) = Word(ByteBits)
  BY SameWords
<1> QED BY <1>1, <1>2, <1>3, Widthwise, DataWidth, DataP!EdgeTyped DEF DataP!EdgeTyped

LEMMA DividerEdge ==
  ASSUME div \in Div!Registers, NEW reset_n, NEW stb, NEW a \in Word(W64), NEW b \in Word(W64),
         Div!Edge(reset_n, stb, a, b)
  PROVE  div' \in Div!Registers
<1>1. Arith!Data = Word(W64) /\ Arith!Registers = Div!Registers
  BY DEF Arith!Data, Word, Arith!Registers, Div!Registers, Div!Data
<1>2. Arith!Edge(reset_n, stb, a, b)
  BY DEF Arith!Edge, Div!Edge, Arith!ResetRegs, Div!ResetRegs, Arith!RejectZero, Div!RejectZero,
     Arith!Load, Div!Load, Arith!Iterate, Div!Iterate, Arith!Borrow, Div!Borrow, Arith!Partial,
     Div!Partial, Arith!ShiftIn, Div!ShiftIn, Arith!TopBit, Div!TopBit, Arith!ack, Div!ack
<1> QED BY <1>1, <1>2, DividerWidth, Widthwise, ArithWords, Arith!DividerTyped DEF Arith!DividerTyped

LEMMA ShiftEdge ==
  ASSUME sh \in Shift!Registers, NEW p, p.value \in Word(W64), p.shift \in Word(W64), NEW rst,
         Shift!Edge(rst, p)
  PROVE  sh' \in Shift!Registers
<1>1. ShiftP!Data = Word(W64) /\ ShiftP!Registers = Shift!Registers
  BY SameWords, SameWidths DEF ShiftP!Data, ShiftP!Registers, Shift!Registers, Shift!Data
<1>2. ShiftP!Edge(rst, p)
  <2>1. ShiftP!Or(sh.tmp1, sh.tmp2) = Shift!Or(sh.tmp1, sh.tmp2)
    BY Zenon DEF ShiftP!Or, Shift!Or, ShiftP!BitByBit, Shift!BitByBit, ShiftP!W64, Shift!W64
  <2>2. ShiftP!Present(p) = Shift!Present(p)
    BY <2>1 DEF ShiftP!Present, Shift!Present, ShiftP!Negative, Shift!Negative, ShiftP!W64, Shift!W64
  <2> QED BY <2>2 DEF ShiftP!Edge, Shift!Edge, ShiftP!ResetRegs, Shift!ResetRegs, ShiftP!Finish, Shift!Finish,
         ShiftP!Start, Shift!Start, ShiftP!Vacated, Shift!Vacated, ShiftP!ShiftLeft, Shift!ShiftLeft,
         ShiftP!ShiftRight, Shift!ShiftRight, ShiftP!Low, Shift!Low, ShiftP!W64, Shift!W64
<1> QED BY <1>1, <1>2, Widthwise, ShiftP!EdgeTyped DEF ShiftP!EdgeTyped

LEMMA CallEdge ==
  ASSUME ch \in Helper!Registers, store \in [0 .. CallDepth - 1 -> Word(W64)],
         call_handler \in [stb : BOOLEAN, func : Word(W32), r1 : Word(W64), r2 : Word(W64)],
         NEW rst \in BOOLEAN, Helper!Edge(rst, call_handler)
  PROVE  ch' \in Helper!Registers /\ store' \in [0 .. CallDepth - 1 -> Word(W64)]
<1>1. CallP!Data = Word(W64) /\ CallP!Registers = Helper!Registers
  BY SameWords, SameWidths DEF CallP!Data, CallP!Registers, Helper!Registers, Helper!Data
<1>2. CallP!TypeOK
  BY <1>1, SameWords, SameWidths DEF CallP!TypeOK
<1>3. CallP!Edge(rst, call_handler)
  BY DEF CallP!Edge, Helper!Edge, CallP!ResetRegs, Helper!ResetRegs, CallP!Serve, Helper!Serve,
     CallP!Idle, Helper!Idle, CallP!MemEdge, Helper!MemEdge, CallP!address, Helper!address,
     CallP!SetLeds, Helper!SetLeds, CallP!StepStore, Helper!StepStore, CallP!StepRead, Helper!StepRead,
     CallP!Unknown, Helper!Unknown, CallP!data_r, Helper!data_r, CallP!FuncLeds, Helper!FuncLeds,
     CallP!FuncStore, Helper!FuncStore, CallP!FuncRead, Helper!FuncRead, CallP!FuncBase, Helper!FuncBase
<1> QED BY <1>1, <1>2, <1>3, Widthwise, CallWidth, CallP!EdgeType DEF CallP!EdgeType

LEMMA ProgramEdge ==
  ASSUME pgm \in [Word(PgmBits) -> Instructions], pgm_dat_r \in Instructions, ip_next \in Word(IpBits),
         NEW in \in Pins, Parts(in)
  PROVE  pgm' \in [Word(PgmBits) -> Instructions] /\ pgm_dat_r' \in Instructions
<1>1. PgmBits \in 0 .. W64 /\ IpBits \in 0 .. W64
  BY WidthsAssumption, Widths
<1>2. \A a \in Word(IpBits) : Prog!PgmIndex(a) \in Word(PgmBits)
  <2>1. \A a \in Word(IpBits) : a \in Int
    BY <1>1, WordInt
  <2>2. 2^PgmBits \in Nat /\ 2^PgmBits > 0
    BY <1>1, Power
  <2> QED BY <2>1, <2>2, Around DEF Prog!PgmIndex, Word
<1>3. in.prog_addr \in Word(IpBits) /\ in.prog_data \in Instructions
  BY DEF Pins
<1>4. pgm[Prog!PgmIndex(ip_next)] \in Instructions /\ Prog!PgmIndex(in.prog_addr) \in Word(PgmBits)
  BY <1>2, <1>3
<1>5. pgm' \in [Word(PgmBits) -> Instructions]
  BY <1>3, <1>4 DEF Parts, Prog!Edge
<1> QED BY <1>4, <1>5 DEF Parts, Prog!Edge

\* The state of the components.
PartsTyped ==
  /\ pgm \in [Word(PgmBits) -> Instructions] /\ pgm_dat_r \in Instructions
  /\ dm \in DataM!Registers /\ mem \in [Word(AddrBits) -> Word(ByteBits)]
  /\ sh \in Shift!Registers /\ div \in Div!Registers
  /\ ch \in Helper!Registers /\ store \in [0 .. CallDepth - 1 -> Word(W64)]

LEMMA PartsEdge ==
  ASSUME TypeOK, NEW in \in Inputs, Parts(in)
  PROVE  PartsTyped'
<1>1. in \in Pins
  BY InputsAssumption
<1>2. in.reset_n_int \in BOOLEAN /\ in.csr_ctl1 \in BOOLEAN /\ in.host \in DataM!Ports
  BY <1>1 DEF Pins
<1>3. pgm' \in [Word(PgmBits) -> Instructions] /\ pgm_dat_r' \in Instructions
  BY <1>1, ProgramEdge DEF TypeOK
<1>4. dm' \in DataM!Registers /\ mem' \in [Word(AddrBits) -> Word(ByteBits)]
  <2> DEFINE p == IF in.csr_ctl1 THEN in.host ELSE data
             rst == (~in.reset_n_int) # in.csr_ctl1
  <2>1. p \in DataM!Ports /\ rst \in BOOLEAN /\ DataM!Edge(rst, p)
    BY <1>2 DEF TypeOK, Parts
  <2> HIDE DEF p, rst
  <2> QED BY <2>1, DataEdge DEF TypeOK
<1>5. sh' \in Shift!Registers
  <2>1. sh \in Shift!Registers /\ arsh64.value \in Word(W64) /\ arsh64.shift \in Word(W64)
    BY DEF TypeOK
  <2>2. Shift!Edge(~in.reset_n_int, arsh64)
    BY DEF Parts
  <2> QED BY <2>1, <2>2, ShiftEdge
<1>6. div' \in Div!Registers
  <2>1. div \in Div!Registers /\ div64.dividend \in Word(W64) /\ div64.divisor \in Word(W64)
    BY DEF TypeOK
  <2>2. Div!Edge(in.reset_n_int, div64.stb, div64.dividend, div64.divisor)
    BY DEF Parts
  <2> QED BY <2>1, <2>2, DividerEdge
<1>7. ch' \in Helper!Registers /\ store' \in [0 .. CallDepth - 1 -> Word(W64)]
  <2>1. CASE HasCallHandler
    <3>1. (~in.reset_n_int) \in BOOLEAN /\ Helper!Edge(~in.reset_n_int, call_handler)
      BY <1>2, <2>1 DEF Parts
    <3> QED BY <3>1, CallEdge DEF TypeOK
  <2>2. CASE ~HasCallHandler
    BY <2>2 DEF Parts, TypeOK
  <2> QED BY <2>1, <2>2
<1> QED BY <1>3, <1>4, <1>5, <1>6, <1>7 DEF PartsTyped

-----------------------------------------------------------------------------
(* What the branches of the FSM write: words of the right width, to one of *)
(* the eleven registers.                                                   *)

RegsTyped == regs \in [Registers -> Word(W64)]
ControlTyped ==
  /\ halt \in BOOLEAN /\ error \in BOOLEAN
  /\ ip \in Word(IpBits) /\ ip_next \in Word(IpBits) /\ instruction \in Instructions
  /\ state_next \in States /\ state_next_temp \in {"OP_FETCH", "DECODE"}
  /\ keep_op \in {0, EBPF_OP_LDDW} /\ keep_dst \in Registers
  /\ cpu_data_ack \in BOOLEAN /\ cpu_div64_ack \in BOOLEAN

ShiftPorts == [stb : BOOLEAN, arith : BOOLEAN, left : BOOLEAN, value : Word(W64), shift : Word(W64)]
DivPorts == [stb : BOOLEAN, dividend : Word(W64), divisor : Word(W64)]
CallPorts == [stb : BOOLEAN, func : Word(W32), r1 : Word(W64), r2 : Word(W64)]
PortsTyped ==
  data \in DataM!Ports /\ arsh64 \in ShiftPorts /\ div64 \in DivPorts /\ call_handler \in CallPorts

LEMMA TypeParts == TypeOK <=> ControlTyped /\ RegsTyped /\ PortsTyped /\ PartsTyped
BY DEF TypeOK, ControlTyped, RegsTyped, PortsTyped, PartsTyped, ShiftPorts, DivPorts, CallPorts

LEMMA AnyWidths ==
  /\ IpBits \in 1 .. W64 /\ AddrBits \in 0 .. W64 /\ OffsetBits \in 1 .. W64 /\ PgmBits \in 0 .. W64
  /\ IpBits \in 0 .. W64 /\ OffsetBits \in 0 .. W64 /\ W32 \in 0 .. W64 /\ W64 \in 0 .. W64
  /\ PgmBits <= IpBits
  /\ Word(W32) \subseteq Word(W64)
<1>1. W32 \in 0 .. W64 /\ W64 \in 0 .. W64 /\ W32 <= W64 /\ 0 \in Int
  BY Widths
<1>2. Word(W32) \subseteq Word(W64)
  BY <1>1, LowLow
<1> QED BY <1>1, <1>2, WidthsAssumption, Widths

\* The fields of the instruction being executed.
LEMMA Fields ==
  ASSUME TypeOK
  PROVE  /\ opcode \in 0 .. 255 /\ src \in 0 .. 15 /\ dst \in 0 .. 15
         /\ immediate \in Word(W32) /\ immediate \in Word(W64) /\ immediate \in Int
         /\ instruction.off \in Word(OffsetBits) /\ instruction.off \in Int
         /\ insn.op = opcode /\ insn.src = src /\ insn.dst = dst /\ insn.imm = immediate
         /\ ~BadFields => src \in Registers /\ dst \in Registers /\ regs[src] \in Word(W64)
                          /\ regs[dst] \in Word(W64)
<1>1. instruction \in Instructions /\ keep_op \in {0, 24} /\ keep_dst \in 0 .. 10
      /\ regs \in [0 .. 10 -> Word(W64)]
  BY DEF TypeOK, EBPF_OP_LDDW, Registers, MAX_REGS
<1>2. opcode \in 0 .. 255 /\ src \in 0 .. 15 /\ dst \in 0 .. 15
  BY <1>1 DEF Instructions, opcode, src, dst
<1>3. immediate \in Word(W32) /\ instruction.off \in Word(OffsetBits)
  BY <1>1 DEF Instructions, immediate
<1>4. immediate \in Word(W64) /\ immediate \in Int /\ instruction.off \in Int
  BY <1>3, AnyWidths, WordInt
<1>5. ~BadFields => src \in Registers /\ dst \in Registers
  BY <1>2 DEF BadFields, Registers, MAX_REGS
<1>6. insn.op = opcode /\ insn.src = src /\ insn.dst = dst /\ insn.imm = immediate
  BY DEF insn
<1> QED BY <1>1, <1>2, <1>3, <1>4, <1>5, <1>6 DEF Registers, MAX_REGS

\* The addresses.
LEMMA AddressesTyped ==
  ASSUME TypeOK
  PROVE  /\ NextIp \in Word(IpBits) /\ Target \in Word(IpBits)
         /\ \A x \in Word(W64) : data_adr(x) \in Word(AddrBits)
<1>1. ip_next \in Int /\ instruction.off \in Int
  BY Fields, AnyWidths, WordInt DEF TypeOK
<1>2. /\ 2^IpBits \in Nat /\ 2^IpBits > 0 /\ 2^AddrBits \in Nat /\ 2^AddrBits > 0
      /\ 2^OffsetBits \in Nat
  BY AnyWidths, Power
<1>3. Signed(instruction.off, OffsetBits) \in Int
  BY <1>1, <1>2 DEF Signed
<1>4. NextIp \in Word(IpBits)
  <2>1. ip_next + 1 \in Int
    BY <1>1
  <2> QED BY <1>2, <2>1, Around DEF NextIp, Word
<1>5. Target \in Word(IpBits)
  <2>1. ip_next + Signed(instruction.off, OffsetBits) \in Int
    BY <1>1, <1>3
  <2> QED BY <1>2, <2>1, Around DEF Target, Word
<1>6. ASSUME NEW x \in Word(W64) PROVE data_adr(x) \in Word(AddrBits)
  <2>1. x + instruction.off \in Int
    BY <1>1, WordInt
  <2> QED BY <1>2, <2>1, Around DEF data_adr, Word
<1> QED BY <1>4, <1>5, <1>6

\* The low part of a word, of any width, is a word.
LEMMA LowWord ==
  ASSUME NEW x \in Int, NEW w \in 0 .. W64
  PROVE  Low(x, w) \in Word(w) /\ Low(x, w) \in Word(W64)
<1>1. w <= W64 /\ W64 \in 0 .. W64
  BY Widths
<1> QED BY <1>1, LowLow

LEMMA OperandTyped ==
  ASSUME TypeOK, ~BadFields
  PROVE  Operand(insn, regs) \in Word(W64) /\ regs[insn.dst] \in Word(W64) /\ regs[insn.src] \in Word(W64)
<1>1. Operand(insn, regs) = IF UsesReg(opcode) THEN regs[src] ELSE immediate
  BY Fields DEF Operand
<1> QED BY <1>1, Fields

\* The operations computed in one edge.
LEMMA AluTyped ==
  ASSUME TypeOK, ~BadFields, IsPlain(opcode) \/ IsNeg(opcode)
  PROVE  Alu32(insn, regs) \in Word(W64) /\ Alu64(insn, regs) \in Word(W64)
<1> DEFINE c == code(insn.op)
           d == regs[insn.dst]
           e == regs[insn.src]
           s == Operand(insn, regs)
<1>1. d \in Word(W64) /\ s \in Word(W64) /\ e \in Word(W64)
  BY OperandTyped
<1>2. d \in Int /\ s \in Int /\ e \in Int
  BY <1>1, WordInt
<1>3. c \in {ALU_ADD, ALU_SUB, ALU_MUL, ALU_OR, ALU_AND, ALU_XOR, ALU_MOV, ALU_NEG}
  BY Fields DEF IsPlain, IsNeg, PlainOps
<1>4. /\ Alu32(insn, regs) = CASE c = ALU_MOV -> s [] c = ALU_NEG -> Low(-d, W32)
                               [] OTHER -> Compute(c, d, s, W32)
      /\ Alu64(insn, regs) = CASE c = ALU_MOV -> s [] c = ALU_NEG -> Low(-e, W64)
                               [] OTHER -> Compute(c, d, s, W64)
  BY DEF Alu32, Alu64
<1> HIDE DEF c, d, e, s
<1>5. Low(-d, W32) \in Word(W64) /\ Low(-e, W64) \in Word(W64)
  <2>1. -d \in Int /\ -e \in Int
    BY <1>2
  <2> QED BY <2>1, LowWord, AnyWidths
<1>6. ASSUME NEW w \in {W32, W64}, c # ALU_MOV, c # ALU_NEG PROVE Compute(c, d, s, w) \in Word(W64)
  <2>1. w \in 0 .. W64
    BY AnyWidths
  <2>2. Or(d, s) \in Int /\ And(d, s) \in Int /\ Xor(d, s) \in Int
    BY <1>2, BitwiseWord, AnyWidths, WordInt
  <2>3. d + s \in Int /\ d - s \in Int /\ d * s \in Int
    BY <1>2
  <2>4. /\ Low(d + s, w) \in Word(W64) /\ Low(d - s, w) \in Word(W64) /\ Low(d * s, w) \in Word(W64)
        /\ Low(Or(d, s), w) \in Word(W64) /\ Low(And(d, s), w) \in Word(W64)
        /\ Low(Xor(d, s), w) \in Word(W64)
    BY <2>1, <2>2, <2>3, LowWord
  <2> QED BY <1>3, <1>6, <2>4 DEF Compute, ALU_ADD, ALU_SUB, ALU_MUL, ALU_OR, ALU_AND, ALU_XOR, ALU_MOV, ALU_NEG
<1> QED BY <1>1, <1>4, <1>5, <1>6 DEF ALU_MOV, ALU_NEG

LEMMA EndianTyped ==
  ASSUME TypeOK, ~BadFields, immediate \in EndianWidths
  PROVE  BE(regs[dst], immediate) \in Word(W64) /\ LE(regs[dst], immediate) \in Word(W64)
<1>1. regs[dst] \in Word(W64) /\ regs[dst] \in Int
  BY Fields, WordInt
<1>2. LE(regs[dst], immediate) \in Word(W64)
  <2>1. immediate \in 0 .. W64
    BY Widths DEF EndianWidths
  <2> QED BY <1>1, <2>1, LowWord DEF LE
<1>3. BE(regs[dst], immediate) \in Word(W64)
  <2>1. Arith!EndianWidths = EndianWidths
    BY DEF Arith!EndianWidths, EndianWidths, Arith!W16, W16, Arith!W32, W32, Arith!W64, W64
  <2>2. Arith!BE(regs[dst], immediate) = BE(regs[dst], immediate)
    BY Zenon DEF Arith!BE, BE, Arith!Byte, Byte
  <2>3. Arith!BE(regs[dst], immediate) \in Arith!Word(Arith!W64)
    BY <1>1, <2>1, DividerWidth, Widthwise, ArithWords, Arith!BeWord DEF Arith!BeWord
  <2> QED BY <2>2, <2>3, SameWords, SameWidths
<1> QED BY <1>2, <1>3

\* What the divider and the shifter are given.
LEMMA RequestsTyped ==
  ASSUME TypeOK, ~BadFields
  PROVE  /\ DivRequest32(insn, regs) \in DivPorts /\ DivRequest64(insn, regs) \in DivPorts
         /\ ShiftRequest32(insn, regs) \in ShiftPorts /\ ShiftRequest64(insn, regs) \in ShiftPorts
<1> DEFINE d == regs[insn.dst]
           s == Operand(insn, regs)
           l == Low(d, W32)
           m == Low(s, W32)
           x == SignExtend(l, W32, W64)
<1>1. d \in Word(W64) /\ s \in Word(W64) /\ d \in Int /\ s \in Int
  BY OperandTyped, WordInt
<1>2. l \in Word(W64) /\ m \in Word(W64) /\ l \in Word(W32)
  BY <1>1, LowWord, AnyWidths
<1>3. x \in Word(W64)
  <2>1. W32 \in 1 .. W64 /\ W64 \in W32 .. W64
    BY Widths
  <2> QED BY <1>2, <2>1, SignExtended
<1>4. /\ DivRequest32(insn, regs) = [stb |-> TRUE, dividend |-> l, divisor |-> m]
      /\ DivRequest64(insn, regs) = [stb |-> TRUE, dividend |-> d, divisor |-> s]
  BY DEF DivRequest32, DivRequest64
<1>5. /\ ShiftRequest32(insn, regs) =
           [stb |-> TRUE, arith |-> code(insn.op) = ALU_ARSH, left |-> code(insn.op) = ALU_LSH,
            value |-> IF code(insn.op) = ALU_ARSH THEN x ELSE l, shift |-> m]
      /\ ShiftRequest64(insn, regs) =
           [stb |-> TRUE, arith |-> code(insn.op) = ALU_ARSH, left |-> code(insn.op) = ALU_LSH,
            value |-> d, shift |-> s]
  BY DEF ShiftRequest32, ShiftRequest64
<1> HIDE DEF d, s, l, m, x
<1>6. (IF code(insn.op) = ALU_ARSH THEN x ELSE l) \in Word(W64)
      /\ (code(insn.op) = ALU_ARSH) \in BOOLEAN /\ (code(insn.op) = ALU_LSH) \in BOOLEAN
  BY <1>2, <1>3
<1> QED BY <1>1, <1>2, <1>4, <1>5, <1>6 DEF DivPorts, ShiftPorts

\* Where the processor is and what it remembers of the instruction.
LEMMA ControlStep ==
  ASSUME TypeOK, NEW in \in Inputs, Execute(in)
  PROVE  ControlTyped'
<1>1. ControlTyped /\ pgm_dat_r \in Instructions
  BY TypeParts DEF PartsTyped
<1>2. NextIp \in Word(IpBits) /\ Target \in Word(IpBits)
  BY AddressesTyped
<1>3. ~BadFields => dst \in Registers
  BY Fields
<1> USE DEF ControlTyped, InState, Decode, DecodeAlu, Goto, Advance, Raise, States, fetch, states, faults,
            keeps, acks
<1>4. CASE Halted(in)
  BY <1>1, <1>2, <1>3, <1>4 DEF Halted
<1>5. CASE Fault(in)
  BY <1>1, <1>2, <1>3, <1>5 DEF Fault
<1>6. CASE OpFetch(in)
  BY <1>1, <1>2, <1>3, <1>6 DEF OpFetch
<1>7. CASE OpFetchDelay(in)
  BY <1>1, <1>2, <1>3, <1>7 DEF OpFetchDelay
<1>8. CASE LddwLow(in)
  BY <1>1, <1>2, <1>3, <1>8 DEF LddwLow
<1>9. CASE LddwHigh(in)
  BY <1>1, <1>2, <1>3, <1>9 DEF LddwHigh
<1>10. CASE Reserved(in)
  BY <1>1, <1>2, <1>3, <1>10 DEF Reserved
<1>11. CASE LoadStart(in)
  BY <1>1, <1>2, <1>3, <1>11 DEF LoadStart
<1>12. CASE LoadDone(in)
  BY <1>1, <1>2, <1>3, <1>12 DEF LoadDone
<1>13. CASE StoreStart(in)
  BY <1>1, <1>2, <1>3, <1>13 DEF StoreStart
<1>14. CASE StoreDone(in)
  BY <1>1, <1>2, <1>3, <1>14 DEF StoreDone
<1>15. CASE DivStart(in)
  BY <1>1, <1>2, <1>3, <1>15 DEF DivStart
<1>16. CASE DivDone(in)
  BY <1>1, <1>2, <1>3, <1>16 DEF DivDone
<1>17. CASE ShiftWait(in)
  BY <1>1, <1>2, <1>3, <1>17 DEF ShiftWait
<1>18. CASE ShiftDone(in)
  BY <1>1, <1>2, <1>3, <1>18 DEF ShiftDone
<1>19. CASE Plain(in)
  BY <1>1, <1>2, <1>3, <1>19 DEF Plain
<1>20. CASE Endian(in)
  BY <1>1, <1>2, <1>3, <1>20 DEF Endian
<1>21. CASE BadAlu(in)
  BY <1>1, <1>2, <1>3, <1>21 DEF BadAlu
<1>22. CASE Call(in)
  BY <1>1, <1>2, <1>3, <1>22 DEF Call
<1>23. CASE Jump(in)
  BY <1>1, <1>2, <1>3, <1>23 DEF Jump
<1>24. CASE DataFetch(in)
  BY <1>1, <1>2, <1>3, <1>24 DEF DataFetch
<1>25. CASE DataAck(in)
  BY <1>1, <1>2, <1>3, <1>25 DEF DataAck
<1>26. CASE DivPending(in)
  BY <1>1, <1>2, <1>3, <1>26 DEF DivPending
<1>27. CASE DivAck(in)
  BY <1>1, <1>2, <1>3, <1>27 DEF DivAck
<1>28. CASE DivError(in)
  BY <1>1, <1>2, <1>3, <1>28 DEF DivError
<1>29. CASE CallPending(in)
  BY <1>1, <1>2, <1>3, <1>29 DEF CallPending
<1>30. CASE CallReturn(in)
  BY <1>1, <1>2, <1>3, <1>30 DEF CallReturn
<1>31. CASE CallError(in)
  BY <1>1, <1>2, <1>3, <1>31 DEF CallError
<1> QED
  BY <1>4, <1>5, <1>6, <1>7, <1>8, <1>9, <1>10, <1>11, <1>12, <1>13, <1>14, <1>15, <1>16,
     <1>17, <1>18, <1>19, <1>20, <1>21, <1>22, <1>23, <1>24, <1>25, <1>26, <1>27, <1>28, <1>29,
     <1>30, <1>31 DEF Execute

\* What the branches that write a register write to it.
LEMMA RegsStep ==
  ASSUME TypeOK, NEW in \in Inputs, Execute(in)
  PROVE  RegsTyped'
<1>1. RegsTyped
  BY TypeParts
<1>2. \A n \in Registers, v \in Word(W64) : [regs EXCEPT ![n] = v] \in [Registers -> Word(W64)]
  BY <1>1 DEF RegsTyped
<1>3. immediate \in Word(W64) /\ immediate \in Int /\ immediate \in Word(W32) /\ 0 \in Registers
      /\ (~BadFields => dst \in Registers /\ regs[dst] \in Word(W64))
  BY Fields DEF Registers, MAX_REGS
<1> USE DEF RegsTyped, InState, Decode, DecodeAlu, Put
<1>4. CASE UNCHANGED regs
  BY <1>1, <1>4
<1>5. CASE LddwLow(in)
  BY <1>2, <1>3, <1>5 DEF LddwLow
<1>6. CASE LddwHigh(in)
  <2> DEFINE H == 2^W32
             l == Low(regs[dst], W32)
  <2>1. dst \in Registers /\ regs[dst] \in Word(W64)
    BY <1>3, <1>6 DEF LddwHigh
  <2>2. l \in Word(W32) /\ H \in Nat
    BY <2>1, LowWord, AnyWidths, WordInt, Power
  <2>3. 2^W64 = H * H
    <3>1. W32 \in Nat /\ W32 + W32 = W64 /\ W32 + W32 <= W64
      BY ByteBitsAssumption DEF W32, W64
    <3>2. 2^(W32 + W32) = 2^W32 * 2^W32
      BY <3>1, PowerSum
    <3> QED BY <3>1, <3>2
  <2>4. l \in 0 .. H - 1 /\ immediate \in 0 .. H - 1
    BY <1>3, <2>2 DEF Word
  <2>5. l + immediate * H \in Word(W64)
    <3> HIDE DEF H, l
    <3>1. immediate * H <= (H - 1) * H /\ (H - 1) * H = H * H - H /\ immediate * H >= 0
          /\ immediate * H \in Int /\ H * H \in Int
      BY <2>2, <2>4
    <3>2. l + immediate * H \in 0 .. (H * H) - 1
      BY <2>2, <2>4, <3>1
    <3> QED BY <2>3, <3>2 DEF Word
  <2> QED BY <1>2, <1>6, <2>1, <2>5 DEF LddwHigh
<1>7. CASE LoadDone(in)
  <2>1. ASSUME IsMem(opcode) PROVE Low(dm.dat_r8, Bytes(opcode) * ByteBits) \in Word(W64)
    <3>1. Bytes(opcode) \in {1, 2, 4, 8}
      BY <2>1, Fields DEF IsMem, Bytes
    <3>2. Bytes(opcode) * ByteBits \in 0 .. W64
      BY <3>1, Widths
    <3>3. dm.dat_r8 \in Int
      BY SameWords, SameWidths, WordInt DEF TypeOK, DataM!Registers
    <3> QED BY <3>2, <3>3, LowWord
  <2> QED BY <1>1, <1>2, <1>3, <1>7, <2>1 DEF LoadDone
<1>8. CASE DivDone(in)
  <2>1. div.quo \in Word(W64) /\ div.rem \in Word(W64)
    BY DEF TypeOK, Div!Registers, Div!Data, Word
  <2> QED BY <1>2, <1>3, <1>8, <2>1 DEF DivDone
<1>9. CASE ShiftDone(in)
  <2>1. sh.out \in Word(W64)
    BY SameWords, SameWidths DEF TypeOK, Shift!Registers, Shift!Data
  <2>2. Low(sh.out, W32) \in Word(W64)
    BY <2>1, WordInt, AnyWidths, LowWord
  <2> QED BY <1>2, <1>3, <1>9, <2>1, <2>2 DEF ShiftDone
<1>10. CASE Plain(in)
  <2>1. ~BadFields /\ (IsPlain(opcode) \/ IsNeg(opcode))
    BY <1>10 DEF Plain
  <2>2. Alu32(insn, regs) \in Word(W64) /\ Alu64(insn, regs) \in Word(W64)
    BY <2>1, AluTyped
  <2> QED BY <1>2, <1>3, <1>10, <2>2 DEF Plain
<1>11. CASE Endian(in)
  <2>1. BE(regs[dst], immediate) \in Word(W64) /\ LE(regs[dst], immediate) \in Word(W64)
    BY <1>11, EndianTyped DEF Endian
  <2> QED BY <1>2, <1>3, <1>11, <2>1 DEF Endian
<1>12. CASE DivError(in)
  <2>1. 0 \in Word(W64)
    BY ZeroWord, AnyWidths
  <2> QED BY <1>1, <1>2, <1>3, <1>12, <2>1 DEF DivError
<1>13. CASE CallReturn(in)
  <2>1. ch.ret \in Word(W64)
    BY SameWords, SameWidths DEF TypeOK, Helper!Registers, Helper!Data
  <2> QED BY <1>2, <1>3, <1>13, <2>1 DEF CallReturn
<1>14. CASE ~(\/ LddwLow(in) \/ LddwHigh(in) \/ LoadDone(in) \/ DivDone(in) \/ ShiftDone(in) \/ Plain(in)
              \/ Endian(in) \/ DivError(in) \/ CallReturn(in))
  <2>1. UNCHANGED regs
    BY <1>14 DEF Execute, Halted, Fault, OpFetch, OpFetchDelay, Reserved, LoadStart, StoreStart, StoreDone,
       DivStart, ShiftWait, BadAlu, Call, Jump, DataFetch, DataAck, DivPending, DivAck, CallPending, CallError
  <2> QED BY <1>4, <2>1
<1> QED BY <1>5, <1>6, <1>7, <1>8, <1>9, <1>10, <1>11, <1>12, <1>13, <1>14

\* What the branches present to the components.
LEMMA PortsStep ==
  ASSUME TypeOK, NEW in \in Inputs, Execute(in)
  PROVE  PortsTyped'
<1>1. PortsTyped
  BY TypeParts
<1>2. DataM!Addr = Word(AddrBits)
  BY SameWords DEF DataM!Addr
<1>3. DataM!Ports = [stb : BOOLEAN, adr : Word(AddrBits), we : BOOLEAN, ww : 0 .. 15, dat_w : Word(W64)]
  BY <1>2, SameWords, SameWidths DEF DataM!Ports
<1>4. ~BadFields => /\ data_adr(regs[src]) \in Word(AddrBits) /\ data_adr(regs[dst]) \in Word(AddrBits)
                    /\ regs[src] \in Word(W64)
  BY Fields, AddressesTyped
<1> USE DEF PortsTyped, InState, Decode, DecodeAlu, ports
<1>5. CASE UNCHANGED ports
  BY <1>1, <1>5
<1>6. CASE LoadStart(in)
  BY <1>1, <1>3, <1>4, <1>6 DEF LoadStart
<1>7. CASE StoreStart(in)
  <2>1. Stored \in Int
    BY <1>4, <1>7, Fields, WordInt DEF Stored, StoreStart
  <2>2. ASSUME IsMem(opcode)
        PROVE  Bytes(opcode) \in 0 .. 15 /\ Low(Stored, Bytes(opcode) * ByteBits) \in Word(W64)
    <3>1. Bytes(opcode) \in {1, 2, 4, 8}
      BY <2>2, Fields DEF IsMem, Bytes
    <3>2. Bytes(opcode) * ByteBits \in 0 .. W64
      BY <3>1, Widths
    <3> QED BY <2>1, <3>1, <3>2, LowWord
  <2>3. data' = StorePort /\ UNCHANGED <<arsh64, div64, call_handler>> /\ ~BadFields
    BY <1>7 DEF StoreStart
  <2>4. StorePort \in DataM!Ports
    BY <1>1, <1>3, <1>4, <2>2, <2>3 DEF StorePort
  <2> QED BY <1>1, <2>3, <2>4
<1>8. CASE DivStart(in)
  <2>1. div64' \in DivPorts
    BY <1>8, RequestsTyped DEF DivStart
  <2> QED BY <1>1, <1>8, <2>1 DEF DivStart
<1>9. CASE ShiftWait(in)
  <2>1. arsh64' \in ShiftPorts
    BY <1>9, RequestsTyped DEF ShiftWait
  <2> QED BY <1>1, <1>9, <2>1 DEF ShiftWait
<1>10. CASE ShiftDone(in)
  <2>1. arsh64' \in ShiftPorts
    BY <1>1, <1>10 DEF ShiftDone, ShiftPorts
  <2> QED BY <1>1, <1>10, <2>1 DEF ShiftDone
<1>11. CASE Call(in)
  <2>1. regs[1] \in Word(W64) /\ regs[2] \in Word(W64) /\ immediate \in Word(W32)
    BY Fields DEF TypeOK, Registers, MAX_REGS
  <2>2. call_handler' \in CallPorts
    BY <1>11, <2>1 DEF Call, CallPorts
  <2> QED BY <1>1, <1>11, <2>2 DEF Call
<1>12. CASE DataFetch(in)
  BY <1>1, <1>3, <1>12 DEF DataFetch
<1>13. CASE DataAck(in)
  BY <1>1, <1>3, <1>13 DEF DataAck
<1>14. CASE DivPending(in)
  <2>1. div64' \in DivPorts
    BY <1>1, <1>14 DEF DivPending, DivPorts
  <2> QED BY <1>1, <1>14, <2>1 DEF DivPending
<1>15. CASE CallReturn(in)
  <2>1. call_handler' \in CallPorts
    BY <1>1, <1>15 DEF CallReturn, CallPorts
  <2> QED BY <1>1, <1>15, <2>1 DEF CallReturn
<1>16. CASE CallError(in)
  <2>1. call_handler' \in CallPorts
    BY <1>1, <1>16 DEF CallError, CallPorts
  <2> QED BY <1>1, <1>16, <2>1 DEF CallError
<1>17. CASE ~(\/ LoadStart(in) \/ StoreStart(in) \/ DivStart(in) \/ ShiftWait(in) \/ ShiftDone(in) \/ Call(in)
              \/ DataFetch(in) \/ DataAck(in) \/ DivPending(in) \/ CallReturn(in) \/ CallError(in))
  <2>1. UNCHANGED ports
    BY <1>17 DEF Execute, Halted, Fault, OpFetch, OpFetchDelay, LddwLow, LddwHigh, Reserved, LoadDone,
       StoreDone, DivDone, Plain, Endian, BadAlu, Jump, DivAck, DivError, CallPending
  <2> QED BY <1>5, <2>1
<1> QED BY <1>6, <1>7, <1>8, <1>9, <1>10, <1>11, <1>12, <1>13, <1>14, <1>15, <1>16, <1>17

LEMMA StartTyped ==
  ASSUME NEW in \in Inputs
  PROVE  /\ StartIp(in) \in Word(IpBits) /\ StartRegs(in) \in [Registers -> Word(W64)]
         /\ NoData \in DataM!Ports /\ NoShift \in ShiftPorts /\ NoDiv \in DivPorts /\ NoCall \in CallPorts
         /\ 0 \in Registers
<1>1. 0 \in Word(IpBits) /\ 0 \in Word(W64) /\ 0 \in Word(W32) /\ 0 \in Word(AddrBits)
  BY ZeroWord, AnyWidths
<1>2. in.ip_next_rule \in Word(IpBits) /\ in.args \in [1 .. 5 -> Word(W64)]
  BY InputsAssumption DEF Pins
<1>3. DataM!Addr = Word(AddrBits) /\ DataM!Word(DataM!W64) = Word(W64)
  BY SameWords, SameWidths DEF DataM!Addr
<1> QED BY <1>1, <1>2, <1>3 DEF StartIp, StartRegs, NoData, DataM!Ports, NoShift, ShiftPorts, NoDiv, DivPorts,
       NoCall, CallPorts, Registers, MAX_REGS

LEMMA TypeInit == Init => TypeOK
<1> SUFFICES ASSUME Init PROVE TypeOK
  OBVIOUS
<1>1. PICK in \in Inputs :
        /\ pgm \in Programs /\ mem \in Memories
        /\ ip = StartIp(in) /\ ip_next = StartIp(in)
        /\ pgm_dat_r \in {BlankWord, pgm[Prog!PgmIndex(ip_next)]} /\ instruction = pgm_dat_r
        /\ regs = StartRegs(in)
  BY DEF Init
<1>2. /\ StartIp(in) \in Word(IpBits) /\ StartRegs(in) \in [Registers -> Word(W64)]
      /\ NoData \in DataM!Ports /\ NoShift \in ShiftPorts /\ NoDiv \in DivPorts /\ NoCall \in CallPorts
      /\ 0 \in Registers
  BY StartTyped
<1>3. 0 \in Word(OffsetBits) /\ 0 \in Word(W64) /\ 0 \in Word(W32) /\ 0 \in Word(AddrBits) /\ 0 \in Word(ByteBits)
  BY ZeroWord, AnyWidths, Widths
<1>4. pgm \in [Word(PgmBits) -> Instructions] /\ pgm_dat_r \in Instructions
  <2>1. pgm \in [Word(PgmBits) -> Instructions]
    BY <1>1, ProgramsAssumption
  <2>2. BlankWord \in Instructions
    BY <1>3 DEF BlankWord, Instructions
  <2>3. Prog!PgmIndex(ip_next) \in Word(PgmBits)
    <3>1. ip_next \in Int
      BY <1>1, <1>2, AnyWidths, WordInt
    <3>2. 2^PgmBits \in Nat /\ 2^PgmBits > 0
      BY AnyWidths, Power
    <3> QED BY <3>1, <3>2, Around DEF Prog!PgmIndex, Word
  <2> QED BY <1>1, <2>1, <2>2, <2>3
<1>5. mem \in [Word(AddrBits) -> Word(ByteBits)]
  BY <1>1, MemoriesAssumption
<1>6. dm \in DataM!Registers
  <2>1. DataM!Addr = Word(AddrBits) /\ DataM!Word(DataM!W64) = Word(W64) /\ DataM!Word(ByteBits) = Word(ByteBits)
    BY SameWords, SameWidths DEF DataM!Addr
  <2>2. 0 \in 0 .. 15
    OBVIOUS
  <2> QED BY <1>3, <2>1, <2>2 DEF Init, DataM!ClearRegs, DataM!Registers
<1>7. sh \in Shift!Registers
  BY <1>3, SameWords, SameWidths DEF Init, Shift!ResetRegs, Shift!Registers, Shift!Data
<1>8. div \in Div!Registers
  <2>1. Div!Data = Word(W64)
    BY DEF Div!Data, Word
  <2>2. 2^(W64 + 1) - 1 \in 0 .. 2^(W64 + 1) - 1
    BY PowerAbove, Power, AnyWidths
  <2> QED BY <1>3, <2>1, <2>2 DEF Init, Div!ResetRegs, Div!Registers
<1>9. ch \in Helper!Registers
  <2>1. Helper!Data = Word(W64)
    BY SameWords, SameWidths DEF Helper!Data
  <2> QED BY <1>3, <2>1 DEF Init, Helper!ResetRegs, Helper!Registers
<1>10. store \in [0 .. CallDepth - 1 -> Word(W64)]
  BY <1>3 DEF Init
<1>11. PartsTyped
  BY <1>4, <1>5, <1>6, <1>7, <1>8, <1>9, <1>10 DEF PartsTyped
<1>12. ControlTyped
  BY <1>1, <1>2, <1>4 DEF ControlTyped, Init, States
<1>13. RegsTyped /\ PortsTyped
  BY <1>1, <1>2 DEF RegsTyped, PortsTyped, Init
<1> QED BY <1>11, <1>12, <1>13, TypeParts

LEMMA TypeStep == TypeOK /\ [Next]_vars => TypeOK'
<1> SUFFICES ASSUME TypeOK, [Next]_vars PROVE TypeOK'
  OBVIOUS
<1>1. CASE UNCHANGED vars
  BY <1>1 DEF vars, faults, fetch, states, keeps, acks, ports, parts, TypeOK
<1>2. ASSUME NEW in \in Inputs, Reset(in) PROVE TypeOK'
  <2>1. PartsTyped'
    BY <1>2, PartsEdge DEF Reset
  <2>2. ControlTyped'
    <3>1. pgm_dat_r \in Instructions
      BY DEF TypeOK
    <3> QED BY <1>2, <3>1, StartTyped DEF Reset, ControlTyped, States
  <2>3. RegsTyped' /\ PortsTyped'
    BY <1>2, StartTyped DEF Reset, RegsTyped, PortsTyped
  <2>4. ControlTyped' /\ RegsTyped' /\ PortsTyped' /\ PartsTyped'
    BY <2>1, <2>2, <2>3
  <2> QED BY <2>4 DEF TypeOK, ControlTyped, RegsTyped, PortsTyped, PartsTyped, ShiftPorts, DivPorts, CallPorts
<1>3. ASSUME NEW in \in Inputs, Execute(in) PROVE TypeOK'
  <2>1. Parts(in)
    BY <1>3, ExecuteShape
  <2>2. ControlTyped' /\ RegsTyped' /\ PortsTyped' /\ PartsTyped'
    BY <1>3, <2>1, ControlStep, RegsStep, PortsStep, PartsEdge
  <2> QED BY <2>2 DEF TypeOK, ControlTyped, RegsTyped, PortsTyped, PartsTyped, ShiftPorts, DivPorts, CallPorts
<1> QED BY <1>1, <1>2, <1>3 DEF Next

\* Every register and memory of the processor keeps its width (cpu.v's declarations,
\* 250-420), whatever program runs on whatever data and however the pins move; in
\* particular no instruction writes a register file entry that does not exist (cpu.v
\* 1049-1061).
THEOREM CpuTyped == Spec => []TypeOK
BY TypeInit, TypeStep, PTL DEF Spec

-----------------------------------------------------------------------------
(* What is fetched, asked and answered while a program runs.               *)

\* The program is one of those that were loaded, and what is fetched comes from it.
FromProgram ==
  /\ pgm \in Programs
  /\ \A w \in {instruction, pgm_dat_r} : w = BlankWord \/ \E a \in Word(PgmBits) : pgm[a] = w

\* The second word of a LDDW is in the instruction register as soon as it is awaited.
KeepsSecond ==
  keep_op # 0 /\ ~halt => state_next \in {"OP_FETCH_DELAY", "DECODE"} /\ instruction = second

\* An error halts; the host resets a processor that has halted or has been reset.
Stopped ==
  /\ error => halt
  /\ host \in {"reset", "run"}
  /\ host = "reset" => halt \/ state_next = "OP_FETCH"

\* The data memory, seen as DataPort sees it.
DataPhase ==
  IF halt THEN "idle"
  ELSE IF state_next = "DATA_FETCH" THEN "fetch"
  ELSE IF ~cpu_data_ack THEN "idle"
  ELSE IF opclass(opcode) = OPC_LDX THEN "loaded" ELSE "stored"
\* The accesses the processor prepares.
AnyAccess == {p \in DataM!Ports : ~p.stb /\ (p.we => p.ww \in {1, 2, 4, 8})}
DataQ == INSTANCE DataPortProof WITH Accesses <- AnyAccess, phase <- DataPhase, want <- absMem

\* What the processor has asked of the data memory.
DataRequested ==
  ~halt =>
    /\ data.we <=> state_next = "DATA_FETCH" /\ opclass(opcode) # OPC_LDX
    /\ (state_next = "DATA_FETCH" \/ cpu_data_ack) /\ opclass(opcode) = OPC_LDX =>
         data.adr = data_adr(regs[src])

\* The divider.
DivAsked == IF Is32 THEN DivRequest32(insn, regs) ELSE DivRequest64(insn, regs)
DivRequested ==
  /\ div64.stb => state_next = "DIV_PENDING" /\ ~halt
  /\ (state_next = "DIV_PENDING" /\ ~halt) \/ cpu_div64_ack =>
       div64.dividend = DivAsked.dividend /\ div64.divisor = DivAsked.divisor
  /\ cpu_div64_ack => Div!ack /\ ~div.err

\* The shifter.
ShiftAsked == IF Is32 THEN ShiftRequest32(insn, regs) ELSE ShiftRequest64(insn, regs)
Shifting == [arith |-> arsh64.arith, left |-> arsh64.left, value |-> arsh64.value, shift |-> arsh64.shift]
NoShifting == [arith |-> FALSE, left |-> FALSE, value |-> 0, shift |-> 0]
ShiftQ == INSTANCE ShiftPortProof WITH
            port <- arsh64, asked <- IF sh.state THEN Shifting ELSE NoShifting, Requests <- {}
ShiftRequested == arsh64.stb => arsh64 = ShiftAsked

\* The call handler.
CallRequested ==
  state_next = "CALL_PENDING" /\ ~halt =>
    /\ opcode = EBPF_OP_CALL /\ ~BadFields
    /\ call_handler.stb /\ call_handler.func = immediate
    /\ ch.err => ch.ack
    /\ ch.ack /\ ~ch.err => call_handler.func \in KnownFuncs

-----------------------------------------------------------------------------
\* DataPort counts bytes and widths as cpu.v does.
LEMMA DataQWidths ==
  /\ DataQ!W64 = W64 /\ DataQ!Addr = Word(AddrBits) /\ DataQ!Ports = DataM!Ports
  /\ DataQ!Registers = DataM!Registers
  /\ \A w : DataQ!Word(w) = Word(w)
<1>1. DataQ!W64 = W64 /\ \A w : DataQ!Word(w) = Word(w)
  BY DEF DataQ!W64, W64, DataQ!Word, Word
<1> QED BY <1>1, SameWords, SameWidths DEF DataQ!Addr, DataM!Addr, DataQ!Ports, DataM!Ports,
           DataQ!Registers, DataM!Registers

\* What DataPort assumes of its constants.
LEMMA DataQAssumed ==
  /\ ByteBits \in Nat \ {0}
  /\ 2^0 = 1
  /\ \A n \in 0 .. DataQ!W64 + 1 : 2^n \in Nat \ {0}
  /\ \A n \in 1 .. DataQ!W64 + 1 : 2^n = 2 * 2^(n - 1)
  /\ AddrBits \in 3 .. DataQ!W64
  /\ AnyAccess \subseteq {p \in DataQ!Ports : ~p.stb /\ (p.we => p.ww \in {1, 2, 4, 8})}
<1>1. DataQ!W64 = W64 /\ DataQ!Ports = DataM!Ports
  BY DataQWidths
<1> QED BY <1>1, PowersAssumption, ByteBitsAssumption, WidthsAssumption DEF AnyAccess

\* The steps of DataPort's inductive invariant, for the processor's requests.
LEMMA QPrepare ==
  ASSUME DataQ!DataInv, NEW p \in AnyAccess, DataQ!Prepare(p)
  PROVE  DataQ!DataInv'
BY DataQAssumed, DataQ!PrepareStep DEF DataQ!PrepareStep

\* Waiting for the data memory.
LEMMA QFetch ==
  ASSUME DataQ!DataInv, DataQ!Fetch
  PROVE  DataQ!DataInv'
BY DataQAssumed, DataQ!FetchStep DEF DataQ!FetchStep

\* The edge on which the processor sees the ack.
LEMMA QAcked ==
  ASSUME DataQ!DataInv, DataPhase = "fetch", dm.ack, DataQ!Edge(FALSE, data),
         data' \in DataM!Ports, ~data'.stb, ~data'.we, data'.adr = data.adr,
         DataPhase' = (IF data.we THEN "stored" ELSE "loaded"), absMem' = absMem
  PROVE  DataQ!DataInv'
BY DataQAssumed, DataQWidths, DataQ!AckTaken DEF DataQ!AckTaken

\* The data memory in reset.
LEMMA QReset ==
  ASSUME DataQ!DataInv, DataQ!Reset
  PROVE  DataQ!DataInv'
BY DataQAssumed, DataQ!ResetStep DEF DataQ!ResetStep

\* An edge on which nothing is asked.
LEMMA QStay ==
  ASSUME DataQ!DataInv, ~data.stb, DataQ!Edge(FALSE, data), data' \in DataM!Ports, ~data'.stb, DataPhase' = "idle", absMem' = absMem,
         DataPhase # "fetch"
  PROVE  DataQ!DataInv'
BY DataQAssumed, DataQWidths, DataQ!StayAtRest DEF DataQ!StayAtRest

-----------------------------------------------------------------------------
(* The interpreter's arithmetic, as Datapath sees it. *)
\* The word being executed is the interpreter's next one.
Matched == Ref!inst = insn /\ absReg = regs

\* Datapath decodes the same word.
LEMMA ArithInst == Arith!Ref!inst = insn
BY DividerWidth, Widthwise, ArithWords, Arith!RefInst DEF Arith!RefInst

\* The two instances of Ubpf, of the processor and of Datapath, agree on the operand,
LEMMA OperandSame ==
  ASSUME Matched
  PROVE  Ref!operand = Arith!Ref!operand
BY ArithInst DEF Matched, Ref!operand, Arith!Ref!operand, Ref!imm64, Arith!Ref!imm64,
   Ref!SignExtend, Arith!Ref!SignExtend,
   Ref!Signed, Arith!Ref!Signed, Ref!Low, Arith!Ref!Low, Ref!W32, Arith!Ref!W32, Ref!W64,
   Arith!Ref!W64, Ref!UsesReg, Arith!Ref!UsesReg

\* on divisors that are zero,
LEMMA ZeroSame ==
  ASSUME Matched
  PROVE  Ref!ZeroDivisor <=> Arith!Ref!ZeroDivisor
BY ArithInst, OperandSame DEF Matched, Ref!ZeroDivisor, Arith!Ref!ZeroDivisor, Ref!u32,
   Arith!Ref!u32,
   Ref!Low, Arith!Ref!Low, Ref!W32, Arith!Ref!W32, Ref!IsDiv, Arith!Ref!IsDiv, Ref!opclass,
   Arith!Ref!opclass,
   Ref!DivOps, Arith!Ref!DivOps, Ref!OPC_ALU, Arith!Ref!OPC_ALU, Ref!OPC_ALU64, Arith!Ref!OPC_ALU64,
   Ref!ALU_DIV, Arith!Ref!ALU_DIV, Ref!ALU_MOD, Arith!Ref!ALU_MOD, Ref!code, Arith!Ref!code

\* on bits,
LEMMA BitwiseSame ==
  \A x, y : /\ Ref!Or(x, y) = Arith!Ref!Or(x, y)
           /\ Ref!And(x, y) = Arith!Ref!And(x, y)
           /\ Ref!Xor(x, y) = Arith!Ref!Xor(x, y)
BY Zenon DEF Ref!Or, Arith!Ref!Or, Ref!And, Arith!Ref!And, Ref!Xor, Arith!Ref!Xor, Ref!BitByBit,
   Arith!Ref!BitByBit, Ref!W64, Arith!Ref!W64

\* on the operations,
LEMMA ArithmeticSame ==
  \A c, d, s : Ref!Arithmetic(c, d, s) = Arith!Ref!Arithmetic(c, d, s)
BY BitwiseSame DEF Ref!Arithmetic, Arith!Ref!Arithmetic, Ref!Low, Arith!Ref!Low, Ref!W64,
   Arith!Ref!W64, Ref!ALU_ADD,
   Arith!Ref!ALU_ADD, Ref!ALU_SUB, Arith!Ref!ALU_SUB, Ref!ALU_MUL, Arith!Ref!ALU_MUL, Ref!ALU_DIV,
   Arith!Ref!ALU_DIV, Ref!ALU_OR, Arith!Ref!ALU_OR, Ref!ALU_AND, Arith!Ref!ALU_AND, Ref!ALU_LSH,
   Arith!Ref!ALU_LSH, Ref!ALU_RSH, Arith!Ref!ALU_RSH, Ref!ALU_NEG, Arith!Ref!ALU_NEG, Ref!ALU_MOD,
   Arith!Ref!ALU_MOD, Ref!ALU_XOR, Arith!Ref!ALU_XOR, Ref!ALU_MOV, Arith!Ref!ALU_MOV, Ref!ALU_ARSH,
   Arith!Ref!ALU_ARSH, Ref!ALU_ENDC, Arith!Ref!ALU_ENDC

\* on shifts,
LEMMA ShiftedSame ==
  \A c, d, s : /\ Ref!Shifted32(c, d, s) = Arith!Ref!Shifted32(c, d, s)
              /\ Ref!Shifted64(c, d, s) = Arith!Ref!Shifted64(c, d, s)
BY DEF Ref!Shifted32, Arith!Ref!Shifted32, Ref!Shifted64, Arith!Ref!Shifted64, Ref!u32,
   Arith!Ref!u32,
   Ref!DefinedShift, Arith!Ref!DefinedShift, Ref!Any, Arith!Ref!Any, Ref!Word, Arith!Ref!Word,
   Ref!ShiftLeft,
   Arith!Ref!ShiftLeft, Ref!ShiftRight, Arith!Ref!ShiftRight, Ref!Arsh, Arith!Ref!Arsh, Ref!Signed,
   Arith!Ref!Signed, Ref!Low, Arith!Ref!Low, Ref!W64, Arith!Ref!W64, Ref!W32, Arith!Ref!W32,
   Ref!ALU_ADD,
   Arith!Ref!ALU_ADD, Ref!ALU_SUB, Arith!Ref!ALU_SUB, Ref!ALU_MUL, Arith!Ref!ALU_MUL, Ref!ALU_DIV,
   Arith!Ref!ALU_DIV, Ref!ALU_OR, Arith!Ref!ALU_OR, Ref!ALU_AND, Arith!Ref!ALU_AND, Ref!ALU_LSH,
   Arith!Ref!ALU_LSH, Ref!ALU_RSH, Arith!Ref!ALU_RSH, Ref!ALU_NEG, Arith!Ref!ALU_NEG, Ref!ALU_MOD,
   Arith!Ref!ALU_MOD, Ref!ALU_XOR, Arith!Ref!ALU_XOR, Ref!ALU_MOV, Arith!Ref!ALU_MOV, Ref!ALU_ARSH,
   Arith!Ref!ALU_ARSH, Ref!ALU_ENDC, Arith!Ref!ALU_ENDC

\* on byte swaps,
LEMMA SwappedSame == \A x, n : Ref!Swapped(x, n) = Arith!Ref!Swapped(x, n)
BY Zenon DEF Ref!Swapped, Arith!Ref!Swapped, Ref!Byte, Arith!Ref!Byte

\* and so on what an instruction writes,
LEMMA ResultsSame ==
  ASSUME Matched
  PROVE  Ref!Results = Arith!Ref!Results
<1>1. Ref!Amount32 = Arith!Ref!Amount32
  BY ArithInst, OperandSame DEF Matched, Ref!Amount32, Arith!Ref!Amount32, Ref!code,
     Arith!Ref!code, Ref!UsesReg, Arith!Ref!UsesReg, Ref!u32,
   Arith!Ref!u32, Ref!Low, Arith!Ref!Low, Ref!W32, Arith!Ref!W32, Ref!ALU_ARSH, Arith!Ref!ALU_ARSH
<1> QED BY <1>1, ArithInst, OperandSame, ArithmeticSame, ShiftedSame, SwappedSame DEF Matched,
   Ref!Results, Arith!Ref!Results, Ref!code, Arith!Ref!code, Ref!UsesReg, Arith!Ref!UsesReg,
   Ref!u32,
   Arith!Ref!u32, Ref!Low, Arith!Ref!Low, Ref!W32, Arith!Ref!W32, Ref!IsEndian, Arith!Ref!IsEndian,
   Ref!IsDiv, Arith!Ref!IsDiv, Ref!IsShift, Arith!Ref!IsShift, Ref!DivOps, Arith!Ref!DivOps,
   Ref!ShiftOps,
   Arith!Ref!ShiftOps, Ref!opclass, Arith!Ref!opclass, Ref!OPC_ALU, Arith!Ref!OPC_ALU,
   Ref!OPC_ALU64,
   Arith!Ref!OPC_ALU64, Ref!Divided, Arith!Ref!Divided, Ref!ALU_DIV, Arith!Ref!ALU_DIV, Ref!ALU_MOD,
   Arith!Ref!ALU_MOD, Ref!ALU_LSH, Arith!Ref!ALU_LSH, Ref!ALU_RSH, Arith!Ref!ALU_RSH, Ref!ALU_ARSH,
   Arith!Ref!ALU_ARSH, Ref!ALU_ENDC, Arith!Ref!ALU_ENDC

\* and on the jumps taken.
LEMMA HoldsSame ==
  ASSUME Matched
  PROVE  Ref!Holds = Arith!Ref!Holds
BY ArithInst, OperandSame, BitwiseSame DEF Matched,
   Ref!Holds, Arith!Ref!Holds, Ref!code, Arith!Ref!code, Ref!UsesReg, Arith!Ref!UsesReg, Ref!Signed,
   Arith!Ref!Signed, Ref!W64, Arith!Ref!W64, Ref!JMP_JA, Arith!Ref!JMP_JA, Ref!JMP_JEQ,
   Arith!Ref!JMP_JEQ,
   Ref!JMP_JGT, Arith!Ref!JMP_JGT, Ref!JMP_JGE, Arith!Ref!JMP_JGE, Ref!JMP_JSET, Arith!Ref!JMP_JSET,
   Ref!JMP_JNE, Arith!Ref!JMP_JNE, Ref!JMP_JSGT, Arith!Ref!JMP_JSGT, Ref!JMP_JSGE,
   Arith!Ref!JMP_JSGE,
   Ref!JMP_JLT, Arith!Ref!JMP_JLT, Ref!JMP_JLE, Arith!Ref!JMP_JLE, Ref!JMP_JSLT, Arith!Ref!JMP_JSLT,
   Ref!JMP_JSLE, Arith!Ref!JMP_JSLE

-----------------------------------------------------------------------------
(* One edge with reset released, as the components' own proofs see it.     *)

\* ShiftPort has the widths of cpu.v.
LEMMA ShiftQWidths ==
  /\ ShiftQ!W64 = W64 /\ ShiftQ!Data = Word(W64) /\ ShiftQ!Registers = Shift!Registers
  /\ \A w : ShiftQ!Word(w) = Word(w)
<1>1. ShiftQ!W64 = W64 /\ \A w : ShiftQ!Word(w) = Word(w)
  BY DEF ShiftQ!W64, W64, ShiftQ!Word, Word
<1> QED BY <1>1, SameWords, SameWidths DEF ShiftQ!Data, Shift!Data, ShiftQ!Registers,
           Shift!Registers

\* What ShiftPort assumes of its constants.
LEMMA ShiftQAssumed ==
  /\ ByteBits \in Nat \ {0}
  /\ 2^0 = 1
  /\ \A n \in 0 .. ShiftQ!W64 + 1 : 2^n \in Nat \ {0}
  /\ \A n \in 1 .. ShiftQ!W64 + 1 : 2^n = 2 * 2^(n - 1)
  /\ {} \subseteq ShiftQ!Inputs
BY ShiftQWidths, PowersAssumption, ByteBitsAssumption

\* An edge of the processor's data memory is one of DataPort's,
LEMMA DataQEdge ==
  ASSUME NEW rst, NEW p, DataM!Edge(rst, p)
  PROVE  DataQ!Edge(rst, p)
BY DEF DataM!Edge, DataQ!Edge, DataM!Fsm, DataQ!Fsm, DataM!MemWrite, DataQ!MemWrite, DataM!MemRead,
   DataQ!MemRead, DataM!ResetRegs, DataQ!ResetRegs, DataM!Idle, DataQ!Idle,
   DataM!StartWrite, DataQ!StartWrite, DataM!WriteByte, DataQ!WriteByte, DataM!AfterAck,
   DataQ!AfterAck,
   DataM!StartRead, DataQ!StartRead, DataM!WaitRead, DataQ!WaitRead, DataM!ReadByte, DataQ!ReadByte,
   DataM!Next1, DataQ!Next1, DataM!PutByte, DataQ!PutByte, DataM!Byte, DataQ!Byte

\* one of its shifter is one of ShiftPort's,
LEMMA ShiftQEdge ==
  ASSUME NEW rst, NEW p, Shift!Edge(rst, p)
  PROVE  ShiftQ!Edge(rst, p)
<1>1. ShiftQ!Or(sh.tmp1, sh.tmp2) = Shift!Or(sh.tmp1, sh.tmp2)
  BY Zenon DEF ShiftQ!Or, Shift!Or, ShiftQ!BitByBit, Shift!BitByBit, ShiftQ!W64, Shift!W64
<1>2. ShiftQ!Present(p) = Shift!Present(p)
  BY <1>1 DEF ShiftQ!Present, Shift!Present, ShiftQ!Negative, Shift!Negative, ShiftQ!W64, Shift!W64
<1> QED BY <1>2 DEF ShiftQ!Edge, Shift!Edge, ShiftQ!ResetRegs, Shift!ResetRegs, ShiftQ!Finish,
           Shift!Finish,
       ShiftQ!Start, Shift!Start, ShiftQ!Vacated, Shift!Vacated, ShiftQ!ShiftLeft, Shift!ShiftLeft,
       ShiftQ!ShiftRight, Shift!ShiftRight, ShiftQ!Low, Shift!Low, ShiftQ!W64, Shift!W64

\* and one of its divider is one of Datapath's.
LEMMA ArithEdge ==
  ASSUME NEW reset_n, NEW stb, NEW a, NEW b, Div!Edge(reset_n, stb, a, b)
  PROVE  Arith!Edge(reset_n, stb, a, b)
BY DEF Arith!Edge, Div!Edge, Arith!ResetRegs, Div!ResetRegs, Arith!RejectZero, Div!RejectZero,
   Arith!Load, Div!Load, Arith!Iterate, Div!Iterate, Arith!Borrow, Div!Borrow, Arith!Partial,
   Div!Partial, Arith!ShiftIn, Div!ShiftIn, Arith!TopBit, Div!TopBit, Arith!ack, Div!ack

\* With reset released, and the data memory with the processor.
LEMMA RunningEdge ==
  ASSUME Agreed, NEW in \in Inputs, in.reset_n_int, Parts(in)
  PROVE  /\ pgm' = pgm /\ pgm_dat_r' = pgm[Prog!PgmIndex(ip_next)]
         /\ DataQ!Edge(FALSE, data) /\ ShiftQ!Edge(FALSE, arsh64)
         /\ Arith!Edge(TRUE, div64.stb, div64.dividend, div64.divisor)
         /\ HasCallHandler => Helper!Edge(FALSE, call_handler)
         /\ ~HasCallHandler => UNCHANGED <<ch, store>>
         /\ (data_ack(in) <=> dm.ack)
<1>1. ~in.csr_ctl1 /\ in.reset_n_int \in BOOLEAN /\ in.csr_ctl1 \in BOOLEAN
  BY InputsAssumption DEF Agreed, Pins
<1>2. ((~in.reset_n_int) # in.csr_ctl1) = FALSE /\ (~in.reset_n_int) = FALSE /\ in.reset_n_int = TRUE
  BY <1>1
<1>3. /\ DataM!Edge(FALSE, data) /\ Shift!Edge(FALSE, arsh64)
      /\ Div!Edge(TRUE, div64.stb, div64.dividend, div64.divisor)
      /\ HasCallHandler => Helper!Edge(FALSE, call_handler)
      /\ ~HasCallHandler => UNCHANGED <<ch, store>>
  BY <1>1, <1>2 DEF Parts
<1>4. (data_ack(in) <=> dm.ack)
  BY <1>1 DEF data_ack
<1> QED BY <1>3, <1>4, ProgramRead, DataQEdge, ShiftQEdge, ArithEdge

\* In reset the program and the data memory keep what they hold.
LEMMA ResetParts ==
  ASSUME Agreed, NEW in \in Inputs, ~in.reset_n_int, Parts(in)
  PROVE  /\ pgm' = pgm /\ pgm_dat_r' \in {pgm_dat_r, pgm[Prog!PgmIndex(ip_next)]}
         /\ DataQ!Edge(TRUE, data) /\ ShiftQ!Edge(TRUE, arsh64)
         /\ Arith!Edge(FALSE, div64.stb, div64.dividend, div64.divisor)
         /\ mem' = mem
<1>1. ~in.csr_ctl1 /\ ~in.prog_write_enable /\ in.reset_n_int \in BOOLEAN /\ in.csr_ctl1 \in BOOLEAN
  BY InputsAssumption DEF Agreed, Pins
<1>2. ((~in.reset_n_int) # in.csr_ctl1) = TRUE /\ (~in.reset_n_int) = TRUE /\ in.reset_n_int = FALSE
  BY <1>1
<1>3. DataM!Edge(TRUE, data) /\ Shift!Edge(TRUE, arsh64)
      /\ Div!Edge(FALSE, div64.stb, div64.dividend, div64.divisor)
  BY <1>1, <1>2 DEF Parts
<1>4. mem' = mem
  BY <1>3 DEF DataM!Edge, DataM!MemWrite
<1>5. pgm' = pgm /\ pgm_dat_r' \in {pgm_dat_r, pgm[Prog!PgmIndex(ip_next)]}
  BY <1>1 DEF Parts, Prog!Edge
<1> QED BY <1>3, <1>4, <1>5, DataQEdge, ShiftQEdge, ArithEdge

-----------------------------------------------------------------------------
(* What is fetched, and where the processor and the host are.              *)

\* The program memory is read at addresses it has.
LEMMA IndexTyped == \A a \in Word(IpBits) : Prog!PgmIndex(a) \in Word(PgmBits)
<1>1. \A a \in Word(IpBits) : a \in Int
  BY AnyWidths, WordInt
<1>2. 2^PgmBits \in Nat /\ 2^PgmBits > 0
  BY AnyWidths, Power
<1> QED BY <1>1, <1>2, Around DEF Prog!PgmIndex, Word

\* What is fetched comes from the program.
LEMMA FromStep ==
  ASSUME FromProgram, TypeOK, NEW in \in Inputs, Execute(in)
  PROVE  FromProgram'
<1>1. pgm' = pgm /\ pgm_dat_r' = pgm[Prog!PgmIndex(ip_next)]
  BY ExecuteShape, ProgramRead
<1>2. instruction' \in {instruction, pgm_dat_r}
  BY DEF Execute, Halted, Fault, OpFetch, OpFetchDelay, LddwLow, LddwHigh, Reserved, LoadStart,
     LoadDone,
     StoreStart, StoreDone, DivStart, DivDone, ShiftWait, ShiftDone, Plain, Endian, BadAlu, Call,
     Jump,
     DataFetch, DataAck, DivPending, DivAck, DivError, CallPending, CallReturn, CallError, Advance,
     fetch
<1>3. Prog!PgmIndex(ip_next) \in Word(PgmBits)
  BY IndexTyped DEF TypeOK
<1> QED BY <1>1, <1>2, <1>3 DEF FromProgram

\* The second word of a LDDW is fetched behind the first.
LEMMA KeepsStep ==
  ASSUME TypeOK, FetchInv, KeepsSecond, NEW in \in Inputs, Execute(in)
  PROVE  KeepsSecond'
<1>1. pgm' = pgm
  BY ExecuteShape, ProgramRead
<1>2. keep_op # 0 => opcode = EBPF_OP_LDDW /\ opclass(opcode) = OPC_LD
  BY DEF TypeOK, opcode, opclass, OPC_LD, EBPF_OP_LDDW
<1>3. /\ state_next = "DECODE" => pgm_dat_r = pgm[Prog!PgmIndex(ip_next)]
      /\ state_next = "OP_FETCH_DELAY" /\ ~halt =>
           pgm_dat_r = pgm[Prog!PgmIndex(ip)] /\ state_next_temp = "DECODE"
  BY DEF FetchInv, Fetching, PrefetchCoherent, Executing
<1> USE DEF KeepsSecond, second, Prog!PgmIndex, InState, Decode, DecodeAlu, Goto, Raise, faults,
     fetch, states, keeps
<1>4. CASE LddwLow(in)
  BY <1>1, <1>3, <1>4 DEF LddwLow, Advance
<1>5. CASE OpFetchDelay(in)
  BY <1>1, <1>3, <1>5 DEF OpFetchDelay
<1>6. CASE ~LddwLow(in) /\ ~OpFetchDelay(in)
  <2>1. CASE Halted(in) \/ Fault(in) \/ OpFetch(in) \/ LddwHigh(in) \/ Reserved(in) \/ Call(in) \/ Jump(in)
    BY <2>1 DEF Halted, Fault, OpFetch, LddwHigh, Reserved, Call, Jump
  <2>2. CASE LoadStart(in) \/ LoadDone(in) \/ StoreStart(in) \/ StoreDone(in) \/ DataFetch(in) \/ DataAck(in)
    BY <2>2 DEF LoadStart, LoadDone, StoreStart, StoreDone, DataFetch, DataAck
  <2>3. CASE DivStart(in) \/ DivDone(in) \/ ShiftWait(in) \/ ShiftDone(in) \/ Plain(in) \/ Endian(in) \/ BadAlu(in)
    BY <2>3 DEF DivStart, DivDone, ShiftWait, ShiftDone, Plain, Endian, BadAlu
  <2>4. CASE DivPending(in) \/ DivAck(in) \/ DivError(in) \/ CallPending(in) \/ CallReturn(in) \/ CallError(in)
    BY <2>4 DEF DivPending, DivAck, DivError, CallPending, CallReturn, CallError
  <2> QED BY <1>6, <2>1, <2>2, <2>3, <2>4 DEF Execute
<1> QED BY <1>4, <1>5, <1>6

\* No branch raises an error without halting.
LEMMA ErrorStep ==
  ASSUME error => halt, NEW in, Execute(in)
  PROVE  error' => halt'
BY DEF Execute, Halted, Fault, OpFetch, OpFetchDelay, LddwLow, LddwHigh, Reserved, LoadStart,
   LoadDone,
   StoreStart, StoreDone, DivStart, DivDone, ShiftWait, ShiftDone, Plain, Endian, BadAlu, Call,
   Jump,
   DataFetch, DataAck, DivPending, DivAck, DivError, CallPending, CallReturn, CallError, Raise,
   faults,
   InState, Decode, DecodeAlu, IsJump

-----------------------------------------------------------------------------
(* What the processor has asked of the components.                         *)

\* A word that is not the second of a LDDW stays the same while it is executed.
LEMMA SameInsn ==
  ASSUME keep_op = 0, keep_op' = 0, instruction' = instruction
  PROVE  /\ opcode' = opcode /\ src' = src /\ dst' = dst /\ immediate' = immediate /\ insn' = insn
         /\ BadFields' = BadFields
BY DEF opcode, src, dst, immediate, insn, BadFields

\* Only a LDDW is kept.
LEMMA NotKept ==
  ASSUME TypeOK, opclass(opcode) # OPC_LD
  PROVE  keep_op = 0
BY DEF TypeOK, opcode, opclass, OPC_LD, EBPF_OP_LDDW

\* The actions that leave the data port alone.
NoAccess(in) ==
  ~(LoadStart(in) \/ LoadDone(in) \/ StoreStart(in) \/ StoreDone(in) \/ DataFetch(in) \/ DataAck(in))

\* They are taken with no access prepared, and prepare none.
LEMMA NoAccessStep ==
  ASSUME AckInv, NEW in \in Inputs, Execute(in), NoAccess(in)
  PROVE  /\ data' = data /\ ~cpu_data_ack /\ ~cpu_data_ack'
         /\ ~halt => state_next # "DATA_FETCH"
         /\ state_next' # "DATA_FETCH" \/ halt'
<1>1. /\ cpu_data_ack => state_next = "DECODE" /\ MemClass /\ ~halt /\ ~BadFields
      /\ state_next = "DATA_FETCH" => ~BadFields
      /\ state_next_temp # "DATA_FETCH"
  BY DEF AckInv, DataOK, Accepted, ControlOK
<1> USE <1>1, Classes DEF MemClass, InState, Decode, DecodeAlu, Goto, Advance, Raise, acks, ports,
     states, faults
<1>2. CASE Halted(in) \/ Fault(in) \/ OpFetch(in) \/ OpFetchDelay(in)
  BY <1>2 DEF Halted, Fault, OpFetch, OpFetchDelay
<1>6. CASE LddwLow(in) \/ LddwHigh(in) \/ Reserved(in)
  BY <1>6 DEF LddwLow, LddwHigh, Reserved
<1>3. CASE DivStart(in) \/ DivDone(in) \/ ShiftWait(in) \/ ShiftDone(in) \/ Plain(in) \/ Endian(in) \/ BadAlu(in)
  BY <1>3 DEF DivStart, DivDone, ShiftWait, ShiftDone, Plain, Endian, BadAlu
<1>4. CASE DivPending(in) \/ DivAck(in) \/ DivError(in) \/ CallPending(in) \/ CallReturn(in) \/ CallError(in)
  BY <1>4 DEF DivPending, DivAck, DivError, CallPending, CallReturn, CallError
<1>5. CASE Call(in) \/ Jump(in)
  BY <1>5 DEF Call, Jump
<1> QED BY <1>2, <1>3, <1>4, <1>5, <1>6 DEF Execute, NoAccess

\* An address is kept, and with it the registers it came from, until the answer is used.
LEMMA DataRequestedStep ==
  ASSUME TypeOK, RequestInv, DataRequested, NEW in \in Inputs, Execute(in)
  PROVE  DataRequested'
<1>0. AckInv
  BY DEF RequestInv
<1>1. data \in [stb : BOOLEAN, adr : DataM!Addr, we : BOOLEAN, ww : 0 .. 15, dat_w : DataM!Word(DataM!W64)]
  BY DEF TypeOK, DataM!Ports
<1> USE DEF DataRequested, InState, Decode, Goto, Raise, acks, ports, states, faults, fetch
<1>2. CASE LoadStart(in)
  <2>1. keep_op = 0 /\ keep_op' = 0 /\ instruction' = instruction
    BY <1>2, NotKept, Classes DEF LoadStart
  <2>2. opcode' = opcode /\ src' = src /\ regs' = regs /\ data_adr(regs[src])' = data_adr(regs[src])
    BY <1>2, <2>1, SameInsn DEF LoadStart, data_adr
  <2> QED BY <1>1, <1>2, <2>2 DEF LoadStart
<1>3. CASE StoreStart(in)
  <2>1. keep_op = 0 /\ keep_op' = 0 /\ instruction' = instruction
    BY <1>3, NotKept, Classes DEF StoreStart
  <2>2. opcode' = opcode
    BY <2>1, SameInsn
  <2> QED BY <1>3, <2>2, Classes DEF StoreStart, StorePort, OPC_LDX, OPC_ST, OPC_STX
<1>4. CASE DataFetch(in) \/ DataAck(in)
  <2>1. MemClass /\ keep_op' = keep_op /\ instruction' = instruction /\ regs' = regs
    BY <1>0, <1>4 DEF DataFetch, DataAck, AckInv, DataOK, keeps
  <2>2. keep_op = 0
    BY <2>1, NotKept, Classes DEF MemClass
  <2>3. opcode' = opcode /\ src' = src /\ data_adr(regs[src])' = data_adr(regs[src])
    BY <2>1, <2>2, SameInsn DEF data_adr
  <2>4. CASE DataFetch(in)
    BY <1>1, <2>3, <2>4 DEF DataFetch
  <2>5. CASE DataAck(in)
    BY <1>1, <2>3, <2>5 DEF DataAck
  <2> QED BY <1>4, <2>4, <2>5
<1>5. CASE LoadDone(in) \/ StoreDone(in)
  BY <1>5 DEF LoadDone, StoreDone, Advance
<1>6. CASE NoAccess(in)
  <2>1. halt' \/ ~halt
    BY <1>6 DEF Execute, Halted, Fault, OpFetch, OpFetchDelay, LddwLow, LddwHigh, Reserved,
       DivStart, DivDone, ShiftWait,
       ShiftDone, Plain, Endian, BadAlu, Call, Jump, DivPending, DivAck, DivError, CallPending,
       CallReturn, CallError,
       NoAccess, DecodeAlu
  <2> QED BY <1>0, <1>6, <2>1, NoAccessStep
<1> QED BY <1>2, <1>3, <1>4, <1>5, <1>6 DEF NoAccess

\* The operands of a division stay those of the instruction until its result is used.
LEMMA DivRequestedStep ==
  ASSUME TypeOK, AckInv, Agreed, DivRequested, NEW in \in Inputs, Execute(in)
  PROVE  DivRequested'
<1>1. Div!ack /\ ~div64.stb => div' = div
  BY ExecuteShape, RunningEdge DEF Arith!Edge, Div!ack, Arith!ack
<1>2. /\ cpu_div64_ack => state_next = "DECODE" /\ IsDiv(opcode) /\ ~halt /\ ~BadFields
      /\ state_next = "DIV_PENDING" => ~BadFields /\ IsDiv(opcode)
      /\ state_next_temp # "DIV_PENDING"
      /\ div64.stb \in BOOLEAN
  BY DEF AckInv, DivOK, Accepted, ControlOK, TypeOK
<1>3. /\ div64.stb => state_next = "DIV_PENDING" /\ ~halt
      /\ (state_next = "DIV_PENDING" /\ ~halt) \/ cpu_div64_ack =>
            div64.dividend = DivAsked.dividend /\ div64.divisor = DivAsked.divisor
      /\ cpu_div64_ack => Div!ack /\ ~div.err
  BY DEF DivRequested
<1> USE DEF InState, Decode, DecodeAlu, Goto, Advance, Raise, acks, ports, states, faults, keeps,
     fetch
<1>4. CASE DivStart(in) \/ DivPending(in) \/ DivAck(in)
  <2>1. IsDiv(opcode) /\ instruction' = instruction /\ regs' = regs /\ (keep_op' = 0 \/ keep_op' = keep_op)
    BY <1>2, <1>4 DEF DivStart, DivPending, DivAck
  <2>2. keep_op = 0
    BY <2>1, NotKept, Classes
  <2>3. DivAsked' = DivAsked /\ Is32' = Is32
    BY <2>1, <2>2, SameInsn DEF DivAsked, Is32
  <2>4. CASE DivStart(in)
    <3>1. div64' = DivAsked /\ state_next' = "DIV_PENDING" /\ ~cpu_div64_ack' /\ ~halt'
      BY <2>4 DEF DivStart, DivAsked
    <3> QED BY <2>3, <3>1 DEF DivRequested
  <2>5. CASE DivPending(in)
    <3>1. /\ state_next = "DIV_PENDING" /\ state_next' = "DIV_PENDING" /\ ~cpu_div64_ack' /\ ~halt' /\ ~halt
          /\ div64' = [div64 EXCEPT !.stb = FALSE]
      BY <1>2, <2>5 DEF DivPending
    <3>2. ~div64'.stb /\ div64'.dividend = div64.dividend /\ div64'.divisor = div64.divisor
      BY <3>1 DEF TypeOK
    <3> QED BY <1>3, <2>3, <3>1, <3>2 DEF DivRequested
  <2>6. CASE DivAck(in)
    <3>1. /\ state_next = "DIV_PENDING" /\ ~halt /\ div64' = div64 /\ Div!ack /\ ~div.err /\ ~div64.stb
      BY <2>6 DEF DivAck
    <3>2. div' = div /\ Div!ack'
      BY <1>1, <3>1 DEF Div!ack
    <3> QED BY <1>3, <2>3, <3>1, <3>2 DEF DivRequested
  <2> QED BY <1>4, <2>4, <2>5, <2>6
<1>5. CASE ~(DivStart(in) \/ DivPending(in) \/ DivAck(in))
  <2>1. ~cpu_div64_ack' /\ (state_next' # "DIV_PENDING" \/ halt') /\ ~div64'.stb
    <3> USE <1>2, <1>3, Classes DEF OPC_JMP, OPC_LDX, OPC_ST, OPC_STX, OPC_LD, OPC_RES, OPC_ALU,
         OPC_ALU64
    <3>1. CASE Halted(in) \/ Fault(in) \/ OpFetch(in) \/ OpFetchDelay(in)
      BY <3>1 DEF Halted, Fault, OpFetch, OpFetchDelay
    <3>2. CASE LddwLow(in) \/ LddwHigh(in) \/ Reserved(in)
      BY <3>2 DEF LddwLow, LddwHigh, Reserved
    <3>3. CASE LoadStart(in) \/ LoadDone(in) \/ StoreStart(in) \/ StoreDone(in)
      BY <3>3 DEF LoadStart, LoadDone, StoreStart, StoreDone
    <3>4. CASE DivDone(in) \/ ShiftWait(in) \/ ShiftDone(in) \/ Plain(in) \/ Endian(in) \/ BadAlu(in)
      BY <3>4 DEF DivDone, ShiftWait, ShiftDone, Plain, Endian, BadAlu
    <3>5. CASE Call(in) \/ Jump(in) \/ DataFetch(in) \/ DataAck(in)
      BY <3>5 DEF Call, Jump, DataFetch, DataAck
    <3>6. CASE DivError(in) \/ CallPending(in) \/ CallReturn(in) \/ CallError(in)
      BY <3>6 DEF DivError, CallPending, CallReturn, CallError
    <3> QED BY <1>5, <3>1, <3>2, <3>3, <3>4, <3>5, <3>6 DEF Execute
  <2> QED BY <2>1 DEF DivRequested
<1> QED BY <1>4, <1>5

\* And so do those of a shift.
LEMMA ShiftRequestedStep ==
  ASSUME TypeOK, AckInv, ShiftRequested, NEW in \in Inputs, Execute(in)
  PROVE  ShiftRequested'
<1>1. CASE ShiftWait(in)
  <2>1. opclass(opcode) # OPC_LD /\ keep_op' = 0 /\ instruction' = instruction /\ regs' = regs /\ arsh64' = ShiftAsked
    BY <1>1, Classes DEF ShiftWait, ShiftAsked, DecodeAlu, Decode, fetch
  <2>2. ShiftAsked' = ShiftAsked
    BY <2>1, NotKept, SameInsn DEF ShiftAsked, Is32
  <2> QED BY <2>1, <2>2 DEF ShiftRequested
<1>2. CASE ~ShiftWait(in)
  <2>1. arsh64.stb => state_next = "DECODE" /\ IsShift(opcode) /\ ~halt /\ ~BadFields
    BY DEF AckInv, ShiftOK, Accepted
  <2>2. ~arsh64'.stb
    <3> USE <2>1, Classes DEF OPC_JMP, InState, Decode, DecodeAlu, ports, OPC_LDX, OPC_ST, OPC_STX,
         OPC_LD, OPC_RES, OPC_ALU, OPC_ALU64
    <3>1. CASE Halted(in) \/ Fault(in) \/ OpFetch(in) \/ OpFetchDelay(in)
      BY <3>1 DEF Halted, Fault, OpFetch, OpFetchDelay
    <3>2. CASE LddwLow(in) \/ LddwHigh(in) \/ Reserved(in)
      BY <3>2 DEF LddwLow, LddwHigh, Reserved
    <3>3. CASE LoadStart(in) \/ LoadDone(in) \/ StoreStart(in) \/ StoreDone(in)
      BY <3>3 DEF LoadStart, LoadDone, StoreStart, StoreDone
    <3>4. CASE DivStart(in) \/ DivDone(in) \/ ShiftDone(in) \/ Plain(in) \/ Endian(in) \/ BadAlu(in)
      BY <3>4 DEF DivStart, DivDone, ShiftDone, Plain, Endian, BadAlu
    <3>5. CASE Call(in) \/ Jump(in) \/ DataFetch(in) \/ DataAck(in)
      BY <3>5 DEF Call, Jump, DataFetch, DataAck
    <3>6. CASE DivPending(in) \/ DivAck(in) \/ DivError(in) \/ CallPending(in) \/ CallReturn(in) \/ CallError(in)
      BY <3>6 DEF DivPending, DivAck, DivError, CallPending, CallReturn, CallError
    <3> QED BY <1>2, <3>1, <3>2, <3>3, <3>4, <3>5, <3>6 DEF Execute
  <2> QED BY <2>2 DEF ShiftRequested
<1> QED BY <1>1, <1>2

\* A call that is answered without error is to a function the handler knows.
LEMMA CallRequestedStep ==
  ASSUME TypeOK, RequestInv, Agreed, CallRequested, NEW in \in Inputs, Execute(in)
  PROVE  CallRequested'
<1>1. in.reset_n_int /\ Parts(in) /\ Shaped /\ CallAsked
  BY ExecuteShape DEF RequestInv
<1>2. /\ ch.ack' => call_handler.stb
      /\ ch.err' => call_handler.stb /\ call_handler.func \notin KnownFuncs
  BY <1>1, HandlerEdge
<1>3. ASSUME call_handler.stb, call_handler.func \notin KnownFuncs, HasCallHandler
      PROVE  ch'.err /\ ch'.ack
  <2>1. ch' \in Helper!Serve(call_handler)
    BY <1>1, <1>3, RunningEdge DEF Helper!Edge
  <2>2. ch' = Helper!Unknown
    BY <1>3, <2>1 DEF Helper!Serve, KnownFuncs
  <2>3. {"ack", "err"} \subseteq DOMAIN ch
    BY <1>1 DEF Shaped
  <2> QED BY <2>2, <2>3 DEF Helper!Unknown
<1>4. ~HasCallHandler => ~ch'.ack /\ ~ch'.err
  BY <1>1 DEF Parts, CallAsked
<1>5. state_next_temp # "CALL_PENDING"
  BY DEF TypeOK
<1> USE DEF InState, Decode, DecodeAlu, Goto, Advance, Raise, states, faults, keeps, fetch, ports
<1>6. CASE Call(in)
  <2>1. ~call_handler.stb
    BY <1>1, <1>6 DEF Call, CallAsked
  <2>2. keep_op = 0 /\ keep_op' = 0 /\ instruction' = instruction
    BY <1>6, NotKept DEF Call, OPC_JMP, OPC_LD
  <2>3. opcode' = opcode /\ immediate' = immediate /\ BadFields' = BadFields
    BY <2>2, SameInsn
  <2>4. call_handler'.stb /\ call_handler'.func = immediate
    BY <1>6 DEF Call
  <2> QED BY <1>2, <1>6, <2>1, <2>3, <2>4 DEF Call, CallRequested
<1>7. CASE CallPending(in)
  <2>1. /\ opcode = EBPF_OP_CALL /\ ~BadFields /\ call_handler.stb /\ call_handler.func = immediate
        /\ keep_op' = keep_op /\ instruction' = instruction /\ call_handler' = call_handler
    BY <1>7 DEF CallPending, CallRequested
  <2>2. keep_op = 0
    BY <2>1, NotKept DEF opclass, EBPF_OP_CALL, OPC_LD
  <2>3. opcode' = opcode /\ immediate' = immediate /\ BadFields' = BadFields
    BY <2>1, <2>2, SameInsn
  <2>4. (ch'.err => ch'.ack) /\ (ch'.ack /\ ~ch'.err => call_handler.func \in KnownFuncs)
    BY <1>2, <1>3, <1>4, <2>1
  <2> QED BY <2>1, <2>3, <2>4 DEF CallRequested
<1>8. CASE ~Call(in) /\ ~CallPending(in)
  <2>1. state_next' # "CALL_PENDING" \/ halt'
    <3> USE <1>5
    <3>1. CASE Halted(in) \/ Fault(in) \/ OpFetch(in) \/ OpFetchDelay(in)
      BY <3>1 DEF Halted, Fault, OpFetch, OpFetchDelay
    <3>2. CASE LddwLow(in) \/ LddwHigh(in) \/ Reserved(in) \/ Jump(in)
      BY <3>2 DEF LddwLow, LddwHigh, Reserved, Jump
    <3>3. CASE LoadStart(in) \/ LoadDone(in) \/ StoreStart(in) \/ StoreDone(in)  \/ DataFetch(in) \/ DataAck(in)
      BY <3>3 DEF LoadStart, LoadDone, StoreStart, StoreDone, DataFetch, DataAck
    <3>4. CASE DivStart(in) \/ DivDone(in) \/ ShiftWait(in) \/ ShiftDone(in) \/ Plain(in) \/ Endian(in) \/ BadAlu(in)
      BY <3>4 DEF DivStart, DivDone, ShiftWait, ShiftDone, Plain, Endian, BadAlu
    <3>5. CASE DivPending(in) \/ DivAck(in) \/ DivError(in) \/ CallReturn(in) \/ CallError(in)
      BY <3>5 DEF DivPending, DivAck, DivError, CallReturn, CallError
    <3> QED BY <1>8, <3>1, <3>2, <3>3, <3>4, <3>5 DEF Execute
  <2> QED BY <2>1 DEF CallRequested
<1> QED BY <1>6, <1>7, <1>8

-----------------------------------------------------------------------------
(* The components' own invariants.                                         *)

\* Either a division is under way, or the divider's registers are all that matters.
LEMMA DivInvStep ==
  ASSUME TypeOK, TypeOK', AckInv, Agreed, DivRequested, DivRequested', Arith!IInv, NEW in \in Inputs, Execute(in)
  PROVE  Arith!IInv'
<1>1. Arith!Edge(TRUE, div64.stb, div64.dividend, div64.divisor)
  BY ExecuteShape, RunningEdge
<1>2. Arith!Data = Word(W64) /\ Arith!Registers = Div!Registers
  BY DEF Arith!Data, Word, Arith!Registers, Div!Registers, Div!Data
<1>3. div' \in Arith!Registers /\ div64.stb \in BOOLEAN /\ div64.dividend \in Arith!Data /\ div64.divisor \in Arith!Data
  BY <1>2 DEF TypeOK
<1>4. CASE Dividing' = Nothing
  BY <1>3, <1>4 DEF Arith!IInv, Arith!TypeOK, Arith!Progress, Arith!ZeroProgress
<1>5. CASE Dividing' # Nothing
  <2>1. ~div64'.stb /\ (state_next' = "DIV_PENDING" \/ cpu_div64_ack') /\ Dividing' = <<div64'.dividend, div64'.divisor>>
    BY <1>5 DEF Dividing
  <2>2. /\ cpu_div64_ack => state_next = "DECODE" /\ IsDiv(opcode) /\ ~halt /\ ~BadFields
        /\ state_next = "DIV_PENDING" => ~BadFields
        /\ div64.stb => state_next = "DIV_PENDING" /\ ~halt
        /\ state_next_temp # "DIV_PENDING"
    BY DEF AckInv, DivOK, Accepted, ControlOK, DivRequested
  <2>3. \/ DivPending(in)
        \/ (DivAck(in) \/ DivError(in))
    <3> USE <2>1, <2>2, Classes DEF OPC_JMP, OPC_LDX, OPC_ST, OPC_STX, OPC_LD, OPC_RES, OPC_ALU,
         OPC_ALU64,
          InState, Decode, DecodeAlu, Goto, Advance, Raise, acks, ports, states, faults
    <3>1. ~(Halted(in) \/ Fault(in) \/ OpFetch(in) \/ OpFetchDelay(in))
      BY DEF Halted, Fault, OpFetch, OpFetchDelay
    <3>2. ~(LddwLow(in) \/ LddwHigh(in) \/ Reserved(in) \/ Jump(in))
      BY DEF LddwLow, LddwHigh, Reserved, Jump
    <3>3. ~(LoadStart(in) \/ LoadDone(in) \/ StoreStart(in) \/ StoreDone(in)  \/ DataFetch(in) \/ DataAck(in))
      BY DEF LoadStart, LoadDone, StoreStart, StoreDone, DataFetch, DataAck
    <3>4. ~DivStart(in)
      BY DEF DivStart, DivRequest32, DivRequest64
    <3>5. ~(DivDone(in) \/ ShiftWait(in) \/ ShiftDone(in) \/ Plain(in) \/ Endian(in) \/ BadAlu(in))
      BY DEF DivDone, ShiftWait, ShiftDone, Plain, Endian, BadAlu
    <3>6. ~(Call(in) \/ CallPending(in) \/ CallReturn(in) \/ CallError(in))
      BY DEF Call, CallPending, CallReturn, CallError
    <3> QED BY <3>1, <3>2, <3>3, <3>4, <3>5, <3>6 DEF Execute
  <2>4. state_next = "DIV_PENDING" /\ div64'.dividend = div64.dividend /\ div64'.divisor = div64.divisor
    BY <2>3 DEF DivPending, DivAck, DivError, InState, ports, TypeOK
  <2>5. CASE div64.stb
    <3>1. Arith!Request(div64.dividend, div64.divisor)
      <4>1. div64.stb = TRUE
        BY <1>3, <2>5
      <4> QED BY <1>1, <2>1, <2>4, <4>1 DEF Arith!Request
    <3> QED BY <1>3, <3>1, DividerWidth, Widthwise, ArithWords, Arith!RequestIInv
               DEF Arith!RequestIInv
  <2>6. CASE ~div64.stb
    <3>1. Dividing' = Dividing
      BY <2>1, <2>4, <2>6 DEF Dividing
    <3>2. Arith!Edge(TRUE, FALSE, 0, 0)
      BY <1>1, <2>6 DEF Arith!Edge
    <3>3. Arith!Wait
      BY <3>1, <3>2 DEF Arith!Wait
    <3> QED BY <3>3, DividerWidth, Widthwise, ArithWords, Arith!WaitIInv DEF Arith!WaitIInv
  <2> QED BY <2>5, <2>6
<1> QED BY <1>4, <1>5

\* A request that is held is the same one at every edge.
LEMMA ShiftInvStep ==
  ASSUME TypeOK, TypeOK', AckInv, Agreed, ShiftRequested, ShiftRequested', ShiftQ!ShiftInv, NEW in \in Inputs, Execute(in)
  PROVE  ShiftQ!ShiftInv'
<1>1. ShiftQ!Edge(FALSE, arsh64)
  BY ExecuteShape, RunningEdge
<1>2. /\ sh \in ShiftQ!Registers /\ sh' \in ShiftQ!Registers
      /\ arsh64 \in [stb : BOOLEAN, arith : BOOLEAN, left : BOOLEAN, value : Word(W64), shift : Word(W64)]
      /\ arsh64' \in [stb : BOOLEAN, arith : BOOLEAN, left : BOOLEAN, value : Word(W64), shift : Word(W64)]
  BY ShiftQWidths DEF TypeOK
<1>3. ShiftQ!TypeOK'
  <2>1. Shifting' \in ShiftQ!Inputs /\ NoShifting \in ShiftQ!Inputs /\ NoShifting' = NoShifting
    BY <1>2, ShiftQWidths, AnyWidths, ShiftQAssumed, ShiftQ!Driving DEF Shifting, NoShifting,
       ShiftQ!Inputs, ShiftQ!Driving, ShiftQ!NoShift
  <2> QED BY <1>2, <2>1, ShiftQWidths DEF ShiftQ!TypeOK
<1>4. /\ sh.ack => sh.state
      /\ sh.state => arsh64.stb
  BY DEF ShiftQ!ShiftInv, ShiftQ!Latched
<1>5. ASSUME ~sh'.ack, ~sh'.state PROVE ShiftQ!ShiftInv'
  BY <1>3, <1>5 DEF ShiftQ!ShiftInv, ShiftQ!Latched, ShiftQ!ResultCorrect
<1>6. CASE ~arsh64.stb
  BY <1>1, <1>4, <1>5, <1>6 DEF ShiftQ!Edge
<1>7. CASE sh.ack
  <2>1. sh' = ShiftQ!Finish
    BY <1>1, <1>7 DEF ShiftQ!Edge
  <2> QED BY <1>5, <2>1 DEF ShiftQ!Finish
<1>8. CASE arsh64.stb /\ ~sh.ack
  <2>1. arsh64.stb => state_next = "DECODE" /\ IsShift(opcode) /\ ~halt /\ ~BadFields
    BY DEF AckInv, ShiftOK, Accepted
  <2>2. ShiftWait(in)
    <3> USE <1>8, <2>1, Classes DEF OPC_JMP, InState, Decode, DecodeAlu, OPC_LDX, OPC_ST, OPC_STX,
         OPC_LD, OPC_RES, OPC_ALU, OPC_ALU64
    <3>1. ~(Halted(in) \/ Fault(in) \/ OpFetch(in) \/ OpFetchDelay(in))
      BY DEF Halted, Fault, OpFetch, OpFetchDelay
    <3>2. ~(LddwLow(in) \/ LddwHigh(in) \/ Reserved(in))
      BY DEF LddwLow, LddwHigh, Reserved
    <3>3. ~(LoadStart(in) \/ LoadDone(in) \/ StoreStart(in) \/ StoreDone(in))
      BY DEF LoadStart, LoadDone, StoreStart, StoreDone
    <3>4. ~(DivStart(in) \/ DivDone(in) \/ ShiftDone(in) \/ Plain(in) \/ Endian(in) \/ BadAlu(in))
      BY DEF DivStart, DivDone, ShiftDone, Plain, Endian, BadAlu
    <3>5. ~(Call(in) \/ Jump(in) \/ DataFetch(in) \/ DataAck(in))
      BY DEF Call, Jump, DataFetch, DataAck
    <3>6. ~(DivPending(in) \/ DivAck(in) \/ DivError(in) \/ CallPending(in) \/ CallReturn(in) \/ CallError(in))
      BY DEF DivPending, DivAck, DivError, CallPending, CallReturn, CallError
    <3> QED BY <3>1, <3>2, <3>3, <3>4, <3>5, <3>6 DEF Execute
  <2>3. arsh64' = arsh64
    BY <1>8, <2>2 DEF ShiftWait, ShiftRequested, ShiftAsked
  <2>4. Shifting' = Shifting /\ ShiftQ!PortInputs = Shifting
    BY <2>3 DEF Shifting, ShiftQ!PortInputs
  <2>5. CASE ~sh.state
    <3>1. sh' = ShiftQ!Start(arsh64)
      BY <1>1, <1>8, <2>5 DEF ShiftQ!Edge
    <3>2. sh'.state
      BY <3>1 DEF ShiftQ!Start
    <3>3. ShiftQ!Hold
      BY <1>1, <1>8, <2>3, <2>4, <2>5, <3>2 DEF ShiftQ!Hold, ShiftQ!Track
    <3> QED BY <2>5, <3>3, ShiftQAssumed, ShiftQ!Started DEF ShiftQ!Started
  <2>6. CASE sh.state
    <3>1. sh' = ShiftQ!Present(arsh64)
      BY <1>1, <1>8, <2>6 DEF ShiftQ!Edge
    <3>2. sh'.state
      BY <2>6, <3>1 DEF ShiftQ!Present
    <3>3. ShiftQ!Hold
      BY <1>1, <1>8, <2>3, <2>4, <2>6, <3>2 DEF ShiftQ!Hold, ShiftQ!Track
    <3> QED BY <2>6, <3>3, ShiftQAssumed, ShiftQ!Shown DEF ShiftQ!Shown
  <2> QED BY <2>5, <2>6
<1> QED BY <1>2, <1>6, <1>7, <1>8

-----------------------------------------------------------------------------
(* The memory the interpreter sees.                                        *)

\* Stores mean the same to the processor, to DataPort and to the interpreter.
LEMMA WriteSame ==
  \A m, a, n, x : /\ DataM!WriteAt(m, a, n, x) = DataQ!WriteAt(m, a, n, x)
                  /\ DataM!WriteAt(m, a, n, x) = Ref!Bus!WriteAt(m, a, n, x)
BY DEF DataM!WriteAt, DataQ!WriteAt, Ref!Bus!WriteAt, DataM!Addr, DataQ!Addr, Ref!Bus!Addr,
   DataM!Word, DataQ!Word, Ref!Bus!Word,
   DataM!Byte, DataQ!Byte, Ref!Bus!Byte

\* The widths of an access.
LEMMA BytesOf == \A op : IsMem(op) => Bytes(op) \in {1, 2, 4, 8}
BY DEF IsMem, Bytes

\* The memory as the interpreter sees it changes when a store is decoded, and then only.
LEMMA AbsMemStep ==
  ASSUME TypeOK, RequestInv, Agreed, DataRequested, DataQ!DataInv, NEW in \in Inputs, Execute(in)
  PROVE  /\ ~(StoreStart(in) /\ IsMem(opcode)) => absMem' = absMem
         /\ DataPhase # "fetch" => ~data.stb /\ mem' = mem /\ absMem = mem
         /\ StoreStart(in) /\ IsMem(opcode) =>
              absMem' = DataM!WriteAt(absMem, data_adr(regs[dst]), Bytes(opcode), Low(Stored, Bytes(opcode) * ByteBits))
<1>1. DataQ!Edge(FALSE, data) /\ (data_ack(in) <=> dm.ack)
  BY ExecuteShape, RunningEdge
<1>2. AckInv /\ data \in DataM!Ports
  BY DEF RequestInv, TypeOK
<1>p. data \in [stb : BOOLEAN, adr : DataM!Addr, we : BOOLEAN, ww : 0 .. 15, dat_w : DataM!Word(DataM!W64)]
  BY <1>2 DEF DataM!Ports
<1>3. DataPhase # "fetch" => ~data.stb /\ mem' = mem /\ absMem = mem
  <2>1. ~data.stb => mem' = mem
    BY <1>1, DataQAssumed, DataQ!Rested DEF DataQ!Rested
  <2> QED BY <2>1 DEF DataPhase, absMem, DataQ!DataInv, DataQ!AtRest
<1>5. CASE NoAccess(in)
  <2>1. DataPhase # "fetch" /\ absMem' = mem'
    BY <1>2, <1>5, NoAccessStep DEF DataPhase, absMem
  <2> QED BY <1>3, <1>5, <2>1 DEF NoAccess
<1>6. CASE LoadDone(in) \/ StoreDone(in)
  <2>1. DataPhase # "fetch" /\ absMem' = mem' /\ ~StoreStart(in)
    BY <1>6 DEF LoadDone, StoreDone, StoreStart, Decode, InState, Advance, DataPhase, absMem
  <2> QED BY <1>3, <2>1
<1>7. CASE StoreStart(in) /\ ~IsMem(opcode)
  <2>1. DataPhase # "fetch" /\ absMem' = mem'
    BY <1>7 DEF StoreStart, Decode, InState, Raise, DataPhase, absMem
  <2> QED BY <1>3, <1>7, <2>1
<1>8. CASE LoadStart(in)
  <2>1. /\ DataPhase # "fetch" /\ state_next' = "DATA_FETCH" /\ ~halt /\ state_next = "DECODE"
        /\ data' = [data EXCEPT !.adr = data_adr(regs[src])] /\ ~StoreStart(in)
    BY <1>8 DEF LoadStart, StoreStart, Decode, InState, DataPhase, Goto, OPC_LDX, OPC_ST, OPC_STX
  <2>2. ~data'.we
    BY <1>p, <1>3, <2>1 DEF DataRequested
  <2>3. absMem' = absMem
    BY <1>3, <2>1, <2>2 DEF absMem
  <2> QED BY <1>3, <2>1, <2>3
<1>9. CASE StoreStart(in) /\ IsMem(opcode)
  <2>1. DataPhase # "fetch" /\ state_next' = "DATA_FETCH" /\ ~halt' /\ data' = StorePort
    BY <1>9 DEF StoreStart, Decode, InState, DataPhase, Goto, faults
  <2>2. /\ data'.we /\ data'.adr = data_adr(regs[dst]) /\ data'.ww = Bytes(opcode)
        /\ data'.dat_w = Low(Stored, Bytes(opcode) * ByteBits)
    BY <1>9, <2>1 DEF StorePort
  <2>3. absMem' = DataM!WriteAt(mem', data'.adr, data'.ww, data'.dat_w)
    BY <2>1, <2>2 DEF absMem
  <2> QED BY <1>3, <1>9, <2>1, <2>2, <2>3
<1>10. CASE DataFetch(in)
  <2>1. /\ DataPhase = "fetch" /\ ~dm.ack /\ data' = [data EXCEPT !.stb = TRUE] /\ DataPhase' = "fetch"
        /\ state_next = "DATA_FETCH" /\ ~StoreStart(in) /\ ~halt /\ state_next' = "DATA_FETCH" /\ ~halt'
    BY <1>1, <1>10 DEF DataFetch, StoreStart, Decode, InState, states, faults, DataPhase
  <2>2. data'.adr = data.adr /\ data'.we = data.we /\ data'.ww = data.ww /\ data'.dat_w = data.dat_w
    BY <1>p, <2>1
  <2>3. absMem' = absMem
    <3>1. CASE ~data.stb
      <4>1. mem' = mem
        BY <1>1, <3>1, DataQAssumed, DataQ!Rested DEF DataQ!Rested
      <4> QED BY <2>1, <2>2, <4>1 DEF absMem, DataM!WriteAt
    <3>2. CASE ~data.we
      <4>1. mem' = mem
        BY <1>1, <3>2 DEF DataQ!Edge, DataQ!MemWrite, DataQ!DataInv, DataQ!AtRest
      <4> QED BY <2>1, <2>2, <3>2, <4>1 DEF absMem
    <3>3. CASE data.stb /\ data.we
      <4>1. DataQ!WriteAt(mem', data.adr, data.ww, data.dat_w) = DataQ!WriteAt(mem, data.adr, data.ww, data.dat_w)
        BY <1>1, <2>1, <3>3, DataQAssumed, DataQ!TakeByte DEF DataQ!TakeByte
      <4>2. absMem' = DataM!WriteAt(mem', data.adr, data.ww, data.dat_w)
        BY <2>1, <2>2, <3>3 DEF absMem
      <4>3. absMem = DataM!WriteAt(mem, data.adr, data.ww, data.dat_w)
        BY <2>1, <3>3 DEF absMem
      <4> QED BY <4>1, <4>2, <4>3, WriteSame
    <3> QED BY <3>1, <3>2, <3>3
  <2> QED BY <1>3, <2>1, <2>3
<1>11. CASE DataAck(in)
  <2>1. DataPhase = "fetch" /\ dm.ack /\ state_next' = "DECODE" /\ ~StoreStart(in)
    BY <1>1, <1>11 DEF DataAck, StoreStart, Decode, InState, Goto, DataPhase
  <2>2. absMem' = absMem
    <3>1. absMem' = mem'
      BY <2>1 DEF absMem
    <3>2. CASE data.we
      <4>1. mem' = absMem
        BY <1>1, <2>1, <3>2, DataQAssumed, DataQ!Landed DEF DataQ!Landed
      <4> QED BY <3>1, <4>1
    <3>3. CASE ~data.we
      BY <1>1, <3>1, <3>3 DEF DataQ!Edge, DataQ!MemWrite, DataQ!DataInv, DataQ!AtRest, absMem
    <3> QED BY <3>2, <3>3
  <2> QED BY <1>3, <2>1, <2>2
<1> QED BY <1>5, <1>6, <1>7, <1>8, <1>9, <1>10, <1>11 DEF NoAccess

\* The data memory's invariant holds with the processor's requests.
LEMMA DataInvStep ==
  ASSUME TypeOK, TypeOK', RequestInv, Agreed, DataRequested, DataRequested', DataQ!DataInv, NEW in \in Inputs, Execute(in)
  PROVE  DataQ!DataInv'
<1>1. DataQ!Edge(FALSE, data) /\ (data_ack(in) <=> dm.ack)
  BY ExecuteShape, RunningEdge
<1>2. AckInv /\ data \in DataM!Ports /\ data' \in DataM!Ports
  BY DEF RequestInv, TypeOK
<1>p. data \in [stb : BOOLEAN, adr : DataM!Addr, we : BOOLEAN, ww : 0 .. 15, dat_w : DataM!Word(DataM!W64)]
  BY <1>2 DEF DataM!Ports
<1>3. DataPhase # "fetch" => ~data.stb
  BY AbsMemStep
<1>4. CASE NoAccess(in) \/ LoadDone(in) \/ StoreDone(in) \/ (StoreStart(in) /\ ~IsMem(opcode))
  <2>1. CASE NoAccess(in)
    BY <1>1, <1>2, <1>3, <2>1, NoAccessStep, AbsMemStep, QStay DEF DataPhase, NoAccess
  <2>2. CASE LoadDone(in) \/ StoreDone(in) \/ (StoreStart(in) /\ ~IsMem(opcode))
    <3>1. data'.stb = data.stb /\ DataPhase # "fetch" /\ DataPhase' = "idle" /\ ~(StoreStart(in) /\ IsMem(opcode))
      BY <2>2 DEF LoadDone, StoreDone, StoreStart, StorePort, Decode, InState, Advance, Raise,
         ports, DataPhase
    <3>2. ~data'.stb /\ absMem' = absMem
      BY <1>3, <3>1, AbsMemStep
    <3> QED BY <1>1, <1>2, <1>3, <3>1, <3>2, QStay
  <2> QED BY <1>4, <2>1, <2>2
<1>5. CASE LoadStart(in)
  <2>1. /\ DataPhase = "idle" /\ state_next' = "DATA_FETCH" /\ ~halt' /\ ~halt /\ state_next = "DECODE"
        /\ data' = [data EXCEPT !.adr = data_adr(regs[src])] /\ ~StoreStart(in)
    BY <1>5 DEF LoadStart, StoreStart, Decode, InState, DataPhase, Goto, faults, OPC_LDX, OPC_ST,
       OPC_STX
  <2>2. ~data'.we /\ ~data'.stb /\ DataPhase' = "fetch" /\ absMem' = absMem
    BY <1>p, <1>3, <2>1, AbsMemStep DEF DataRequested, DataPhase
  <2>3. data' \in AnyAccess /\ DataQ!Prepare(data')
    BY <1>1, <1>2, <2>1, <2>2 DEF AnyAccess, DataQ!Prepare
  <2> QED BY <2>3, QPrepare
<1>6. CASE StoreStart(in) /\ IsMem(opcode)
  <2>1. DataPhase = "idle" /\ state_next' = "DATA_FETCH" /\ ~halt' /\ data' = StorePort
    BY <1>6 DEF StoreStart, Decode, InState, DataPhase, Goto, faults
  <2>2. /\ data'.we /\ ~data'.stb /\ data'.ww \in {1, 2, 4, 8} /\ DataPhase' = "fetch"
        /\ data'.adr = data_adr(regs[dst]) /\ data'.ww = Bytes(opcode)
        /\ data'.dat_w = Low(Stored, Bytes(opcode) * ByteBits)
    BY <1>3, <1>6, <2>1, BytesOf DEF StorePort, DataPhase
  <2>3. absMem' = DataQ!WriteAt(absMem, data'.adr, data'.ww, data'.dat_w)
    BY <1>6, <2>2, AbsMemStep, WriteSame
  <2>4. data' \in AnyAccess /\ DataQ!Prepare(data')
    BY <1>1, <1>2, <2>1, <2>2, <2>3 DEF AnyAccess, DataQ!Prepare
  <2> QED BY <2>4, QPrepare
<1>7. CASE DataFetch(in)
  <2>1. /\ DataPhase = "fetch" /\ ~dm.ack /\ data' = [data EXCEPT !.stb = TRUE] /\ DataPhase' = "fetch" /\ ~StoreStart(in)
    BY <1>1, <1>7 DEF DataFetch, StoreStart, Decode, InState, states, faults, DataPhase
  <2>2. DataQ!Fetch
    BY <1>1, <2>1, AbsMemStep DEF DataQ!Fetch
  <2> QED BY <2>2, QFetch
<1>8. CASE DataAck(in)
  <2>1. /\ DataPhase = "fetch" /\ dm.ack /\ ~data'.stb /\ ~data'.we /\ data'.adr = data.adr /\ ~StoreStart(in)
        /\ state_next = "DATA_FETCH" /\ ~halt /\ state_next' = "DECODE" /\ ~halt' /\ cpu_data_ack'
    BY <1>1, <1>8 DEF DataAck, StoreStart, Decode, InState, Goto, faults, DataPhase
  <2>2. opcode' = opcode
    <3>1. MemClass
      BY <1>2, <2>1 DEF AckInv, DataOK
    <3> QED BY <1>8, <3>1, NotKept, SameInsn, Classes DEF DataAck, MemClass, fetch, keeps
  <2>3. DataPhase' = IF data.we THEN "stored" ELSE "loaded"
    BY <2>1, <2>2 DEF DataPhase, DataRequested
  <2> QED BY <1>1, <1>2, <2>1, <2>3, AbsMemStep, QAcked
<1> QED BY <1>4, <1>5, <1>6, <1>7, <1>8 DEF NoAccess

-----------------------------------------------------------------------------
(* The invariant of a running processor.                                   *)

\* What was asked belongs to the instruction being executed, and the components are at
\* work on it.
Requested == DataRequested /\ DivRequested /\ ShiftRequested /\ CallRequested
Served == DataQ!DataInv /\ ShiftQ!ShiftInv /\ Arith!IInv
\* The inductive invariant: with it every edge is a step of the interpreter.
RunInv ==
  /\ Agreed
  /\ TypeOK /\ FetchInv /\ RequestInv
  /\ FromProgram /\ KeepsSecond /\ Stopped
  /\ Requested /\ Served

\* Nothing asked, nothing under way.
Fresh ==
  /\ state_next = "OP_FETCH" /\ ~halt /\ ~error /\ keep_op = 0
  /\ ~cpu_data_ack /\ ~cpu_div64_ack
  /\ data = NoData /\ arsh64 = NoShift /\ div64 = NoDiv /\ call_handler = NoCall

\* Nothing asked is nothing asked wrongly.
LEMMA FreshRequests == Fresh => Requested
BY DEF Fresh, Requested, DataRequested, DivRequested, ShiftRequested, CallRequested, NoData,
   NoShift, NoDiv

\* Components just reset have nothing to answer.
LEMMA FreshParts ==
  ASSUME TypeOK, Fresh, ~dm.ack, ~dm.we1, sh = Shift!ResetRegs, div = Div!ResetRegs
  PROVE  Served
<1>1. DataQ!DataInv
  <2>1. DataPhase = "idle" /\ absMem = mem /\ ~data.stb
    BY DEF DataPhase, absMem, Fresh, NoData
  <2>2. DataQ!TypeOK
    BY <2>1, DataQWidths DEF TypeOK, DataQ!TypeOK
  <2>3. DataQ!Wanted
    BY <2>1, <2>2 DEF DataQ!Wanted, DataQ!TypeOK
  <2> QED BY <2>1, <2>2, <2>3 DEF DataQ!DataInv, DataQ!Storing, DataQ!Loading, DataQ!AtRest,
             DataQ!ReadsWhatIsThere, DataQ!NoStaleAck
<1>2. ShiftQ!ShiftInv
  <2>1. ~sh.state /\ sh = ShiftQ!ResetRegs
    BY DEF Shift!ResetRegs, ShiftQ!ResetRegs
  <2>2. ShiftQ!Init
    BY <2>1 DEF Fresh, ShiftQ!Init, ShiftQ!Drive, NoShift, ShiftQ!NoShift, NoShifting
  <2> QED BY <2>2, ShiftQAssumed, ShiftQ!ShiftInit DEF ShiftQ!ShiftInit
<1>3. Arith!IInv
  <2>1. Dividing = Nothing
    BY DEF Dividing, Fresh
  <2>2. Arith!Init
    BY <2>1 DEF Arith!Init, Arith!ResetRegs, Div!ResetRegs
  <2> QED BY <2>2, DividerWidth, Widthwise, ArithWords, Arith!InitIInv DEF Arith!InitIInv
<1> QED BY <1>1, <1>2, <1>3 DEF Served

\* The processor and its components after a reset.
Begun == TypeOK /\ Fresh /\ ~dm.ack /\ ~dm.we1 /\ sh = Shift!ResetRegs /\ div = Div!ResetRegs

\* That is a good place to start from,
LEMMA BegunReady == Begun => Requested /\ Served
BY FreshRequests, FreshParts DEF Begun

\* also for the next rule.
LEMMA BegunNext == Begun' => Requested' /\ Served'
BY BegunReady, PTL

\* The invariant holds initially,
LEMMA RunInit == Agreed /\ HostInit => RunInv
<1> SUFFICES ASSUME Agreed, HostInit PROVE RunInv
  OBVIOUS
<1>1. Init /\ host = "run"
  BY DEF HostInit
<1>2. TypeOK /\ FetchInv /\ RequestInv
  BY <1>1, TypeInit, FetchInit, RequestInit
<1>3. Fresh /\ ~dm.ack /\ ~dm.we1 /\ sh = Shift!ResetRegs /\ div = Div!ResetRegs
  BY <1>1 DEF Init, Fresh, DataM!ClearRegs
<1>4. FromProgram
  <2>1. /\ pgm \in Programs /\ pgm_dat_r \in {BlankWord, pgm[Prog!PgmIndex(ip_next)]}
        /\ instruction = pgm_dat_r
    BY <1>1 DEF Init
  <2>2. Prog!PgmIndex(ip_next) \in Word(PgmBits)
    BY <1>2, IndexTyped DEF TypeOK
  <2> QED BY <2>1, <2>2 DEF FromProgram
<1>5. KeepsSecond /\ Stopped
  BY <1>1, <1>3 DEF KeepsSecond, Stopped, Fresh
<1> QED BY <1>2, <1>3, <1>4, <1>5, FreshRequests, FreshParts DEF RunInv

\* is established by every reset,
LEMMA RunReset ==
  ASSUME RunInv, NEW in \in Inputs, Reset(in), host' \in {"reset", "run"}
  PROVE  RunInv'
<1>1. Agreed /\ TypeOK /\ FetchInv /\ RequestInv /\ FromProgram
  BY DEF RunInv
<1>2. TypeOK' /\ FetchInv' /\ RequestInv'
  BY <1>1, TypeStep, FetchStep, RequestStep DEF Next
<1>3. ~in.reset_n_int /\ Parts(in)
  BY DEF Reset
<1>4. /\ pgm' = pgm /\ pgm_dat_r' \in {pgm_dat_r, pgm[Prog!PgmIndex(ip_next)]}
      /\ DataQ!Edge(TRUE, data) /\ ShiftQ!Edge(TRUE, arsh64)
      /\ Arith!Edge(FALSE, div64.stb, div64.dividend, div64.divisor)
  BY <1>1, <1>3, ResetParts
<1>5. Fresh'
  BY DEF Reset, Fresh
<1>6. sh' = Shift!ResetRegs /\ div' = Div!ResetRegs
  BY <1>4 DEF ShiftQ!Edge, Arith!Edge, ShiftQ!ResetRegs, Shift!ResetRegs, Arith!ResetRegs,
     Div!ResetRegs
<1>7. ~dm'.ack /\ ~dm'.we1
  <2>1. dm \in DataM!Registers
    BY <1>1 DEF TypeOK
  <2>2. dm' = [DataQ!ResetRegs EXCEPT !.dat_r1 = dm.dat_r1]
    BY <1>4, Zenon DEF DataQ!Edge, DataQ!Fsm, DataQ!MemRead
  <2>3. ~DataQ!ResetRegs.ack /\ ~DataQ!ResetRegs.we1
    BY <2>1 DEF DataM!Registers, DataQ!ResetRegs
  <2>4. {"ack", "we1", "dat_r1"} \subseteq DOMAIN DataQ!ResetRegs
    BY <2>1 DEF DataM!Registers, DataQ!ResetRegs
  <2> QED BY <2>2, <2>3, <2>4
<1>8. FromProgram'
  <2>1. Prog!PgmIndex(ip_next) \in Word(PgmBits) /\ instruction' = pgm_dat_r
    BY <1>1, IndexTyped DEF TypeOK, Reset
  <2> QED BY <1>1, <1>4, <2>1 DEF FromProgram
<1>9. KeepsSecond' /\ Stopped'
  BY <1>5 DEF KeepsSecond, Stopped, Fresh
<1>10. Requested' /\ Served'
  <2>1. Begun'
    BY <1>2, <1>5, <1>6, <1>7 DEF Begun, Shift!ResetRegs, Div!ResetRegs
  <2> QED BY <2>1, BegunNext
<1>11. Agreed'
  BY <1>1
<1> QED BY <1>2, <1>8, <1>9, <1>10, <1>11 DEF RunInv

\* and kept by every branch of cpu.v,
LEMMA RunExecute ==
  ASSUME RunInv, NEW in \in Inputs, Execute(in), host = "run",
         host' = "run" \/ (halt /\ host' = "reset")
  PROVE  RunInv'
<1>1. /\ Agreed /\ TypeOK /\ FetchInv /\ RequestInv /\ AckInv /\ FromProgram /\ KeepsSecond /\ Stopped
      /\ DataRequested /\ DivRequested /\ ShiftRequested /\ CallRequested
      /\ DataQ!DataInv /\ ShiftQ!ShiftInv /\ Arith!IInv
  BY DEF RunInv, Requested, Served, RequestInv
<1>2. TypeOK' /\ FetchInv' /\ RequestInv'
  BY <1>1, TypeStep, FetchStep, RequestStep DEF Next
<1>3. FromProgram' /\ KeepsSecond'
  BY <1>1, FromStep, KeepsStep
<1>4. Stopped'
  <2>1. error' => halt'
    BY <1>1, ErrorStep DEF Stopped
  <2>2. halt => halt'
    BY DEF Execute, Halted, Fault, OpFetch, OpFetchDelay, LddwLow, LddwHigh, Reserved, LoadStart,
       LoadDone, StoreStart,
       StoreDone, DivStart, DivDone, ShiftWait, ShiftDone, Plain, Endian, BadAlu, Call, Jump,
       DataFetch, DataAck,
       DivPending, DivAck, DivError, CallPending, CallReturn, CallError, InState, Decode,
       DecodeAlu, faults
  <2> QED BY <2>1, <2>2 DEF Stopped
<1>5. DataRequested' /\ DivRequested' /\ ShiftRequested' /\ CallRequested'
  BY <1>1, DataRequestedStep, DivRequestedStep, ShiftRequestedStep, CallRequestedStep
<1>6. DataQ!DataInv' /\ ShiftQ!ShiftInv' /\ Arith!IInv'
  BY <1>1, <1>2, <1>5, DataInvStep, ShiftInvStep, DivInvStep
<1> QED BY <1>1, <1>2, <1>3, <1>4, <1>5, <1>6 DEF RunInv, Requested, Served

\* and when nothing happens.
LEMMA RunStutter ==
  ASSUME RunInv, UNCHANGED hvars
  PROVE  RunInv'
<1> USE DEF hvars, vars, faults, fetch, states, keeps, acks, ports, parts
<1>1. /\ Agreed /\ TypeOK /\ FetchInv /\ RequestInv /\ AckInv /\ FromProgram /\ KeepsSecond /\ Stopped
      /\ DataRequested /\ DivRequested /\ ShiftRequested /\ CallRequested
      /\ DataQ!DataInv /\ ShiftQ!ShiftInv /\ Arith!IInv
  BY DEF RunInv, Requested, Served, RequestInv
<1>2. TypeOK' /\ FetchInv' /\ RequestInv'
  BY <1>1, TypeStep, FetchStep, RequestStep
<1>3. /\ opcode' = opcode /\ src' = src /\ dst' = dst /\ immediate' = immediate /\ insn' = insn /\ BadFields' = BadFields
      /\ Is32' = Is32 /\ DivAsked' = DivAsked /\ ShiftAsked' = ShiftAsked /\ Shifting' = Shifting
  BY DEF opcode, src, dst, immediate, insn, BadFields, Is32, DivAsked, ShiftAsked, Shifting
<1>4. FromProgram' /\ KeepsSecond' /\ Stopped'
  BY <1>1 DEF FromProgram, KeepsSecond, Stopped, second, Prog!PgmIndex
<1>5. DataRequested'
  BY <1>1, <1>3 DEF DataRequested, data_adr
<1>6. DivRequested' /\ ShiftRequested' /\ CallRequested'
  BY <1>1, <1>3 DEF DivRequested, ShiftRequested, CallRequested, Div!ack
<1>7. DataQ!DataInv'
  <2>1. DataPhase' = DataPhase /\ absMem' = absMem
    BY <1>3 DEF DataPhase, absMem
  <2> QED BY <1>1, <2>1, DataQAssumed, DataQ!DataStep DEF DataQ!DataStep, DataQ!vars
<1>8. ShiftQ!ShiftInv'
  <2>1. (IF sh.state THEN Shifting ELSE NoShifting)' = IF sh.state THEN Shifting ELSE NoShifting
    BY <1>3 DEF NoShifting
  <2> QED BY <1>1, <2>1, ShiftQAssumed, ShiftQ!ShiftStep DEF ShiftQ!ShiftStep, ShiftQ!vars
<1>9. Arith!IInv'
  <2>1. Dividing' = Dividing
    BY DEF Dividing
  <2> QED BY <1>1, <2>1, DividerWidth, Widthwise, ArithWords, Arith!IInvStep DEF Arith!IInvStep,
             Arith!vars
<1> QED BY <1>1, <1>2, <1>4, <1>5, <1>6, <1>7, <1>8, <1>9 DEF RunInv, Requested, Served

\* The invariant is inductive.
LEMMA RunKept == RunInv /\ [HostNext]_hvars => RunInv'
<1> SUFFICES ASSUME RunInv, [HostNext]_hvars PROVE RunInv'
  OBVIOUS
<1>1. CASE HoldReset
  BY <1>1, RunReset DEF HoldReset, Resets
<1>2. ASSUME NEW in \in Releases, RunProgram(in) PROVE RunInv'
  BY <1>2, RunExecute DEF RunProgram, Releases
<1>3. CASE NextRule
  BY <1>3, RunExecute DEF NextRule, Releases
<1> QED BY <1>1, <1>2, <1>3, RunStutter DEF HostNext

-----------------------------------------------------------------------------
(* The interpreter's reading of a word.                                    *)

\* The encoding, as the interpreter reads it.
LEMMA EbpfSame ==
  /\ Ref!EBPF_OP_LDDW = EBPF_OP_LDDW /\ Ref!EBPF_OP_CALL = EBPF_OP_CALL /\ Ref!EBPF_OP_EXIT = EBPF_OP_EXIT
  /\ Ref!OPC_LDX = OPC_LDX /\ Ref!OPC_ST = OPC_ST /\ Ref!OPC_STX = OPC_STX /\ Ref!OPC_ALU = OPC_ALU
  /\ Ref!OPC_ALU64 = OPC_ALU64
  /\ \A op : /\ Ref!opclass(op) = opclass(op)
             /\ Ref!UsesReg(op) <=> UsesReg(op)
             /\ Ref!IsMem(op) <=> IsMem(op)
             /\ Ref!Bytes(op) = Bytes(op)
             /\ Ref!IsStore(op) <=> opclass(op) \in {OPC_ST, OPC_STX}
             /\ Ref!IsDiv(op) <=> IsDiv(op)
             /\ Ref!IsShift(op) <=> IsShift(op)
             /\ Ref!IsEndian(op) <=> IsEndian(op)
             /\ Ref!IsNeg(op) <=> IsNeg(op)
             /\ Ref!IsPlain(op) <=> IsPlain(op)
             /\ Ref!IsJump(op) <=> IsJump(op)
<1> USE DEF Ref!opclass, opclass, Ref!code, code, Ref!UsesReg, UsesReg, Ref!OPC_LDX, OPC_LDX,
     Ref!OPC_ST, OPC_ST, Ref!OPC_STX, OPC_STX,
      Ref!OPC_ALU, OPC_ALU, Ref!OPC_ALU64, OPC_ALU64, Ref!OPC_JMP, OPC_JMP
<1>1. /\ Ref!EBPF_OP_LDDW = EBPF_OP_LDDW /\ Ref!EBPF_OP_CALL = EBPF_OP_CALL /\ Ref!EBPF_OP_EXIT = EBPF_OP_EXIT
      /\ Ref!OPC_LDX = OPC_LDX /\ Ref!OPC_ST = OPC_ST /\ Ref!OPC_STX = OPC_STX /\ Ref!OPC_ALU = OPC_ALU
      /\ Ref!OPC_ALU64 = OPC_ALU64
  BY DEF Ref!EBPF_OP_LDDW, EBPF_OP_LDDW, Ref!EBPF_OP_CALL, EBPF_OP_CALL, Ref!EBPF_OP_EXIT,
     EBPF_OP_EXIT
<1>2. \A op : /\ Ref!opclass(op) = opclass(op)
              /\ Ref!UsesReg(op) <=> UsesReg(op)
              /\ Ref!IsMem(op) <=> IsMem(op)
              /\ Ref!Bytes(op) = Bytes(op)
              /\ Ref!IsStore(op) <=> opclass(op) \in {OPC_ST, OPC_STX}
  BY DEF Ref!IsMem, IsMem, Ref!Bytes, Bytes, Ref!IsStore
<1>3. \A op : /\ Ref!IsDiv(op) <=> IsDiv(op)
              /\ Ref!IsShift(op) <=> IsShift(op)
              /\ Ref!IsEndian(op) <=> IsEndian(op)
              /\ Ref!IsNeg(op) <=> IsNeg(op)
  BY DEF Ref!IsDiv, IsDiv, Ref!DivOps, DivOps, Ref!IsShift, IsShift, Ref!ShiftOps, ShiftOps,
     Ref!IsEndian, IsEndian, Ref!IsNeg, IsNeg,
     Ref!ALU_DIV, ALU_DIV, Ref!ALU_MOD, ALU_MOD, Ref!ALU_LSH, ALU_LSH, Ref!ALU_RSH, ALU_RSH,
     Ref!ALU_ARSH, ALU_ARSH,
     Ref!ALU_ENDC, ALU_ENDC, Ref!ALU_NEG, ALU_NEG
<1>4. \A op : Ref!IsPlain(op) <=> IsPlain(op)
  BY DEF Ref!IsPlain, IsPlain, Ref!PlainOps, PlainOps, Ref!ALU_ADD, ALU_ADD, Ref!ALU_SUB, ALU_SUB,
     Ref!ALU_MUL, ALU_MUL,
     Ref!ALU_OR, ALU_OR, Ref!ALU_AND, ALU_AND, Ref!ALU_XOR, ALU_XOR, Ref!ALU_MOV, ALU_MOV
<1>5. \A op : Ref!IsJump(op) <=> IsJump(op)
  BY DEF Ref!IsJump, IsJump, Ref!CondOps, CondOps, Ref!JMP_JA, JMP_JA, Ref!JMP_JEQ, JMP_JEQ,
     Ref!JMP_JGT, JMP_JGT, Ref!JMP_JGE,
     JMP_JGE, Ref!JMP_JSET, JMP_JSET, Ref!JMP_JNE, JMP_JNE, Ref!JMP_JSGT, JMP_JSGT, Ref!JMP_JSGE,
     JMP_JSGE,
     Ref!JMP_JLT, JMP_JLT, Ref!JMP_JLE, JMP_JLE, Ref!JMP_JSLT, JMP_JSLT, Ref!JMP_JSLE, JMP_JSLE
<1> QED BY <1>1, <1>2, <1>3, <1>4, <1>5

\* The opcodes validate accepts.
LEMMA KnownSame ==
  \A op : Ref!KnownOpcode(op) <=>
    \/ IsPlain(op) \/ IsNeg(op) \/ IsDiv(op) \/ IsShift(op) \/ IsEndian(op)
    \/ opclass(op) \in {OPC_LDX, OPC_ST, OPC_STX} /\ IsMem(op)
    \/ op \in {EBPF_OP_LDDW, EBPF_OP_CALL, EBPF_OP_EXIT}
    \/ IsJump(op)
BY EbpfSame DEF Ref!KnownOpcode

\* And the words it computes with.
LEMMA RefWords ==
  /\ Ref!W16 = W16 /\ Ref!W32 = W32 /\ Ref!W64 = W64
  /\ \A w : Ref!Word(w) = Word(w)
  /\ \A x, w : Ref!Low(x, w) = Low(x, w) /\ Ref!Signed(x, w) = Signed(x, w)
  /\ \A x, v, w : Ref!SignExtend(x, v, w) = SignExtend(x, v, w)
BY DEF Ref!W16, W16, Ref!W32, W32, Ref!W64, W64, Ref!Word, Word, Ref!Low, Low, Ref!Signed, Signed,
   Ref!SignExtend, SignExtend

\* The program memory is read at the low bits of ip.
LEMMA Reading ==
  ASSUME NEW a \in Int
  PROVE  (a % 2^IpBits) % 2^PgmBits = a % 2^PgmBits
BY AnyWidths, LowLow DEF Low

\* A word being executed is the interpreter's, too.
LEMMA AtDecode ==
  ASSUME TypeOK, FetchInv, ~halt, state_next \in Executing, keep_op = 0, ~Storing
  PROVE  /\ absStatus = "run" /\ absPc = ip /\ Matched
         /\ Ref!inst = insn /\ Ref!following = pgm_dat_r /\ absReg = regs
         /\ insn = instruction /\ insn = pgm[ip % 2^PgmBits] /\ pgm_dat_r = pgm[(ip + 1) % 2^PgmBits]
<1>1. absStatus = "run" /\ absPc = ip /\ absReg = regs
  BY DEF absStatus, absPc, absReg, LddwFails, Executing
<1>2. insn = instruction
  BY DEF TypeOK, Instructions, insn, opcode, src, dst, immediate
<1>3. /\ instruction = pgm[ip % 2^PgmBits] /\ ip_next = (ip + 1) % 2^IpBits
      /\ pgm_dat_r = pgm[ip_next % 2^PgmBits]
  BY DEF FetchInv, PrefetchCoherent, Prog!PgmIndex
<1>4. ip \in Int /\ ip + 1 \in Int
  BY AnyWidths, WordInt DEF TypeOK
<1>5. pgm_dat_r = pgm[(ip + 1) % 2^PgmBits]
  BY <1>3, <1>4, Reading
<1> QED BY <1>1, <1>2, <1>3, <1>5 DEF Matched, Ref!inst, Ref!following

\* What a portable program's word, decoded without a fault, is worth to validate.
LEMMA PortableWord ==
  ASSUME RunInv, ~halt, state_next \in Executing, keep_op = 0, ~Storing
  PROVE  Portable(insn, pgm_dat_r)
<1>1. /\ pgm \in Programs /\ PortableProgram(pgm) /\ TypeOK /\ FetchInv
  BY DEF RunInv, FromProgram, Agreed
<1>2. insn = pgm[ip % 2^PgmBits] /\ pgm_dat_r = pgm[(ip + 1) % 2^PgmBits]
  BY <1>1, AtDecode
<1>3. ip \in Int /\ ip % 2^PgmBits \in Word(PgmBits)
  BY <1>1, IndexTyped, AnyWidths, WordInt DEF TypeOK, Prog!PgmIndex
<1>4. ((ip % 2^PgmBits) + 1) % 2^PgmBits = (ip + 1) % 2^PgmBits
  <2>1. 2^PgmBits \in Nat /\ 2^PgmBits > 0 /\ ip % 2^PgmBits \in Int
    BY <1>3, AnyWidths, Power, WordInt
  <2>2. (ip % 2^PgmBits) % 2^PgmBits = ip % 2^PgmBits
    BY <1>3, AnyWidths, LowLow DEF Low
  <2>3. (1 + (ip % 2^PgmBits)) % 2^PgmBits = (1 + ip) % 2^PgmBits
    <3> DEFINE M == 2^PgmBits
               t == ip % M
    <3>1. M \in Nat /\ M > 0 /\ t \in Int /\ t % M = ip % M /\ 1 \in Int
      BY <2>1, <2>2
    <3> HIDE DEF M, t
    <3>2. (1 + t) % M = (1 + ip) % M
      BY <1>3, <3>1, ModArithmetic
    <3> QED BY <3>2 DEF M, t
  <2>4. 1 + (ip % 2^PgmBits) = (ip % 2^PgmBits) + 1 /\ 1 + ip = ip + 1
    BY <1>3, <2>1
  <2> QED BY <2>3, <2>4
<1> QED BY <1>1, <1>2, <1>3, <1>4 DEF PortableProgram

-----------------------------------------------------------------------------
(* The edges that are no step of the interpreter.                          *)

\* The interpreter's state, its memory aside, stays as it is.
Same == absPc' = absPc /\ absReg' = absReg /\ absStatus' = absStatus

\* What the invariant says wherever an instruction is being executed.
LEMMA Facts ==
  ASSUME RunInv
  PROVE  /\ TypeOK /\ FetchInv /\ RequestInv /\ AckInv /\ FromProgram /\ KeepsSecond /\ Stopped /\ Agreed
         /\ DataRequested /\ DivRequested /\ ShiftRequested /\ CallRequested
         /\ DataQ!DataInv /\ ShiftQ!ShiftInv /\ Arith!IInv
         /\ cpu_data_ack => state_next = "DECODE" /\ MemClass /\ ~halt /\ ~BadFields
         /\ state_next = "DATA_FETCH" => MemClass /\ ~BadFields
         /\ ~halt /\ Storing => MemClass /\ opclass(opcode) # OPC_LDX
BY DEF RunInv, Requested, Served, RequestInv, AckInv, DataOK, Accepted, Storing, DataRequested,
   OPC_LDX, OPC_ST, OPC_STX

\* While nothing is fetched or written, the state the interpreter sees stays.
LEMMA SameWaiting ==
  ASSUME ip' = ip, ip_next' = ip_next, regs' = regs, keep_op = 0, keep_op' = 0, ~halt, ~halt',
         state_next # "OP_FETCH", state_next' # "OP_FETCH", Storing' <=> Storing
  PROVE  Same
BY DEF Same, absPc, absReg, absStatus, LddwFails

\* A store has taken effect, for the interpreter, as long as it is waited for.
LEMMA StoringIs ==
  RunInv /\ ~halt =>
    /\ Storing <=> (state_next = "DATA_FETCH" \/ cpu_data_ack) /\ opclass(opcode) # OPC_LDX
    /\ state_next = "DATA_FETCH" \/ cpu_data_ack => MemClass
<1> SUFFICES ASSUME RunInv, ~halt
             PROVE  /\ Storing <=> (state_next = "DATA_FETCH" \/ cpu_data_ack) /\ opclass(opcode) # OPC_LDX
                    /\ state_next = "DATA_FETCH" \/ cpu_data_ack => MemClass
  OBVIOUS
<1> QED BY Facts DEF Storing, MemClass, DataRequested, OPC_LDX, OPC_ST, OPC_STX

\* The same of the next state.
LEMMA StoringNext ==
  RunInv' /\ ~halt' =>
    /\ Storing' <=> (state_next' = "DATA_FETCH" \/ cpu_data_ack') /\ opclass(opcode)' # OPC_LDX
    /\ state_next' = "DATA_FETCH" \/ cpu_data_ack' => MemClass'
<1> DEFINE P == RunInv /\ ~halt =>
               /\ Storing <=> (state_next = "DATA_FETCH" \/ cpu_data_ack) /\ opclass(opcode) # OPC_LDX
               /\ state_next = "DATA_FETCH" \/ cpu_data_ack => MemClass
<1>1. P
  BY StoringIs
<1>2. P'
  BY <1>1, PTL
<1> QED BY <1>2

\* Waiting for a component.
LEMMA WaitsSame ==
  ASSUME RunInv, RunInv', NEW in \in Inputs,
         LoadStart(in) \/ DivStart(in) \/ DivPending(in) \/ DivAck(in) \/ ShiftWait(in) \/ Call(in) \/ CallPending(in)
           \/ DataFetch(in) \/ DataAck(in)
  PROVE  Same
<1>1. /\ ip' = ip /\ ip_next' = ip_next /\ regs' = regs /\ instruction' = instruction /\ ~halt /\ ~halt'
      /\ state_next # "OP_FETCH" /\ state_next' # "OP_FETCH" /\ opclass(opcode) # OPC_LD
      /\ keep_op' = 0 \/ keep_op' = keep_op
  <2> USE Classes, Facts DEF InState, Decode, DecodeAlu, Goto, fetch, faults, states, keeps,
       OPC_LD, OPC_JMP, OPC_LDX, OPC_ALU, OPC_ALU64
  <2>1. CASE LoadStart(in) \/ DivStart(in) \/ ShiftWait(in) \/ Call(in)
    BY <2>1 DEF LoadStart, DivStart, ShiftWait, Call
  <2>2. CASE DivPending(in) \/ DivAck(in) \/ DataFetch(in) \/ DataAck(in)
    <3>1. IsDiv(opcode) \/ MemClass
      BY <2>2, Facts DEF DivPending, DivAck, DataFetch, DataAck, AckInv, DivOK
    <3>2. opclass(opcode) # OPC_LD
      BY <3>1 DEF MemClass, OPC_ST, OPC_STX
    <3> QED BY <2>2, <3>2 DEF DivPending, DivAck, DataFetch, DataAck
  <2>3. CASE CallPending(in)
    BY <2>3 DEF CallPending, CallRequested, opclass, EBPF_OP_CALL
  <2> QED BY <2>1, <2>2, <2>3
<1>2. keep_op = 0 /\ keep_op' = 0
  BY <1>1, Facts, NotKept
<1>3. opcode' = opcode
  BY <1>1, <1>2, SameInsn
<1>4. Storing' <=> Storing
  <2>1. CASE LoadStart(in) \/ DataFetch(in) \/ DataAck(in)
    <3>1. \/ opclass(opcode) = OPC_LDX
          \/ state_next = "DATA_FETCH" /\ (state_next' = "DATA_FETCH" \/ cpu_data_ack')
      BY <2>1 DEF LoadStart, DataFetch, DataAck, Decode, InState, states
    <3> QED BY <1>1, <1>3, <3>1, StoringIs, StoringNext
  <2>2. CASE ~(LoadStart(in) \/ DataFetch(in) \/ DataAck(in))
    <3>1. opclass(opcode) \in {OPC_ALU, OPC_ALU64, OPC_JMP}
      BY <2>2, Facts, Classes DEF DivStart, DivPending, DivAck, ShiftWait, Call, CallPending,
         DecodeAlu, Decode, InState, AckInv, DivOK,
         CallRequested, opclass, EBPF_OP_CALL, OPC_JMP
    <3>2. ~MemClass /\ ~MemClass'
      BY <1>3, <3>1 DEF MemClass, OPC_ALU, OPC_ALU64, OPC_JMP, OPC_LDX, OPC_ST, OPC_STX
    <3> QED BY <1>1, <3>2, StoringIs, StoringNext
  <2> QED BY <2>1, <2>2
<1> QED BY <1>1, <1>2, <1>4, SameWaiting

\* Between two instructions: after a fetch ip is what ip_next was.
LEMMA FetchesSame ==
  ASSUME RunInv, RunInv', NEW in \in Inputs, Execute(in), OpFetch(in) \/ OpFetchDelay(in) \/ LddwHigh(in) \/ StoreDone(in)
  PROVE  Same
<1>0. ~halt /\ ~halt' /\ pgm' = pgm
  BY ExecuteShape, ProgramRead DEF OpFetch, OpFetchDelay, LddwHigh, StoreDone, Decode, InState,
     faults
<1>1. CASE OpFetch(in)
  <2>1. /\ keep_op = 0 /\ keep_op' = 0 /\ state_next = "OP_FETCH" /\ state_next' = "OP_FETCH_DELAY" /\ ip' = ip_next
        /\ regs' = regs
    BY <1>1, Facts DEF OpFetch, InState, Advance, KeepsSecond, keeps
  <2>2. ~Storing'
    BY <2>1 DEF Storing
  <2> QED BY <1>0, <2>1, <2>2 DEF Same, absPc, absReg, absStatus, LddwFails
<1>2. CASE OpFetchDelay(in)
  <2>1. /\ state_next = "OP_FETCH_DELAY" /\ state_next' \in {"OP_FETCH", "DECODE"} /\ ip' = ip /\ ip_next' = ip_next
        /\ keep_op' = keep_op /\ keep_dst' = keep_dst /\ regs' = regs /\ ~cpu_data_ack' /\ ~cpu_data_ack
    BY <1>2, Facts DEF OpFetchDelay, InState, Goto, keeps, acks, TypeOK
  <2>2. state_next' = "DECODE"
    BY <1>0, <1>2, <2>1, Facts DEF OpFetchDelay, Goto, FetchInv, Fetching
  <2>3. ~Storing /\ ~Storing'
    BY <2>1, <2>2 DEF Storing
  <2>4. second' = second /\ (LddwFails' <=> LddwFails)
    BY <1>0, <2>1 DEF second, Prog!PgmIndex, LddwFails
  <2> QED BY <1>0, <2>1, <2>2, <2>3, <2>4 DEF Same, absPc, absReg, absStatus
<1>3. CASE LddwHigh(in)
  <2>1. /\ keep_op # 0 /\ keep_op' = 0 /\ state_next = "DECODE" /\ state_next' = "OP_FETCH_DELAY" /\ ip' = ip_next
        /\ regs' = [regs EXCEPT ![dst] = Low(regs[dst], W32) + immediate * 2^W32] /\ ~BadFields
    BY <1>3 DEF LddwHigh, Decode, InState, Advance, Put
  <2>2. ~Storing'
    BY <2>1 DEF Storing
  <2>3. instruction = second /\ dst = keep_dst /\ immediate = second.imm
    BY <1>0, <2>1, Facts DEF KeepsSecond, dst, immediate
  <2>4. ~LddwFails
    BY <2>1, <2>3, Facts DEF BadFields, LddwFails, src, TypeOK, Instructions, MAX_REGS
  <2> QED BY <1>0, <2>1, <2>2, <2>3, <2>4 DEF Same, absPc, absReg, absStatus, LddwFails
<1>4. CASE StoreDone(in)
  <2>1. /\ keep_op' = 0 /\ state_next = "DECODE" /\ state_next' = "OP_FETCH_DELAY" /\ ip' = ip_next /\ regs' = regs
        /\ opclass(opcode) \in {OPC_ST, OPC_STX} /\ cpu_data_ack
    BY <1>4 DEF StoreDone, Decode, InState, Advance
  <2>2. Storing /\ ~Storing' /\ keep_op = 0
    BY <2>1, Facts, NotKept, Classes DEF Storing
  <2> QED BY <1>0, <2>1, <2>2 DEF Same, absPc, absReg, absStatus, LddwFails
<1> QED BY <1>1, <1>2, <1>3, <1>4

\* A halted processor.
LEMMA HaltedSame ==
  ASSUME RunInv, RunInv', NEW in \in Inputs, Execute(in), Halted(in)
  PROVE  Same
<1>1. /\ halt /\ halt' /\ error' = error /\ regs' = regs /\ keep_op' = keep_op /\ keep_dst' = keep_dst /\ ip' = ip /\ pgm' = pgm
  BY ExecuteShape, ProgramRead DEF Halted, faults, fetch, keeps
<1>2. second' = second /\ (LddwFails' <=> LddwFails)
  BY <1>1 DEF second, Prog!PgmIndex, LddwFails
<1> QED BY <1>1, <1>2 DEF Same, absPc, absReg, absStatus

\* The word a fault is about was loaded, and validate would have refused its program;
\* if it is the second word of a LDDW, the interpreter has failed already.
LEMMA FaultFails ==
  ASSUME RunInv, RunInv', NEW in \in Inputs, Execute(in), Fault(in)
  PROVE  Same \/ Ref!Fail
<1>1. /\ ~halt /\ BadFields /\ halt' /\ error' /\ regs' = regs /\ keep_op' = keep_op /\ keep_dst' = keep_dst
      /\ ip' = ip /\ pgm' = pgm
  BY ExecuteShape, ProgramRead DEF Fault, Raise, fetch, keeps
<1>2. second' = second /\ (LddwFails' <=> LddwFails)
  BY <1>1 DEF second, Prog!PgmIndex, LddwFails
<1>3. CASE keep_op # 0
  <2>1. instruction = second /\ dst = keep_dst /\ keep_dst \in 0 .. 10
    BY <1>1, <1>3, Facts DEF KeepsSecond, dst, TypeOK, Registers, MAX_REGS
  <2>2. LddwFails
    BY <1>1, <1>3, <2>1 DEF BadFields, LddwFails, src, MAX_REGS
  <2> QED BY <1>1, <1>2, <2>2 DEF Same, absPc, absReg, absStatus
<1>4. CASE keep_op = 0
  <2>0. instruction \in Instructions
    BY Facts DEF TypeOK
  <2>1. instruction.op \in 0 .. 255 /\ 0 \in Int /\ And(0, instruction.op) = 0
    <3>1. instruction.op \in 0 .. 255
      BY <2>0 DEF Instructions
    <3>2. instruction.op \in Int /\ 0 \in Int
      BY <3>1
    <3> QED BY <3>1, <3>2, AndZero
  <2>2. instruction.src > 10 \/ instruction.dst > 10
    BY <1>1, <1>4, <2>0, <2>1 DEF BadFields, src, dst, MAX_REGS, Instructions
  <2>3. \E a \in Word(PgmBits) : pgm[a] = instruction
    BY <2>2, Facts DEF FromProgram, BlankWord
  <2>4. DOMAIN pgm = Word(PgmBits)
    BY Facts DEF TypeOK
  <2>5. absStatus = "run" /\ absStatus' = "fail" /\ absPc' = 0
    BY <1>1, <1>4 DEF absStatus, absPc, LddwFails
  <2>6. absMem' = absMem
    <3>1. ~StoreStart(in)
      BY <1>1 DEF StoreStart, Decode, InState
    <3> QED BY <3>1, Facts, AbsMemStep
  <2> QED BY <1>1, <2>2, <2>3, <2>4, <2>5, <2>6 DEF Ref!Fail
<1> QED BY <1>3, <1>4
=============================================================================
