--------------------------------- MODULE Cpu ---------------------------------
(***************************************************************************)
(* The VeBPF processor, cpu.v: a fetch-decode-execute FSM around a program *)
(* memory, a data memory, a shifter, a divider and a call handler, all on  *)
(* one clock.  An action is one rising edge: the branch the FSM takes, and *)
(* the edge of every component with the wires as they were before it.      *)
(*                                                                         *)
(* The environment is the CONSTANT Inputs: the values the input pins may   *)
(* have at an edge.  Left out are the cycle counter ticks, the registers   *)
(* debug, debug_byte1, debug_byte2 and state, which nothing reads, and     *)
(* arguments r3 to r5 of a call, which no function uses.                   *)
(***************************************************************************)
EXTENDS Alu

CONSTANTS
  OffsetBits,    \* width of an instruction's offset, 16 in the code
  AddrBits,      \* VEBPF_DATA_MEM_ADDRESS_WIDTH, 11
  IpBits,        \* VEBPF_PROG_ADDRESS_WIDTH, 10
  PgmBits,       \* VEBPF_PROG_ADDRESS_WIDTH_REDUCED, 9
  HasCallHandler,    \* SIMULATION || VEBPF_SIM: whether there is a call handler
  CallAddrBits, CallDepth, Unknowns,    \* of the call handler
  Inputs,        \* the values of the input pins
  Programs,      \* the contents the program memory may start with
  Memories       \* and those of the data memory

ASSUME WidthsAssumption ==
  /\ OffsetBits \in 1 .. W64 /\ IpBits \in 1 .. W64
  /\ AddrBits \in 3 .. W64
  /\ PgmBits \in 1 .. IpBits
  /\ HasCallHandler \in BOOLEAN

\* The program memory is reset and written only while the processor is held in
\* reset ("reprogram capability while the VeBPF cpu is in RESET state",
\* VeBPF_tb/test_cpu.py 769): cpu.v itself does not stop a write in mid-program.
ASSUME ProgramAssumption ==
  \A in \in Inputs : in.reset_n_int => ~in.prog_reset /\ ~in.prog_write_enable

VARIABLES
  halt, error,
  ip, ip_next, instruction,
  state_next, state_next_temp,
  keep_op, keep_dst,            \* of a LDDW whose second word is being fetched
  cpu_data_ack, cpu_div64_ack,  \* the second decode of a memory access or division
  regs,
  data, arsh64, div64, call_handler,   \* the components' input ports
  pgm, pgm_dat_r, dm, mem, sh, div, ch, store    \* the components' state

Prog == INSTANCE ProgMem
DataM == INSTANCE DataMem
Shift == INSTANCE Shifter
Div == INSTANCE Divider WITH data_width <- W64, NoRequest <- {}, asked <- {}
Helper == INSTANCE CallHandler

fetch == <<ip, ip_next, instruction>>
states == <<state_next, state_next_temp>>
keeps == <<keep_op, keep_dst>>
faults == <<halt, error>>
acks == <<cpu_data_ack, cpu_div64_ack>>
ports == <<data, arsh64, div64, call_handler>>
parts == <<pgm, pgm_dat_r, dm, mem, sh, div, ch, store>>
vars == <<faults, fetch, states, keeps, acks, regs, ports, parts>>

States == {"OP_FETCH", "OP_FETCH_DELAY", "DECODE", "DATA_FETCH", "DIV_PENDING",
           "CALL_PENDING", "HALT"}
Instructions == [op : 0 .. 255, src : 0 .. 15, dst : 0 .. 15,
                 off : Word(OffsetBits), imm : Word(W32)]
Registers == 0 .. (MAX_REGS - 1)

\* The pins: reset_n | csr_ctl[0], the rule to start, the arguments r1 to r5,
\* csr_ctl[1] with the host's data port, and the program memory's write port.
Pins == [reset_n_int : BOOLEAN, run_next_selected_rule_en : BOOLEAN,
         ip_next_rule : Word(IpBits), args : [1 .. 5 -> Word(W64)],
         csr_ctl1 : BOOLEAN, host : DataM!Ports,
         prog_reset : BOOLEAN, prog_write_enable : BOOLEAN,
         prog_addr : Word(IpBits), prog_data : Instructions]

ASSUME InputsAssumption == Inputs \subseteq Pins
ASSUME MemoriesAssumption == Memories \subseteq [Word(AddrBits) -> Word(ByteBits)]
ASSUME ProgramsAssumption == Programs \subseteq [Word(PgmBits) -> Instructions]
ASSUME CallAssumption ==
  /\ CallAddrBits \in 1 .. W64 /\ CallDepth \in 1 .. 2^CallAddrBits
  /\ Unknowns \subseteq Word(W64) /\ Unknowns # {}

\* The wires.
opcode == IF keep_op = 0 THEN instruction.op ELSE keep_op
src == instruction.src
dst == IF keep_op = 0 THEN instruction.dst ELSE keep_dst
immediate == instruction.imm
insn == [op |-> opcode, src |-> src, dst |-> dst, off |-> instruction.off, imm |-> immediate]
NextIp == (ip_next + 1) % 2^IpBits
\* A faulty Target, which the properties must tell from the real one: relative to
\* ip.
TargetOfIp == (ip + Signed(instruction.off, OffsetBits)) % 2^IpBits

Target == (ip_next + Signed(instruction.off, OffsetBits)) % 2^IpBits
\* A faulty data_adr, which the properties must tell from the real one: as wide
\* as a register.
data_adr_wide(base) == base + instruction.off

data_adr(base) == (base + instruction.off) % 2^AddrBits

\* The components' edges, with csr_ctl[1] giving the data memory to the host: its
\* reset is then inverted, and the CPU sees no ack.  Without a call handler its
\* outputs are undriven, and ack is never 1.
Parts(in) ==
  /\ Prog!Edge(in.prog_reset, in.prog_write_enable, in.prog_addr, in.prog_data, ip_next)
  /\ DataM!Edge((~in.reset_n_int) # in.csr_ctl1, IF in.csr_ctl1 THEN in.host ELSE data)
  /\ Shift!Edge(~in.reset_n_int, arsh64)
  /\ Div!Edge(in.reset_n_int, div64.stb, div64.dividend, div64.divisor)
  /\ IF HasCallHandler THEN Helper!Edge(~in.reset_n_int, call_handler)
     ELSE UNCHANGED <<ch, store>>
\* A faulty data_ack, which the properties must tell from the real one: not hidden
\* while the host has the memory.
data_ack_shared(in) == dm.ack

data_ack(in) == ~in.csr_ctl1 /\ dm.ack

\* What branches have in common.
Raise == error' = TRUE /\ halt' = TRUE
Put(r, v) == regs' = [regs EXCEPT ![r] = v]
\* A faulty Advance, which the properties must tell from the real one: without
\* the edge the program memory needs.
AdvanceHasty ==
  /\ ip_next' = NextIp /\ ip' = ip_next /\ instruction' = pgm_dat_r
  /\ state_next' = "DECODE" /\ state_next_temp' = "DECODE"

Advance ==
  /\ ip_next' = NextIp /\ ip' = ip_next /\ instruction' = pgm_dat_r
  /\ state_next' = "OP_FETCH_DELAY" /\ state_next_temp' = "DECODE"
Goto(s) == state_next' = s /\ UNCHANGED state_next_temp

-----------------------------------------------------------------------------
(* Reset, halt and the checks made at every edge.                          *)

NoData == [stb |-> FALSE, adr |-> 0, we |-> FALSE, ww |-> 0, dat_w |-> 0]
NoShift == [stb |-> FALSE, arith |-> FALSE, left |-> FALSE, value |-> 0, shift |-> 0]
NoDiv == [stb |-> FALSE, dividend |-> 0, divisor |-> 0]
NoCall == [stb |-> FALSE, func |-> 0, r1 |-> 0, r2 |-> 0]

StartIp(in) == IF in.run_next_selected_rule_en THEN in.ip_next_rule ELSE 0
StartRegs(in) == [r \in Registers |-> IF r \in 1 .. 5 THEN in.args[r] ELSE 0]

Reset(in) ==
  /\ ~in.reset_n_int
  /\ error' = FALSE /\ halt' = FALSE
  /\ ip_next' = StartIp(in) /\ ip' = StartIp(in) /\ instruction' = pgm_dat_r
  /\ state_next' = "OP_FETCH" /\ state_next_temp' = "OP_FETCH"
  /\ keep_op' = 0 /\ keep_dst' = 0
  /\ regs' = StartRegs(in)
  /\ cpu_data_ack' = FALSE /\ cpu_div64_ack' = FALSE
  /\ data' = NoData /\ arsh64' = NoShift /\ div64' = NoDiv /\ call_handler' = NoCall
  /\ Parts(in)

Halted(in) ==
  /\ in.reset_n_int /\ halt
  /\ Goto("HALT")
  /\ UNCHANGED <<faults, fetch, keeps, acks, regs, ports>>
  /\ Parts(in)

\* The fields are checked in whatever word the instruction register holds, even
\* in OP_FETCH and OP_FETCH_DELAY when it may be one that will not be executed.
BadFields ==
  \/ src >= MAX_REGS
  \/ dst >= MAX_REGS
  \/ And(keep_op, instruction.op) # 0    \* "incomplete LDDW"

Fault(in) ==
  /\ in.reset_n_int /\ ~halt /\ BadFields
  /\ Raise
  /\ UNCHANGED <<fetch, states, keeps, acks, regs, ports>>
  /\ Parts(in)

InState(s, in) == in.reset_n_int /\ state_next = s /\ ~halt /\ ~BadFields

OpFetch(in) ==
  /\ InState("OP_FETCH", in)
  /\ Advance
  /\ UNCHANGED <<faults, keeps, acks, regs, ports>>
  /\ Parts(in)

OpFetchDelay(in) ==
  /\ InState("OP_FETCH_DELAY", in)
  /\ instruction' = pgm_dat_r
  /\ Goto(state_next_temp)
  /\ UNCHANGED <<faults, ip, ip_next, keeps, acks, regs, ports>>
  /\ Parts(in)

-----------------------------------------------------------------------------
(* STATE_DECODE, by opcode class.  Every branch clears keep_op, unless it  *)
(* is the first half of a LDDW, and cpu_data_ack.                          *)

\* A faulty Decode, which the properties must tell from the real one:
\* cpu_data_ack stays.
DecodeAcked(classes, in) ==
  /\ InState("DECODE", in)
  /\ opclass(opcode) \in classes
  /\ UNCHANGED cpu_data_ack

Decode(classes, in) ==
  /\ InState("DECODE", in)
  /\ opclass(opcode) \in classes
  /\ cpu_data_ack' = FALSE

LddwLow(in) ==
  /\ Decode({OPC_LD}, in) /\ opcode = EBPF_OP_LDDW /\ keep_op = 0
  /\ Put(dst, immediate)
  /\ keep_op' = opcode /\ keep_dst' = dst
  /\ Advance
  /\ UNCHANGED <<faults, cpu_div64_ack, ports>>
  /\ Parts(in)

LddwHigh(in) ==
  /\ Decode({OPC_LD}, in) /\ opcode = EBPF_OP_LDDW /\ keep_op # 0
  /\ Put(dst, Low(regs[dst], W32) + immediate * 2^W32)
  /\ keep_op' = 0
  /\ Advance
  /\ UNCHANGED <<faults, keep_dst, cpu_div64_ack, ports>>
  /\ Parts(in)

\* OPC_RES, and OPC_LD with any other opcode.
Reserved(in) ==
  /\ Decode({OPC_LD, OPC_RES}, in) /\ opcode # EBPF_OP_LDDW
  /\ Raise
  /\ keep_op' = 0
  /\ UNCHANGED <<fetch, states, keep_dst, cpu_div64_ack, regs, ports>>
  /\ Parts(in)

\* The address of a load is set before its opcode is looked at.
LoadStart(in) ==
  /\ Decode({OPC_LDX}, in) /\ ~cpu_data_ack
  /\ data' = [data EXCEPT !.adr = data_adr(regs[src])]
  /\ Goto("DATA_FETCH")
  /\ keep_op' = 0
  /\ UNCHANGED <<faults, fetch, keep_dst, cpu_div64_ack, regs, arsh64, div64, call_handler>>
  /\ Parts(in)

LoadDone(in) ==
  /\ Decode({OPC_LDX}, in) /\ cpu_data_ack
  /\ IF IsMem(opcode)
     THEN Put(dst, Low(dm.dat_r8, Bytes(opcode) * ByteBits)) /\ UNCHANGED faults
     ELSE Raise /\ UNCHANGED regs
  /\ Advance
  /\ keep_op' = 0
  /\ UNCHANGED <<keep_dst, cpu_div64_ack, ports>>
  /\ Parts(in)

\* OPC_ST stores the immediate, OPC_STX a register.  A bad opcode halts, but not
\* before we and the state are set.
Stored == IF opclass(opcode) = OPC_ST THEN immediate ELSE regs[src]
\* A faulty StorePort, which the properties must tell from the real one: stb is
\* raised with the address, saving an edge.
StorePortEager ==
  [stb |-> TRUE, adr |-> data_adr(regs[dst]), we |-> TRUE,
   ww |-> IF IsMem(opcode) THEN Bytes(opcode) ELSE data.ww,
   dat_w |-> IF IsMem(opcode) THEN Low(Stored, Bytes(opcode) * ByteBits) ELSE data.dat_w]

StorePort ==
  [stb |-> data.stb, adr |-> data_adr(regs[dst]), we |-> TRUE,
   ww |-> IF IsMem(opcode) THEN Bytes(opcode) ELSE data.ww,
   dat_w |-> IF IsMem(opcode) THEN Low(Stored, Bytes(opcode) * ByteBits) ELSE data.dat_w]
StoreStart(in) ==
  /\ Decode({OPC_ST, OPC_STX}, in)
  /\ ~cpu_data_ack
  /\ data' = StorePort
  /\ IF IsMem(opcode) THEN UNCHANGED faults ELSE Raise
  /\ Goto("DATA_FETCH")
  /\ keep_op' = 0
  /\ UNCHANGED <<fetch, keep_dst, cpu_div64_ack, regs, arsh64, div64, call_handler>>
  /\ Parts(in)

StoreDone(in) ==
  /\ Decode({OPC_ST, OPC_STX}, in)
  /\ cpu_data_ack
  /\ Advance
  /\ keep_op' = 0
  /\ UNCHANGED <<faults, keep_dst, cpu_div64_ack, regs, ports>>
  /\ Parts(in)

\* Both ALU classes clear cpu_div64_ack.
DecodeAlu(in) ==
  /\ Decode({OPC_ALU, OPC_ALU64}, in)
  /\ cpu_div64_ack' = FALSE
  /\ keep_op' = 0
  /\ UNCHANGED keep_dst
Is32 == opclass(opcode) = OPC_ALU

DivStart(in) ==
  /\ DecodeAlu(in) /\ IsDiv(opcode) /\ ~cpu_div64_ack
  /\ div64' = IF Is32 THEN DivRequest32(insn, regs) ELSE DivRequest64(insn, regs)
  /\ Goto("DIV_PENDING")
  /\ UNCHANGED <<faults, fetch, regs, data, arsh64, call_handler>>
  /\ Parts(in)

DivDone(in) ==
  /\ DecodeAlu(in) /\ IsDiv(opcode) /\ cpu_div64_ack
  /\ Put(dst, IF code(opcode) = ALU_DIV THEN div.quo ELSE div.rem)
  /\ Advance
  /\ UNCHANGED <<faults, ports>>
  /\ Parts(in)

\* A shift stays in STATE_DECODE, setting the request again, until ack.
ShiftWait(in) ==
  /\ DecodeAlu(in) /\ IsShift(opcode) /\ ~sh.ack
  /\ arsh64' = IF Is32 THEN ShiftRequest32(insn, regs) ELSE ShiftRequest64(insn, regs)
  /\ UNCHANGED <<faults, fetch, states, regs, data, div64, call_handler>>
  /\ Parts(in)

ShiftDone(in) ==
  /\ DecodeAlu(in) /\ IsShift(opcode) /\ sh.ack
  /\ Put(dst, IF Is32 THEN Low(sh.out, W32) ELSE sh.out)
  /\ arsh64' = [stb |-> FALSE, arith |-> arsh64.arith, left |-> arsh64.left,
                value |-> arsh64.value, shift |-> arsh64.shift]
  /\ Advance
  /\ UNCHANGED <<faults, data, div64, call_handler>>
  /\ Parts(in)

Plain(in) ==
  /\ DecodeAlu(in)
  /\ IsPlain(opcode) \/ IsNeg(opcode)
  /\ Put(dst, IF Is32 THEN Alu32(insn, regs) ELSE Alu64(insn, regs))
  /\ Advance
  /\ UNCHANGED <<faults, ports>>
  /\ Parts(in)

Endian(in) ==
  /\ DecodeAlu(in) /\ IsEndian(opcode) /\ immediate \in EndianWidths
  /\ Put(dst, IF UsesReg(opcode) THEN BE(regs[dst], immediate) ELSE LE(regs[dst], immediate))
  /\ Advance
  /\ UNCHANGED <<faults, ports>>
  /\ Parts(in)

\* An endian conversion of another width, or an opcode no case names.
BadAlu(in) ==
  /\ DecodeAlu(in)
  /\ ~(IsDiv(opcode) \/ IsShift(opcode) \/ IsPlain(opcode) \/ IsNeg(opcode))
  /\ IsEndian(opcode) => immediate \notin EndianWidths
  /\ Raise
  /\ Advance
  /\ UNCHANGED <<regs, ports>>
  /\ Parts(in)

Call(in) ==
  /\ Decode({OPC_JMP}, in) /\ opcode = EBPF_OP_CALL
  /\ call_handler' = [stb |-> TRUE, func |-> immediate, r1 |-> regs[1], r2 |-> regs[2]]
  /\ Goto("CALL_PENDING")
  /\ keep_op' = 0
  /\ UNCHANGED <<faults, fetch, keep_dst, cpu_div64_ack, regs, data, arsh64, div64>>
  /\ Parts(in)

\* The other opcodes of the class fetch again from ip_next, whatever it now is.
\* Anything but a jump or EXIT is an error.
Jump(in) ==
  /\ Decode({OPC_JMP}, in) /\ opcode # EBPF_OP_CALL
  /\ ip_next' = IF IsJump(opcode) /\ Taken(insn, regs) THEN Target ELSE ip_next
  /\ ip' = ip_next
  /\ Goto("OP_FETCH")
  /\ halt' = ~IsJump(opcode)
  /\ error' = (error \/ ~(IsJump(opcode) \/ opcode = EBPF_OP_EXIT))
  /\ keep_op' = 0
  /\ UNCHANGED <<instruction, keep_dst, cpu_div64_ack, regs, ports>>
  /\ Parts(in)

-----------------------------------------------------------------------------
(* The states that wait for a component.                                   *)

\* A faulty DataFetch, which the properties must tell from the real one: stb is
\* not raised.
DataFetchMute(in) ==
  /\ InState("DATA_FETCH", in) /\ ~data_ack(in)
  /\ UNCHANGED <<faults, fetch, states, keeps, acks, regs, ports>>
  /\ Parts(in)

DataFetch(in) ==
  /\ InState("DATA_FETCH", in) /\ ~data_ack(in)
  /\ data' = [data EXCEPT !.stb = TRUE]
  /\ UNCHANGED <<faults, fetch, states, keeps, acks, regs, arsh64, div64, call_handler>>
  /\ Parts(in)

DataAck(in) ==
  /\ InState("DATA_FETCH", in) /\ data_ack(in)
  /\ data' = [stb |-> FALSE, adr |-> data.adr, we |-> FALSE, ww |-> data.ww,
              dat_w |-> data.dat_w]
  /\ cpu_data_ack' = TRUE
  /\ Goto("DECODE")
  /\ UNCHANGED <<faults, fetch, keeps, cpu_div64_ack, regs, arsh64, div64, call_handler>>
  /\ Parts(in)

\* div64_stb is a pulse of one edge; ack is looked at only after it.
DivPending(in) ==
  /\ InState("DIV_PENDING", in)
  /\ div64.stb \/ ~Div!ack
  /\ div64' = [div64 EXCEPT !.stb = FALSE]
  /\ UNCHANGED <<faults, fetch, states, keeps, acks, regs, data, arsh64, call_handler>>
  /\ Parts(in)

DivAck(in) ==
  /\ InState("DIV_PENDING", in) /\ ~div64.stb /\ Div!ack /\ ~div.err
  /\ cpu_div64_ack' = TRUE
  /\ Goto("DECODE")
  /\ UNCHANGED <<faults, fetch, keeps, cpu_data_ack, regs, ports>>
  /\ Parts(in)

\* A zero divisor halts; a division, not a modulo, also clears its register.
DivError(in) ==
  /\ InState("DIV_PENDING", in) /\ ~div64.stb /\ Div!ack /\ div.err
  /\ regs' = IF code(opcode) # ALU_MOD THEN [regs EXCEPT ![dst] = 0] ELSE regs
  /\ Raise
  /\ UNCHANGED <<fetch, states, keeps, acks, ports>>
  /\ Parts(in)

CallPending(in) ==
  /\ InState("CALL_PENDING", in) /\ ~ch.ack
  /\ UNCHANGED <<faults, fetch, states, keeps, acks, regs, ports>>
  /\ Parts(in)

CallReturn(in) ==
  /\ InState("CALL_PENDING", in) /\ ch.ack /\ ~ch.err
  /\ call_handler' = [call_handler EXCEPT !.stb = FALSE]
  /\ Put(0, ch.ret)
  /\ Advance
  /\ UNCHANGED <<faults, keeps, acks, data, arsh64, div64>>
  /\ Parts(in)

CallError(in) ==
  /\ InState("CALL_PENDING", in) /\ ch.ack /\ ch.err
  /\ call_handler' = [call_handler EXCEPT !.stb = FALSE]
  /\ Raise
  /\ UNCHANGED <<fetch, states, keeps, acks, regs, data, arsh64, div64>>
  /\ Parts(in)

-----------------------------------------------------------------------------

\* The program memory's output register at power-up.
BlankWord == [op |-> 0, src |-> 0, dst |-> 0, off |-> 0, imm |-> 0]

\* A program and data are loaded while reset is held.  The instruction register has
\* the first word, or nothing yet when VeBPF_prog_reset_in is held as long as reset,
\* as the test bench does.
Init ==
  \E in \in {i \in Inputs : ~i.reset_n_int} :
    /\ pgm \in Programs /\ mem \in Memories
    /\ halt = FALSE /\ error = FALSE
    /\ ip = StartIp(in) /\ ip_next = StartIp(in)
    /\ pgm_dat_r \in {BlankWord, pgm[Prog!PgmIndex(ip_next)]} /\ instruction = pgm_dat_r
    /\ state_next = "OP_FETCH" /\ state_next_temp = "OP_FETCH"
    /\ keep_op = 0 /\ keep_dst = 0
    /\ cpu_data_ack = FALSE /\ cpu_div64_ack = FALSE
    /\ regs = StartRegs(in)
    /\ data = NoData /\ arsh64 = NoShift /\ div64 = NoDiv /\ call_handler = NoCall
    /\ dm = DataM!ClearRegs
    /\ sh = Shift!ResetRegs /\ div = Div!ResetRegs /\ ch = Helper!ResetRegs
    /\ store = [a \in 0 .. CallDepth - 1 |-> 0]

\* One branch of cpu.v with reset released.
Execute(in) ==
  \/ Halted(in) \/ Fault(in) \/ OpFetch(in) \/ OpFetchDelay(in)
  \/ LddwLow(in) \/ LddwHigh(in) \/ Reserved(in)
  \/ LoadStart(in) \/ LoadDone(in) \/ StoreStart(in) \/ StoreDone(in)
  \/ DivStart(in) \/ DivDone(in) \/ ShiftWait(in) \/ ShiftDone(in)
  \/ Plain(in) \/ Endian(in) \/ BadAlu(in) \/ Call(in) \/ Jump(in)
  \/ DataFetch(in) \/ DataAck(in) \/ DivPending(in) \/ DivAck(in) \/ DivError(in)
  \/ CallPending(in) \/ CallReturn(in) \/ CallError(in)

Next == \E in \in Inputs : Reset(in) \/ Execute(in)

Spec == Init /\ [][Next]_vars

-----------------------------------------------------------------------------

TypeOK ==
  /\ halt \in BOOLEAN /\ error \in BOOLEAN
  /\ ip \in Word(IpBits) /\ ip_next \in Word(IpBits) /\ instruction \in Instructions
  /\ state_next \in States /\ state_next_temp \in {"OP_FETCH", "DECODE"}
  /\ keep_op \in {0, EBPF_OP_LDDW} /\ keep_dst \in Registers
  /\ cpu_data_ack \in BOOLEAN /\ cpu_div64_ack \in BOOLEAN
  /\ regs \in [Registers -> Word(W64)]
  /\ data \in DataM!Ports
  /\ arsh64 \in [stb : BOOLEAN, arith : BOOLEAN, left : BOOLEAN, value : Word(W64),
                 shift : Word(W64)]
  /\ div64 \in [stb : BOOLEAN, dividend : Word(W64), divisor : Word(W64)]
  /\ call_handler \in [stb : BOOLEAN, func : Word(W32), r1 : Word(W64), r2 : Word(W64)]
  /\ pgm \in [Word(PgmBits) -> Instructions] /\ pgm_dat_r \in Instructions
  /\ dm \in DataM!Registers /\ mem \in [Word(AddrBits) -> Word(ByteBits)]
  /\ sh \in Shift!Registers /\ div \in Div!Registers
  /\ ch \in Helper!Registers /\ store \in [0 .. CallDepth - 1 -> Word(W64)]

Executing == {"DECODE", "DATA_FETCH", "DIV_PENDING", "CALL_PENDING"}

\* While an instruction executes, for however many edges its component takes, the
\* instruction register holds the program's word at ip, ip_next the address after
\* it, and the program memory's output register the word there: the two-edge fetch
\* (cpu.v 1091-1106) never lets a word prefetched past a jump, before a reset, or
\* for the other half of a LDDW be executed as another one.
PrefetchCoherent ==
  state_next \in Executing =>
    /\ instruction = pgm[Prog!PgmIndex(ip)]
    /\ ip_next = (ip + 1) % 2^IpBits
    /\ pgm_dat_r = pgm[Prog!PgmIndex(ip_next)]

\* The flags that tell a second decode from a first (cpu.v 362) and the shifter's
\* ack are only up for an instruction that asked for them: an answer is never taken
\* by the instruction after, nor the instruction's own request skipped.
AcksBelong ==
  /\ cpu_data_ack => state_next = "DECODE" /\ opclass(opcode) \in {OPC_LDX, OPC_ST, OPC_STX}
  /\ cpu_div64_ack => state_next = "DECODE" /\ IsDiv(opcode)
  /\ sh.ack => state_next = "DECODE" /\ IsShift(opcode) /\ arsh64.stb

\* The acks of the data memory and of the call handler, both of which outlast the
\* request by an edge, are down again when the next access or call is decoded.
NoStaleAck ==
  state_next = "DECODE" => (dm.ack => cpu_data_ack) /\ ~ch.ack

\* Once halted, with the host's port off, nothing a component still had in flight
\* changes what the host reads: the registers, error, the data memory, the store.
HaltFreezes == [][halt /\ halt' => UNCHANGED <<regs, error, mem, store>>]_vars

\* "Check for incomplete LDDW instruction" (cpu.v 1063): a word is taken as the
\* second half of a LDDW only if it is one, its opcode being 0.
LddwComplete ==
  state_next = "DECODE" /\ keep_op # 0 /\ ~BadFields => instruction.op = 0
=============================================================================
