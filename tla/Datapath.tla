------------------------------ MODULE Datapath -------------------------------
(***************************************************************************)
(* The arithmetic of cpu.v against that of the reference interpreter, one  *)
(* instruction at a time on any operands.  The result of a shift is what   *)
(* the shifter must give for the request cpu.v makes of it (ShiftPort),    *)
(* that of a division what the divider must give (Divider).                *)
(***************************************************************************)
EXTENDS Alu

CONSTANTS
  Words32,    \* the immediates to try
  Words64,    \* the register values to try
  NoWord      \* no instruction

ASSUME OperandsAssumption == Words32 \subseteq Word(W32) /\ Words64 \subseteq Word(W64)

VARIABLES
  i,    \* the instruction being decoded, or NoWord
  r     \* the registers

datapath == <<i, r>>

Shift == INSTANCE ShiftPort WITH sh <- {}, port <- {}, asked <- {}, Requests <- {}
Ref == INSTANCE Ubpf WITH
         pc <- 0, reg <- r, pgm <- [n \in 0 .. 1 |-> i], mem <- {}, status <- "run",
         PgmBits <- 1, IpBits <- 1, AddrBits <- 1, OffsetBits <- 1,
         Functions <- {}, Starts <- {}, Clobbered <- {}, Reloads <- FALSE

Opcodes == {op \in 0 .. 255 :
              IsPlain(op) \/ IsNeg(op) \/ IsDiv(op) \/ IsShift(op) \/ IsEndian(op) \/ IsJump(op)}

\* Register 1 is the destination; the source is register 2, or 1 itself.
Idle == i = NoWord /\ r = [n \in 0 .. 10 |-> 0]
DatapathInit == Idle
Decode(op, s, a, b, k) ==
  /\ i' = [op |-> op, src |-> s, dst |-> 1, off |-> 0, imm |-> k]
  /\ r' = [n \in 0 .. 10 |-> IF n = 1 THEN a ELSE IF n = 2 THEN b ELSE 0]
Complete == i # NoWord /\ i' = NoWord /\ r' = [n \in 0 .. 10 |-> 0]

DatapathNext ==
  \/ Idle /\ \E op \in Opcodes, s \in {1, 2}, a \in Words64 :
       \E b \in IF s = 1 THEN {0} ELSE Words64,
          k \in IF UsesReg(op) /\ ~IsEndian(op) THEN {0} ELSE Words32 : Decode(op, s, a, b, k)
  \/ Complete

DatapathSpec == DatapathInit /\ [][DatapathNext]_datapath

-----------------------------------------------------------------------------

Decoded == i # NoWord
Is32 == opclass(i.op) = OPC_ALU
DivRequest == IF Is32 THEN DivRequest32(i, r) ELSE DivRequest64(i, r)

\* What cpu.v writes to regs[dst]; for a division, if the divisor is not zero.
CpuResult ==
  CASE IsDiv(i.op) -> IF code(i.op) = ALU_DIV THEN DivRequest.dividend \div DivRequest.divisor
                      ELSE DivRequest.dividend % DivRequest.divisor
    [] IsShift(i.op) -> IF Is32 THEN Low(Shift!ShiftOf(ShiftRequest32(i, r)), W32)
                        ELSE Shift!ShiftOf(ShiftRequest64(i, r))
    [] IsEndian(i.op) -> IF UsesReg(i.op) THEN BE(r[i.dst], i.imm) ELSE LE(r[i.dst], i.imm)
    [] OTHER -> IF Is32 THEN Alu32(i, r) ELSE Alu64(i, r)

\* Decoded to a result: a valid word with a divisor that is not zero.
Computes ==
  /\ Decoded /\ opclass(i.op) \in {OPC_ALU, OPC_ALU64}
  /\ IsEndian(i.op) => i.imm \in EndianWidths
  /\ IsDiv(i.op) => DivRequest.divisor # 0
Agrees == CpuResult \in Ref!Results
Jumps == Decoded /\ IsJump(i.op)
JumpAgrees == Taken(i, r) = Ref!Holds

\* The four places where cpu.v computes something else than the interpreter.
IsNeg64 == IsNeg(i.op) /\ ~Is32
IsMov32 == i.op = Opcode(OPC_ALU, TRUE, ALU_MOV)
IsSignedJump == code(i.op) \in {JMP_JSGT, JMP_JSGE, JMP_JSLT, JMP_JSLE}
TakesSignedImm ==
  /\ ~UsesReg(i.op)
  /\ \/ opclass(i.op) = OPC_ALU64 /\ ~IsNeg(i.op)
     \/ opclass(i.op) = OPC_JMP /\ code(i.op) \in {JMP_JEQ, JMP_JNE, JMP_JSET}
Negative32(x) == x >= 2^(W32 - 1)
Narrow(x) == SignExtend(Low(x, W32), W32, W64) = x

\* Every other ALU instruction gives what ubpf_exec gives (ubpf_vm.c 157-368) for
\* every operand, shifts past the width and divisors with a zero low half included;
\* so do those four on operands that do not tell the two apart.
ResultAgrees ==
  /\ Computes
  /\ IsNeg64 => i.src = i.dst
  /\ IsMov32 => r[i.src] < 2^W32
  /\ TakesSignedImm => ~Negative32(i.imm)
  => Agrees

\* A jump is taken when ubpf_exec takes it (ubpf_vm.c 443-555).
TakenAgrees ==
  /\ Jumps
  /\ TakesSignedImm => ~Negative32(i.imm)
  /\ IsSignedJump => Narrow(r[i.dst]) /\ (UsesReg(i.op) => Narrow(r[i.src]))
  => JumpAgrees

\* cpu.v refuses a division exactly when the interpreter does, or may since the
\* divisor it computes with is zero (ubpf_vm.c 186-191, 307-312, 713-720).
ZeroAgrees == Decoded /\ IsDiv(i.op) => (DivRequest.divisor = 0) = Ref!ZeroDivisor

\* "fully compliant with the eBPF instruction set architecture" (README.md 20):
\* whatever the operands, an ALU instruction gives what ubpf_exec gives (ubpf_vm.c
\* 157-368) and a jump is taken when ubpf_exec takes it (ubpf_vm.c 443-555).
Compliant == (Computes => Agrees) /\ (Jumps => JumpAgrees)
=============================================================================
