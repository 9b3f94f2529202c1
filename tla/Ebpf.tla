-------------------------------- MODULE Ebpf ---------------------------------
(***************************************************************************)
(* The opcode map of cpu.v (its parameters, lines 27 to 248).  An          *)
(* instruction word is kept decoded, as the record of its five fields; an  *)
(* opcode keeps its 8-bit value, and the fields of an opcode are taken     *)
(* apart with arithmetic as the parameters put them together.              *)
(***************************************************************************)
EXTENDS Integers

MAX_REGS == 11

OPC_LD == 0
OPC_LDX == 1
OPC_ST == 2
OPC_STX == 3
OPC_ALU == 4
OPC_JMP == 5
OPC_RES == 6
OPC_ALU64 == 7

ALU_ADD == 0
ALU_SUB == 1
ALU_MUL == 2
ALU_DIV == 3
ALU_OR == 4
ALU_AND == 5
ALU_LSH == 6
ALU_RSH == 7
ALU_NEG == 8
ALU_MOD == 9
ALU_XOR == 10
ALU_MOV == 11
ALU_ARSH == 12
ALU_ENDC == 13

JMP_JA == 0
JMP_JEQ == 1
JMP_JGT == 2
JMP_JGE == 3
JMP_JSET == 4
JMP_JNE == 5
JMP_JSGT == 6
JMP_JSGE == 7
JMP_CALL == 8
JMP_EXIT == 9
JMP_JLT == 10
JMP_JLE == 11
JMP_JSLT == 12
JMP_JSLE == 13

EBPF_OP_LDDW == 24     \* OPC_LD | EBPF_MODE_IMM | EBPF_SIZE_DW
EBPF_OP_CALL == 133    \* OPC_JMP | 0x80
EBPF_OP_EXIT == 149    \* OPC_JMP | 0x90

\* The fields of an opcode: its class, its operation, EBPF_SRC_REG.
opclass(op) == op % 8
code(op) == op \div 16
UsesReg(op) == (op \div 8) % 2 = 1

\* OPC_xxx | src bit | operation: an opcode from its fields.
Opcode(class, reg, c) == class + (IF reg THEN 8 ELSE 0) + 16 * c

\* Loads and stores have EBPF_MODE_MEM, 0x60, above their size bits.
IsMem(op) == op \div 8 \in 12 .. 15
Bytes(op) == CASE op \div 8 = 12 -> 4    \* EBPF_SIZE_W
               [] op \div 8 = 13 -> 2    \* EBPF_SIZE_H
               [] op \div 8 = 14 -> 1    \* EBPF_SIZE_B
               [] op \div 8 = 15 -> 8    \* EBPF_SIZE_DW

\* The operations with both an IMM and a REG opcode, in each of the classes.
PlainOps == {ALU_ADD, ALU_SUB, ALU_MUL, ALU_OR, ALU_AND, ALU_XOR, ALU_MOV}
DivOps == {ALU_DIV, ALU_MOD}
ShiftOps == {ALU_LSH, ALU_RSH, ALU_ARSH}
CondOps == {JMP_JEQ, JMP_JGT, JMP_JGE, JMP_JSET, JMP_JNE, JMP_JSGT, JMP_JSGE,
            JMP_JLT, JMP_JLE, JMP_JSLT, JMP_JSLE}

IsDiv(op) == opclass(op) \in {OPC_ALU, OPC_ALU64} /\ code(op) \in DivOps
IsShift(op) == opclass(op) \in {OPC_ALU, OPC_ALU64} /\ code(op) \in ShiftOps
IsEndian(op) == opclass(op) = OPC_ALU /\ code(op) = ALU_ENDC
IsNeg(op) == opclass(op) \in {OPC_ALU, OPC_ALU64} /\ code(op) = ALU_NEG /\ ~UsesReg(op)
IsPlain(op) == opclass(op) \in {OPC_ALU, OPC_ALU64} /\ code(op) \in PlainOps
IsJump(op) ==
  /\ opclass(op) = OPC_JMP
  /\ code(op) \in CondOps \/ (code(op) = JMP_JA /\ ~UsesReg(op))
=============================================================================
