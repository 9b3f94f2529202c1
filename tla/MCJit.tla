-------------------------------- MODULE MCJit --------------------------------
(***************************************************************************)
(* Programs around one instruction of each kind, on one-bit bytes.  Left   *)
(* out is where the compiler is known to differ from the interpreter:      *)
(* EBPF_OP_LE, which it ignores; the 32-bit EBPF_OP_MOV_REG of a register  *)
(* with an upper half, which it copies; 32-bit left shifts by more than    *)
(* the width; unsigned jumps with a negative immediate, which it extends   *)
(* by the sign; a multiplication by the immediate 0, which it takes for    *)
(* one by the source register; a division by an immediate while the        *)
(* source register, which it tests instead, is 0; and a multiplication or  *)
(* division by a register with an immediate in it, which it uses instead.  *)
(***************************************************************************)
EXTENDS Jit

Insn(op, s, d, o, k) == [op |-> op, src |-> s, dst |-> d, off |-> o, imm |-> k]
Exit == Insn(EBPF_OP_EXIT, 0, 0, 0, 0)
Program(text) == [text |-> text, rels |-> <<>>]
Back(n) == 2^OffsetBits - n
Classes == {OPC_ALU, OPC_ALU64}

\* With register_map itself, r0 is in RAX, r3 in RDX and r4 in R9.
Divisions ==
  {Insn(Opcode(class, TRUE, c), s, d, 0, 0) :
     class \in Classes, c \in DivOps \cup {ALU_MUL}, s \in {0, 3, 4}, d \in {0, 2, 3}}
OtherAlu ==
  {Insn(Opcode(class, TRUE, c), 3, 2, 0, 0) : class \in Classes, c \in PlainOps \ {ALU_MUL}}
    \cup {Insn(Opcode(class, FALSE, c), 0, 2, 0, k) :
            class \in Classes, c \in ShiftOps \cup {ALU_NEG}, k \in {1, 3}}
    \cup {Insn(Opcode(class, FALSE, c), 0, 2, 0, 15) : class \in Classes, c \in PlainOps \ {ALU_MUL}}
    \cup {Insn(Opcode(OPC_ALU, TRUE, ALU_ENDC), 0, 2, 0, k) : k \in {W16, W32, W64}}
Copies32 == {i \in OtherAlu : i.op = Opcode(OPC_ALU, TRUE, ALU_MOV)}

\* A count for the shifts, and something to find in a source register that the
\* divisions by an immediate do not use.
Given(k) == Insn(Opcode(OPC_ALU64, FALSE, ALU_MOV), 0, 3, 0, k)
WithSource ==
  {Insn(Opcode(class, TRUE, c), 3, 2, 0, 0) : class \in Classes, c \in ShiftOps}
    \cup {Insn(Opcode(class, FALSE, c), 3, d, 0, k) :
            class \in Classes, c \in DivOps \cup {ALU_MUL}, d \in {0, 3}, k \in {3, 15}}
Straight ==
  {Program(<<i, Exit>>) : i \in Divisions \cup (OtherAlu \ Copies32)}
    \cup {Program(<<Given(2), i, Exit>>) : i \in WithSource}

\* A store, a division that pushes on the stack, and the load of what was stored, in
\* the frame and in the packet.
Spill ==
  {Program(<<Insn(96 + n + class, 2, b, o, 9), Insn(Opcode(OPC_ALU64, TRUE, ALU_DIV), 3, 2, 0, 0),
             Insn(96 + n + OPC_LDX, b, 4, o, 0), Exit>>) :
     n \in {0, 8, 16, 24}, class \in {OPC_ST, OPC_STX}, b \in {1, 10}, o \in {Back(8)}}

Jumps ==
  {Program(<<i, Insn(Opcode(OPC_ALU64, FALSE, ALU_ADD), 0, 0, 0, 1), Exit>>) :
     i \in {Insn(Opcode(OPC_JMP, TRUE, c), 3, 2, 1, 0) : c \in CondOps}
             \cup {Insn(Opcode(OPC_JMP, FALSE, c), 0, 2, 1, 5) : c \in CondOps \cup {JMP_JA}}}

\* Two exits; a loop; LDDW, jumps over it, into it, and past the end.
Lddw == <<Insn(EBPF_OP_LDDW, 0, 2, 0, 9), Insn(0, 0, 0, 0, 11)>>
JumpIf(o) == Insn(Opcode(OPC_JMP, FALSE, JMP_JEQ), 0, 3, o, 0)
Shapes ==
  {Program(<<JumpIf(1), Exit, Insn(Opcode(OPC_ALU64, TRUE, ALU_MOD), 3, 0, 0, 0), Exit>>),
   Program(<<Insn(Opcode(OPC_ALU64, FALSE, ALU_ADD), 0, 3, 0, 1),
             Insn(Opcode(OPC_JMP, FALSE, JMP_JLT), 0, 3, Back(2), 5), Exit>>),
   Program(Lddw \o <<Exit>>),
   Program(<<JumpIf(Back(1)), Exit>>), Program(<<JumpIf(1), Exit>>)}
    \cup {Program(<<JumpIf(o)>> \o Lddw \o <<Exit>>) : o \in 0 .. 2}

CallWord(n) == Insn(EBPF_OP_CALL, 0, 0, 0, n)
Linked ==
  {Program(<<CallWord(n), Insn(Opcode(OPC_ALU64, TRUE, ALU_ADD), 6, 0, 0, 0), Exit>>) : n \in 0 .. 2}
    \cup {[text |-> <<CallWord(0), CallWord(15), Exit>>,
           rels |-> <<[at |-> 1, name |-> n], [at |-> a, name |-> "f"]>>] :
             n \in {"f", "g"}, a \in {0, 3}}

MCFiles == Straight \cup Spill \cup Jumps \cup Shapes \cup Linked
MCMaps == {set_register_offset(n) : n \in 0 .. 10}

\* The packet is at 8, the stack ends at 104, above which is the caller's.
MCMemory == [a \in Addr |-> IF a >= 104 THEN 1 ELSE 0]
Caller(rax, rsi, rdx, r9) ==
  [x |-> [r \in 0 .. 15 |-> CASE r = RAX -> rax [] r = RSI -> rsi [] r = RDX -> rdx [] r = R9 -> r9
                              [] r = RDI -> 16 [] r = RSP -> 104 [] OTHER -> 32 + r],
   mem |-> MCMemory]
MCCalls == {Caller(3, 131, 2, 240), Caller(255, 8, 0, 15)}
=============================================================================
