------------------------------- MODULE MCHost --------------------------------
(***************************************************************************)
(* Programs of three words, on one-bit bytes: registers of 8 bits,         *)
(* immediates of 4, a data memory of 8 bytes and a program memory of 4     *)
(* words that repeats once in the range of ip.                             *)
(***************************************************************************)
EXTENDS Host

Insn(op, s, d, o, k) == [op |-> op, src |-> s, dst |-> d, off |-> o, imm |-> k]
ExitWord == Insn(EBPF_OP_EXIT, 0, 0, 0, 0)
ZeroWord == Insn(0, 0, 0, 0, 5)    \* a LDDW's second word
BadStore == Insn(3, 2, 1, 7, 0)    \* OPC_STX with a bad opcode

Pin(reset_n_int, rule, r1, r2) ==
  [reset_n_int |-> reset_n_int, run_next_selected_rule_en |-> rule # 0,
   ip_next_rule |-> rule, args |-> <<r1, r2, 0, 0, 0>>,
   csr_ctl1 |-> FALSE, host |-> NoData,
   prog_reset |-> FALSE, prog_write_enable |-> FALSE, prog_addr |-> 0,
   prog_data |-> ExitWord]

MCMemories == {[a \in Word(AddrBits) |-> (a \div 2) % 2]}

\* One word for each way through the FSM, on r1 and r2.
Kinds ==
  {Insn(Opcode(OPC_ALU64, TRUE, ALU_ADD), 2, 1, 0, 0),
   Insn(Opcode(OPC_ALU64, TRUE, ALU_ARSH), 2, 1, 0, 0),
   Insn(Opcode(OPC_ALU, FALSE, ALU_LSH), 0, 2, 0, 1),
   Insn(Opcode(OPC_ALU64, TRUE, ALU_DIV), 2, 1, 0, 0),
   Insn(Opcode(OPC_ALU, TRUE, ALU_MOD), 1, 2, 0, 0),
   Insn(Opcode(OPC_ALU, TRUE, ALU_ENDC), 0, 1, 0, W32),
   Insn(Opcode(OPC_ALU, TRUE, ALU_ENDC), 0, 1, 0, W32 + 1),
   Insn(121, 2, 1, 3, 0),       \* LDXDW r1, [r2+3]
   Insn(105, 1, 2, 0, 0),       \* LDXH r2, [r1]
   Insn(97, 10, 11, 0, 0),      \* LDXW with a bad register
   Insn(17, 1, 2, 0, 0),        \* OPC_LDX with a bad opcode
   Insn(98, 0, 1, 2, 7),        \* STW [r1+2], 7
   Insn(123, 2, 1, 7, 0),       \* STXDW [r1-1], r2
   BadStore,
   Insn(EBPF_OP_LDDW, 0, 1, 0, 9),
   ZeroWord,
   Insn(EBPF_OP_CALL, 0, 0, 0, Helper!FuncRead),
   Insn(EBPF_OP_CALL, 0, 0, 0, Helper!FuncStore),
   Insn(EBPF_OP_CALL, 0, 0, 0, Helper!FuncBase),
   Insn(Opcode(OPC_JMP, TRUE, JMP_JGT), 2, 1, 1, 0),
   Insn(Opcode(OPC_JMP, TRUE, JMP_JA), 0, 0, 0, 0),
   Insn(Opcode(OPC_RES, FALSE, 0), 0, 0, 0, 0),
   ExitWord}

\* validate wants opcode 0 after a LDDW; cpu.v only tests two bits of it, and the
\* words it lets through by mistake are left to LddwPrograms.
Paired(p) ==
  \A n \in 1 .. 3 : p[n].op = EBPF_OP_LDDW => p[n + 1].op = 0 \/ And(p[n + 1].op, 24) # 0

Words3(kinds) == {p \in {<<a, b, c, ExitWord>> : a, b, c \in kinds} : Paired(p)}
AsMemory(p) == [n \in 0 .. 3 |-> p[n + 1]]

\* Any two of them in a row, and a load or what a LDDW needs.
Last == {ZeroWord, Insn(121, 2, 1, 3, 0)}
FsmPrograms == {AsMemory(p) : p \in {q \in Words3(Kinds) : q[3] \in Last}}

\* Two rules in one program memory, the second at word 2, started in any order
\* with different arguments and reset at any moment.  The middle word ends the first
\* rule, is the rest of its LDDW, or stops it right behind a store.
RulePrograms ==
  {AsMemory(<<a, b, c, ExitWord>>) : a \in Kinds, b \in {ExitWord, ZeroWord, BadStore}, c \in Kinds}
RuleInputs == {Pin(FALSE, 0, 3, 2), Pin(FALSE, 2, 200, 0), Pin(TRUE, 0, 0, 0)}

\* Every opcode the processor and the interpreter agree on for all operands, with
\* boundary immediates.  Immediates with the sign bit set are left out where one
\* extends them by it and the other with zeros.
AluCodes == PlainOps \cup DivOps \cup ShiftOps
Unsigned == CondOps \ {JMP_JSGT, JMP_JSGE, JMP_JSLT, JMP_JSLE}
SomeImm == {0, 1, 2, 4, 7, 8, 15}
SmallImm == {0, 1, 2, 4, 7}
Every ==
  {Insn(Opcode(OPC_ALU, FALSE, c), 0, 1, 0, k) : c \in AluCodes, k \in SomeImm}
    \cup {Insn(Opcode(OPC_ALU, TRUE, c), 2, 1, 0, 0) : c \in AluCodes \ {ALU_MOV}}
    \cup {Insn(Opcode(OPC_ALU, x, ALU_ENDC), 0, 1, 0, k) : x \in BOOLEAN, k \in SomeImm}
    \cup {Insn(Opcode(OPC_ALU, FALSE, ALU_NEG), 0, 1, 0, 0)}
    \cup {Insn(Opcode(OPC_ALU64, FALSE, c), 0, 1, 0, k) : c \in AluCodes, k \in SmallImm}
    \cup {Insn(Opcode(OPC_ALU64, TRUE, c), 2, 1, 0, 0) : c \in AluCodes}
    \cup {Insn(Opcode(OPC_ALU64, FALSE, ALU_NEG), 1, 1, 0, 0)}
    \cup {Insn(96 + n + class, 2, 1, 6, k) :
            n \in {0, 8, 16, 24}, class \in {OPC_LDX, OPC_ST, OPC_STX}, k \in {5}}
    \cup {Insn(Opcode(OPC_JMP, FALSE, c), 0, 1, 1, k) : c \in Unsigned \cup {JMP_JA}, k \in SmallImm}
    \cup {Insn(Opcode(OPC_JMP, TRUE, c), 2, 1, 1, 0) : c \in Unsigned}
OpcodePrograms == {AsMemory(<<a, ExitWord, ExitWord, ExitWord>>) : a \in Every}
HostPrograms == FsmPrograms \cup OpcodePrograms
HostInputs ==
  {Pin(FALSE, 0, p[1], p[2]) : p \in {<<3, 2>>, <<131, 0>>, <<143, 255>>}}
    \cup {Pin(TRUE, 0, 0, 0)}

\* What RunsAsReference asks of a host is true of this one.
ASSUME HostAgrees == Programs = HostPrograms /\ Inputs = HostInputs => Agreed

\* A LDDW followed by each kind of word.
LddwPrograms ==
  {AsMemory(<<Insn(EBPF_OP_LDDW, 0, 1, 0, 9), a, ExitWord, ExitWord>>) : a \in Kinds}
=============================================================================
