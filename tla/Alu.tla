--------------------------------- MODULE Alu ---------------------------------
(***************************************************************************)
(* The datapath of cpu.v's STATE_DECODE: what each ALU and jump opcode     *)
(* computes from the registers and the immediate.  i is the instruction,   *)
(* r the register file.  Immediates are unsigned wires of half a register, *)
(* so wherever they meet a register they are extended with zeros.          *)
(***************************************************************************)
EXTENDS Words, Ebpf

\* The second operand: regs[src] or the immediate.
Operand(i, r) == IF UsesReg(i.op) THEN r[i.src] ELSE i.imm

\* The operations both classes compute alike, each on its own width w.
Compute(c, d, s, w) ==
  CASE c = ALU_ADD -> Low(d + s, w)
    [] c = ALU_SUB -> Low(d - s, w)
    [] c = ALU_MUL -> Low(d * s, w)
    [] c = ALU_OR -> Low(Or(d, s), w)
    [] c = ALU_AND -> Low(And(d, s), w)
    [] c = ALU_XOR -> Low(Xor(d, s), w)

\* The 32-bit class masks its results, except EBPF_OP_MOV_REG, which copies the
\* whole register.
Alu32(i, r) ==
  CASE code(i.op) = ALU_MOV -> Operand(i, r)
    [] code(i.op) = ALU_NEG -> Low(-r[i.dst], W32)
    [] OTHER -> Compute(code(i.op), r[i.dst], Operand(i, r), W32)

\* EBPF_OP_NEG64 negates regs[src], not regs[dst].
Alu64(i, r) ==
  CASE code(i.op) = ALU_MOV -> Operand(i, r)
    [] code(i.op) = ALU_NEG -> Low(-r[i.src], W64)
    [] OTHER -> Compute(code(i.op), r[i.dst], Operand(i, r), W64)

\* The immediates EBPF_OP_LE and EBPF_OP_BE take: 16, 32 and 64 with 8-bit bytes.
EndianWidths == {W16, W32, W64}
LE(d, imm) == Low(d, imm)

\* The low imm bits of d with their bytes in the opposite order.
BE(d, imm) ==
  LET rev[n \in 0 .. 8] == IF n = 0 THEN 0 ELSE rev[n - 1] * 2^ByteBits + Byte(d, n - 1)
  IN rev[imm \div ByteBits]

\* A faulty DivRequest32, which the properties must tell from the real one: the
\* divisor is not masked.
DivRequestWide(i, r) == [stb |-> TRUE, dividend |-> Low(r[i.dst], W32),
                         divisor |-> Operand(i, r)]

\* The operands each class hands to the divider.
DivRequest32(i, r) == [stb |-> TRUE, dividend |-> Low(r[i.dst], W32),
                       divisor |-> Low(Operand(i, r), W32)]
DivRequest64(i, r) == [stb |-> TRUE, dividend |-> r[i.dst], divisor |-> Operand(i, r)]

\* A faulty ShiftRequest32, which the properties must tell from the real one: an
\* arithmetic shift is not sign-extended.
ShiftRequestZero(i, r) ==
  [stb |-> TRUE, arith |-> code(i.op) = ALU_ARSH, left |-> code(i.op) = ALU_LSH,
   value |-> Low(r[i.dst], W32), shift |-> Low(Operand(i, r), W32)]

\* The inputs each class gives the shifter, which always shifts a full register.
ShiftRequest32(i, r) ==
  [stb |-> TRUE, arith |-> code(i.op) = ALU_ARSH, left |-> code(i.op) = ALU_LSH,
   value |-> IF code(i.op) = ALU_ARSH THEN SignExtend(Low(r[i.dst], W32), W32, W64)
             ELSE Low(r[i.dst], W32),
   shift |-> Low(Operand(i, r), W32)]
ShiftRequest64(i, r) ==
  [stb |-> TRUE, arith |-> code(i.op) = ALU_ARSH, left |-> code(i.op) = ALU_LSH,
   value |-> r[i.dst], shift |-> Operand(i, r)]

\* A faulty Half_s, which the properties must tell from the real one: without its
\* sign.
HalfUnsigned(x) == Low(x, W32)

\* dst_reg_32_s, src_reg_32_s and immediate_s: the low half, with its sign.
Half_s(x) == Signed(Low(x, W32), W32)

\* Whether a jump is taken.  The signed comparisons look at the low halves only.
Taken(i, r) ==
  LET d == r[i.dst]
      s == Operand(i, r)
      ds == Half_s(d)
      ss == Half_s(s)
      c == code(i.op)
  IN CASE c = JMP_JA -> TRUE
       [] c = JMP_JEQ -> d = s
       [] c = JMP_JGT -> d > s
       [] c = JMP_JGE -> d >= s
       [] c = JMP_JSET -> And(d, s) # 0
       [] c = JMP_JNE -> d # s
       [] c = JMP_JSGT -> ds > ss
       [] c = JMP_JSGE -> ds >= ss
       [] c = JMP_JLT -> d < s
       [] c = JMP_JLE -> d <= s
       [] c = JMP_JSLT -> ds < ss
       [] c = JMP_JSLE -> ds <= ss
=============================================================================
