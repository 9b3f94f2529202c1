-------------------------------- MODULE Ubpf ---------------------------------
(***************************************************************************)
(* What an eBPF program means: one step per instruction, as the reference  *)
(* interpreter the repository carries executes it (ubpf_exec and validate, *)
(* tools/ubpf/vm/ubpf_vm.c).  cpu.v is meant to implement this machine.    *)
(*                                                                         *)
(* inst.imm is a signed int here: it is extended by its sign wherever it   *)
(* meets a 64-bit register, unless cast to uint32_t.                       *)
(*                                                                         *)
(* Two things are those of the processor and not of a C program: pc is     *)
(* IpBits wide and the program memory repeats every 2^PgmBits words, and   *)
(* data addresses count modulo 2^AddrBits instead of being bounds-checked. *)
(***************************************************************************)
EXTENDS Words, Ebpf

CONSTANTS OffsetBits, AddrBits, IpBits, PgmBits,
  Functions,    \* the registered external functions
  Clobbered,    \* the registers, r0 aside, that a call may leave with other values
  Reloads,      \* whether the host may load a program and data before it starts one
  Starts        \* the initial pc and registers, [pc, reg]

VARIABLES
  pc, reg, mem,
  status,    \* "run", "exit" or "fail"
  pgm        \* the loaded program

vars == <<pc, reg, mem, status, pgm>>

Bus == INSTANCE DataMem WITH dm <- {}

Instructions == [op : 0 .. 255, src : 0 .. 15, dst : 0 .. 15,
                 off : Word(OffsetBits), imm : Word(W32)]
inst == pgm[pc % 2^PgmBits]
following == pgm[(pc + 1) % 2^PgmBits]
imm64(i) == SignExtend(i.imm, W32, W64)
u32(x) == Low(x, W32)
operand == IF UsesReg(inst.op) THEN reg[inst.src] ELSE imm64(inst)

-----------------------------------------------------------------------------
(* validate: the words that may be executed.                               *)

KnownOpcode(op) ==
  \/ IsPlain(op) \/ IsNeg(op) \/ IsDiv(op) \/ IsShift(op) \/ IsEndian(op)
  \/ opclass(op) \in {OPC_LDX, OPC_ST, OPC_STX} /\ IsMem(op)
  \/ op \in {EBPF_OP_LDDW, EBPF_OP_CALL, EBPF_OP_EXIT}
  \/ IsJump(op)

IsStore(op) == opclass(op) \in {OPC_ST, OPC_STX}

\* r10 may be the base of a store and nothing else.
RegistersOK(i) == i.src <= 10 /\ (i.dst <= 9 \/ (IsStore(i.op) /\ i.dst = 10))

\* The word i, followed by the word j.
Valid(i, j) ==
  /\ KnownOpcode(i.op)
  /\ RegistersOK(i)
  /\ IsEndian(i.op) => i.imm \in {W16, W32, W64}
  /\ i.op = EBPF_OP_LDDW => j.op = 0
  /\ i.op = EBPF_OP_CALL => i.imm \in Functions
  /\ IsDiv(i.op) /\ ~UsesReg(i.op) => i.imm # 0

-----------------------------------------------------------------------------
(* ubpf_exec: the values an instruction may give its destination.  A shift *)
(* by the width or more is undefined in C, and may give anything.          *)

Any == Word(W64)
DefinedShift(n, w, x) == IF n < w THEN {x} ELSE Any

Arithmetic(c, d, s) ==
  CASE c = ALU_ADD -> Low(d + s, W64)
    [] c = ALU_SUB -> Low(d - s, W64)
    [] c = ALU_MUL -> Low(d * s, W64)
    [] c = ALU_OR -> Or(d, s)
    [] c = ALU_AND -> And(d, s)
    [] c = ALU_XOR -> Xor(d, s)
    [] c = ALU_MOV -> s
    [] c = ALU_NEG -> Low(-d, W64)

\* Arithmetic right shift of a w-bit value: the quotient rounded down.
Arsh(x, n, w) == Low(Signed(x, w) \div 2^n, w)

Shifted64(c, d, n) ==
  CASE c = ALU_LSH -> DefinedShift(n, W64, ShiftLeft(d, n, W64))
    [] c = ALU_RSH -> DefinedShift(n, W64, ShiftRight(d, n, W64))
    [] c = ALU_ARSH -> IF n < W64 THEN {Arsh(d, n, W64)} ELSE Any

\* A 32-bit left shift is computed in 64 bits, the right shifts in 32.
Shifted32(c, d, n) ==
  {u32(x) : x \in
    CASE c = ALU_LSH -> DefinedShift(n, W64, ShiftLeft(d, n, W64))
      [] c = ALU_RSH -> DefinedShift(n, W32, ShiftRight(u32(d), n, W32))
      [] c = ALU_ARSH -> IF n < W32 THEN {Arsh(u32(d), n, W32)} ELSE Any}

\* Which amount is masked, and which is not, differs between the two right shifts.
Amount32 == IF code(inst.op) = ALU_ARSH /\ UsesReg(inst.op) THEN u32(operand) ELSE operand

Divided(c, d, s) == IF c = ALU_DIV THEN d \div s ELSE d % s

\* htobe16, htobe32 and htobe64 on a little-endian host, whose htole do nothing
\* but truncate.
Swapped(x, n) ==
  LET bytes == n \div ByteBits
      sum[k \in 0 .. bytes] ==
        IF k = 0 THEN 0
        ELSE sum[k - 1] + Byte(x, k - 1) * 2^((bytes - k) * ByteBits)
  IN sum[bytes]

Results ==
  LET c == code(inst.op)
      d == reg[inst.dst]
  IN IF IsEndian(inst.op)
     THEN {IF UsesReg(inst.op) THEN Swapped(d, inst.imm) ELSE Low(d, inst.imm)}
     ELSE IF opclass(inst.op) = OPC_ALU
     THEN IF IsDiv(inst.op) THEN {Divided(c, u32(d), u32(operand))}
          ELSE IF IsShift(inst.op) THEN Shifted32(c, d, Amount32)
          ELSE {u32(Arithmetic(c, d, operand))}
     ELSE IF IsDiv(inst.op) THEN {Divided(c, d, operand)}
          ELSE IF IsShift(inst.op) THEN Shifted64(c, d, operand)
          ELSE {Arithmetic(c, d, operand)}

\* Conditions.  The unsigned orders cast the immediate to uint32_t.
Holds ==
  LET d == reg[inst.dst]
      s == operand
      us == IF UsesReg(inst.op) THEN reg[inst.src] ELSE inst.imm
      ds == Signed(d, W64)
      ss == Signed(s, W64)
      c == code(inst.op)
  IN CASE c = JMP_JA -> TRUE
       [] c = JMP_JEQ -> d = s
       [] c = JMP_JGT -> d > us
       [] c = JMP_JGE -> d >= us
       [] c = JMP_JLT -> d < us
       [] c = JMP_JLE -> d <= us
       [] c = JMP_JSET -> And(d, s) # 0
       [] c = JMP_JNE -> d # s
       [] c = JMP_JSGT -> ds > ss
       [] c = JMP_JSGE -> ds >= ss
       [] c = JMP_JSLT -> ds < ss
       [] c = JMP_JSLE -> ds <= ss

-----------------------------------------------------------------------------

\* Division by zero is tested on the whole register, and what a 32-bit division then
\* does with a divisor that is zero only in its low half is undefined in C.  Here it
\* stops as well.
ZeroDivisor ==
  IsDiv(inst.op) /\ (IF opclass(inst.op) = OPC_ALU THEN u32(operand) ELSE operand) = 0

Runs == status = "run" /\ Valid(inst, following) /\ ~ZeroDivisor
Skip(n) == pc' = (pc + n) % 2^IpBits
Address(base) == (base + inst.off) % 2^AddrBits

StepAlu ==
  /\ opclass(inst.op) \in {OPC_ALU, OPC_ALU64} /\ Runs
  /\ \E v \in Results : reg' = [reg EXCEPT ![inst.dst] = v]
  /\ Skip(1)
  /\ UNCHANGED <<mem, status, pgm>>

StepLoad ==
  /\ opclass(inst.op) = OPC_LDX /\ Runs
  /\ reg' = [reg EXCEPT ![inst.dst] = Bus!ReadAt(mem, Address(reg[inst.src]), Bytes(inst.op))]
  /\ Skip(1)
  /\ UNCHANGED <<mem, status, pgm>>

StepStore ==
  /\ IsStore(inst.op) /\ Runs
  /\ mem' = Bus!WriteAt(mem, Address(reg[inst.dst]), Bytes(inst.op),
                        IF opclass(inst.op) = OPC_ST THEN imm64(inst) ELSE reg[inst.src])
  /\ Skip(1)
  /\ UNCHANGED <<reg, status, pgm>>

StepLddw ==
  /\ inst.op = EBPF_OP_LDDW /\ Runs
  /\ reg' = [reg EXCEPT ![inst.dst] = inst.imm + following.imm * 2^W32]
  /\ Skip(2)
  /\ UNCHANGED <<mem, status, pgm>>

StepJump ==
  /\ IsJump(inst.op) /\ Runs
  /\ Skip(IF Holds THEN 1 + Signed(inst.off, OffsetBits) ELSE 1)
  /\ UNCHANGED <<reg, mem, status, pgm>>

\* What an external function returns is not specified here.  ubpf_exec and cpu.v keep
\* the other registers; compiled code may keep less.
StepCall ==
  /\ inst.op = EBPF_OP_CALL /\ Runs
  /\ reg' \in [DOMAIN reg -> Any]
  /\ \A r \in DOMAIN reg \ ({0} \cup Clobbered) : reg'[r] = reg[r]
  /\ Skip(1)
  /\ UNCHANGED <<mem, status, pgm>>

StepExit ==
  /\ inst.op = EBPF_OP_EXIT /\ Runs
  /\ status' = "exit" /\ pc' = 0
  /\ UNCHANGED <<reg, mem, pgm>>

\* A program fails when it divides by zero or reaches a word that validate refuses.
\* validate refuses a program for a bad register in any of its words.
Fail ==
  /\ status = "run"
  /\ \/ ~Valid(inst, following)
     \/ ZeroDivisor
     \/ \E a \in DOMAIN pgm : pgm[a].src > 10 \/ pgm[a].dst > 10
  /\ status' = "fail" /\ pc' = 0
  /\ UNCHANGED <<mem, pgm>>

\* The host starts a program (again), on the memory as the last one left it.
Start(s) ==
  /\ status' = "run" /\ pc' = s.pc /\ reg' = s.reg
  /\ UNCHANGED <<mem, pgm>>

\* Or it has loaded another program (ubpf_load), and passes another memory.
LoadAndStart(s) ==
  /\ Reloads
  /\ status' = "run" /\ pc' = s.pc /\ reg' = s.reg
  /\ mem' \in [Word(AddrBits) -> Word(ByteBits)]
  /\ pgm' \in [Word(PgmBits) -> Instructions]

Init == status = "run" /\ \E s \in Starts : pc = s.pc /\ reg = s.reg

Next ==
  \/ StepAlu \/ StepLoad \/ StepStore \/ StepLddw \/ StepJump \/ StepCall \/ StepExit
  \/ Fail
  \/ \E s \in Starts : Start(s) \/ LoadAndStart(s)

Spec == Init /\ [][Next]_vars
=============================================================================
