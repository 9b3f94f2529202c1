--------------------------------- MODULE Jit ---------------------------------
(***************************************************************************)
(* The x86-64 compiler of ubpf, ubpf_jit_x86_64.c, in the life of a VM:    *)
(* external functions are registered, code is loaded from an ELF file and  *)
(* validated, compiled, and the compiled function is called.               *)
(*                                                                         *)
(* Compiled code is a sequence of x86 instructions, one record each        *)
(* instead of bytes; a location is how many of them come before.  It runs  *)
(* one instruction per step on the x86 registers and on one memory, which  *)
(* holds the packet, the caller's stack and, below it, that of the code.   *)
(***************************************************************************)
EXTENDS Words, Ebpf, Sequences

CONSTANTS
  OffsetBits, AddrBits,
  PgmBits,          \* the width of num_insts, 16 in the code
  STACK_SIZE,       \* 128
  MAX_EXT_FUNCS,    \* 64
  NULL,
  Names,            \* the names of external functions
  Files,            \* ELF files: the text section, and its relocations [at, name]
  Maps,             \* the register maps ubpf_set_register_offset may leave
  Calls,            \* the registers and the memory a caller may call with, [x, mem]
  Trash             \* what a called function may leave in a register it need not keep

RAX == 0
RCX == 1
RDX == 2
RBX == 3
RSP == 4
RBP == 5
RSI == 6
RDI == 7
R8 == 8
R9 == 9
R13 == 13
R14 == 14
R15 == 15

\* Of the System V ABI: what a called function has to keep, and the arguments.
CalleeSaved == {RBX, RSP, RBP, 12, R13, R14, R15}
Arguments == <<RDI, RSI, RDX, RCX, R8>>

register_map ==
  [r \in 0 .. 10 |-> <<RAX, RDI, RSI, RDX, R9, R8, RBX, R13, R14, R15, RBP>>[r + 1]]

\* For testing, ubpf_set_register_offset turns the map around.
set_register_offset(n) == [r \in 0 .. 10 |-> register_map[(r + n) % 11]]

ASSUME JitAssumption ==
  /\ PgmBits \in Nat \ {0} /\ MAX_EXT_FUNCS \in Nat \ {0} /\ STACK_SIZE \in Nat
  /\ \A m \in Maps : {m[r] : r \in 0 .. 10} = {register_map[r] : r \in 0 .. 10}
  /\ NULL \notin Names

VARIABLES
  map,          \* register_map as it is
  ext_funcs,    \* the registered functions by index, or NULL
  file,         \* the loaded file, its text being vm->insts, or NULL
  jitted,       \* the compiled code, or NULL
  rip,          \* the location it is at, or NULL
  x, mem,       \* the x86 registers and the memory
  flags,        \* the last two values compared, <<>> after other arithmetic
  entry,        \* history: what the function was last called with, or NULL
  seen          \* history: the eBPF machine when its last instruction began

vm == <<map, ext_funcs, file, jitted>>
vars == <<vm, rip, x, mem, flags, entry, seen>>

MAX_INSTS == 2^PgmBits
Bus == INSTANCE DataMem WITH dm <- {}
Addr == Word(AddrBits)
Low64(v) == Low(v, W64)

-----------------------------------------------------------------------------
(* Loading: ubpf_load_elf, ubpf_load and validate.                         *)

EndWord == [op |-> 255, src |-> 0, dst |-> 0, off |-> 0, imm |-> 0]
WordAt(text, n) == IF n < Len(text) THEN text[n + 1] ELSE EndWord
Second(text, n) == n > 0 /\ WordAt(text, n - 1).op = EBPF_OP_LDDW
JumpTarget(text, n) == n + 1 + Signed(WordAt(text, n).off, OffsetBits)


\* The eBPF registers a program starts with: r1 is the first argument, r10 the stack
\* pointer below the five saved registers, the others are what they are.
StartRegs(c, m) ==
  [r \in 0 .. 10 |-> IF r = 1 THEN c[RDI] ELSE IF r = 10 THEN Low64(c[RSP] - 5 * 8)
                     ELSE c[m[r]]]

\* The memory an eBPF program may use, everything else taken as 0: what is not on
\* the stack of caller or code, and its own frame.
Visible(m, c) ==
  [a \in Addr |-> IF a < c[RSP] - 5 * 8 - STACK_SIZE - 2 * 8
                    \/ a \in (c[RSP] - 5 * 8 - STACK_SIZE) .. (c[RSP] - 5 * 8 - 1)
                  THEN m[a] ELSE 0]

Machine == INSTANCE Ubpf WITH
  pc <- IF seen.status = "run" THEN seen.at ELSE 0,
  reg <- seen.reg, mem <- seen.mem, status <- seen.status,
  pgm <- [n \in Word(PgmBits) |-> WordAt(IF file = NULL THEN <<>> ELSE file.text, n)],
  IpBits <- PgmBits,
  Functions <- 0 .. MAX_EXT_FUNCS - 1, Clobbered <- 1 .. 5, Reloads <- TRUE,
  Starts <- {[pc |-> 0, reg |-> StartRegs(c.x, m)] : c \in Calls, m \in Maps}

Target(text, n) ==
  JumpTarget(text, n) \in 0 .. Len(text) - 1 /\ WordAt(text, JumpTarget(text, n)).op # 0

\* A faulty NoLoop, which the properties must tell from the real one: a jump to itself
\* is accepted.
NoLoopUnchecked(text, n) == TRUE

NoLoop(text, n) == WordAt(text, n).off # 2^OffsetBits - 1

validate(text) ==
  /\ Len(text) < MAX_INSTS
  /\ \A n \in 0 .. Len(text) - 1 : ~Second(text, n) =>
       LET i == WordAt(text, n) IN
       /\ Machine!Valid(i, WordAt(text, n + 1))
       /\ IsJump(i.op) => NoLoop(text, n) /\ Target(text, n)
       /\ i.op = EBPF_OP_CALL => ext_funcs[i.imm] # NULL

\* ubpf_lookup_registered_function: the first index with that name.
Registered(name) == {n \in DOMAIN ext_funcs : ext_funcs[n] = name}

\* A faulty lookup, which the properties must tell from the real one: any registered
\* function will do.
lookup_any(name) == CHOOSE n \in DOMAIN ext_funcs : ext_funcs[n] # NULL

lookup(name) == CHOOSE n \in Registered(name) : \A m \in Registered(name) : n <= m

\* Relocations put the indexes of the functions into the calls, last one last.
RelocationsOK(f) ==
  \A r \in 1 .. Len(f.rels) : f.rels[r].at < Len(f.text) /\ Registered(f.rels[r].name) # {}
relocate(f) ==
  LET text[r \in 0 .. Len(f.rels)] ==
        IF r = 0 THEN f.text
        ELSE [text[r - 1] EXCEPT ![f.rels[r].at + 1].imm = lookup(f.rels[r].name)]
  IN text[Len(f.rels)]

-----------------------------------------------------------------------------
(* The instructions emitted, ubpf_jit_x86_64.h: an operation u of width w  *)
(* on a source register s, or IMM for the immediate k, and a destination   *)
(* register d.  The target of a jump is in k, its condition code in s.     *)

IMM == 16
Reg(u, w, s, d) == [u |-> u, w |-> w, s |-> s, d |-> d, k |-> 0]
Imm(u, w, k, d) == [u |-> u, w |-> w, s |-> IMM, d |-> d, k |-> k]

emit_mov(s, d) == Reg("mov", W64, s, d)
emit_load_imm(d, k) == Imm("mov", W64, k, d)
emit_push(r) == Reg("push", W64, r, r)
emit_pop(r) == Reg("pop", W64, r, r)
emit_jmp(target_pc) == Imm("jmp", W64, target_pc, 0)
emit_jcc(cc, target_pc) == [u |-> "jcc", w |-> W64, s |-> cc, d |-> 0, k |-> target_pc]
emit_call(fn) == [u |-> "call", w |-> W64, s |-> IMM, d |-> RAX, k |-> fn]

TARGET_PC_EXIT == -1
TARGET_PC_DIV_BY_ZERO == -2

\* The operation of each ALU code, and the condition code of each jump.
AluName(c) ==
  CASE c = ALU_ADD -> "add" [] c = ALU_SUB -> "sub" [] c = ALU_OR -> "or"
    [] c = ALU_AND -> "and" [] c = ALU_XOR -> "xor" [] c = ALU_MOV -> "mov"
    [] c = ALU_LSH -> "shl" [] c = ALU_RSH -> "shr" [] c = ALU_ARSH -> "sar"
Condition(c) ==
  CASE c = JMP_JEQ -> "e" [] c = JMP_JNE -> "ne" [] c = JMP_JSET -> "ne"
    [] c = JMP_JGT -> "a" [] c = JMP_JGE -> "ae" [] c = JMP_JLT -> "b" [] c = JMP_JLE -> "be"
    [] c = JMP_JSGT -> "g" [] c = JMP_JSGE -> "ge" [] c = JMP_JSLT -> "l" [] c = JMP_JSLE -> "le"

\* Multiplication and division use RAX and RDX, which are saved unless they are the
\* destination, and RCX, which no eBPF register is mapped to.
Unless(r, d, is) == IF d = r THEN <<>> ELSE is
WidthOf(i) == IF opclass(i.op) = OPC_ALU64 THEN W64 ELSE W32
TestDivisor(i, n, s) ==
  IF code(i.op) = ALU_MUL THEN <<>>
  ELSE <<emit_load_imm(RCX, n), Reg("test", WidthOf(i), s, s),
         emit_jcc("e", TARGET_PC_DIV_BY_ZERO)>>
Save(d) == Unless(RAX, d, <<emit_push(RAX)>>) \o Unless(RDX, d, <<emit_push(RDX)>>)
Compute(i, s, d) ==
  <<IF i.imm # 0 THEN emit_load_imm(RCX, SignExtend(i.imm, W32, W64)) ELSE emit_mov(s, RCX),
    emit_mov(d, RAX)>>
    \o (IF code(i.op) = ALU_MUL THEN <<>> ELSE <<Reg("xor", W32, RDX, RDX)>>)
    \o <<Reg(IF code(i.op) = ALU_MUL THEN "mul" ELSE "div", WidthOf(i), RCX, RAX)>>
Result(i, r, d) ==
  IF r = (IF code(i.op) = ALU_MOD THEN RDX ELSE RAX) THEN <<emit_mov(r, d)>> ELSE <<>>

\* A faulty muldivmod, which the properties must tell from the real one: the divisor is
\* tested after RAX and RDX have been pushed.
muldivmod_late(i, n, s, d) ==
  Save(d) \o TestDivisor(i, n, s) \o Compute(i, s, d)
    \o Unless(RDX, d, Result(i, RDX, d) \o <<emit_pop(RDX)>>)
    \o Unless(RAX, d, Result(i, RAX, d) \o <<emit_pop(RAX)>>)

\* Another faulty muldivmod: RDX is not saved, as if no eBPF register were in it.
muldivmod_careless(i, n, s, d) ==
  TestDivisor(i, n, s) \o Unless(RAX, d, <<emit_push(RAX)>>) \o Compute(i, s, d)
    \o Unless(RDX, d, Result(i, RDX, d))
    \o Unless(RAX, d, Result(i, RAX, d) \o <<emit_pop(RAX)>>)

muldivmod(i, n, s, d) ==
  TestDivisor(i, n, s) \o Save(d) \o Compute(i, s, d)
    \o Unless(RDX, d, Result(i, RDX, d) \o <<emit_pop(RDX)>>)
    \o Unless(RAX, d, Result(i, RAX, d) \o <<emit_pop(RAX)>>)

\* The count of a shift is a byte, of which x86 uses the bits below the width.
\* EBPF_OP_LE emits nothing.
TranslateAlu(i, s, d) ==
  LET c == code(i.op)
      w == WidthOf(i)
  IN CASE IsShift(i.op) ->
            IF UsesReg(i.op) THEN <<emit_mov(s, RCX), Reg(AluName(c), w, RCX, d)>>
            ELSE <<Imm(AluName(c), w, i.imm, d)>>
       [] IsNeg(i.op) -> <<Reg("neg", w, d, d)>>
       [] IsPlain(i.op) ->
            <<IF ~UsesReg(i.op) THEN Imm(AluName(c), w, SignExtend(i.imm, W32, W64), d)
              ELSE IF c = ALU_MOV THEN emit_mov(s, d) ELSE Reg(AluName(c), w, s, d)>>
       [] IsEndian(i.op) /\ ~UsesReg(i.op) -> <<>>
       [] IsEndian(i.op) /\ UsesReg(i.op) ->
            IF i.imm = W16 THEN <<Reg("rol8", W16, d, d), Imm("and", W32, 2^W16 - 1, d)>>
            ELSE <<Reg("bswap", i.imm, d, d)>>

TranslateJump(i, s, d, target_pc) ==
  LET u == IF code(i.op) = JMP_JSET THEN "test" ELSE "cmp"
  IN IF code(i.op) = JMP_JA THEN <<emit_jmp(target_pc)>>
     ELSE <<IF UsesReg(i.op) THEN Reg(u, W64, s, d)
            ELSE Imm(u, W64, SignExtend(i.imm, W32, W64), d),
            emit_jcc(Condition(code(i.op)), target_pc)>>

TranslateAccess(i, s, d) ==
  LET Access(u, v) == <<[u |-> u, w |-> Bytes(i.op), s |-> v, d |-> d, k |-> i.off]>>
  IN CASE opclass(i.op) = OPC_LDX -> Access("load", s)
       [] opclass(i.op) = OPC_STX -> Access("store", s)
       [] opclass(i.op) = OPC_ST -> Access("storei", SignExtend(i.imm, W32, W64))

\* What translate emits for word n of the text.  An EXIT in the last word needs nothing,
\* as the epilogue comes next.
translate1(text, n, m) ==
  LET i == WordAt(text, n)
      d == m[i.dst]
      s == m[i.src]
  IN CASE IsDiv(i.op) \/ (IsPlain(i.op) /\ code(i.op) = ALU_MUL) -> muldivmod(i, n, s, d)
       [] IsJump(i.op) -> TranslateJump(i, s, d, JumpTarget(text, n))
       [] i.op = EBPF_OP_CALL -> <<emit_mov(R9, RCX), emit_call(ext_funcs[i.imm])>>
       [] i.op = EBPF_OP_EXIT ->
            IF n = Len(text) - 1 THEN <<>> ELSE <<emit_jmp(TARGET_PC_EXIT)>>
       [] i.op = EBPF_OP_LDDW ->
            <<emit_load_imm(d, i.imm + WordAt(text, n + 1).imm * 2^W32)>>
       [] opclass(i.op) \in {OPC_LDX, OPC_ST, OPC_STX} -> TranslateAccess(i, s, d)
       [] OTHER -> TranslateAlu(i, s, d)

Prologue(m) ==
  <<emit_push(RBP), emit_push(RBX), emit_push(R13), emit_push(R14), emit_push(R15)>>
    \o (IF m[1] = RDI THEN <<>> ELSE <<emit_mov(RDI, m[1])>>)
    \o <<emit_mov(RSP, m[10]), Imm("sub", W64, STACK_SIZE, RSP)>>

\* A faulty Epilogue, which the properties must tell from the real one: the registers
\* are restored in the order they were saved in.
EpilogueInOrder(m) ==
  (IF m[0] = RAX THEN <<>> ELSE <<emit_mov(m[0], RAX)>>)
    \o <<Imm("add", W64, STACK_SIZE, RSP), emit_pop(RBP), emit_pop(RBX), emit_pop(R13),
         emit_pop(R14), emit_pop(R15), Reg("ret", W64, RSP, RSP)>>

Epilogue(m) ==
  (IF m[0] = RAX THEN <<>> ELSE <<emit_mov(m[0], RAX)>>)
    \o <<Imm("add", W64, STACK_SIZE, RSP), emit_pop(R15), emit_pop(R14), emit_pop(R13),
         emit_pop(RBX), emit_pop(RBP), Reg("ret", W64, RSP, RSP)>>

\* The division by zero handler prints the pc that muldivmod left in RCX.
Stderr == 1
Format == 2
Fprintf == "fprintf"

\* A faulty Handler, which the properties must tell from the real one: it does not end
\* in a jump.
HandlerFallsOff(m) ==
  <<emit_load_imm(RDI, Stderr), emit_load_imm(RSI, Format), emit_mov(RCX, RDX),
    emit_call(Fprintf), emit_load_imm(m[0], 2^W64 - 1)>>

Handler(m) ==
  <<emit_load_imm(RDI, Stderr), emit_load_imm(RSI, Format), emit_mov(RCX, RDX),
    emit_call(Fprintf), emit_load_imm(m[0], 2^W64 - 1), emit_jmp(TARGET_PC_EXIT)>>

\* The code for the first n words.
Translated(text, m) ==
  LET code_[n \in 0 .. Len(text)] ==
        IF n = 0 THEN Prologue(m)
        ELSE IF Second(text, n - 1) THEN code_[n - 1]
        ELSE code_[n - 1] \o translate1(text, n - 1, m)
  IN code_

\* ubpf_compile.  pc_locs has a location for every word but the second ones of LDDW,
\* for which calloc left 0.  resolve_jumps replaces target_pc by locations.
Compiled(text, m) ==
  LET body == Translated(text, m)
      pc_locs == [n \in 0 .. Len(text) - 1 |-> IF Second(text, n) THEN 0 ELSE Len(body[n])]
      exit_loc == Len(body[Len(text)])
      div_by_zero_loc == exit_loc + Len(Epilogue(m))
      Location(t) == CASE t = TARGET_PC_EXIT -> exit_loc
                       [] t = TARGET_PC_DIV_BY_ZERO -> div_by_zero_loc
                       [] OTHER -> pc_locs[t]
      all == body[Len(text)] \o Epilogue(m) \o Handler(m)
  IN [code |-> [l \in 1 .. Len(all) |-> IF all[l].u \in {"jmp", "jcc"}
                                       THEN [all[l] EXCEPT !.k = Location(@)] ELSE all[l]],
      pc_locs |-> pc_locs, exit_loc |-> exit_loc, div_by_zero_loc |-> div_by_zero_loc]

-----------------------------------------------------------------------------
(* The VM.                                                                 *)

Nothing == [r \in 0 .. 15 |-> 0]
AtStart(c, m) == [at |-> 0, reg |-> StartRegs(c.x, m), mem |-> Visible(c.mem, c.x), status |-> "run"]

NoFunctions == [n \in 0 .. MAX_EXT_FUNCS - 1 |-> NULL]
SomeCall == CHOOSE c \in Calls : TRUE

\* A new VM.  Registers and memory are of no interest before a call.
Init ==
  /\ map \in Maps
  /\ ext_funcs = NoFunctions /\ file = NULL /\ jitted = NULL
  /\ rip = NULL /\ x = Nothing /\ mem = SomeCall.mem /\ flags = <<>>
  /\ entry = NULL /\ seen = AtStart(SomeCall, map)

idle == <<rip, x, mem, flags, entry, seen>>

\* "This must be done [...] after registering all functions" (inc/ubpf.h 55-56).
ubpf_register(idx, name) ==
  /\ file = NULL
  /\ ext_funcs' = [ext_funcs EXCEPT ![idx] = name]
  /\ UNCHANGED <<map, file, jitted, idle>>

\* ubpf_load_elf and the ubpf_load it ends with.  What either refuses changes nothing.
ubpf_load(f) ==
  /\ file = NULL
  /\ RelocationsOK(f)
  /\ validate(relocate(f))
  /\ file' = [text |-> relocate(f), rels |-> f.rels]
  /\ UNCHANGED <<map, ext_funcs, jitted, idle>>

\* Code that is compiled already is kept.
ubpf_compile ==
  /\ file # NULL /\ jitted = NULL
  /\ jitted' = Compiled(file.text, map)
  /\ UNCHANGED <<map, ext_funcs, file, idle>>

\* The VM is freed, and another one created.
ubpf_destroy ==
  /\ file # NULL /\ rip = NULL
  /\ ext_funcs' = NoFunctions /\ file' = NULL /\ jitted' = NULL
  /\ x' = Nothing /\ mem' = SomeCall.mem /\ flags' = <<>>
  /\ entry' = NULL /\ seen' = AtStart(SomeCall, map)
  /\ UNCHANGED <<map, rip>>

\* The compiled function is called.
CallJitted(c) ==
  /\ jitted # NULL /\ rip = NULL
  /\ rip' = 0 /\ x' = c.x /\ mem' = c.mem /\ flags' = <<>>
  /\ entry' = c /\ seen' = AtStart(c, map)
  /\ UNCHANGED vm

-----------------------------------------------------------------------------
(* x86-64, as far as the emitted instructions need it.  A result of 32     *)
(* bits clears the upper half of its register.                             *)

insn == jitted.code[rip + 1]
At(u) == rip # NULL /\ insn.u \in u
Operand == IF insn.s = IMM THEN insn.k ELSE x[insn.s]
SwapBytes(v, w) == Machine!Swapped(v, w)

Value(u, w, a, b) ==
  CASE u = "mov" -> Low(b, w)
    [] u = "add" -> Low(a + b, w)
    [] u = "sub" -> Low(a - b, w)
    [] u = "or" -> Low(Or(a, b), w)
    [] u = "and" -> Low(And(a, b), w)
    [] u = "xor" -> Low(Xor(a, b), w)
    [] u = "neg" -> Low(-a, w)
    [] u = "shl" -> ShiftLeft(Low(a, w), b % w, w)
    [] u = "shr" -> ShiftRight(Low(a, w), b % w, w)
    [] u = "sar" -> Low(Signed(Low(a, w), w) \div 2^(b % w), w)
    [] u = "bswap" -> SwapBytes(a, w)
    [] u = "rol8" -> a - Low(a, w) + SwapBytes(a, w)    \* 16 bits: the rest stays

Holds(cc, a, b) ==
  CASE cc = "e" -> a = b [] cc = "ne" -> a # b
    [] cc = "a" -> a > b [] cc = "ae" -> a >= b [] cc = "b" -> a < b [] cc = "be" -> a <= b
    [] cc = "g" -> Signed(a, W64) > Signed(b, W64) [] cc = "ge" -> Signed(a, W64) >= Signed(b, W64)
    [] cc = "l" -> Signed(a, W64) < Signed(b, W64) [] cc = "le" -> Signed(a, W64) <= Signed(b, W64)

\* Where the eBPF machine is, seen from the code that is about to run at location l:
\* at the word whose code begins there, finished, or stopped by a zero divisor.
Begins(l) == {n \in DOMAIN jitted.pc_locs : ~Second(file.text, n) /\ jitted.pc_locs[n] = l}
Observe ==
  seen' = IF seen.status # "run" THEN seen
          ELSE IF rip' = jitted.div_by_zero_loc THEN [seen EXCEPT !.status = "fail"]
          ELSE IF rip = jitted.exit_loc \/ (insn.u = "jmp" /\ insn.k = jitted.exit_loc
                                           /\ WordAt(file.text, seen.at).op = EBPF_OP_EXIT)
               THEN [seen EXCEPT !.status = "exit"]
          ELSE IF rip' \in {jitted.pc_locs[n] : n \in DOMAIN jitted.pc_locs} /\ Begins(rip') # {}
               THEN [at |-> CHOOSE n \in Begins(rip') : TRUE,
                     reg |-> [r \in 0 .. 10 |-> x'[map[r]]],
                     mem |-> Visible(mem', entry.x), status |-> "run"]
          ELSE seen

Continue == rip' = rip + 1 /\ Observe /\ UNCHANGED <<vm, entry>>

Arithmetic ==
  /\ At({"mov", "add", "sub", "or", "and", "xor", "neg", "shl", "shr", "sar", "bswap", "rol8"})
  /\ x' = [x EXCEPT ![insn.d] = Value(insn.u, insn.w, @, Operand)]
  /\ flags' = <<>>
  /\ UNCHANGED mem
  /\ Continue

Compare ==
  /\ At({"cmp", "test"})
  /\ flags' = LET a == Low(x[insn.d], insn.w)
                  b == Low(Operand, insn.w)
              IN IF insn.u = "cmp" THEN <<a, b>> ELSE <<And(a, b), 0>>
  /\ UNCHANGED <<x, mem>>
  /\ Continue

\* RDX:RAX is the product, or the remainder and the quotient of RDX:RAX.  A quotient
\* that does not fit, or a divisor of zero, would be an exception.
Multiply ==
  /\ At({"mul", "div"})
  /\ LET a == Low(x[RAX], insn.w)
         b == Low(x[RCX], insn.w)
         n == Low(x[RDX], insn.w) * 2^insn.w + a
     IN IF insn.u = "mul"
        THEN x' = [x EXCEPT ![RAX] = Low(a * b, insn.w), ![RDX] = (a * b) \div 2^insn.w]
        ELSE /\ b # 0 /\ n \div b < 2^insn.w
             /\ x' = [x EXCEPT ![RAX] = n \div b, ![RDX] = n % b]
  /\ flags' = <<>>
  /\ UNCHANGED mem
  /\ Continue

Push ==
  /\ At({"push"})
  /\ x' = [x EXCEPT ![RSP] = Low64(@ - 8)]
  /\ mem' = Bus!WriteAt(mem, Low(x'[RSP], AddrBits), 8, x[insn.s])
  /\ UNCHANGED flags
  /\ Continue

Pop ==
  /\ At({"pop"})
  /\ x' = [x EXCEPT ![insn.d] = Bus!ReadAt(mem, Low(x[RSP], AddrBits), 8),
                    ![RSP] = Low64(@ + 8)]
  /\ UNCHANGED <<mem, flags>>
  /\ Continue

Effective(r) == Low(x[r] + Signed(insn.k, OffsetBits), AddrBits)
Load ==
  /\ At({"load"})
  /\ x' = [x EXCEPT ![insn.d] = Bus!ReadAt(mem, Effective(insn.s), insn.w)]
  /\ UNCHANGED <<mem, flags>>
  /\ Continue

Store ==
  /\ At({"store", "storei"})
  /\ mem' = Bus!WriteAt(mem, Effective(insn.d), insn.w,
                        IF insn.u = "store" THEN x[insn.s] ELSE insn.s)
  /\ UNCHANGED <<x, flags>>
  /\ Continue

Taken == IF insn.u = "jmp" THEN TRUE ELSE Holds(insn.s, flags[1], flags[2])
Jump ==
  /\ At({"jmp", "jcc"})
  /\ rip' = IF Taken THEN insn.k ELSE rip + 1
  /\ UNCHANGED <<vm, x, mem, flags, entry>>
  /\ Observe

\* A function keeps what it has to and may leave anything elsewhere.
Call(t) ==
  /\ At({"call"})
  /\ x' = [r \in DOMAIN x |-> IF r \in CalleeSaved THEN x[r] ELSE t]
  /\ flags' = <<>>
  /\ UNCHANGED mem
  /\ Continue

\* The return address is dropped.
Return ==
  /\ At({"ret"})
  /\ rip' = NULL
  /\ x' = [x EXCEPT ![RSP] = Low64(@ + 8)]
  /\ UNCHANGED <<vm, mem, flags, entry, seen>>

Step ==
  \/ Arithmetic \/ Compare \/ Multiply \/ Push \/ Pop \/ Load \/ Store \/ Jump
  \/ (\E t \in Trash : Call(t))
  \/ Return

\* "The JIT relies on a fixed register mapping for the call instruction" (test_jit.py
\* 44).
\* Functions are registered, before loading, for the programs that call some.
Suits(f) ==
  IF \E n \in DOMAIN f.text : f.text[n].op = EBPF_OP_CALL THEN map = register_map
  ELSE ext_funcs = NoFunctions

Next ==
  \/ \E idx \in 0 .. MAX_EXT_FUNCS - 1, name \in Names : ubpf_register(idx, name)
  \/ \E f \in Files : Suits(f) /\ ubpf_load(f)
  \/ ubpf_compile \/ ubpf_destroy
  \/ \E c \in Calls : CallJitted(c)
  \/ Step

\* The code runs on.
Spec == Init /\ [][Next]_vars /\ WF_vars(Step)

-----------------------------------------------------------------------------

TypeOK ==
  /\ map \in Maps /\ ext_funcs \in [0 .. MAX_EXT_FUNCS - 1 -> Names \cup {NULL}]
  /\ jitted # NULL => file # NULL
  /\ rip # NULL => jitted # NULL /\ rip + 1 \in DOMAIN jitted.code
  /\ x \in [0 .. 15 -> Word(W64)] /\ mem \in [Addr -> Word(ByteBits)]
  /\ flags \in {<<>>} \cup (Word(W64) \X Word(W64))
  /\ seen.at \in Word(PgmBits) /\ seen.status \in {"run", "exit", "fail"}

\* Compiled code does to the eBPF registers and memory what ubpf_exec does, word by
\* word: whatever x86 registers the operands are mapped to, RAX and RDX, which mul and
\* div overwrite, included; wherever it jumps; and a division by zero stops it.
JitImplements == Machine!Spec

\* When the function returns, through an EXIT in any place or through the handler of a
\* division by zero, the caller finds the registers it counts on, its stack and the
\* result: what is pushed for a division (muldivmod) never gets in the way.
CallerRestored ==
  rip = NULL /\ entry # NULL =>
    /\ \A r \in CalleeSaved \ {RSP} : x[r] = entry.x[r]
    /\ x[RSP] = entry.x[RSP] + 8
    /\ \A a \in Addr : a >= entry.x[RSP] => mem[a] = entry.mem[a]
    /\ x[RAX] = IF seen.status = "exit" THEN seen.reg[0] ELSE 2^W64 - 1

\* Calls find r1 to r5 where the System V ABI has the arguments, r4 having been moved
\* to RCX, with the stack aligned; fprintf is told the pc of the division that
\* failed.
CallsFollowAbi ==
  At({"call"}) =>
    /\ x[RSP] % 16 = 0
    /\ IF insn.k = Fprintf THEN x[RDI] = Stderr /\ x[RSI] = Format /\ x[RDX] = seen.at
       ELSE \A n \in 1 .. 5 : x[Arguments[n]] = seen.reg[n]

\* A call that the file names a function for calls the function that was registered
\* under this name, by way of relocation, validate, and the address that is compiled
\* in (ubpf_loader.c 210-216, ubpf_jit_x86_64.c 363).
CallsBound ==
  At({"call"}) /\ insn.k # Fprintf =>
    \A r \in DOMAIN file.rels : file.rels[r].at = seen.at => insn.k = file.rels[r].name

\* Compiled code returns (from programs that have an end).
Returns == (rip # NULL) ~> (rip = NULL)
=============================================================================
