----------------------------- MODULE MCReprogram -----------------------------
(* Two rules of one instruction and an EXIT each, at words 0 and 2.         *)
EXTENDS Reprogram, TLC

Insn(op, s, d, o, k) == [op |-> op, src |-> s, dst |-> d, off |-> o, imm |-> k]
ExitWord == Insn(EBPF_OP_EXIT, 0, 0, 0, 0)
Store == Insn(107, 2, 1, 0, 0)    \* STXH [r1], r2
Load == Insn(121, 1, 3, 0, 0)     \* LDXDW r3, [r1]
CallWord == Insn(EBPF_OP_CALL, 0, 0, 0, Helper!FuncRead)

Pin(reset_n_int, start, r1, r2) ==
  [reset_n_int |-> reset_n_int, run_next_selected_rule_en |-> start # 0,
   ip_next_rule |-> start, args |-> <<r1, r2, 0, 0, 0>>,
   csr_ctl1 |-> FALSE, host |-> NoData,
   prog_reset |-> FALSE, prog_write_enable |-> FALSE, prog_addr |-> 0,
   prog_data |-> ExitWord]

\* Rule 0 stores across the end of the memory, rule 2 loads it or calls.
MCInputs == {Pin(FALSE, 0, 7, 3), Pin(FALSE, 2, 7, 0), Pin(TRUE, 0, 0, 0)}
MCPrograms == {[a \in 0 .. 3 |-> IF a = 0 THEN Store ELSE IF a = 2 THEN Load ELSE ExitWord]}
MCMemories == {[a \in Word(AddrBits) |-> 0]}
MCUploads == {[addr |-> 2, word |-> CallWord]}

\* The host stores to the bytes the processor stores to, and leaves another one last.
MCAccesses == {[stb |-> TRUE, adr |-> 7, we |-> TRUE, ww |-> 2, dat_w |-> 1]}
MCRuleWords == 0 :> {0, 1} @@ 2 :> {2, 3}
=============================================================================
