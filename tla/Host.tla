--------------------------------- MODULE Host --------------------------------
(***************************************************************************)
(* The processor and the host that runs programs on it, as the test bench  *)
(* does (VeBPF_tb/test_cpu.py): it holds reset for some edges, with the    *)
(* start of a rule and the arguments on the pins, releases it, waits for   *)
(* halt, and may then reset the processor for the next rule.               *)
(***************************************************************************)
EXTENDS Cpu

VARIABLE host    \* "reset" or "run": what reset_n_int will be at the next edge

hvars == <<vars, host>>

Resets == {in \in Inputs : ~in.reset_n_int}
Releases == {in \in Inputs : in.reset_n_int}

HostInit == Init /\ host = "run"

\* In STATE_HALT, with no component but the divider asked or still at work.  The
\* host does not wait any longer: only the divider's counter would change, for up to
\* 2^(W64 + 1) edges after a reset.
Settled ==
  /\ state_next = "HALT"
  /\ ~data.stb /\ ~arsh64.stb /\ ~call_handler.stb
  /\ ~dm.ack /\ ~dm.we1 /\ ~sh.ack /\ ~ch.ack

\* Reset may be released after a single edge.
HoldReset == host = "reset" /\ (\E in \in Resets : Reset(in)) /\ host' \in {"reset", "run"}
RunProgram(in) == host = "run" /\ ~Settled /\ Execute(in) /\ UNCHANGED host
NextRule == host = "run" /\ halt /\ (\E in \in Releases : Execute(in)) /\ host' = "reset"

HostNext == HoldReset \/ (\E in \in Releases : RunProgram(in)) \/ NextRule

HostSpec == HostInit /\ [][HostNext]_hvars

\* The clock keeps running while reset is released.
LiveSpec == HostSpec /\ WF_hvars(\E in \in Releases : RunProgram(in))

\* A host that may reset the processor at any edge, in the middle of anything.
ImpatientNext ==
  /\ \E in \in Inputs : Reset(in) \/ (~Settled /\ Execute(in))
  /\ UNCHANGED host
ImpatientSpec == HostInit /\ [][ImpatientNext]_hvars

-----------------------------------------------------------------------------

\* An instruction that has been decoded completes, or stops the processor: no
\* component leaves it waiting (STATE_DATA_FETCH, STATE_DIV_PENDING,
\* STATE_CALL_PENDING and the shifts' wait in STATE_DECODE have no timeout).
InstructionCompletes ==
  (state_next \in {"DECODE", "DATA_FETCH", "DIV_PENDING", "CALL_PENDING"})
    ~> (halt \/ state_next \in {"OP_FETCH", "OP_FETCH_DELAY"})

-----------------------------------------------------------------------------
(* The processor implements the reference machine of Ubpf.                 *)
(*                                                                         *)
(* A store takes effect when it is decoded: from then on the abstract      *)
(* memory already has it, while its bytes are still on their way, and the  *)
(* abstract pc is past it.  A LDDW takes effect with its first word: until *)
(* the second is decoded the abstract register already has the high half.  *)
(* Everything else takes effect on the edge that leaves STATE_DECODE or    *)
(* STATE_CALL_PENDING for a fetch.                                         *)

Storing ==
  \/ state_next = "DATA_FETCH" /\ data.we
  \/ state_next = "DECODE" /\ cpu_data_ack /\ opclass(opcode) \in {OPC_ST, OPC_STX}
second == pgm[Prog!PgmIndex(ip)]
LddwFails == keep_op # 0 /\ (second.src >= MAX_REGS \/ And(keep_op, second.op) # 0)

absStatus == IF halt THEN (IF error THEN "fail" ELSE "exit")
             ELSE IF LddwFails THEN "fail" ELSE "run"
absPc == IF absStatus # "run" THEN 0
         ELSE IF state_next = "OP_FETCH" \/ keep_op # 0 \/ Storing THEN ip_next ELSE ip
absReg == IF keep_op # 0 /\ ~LddwFails
          THEN [regs EXCEPT ![keep_dst] = Low(@, W32) + second.imm * 2^W32] ELSE regs
absMem == IF state_next = "DATA_FETCH" /\ data.we /\ ~halt
          THEN DataM!WriteAt(mem, data.adr, data.ww, data.dat_w) ELSE mem

Ref == INSTANCE Ubpf WITH
         pc <- absPc, reg <- absReg, mem <- absMem, status <- absStatus,
         Functions <- {Helper!FuncLeds, Helper!FuncStore, Helper!FuncRead},
         Clobbered <- {}, Reloads <- FALSE,
         Starts <- {[pc |-> StartIp(in), reg |-> StartRegs(in)] : in \in Resets}

\* The words, each with the one that follows it, that cpu.v executes as ubpf does.  The
\* others are where the two are known to differ: a 32-bit move that copies 64 bits,
\* signed comparisons of half a register, a negation of the source register, immediates
\* extended by zeros, r10 as a destination, and a LDDW whose second word is not one.
WidensImm(op) ==
  \/ ~UsesReg(op) /\ opclass(op) = OPC_ALU64 /\ ~IsNeg(op)
  \/ ~UsesReg(op) /\ opclass(op) = OPC_JMP /\ code(op) \in {JMP_JEQ, JMP_JNE, JMP_JSET}
  \/ opclass(op) = OPC_ST /\ IsMem(op) /\ Bytes(op) = 8
Portable(w, next) ==
  /\ w.op # Opcode(OPC_ALU, TRUE, ALU_MOV)
  /\ IsJump(w.op) => code(w.op) \notin {JMP_JSGT, JMP_JSGE, JMP_JSLT, JMP_JSLE}
  /\ IsNeg(w.op) /\ opclass(w.op) = OPC_ALU64 => w.src = w.dst
  /\ WidensImm(w.op) => w.imm < 2^(W32 - 1)
  /\ w.dst = 10 => opclass(w.op) \in {OPC_ST, OPC_STX} \/ ~Ref!KnownOpcode(w.op)
  /\ w.op = EBPF_OP_LDDW => next.op = 0 \/ And(w.op, next.op) # 0
PortableProgram(p) ==
  \A a \in Word(PgmBits) : Portable(p[a], p[(a + 1) % 2^PgmBits])

\* The test bench's host: it loads portable programs, leaves the data memory to the
\* processor and writes no program while rules are run.
Agreed ==
  /\ \A p \in Programs : PortableProgram(p)
  /\ \A in \in Inputs : ~in.csr_ctl1 /\ ~in.prog_write_enable

\* Every program runs as the reference interpreter runs it: each edge is one of
\* its steps or leaves its state alone, whatever came before, over any number of
\* rules, and a failure is one that the interpreter or validate has too.
Implements == Ref!Spec
=============================================================================
