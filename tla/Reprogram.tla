------------------------------ MODULE Reprogram ------------------------------
(***************************************************************************)
(* The processor in the configuration that is synthesised, with a host     *)
(* that uploads rules and packets.  The host is clocked: csr_ctl[1], its   *)
(* data port and reset_n are registers of it that change with the edge.    *)
(*                                                                         *)
(* While reset is held it writes words of the program memory and, having   *)
(* taken the data memory with csr_ctl[1], stores data there, one access at *)
(* a time, stb being low for at least an edge after csr_ctl[1] has risen   *)
(* and between two accesses.  While the processor runs it keeps to the     *)
(* words of other rules, but may still take the data memory for a while,   *)
(* at any edge, and may reset the processor at any edge, keeping the data  *)
(* memory or not.                                                          *)
(*                                                                         *)
(* `want' is a history variable: the data memory as it would be had every  *)
(* store of the host since it last had the processor stopped been done at  *)
(* once.                                                                   *)
(***************************************************************************)
EXTENDS Host

CONSTANTS
  Uploads,        \* the words the host may write, [addr, word]
  Accesses,       \* the stores the host may make, members of DataM!Ports
  RuleWords,      \* for the start of a rule, the addresses of its words
  MaxSwitches,    \* how often the data memory is taken during one run
  NoMemory        \* no store of the host yet

ASSUME HostAssumption ==
  /\ Uploads \subseteq [addr : Word(IpBits), word : Instructions]
  /\ Accesses \subseteq {p \in DataM!Ports : p.stb /\ p.we /\ p.ww \in {1, 2, 4, 8}}
  /\ {StartIp(in) : in \in Resets} \subseteq DOMAIN RuleWords
  /\ MaxSwitches \in Nat

VARIABLES
  csr_ctl1,    \* csr_ctl[1]
  hport,       \* the host's data port
  rule,        \* where the current rule starts
  switches,    \* how often csr_ctl[1] has risen during this run
  want

hostvars == <<host, csr_ctl1, hport, rule, switches, want>>
rvars == <<vars, hostvars>>

\* The pins at the next edge, with no word to be written or with the word u.
Driven(in) == [in EXCEPT !.csr_ctl1 = csr_ctl1, !.host = hport]
Writing(in, u) ==
  [Driven(in) EXCEPT !.prog_write_enable = TRUE, !.prog_addr = u.addr, !.prog_data = u.word]
Foreign == {u \in Uploads : Prog!PgmIndex(u.addr) \notin RuleWords[rule]}

-----------------------------------------------------------------------------
(* Reset is held.                                                          *)

\* An edge in reset, at which any one word may be written.
ResetEdge ==
  /\ host = "reset"
  /\ \E in \in Resets :
       /\ Reset(Driven(in)) \/ \E u \in Uploads : Reset(Writing(in, u))
       /\ rule' = StartIp(in)
  /\ switches' = 0

\* Reset may be released together with the data memory.
Release == host' = "reset" \/ (~csr_ctl1' /\ host' = "run")

\* The host takes the data memory, keeps it or gives it back.
Select ==
  /\ ResetEdge /\ ~hport.stb
  /\ csr_ctl1' \in BOOLEAN
  /\ Release
  /\ UNCHANGED <<hport, want>>

BeginStore(p) ==
  /\ ResetEdge /\ csr_ctl1 /\ ~hport.stb
  /\ hport' = p
  /\ want' = DataM!WriteAt(IF want = NoMemory THEN mem' ELSE want, p.adr, p.ww, p.dat_w)
  /\ UNCHANGED <<host, csr_ctl1>>

AwaitAck ==
  /\ ResetEdge /\ hport.stb /\ ~dm.ack
  /\ UNCHANGED <<host, csr_ctl1, hport, want>>

EndStore ==
  /\ ResetEdge /\ hport.stb /\ dm.ack
  /\ hport' = NoData
  /\ csr_ctl1' \in BOOLEAN
  /\ Release
  /\ UNCHANGED want

-----------------------------------------------------------------------------
(* The processor runs.                                                     *)

\* An edge, at which a word of another rule may be written.
RunEdge ==
  /\ host = "run"
  /\ \E in \in Releases :
       Execute(Driven(in)) \/ \E u \in Foreign : Execute(Writing(in, u))
  /\ want' = NoMemory
  /\ UNCHANGED rule

\* An edge that only the divider's counter and the words of other rules would notice
\* is left out (see Settled).
Noticed ==
  \/ state_next = "DIV_PENDING"
  \/ ~UNCHANGED <<faults, fetch, states, keeps, acks, regs, ports, dm, mem, sh, ch, store>>

Run == RunEdge /\ Noticed /\ UNCHANGED <<host, csr_ctl1, hport, switches>>

\* The data memory is taken, for an access, or given back.  Its FSM is in reset as
\* long, and the access comes to nothing.
TakeMemory ==
  /\ RunEdge /\ ~csr_ctl1 /\ switches < MaxSwitches
  /\ csr_ctl1' = TRUE /\ hport' \in Accesses
  /\ switches' = switches + 1
  /\ UNCHANGED host
GiveMemory ==
  /\ RunEdge /\ csr_ctl1
  /\ csr_ctl1' = FALSE /\ hport' = NoData
  /\ UNCHANGED <<host, switches>>

\* The next edge is in reset, be the processor halted or not.
Stop ==
  /\ RunEdge
  /\ host' = "reset" /\ csr_ctl1' \in BOOLEAN /\ hport' = NoData
  /\ UNCHANGED switches

-----------------------------------------------------------------------------

ReprogramInit ==
  /\ HostInit
  /\ csr_ctl1 = FALSE /\ hport = NoData
  /\ rule = ip /\ switches = 0 /\ want = NoMemory

ReprogramNext ==
  \/ Select \/ (\E p \in Accesses : BeginStore(p)) \/ AwaitAck \/ EndStore
  \/ Run \/ TakeMemory \/ GiveMemory \/ Stop

\* The clock keeps running, and the host does not keep the data memory from a
\* running processor for ever.
ReprogramSpec ==
  /\ ReprogramInit /\ [][ReprogramNext]_rvars
  /\ WF_rvars(Run) /\ WF_rvars(GiveMemory)

-----------------------------------------------------------------------------

\* Whatever access or reset the processor was interrupted in when the host took
\* the data memory (cpu.v 663), once a store of the host is acknowledged the memory
\* is what its stores make of what was there: all of their bytes, no others, and
\* nothing of the interrupted access comes after.
HostStoresLand == want # NoMemory /\ ~hport.stb => mem = want

\* An instruction that has been decoded completes, stops the processor or is cut
\* short by a reset, although the data memory may be taken from under it, its FSM
\* reset and its ack hidden (cpu.v 620, 663).  A CALL does so only where there is a
\* call handler (cpu.v 822).
CompletesUnlessStopped ==
  /\ state_next \in {"DECODE", "DATA_FETCH", "DIV_PENDING", "CALL_PENDING"}
  /\ opcode = EBPF_OP_CALL => HasCallHandler
  ~> host = "reset" \/ halt \/ state_next \in {"OP_FETCH", "OP_FETCH_DELAY"}

Machine == INSTANCE Ubpf WITH
             pc <- absPc, reg <- absReg, mem <- absMem, status <- absStatus,
             pgm <- [a \in DOMAIN pgm |-> IF a \in RuleWords[rule] THEN pgm[a] ELSE BlankWord],
             Functions <- {Helper!FuncLeds, Helper!FuncStore, Helper!FuncRead},
             Clobbered <- {}, Reloads <- TRUE,
             Starts <- {[pc |-> StartIp(in), reg |-> StartRegs(in)] : in \in Resets}

\* A rule runs as the reference interpreter runs the program made of its words as
\* they were when reset was released, on the memory as it then was: whatever word was
\* uploaded last (cpu.v 509), whatever was interrupted before, whatever is uploaded
\* for the other rules meanwhile, and however often the data memory is taken.
RunsWhatWasLoaded == Machine!Spec
=============================================================================
