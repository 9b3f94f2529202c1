------------------------------ MODULE CallPort -------------------------------
(***************************************************************************)
(* The call handler with a requester that drives it as cpu.v does          *)
(* (EBPF_OP_CALL and STATE_CALL_PENDING, lines 1741-1759 and 2294-2312):   *)
(* func, the arguments and stb are set together and held, stb drops on the *)
(* edge that sees ack, and the next call comes at least one edge later.    *)
(* An err halts the CPU until it is reset.                                 *)
(*                                                                         *)
(* `kept' is a history variable: the value the last completed store call   *)
(* put at each address.                                                    *)
(***************************************************************************)
EXTENDS CallHandler

CONSTANT Calls    \* the calls a program may make, [func, r1, r2]

ASSUME CallsAssumption == Calls \subseteq [func : Word(W32), r1 : Data, r2 : Data]

VARIABLES
  port,     \* the inputs: [stb, func, r1, r2]
  phase,    \* "run", "pending" (STATE_CALL_PENDING), "return" (stb just dropped), "halt"
  kept      \* history

vars == <<ch, store, port, phase, kept>>

Drive(stb, c) == [stb |-> stb, func |-> c.func, r1 |-> c.r1, r2 |-> c.r2]
NoCall == [func |-> 0, r1 |-> 0, r2 |-> 0]

Init ==
  /\ ch = ResetRegs
  /\ store = [a \in 0 .. CallDepth - 1 |-> 0]
  /\ port = Drive(FALSE, NoCall)
  /\ phase = "run"
  /\ kept = store

Call(c) ==
  /\ phase = "run"
  /\ Edge(FALSE, port)
  /\ port' = Drive(TRUE, c)
  /\ phase' = "pending"
  /\ UNCHANGED kept

Pending ==
  /\ phase = "pending" /\ ~ch.ack
  /\ Edge(FALSE, port)
  /\ UNCHANGED <<port, phase, kept>>

Answer ==
  /\ phase = "pending" /\ ch.ack
  /\ Edge(FALSE, port)
  /\ port' = [port EXCEPT !.stb = FALSE]
  /\ phase' = IF ch.err THEN "halt" ELSE "return"
  /\ kept' = IF port.func = FuncStore /\ address(port) < CallDepth
             THEN [kept EXCEPT ![address(port)] = port.r2] ELSE kept

Resume == phase = "return" /\ Edge(FALSE, port) /\ phase' = "run" /\ UNCHANGED <<port, kept>>
Elsewhere == phase \in {"run", "halt"} /\ Edge(FALSE, port) /\ UNCHANGED <<port, phase, kept>>

Reset ==
  /\ Edge(TRUE, port)
  /\ port' = Drive(FALSE, NoCall)
  /\ phase' = "run"
  /\ kept' = store'

Next == (\E c \in Calls : Call(c)) \/ Pending \/ Answer \/ Resume \/ Elsewhere \/ Reset

\* The clock runs: STATE_CALL_PENDING is evaluated at every edge.
Spec == Init /\ [][Next]_vars /\ WF_vars(Pending) /\ WF_vars(Answer)

-----------------------------------------------------------------------------

TypeOK ==
  /\ ch \in Registers
  /\ store \in [0 .. CallDepth - 1 -> Data]
  /\ port \in [stb : BOOLEAN, func : Word(W32), r1 : Data, r2 : Data]
  /\ phase \in {"run", "pending", "return", "halt"}

Answers(f) == phase = "pending" /\ ch.ack /\ port.func = f /\ address(port) < CallDepth

\* stb is high for one more edge after ack, and the handler executes the call again
\* on it (call_handler.v 58): whatever that leaves in pause and write_enable, a
\* later store call is answered only once its word is in the store.
StoreAnswered == Answers(FuncStore) => store[address(port)] = port.r2

\* A read call returns the word that was in the store before the call, as long as
\* write_enable has not been left high by a store call since the last reset.
ReadAnswered == Answers(FuncRead) /\ ~ch.write_enable => ch.ret = kept[address(port)]

\* STATE_CALL_PENDING has no timeout: every call is answered.
Answered == (phase = "pending") ~> (phase # "pending")

\* "Extension to read values from store" (call_handler.v 84): a read call returns
\* the value the last store call put at that address.
ReadsWhatWasStored == Answers(FuncRead) => ch.ret = kept[address(port)]
=============================================================================
