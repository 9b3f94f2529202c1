# VeBPF in TLA+

VeBPF is an eBPF processor in Verilog. This directory specifies the processor,
its components and the host software around it in TLA+, checks them with TLC on
small instances, and proves the most important invariants with TLAPS for every
size. `PROJECT.json` lists
the components, the runs, the source lines behind every definition, the hazards
and the findings.

## 1. The system

The processor runs on one clock. Its parts are separate `always @(posedge clk)`
blocks that read each other's registers as they were before the edge, so one
rising edge is one atomic step in which every component moves at once. What is
hard in the processor is that answers take several edges and the blocks have to
agree on who waits for whom, with single-bit handshakes and no timeouts.

| component | source | state | operations | talks to |
|---|---|---|---|---|
| CPU core | `cpu.v` | `ip`, `ip_next`, `instruction`, FSM state and the state to enter after a fetch, `keep_op`/`keep_dst` of a half-done LDDW, the flags `cpu_data_ack` and `cpu_div64_ack` of a second decode, registers, `halt`, `error`, the request ports | reset, halt, field checks, two-edge fetch, decode of every opcode class, waiting for memory, divider, call handler | all the others |
| Program memory | `ram64_memory_v3.v` | words, output register | read at `ip_next` on every edge, write from the host | CPU, host |
| Data memory | `ram_module_v3.v` | bytes, output register, a byte-at-a-time FSM (`wcnt`, `addr_t`, `wait_1`, ...) | write 1/2/4/8 bytes, read 8, idle | CPU, or the host when `csr_ctl[1]` |
| Divider | `divider.v` | counter, remainder and quotient halves, divisor, err | load, iterate, reject zero | CPU |
| Shifter | `shifter.v` | two temporaries, out, ack, step | start, present, finish | CPU |
| Call handler | `call_handler.v`, `ram64_memory_v1.v` | ret, ack, err, LEDs, `write_enable`, `pause`; a 20-word store | set LEDs, store, read, unknown function | CPU |
| Host | `VeBPF_tb/test_cpu.py`, the pins of `cpu.v` | whether reset is held, `csr_ctl[1]`, its request to the data memory | load, hold reset with a rule's start and arguments, release, wait for halt, next rule; upload words and data, take and give back the data memory | CPU pins |
| Reference | `tools/ubpf/vm/ubpf_vm.c` | pc, registers, memory | `validate`, `ubpf_exec` | (defines what the CPU must do) |
| ubpf JIT | `tools/ubpf/vm/ubpf_jit_x86_64.c`, `.h`, `ubpf_loader.c`, `ubpf_vm.c` | registered functions, loaded text, compiled code, register map | register, load and relocate, compile, run, destroy | its caller |
| wishbone-tool bridge | `tools/wishbone-utils/wishbone-tool/crates/bridge/src`: `lib.rs`, `bridges/ethernet.rs`, `bridges/usb.rs`, `bridges/pcie.rs`; `crates/core/main.rs` | mutex, request channel, response with its condition variable, connection | connect, peek, poke, drop; open, receive, execute, answer, drain | servers, the target over TCP, UDP, USB or PCIe |

### What is hard, and what makes each part correct

* **Fetch.** The program memory's output lags `ip_next` by an edge. After a jump,
  a reset or half a LDDW the word in it belongs to another address. Correct: a
  word is executed only at its own address (`PrefetchCoherent`).
* **Second decodes.** A load, a store and a division are decoded twice and told
  apart by one flag each; a shift waits inside STATE_DECODE on the shifter's own
  ack. Correct: an answer is only taken by the instruction that asked
  (`AcksBelong`, `NoStaleAck`).
* **Data memory.** ack is given one edge before the last byte is written, and
  outlasts `stb`. Correct: loads see every earlier store, stores touch their own
  bytes only, even when a reset cuts them short.
* **Divider.** A request may replace another in mid-division; the partial
  remainder is one bit wider than the divisor. Correct: the answer is that of the
  last request.
* **Shifter.** The sign is looked at an edge later than the value.
* **Call handler.** It executes a call on every edge with `stb` high, one time
  more than it acknowledges.
* **Halting.** Errors are raised in the middle of branches that also start
  things. Correct: once halted, nothing in flight reaches what the host reads.
* **Waiting.** No wait has a timeout. Correct: every request is answered.
* **The instruction set.** Every opcode must do what the interpreter does.
* **Reprogramming.** `cpu.v` lets the host write the program memory and take the
  data memory at any time, in mid-access too, with its FSM reset. Correct: the
  host's stores land, and a rule runs on the words and data that were there when
  it was started.
* **The JIT.** eBPF registers live in x86 registers that `mul`, `div`, shifts and
  calls use for themselves. Correct: compiled code does what the interpreter
  does, for every register map, and leaves its caller undisturbed.
* **The bridge.** Threads share one connection through one slot for responses,
  while it fails, times out and is opened again. Correct: no response is taken
  for another, none is lost, and a peek sees the pokes before it.

## 2. Modules

| module | models | extends / instances |
|---|---|---|
| `Words` | machine words: truncation, sign, bytes, bitwise operations | |
| `Ebpf` | the opcode map, `cpu.v` 27-248 | |
| `Alu` | what each ALU and jump opcode computes and asks of divider and shifter | Words, Ebpf |
| `Divider` | `divider.v`, any requester | |
| `Shifter`, `ShiftPort` | `shifter.v`; with `cpu.v`'s way of driving it | Words |
| `DataMem`, `DataPort` | `ram_module_v3.v`; with `cpu.v`'s way of driving it | Words |
| `CallHandler`, `CallPort` | `call_handler.v` and its store; with `cpu.v`'s way of driving it | Words |
| `ProgMem` | `ram64_memory_v3.v` | |
| `Cpu` | `cpu.v`, composing all components | Alu; instances of ProgMem, DataMem, Shifter, Divider, CallHandler |
| `Ubpf` | abstract specification: the reference interpreter, one step per instruction | Words, Ebpf |
| `Host` | the test bench's host around `Cpu`; the refinement mapping to `Ubpf` | Cpu |
| `Datapath` | one instruction at a time, `Alu` against `Ubpf` | Alu |
| `Reprogram` | the host of a synthesised processor: uploads, `csr_ctl[1]`, resets | Host |
| `Jit` | ubpf's compiler, relocation, and the compiled code on a model of x86; the refinement mapping to `Ubpf` | Words, Ebpf; instances of DataMem's byte operations and of Ubpf |
| `Bridge` | wishbone-tool's bridge: its callers, the thread of the connection, the link | |
| `MCArithmetic` | `Divider` and `Datapath` in one run, one of them at rest | Divider, Datapath |
| `MC...` | the small instances | |
| `WordsProof` | lemmas: induction, powers of two, sums, words and their low parts, addresses that go round, bitwise operations, sign extension | Words |
| `ArithmeticProof` | theorems about the divider, and about `Alu` against `Ubpf` | Divider, Datapath, WordsProof |
| `ShiftPortProof`, `DataPortProof`, `CallPortProof` | theorems about each component with its requester | ShiftPort, DataPort, CallPort with WordsProof |
| `CpuProof` | theorems about the processor; the inductive invariant of a program run by the host | Host, WordsProof; instances of the component proofs |
| `HostProof` | theorems about the host's stores, and that the processor implements `Ubpf` | Reprogram, CpuProof, WordsProof |
| `BridgeProof` | theorems about the bridge | Bridge |

Each component module defines `Edge(inputs)`: the effect of one rising edge. A
port module adds a requester that follows `cpu.v`'s protocol; `Cpu` conjoins the
same `Edge` of every component (operator `Parts`) to the branch its FSM takes. An
action of `Cpu` is one branch with everything it assigns, so `Advance` (the
assignments every instruction ends with), the clearing of `keep_op` and of the
flags are inside the actions. Names are those of the Verilog: `ip_next`,
`state_next`, `state_next_temp`, `cpu_data_ack`, `arsh64`, `div64`, `wcnt`, and
so on; the ports of a component are one record.

Instruction words are kept decoded, as records of their five fields, since
nothing in the processor looks at a word in any other way. Opcodes keep their
8-bit values.

Left out of `Cpu`: the tick counter, the debug registers and `state`, which
nothing reads, and the call arguments r3 to r5, which no function uses. Left out
of `Ubpf`: jump-target and program-length checks, bounds checks and the stack
pointer, of which the processor has no counterpart. `Ubpf` differs from the C
interpreter in that addresses wrap; both are said in its header. Where C leaves
a shift by the width or more undefined, the abstract machine allows any value.

### Operators called "faulty"

Next to some definitions stands a variant of it with a plausible mistake (a
dropped mask, a missing reset, one iteration too few). They are used nowhere in
the specifications. Put in the place of the original, each is caught by the
property that `PROJECT.json` names for it, which shows that the property is about
the code and not true of any model.

## 3. Runs

Bytes are one bit wide (`ByteBits = 1`): registers have 8 bits, immediates 4,
words of 16 and 32 bits have 2 and 4. Every byte lane, truncation, sign bit and
boundary is where the code has it, and a value of each kind (zero, one, sign bit
alone, all ones, low half zero) still exists. The data memory has 8 bytes (16 in
`DataPort`), the program memory 4 words under an `ip` of 3 bits, so that
programs run past the end and wrap. The call store has depth 3 under 2 address
bits: as in the code (20 under 5), not a power of two.

| run | shows |
|---|---|
| `arithmetic` | All 4-bit divisions, requests replacing one another and resets at any edge: `AnswerCorrect`, and the inductive invariant `IInv` of the proof, of which `TypeOK` is a part. Every ALU and jump opcode on boundary operands: `ResultAgrees`, `TakenAgrees`, `ZeroAgrees`, outside the known divergences. |
| `shift_port` | Shifts of boundary values by boundary amounts up to past the width, in any sequence with resets: `ResultCorrect`, `NoStrayAck`, `Answered`. |
| `data_port` | Loads and stores of every width, across the end of the memory, in any sequence and cut short by resets: `ReadsWhatIsThere`, `StoresLand`, `InRange`, `NoStaleAck`, `Answered`. |
| `call_port` | Any sequence of calls, of unknown functions and of addresses past the store too: `StoreAnswered`, `ReadAnswered`, `Answered`. |
| `call_store` | Finding: a read call after a store call does not return what was stored. |
| `programs` | All programs of two words of `Kinds` (one per way through the FSM, the bad ones included) and a third, and one program per opcode and boundary immediate, under a host that may restart: `Implements`, i.e. refinement of the interpreter, and `InstructionCompletes`. |
| `rules` | Two rules in one program memory, chosen and reset at ANY edge: `PrefetchCoherent`, `AcksBelong`, `NoStaleAck`, `HaltFreezes`. |
| `incomplete_lddw` | Finding: a LDDW followed by a word that is not its second half. |
| `compliance` | Finding: on all operands, opcodes do not always do what the interpreter does. |
| `reprogram` | The synthesised configuration, without a call handler. The host uploads a word or a store at any edge of reset, words of other rules at any edge, takes the data memory in mid-program, and resets at any edge: `HostStoresLand`, `RunsWhatWasLoaded` (refinement), `CompletesUnlessStopped`. |
| `jit` | Programs around every opcode, relocated, compiled and called: `JitImplements` (refinement), `CallerRestored`, `CallsFollowAbi`, `CallsBound`, `Returns`. |
| `bridge` | Two servers over TCP, UDP, USB or PCIe: `Paired`, `PeekSeesPokes`, `Returns`, `ConnectReturns`. |

One bound needs a word. After a reset the divider counts down from all ones for
2^(W64+1) edges, so a halted processor keeps changing state for a long time.
`Host` stops waiting (`Settled`) when the processor is in STATE_HALT, no request
is up and no component but the divider's counter is still moving; `Reprogram`
leaves out the edges that nothing else would notice (`Noticed`).

In `reprogram` the host takes the data memory from a running processor once in a
behaviour (`MaxSwitches = 1`), at any edge of any rule, with an access that
overlaps the processor's. That is enough to cut every kind of access short at
every edge and to have the next one follow.
The word that is uploaded turns a load into a CALL, which never returns there, so
that every reset out of a hanging processor is met as well.

In `jit` registers and immediates are as narrow as in the other runs. Programs are
short, one for each opcode and each pair of x86 registers that `muldivmod` treats
differently, together with stores and loads around a division that pushes,
forward and backward jumps, jumps into and past a LDDW, and relocated and
unrelocated calls. Functions are registered before the file is loaded, as `ubpf.h`
asks. Each is compiled with all eleven rotations of the register map
(those with calls with the map itself, as the tests do). A called function leaves
0 or 201 in every register it need not keep, and `Clobbered` says of the abstract
machine that r1 to r5 are lost in a call.

In `bridge` two servers, two addresses and two packets in each direction are
enough for a late reply to meet a peek of another address, for two threads to
contend for the mutex, and for a request to be met by every state of the
connection. Nothing bounds how often a connection fails or an operation is tried
again. The run does not check for deadlock because the program ends.

**Refinement mapping** (`Host`). A store takes effect when it is decoded: from
then on the abstract memory has it, though its bytes are still being written. A
LDDW takes effect with its first word. Everything else takes effect on the edge
that leaves STATE_DECODE or STATE_CALL_PENDING. The processor checks the register
fields of whatever word is in the instruction register, in the fetch states too,
so it may stop because of a bad word that would not have been executed; the
interpreter refuses such a program as a whole in `validate`, and the abstract
`Fail` allows it.

**Refinement mapping** (`Jit`). The abstract registers are read from the x86
registers of the map at the location where the code of an eBPF word begins and
keep their values in between (`seen`), so that one word is one abstract step.

**Fairness.** In the processor only that the clock runs: weak fairness of the
action that an edge takes while waiting (`WF` of `RunProgram`, `Fetch`/`Acked`,
`Pending`/`Answer`, `Hold`, `Run`). Nothing is assumed of the components; they
answer because their `Edge` is part of that same action. `Reprogram` also assumes
that the host gives the data memory back (`WF` of `GiveMemory`). Compiled code runs
on (`WF` of `Step`). Of the bridge, weak fairness of each thread's steps, which
the operating system's scheduler gives, and strong fairness of what may fail:
opening the target, sending, receiving a reply and a USB transfer succeed in the
end if they are tried again and again, and the target executes a packet now and
then before the timeout. This is an assumption about a target that is there: the
code retries for ever and promises nothing without it.

**What the bridge's properties are conditional on.** `PeekSeesPokes` is stated for
behaviours in which no poke was lost and no reply came after its timeout
(`faithful`): the code has no acknowledgement of pokes and no sequence numbers, so
over UDP neither is detected. `Returns` assumes that the thread without a
connection finds the channel empty now and then: it answers NotConnected for as
long as there is a request (`ethernet.rs` 256-258), a refused caller asks again at
once, and TLC finds the endless exchange of the two. `ConnectReturns` is about a
`connect` that begins to wait before the target is first opened: it clears the
response after the thread may already have announced the opening, which is
announced once (`ethernet.rs` 195-199, 299), and then waits for ever. What
these conditions leave out are hazards that the code has and no property denies; they
are listed as such. `Paired` is about the time from the end of `connect`, which
`main.rs` waits for before it starts anything: an operation before it could take
the announcement for its answer.

## 4. Findings

Each is a run in which TLC violates what the repository says of the program.

* `compliance`: README.md calls the processor fully compliant with the eBPF
  instruction set. TLC stops at a 64-bit addition of a negative immediate: 64-bit
  operations extend immediates with zeros, the interpreter by the sign (`cpu.v`
  2158 and on; JEQ, JNE, JSET and STDW with an immediate likewise). With
  `tlc -continue` the same property is seen violated by `EBPF_OP_NEG64`, which
  negates the source register (`cpu.v` 2208), by the 32-bit `EBPF_OP_MOV_REG`,
  which keeps the upper half (`cpu.v` 1604), and by the signed jumps, which
  compare only the low 32 bits (`cpu.v` 1844 and on).
* The check for an incomplete LDDW looks at two bits of the opcode only
  (`cpu.v` 1064).
* After a store call `write_enable` stays high until the next store call
  (`call_handler.v` 70), and a read call then overwrites what it is to read.

`programs` and `arithmetic` leave these cases out and pass: on the operands and
programs they try, there are no other divergences. `RunsAsReference` (section 5) shows
that for all programs there is one more at most, r10 as a destination, which `validate`
refuses and `cpu.v` writes.

The JIT differs from the interpreter too, and `jit` leaves these cases out: it
ignores EBPF_OP_LE; its 32-bit MOV_REG copies 64 bits; it masks the count of a
32-bit left shift, where the interpreter's result is undefined or zero; it extends
the immediates of unsigned jumps by the sign; it takes MUL_IMM by 0 for a
multiplication by the source register; DIV_IMM and MOD_IMM test the source register
for zero; and MUL_REG, DIV_REG and MOD_REG with an immediate other than 0 use the
immediate (`ubpf_jit_x86_64.c` 483). ubpf is a vendored tool here, so these are recorded but not
listed as findings.

## 5. Proofs

Every theorem has the form `Spec => []P`, `Spec => [][A]_vars` or, for the refinement,
`Spec => Ref!Spec`, and holds for every value of the constants that their assumptions
admit. Of each invariant named below TLC checked that it holds on the component's run
before it was proved to be inductive.

| module | theorem | property |
|---|---|---|
| `ArithmeticProof` | `DividerProgress`, `DividerCorrect`, `ResultsAgree`, `JumpsAgree`, `ZerosAgree` | `IInv`, `AnswerCorrect`, `ResultAgrees`, `TakenAgrees`, `ZeroAgrees` |
| `ShiftPortProof` | `ShiftTyped`, `ShiftsCorrect`, `AcksAreAsked` | `TypeOK`, `ResultCorrect`, `NoStrayAck` |
| `DataPortProof` | `DataTyped`, `LoadsReturn`, `EveryStoreLands`, `AnswersFall`, `StoresStayInRange` | `TypeOK`, `ReadsWhatIsThere`, `StoresLand`, `NoStaleAck`, `InRange` |
| `CallPortProof` | `CallTyped`, `StoreCallsLand`, `ReadCallsReturn` | `TypeOK`, `StoreAnswered`, `ReadAnswered` |
| `CpuProof` | `CpuTyped`, `FetchCorrect`, `AnswersBelong`, `AnswersGone`, `HaltedFreezes` | `TypeOK`, `PrefetchCoherent`, `AcksBelong`, `NoStaleAck`, `HaltFreezes` |
| `HostProof` | `UploadsLand`, `RunsAsReference` | `HostStoresLand`, `Implements` |
| `BridgeProof` | `BridgeTyped`, `RequestsPaired`, `PeeksSeePokes` | `TypeOK`, `Paired`, `PeekSeesPokes` |

**Assumptions.** Widths are positive; a data memory has room for the eight bytes of
a load and is addressed by at most 64 bits (`AddrBitsAssumption`,
`WidthsAssumption`); the call store is not larger than its address allows
(`CallMemoryAssumption`). The processor's inputs and initial memories are values of
its pins and of bytes, programs are decoded words, and no width of the processor is
larger than a register's (`InputsAssumption`, `MemoriesAssumption`,
`ProgramsAssumption`, `CallAssumption`). Operands, requests, calls and accesses are
well formed (`OperandsAssumption`, `RequestsAssumption`, `CallsAssumption`,
`AccessesAssumption`, `HostAssumption`); an access of the host is a store of 1, 2, 4
or 8 bytes. The null values of histories and of the bridge are none of the values
they stand in for (`NoRequestAssumption`, `BridgeAssumption`). Only
`ProgramAssumption` says something that `cpu.v` does not enforce: the program memory
is not written or held in reset while the processor runs. It is used by
`FetchCorrect` alone (a hazard; the test bench obeys it). The provers do not
interpret exponentiation, so `PowersAssumption` and `PowerAssumption` state that
2^0 = 1, that powers of two are positive integers and that each is twice the one
before; TLC evaluates them, as all the others, in the runs.

**Lemmas** (`WordsProof`). Induction over the natural numbers is stated for sets and
derived from the fact that < is well founded, so that the provers can use it.
From it follow the sums of exponents, that a sum over the bits of a word is
determined by its recursion, and that the bitwise or of a multiple of 2^n and a
number below 2^n is their sum (`OrAdds`), which is how the shifter puts the sign into
the bits a right shift vacates. A bitwise operation is determined bit by bit, so that
the low half of its result only depends on the low halves of its operands. `Onward`,
`BackAgain` and `OneFurther` are about addresses that go round the end of the memory.

**Divider.** `AnswerCorrect` only speaks of the edge with ack and is not inductive.
`IInv` adds the loop invariant `Progress`: with k iterations left, `quo` holds the k
dividend bits not yet used above the quotient bits found, and
dividend = (q * divisor + rem) * 2^k + low with rem < divisor. One iteration doubles
the partial remainder and takes one bit; with k = 0 uniqueness of quotient and
remainder gives the result.

**ALU.** `ResultAgrees`, `TakenAgrees` and `ZeroAgrees` follow from the types of the
operands alone (`Operands`), class by class. A 32-bit operation of the interpreter
reads the low halves of its operands and keeps that of its result, where the processor
may compute on whole registers or on sign-extended halves: sums, products, bitwise
operations and sign extension are shown to be local to the low half. Shift amounts are
taken modulo the width by both, or are an amount for which C leaves the result open;
that an amount of a full register fits into the shifter's is `WidthSmall`. The byte
swaps are two different folds, one that multiplies what it has by a byte (Horner) and
one that adds each byte at its place.

**Shifter.** The result is made from what was latched an edge before. `ShiftInv` adds
`Latched`: while the circuit is in its second step the operands are still presented,
`tmp2` is their shift without sign and `tmp1` the bits it vacates.

**Data memory.** A store is answered an edge before its last byte is written, and a
load collects bytes whose addresses were given an edge earlier. `DataInv` says how far
the FSM is: `Storing` that of the bytes presented all but the last are in the memory
and the last is on the write port, with the address and counter that follow;
`Loading` that `adr0`, `dat_r1` and `dat_r8` are one, two and three edges apart;
`AtRest` that an access starts with the FSM idle; `Wanted` that the history is the
memory plus what is left of the store. All properties of the run but liveness follow,
the action property `InRange` too.

**Call handler.** A call is executed once more on the edge after its ack.
`CallInv` adds `Unspoilt`: `write_enable` is low on the edge of a store call's ack, and
wherever else it is low the store is what the history says was stored.

**CPU.** `FetchInv` adds to `PrefetchCoherent` what the fetch states promise: in
OP_FETCH_DELAY the program memory's output already has the word at `ip`, so that the
following edge, which latches it, has the next address on the port. Actions fall into
five shapes (reset, advance, fetch delay, jump, stay), proved once each.
`AckInv` relates the flags, the waiting states and the request ports to the opcode:
the flags are up only in STATE_DECODE and for their own class, STATE_DATA_FETCH and
STATE_DIV_PENDING are only entered by their classes and keep the opcode, the shifter
is only in mid-shift while `arsh64.stb` is held by a shift in STATE_DECODE.
`TypeOK` is inductive as it stands: what is to be shown is that no branch computes a
value too wide for its register. It is a step per register group, and for the
components the lemma of the component's own proof module (`DividerTyped`,
`EdgeTyped`), instantiated with the processor's ports.
`RequestInv` adds when the two slow ports ask and where their acks can still be up:
`data.stb` only in STATE_DATA_FETCH, the data memory's ack outliving it only into
the second decode or the fetch after it, the call handler's only into
STATE_CALL_PENDING and the fetch. For the halt this is not enough: `we1` and
`write_enable` may be up when the processor halts, and keep writing. `HaltSettled` is
the reason it does not matter: what the write ports hold then is in the memories
already, so writing it again changes nothing. A call that halts the processor is one
the handler refused, with a function that is none of the three that are known.

**Reprogramming.** The host takes over a data memory in the middle of anything.
`HostInv` says of a store of the host what `Storing` says of one of the processor,
without knowing the state it began in: `MemoryShaped` only says that the registers are
there, and until the first byte of the host is presented the write port may hold the
interrupted byte, which is in the memory already (`MemSettled`).

**Refinement.** `RunsAsReference` says that `HostSpec` implies `Implements`, the
specification of the interpreter under the mapping of `Host`, whenever `Agreed` holds.
`Agreed` is about the host and its programs, not about states: the host does not take
the data memory or write the program memory while rules are run (the test bench never
does; `Reprogram` has the host that may), and every word of a program is `Portable`
with the one behind it. `Portable` leaves out where `cpu.v` and `ubpf_vm.c` are known
to differ, opcode by opcode:
* a 32-bit register move, which `cpu.v` makes of 64 bits;
* the signed comparisons, of which `cpu.v` compares half a register;
* a 64-bit negation of another register than the destination;
* immediates with the sign bit set where one extends them by it and the other with
  zeros (64-bit arithmetic, JEQ, JNE, JSET, 8-byte stores);
* r10 as the destination of anything but a store;
* a LDDW whose second word is not one and shares no bit with its opcode.

Words that neither executes, bad registers, divisions by zero and unknown functions
are portable: both fail. So is a 32-bit division by a register that is zero only in its
low half. The interpreter tests the whole register and goes on to divide by 0, which is
undefined in C; `Ubpf` counts it as a failure, as `cpu.v` does, and `ZeroAgrees` and
`ZerosAgree` are to be read so. That the programs of the `programs` run are portable is an
assumption of `MCHost`, which TLC evaluates (`HostAgrees`).

The inductive invariant is `RunInv`. To the invariants above it adds where the words
come from (`FromProgram`), that the second word of a LDDW is in the instruction
register as soon as the first has been executed (`KeepsSecond`), and for each component
two things: that what was asked of it is what the instruction in STATE_DECODE asks
(`DataRequested`, `DivRequested`, `ShiftRequested`, `CallRequested`), and that it is at
work on just that (`Served`). The second is the inductive invariant of the component's
own proof, instantiated with the processor's ports and states: `DataInv` with the
abstract memory as the history, `ShiftInv`, and `IInv` of the divider. So the
processor's proof only shows that each of its edges is a step of that component's
requester, and takes the step from there.

Then every action of `Execute` is matched. The fetch states, the waiting states and a
halted processor change nothing the interpreter sees (`FetchesSame`, `WaitsSame`,
`HaltedSame`). A word with bad fields, an unknown opcode, the divider's error and the
call handler's are `Fail` (`FaultFails`, `UnknownFails`, `DivErrorFails`,
`CallErrorFails`). What ends in STATE_DECODE is the interpreter's instruction: arithmetic
by `ResultsAgree`'s lemmas (`AluSteps`), jumps and EXIT (`JumpSteps`), calls
(`CallSteps`), the first word of a LDDW (`LddwSteps`), a load when its answer is used
(`LoadSteps`) and a store when it is decoded (`StoreSteps`). For the last two the
processor's bytes have to be the interpreter's: a load takes the low part of the eight
bytes the memory collects, a store presents the low part of a register of which the
memory writes as many bytes (`ReadLow`, `WriteLow`).

**Bridge.** `Paired` is made inductive by `PairedInv`: `Exclusion` (the mutex is held
by the one thread in the middle of an operation, and `drop` runs when the others are
done), `Announced` (before `connect` returns the only response is the one
announcement of the opening) and `Once` (after it, a thread that waits has its request
in the channel or in hand, or its answer, exactly one of them). `PeekInv` adds the
packets: `Link` (a peek on its way is the last packet, behind every poke, and its reply
is a value that is wanted), `Allowed` (the last poke on its way to an address, or else
the memory, has a wanted value) and `Told` (so does an answer that has not been taken).
The proofs are for any number of threads, addresses, values and packets.

Only model-checked:
* liveness (`Answered`, `InstructionCompletes`, `CompletesUnlessStopped`, both
  `Returns`, `ConnectReturns`): it needs fairness and ENABLED, which the prover does
  not handle;
* the refinements `RunsWhatWasLoaded` (that of `Implements` with a host that uploads
  words and data meanwhile, where what is loaded changes as a program runs) and
  `JitImplements`;
* `Jit`'s invariants. They are true of programs that keep off their caller's stack,
  as those of the run do, and compiled code does not enforce that: a theorem for all
  files would be false.

## 6. Not modelled

* **libusb** (`crates/libusb-sys`, more than two thirds of the source lines under
  `tools/`): a vendored library for six operating systems. The bridge sees of it
  a control transfer that succeeds or fails, which `Bridge` has.
* **The rest of wishbone-tool**: its servers (protocols of debuggers on top of
  peek and poke; for the bridge they are threads with any operations), USB
  bursts, the serial links of the UART and SPI bridges (a frame can be cut at any
  byte, and what the target makes of the rest is not in the repository), short TCP
  writes, reordering and duplication by UDP, a PCIe bridge that cannot map its file
  (its thread panics, in the only opening it does of a file that was found to exist),
  and the `io::Read`, `Write` and `Seek` implementations, which nothing calls.
* **ubpf**: the checks of ELF headers and sections and the assembler and
  disassembler (file and text formats, without state), bounds checks of memory
  accesses, of which neither the processor nor compiled code has a counterpart,
  and the size of the buffer the JIT emits into, as instructions are not bytes in
  the model.
* **rust-cbpf**, `tools/dump.py`, the waveform dump: stateless tools.
* **Firmware**: rule programs and scripts are inputs of the processor. The SoC that
  arranges several processors around a packet is in another repository.

## 7. Plan

Done: the modules above, in the order divider, ports, opcodes and datapath, CPU,
reference and refinement, first proofs, reprogramming, JIT, bridge, and the proofs of
every component's safety and of the refinement. What can be modelled faithfully from
the repository's own logic is modelled.

Left: the refinement `RunsWhatWasLoaded` from the invariant of the first, and the
compiled code's for programs that keep off their caller's stack.
