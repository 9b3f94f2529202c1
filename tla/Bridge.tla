-------------------------------- MODULE Bridge --------------------------------
(***************************************************************************)
(* wishbone-tool's bridge to the target, over which programs and packets   *)
(* are loaded: the threads that peek and poke, the thread that owns the    *)
(* connection (ethernet_thread, usb_poll_thread, pcie_thread), and the     *)
(* link.                                                                   *)
(*                                                                         *)
(* Callers hold Bridge.mutex for a whole operation.  They put a request    *)
(* into a channel and wait on a condition variable for `response'.  What   *)
(* is done under the lock of `response' is one step; a request is sent     *)
(* under it too, except by the connect() of ethernet and PCIe.             *)
(*                                                                         *)
(* The main thread connects, starts the servers, each with a clone of the  *)
(* bridge, joins them and drops the bridge (main.rs 359-390).              *)
(***************************************************************************)
EXTENDS Naturals, Sequences

CONSTANTS
  Main, Servers,    \* the threads
  Cores,            \* the kinds of bridge, of "tcp", "udp", "usb" and "pcie"
  Addrs, Vals,      \* addresses and values on the bus
  Boot,             \* the memory of the target in the beginning
  Operations,       \* what the servers do: members of Peeks and Pokes
  Capacity,         \* how many packets are on their way in each direction
  NULL

Network == {"tcp", "udp"}    \* the bridges that send packets

VARIABLES
  core,        \* the kind of bridge
  mutex,       \* who holds Bridge.mutex, or NULL
  chan,        \* requests in the channel
  response,    \* the last response, or NULL for None
  thread,      \* of each thread: where it is, and its operation
  worker,      \* the connection's thread: where it is, the request or response it is
               \* at, where it goes from there, and first_run
  toDev, toHost,    \* packets on their way
  mem,         \* the memory of the target
  want,        \* history: the values each address may have after the pokes so far
  faithful     \* history: no poke was lost, and no reply came after its timeout

shared == <<mutex, chan, response>>
link == <<toDev, toHost, mem>>
history == <<want, faithful>>
vars == <<core, shared, thread, worker, link, history>>

Threads == Servers \cup {Main}
Op(kind, a, v) == [kind |-> kind, addr |-> a, val |-> v]
StartPolling == Op("StartPolling", 0, 0)
Exit == Op("Exit", 0, 0)
Peeks == {Op("Peek", a, 0) : a \in Addrs}
Pokes == {Op("Poke", a, v) : a \in Addrs, v \in Vals}

Requests == Operations \cup {StartPolling, Exit}
Errors == {"Pipe", "Io", "Other"}
Responses ==
  [kind : {"OpenedDevice", "Exiting", "Peek", "Poke"}, err : Errors \cup {"None"}, val : Vals]

ASSUME BridgeAssumption ==
  /\ Main \notin Servers /\ NULL \notin Servers \cup {Main} \cup Responses
  /\ Cores \subseteq {"tcp", "udp", "usb", "pcie"}
  /\ 0 \in Addrs /\ 0 \in Vals
  /\ Operations \subseteq Peeks \cup Pokes /\ Boot \in [Addrs -> Vals]
  /\ Capacity \in Nat \ {0}

\* No operation: the main thread connects first.
Idle == [pc |-> "idle", op |-> StartPolling]

Response(kind, err, v) == [kind |-> kind, err |-> err, val |-> v]
OpenedDevice == Response("OpenedDevice", "None", 0)
Exiting == Response("Exiting", "None", 0)

Init ==
  /\ core \in Cores
  /\ mutex = NULL /\ chan = <<>> /\ response = NULL
  /\ thread = [c \in Threads |-> IF c = Main THEN Idle ELSE [Idle EXCEPT !.pc = "absent"]]
  /\ worker = [pc |-> "open", job |-> NULL, next |-> "recv", first_run |-> TRUE]
  /\ toDev = <<>> /\ toHost = <<>> /\ mem = Boot
  /\ want = [a \in Addrs |-> {Boot[a]}] /\ faithful = TRUE

-----------------------------------------------------------------------------
(* The threads.                                                            *)

At(c, pc) == thread[c].pc = pc
GoTo(c, pc) == thread' = [thread EXCEPT ![c].pc = pc]

\* Bridge::connect, peek and poke begin.
Lock(c, op) ==
  /\ At(c, "idle") /\ mutex = NULL
  /\ op \in IF c = Main THEN {StartPolling} ELSE Operations
  /\ mutex' = c
  /\ thread' = [thread EXCEPT ![c] = [pc |-> "call", op |-> op]]
  /\ UNCHANGED <<core, chan, response, worker, link, history>>

\* connect() over ethernet and PCIe sends StartPolling once, and then without the lock.
Unlocked(c) == thread[c].op = StartPolling /\ core # "usb"
SendStart(c) ==
  /\ At(c, "call") /\ Unlocked(c)
  /\ chan' = Append(chan, StartPolling)
  /\ GoTo(c, "start")
  /\ UNCHANGED <<core, mutex, response, worker, link, history>>

AwaitOpened(c) ==
  /\ At(c, "start")
  /\ response' = NULL
  /\ GoTo(c, "wait")
  /\ UNCHANGED <<core, mutex, chan, worker, link, history>>

\* An old response is thrown away, except by the drop() of USB, which looks at it.
Keeps(c) == core = "usb" /\ thread[c].op = Exit
Ask(c) ==
  /\ At(c, "call") /\ ~Unlocked(c)
  /\ chan' = Append(chan, thread[c].op)
  /\ response' = IF Keeps(c) THEN response ELSE NULL
  /\ GoTo(c, "wait")
  /\ UNCHANGED <<core, mutex, worker, link, history>>

\* Condvar::wait may return for no reason; the loop around it looks at response.
WakeUp(c) ==
  /\ At(c, "wait")
  /\ GoTo(c, "woken")
  /\ UNCHANGED <<core, shared, worker, link, history>>

WaitAgain(c) ==
  /\ At(c, "woken") /\ response = NULL
  /\ GoTo(c, "wait")
  /\ UNCHANGED <<core, shared, worker, link, history>>

Take(c) == At(c, "woken") /\ response # NULL /\ response' = NULL

\* connect() returns, and the servers are started.
Connected(c) ==
  /\ Take(c) /\ thread[c].op = StartPolling /\ response = OpenedDevice
  /\ mutex' = NULL
  /\ thread' = [d \in Threads |-> IF d = Main THEN [Idle EXCEPT !.pc = "join"] ELSE Idle]
  /\ UNCHANGED <<core, chan, worker, link, history>>

\* The error is handed on instead of trying again: the USB device is gone.
Disconnected(op, err) ==
  core = "usb" /\ err \in IF op.kind = "Peek" THEN {"Pipe"} ELSE {"Pipe", "Io"}

Returned(c) ==
  /\ response.kind = thread[c].op.kind
  /\ response.err = "None" \/ Disconnected(thread[c].op, response.err)
Return(c) ==
  /\ Take(c) /\ thread[c].op \in Operations /\ Returned(c)
  /\ mutex' = NULL
  /\ thread' = [thread EXCEPT ![c] = Idle]
  /\ LET op == thread[c].op
     IN want' = IF op.kind = "Peek" THEN want
                ELSE [want EXCEPT ![op.addr] = IF response.err = "None" THEN {op.val}
                                               ELSE @ \cup {op.val}]
  /\ UNCHANGED <<core, chan, worker, link, faithful>>

\* Any other error, and a response to something else.
Retry(c) ==
  /\ Take(c)
  /\ \/ thread[c].op \in Operations /\ ~Returned(c)
     \/ thread[c].op = StartPolling /\ response # OpenedDevice
  /\ GoTo(c, IF Unlocked(c) THEN "start" ELSE "call")
  /\ UNCHANGED <<core, mutex, chan, worker, link, history>>

\* A server ends and drops its clone, which is not the last reference.
Finish(c) ==
  /\ c # Main /\ At(c, "idle")
  /\ GoTo(c, "done")
  /\ UNCHANGED <<core, shared, worker, link, history>>

\* The last reference is dropped: the connection's thread is asked to exit, and joined
\* when it has answered.
Drop ==
  /\ At(Main, "join") /\ \A s \in Servers : At(s, "done")
  /\ thread' = [thread EXCEPT ![Main] = [pc |-> "call", op |-> Exit]]
  /\ UNCHANGED <<core, shared, worker, link, history>>
Dropped ==
  /\ Take(Main) /\ thread[Main].op = Exit
  /\ GoTo(Main, "exiting")
  /\ UNCHANGED <<core, mutex, chan, worker, link, history>>
Joined ==
  /\ At(Main, "exiting") /\ worker.pc = "ended"
  /\ GoTo(Main, "done")
  /\ UNCHANGED <<core, shared, worker, link, history>>

ThreadStep(c) ==
  SendStart(c) \/ AwaitOpened(c) \/ Ask(c) \/ WaitAgain(c) \/ Connected(c) \/ Return(c) \/ Retry(c)
MainStep == Dropped \/ Joined

-----------------------------------------------------------------------------
(* The connection's thread.                                                *)

Respond(r, next) == worker' = [worker EXCEPT !.pc = "answer", !.job = r, !.next = next]

\* While it cannot open the target, the ethernet thread tries again and again, the USB
\* thread answers what is in the channel first.  The PCIe thread panics when it cannot
\* map the file; here it can, as it does so once, with a file that was found to exist.
OpenFails ==
  /\ worker.pc = "open" /\ core = "usb"
  /\ worker' = [worker EXCEPT !.pc = "drain"]
  /\ UNCHANGED <<core, shared, thread, link, history>>

\* A new TCP connection has nothing of the old one in it.
Reopened ==
  /\ IF core = "tcp" THEN toDev' = <<>> /\ toHost' = <<>> ELSE UNCHANGED <<toDev, toHost>>
  /\ faithful' = (faithful /\ (core = "tcp" => \A n \in DOMAIN toDev : toDev[n].kind # "Poke"))

\* A faulty Opens, which the properties must tell from the real one: first_run stays
\* true, and every connection is announced.
OpensAnnounced ==
  /\ worker.pc = "open"
  /\ worker' = [worker EXCEPT !.pc = "answer", !.job = OpenedDevice, !.next = "recv"]
  /\ Reopened
  /\ UNCHANGED <<core, shared, thread, mem, want>>

\* Another faulty Opens: the first connection is not announced either.
OpensUnannounced ==
  /\ worker.pc = "open"
  /\ worker' = [worker EXCEPT !.pc = "recv", !.first_run = FALSE]
  /\ Reopened
  /\ UNCHANGED <<core, shared, thread, mem, want>>

Opens ==
  /\ worker.pc = "open"
  /\ worker' = IF worker.first_run
               THEN [pc |-> "answer", job |-> OpenedDevice, next |-> "recv", first_run |-> FALSE]
               ELSE [worker EXCEPT !.pc = "recv"]
  /\ Reopened
  /\ UNCHANGED <<core, shared, thread, mem, want>>

\* rx.recv()
Receive ==
  /\ worker.pc = "recv" /\ chan # <<>>
  /\ chan' = Tail(chan)
  /\ CASE Head(chan) = StartPolling -> UNCHANGED worker
       [] Head(chan) = Exit -> Respond(Exiting, "ended")
       [] OTHER -> worker' = [worker EXCEPT !.pc = "do", !.job = Head(chan)]
  /\ UNCHANGED <<core, mutex, response, thread, link, history>>

\* The request has succeeded, with value v, or failed, and the connection is given up.
Succeed(v) == Respond(Response(worker.job.kind, "None", v), "recv")

\* A faulty Fail, which the properties must tell from the real one: keep_going stays
\* true.
FailAndKeepGoing(err) == Respond(Response(worker.job.kind, err, 0), "recv")

Fail(err) == Respond(Response(worker.job.kind, err, 0), "drain")

\* do_poke over ethernet has succeeded when the packet is sent; do_peek goes on to wait
\* for a reply.
Send ==
  /\ worker.pc = "do" /\ core \in Network /\ Len(toDev) < Capacity
  /\ toDev' = Append(toDev, worker.job)
  /\ IF worker.job.kind = "Poke" THEN Succeed(0) ELSE worker' = [worker EXCEPT !.pc = "await"]
  /\ UNCHANGED <<core, shared, thread, toHost, mem, history>>
SendFails ==
  /\ worker.pc = "do" /\ core \in Network
  /\ Fail("Other")
  /\ UNCHANGED <<core, shared, thread, link, history>>

Reply ==
  /\ worker.pc = "await" /\ toHost # <<>>
  /\ Succeed(Head(toHost))
  /\ toHost' = Tail(toHost)
  /\ UNCHANGED <<core, shared, thread, toDev, mem, history>>

\* The read timeout, or the connection's end.
Timeout ==
  /\ worker.pc = "await" /\ toHost = <<>>
  /\ Fail("Other")
  /\ faithful' = (faithful /\ (core = "udp" => \A n \in DOMAIN toDev : toDev[n].kind # "Peek"))
  /\ UNCHANGED <<core, shared, thread, link, want>>

\* A control transfer of the USB bridge, which may have been executed when it fails, or
\* an access to the mapped memory of the PCIe bridge, which never does.
Written == [mem EXCEPT ![worker.job.addr] = worker.job.val]
Transfer ==
  /\ worker.pc = "do" /\ core \notin Network
  /\ Succeed(IF worker.job.kind = "Peek" THEN mem[worker.job.addr] ELSE 0)
  /\ mem' = IF worker.job.kind = "Poke" THEN Written ELSE mem
  /\ UNCHANGED <<core, shared, thread, toDev, toHost, history>>
TransferFails(err) ==
  /\ worker.pc = "do" /\ core = "usb"
  /\ Fail(err)
  /\ mem' \in {mem} \cup (IF worker.job.kind = "Poke" THEN {Written} ELSE {})
  /\ UNCHANGED <<core, shared, thread, toDev, toHost, history>>

\* A faulty Answer, which the properties must tell from the real one: nobody is
\* notified.
AnswerQuietly ==
  /\ worker.pc = "answer"
  /\ response' = worker.job
  /\ worker' = [worker EXCEPT !.pc = worker.next, !.job = NULL, !.next = "recv"]
  /\ UNCHANGED <<core, mutex, chan, thread, link, history>>

\* The response is stored, then one waiting thread is notified.
Answer ==
  /\ worker.pc = "answer"
  /\ response' = worker.job
  /\ worker' = [worker EXCEPT !.pc = "notify", !.job = NULL]
  /\ UNCHANGED <<core, mutex, chan, thread, link, history>>
Waiting == {c \in Threads : At(c, "wait")}
Notify ==
  /\ worker.pc = "notify"
  /\ IF Waiting = {} THEN UNCHANGED thread ELSE \E c \in Waiting : GoTo(c, "woken")
  /\ worker' = [worker EXCEPT !.pc = worker.next, !.next = "recv"]
  /\ UNCHANGED <<core, shared, link, history>>

\* Without a connection, what is in the channel is answered with NotConnected.
NotConnected(request) == Respond(Response(request.kind, "Other", 0), "drain")

\* A faulty Drained, which the properties must tell from the real one: StartPolling is
\* answered as well.
DrainedAll(request) ==
  IF request = Exit THEN Respond(Exiting, "ended") ELSE NotConnected(request)

Drained(request) ==
  CASE request = StartPolling -> UNCHANGED worker
    [] request = Exit -> Respond(Exiting, "ended")
    [] OTHER -> NotConnected(request)

Drain ==
  /\ worker.pc = "drain" /\ chan # <<>>
  /\ chan' = Tail(chan)
  /\ Drained(Head(chan))
  /\ UNCHANGED <<core, mutex, response, thread, link, history>>

\* As soon as the channel is found empty, the target is opened again.
Reopen ==
  /\ worker.pc = "drain" /\ chan = <<>>
  /\ worker' = [worker EXCEPT !.pc = "open"]
  /\ UNCHANGED <<core, shared, thread, link, history>>

WorkerStep == Receive \/ Timeout \/ Answer \/ Notify \/ Drain \/ Reopen

-----------------------------------------------------------------------------
(* The link and the target.                                                *)

\* The target executes a packet.  Nothing answers a poke; a reply for which there is no
\* room is dropped.
Execute ==
  /\ toDev # <<>>
  /\ toDev' = Tail(toDev)
  /\ LET p == Head(toDev)
     IN IF p.kind = "Poke"
        THEN mem' = [mem EXCEPT ![p.addr] = p.val] /\ UNCHANGED toHost
        ELSE /\ toHost' = IF Len(toHost) < Capacity THEN Append(toHost, mem[p.addr]) ELSE toHost
             /\ UNCHANGED mem
  /\ UNCHANGED <<core, shared, thread, worker, history>>

\* UDP loses a packet.
LosePacket ==
  /\ core = "udp" /\ toDev # <<>>
  /\ toDev' = Tail(toDev)
  /\ faithful' = (faithful /\ Head(toDev).kind # "Poke")
  /\ UNCHANGED <<core, shared, thread, worker, toHost, mem, want>>
LoseReply ==
  /\ core = "udp" /\ toHost # <<>>
  /\ toHost' = Tail(toHost)
  /\ UNCHANGED <<core, shared, thread, worker, toDev, mem, history>>

-----------------------------------------------------------------------------

Next ==
  \/ \E c \in Threads :
       \/ \E op \in Operations \cup {StartPolling} : Lock(c, op)
       \/ SendStart(c) \/ AwaitOpened(c) \/ Ask(c) \/ WakeUp(c) \/ WaitAgain(c)
       \/ Connected(c) \/ Return(c) \/ Retry(c) \/ Finish(c)
  \/ Drop \/ Dropped \/ Joined
  \/ OpenFails \/ Opens \/ Receive
  \/ Send \/ SendFails \/ Reply \/ Timeout
  \/ Transfer \/ (\E err \in Errors : TransferFails(err))
  \/ Answer \/ Notify \/ Drain \/ Reopen
  \/ Execute \/ LosePacket \/ LoseReply

\* The threads run, and the target can be reached: what may succeed again and again
\* does so in the end, a packet being executed before the timeout too.
Fairness ==
  /\ \A c \in Threads : WF_vars(ThreadStep(c))
  /\ WF_vars(MainStep) /\ WF_vars(WorkerStep)
  /\ SF_vars(Opens) /\ SF_vars(Send) /\ SF_vars(Reply) /\ SF_vars(Transfer)
  /\ WF_vars(Execute) /\ SF_vars(worker.pc = "await" /\ Execute)

Spec == Init /\ [][Next]_vars /\ Fairness

-----------------------------------------------------------------------------

TypeOK ==
  /\ core \in Cores /\ mutex \in Threads \cup {NULL}
  /\ chan \in Seq(Requests)
  /\ response = NULL \/ response \in Responses
  /\ \A c \in Threads :
       /\ thread[c].op \in Requests
       /\ thread[c].pc \in {"absent", "idle", "call", "start", "wait", "woken", "join", "exiting", "done"}
  /\ worker.pc \in {"open", "recv", "do", "await", "answer", "notify", "drain", "ended"}
  /\ worker.pc \in {"do", "await"} => worker.job \in Operations
  /\ worker.pc = "answer" => worker.job \in Responses
  /\ toDev \in Seq(Operations) /\ toHost \in Seq(Vals)
  /\ mem \in [Addrs -> Vals]

Asks(c) == thread[c].pc \in {"wait", "woken"} /\ thread[c].op # StartPolling
InChannel(r) == r # StartPolling /\ \E n \in DOMAIN chan : chan[n] = r
InHand(r) == worker.pc \in {"do", "await"} /\ worker.job = r
AnswerTo(op) == IF op = Exit THEN "Exiting" ELSE op.kind
Started == At(Main, "join") \/ thread[Main].op = Exit

\* Once connected, requests and responses never get out of step, whatever connection
\* was lost and however often an operation was tried again (ethernet.rs 195-284):
\* there is at most one request anywhere, that of the thread that waits, and no response
\* but to it.
Paired ==
  LET pending == {thread[c].op : c \in {d \in Threads : Asks(d)}}
      requests == {r \in Requests : InChannel(r) \/ InHand(r)}
      answers == (IF worker.pc = "answer" THEN {worker.job.kind} ELSE {})
                   \cup (IF response # NULL THEN {response.kind} ELSE {})
  IN Started =>
       /\ requests \subseteq pending
       /\ answers \subseteq {AnswerTo(op) : op \in pending}
       /\ requests = {} \/ answers = {}
       /\ pending # {} => requests \cup answers # {}

\* A peek returns what the last poke wrote, by whichever thread: over every link,
\* with failures, timeouts and reconnections in between, as long as no poke is lost and
\* no reply outlives the timeout of its peek (ethernet.rs 345-389).
PeekSeesPokes ==
  \A c \in Threads :
    /\ thread[c].pc \in {"wait", "woken"} /\ thread[c].op.kind = "Peek"
    /\ response # NULL /\ response.kind = "Peek" /\ response.err = "None"
    /\ faithful
    => response.val \in want[thread[c].op.addr]

\* The thread that answers NotConnected goes on for as long as it finds a request, and a
\* caller that is refused tries again at once.
Draining == worker.pc = "drain" \/ worker.next = "drain"

\* A thread that waits for a response gets it and goes on, as does the one that drops
\* the bridge: no notification is lost and no request left unanswered.  This needs the
\* draining thread to find the channel empty now and then (ethernet.rs 256-258).
Returns ==
  []<>~Draining =>
    \A c \in Threads : Asks(c) ~> thread[c].pc \in {"idle", "exiting", "done"}

\* "calling connect() ensures that the bridge has been established" (lib.rs 254-256):
\* connect() returns, whatever it takes to open the target, if it waits before the
\* target is opened for the first time.  It would wait for ever if it came later, as a
\* later opening is not announced (ethernet.rs 195-199).
ConnectReturns ==
  At(Main, "wait") /\ thread[Main].op = StartPolling /\ worker.first_run ~> At(Main, "join")
=============================================================================
