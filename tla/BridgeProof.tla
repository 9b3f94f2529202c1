----------------------------- MODULE BridgeProof ------------------------------
(***************************************************************************)
(* The bridge's invariants for any number of threads, addresses, values    *)
(* and packets on their way.                                               *)
(***************************************************************************)
EXTENDS Bridge, TLAPS

Places == {"absent", "idle", "call", "start", "wait", "woken", "join", "exiting", "done"}
WorkerPlaces == {"open", "recv", "do", "await", "answer", "notify", "drain", "ended"}

\* The type invariant, with the shape of the records that EXCEPT needs.
Typed ==
  /\ TypeOK
  /\ thread \in [Threads -> [pc : Places, op : Requests]]
  /\ worker \in [pc : WorkerPlaces, job : Operations \cup Responses \cup {NULL},
                 next : {"recv", "drain", "ended"}, first_run : BOOLEAN]
  /\ want \in [Addrs -> SUBSET Vals] /\ faithful \in BOOLEAN

\* A thread is in the middle of connect(), peek(), poke() or drop().
Busy(c) == thread[c].pc \in {"call", "start", "wait", "woken"}

\* What each thread can be doing, and who holds the mutex.  drop() does not take it:
\* then the servers are done.
Exclusion ==
  /\ \A c \in Servers :
       /\ thread[c].pc \in {"absent", "idle", "call", "wait", "woken", "done"}
       /\ Busy(c) => thread[c].op \in Operations
       /\ ~Started => thread[c].pc = "absent"
       /\ thread[Main].op = Exit => thread[c].pc = "done"
  /\ thread[Main].op \in {StartPolling, Exit}
  /\ thread[Main].pc \in IF thread[Main].op = Exit
                         THEN {"call", "wait", "woken", "exiting", "done"}
                         ELSE {"idle", "call", "start", "wait", "woken", "join"}
  /\ \A c \in Threads : (Busy(c) /\ thread[c].op # Exit) <=> mutex = c

\* The response a request gets.
AnswerIs(r, op) == r.kind = AnswerTo(op)

\* The opening of the target is announced once, and only before connect() returns.
Announced ==
  ~Started =>
    /\ \A n \in DOMAIN chan : chan[n] = StartPolling
    /\ worker.pc \in {"open", "recv", "answer", "notify", "drain"} /\ worker.next # "ended"
    /\ worker.pc = "answer" => worker.job = OpenedDevice /\ ~worker.first_run /\ response = NULL
    /\ response # NULL => response = OpenedDevice /\ ~worker.first_run

\* After it has returned there is at most one request or response, and it is that of
\* the thread that waits.
Once ==
  Started =>
    /\ ~worker.first_run
    /\ \A n \in DOMAIN chan : chan[n] # StartPolling =>
         /\ \E c \in Threads : Asks(c) /\ chan[n] = thread[c].op
         /\ \A m \in DOMAIN chan : chan[m] # StartPolling => m = n
         /\ worker.pc \notin {"do", "await", "answer"} /\ response = NULL
    /\ worker.pc \in {"do", "await"} =>
         (\E c \in Threads : Asks(c) /\ worker.job = thread[c].op) /\ response = NULL
    /\ worker.pc = "answer" =>
         (\E c \in Threads : Asks(c) /\ AnswerIs(worker.job, thread[c].op)) /\ response = NULL
    /\ response # NULL => \E c \in Threads : Asks(c) /\ AnswerIs(response, thread[c].op)
    /\ (\E c \in Threads : Asks(c)) =>
         \/ \E n \in DOMAIN chan : chan[n] # StartPolling
         \/ worker.pc \in {"do", "await", "answer"}
         \/ response # NULL

PairedInv == Typed /\ Exclusion /\ Announced /\ Once

-----------------------------------------------------------------------------

\* The last of the packets dev that pokes a writes one of vs; with none, the memory m has
\* one of them there.
PokesOf(dev, a) == {n \in DOMAIN dev : dev[n].kind = "Poke" /\ dev[n].addr = a}
Settles(dev, m, a, vs) ==
  /\ PokesOf(dev, a) = {} => m[a] \in vs
  /\ \A n \in PokesOf(dev, a) : (\A k \in PokesOf(dev, a) : k <= n) => dev[n].val \in vs

\* A poke that is being tried, or tried again, may have been done.
Tried(a) ==
  {thread[c].op.val : c \in {d \in Threads : Busy(d) /\ thread[d].op.kind = "Poke" /\ thread[d].op.addr = a}}

\* The connection's thread has a connection.
Connection ==
  worker.pc \in {"recv", "do", "await"} \/ (worker.pc \in {"answer", "notify"} /\ worker.next = "recv")

PeeksIn(dev) == {n \in DOMAIN dev : dev[n].kind = "Peek"}

\* Outside do_peek there is neither a peek nor a reply on its way, except on a TCP
\* connection that has been given up; inside there is one at most, behind every poke.
Link ==
  faithful =>
    /\ core \notin Network => toDev = <<>> /\ toHost = <<>>
    /\ worker.pc # "await" /\ (Connection \/ core # "tcp") => PeeksIn(toDev) = {} /\ toHost = <<>>
    /\ worker.pc = "await" =>
         /\ worker.job.kind = "Peek"
         /\ \A n \in PeeksIn(toDev) :
              n = Len(toDev) /\ toDev[n].addr = worker.job.addr /\ toHost = <<>>
         /\ \A n \in DOMAIN toHost : n = 1 /\ toHost[n] \in want[worker.job.addr]

Success(r) == r.err = "None"

\* What the pokes so far allow is what the target has or will have.
Allowed == faithful => \A a \in Addrs : Settles(toDev, mem, a, want[a] \cup Tried(a))

\* A response r of success to op tells the truth.
Truthful(r, op) ==
  Success(r) =>
    /\ op.kind = "Poke" => Settles(toDev, mem, op.addr, {op.val})
    /\ op.kind = "Peek" => r.val \in want[op.addr]
Told ==
  faithful =>
    \A c \in Threads : Asks(c) =>
      /\ worker.pc = "answer" => Truthful(worker.job, thread[c].op)
      /\ response # NULL => Truthful(response, thread[c].op)

PeekInv == PairedInv /\ Link /\ Allowed /\ Told

-----------------------------------------------------------------------------
(* What requests and responses are made of.                                *)

\* A peek or a poke is told from the other requests by its kind.
LEMMA Kinds ==
  /\ \A op \in Operations :
       /\ op.kind \in {"Peek", "Poke"} /\ op.addr \in Addrs /\ op.val \in Vals
       /\ op # StartPolling /\ op # Exit
       /\ op \in Requests
  /\ StartPolling # Exit /\ StartPolling \in Requests /\ Exit \in Requests
BY BridgeAssumption DEF Peeks, Pokes, Op, StartPolling, Exit, Requests

\* Every response the connection's thread makes is one, and none is NULL.
LEMMA Answers ==
  /\ OpenedDevice \in Responses /\ Exiting \in Responses
  /\ NULL \notin Responses
  /\ \A op \in Operations, err \in Errors \cup {"None"}, v \in Vals :
       Response(op.kind, err, v) \in Responses
  /\ 0 \in Vals
<1>1. 0 \in Vals /\ NULL \notin Responses
  BY BridgeAssumption
<1> QED
  BY <1>1, Kinds DEF OpenedDevice, Exiting, Response, Responses

\* Where the record EXCEPT of a thread leaves it.
LEMMA Went ==
  ASSUME Typed, NEW c \in Threads, NEW pc \in Places, GoTo(c, pc)
  PROVE  /\ thread' \in [Threads -> [pc : Places, op : Requests]]
         /\ thread'[c].pc = pc /\ thread'[c].op = thread[c].op
         /\ \A d \in Threads \ {c} : thread'[d] = thread[d]
BY DEF Typed, GoTo

-----------------------------------------------------------------------------
(* The types.                                                              *)

LEMMA TypedInit == Init => Typed
<1> SUFFICES ASSUME Init PROVE Typed
  OBVIOUS
<1>1. thread \in [Threads -> [pc : Places, op : Requests]]
  BY Kinds DEF Init, Idle, Places, Threads
<1>2. Boot \in [Addrs -> Vals]
  BY BridgeAssumption
<1> QED
  BY <1>1, <1>2 DEF Init, Typed, TypeOK, WorkerPlaces, Places

\* The types when only the threads, the mutex, the channel, the response and what is
\* wanted change.
LEMMA TypedThreads ==
  ASSUME Typed,
         thread' \in [Threads -> [pc : Places, op : Requests]],
         mutex' \in Threads \cup {NULL}, chan' \in Seq(Requests),
         response' = NULL \/ response' \in Responses, want' \in [Addrs -> SUBSET Vals],
         UNCHANGED <<core, worker, link, faithful>>
  PROVE  Typed'
BY DEF Typed, TypeOK, Places, link

\* The types when only the connection's thread, the channel, the response and the link
\* change.
LEMMA TypedWorker ==
  ASSUME Typed,
         worker' \in [pc : WorkerPlaces, job : Operations \cup Responses \cup {NULL},
                      next : {"recv", "drain", "ended"}, first_run : BOOLEAN],
         worker'.pc \in {"do", "await"} => worker'.job \in Operations,
         worker'.pc = "answer" => worker'.job \in Responses,
         chan' \in Seq(Requests), response' = NULL \/ response' \in Responses,
         toDev' \in Seq(Operations), toHost' \in Seq(Vals), mem' \in [Addrs -> Vals],
         faithful' \in BOOLEAN,
         UNCHANGED <<core, mutex, thread, want>>
  PROVE  Typed'
BY DEF Typed, TypeOK, Places, WorkerPlaces

ThreadAction(c) ==
  \/ \E op \in Operations \cup {StartPolling} : Lock(c, op)
  \/ SendStart(c) \/ AwaitOpened(c) \/ Ask(c) \/ WakeUp(c) \/ WaitAgain(c)
  \/ Connected(c) \/ Return(c) \/ Retry(c) \/ Finish(c)
  \/ Drop \/ Dropped \/ Joined

LEMMA TypedThreadStep ==
  ASSUME Typed, NEW c \in Threads, ThreadAction(c)
  PROVE  Typed'
<1> USE DEF shared, link, history
<1>1. ASSUME NEW op \in Operations \cup {StartPolling}, Lock(c, op) PROVE Typed'
  BY <1>1, TypedThreads, Kinds DEF Lock, Typed, TypeOK, Places
<1>2. CASE SendStart(c)
  BY <1>2, TypedThreads, Kinds, Went DEF SendStart, Typed, TypeOK, Places
<1>3. CASE AwaitOpened(c)
  BY <1>3, TypedThreads, Kinds, Went DEF AwaitOpened, Typed, TypeOK, Places
<1>4. CASE Ask(c)
  BY <1>4, TypedThreads, Kinds, Went DEF Ask, Typed, TypeOK, Places
<1>5. CASE WakeUp(c)
  BY <1>5, TypedThreads, Kinds, Went DEF WakeUp, Typed, TypeOK, Places
<1>6. CASE WaitAgain(c)
  BY <1>6, TypedThreads, Kinds, Went DEF WaitAgain, Typed, TypeOK, Places
<1>7. CASE Connected(c)
  <2>1. thread' \in [Threads -> [pc : Places, op : Requests]]
    BY <1>7, Kinds DEF Connected, Idle, Places
  <2> QED BY <1>7, <2>1, TypedThreads DEF Connected, Take, Typed, TypeOK
<1>8. CASE Return(c)
  <2>1. thread' \in [Threads -> [pc : Places, op : Requests]]
    BY <1>8, Kinds DEF Return, Idle, Places, Typed
  <2>2. want' \in [Addrs -> SUBSET Vals]
    BY <1>8, Kinds DEF Return, Typed
  <2> QED BY <1>8, <2>1, <2>2, TypedThreads DEF Return, Take, Typed, TypeOK
<1>9. CASE Retry(c)
  BY <1>9, TypedThreads, Kinds, Went DEF Retry, Take, Typed, TypeOK, Places
<1>10. CASE Finish(c)
  BY <1>10, TypedThreads, Kinds, Went DEF Finish, Typed, TypeOK, Places
<1>11. CASE Drop
  BY <1>11, TypedThreads, Kinds DEF Drop, Typed, TypeOK, Places, Threads
<1>12. CASE Dropped
  BY <1>12, TypedThreads, Kinds, Went DEF Dropped, Take, Typed, TypeOK, Places, Threads
<1>13. CASE Joined
  BY <1>13, TypedThreads, Kinds, Went DEF Joined, Typed, TypeOK, Places, Threads
<1> QED
  BY <1>1, <1>2, <1>3, <1>4, <1>5, <1>6, <1>7, <1>8, <1>9, <1>10, <1>11, <1>12, <1>13
  DEF ThreadAction

\* Respond leaves a response in the hands of the connection's thread.
LEMMA Responding ==
  ASSUME Typed, NEW r \in Responses, NEW next \in {"recv", "drain", "ended"}, Respond(r, next)
  PROVE  /\ worker' \in [pc : WorkerPlaces, job : Operations \cup Responses \cup {NULL},
                         next : {"recv", "drain", "ended"}, first_run : BOOLEAN]
         /\ worker'.pc = "answer" /\ worker'.job = r /\ worker'.next = next
         /\ worker'.first_run = worker.first_run
BY DEF Typed, Respond, WorkerPlaces

\* The connection's thread at some other place.
LEMMA Moving ==
  ASSUME Typed, NEW pc \in WorkerPlaces, worker' = [worker EXCEPT !.pc = pc]
  PROVE  /\ worker' \in [pc : WorkerPlaces, job : Operations \cup Responses \cup {NULL},
                         next : {"recv", "drain", "ended"}, first_run : BOOLEAN]
         /\ worker'.pc = pc /\ worker'.job = worker.job /\ worker'.next = worker.next
         /\ worker'.first_run = worker.first_run
BY DEF Typed

WorkerAction ==
  \/ OpenFails \/ Opens \/ Receive
  \/ Send \/ SendFails \/ Reply \/ Timeout
  \/ Transfer \/ (\E err \in Errors : TransferFails(err))
  \/ Answer \/ Notify \/ Drain \/ Reopen
  \/ Execute \/ LosePacket \/ LoseReply

LEMMA TypedWorkerStep == Typed /\ WorkerAction => Typed'
<1> SUFFICES ASSUME Typed, WorkerAction PROVE Typed'
  OBVIOUS
<1> USE DEF shared, link, history
<1>1. CASE OpenFails
  BY <1>1, Moving, TypedWorker DEF OpenFails, Typed, TypeOK, WorkerPlaces
<1>2. CASE Opens
  <2>1. /\ worker' \in [pc : WorkerPlaces, job : Operations \cup Responses \cup {NULL},
                        next : {"recv", "drain", "ended"}, first_run : BOOLEAN]
        /\ worker'.pc \in {"recv", "answer"}
        /\ worker'.pc = "answer" => worker'.job \in Responses
    BY <1>2, Answers DEF Opens, Typed, WorkerPlaces
  <2>2. toDev' \in Seq(Operations) /\ toHost' \in Seq(Vals)
    <3>1. <<>> \in Seq(Operations) /\ <<>> \in Seq(Vals)
      OBVIOUS
    <3> QED BY <1>2, <3>1, Zenon DEF Opens, Reopened, Typed, TypeOK
  <2>3. faithful' \in BOOLEAN
    BY <1>2 DEF Opens, Reopened, Typed
  <2> QED BY <1>2, <2>1, <2>2, <2>3, TypedWorker DEF Opens, Typed, TypeOK
<1>3. CASE Receive
  <2>1. Head(chan) \in Requests /\ chan' \in Seq(Requests)
    BY <1>3 DEF Receive, Typed, TypeOK
  <2>2. CASE Head(chan) = StartPolling
    <3>1. UNCHANGED worker
      BY <1>3, <2>2, Kinds DEF Receive
    <3> QED BY <1>3, <2>1, <3>1, TypedWorker DEF Receive, Typed, TypeOK
  <2>3. CASE Head(chan) = Exit
    BY <1>3, <2>1, <2>3, TypedWorker, Responding, Kinds, Answers DEF Receive, Typed, TypeOK
  <2>4. CASE Head(chan) \in Operations
    <3>1. worker' = [worker EXCEPT !.pc = "do", !.job = Head(chan)]
      BY <1>3, <2>4, Kinds DEF Receive
    <3>2. /\ worker' \in [pc : WorkerPlaces, job : Operations \cup Responses \cup {NULL},
                          next : {"recv", "drain", "ended"}, first_run : BOOLEAN]
          /\ worker'.pc = "do" /\ worker'.job \in Operations
      BY <2>4, <3>1 DEF Typed, WorkerPlaces
    <3> QED BY <1>3, <2>1, <3>2, TypedWorker DEF Receive, Typed, TypeOK
  <2> QED BY <2>1, <2>2, <2>3, <2>4 DEF Requests
<1>4. CASE Send
  <2>1. worker.job \in Operations /\ toDev' \in Seq(Operations)
    BY <1>4 DEF Send, Typed, TypeOK
  <2>2. CASE worker.job.kind = "Poke"
    <3>1. Response(worker.job.kind, "None", 0) \in Responses
      BY <2>1, Answers
    <3>2. Respond(Response(worker.job.kind, "None", 0), "recv")
      BY <1>4, <2>2 DEF Send, Succeed
    <3> QED BY <1>4, <2>1, <3>1, <3>2, Responding, TypedWorker DEF Send, Typed, TypeOK
  <2>3. CASE worker.job.kind # "Poke"
    BY <1>4, <2>1, <2>3, Moving, TypedWorker DEF Send, Typed, TypeOK, WorkerPlaces
  <2> QED BY <2>2, <2>3
<1>5. CASE SendFails
  <2>1. Response(worker.job.kind, "Other", 0) \in Responses
    BY <1>5, Answers DEF SendFails, Typed, TypeOK, Errors
  <2> QED BY <1>5, <2>1, Responding, TypedWorker DEF SendFails, Fail, Typed, TypeOK
<1>6. CASE Reply
  <2>1. Head(toHost) \in Vals /\ toHost' \in Seq(Vals)
    BY <1>6 DEF Reply, Typed, TypeOK
  <2>2. Response(worker.job.kind, "None", Head(toHost)) \in Responses
    BY <1>6, <2>1, Answers DEF Reply, Typed, TypeOK
  <2> QED BY <1>6, <2>1, <2>2, Responding, TypedWorker DEF Reply, Succeed, Typed, TypeOK
<1>7. CASE Timeout
  <2>1. Response(worker.job.kind, "Other", 0) \in Responses
    BY <1>7, Answers DEF Timeout, Typed, TypeOK, Errors
  <2> QED BY <1>7, <2>1, Responding, TypedWorker DEF Timeout, Fail, Typed, TypeOK
<1>8. CASE Transfer
  <2>1. worker.job \in Operations
    BY <1>8 DEF Transfer, Typed, TypeOK
  <2>2. (IF worker.job.kind = "Peek" THEN mem[worker.job.addr] ELSE 0) \in Vals
    BY <2>1, Kinds, Answers DEF Typed, TypeOK
  <2>3. Response(worker.job.kind, "None", IF worker.job.kind = "Peek" THEN mem[worker.job.addr] ELSE 0) \in Responses
    BY <2>1, <2>2, Answers
  <2>4. mem' \in [Addrs -> Vals]
    BY <1>8, <2>1, Kinds DEF Transfer, Written, Typed, TypeOK
  <2> QED BY <1>8, <2>3, <2>4, Responding, TypedWorker DEF Transfer, Succeed, Typed, TypeOK
<1>9. ASSUME NEW err \in Errors, TransferFails(err) PROVE Typed'
  <2>1. worker.job \in Operations
    BY <1>9 DEF TransferFails, Typed, TypeOK
  <2>2. Response(worker.job.kind, err, 0) \in Responses
    BY <2>1, Answers
  <2>3. mem' \in [Addrs -> Vals]
    BY <1>9, <2>1, Kinds DEF TransferFails, Written, Typed, TypeOK
  <2> QED BY <1>9, <2>2, <2>3, Responding, TypedWorker DEF TransferFails, Fail, Typed, TypeOK
<1>10. CASE Answer
  <2>1. /\ worker' \in [pc : WorkerPlaces, job : Operations \cup Responses \cup {NULL},
                        next : {"recv", "drain", "ended"}, first_run : BOOLEAN]
        /\ worker'.pc = "notify"
    BY <1>10 DEF Answer, Typed, WorkerPlaces
  <2> QED BY <1>10, <2>1, TypedWorker DEF Answer, Typed, TypeOK
<1>11. CASE Notify
  <2>1. /\ worker' \in [pc : WorkerPlaces, job : Operations \cup Responses \cup {NULL},
                        next : {"recv", "drain", "ended"}, first_run : BOOLEAN]
        /\ worker'.pc \in {"recv", "drain", "ended"}
    BY <1>11 DEF Notify, Typed, WorkerPlaces
  <2>2. thread' \in [Threads -> [pc : Places, op : Requests]]
    BY <1>11, Went DEF Notify, Waiting, Places, Typed
  <2> QED BY <1>11, <2>1, <2>2 DEF Notify, Typed, TypeOK, Places, WorkerPlaces
<1>12. CASE Drain
  <2>1. Head(chan) \in Requests /\ chan' \in Seq(Requests)
    BY <1>12 DEF Drain, Typed, TypeOK
  <2>2. CASE Head(chan) = StartPolling
    <3>1. UNCHANGED worker
      BY <1>12, <2>2, Kinds DEF Drain, Drained
    <3> QED BY <1>12, <2>1, <3>1, TypedWorker DEF Drain, Typed, TypeOK
  <2>3. CASE Head(chan) = Exit
    BY <1>12, <2>1, <2>3, TypedWorker, Responding, Kinds, Answers DEF Drain, Drained, Typed, TypeOK
  <2>4. CASE Head(chan) \in Operations
    <3>1. Response(Head(chan).kind, "Other", 0) \in Responses
      BY <2>4, Answers DEF Errors
    <3>2. Respond(Response(Head(chan).kind, "Other", 0), "drain")
      BY <1>12, <2>4, Kinds DEF Drain, Drained, NotConnected
    <3> QED BY <1>12, <2>1, <3>1, <3>2, Responding, TypedWorker DEF Drain, Typed, TypeOK
  <2> QED BY <2>1, <2>2, <2>3, <2>4 DEF Requests
<1>13. CASE Reopen
  BY <1>13, Moving, TypedWorker DEF Reopen, Typed, TypeOK, WorkerPlaces
<1>14. CASE Execute
  <2>1. Head(toDev) \in Operations /\ toDev' \in Seq(Operations)
    BY <1>14 DEF Execute, Typed, TypeOK
  <2>2. mem' \in [Addrs -> Vals] /\ toHost' \in Seq(Vals)
    <3>1. CASE Head(toDev).kind = "Poke"
      BY <1>14, <2>1, <3>1, Kinds DEF Execute, Typed, TypeOK
    <3>2. CASE Head(toDev).kind # "Poke"
      <4>1. mem[Head(toDev).addr] \in Vals
        BY <2>1, Kinds DEF Typed, TypeOK
      <4>2. Append(toHost, mem[Head(toDev).addr]) \in Seq(Vals)
        BY <4>1 DEF Typed, TypeOK
      <4> QED BY <1>14, <3>2, <4>2 DEF Execute, Typed, TypeOK
    <3> QED BY <3>1, <3>2
  <2> QED BY <1>14, <2>1, <2>2, TypedWorker DEF Execute, Typed, TypeOK
<1>15. CASE LosePacket
  BY <1>15, TypedWorker DEF LosePacket, Typed, TypeOK
<1>16. CASE LoseReply
  BY <1>16, TypedWorker DEF LoseReply, Typed, TypeOK
<1> QED
  BY <1>1, <1>2, <1>3, <1>4, <1>5, <1>6, <1>7, <1>8, <1>9, <1>10, <1>11, <1>12, <1>13,
     <1>14, <1>15, <1>16 DEF WorkerAction

\* A step is one of a thread, of the connection's thread or of the link.
LEMMA NextSplit == Next => (\E c \in Threads : ThreadAction(c)) \/ WorkerAction
BY DEF Next, ThreadAction, WorkerAction, Threads

LEMMA TypedStep == Typed /\ [Next]_vars => Typed'
<1> SUFFICES ASSUME Typed, [Next]_vars PROVE Typed'
  OBVIOUS
<1>1. CASE Next
  BY <1>1, NextSplit, TypedThreadStep, TypedWorkerStep
<1>2. CASE UNCHANGED vars
  BY <1>2 DEF vars, shared, link, history, Typed, TypeOK
<1> QED BY <1>1, <1>2

-----------------------------------------------------------------------------
(* Mutual exclusion.                                                       *)

LEMMA ExclusionInit == Init => Exclusion
<1> SUFFICES ASSUME Init PROVE Exclusion
  OBVIOUS
<1>1. /\ thread[Main].pc = "idle" /\ thread[Main].op = StartPolling
      /\ \A c \in Servers : thread[c].pc = "absent"
  BY BridgeAssumption DEF Init, Idle, Threads
<1>2. \A c \in Threads : ~Busy(c) /\ mutex # c
  BY <1>1, BridgeAssumption DEF Init, Threads, Busy
<1> QED BY <1>1, <1>2, Kinds DEF Exclusion, Started, At, Busy, Threads

\* At most one thread is in the middle of something.
LEMMA OneBusy ==
  ASSUME Typed, Exclusion, NEW c \in Threads, NEW d \in Threads, Busy(c), Busy(d)
  PROVE  c = d
<1>1. CASE thread[c].op = Exit \/ thread[d].op = Exit
  <2>1. \A s \in Servers : Busy(s) => thread[s].op # Exit /\ thread[Main].op # Exit
    BY Kinds DEF Exclusion, Busy
  <2> QED BY <1>1, <2>1 DEF Threads
<1>2. CASE thread[c].op # Exit /\ thread[d].op # Exit
  BY <1>2 DEF Exclusion
<1> QED BY <1>1, <1>2

\* The threads and the mutex are all that Exclusion is about.
LEMMA ExclusionThreads ==
  ASSUME Typed, Exclusion, NEW c \in Threads, ThreadAction(c)
  PROVE  Exclusion'
<1> USE DEF Exclusion, Started, At, Busy, Threads
<1>0. Main \notin Servers /\ NULL \notin Threads
  BY BridgeAssumption
<1>1. ASSUME NEW op \in Operations \cup {StartPolling}, Lock(c, op) PROVE Exclusion'
  BY <1>0, <1>1, Kinds DEF Lock, Typed
<1>2. CASE SendStart(c)
  BY <1>0, <1>2, Kinds, Went DEF SendStart, Places, Unlocked
<1>3. CASE AwaitOpened(c)
  BY <1>0, <1>3, Kinds, Went DEF AwaitOpened, Places
<1>4. CASE Ask(c)
  BY <1>0, <1>4, Kinds, Went DEF Ask, Places
<1>5. CASE WakeUp(c)
  BY <1>0, <1>5, Kinds, Went DEF WakeUp, Places, shared
<1>6. CASE WaitAgain(c)
  BY <1>0, <1>6, Kinds, Went DEF WaitAgain, Places, shared
<1>7. CASE Connected(c)
  BY <1>0, <1>7, Kinds DEF Connected, Idle
<1>8. CASE Return(c)
  BY <1>0, <1>8, Kinds DEF Return, Take, Idle, Typed
<1>9. CASE Retry(c)
  BY <1>0, <1>9, Kinds, Went DEF Retry, Take, Places, Unlocked
<1>10. CASE Finish(c)
  BY <1>0, <1>10, Kinds, Went DEF Finish, Places, shared
<1>11. CASE Drop
  BY <1>0, <1>11, Kinds DEF Drop, shared, Typed
<1>12. CASE Dropped
  BY <1>0, <1>12, Kinds, Went DEF Dropped, Take, Places
<1>13. CASE Joined
  BY <1>0, <1>13, Kinds, Went DEF Joined, Places, shared
<1> QED
  BY <1>1, <1>2, <1>3, <1>4, <1>5, <1>6, <1>7, <1>8, <1>9, <1>10, <1>11, <1>12, <1>13
  DEF ThreadAction

\* The connection's thread does no more to the others than wake one.
LEMMA OnlyWakes ==
  ASSUME Typed, WorkerAction
  PROVE  /\ mutex' = mutex
         /\ \A c \in Threads :
              /\ thread'[c].op = thread[c].op
              /\ \/ thread'[c].pc = thread[c].pc
                 \/ thread[c].pc = "wait" /\ thread'[c].pc = "woken"
<1>1. CASE Notify
  <2>1. CASE Waiting = {}
    BY <1>1, <2>1 DEF Notify, shared
  <2>2. CASE Waiting # {}
    <3>1. PICK c \in Waiting : GoTo(c, "woken")
      BY <1>1, <2>2 DEF Notify
    <3> QED BY <1>1, <3>1, Went DEF Notify, shared, Waiting, At, Places
  <2> QED BY <2>1, <2>2
<1>2. CASE ~Notify
  BY <1>2 DEF WorkerAction, OpenFails, Opens, Receive, Send, SendFails, Reply, Timeout, Transfer,
       TransferFails, Answer, Drain, Reopen, Execute, LosePacket, LoseReply, shared
<1> QED BY <1>1, <1>2

LEMMA ExclusionStep == Typed /\ Exclusion /\ [Next]_vars => Exclusion'
<1> SUFFICES ASSUME Typed, Exclusion, [Next]_vars PROVE Exclusion'
  OBVIOUS
<1>1. CASE WorkerAction
  BY <1>1, OnlyWakes DEF Exclusion, Started, At, Busy, Threads
<1>2. CASE UNCHANGED vars
  BY <1>2 DEF vars, shared, Exclusion, Started, At, Busy
<1> QED BY <1>1, <1>2, NextSplit, ExclusionThreads

-----------------------------------------------------------------------------
(* Requests and responses.                                                 *)

\* What the channel holds after a request is put in, and after one is taken out.
LEMMA Channel ==
  ASSUME Typed
  PROVE  /\ \A r \in Requests :
              /\ DOMAIN Append(chan, r) = 1 .. (Len(chan) + 1)
              /\ Append(chan, r)[Len(chan) + 1] = r
              /\ \A n \in DOMAIN chan : Append(chan, r)[n] = chan[n]
         /\ DOMAIN chan = 1 .. Len(chan) /\ Len(chan) \in Nat
         /\ \A n \in DOMAIN chan : chan[n] \in Requests
         /\ chan # <<>> =>
              /\ DOMAIN Tail(chan) = 1 .. (Len(chan) - 1)
              /\ \A n \in DOMAIN Tail(chan) : Tail(chan)[n] = chan[n + 1] /\ n + 1 \in DOMAIN chan
              /\ Head(chan) = chan[1] /\ 1 \in DOMAIN chan
BY DEF Typed, TypeOK

LEMMA AnnouncedThreads ==
  ASSUME Typed, Exclusion, Announced, NEW c \in Threads, ThreadAction(c)
  PROVE  Announced'
<1> SUFFICES ASSUME ~Started' PROVE Announced'
  BY DEF Announced
<1> USE DEF Exclusion, Started, At, Threads, link, history
<1>0. Main \notin Servers
  BY BridgeAssumption
<1>1. ASSUME NEW op \in Operations \cup {StartPolling}, Lock(c, op) PROVE Announced'
  BY <1>0, <1>1, Kinds DEF Lock, Announced, Typed
<1>2. CASE SendStart(c)
  BY <1>0, <1>2, Kinds, Went, Channel DEF SendStart, Places, Announced
<1>3. CASE AwaitOpened(c)
  BY <1>0, <1>3, Kinds, Went DEF AwaitOpened, Places, Announced
<1>4. CASE Ask(c)
  BY <1>0, <1>4, Kinds, Went, Channel DEF Ask, Places, Announced
<1>5. CASE WakeUp(c)
  BY <1>0, <1>5, Kinds, Went DEF WakeUp, Places, shared, Announced
<1>6. CASE WaitAgain(c)
  BY <1>0, <1>6, Kinds, Went DEF WaitAgain, Places, shared, Announced
<1>7. CASE Connected(c)
  BY <1>0, <1>7, Kinds DEF Connected, Idle
<1>8. CASE Return(c)
  BY <1>0, <1>8, Kinds DEF Return, Take, Idle, Typed, Announced
<1>9. CASE Retry(c)
  BY <1>0, <1>9, Kinds, Went DEF Retry, Take, Places, Announced
<1>10. CASE Finish(c)
  BY <1>0, <1>10, Kinds, Went DEF Finish, Places, shared, Announced
<1>11. CASE Drop
  BY <1>0, <1>11, Kinds DEF Drop, Typed
<1>12. CASE Dropped
  BY <1>0, <1>12, Kinds, Went DEF Dropped, Take, Places
<1>13. CASE Joined
  BY <1>0, <1>13, Kinds, Went DEF Joined, Places, shared
<1> QED
  BY <1>1, <1>2, <1>3, <1>4, <1>5, <1>6, <1>7, <1>8, <1>9, <1>10, <1>11, <1>12, <1>13
  DEF ThreadAction

\* Before connect() has returned the connection's thread has nothing but StartPolling
\* to do.
LEMMA AnnouncedWorker ==
  ASSUME Typed, Announced, WorkerAction
  PROVE  Announced'
<1>0. Started' <=> Started
  BY OnlyWakes DEF Started, At, Threads
<1> SUFFICES ASSUME ~Started PROVE Announced'
  BY <1>0 DEF Announced
<1> USE DEF shared
<1>1. CASE OpenFails
  BY <1>0, <1>1, Moving DEF OpenFails, Announced, WorkerPlaces
<1>2. CASE Opens
  <2>1. worker'.pc \in {"recv", "answer"}
        /\ (worker'.pc = "answer" => worker.first_run /\ worker'.job = OpenedDevice)
        /\ ~worker'.first_run /\ (worker'.next = worker.next \/ worker'.next = "recv")
    BY <1>2 DEF Opens, Typed
  <2> QED BY <1>0, <1>2, <2>1 DEF Opens, Announced
<1>3. CASE Receive
  <2>1. UNCHANGED worker
    BY <1>3, Channel, Kinds DEF Receive, Announced
  <2> QED BY <1>0, <1>3, <2>1, Channel DEF Receive, Announced
<1>4. CASE Drain
  <2>1. UNCHANGED worker
    BY <1>4, Channel, Kinds DEF Drain, Drained, Announced
  <2> QED BY <1>0, <1>4, <2>1, Channel DEF Drain, Announced
<1>5. CASE Answer
  <2>1. worker'.pc = "notify" /\ worker'.first_run = worker.first_run /\ worker'.next = worker.next
    BY <1>5 DEF Answer, Typed
  <2> QED BY <1>0, <1>5, <2>1 DEF Answer, Announced
<1>6. CASE Notify
  <2>1. worker'.pc = worker.next /\ worker'.first_run = worker.first_run /\ worker'.next = "recv"
    BY <1>6 DEF Notify, Typed
  <2>2. worker.next \in {"recv", "drain"}
    BY <1>6 DEF Announced, Typed
  <2> QED BY <1>0, <1>6, <2>1, <2>2 DEF Notify, Announced
<1>7. CASE Reopen
  BY <1>0, <1>7, Moving DEF Reopen, Announced, WorkerPlaces
<1>8. CASE Execute \/ LosePacket \/ LoseReply
  BY <1>0, <1>8 DEF Execute, LosePacket, LoseReply, Announced
<1>9. CASE Send \/ SendFails \/ Reply \/ Timeout \/ Transfer \/ (\E err \in Errors : TransferFails(err))
  BY <1>9 DEF Send, SendFails, Reply, Timeout, Transfer, TransferFails, Announced
<1> QED
  BY <1>1, <1>2, <1>3, <1>4, <1>5, <1>6, <1>7, <1>8, <1>9 DEF WorkerAction

\* With nobody waiting, nothing is on its way.
LEMMA Quiet ==
  ASSUME Started, Once, ~\E c \in Threads : Asks(c)
  PROVE  /\ \A n \in DOMAIN chan : chan[n] = StartPolling
         /\ worker.pc \notin {"do", "await", "answer"} /\ response = NULL /\ ~worker.first_run
BY DEF Once

\* And nothing is on its way that nobody waits for.
LEMMA QuietOnce ==
  ASSUME ~\E c \in Threads : Asks(c)', ~worker'.first_run, response' = NULL,
         \A n \in DOMAIN chan' : chan'[n] = StartPolling,
         worker'.pc \notin {"do", "await", "answer"}
  PROVE  Once'
BY DEF Once

\* The one who waits takes the response, and there was nothing else.
LEMMA TakeQuiet ==
  ASSUME Typed, Exclusion, Once, Started, NEW c \in Threads, Take(c)
  PROVE  /\ \A n \in DOMAIN chan : chan[n] = StartPolling
         /\ worker.pc \notin {"do", "await", "answer"} /\ ~worker.first_run
         /\ \A d \in Threads \ {c} : ~Busy(d)
         /\ AnswerIs(response, thread[c].op)
<1>1. Busy(c)
  BY DEF Take, At, Busy
<1>2. \A d \in Threads : Asks(d) => d = c
  BY <1>1, OneBusy DEF Asks, Busy
<1> QED BY <1>1, <1>2, OneBusy DEF Take, At, Once

\* Who waits, and for what, is the same.
SameAsks ==
  \A d \in Threads : (Asks(d)' <=> Asks(d)) /\ (Asks(d) => thread'[d].op = thread[d].op)

LEMMA OnceThreads ==
  ASSUME Typed, Exclusion, Announced, Once, NEW c \in Threads, ThreadAction(c)
  PROVE  Once'
<1> SUFFICES ASSUME Started' PROVE Once'
  BY DEF Once
<1> USE DEF link, history, shared
<1>0. Main \notin Servers /\ Main \in Threads
  BY BridgeAssumption DEF Threads
<1>1. ASSUME NEW op \in Operations \cup {StartPolling}, Lock(c, op) PROVE Once'
  <2>1. SameAsks /\ Started
    BY <1>0, <1>1, Kinds DEF Lock, Typed, SameAsks, Asks, Started, At
  <2> QED BY <1>1, <2>1 DEF Lock, SameAsks, Once
<1>2. CASE SendStart(c)
  BY <1>0, <1>2, Kinds, Went DEF SendStart, Unlocked, Places, Started, At, Exclusion, Threads, Busy
<1>3. CASE AwaitOpened(c)
  BY <1>0, <1>3, Kinds, Went DEF AwaitOpened, Places, Started, At, Exclusion, Threads, Busy
<1>4. CASE Ask(c)
  <2>1. /\ thread'[c].pc = "wait" /\ thread'[c].op = thread[c].op
        /\ \A d \in Threads \ {c} : thread'[d] = thread[d]
    BY <1>4, Went DEF Ask, Places
  <2>2. Started
    BY <1>0, <1>4, <2>1 DEF Started, At
  <2>3. thread[c].op # StartPolling
    BY <1>0, <1>4, <2>2, Kinds DEF Ask, Started, At, Exclusion, Threads, Busy
  <2>4. \A d \in Threads : Busy(d) => d = c
    BY <1>4, OneBusy DEF Ask, At, Busy
  <2>5. \A d \in Threads : ~Asks(d)
    BY <1>4, <2>4 DEF Ask, At, Busy, Asks
  <2>6. Asks(c)'
    BY <2>1, <2>3 DEF Asks
  <2>7. thread[c].op \in Requests
    BY DEF Typed
  <2>8. /\ \A n \in DOMAIN chan : chan[n] = StartPolling
        /\ worker.pc \notin {"do", "await", "answer"} /\ ~worker.first_run /\ response = NULL
    BY <2>2, <2>5, Quiet
  <2>9. \A n \in DOMAIN chan' : chan'[n] # StartPolling => n = Len(chan) + 1 /\ chan'[n] = thread[c].op
    BY <1>4, <2>7, <2>8, Channel DEF Ask
  <2>10. Len(chan) + 1 \in DOMAIN chan' /\ chan'[Len(chan) + 1] # StartPolling
    BY <1>4, <2>3, <2>7, Channel DEF Ask
  <2> QED BY <1>4, <2>1, <2>6, <2>8, <2>9, <2>10 DEF Ask, Once
<1>5. CASE WakeUp(c)
  <2>1. SameAsks /\ Started
    BY <1>0, <1>5, Went DEF WakeUp, Places, SameAsks, Asks, Started, At
  <2> QED BY <1>5, <2>1 DEF WakeUp, SameAsks, Once
<1>6. CASE WaitAgain(c)
  <2>1. SameAsks /\ Started
    BY <1>0, <1>6, Went DEF WaitAgain, Places, SameAsks, Asks, Started, At
  <2> QED BY <1>6, <2>1 DEF WaitAgain, SameAsks, Once
<1>7. CASE Connected(c)
  <2>1. \A d \in Threads : ~Asks(d)'
    BY <1>7 DEF Connected, Asks, Idle
  <2>2. ~Started
    BY <1>0, <1>7, Kinds DEF Connected, Take, Started, At, Exclusion, Threads, Busy
  <2>3. response # NULL /\ response' = NULL
    BY <1>7 DEF Connected, Take
  <2> QED BY <1>7, <2>1, <2>2, <2>3, QuietOnce DEF Connected, Announced
<1>8. CASE Return(c)
  <2>1. Started /\ \A d \in Threads : d # c => thread'[d] = thread[d]
    BY <1>0, <1>8, Kinds DEF Return, Idle, Started, At, Exclusion, Threads, Typed
  <2>2. \A d \in Threads : ~Asks(d)'
    BY <1>8, <2>1, TakeQuiet DEF Return, Asks, Idle, Busy, Typed
  <2> QED BY <1>8, <2>1, <2>2, TakeQuiet, QuietOnce DEF Return, Take
<1>9. CASE Retry(c)
  <2>1. /\ thread'[c].pc \in {"start", "call"}
        /\ \A d \in Threads \ {c} : thread'[d] = thread[d]
        /\ thread'[c].op = thread[c].op
    BY <1>9, Went DEF Retry, Places
  <2>2. Started
    BY <1>0, <1>9, <2>1 DEF Started, At
  <2>3. \A d \in Threads : ~Asks(d)'
    BY <1>9, <2>1, <2>2, TakeQuiet DEF Retry, Asks, Busy
  <2> QED BY <1>9, <2>2, <2>3, TakeQuiet, QuietOnce DEF Retry, Take
<1>10. CASE Finish(c)
  <2>1. SameAsks /\ Started
    BY <1>0, <1>10, Went DEF Finish, Places, SameAsks, Asks, Started, At
  <2> QED BY <1>10, <2>1 DEF Finish, SameAsks, Once
<1>11. CASE Drop
  <2>1. SameAsks /\ Started
    BY <1>0, <1>11 DEF Drop, Typed, SameAsks, Asks, Started, At
  <2> QED BY <1>11, <2>1 DEF Drop, SameAsks, Once
<1>12. CASE Dropped
  <2>1. /\ thread'[Main].pc = "exiting"
        /\ \A d \in Threads \ {Main} : thread'[d] = thread[d]
    BY <1>0, <1>12, Went DEF Dropped, Places
  <2>2. Started
    BY <1>12 DEF Dropped, Started
  <2>3. \A d \in Threads : ~Asks(d)'
    BY <1>0, <1>12, <2>1, <2>2, TakeQuiet DEF Dropped, Asks, Busy
  <2> QED BY <1>0, <1>12, <2>2, <2>3, TakeQuiet, QuietOnce DEF Dropped, Take
<1>13. CASE Joined
  <2>1. SameAsks /\ Started
    BY <1>0, <1>13, Went DEF Joined, Places, SameAsks, Asks, Started, At
  <2> QED BY <1>13, <2>1 DEF Joined, SameAsks, Once
<1> QED
  BY <1>1, <1>2, <1>3, <1>4, <1>5, <1>6, <1>7, <1>8, <1>9, <1>10, <1>11, <1>12, <1>13
  DEF ThreadAction

\* A StartPolling left over in the channel is passed over.
LEMMA SkipOnce ==
  ASSUME Typed, Once, Started, SameAsks, chan # <<>>, Head(chan) = StartPolling,
         chan' = Tail(chan), UNCHANGED <<worker, response>>
  PROVE  Once'
<1>1. \A n \in DOMAIN chan' : chan'[n] = chan[n + 1] /\ n + 1 \in DOMAIN chan /\ n \in Nat
  BY Channel
<1>2. ASSUME NEW n \in DOMAIN chan, chan[n] # StartPolling
      PROVE  \E m \in DOMAIN chan' : chan'[m] # StartPolling
  <2>1. n - 1 \in DOMAIN chan' /\ chan'[n - 1] = chan[n]
    BY <1>2, Channel
  <2> QED BY <1>2, <2>1
<1> QED BY <1>1, <1>2 DEF Once, SameAsks, AnswerIs

\* Any other request in the channel is the only one.
LEMMA HeadOnce ==
  ASSUME Typed, Once, Started, chan # <<>>, Head(chan) # StartPolling, chan' = Tail(chan)
  PROVE  /\ \E c \in Threads : Asks(c) /\ Head(chan) = thread[c].op
         /\ \A n \in DOMAIN chan' : chan'[n] = StartPolling
         /\ response = NULL /\ Head(chan) \in Requests
<1>1. 1 \in DOMAIN chan /\ Head(chan) = chan[1] /\ chan[1] \in Requests
  BY Channel
<1>2. \A n \in DOMAIN chan' : chan'[n] = chan[n + 1] /\ n + 1 \in DOMAIN chan /\ n \in Nat \ {0}
  BY Channel
<1> QED BY <1>1, <1>2 DEF Once

\* The connection's thread takes the request, works on it, and answers it.
LEMMA OnceWorker ==
  ASSUME Typed, Announced, Once, WorkerAction
  PROVE  Once'
<1>0. SameAsks /\ (Started' <=> Started)
  BY OnlyWakes DEF SameAsks, Asks, Started, At, Threads
<1> SUFFICES ASSUME Started PROVE Once'
  BY <1>0 DEF Once
<1> USE DEF shared, SameAsks
<1>1. CASE OpenFails
  BY <1>0, <1>1, Moving DEF OpenFails, Once, WorkerPlaces
<1>2. CASE Opens
  <2>1. worker'.pc = "recv" /\ ~worker'.first_run
    BY <1>2 DEF Opens, Typed, Once
  <2> QED BY <1>0, <1>2, <2>1 DEF Opens, Once
<1>3. CASE Receive
  <2>1. CASE Head(chan) = StartPolling
    <3>1. UNCHANGED worker
      BY <1>3, <2>1, Kinds DEF Receive
    <3> QED BY <1>0, <1>3, <2>1, <3>1, SkipOnce DEF Receive
  <2>2. CASE Head(chan) # StartPolling
    <3>1. PICK c \in Threads : Asks(c) /\ Head(chan) = thread[c].op
      BY <1>3, <2>2, HeadOnce DEF Receive
    <3>2. /\ \A n \in DOMAIN chan' : chan'[n] = StartPolling
          /\ response' = NULL /\ Head(chan) \in Requests
      BY <1>3, <2>2, HeadOnce DEF Receive
    <3>3. /\ worker'.first_run = worker.first_run
          /\ \/ worker'.pc = "answer" /\ worker'.job = Exiting /\ Head(chan) = Exit
             \/ worker'.pc = "do" /\ worker'.job = Head(chan)
      BY <1>3, <2>2, Kinds, Answers, Responding DEF Receive, Typed
    <3>4. worker'.pc = "answer" => AnswerIs(worker'.job, thread'[c].op)
      BY <1>0, <3>1, <3>3 DEF AnswerIs, AnswerTo, Exiting, Response
    <3> QED BY <1>0, <3>1, <3>2, <3>3, <3>4 DEF Once, AnswerIs
  <2> QED BY <2>1, <2>2
<1>4. CASE Drain
  <2>1. CASE Head(chan) = StartPolling
    <3>1. UNCHANGED worker
      BY <1>4, <2>1, Kinds DEF Drain, Drained
    <3> QED BY <1>0, <1>4, <2>1, <3>1, SkipOnce DEF Drain
  <2>2. CASE Head(chan) # StartPolling
    <3>1. PICK c \in Threads : Asks(c) /\ Head(chan) = thread[c].op
      BY <1>4, <2>2, HeadOnce DEF Drain
    <3>2. /\ \A n \in DOMAIN chan' : chan'[n] = StartPolling
          /\ response' = NULL /\ Head(chan) \in Requests
      BY <1>4, <2>2, HeadOnce DEF Drain
    <3>3. /\ worker'.pc = "answer" /\ worker'.first_run = worker.first_run
          /\ AnswerIs(worker'.job, thread'[c].op)
      <4>1. CASE Head(chan) = Exit
        <5>1. worker'.pc = "answer" /\ worker'.job = Exiting /\ worker'.first_run = worker.first_run
          BY <1>4, <4>1, Kinds, Answers, Responding DEF Drain, Drained
        <5> QED BY <1>0, <3>1, <4>1, <5>1 DEF AnswerIs, AnswerTo, Exiting, Response
      <4>2. CASE Head(chan) \in Operations
        <5>1. Response(Head(chan).kind, "Other", 0) \in Responses
          BY <4>2, Answers DEF Errors
        <5>2. Respond(Response(Head(chan).kind, "Other", 0), "drain")
          BY <1>4, <4>2, Kinds DEF Drain, Drained, NotConnected
        <5>3. /\ worker'.pc = "answer" /\ worker'.job = Response(Head(chan).kind, "Other", 0)
              /\ worker'.first_run = worker.first_run
          BY <5>1, <5>2, Responding
        <5> QED BY <1>0, <3>1, <4>2, <5>3, Kinds DEF AnswerIs, AnswerTo, Response
      <4> QED BY <2>2, <3>2, <4>1, <4>2 DEF Requests
    <3> QED BY <1>0, <3>1, <3>2, <3>3 DEF Once, AnswerIs
  <2> QED BY <2>1, <2>2
<1>5. CASE Answer
  <2>1. worker'.pc = "notify" /\ worker'.first_run = worker.first_run
    BY <1>5 DEF Answer, Typed
  <2>2. response' \in Responses /\ response' # NULL /\ response' = worker.job /\ worker.pc = "answer"
    BY <1>5, Answers DEF Answer, Typed, TypeOK
  <2>3. PICK c \in Threads : Asks(c) /\ AnswerIs(worker.job, thread[c].op)
    BY <2>2 DEF Once
  <2>4. \A n \in DOMAIN chan' : chan'[n] = StartPolling
    BY <1>5, <2>2 DEF Answer, Once
  <2>5. Asks(c)' /\ AnswerIs(response', thread'[c].op)
    BY <1>0, <2>2, <2>3 DEF AnswerIs
  <2> QED BY <2>1, <2>2, <2>4, <2>5 DEF Once, AnswerIs
<1>6. CASE Notify
  <2>1. worker'.pc \in {"recv", "drain", "ended"} /\ worker'.first_run = worker.first_run
    BY <1>6 DEF Notify, Typed
  <2> QED BY <1>0, <1>6, <2>1 DEF Notify, Once, AnswerIs
<1>7. CASE Reopen
  BY <1>0, <1>7, Moving DEF Reopen, Once, WorkerPlaces
<1>8. CASE Execute \/ LosePacket \/ LoseReply
  BY <1>0, <1>8 DEF Execute, LosePacket, LoseReply, Once, AnswerIs
<1>9. CASE Send /\ worker.job.kind # "Poke"
  BY <1>0, <1>9, Moving DEF Send, Once, WorkerPlaces, AnswerIs
<1>10. CASE \/ Send /\ worker.job.kind = "Poke"
            \/ SendFails \/ Reply \/ Timeout \/ Transfer \/ (\E err \in Errors : TransferFails(err))
  <2>1. PICK err \in Errors \cup {"None"}, v \in Vals, next \in {"recv", "drain"} :
          Respond(Response(worker.job.kind, err, v), next)
    <3>1. CASE Send /\ worker.job.kind = "Poke"
      BY <3>1, Answers DEF Send, Succeed
    <3>2. CASE SendFails \/ Timeout
      BY <3>2, Answers DEF SendFails, Timeout, Fail, Errors
    <3>3. CASE Reply
      <4>1. Head(toHost) \in Vals
        BY <3>3 DEF Reply, Typed, TypeOK
      <4> QED BY <3>3, <4>1 DEF Reply, Succeed
    <3>4. CASE Transfer
      <4>1. (IF worker.job.kind = "Peek" THEN mem[worker.job.addr] ELSE 0) \in Vals
        BY <3>4, Kinds, Answers DEF Transfer, Typed, TypeOK
      <4> QED BY <3>4, <4>1 DEF Transfer, Succeed
    <3>5. ASSUME NEW err \in Errors, TransferFails(err)
          PROVE  Respond(Response(worker.job.kind, err, 0), "drain")
      BY <3>5 DEF TransferFails, Fail
    <3> QED BY <1>10, <3>1, <3>2, <3>3, <3>4, <3>5, Answers
  <2>2. worker.pc \in {"do", "await"} /\ response' = response /\ chan' = chan
    BY <1>10 DEF Send, SendFails, Reply, Timeout, Transfer, TransferFails
  <2>3. PICK c \in Threads : Asks(c) /\ worker.job = thread[c].op
    BY <2>2 DEF Once
  <2>4. worker.job \in Operations
    BY <2>2 DEF Typed, TypeOK
  <2>5. Response(worker.job.kind, err, v) \in Responses
    BY <2>4, Answers
  <2>6. /\ worker'.pc = "answer" /\ worker'.job = Response(worker.job.kind, err, v)
        /\ worker'.first_run = worker.first_run
    BY <2>1, <2>5, Responding
  <2>7. AnswerIs(worker'.job, thread'[c].op)
    BY <1>0, <2>3, <2>4, <2>6, Kinds DEF AnswerIs, AnswerTo, Response
  <2> QED BY <1>0, <2>2, <2>3, <2>6, <2>7 DEF Once, AnswerIs
<1> QED
  BY <1>1, <1>2, <1>3, <1>4, <1>5, <1>6, <1>7, <1>8, <1>9, <1>10 DEF WorkerAction

LEMMA PairedInit == Init => PairedInv
<1> SUFFICES ASSUME Init PROVE PairedInv
  OBVIOUS
<1>1. ~Started
  BY BridgeAssumption, Kinds DEF Init, Started, At, Idle, Threads
<1>2. Announced /\ Once
  BY <1>1 DEF Init, Announced, Once
<1> QED BY <1>2, TypedInit, ExclusionInit DEF PairedInv

LEMMA PairedStep == PairedInv /\ [Next]_vars => PairedInv'
<1> SUFFICES ASSUME PairedInv, [Next]_vars PROVE PairedInv'
  OBVIOUS
<1>1. Typed' /\ Exclusion'
  BY TypedStep, ExclusionStep DEF PairedInv
<1>2. Announced' /\ Once'
  <2>1. CASE UNCHANGED vars
    BY <2>1 DEF PairedInv, vars, shared, Announced, Once, Started, At, Asks, AnswerIs
  <2>2. ASSUME NEW c \in Threads, ThreadAction(c) PROVE Announced' /\ Once'
    BY <2>2, AnnouncedThreads, OnceThreads DEF PairedInv
  <2>3. CASE WorkerAction
    BY <2>3, AnnouncedWorker, OnceWorker DEF PairedInv
  <2> QED BY <2>1, <2>2, <2>3, NextSplit
<1> QED BY <1>1, <1>2 DEF PairedInv

\* The invariant says of each place what Paired says of the sets.
LEMMA PairedHolds == PairedInv => Paired
<1> SUFFICES ASSUME PairedInv, Started PROVE Paired
  BY DEF Paired
<1> USE DEF PairedInv
<1> DEFINE pending == {thread[c].op : c \in {d \in Threads : Asks(d)}}
           requests == {r \in Requests : InChannel(r) \/ InHand(r)}
           answers == (IF worker.pc = "answer" THEN {worker.job.kind} ELSE {})
                        \cup (IF response # NULL THEN {response.kind} ELSE {})
<1>1. ASSUME NEW r \in requests PROVE r \in pending /\ worker.pc # "answer" /\ response = NULL
  BY <1>1 DEF InChannel, InHand, Once
<1>2. ASSUME NEW k \in answers PROVE k \in {AnswerTo(op) : op \in pending}
  BY <1>2 DEF Once, AnswerIs
<1>3. requests = {} \/ answers = {}
  BY <1>1
<1>4. ASSUME pending # {} PROVE requests \cup answers # {}
  <2>1. CASE \E n \in DOMAIN chan : chan[n] # StartPolling
    <3>1. PICK n \in DOMAIN chan : chan[n] # StartPolling
      BY <2>1
    <3>2. chan[n] \in requests
      BY <3>1, Channel DEF InChannel
    <3> QED BY <3>2
  <2>2. CASE worker.pc \in {"do", "await"}
    <3>1. worker.job \in requests
      BY <2>2, Kinds DEF InHand, Typed, TypeOK
    <3> QED BY <3>1
  <2>3. CASE worker.pc = "answer" \/ response # NULL
    BY <2>3
  <2> QED BY <1>4, <2>1, <2>2, <2>3 DEF Once
<1> QED BY <1>1, <1>2, <1>3, <1>4 DEF Paired

\* Every value of the bridge has its type, whatever is lost and however often an
\* operation is tried again (lib.rs, ethernet.rs, usb.rs, pcie.rs).
THEOREM BridgeTyped == Spec => []TypeOK
<1>1. Typed => TypeOK
  BY DEF Typed
<1> QED BY <1>1, TypedInit, TypedStep, PTL DEF Spec

\* The threads that peek and poke and the one that owns the connection stay in step,
\* with any number of them, over every link (ethernet.rs 195-284): the one request
\* anywhere is that of the thread that waits, and so is the one response.
THEOREM RequestsPaired == Spec => []Paired
BY PairedInit, PairedStep, PairedHolds, PTL DEF Spec

-----------------------------------------------------------------------------
(* The packets and the memory.                                             *)

\* One more packet at the end.
LEMMA Appended ==
  ASSUME NEW dev \in Seq(Operations), NEW p \in Operations
  PROVE  /\ DOMAIN Append(dev, p) = 1 .. (Len(dev) + 1) /\ DOMAIN dev = 1 .. Len(dev)
         /\ Len(dev) \in Nat /\ Len(Append(dev, p)) = Len(dev) + 1
         /\ Append(dev, p)[Len(dev) + 1] = p
         /\ \A n \in DOMAIN dev : Append(dev, p)[n] = dev[n]
OBVIOUS

\* The first packet is gone.
LEMMA Tailed ==
  ASSUME NEW dev \in Seq(Operations), dev # <<>>
  PROVE  /\ DOMAIN dev = 1 .. Len(dev) /\ Len(dev) \in Nat \ {0}
         /\ Head(dev) = dev[1] /\ dev[1] \in Operations
         /\ DOMAIN Tail(dev) = 1 .. (Len(dev) - 1) /\ Len(Tail(dev)) = Len(dev) - 1
         /\ \A n \in DOMAIN Tail(dev) : Tail(dev)[n] = dev[n + 1]
OBVIOUS

\* More values are allowed.
LEMMA SettlesMore ==
  ASSUME NEW dev, NEW m, NEW a, NEW vs, NEW ws, vs \subseteq ws, Settles(dev, m, a, vs)
  PROVE  Settles(dev, m, a, ws)
BY DEF Settles

\* Without packets it is the memory that counts.
LEMMA SettlesEmpty ==
  ASSUME NEW m, NEW a, NEW vs
  PROVE  Settles(<<>>, m, a, vs) <=> m[a] \in vs
BY DEF Settles, PokesOf

\* A poke sent settles its own address and no other.
LEMMA SettlesPoke ==
  ASSUME NEW dev \in Seq(Operations), NEW p \in Operations, p.kind = "Poke", NEW m, NEW a, NEW vs,
         IF a = p.addr THEN p.val \in vs ELSE Settles(dev, m, a, vs)
  PROVE  Settles(Append(dev, p), m, a, vs)
<1>1. CASE a = p.addr
  <2>1. Len(dev) + 1 \in PokesOf(Append(dev, p), a)
    BY <1>1, Appended DEF PokesOf
  <2>2. \A n \in PokesOf(Append(dev, p), a) : n <= Len(dev) + 1 /\ n \in Nat
    BY Appended DEF PokesOf
  <2>3. ASSUME NEW n \in PokesOf(Append(dev, p), a), \A k \in PokesOf(Append(dev, p), a) : k <= n
        PROVE  Append(dev, p)[n] = p
    <3>1. n = Len(dev) + 1
      BY <2>1, <2>2, <2>3, Appended
    <3> QED BY <3>1, Appended
  <2> QED BY <1>1, <2>1, <2>3 DEF Settles
<1>2. CASE a # p.addr
  <2>1. PokesOf(Append(dev, p), a) = PokesOf(dev, a)
    BY <1>2, Appended DEF PokesOf
  <2>2. \A n \in PokesOf(dev, a) : Append(dev, p)[n] = dev[n]
    BY Appended DEF PokesOf
  <2> QED BY <1>2, <2>1, <2>2 DEF Settles
<1> QED BY <1>1, <1>2

\* A peek sent settles nothing.
LEMMA SettlesPeek ==
  ASSUME NEW dev \in Seq(Operations), NEW p \in Operations, p.kind = "Peek", NEW m, NEW a, NEW vs,
         Settles(dev, m, a, vs)
  PROVE  Settles(Append(dev, p), m, a, vs)
<1>1. PokesOf(Append(dev, p), a) = PokesOf(dev, a)
  BY Appended DEF PokesOf
<1>2. \A n \in PokesOf(dev, a) : Append(dev, p)[n] = dev[n]
  BY Appended DEF PokesOf
<1> QED BY <1>1, <1>2 DEF Settles

\* The first packet is executed, or it was no poke and may as well be lost.
LEMMA SettlesTail ==
  ASSUME NEW dev \in Seq(Operations), dev # <<>>, NEW m, NEW n, NEW a, NEW vs,
         IF Head(dev).kind = "Poke" /\ Head(dev).addr = a THEN n[a] = Head(dev).val ELSE n[a] = m[a],
         Settles(dev, m, a, vs)
  PROVE  Settles(Tail(dev), n, a, vs)
<1>1. \A k \in PokesOf(Tail(dev), a) : k + 1 \in PokesOf(dev, a) /\ Tail(dev)[k] = dev[k + 1] /\ k \in Nat
  BY Tailed DEF PokesOf
<1>2. \A k \in PokesOf(dev, a) : k = 1 \/ (k - 1 \in PokesOf(Tail(dev), a) /\ k \in Nat)
  <2> SUFFICES ASSUME NEW k \in PokesOf(dev, a), k # 1
               PROVE  k - 1 \in PokesOf(Tail(dev), a) /\ k \in Nat
    OBVIOUS
  <2>1. k - 1 \in DOMAIN Tail(dev) /\ k \in Nat
    BY Tailed DEF PokesOf
  <2>2. Tail(dev)[k - 1] = dev[k]
    BY <2>1, Tailed
  <2> QED BY <2>1, <2>2 DEF PokesOf
<1>3. 1 \in PokesOf(dev, a) <=> Head(dev).kind = "Poke" /\ Head(dev).addr = a
  BY Tailed DEF PokesOf
<1>4. PokesOf(Tail(dev), a) = {} => n[a] \in vs
  <2> SUFFICES ASSUME PokesOf(Tail(dev), a) = {} PROVE n[a] \in vs
    OBVIOUS
  <2>1. \A k \in PokesOf(dev, a) : k = 1
    BY <1>2
  <2>2. CASE 1 \in PokesOf(dev, a)
    <3>1. dev[1].val \in vs
      BY <2>1, <2>2 DEF Settles
    <3> QED BY <1>3, <2>2, <3>1, Tailed
  <2>3. CASE 1 \notin PokesOf(dev, a)
    BY <1>3, <2>1, <2>3 DEF Settles
  <2> QED BY <2>2, <2>3
<1>5. ASSUME NEW k \in PokesOf(Tail(dev), a), \A j \in PokesOf(Tail(dev), a) : j <= k
      PROVE  Tail(dev)[k].val \in vs
  <2>1. k + 1 \in PokesOf(dev, a) /\ Tail(dev)[k] = dev[k + 1] /\ k \in Nat
    BY <1>1
  <2>2. \A j \in PokesOf(dev, a) : j <= k + 1
    BY <1>2, <1>5, <2>1
  <2> QED BY <2>1, <2>2 DEF Settles
<1> QED BY <1>4, <1>5 DEF Settles

\* What is being tried is what the one busy thread tries.
LEMMA TriedBy ==
  ASSUME Typed, Exclusion, NEW c \in Threads, Busy(c), NEW a
  PROVE  Tried(a) = IF thread[c].op.kind = "Poke" /\ thread[c].op.addr = a
                    THEN {thread[c].op.val} ELSE {}
<1>1. \A d \in Threads : Busy(d) => d = c
  BY OneBusy
<1> QED BY <1>1 DEF Tried

\* Whoever waits for more than connect() is busy, alone, and after connect().
LEMMA Asking ==
  ASSUME Typed, Exclusion, NEW c \in Threads, Asks(c)
  PROVE  Busy(c) /\ Started /\ \A d \in Threads : Asks(d) => d = c
<1>1. \A d \in Threads : Asks(d) => Busy(d)
  BY DEF Asks, Busy
<1>2. Started
  BY DEF Exclusion, Asks, Started, Threads
<1> QED BY <1>1, <1>2, OneBusy

\* Threads do not touch the link, and the connection's thread is elsewhere when want
\* changes.
LEMMA LinkThreads ==
  ASSUME PairedInv, Link, NEW c \in Threads, ThreadAction(c)
  PROVE  Link'
<1> USE DEF link, history, shared, PairedInv
<1>1. UNCHANGED <<core, toDev, toHost, worker, faithful>>
  BY DEF ThreadAction, Lock, SendStart, AwaitOpened, Ask, WakeUp, WaitAgain, Connected, Return,
         Retry, Finish, Drop, Dropped, Joined
<1>2. want' = want \/ worker.pc # "await"
  <2>1. CASE Return(c)
    <3>1. Started
      BY <2>1, Kinds DEF Return, Take, At, Exclusion, Started, Threads
    <3> QED BY <2>1, <3>1, TakeQuiet DEF Return
  <2>2. CASE ~Return(c)
    BY <2>2 DEF ThreadAction, Lock, SendStart, AwaitOpened, Ask, WakeUp, WaitAgain, Connected,
                Retry, Finish, Drop, Dropped, Joined
  <2> QED BY <2>1, <2>2
<1> QED BY <1>1, <1>2 DEF Link, Connection

\* A thread that begins or goes on trying allows no less than before.
LEMMA AllowedGrows ==
  ASSUME Allowed, UNCHANGED <<toDev, mem, faithful>>,
         \A a \in Addrs : want[a] \cup Tried(a) \subseteq want'[a] \cup Tried(a)'
  PROVE  Allowed'
BY SettlesMore DEF Allowed

\* Whoever is busy stays so.
SameBusy ==
  \A d \in Threads : Busy(d) => Busy(d)' /\ thread'[d].op = thread[d].op
LEMMA AllowedSame ==
  ASSUME Allowed, UNCHANGED <<toDev, mem, faithful, want>>, SameBusy
  PROVE  Allowed'
<1>1. \A a \in Addrs : Tried(a) \subseteq Tried(a)'
  BY DEF SameBusy, Tried
<1> QED BY <1>1, AllowedGrows

LEMMA AllowedThreads ==
  ASSUME PairedInv, Allowed, Told, NEW c \in Threads, ThreadAction(c)
  PROVE  Allowed'
<1> USE DEF link, history, shared, PairedInv
<1>0. Main \in Threads
  BY DEF Threads
<1>1. ASSUME NEW op \in Operations \cup {StartPolling}, Lock(c, op) PROVE Allowed'
  <2>1. SameBusy
    BY <1>1 DEF Lock, Typed, SameBusy, Busy, At
  <2> QED BY <1>1, <2>1, AllowedSame DEF Lock
<1>2. CASE SendStart(c)
  <2>1. SameBusy
    BY <1>2, Went DEF SendStart, Places, SameBusy, Busy
  <2> QED BY <1>2, <2>1, AllowedSame DEF SendStart
<1>3. CASE AwaitOpened(c)
  <2>1. SameBusy
    BY <1>3, Went DEF AwaitOpened, Places, SameBusy, Busy
  <2> QED BY <1>3, <2>1, AllowedSame DEF AwaitOpened
<1>4. CASE Ask(c)
  <2>1. SameBusy
    BY <1>4, Went DEF Ask, Places, SameBusy, Busy
  <2> QED BY <1>4, <2>1, AllowedSame DEF Ask
<1>5. CASE WakeUp(c)
  <2>1. SameBusy
    BY <1>5, Went DEF WakeUp, Places, SameBusy, Busy
  <2> QED BY <1>5, <2>1, AllowedSame DEF WakeUp
<1>6. CASE WaitAgain(c)
  <2>1. SameBusy
    BY <1>6, Went DEF WaitAgain, Places, SameBusy, Busy
  <2> QED BY <1>6, <2>1, AllowedSame DEF WaitAgain
<1>7. CASE Connected(c)
  <2>1. Busy(c) /\ thread[c].op.kind # "Poke"
    BY <1>7 DEF Connected, Take, At, Busy, StartPolling, Op
  <2>2. \A a \in Addrs : Tried(a) = {}
    BY <2>1, TriedBy
  <2> QED BY <1>7, <2>2, AllowedGrows DEF Connected
<1>8. CASE Return(c)
  <2>1. Busy(c) /\ Asks(c) /\ thread[c].op \in Operations /\ response # NULL
    BY <1>8, Kinds DEF Return, Take, At, Busy, Asks
  <2>2. thread[c].op.kind \in {"Peek", "Poke"} /\ thread[c].op.addr \in Addrs
    BY <2>1, Kinds
  <2>3. UNCHANGED <<toDev, mem, faithful>>
    BY <1>8 DEF Return
  <2>4. CASE thread[c].op.kind = "Peek"
    <3>1. \A a \in Addrs : Tried(a) = {}
      BY <2>1, <2>4, TriedBy
    <3> QED BY <1>8, <2>3, <2>4, <3>1, AllowedGrows DEF Return
  <2>5. CASE thread[c].op.kind = "Poke" /\ response.err # "None"
    <3>1. want' = [want EXCEPT ![thread[c].op.addr] = @ \cup {thread[c].op.val}]
      BY <1>8, <2>5 DEF Return
    <3>2. \A a \in Addrs : want[a] \cup Tried(a) \subseteq want'[a]
      BY <2>1, <2>2, <2>5, <3>1, TriedBy DEF Typed
    <3> QED BY <2>3, <3>2, AllowedGrows
  <2>6. CASE thread[c].op.kind = "Poke" /\ response.err = "None"
    <3>1. want' = [want EXCEPT ![thread[c].op.addr] = {thread[c].op.val}]
      BY <1>8, <2>6 DEF Return
    <3>2. faithful => Settles(toDev, mem, thread[c].op.addr, {thread[c].op.val})
      BY <2>1, <2>6 DEF Told, Truthful, Success
    <3>3. ASSUME NEW a \in Addrs, faithful PROVE Settles(toDev, mem, a, want'[a])
      <4>1. CASE a = thread[c].op.addr
        BY <2>2, <3>1, <3>2, <3>3, <4>1 DEF Typed
      <4>2. CASE a # thread[c].op.addr
        <5>1. Tried(a) = {}
          BY <2>1, <4>2, TriedBy
        <5>2. want'[a] = want[a]
          BY <3>1, <4>2 DEF Typed
        <5> QED BY <3>3, <5>1, <5>2, SettlesMore DEF Allowed
      <4> QED BY <4>1, <4>2
    <3>4. ASSUME NEW a \in Addrs, faithful PROVE Settles(toDev, mem, a, want'[a] \cup Tried(a)')
      BY <3>3, <3>4, SettlesMore
    <3> QED BY <2>3, <3>4 DEF Allowed
  <2> QED BY <2>2, <2>4, <2>5, <2>6
<1>9. CASE Retry(c)
  <2>1. SameBusy
    BY <1>9, Went DEF Retry, Places, SameBusy, Busy
  <2> QED BY <1>9, <2>1, AllowedSame DEF Retry
<1>10. CASE Finish(c)
  <2>1. SameBusy
    BY <1>10, Went DEF Finish, At, Places, SameBusy, Busy
  <2> QED BY <1>10, <2>1, AllowedSame DEF Finish
<1>11. CASE Drop
  <2>1. SameBusy
    BY <1>0, <1>11 DEF Drop, Typed, SameBusy, Busy, At
  <2> QED BY <1>11, <2>1, AllowedSame DEF Drop
<1>12. CASE Dropped
  <2>1. Busy(Main) /\ thread[Main].op.kind # "Poke"
    BY <1>12 DEF Dropped, Take, At, Busy, Exit, Op
  <2>2. \A a \in Addrs : Tried(a) = {}
    BY <1>0, <2>1, TriedBy
  <2> QED BY <1>12, <2>2, AllowedGrows DEF Dropped
<1>13. CASE Joined
  <2>1. SameBusy
    BY <1>0, <1>13, Went DEF Joined, At, Places, SameBusy, Busy
  <2> QED BY <1>13, <2>1, AllowedSame DEF Joined
<1> QED
  BY <1>1, <1>2, <1>3, <1>4, <1>5, <1>6, <1>7, <1>8, <1>9, <1>10, <1>11, <1>12, <1>13
  DEF ThreadAction

\* With nobody waiting, or no response, there is nothing to tell.
LEMMA ToldQuiet ==
  ASSUME (worker'.pc # "answer" /\ response' = NULL) \/ ~\E d \in Threads : Asks(d)'
  PROVE  Told'
BY DEF Told

LEMMA ToldSame ==
  ASSUME Told, SameAsks, UNCHANGED <<toDev, mem, faithful, want, worker, response>>
  PROVE  Told'
BY DEF Told, SameAsks, Truthful

LEMMA ToldThreads ==
  ASSUME PairedInv, Told, NEW c \in Threads, ThreadAction(c)
  PROVE  Told'
<1> USE DEF link, history, shared, PairedInv
<1>0. Main \in Threads /\ Main \notin Servers
  BY BridgeAssumption DEF Threads
<1>1. ASSUME NEW op \in Operations \cup {StartPolling}, Lock(c, op) PROVE Told'
  <2>1. SameAsks
    BY <1>1 DEF Lock, Typed, SameAsks, Asks, At
  <2> QED BY <1>1, <2>1, ToldSame DEF Lock
<1>2. CASE SendStart(c)
  <2>1. SameAsks
    BY <1>2, Went DEF SendStart, Places, SameAsks, Asks, At
  <2> QED BY <1>2, <2>1, ToldSame DEF SendStart
<1>3. CASE AwaitOpened(c) \/ Connected(c)
  <2>1. ~Started /\ ~\E d \in Threads : Asks(d)
    BY <1>0, <1>3, Kinds DEF AwaitOpened, Connected, Take, At, Exclusion, Started, Threads, Asks, Busy
  <2>2. CASE AwaitOpened(c)
    <3>1. thread[c].op = StartPolling
      BY <1>0, <2>1, <2>2, Kinds DEF AwaitOpened, At, Exclusion, Started, Threads, Busy
    <3>2. ~\E d \in Threads : Asks(d)'
      BY <2>1, <2>2, <3>1, Went DEF AwaitOpened, Places, Asks
    <3> QED BY <3>2, ToldQuiet
  <2>3. CASE Connected(c)
    <3>1. ~\E d \in Threads : Asks(d)'
      BY <2>3 DEF Connected, Asks, Idle
    <3> QED BY <3>1, ToldQuiet
  <2> QED BY <1>3, <2>2, <2>3
<1>4. CASE Ask(c)
  <2>1. CASE Started
    <3>1. \A d \in Threads : ~Asks(d)
      BY <1>4, OneBusy DEF Ask, At, Busy, Asks
    <3> QED BY <1>4, <2>1, <3>1, Quiet, ToldQuiet DEF Ask
  <2>2. CASE ~Started
    <3>1. \A d \in Threads : ~Asks(d) /\ thread[c].op = StartPolling
      BY <1>0, <1>4, <2>2 DEF Ask, At, Exclusion, Started, Threads, Asks, Busy
    <3>2. ~\E d \in Threads : Asks(d)'
      BY <1>4, <3>1, Went DEF Ask, Places, Asks
    <3> QED BY <3>2, ToldQuiet
  <2> QED BY <2>1, <2>2
<1>5. CASE WakeUp(c)
  <2>1. SameAsks
    BY <1>5, Went DEF WakeUp, Places, SameAsks, Asks, At
  <2> QED BY <1>5, <2>1, ToldSame DEF WakeUp
<1>6. CASE WaitAgain(c)
  <2>1. SameAsks
    BY <1>6, Went DEF WaitAgain, Places, SameAsks, Asks, At
  <2> QED BY <1>6, <2>1, ToldSame DEF WaitAgain
<1>7. CASE Return(c)
  <2>1. Started
    BY <1>0, <1>7, Kinds DEF Return, Take, At, Exclusion, Started, Threads
  <2> QED BY <1>7, <2>1, TakeQuiet, ToldQuiet DEF Return, Take
<1>8. CASE Retry(c)
  <2>1. CASE Started
    BY <1>8, <2>1, TakeQuiet, ToldQuiet DEF Retry, Take
  <2>2. CASE ~Started
    <3>1. \A d \in Threads : ~Asks(d)
      BY <1>0, <2>2 DEF Exclusion, Started, Threads, Asks
    <3>2. ~\E d \in Threads : Asks(d)'
      BY <1>8, <3>1, Went DEF Retry, Places, Asks
    <3> QED BY <3>2, ToldQuiet
  <2> QED BY <2>1, <2>2
<1>9. CASE Finish(c)
  <2>1. SameAsks
    BY <1>9, Went DEF Finish, Places, SameAsks, Asks, At
  <2> QED BY <1>9, <2>1, ToldSame DEF Finish
<1>10. CASE Drop
  <2>1. SameAsks
    BY <1>0, <1>10 DEF Drop, Typed, SameAsks, Asks, At
  <2> QED BY <1>10, <2>1, ToldSame DEF Drop
<1>11. CASE Dropped
  <2>1. Started
    BY <1>11 DEF Dropped, Started
  <2> QED BY <1>0, <1>11, <2>1, TakeQuiet, ToldQuiet DEF Dropped, Take
<1>12. CASE Joined
  <2>1. SameAsks
    BY <1>0, <1>12, Went DEF Joined, Places, SameAsks, Asks, At
  <2> QED BY <1>12, <2>1, ToldSame DEF Joined
<1> QED
  BY <1>1, <1>2, <1>3, <1>4, <1>5, <1>6, <1>7, <1>8, <1>9, <1>10, <1>11, <1>12
  DEF ThreadAction

\* The peek of do_peek is that of the thread that waits: no poke is being tried.
LEMMA Awaiting ==
  ASSUME PairedInv, worker.pc \in {"do", "await"}
  PROVE  /\ worker.job \in Operations
         /\ \E c \in Threads : Asks(c) /\ Busy(c) /\ worker.job = thread[c].op
         /\ \A a : Tried(a) = IF worker.job.kind = "Poke" /\ worker.job.addr = a
                              THEN {worker.job.val} ELSE {}
<1> USE DEF PairedInv
<1>1. worker.job \in Operations
  BY DEF Typed, TypeOK
<1>2. Started
  BY DEF Announced
<1>3. PICK c \in Threads : Asks(c) /\ worker.job = thread[c].op
  BY <1>2 DEF Once
<1>4. Busy(c)
  BY <1>3 DEF Asks, Busy
<1> QED BY <1>1, <1>3, <1>4, TriedBy

\* Outside do_peek, and with a connection, the link has no peek and no reply.
LEMMA LinkIdle ==
  ASSUME Link, faithful, worker.pc # "await", Connection \/ core # "tcp"
  PROVE  PeeksIn(toDev) = {} /\ toHost = <<>>
BY DEF Link

\* Steps of the connection's thread that leave the link alone.
LEMMA LinkMoves ==
  ASSUME Link, UNCHANGED <<core, toDev, toHost, faithful>>,
         worker.pc # "await", worker'.pc # "await", Connection' => Connection
  PROVE  Link'
BY DEF Link

LEMMA LinkSending ==
  ASSUME PairedInv, Link, Send \/ SendFails \/ Reply \/ Timeout
  PROVE  Link'
<1> USE DEF shared, link, history, PairedInv
<1>0. worker.job \in Operations /\ worker.job.kind \in {"Peek", "Poke"} /\ toDev \in Seq(Operations)
  BY Awaiting, Kinds DEF Send, SendFails, Reply, Timeout, Typed, TypeOK
<1>1. CASE Send /\ worker.job.kind = "Poke"
  <2>1. worker'.pc = "answer"
    BY <1>1 DEF Send, Succeed, Respond, Typed
  <2>2. PeeksIn(toDev) = {} => PeeksIn(toDev') = {}
    BY <1>0, <1>1, Appended DEF Send, PeeksIn
  <2> QED BY <1>1, <2>1, <2>2 DEF Send, Link, Connection, Network
<1>2. CASE Send /\ worker.job.kind = "Peek"
  <2>1. worker'.pc = "await" /\ worker'.job = worker.job
    BY <1>2, Moving DEF Send, WorkerPlaces
  <2>2. ASSUME faithful, NEW n \in PeeksIn(toDev')
        PROVE  n = Len(toDev') /\ toDev'[n] = worker.job
    <3>1. PeeksIn(toDev) = {}
      BY <1>2, <2>2, LinkIdle DEF Send, Connection
    <3> QED BY <1>0, <1>2, <2>2, <3>1, Appended DEF Send, PeeksIn
  <2>3. faithful => toHost = <<>>
    BY <1>2, LinkIdle DEF Send, Connection
  <2> QED BY <1>2, <2>1, <2>2, <2>3 DEF Send, Link, Network
<1>3. CASE SendFails
  <2>1. worker'.pc = "answer" /\ worker'.next = "drain"
    BY <1>3 DEF SendFails, Fail, Respond, Typed
  <2> QED BY <1>3, <2>1, LinkMoves DEF SendFails, Connection
<1>4. CASE Reply
  <2>1. worker'.pc = "answer"
    BY <1>4 DEF Reply, Succeed, Respond, Typed
  <2>2. faithful => PeeksIn(toDev) = {}
    BY <1>4 DEF Reply, Link
  <2>3. faithful => toHost' = <<>>
    <3> SUFFICES ASSUME faithful PROVE toHost' = <<>>
      OBVIOUS
    <3>1. \A n \in DOMAIN toHost : n = 1
      BY <1>4 DEF Reply, Link
    <3>2. toHost \in Seq(Vals) /\ toHost # <<>> /\ toHost' = Tail(toHost)
      BY <1>4 DEF Reply, Typed, TypeOK
    <3>3. Len(toHost) \in DOMAIN toHost
      BY <3>2
    <3> QED BY <3>1, <3>2, <3>3
  <2> QED BY <1>4, <2>1, <2>2, <2>3 DEF Reply, Link
<1>5. CASE Timeout
  <2>1. worker'.pc = "answer" /\ worker'.next = "drain"
    BY <1>5 DEF Timeout, Fail, Respond, Typed
  <2>2. ~Connection'
    BY <2>1 DEF Connection
  <2>3. faithful' => faithful
    BY <1>5 DEF Timeout
  <2>4. core \in {"tcp", "udp", "usb", "pcie"}
    BY BridgeAssumption DEF Typed, TypeOK
  <2>5. faithful' /\ core # "tcp" => PeeksIn(toDev) = {}
    <3>1. CASE core = "udp"
      BY <1>5, <3>1 DEF Timeout, PeeksIn
    <3>2. CASE core \notin Network
      BY <2>3, <3>2 DEF Link, PeeksIn
    <3> QED BY <2>4, <3>1, <3>2 DEF Network
  <2> QED BY <1>5, <2>1, <2>2, <2>3, <2>5 DEF Timeout, Link
<1> QED BY <1>0, <1>1, <1>2, <1>3, <1>4, <1>5

\* The target takes the packets in their order; only UDP loses some.
LEMMA LinkDevice ==
  ASSUME PairedInv, Link, Allowed, Execute \/ LosePacket \/ LoseReply
  PROVE  Link'
<1> USE DEF shared, link, history, PairedInv
<1>0. /\ toDev \in Seq(Operations) /\ toHost \in Seq(Vals)
      /\ UNCHANGED <<core, worker, want>> /\ (faithful' => faithful)
  BY DEF Execute, LosePacket, LoseReply, Typed, TypeOK
<1> SUFFICES ASSUME faithful', faithful PROVE Link'
  BY <1>0 DEF Link
<1>1. ASSUME toDev # <<>>, toDev' = Tail(toDev), NEW n \in PeeksIn(toDev')
      PROVE  /\ n + 1 \in PeeksIn(toDev) /\ toDev'[n] = toDev[n + 1] /\ n \in Nat
             /\ Len(toDev') = Len(toDev) - 1 /\ Len(toDev) \in Nat
  BY <1>0, <1>1, Tailed DEF PeeksIn
<1>2. CASE (Execute /\ Head(toDev).kind = "Poke") \/ LosePacket
  <2>1. toDev # <<>> /\ toDev' = Tail(toDev) /\ toHost' = toHost
    BY <1>2 DEF Execute, LosePacket
  <2>2. core \in Network
    BY <2>1 DEF Link
  <2>3. CASE worker.pc = "await"
    <3>1. ASSUME NEW n \in PeeksIn(toDev')
          PROVE  n = Len(toDev') /\ toDev'[n].addr = worker.job.addr /\ toHost = <<>>
      <4>1. /\ n + 1 \in PeeksIn(toDev) /\ toDev'[n] = toDev[n + 1] /\ n \in Nat
            /\ Len(toDev') = Len(toDev) - 1 /\ Len(toDev) \in Nat
        BY <1>1, <2>1, <3>1
      <4>2. n + 1 = Len(toDev) /\ toDev[n + 1].addr = worker.job.addr /\ toHost = <<>>
        BY <2>3, <4>1 DEF Link
      <4> QED BY <4>1, <4>2
    <3> QED BY <1>0, <2>1, <2>2, <2>3, <3>1 DEF Link
  <2>4. CASE worker.pc # "await"
    <3>1. PeeksIn(toDev) = {} => PeeksIn(toDev') = {}
      BY <1>1, <2>1
    <3> QED BY <1>0, <2>1, <2>2, <2>4, <3>1 DEF Link, Connection
  <2> QED BY <2>3, <2>4
<1>3. CASE Execute /\ Head(toDev).kind # "Poke"
  <2>1. /\ Head(toDev) \in Operations /\ Head(toDev) = toDev[1] /\ Head(toDev).kind = "Peek"
        /\ 1 \in PeeksIn(toDev)
    BY <1>0, <1>3, Tailed, Kinds DEF Execute, PeeksIn
  <2>2. CASE worker.pc = "await"
    <3>1. 1 = Len(toDev) /\ toDev[1].addr = worker.job.addr /\ toHost = <<>> /\ worker.job.kind = "Peek"
      BY <2>1, <2>2 DEF Link
    <3>2. toDev' = <<>>
      BY <1>0, <1>3, <3>1 DEF Execute
    <3>3. toHost' = <<mem[worker.job.addr]>>
      <4>1. Len(toHost) < Capacity
        BY <3>1, BridgeAssumption
      <4>2. toHost' = Append(toHost, mem[worker.job.addr])
        BY <1>3, <2>1, <3>1, <4>1 DEF Execute
      <4> QED BY <3>1, <4>2
    <3>4. mem[worker.job.addr] \in want[worker.job.addr]
      <4>1. PokesOf(toDev, worker.job.addr) = {}
        BY <1>0, <2>1, <3>1 DEF PokesOf
      <4>2. worker.job.addr \in Addrs /\ Tried(worker.job.addr) = {}
        BY <2>2, <3>1, Awaiting, Kinds
      <4> QED BY <4>1, <4>2 DEF Allowed, Settles
    <3>5. PeeksIn(toDev') = {} /\ DOMAIN toHost' = {1} /\ toHost'[1] = mem[worker.job.addr]
      BY <3>2, <3>3 DEF PeeksIn
    <3>6. core \in Network
      BY <1>3 DEF Execute, Link
    <3> QED BY <1>0, <2>2, <3>1, <3>4, <3>5, <3>6 DEF Link
  <2>3. CASE worker.pc # "await"
    <3>1. ~Connection /\ core = "tcp"
      BY <2>1, <2>3, LinkIdle
    <3> QED BY <1>0, <2>3, <3>1 DEF Link, Connection, Network
  <2> QED BY <2>2, <2>3
<1>4. CASE LoseReply
  <2>1. toHost' = Tail(toHost) /\ toHost # <<>> /\ toDev' = toDev /\ core = "udp"
    BY <1>4 DEF LoseReply
  <2>2. CASE worker.pc = "await"
    <3>1. \A n \in DOMAIN toHost : n = 1
      BY <2>2 DEF Link
    <3>2. Len(toHost) \in DOMAIN toHost
      BY <1>0, <2>1
    <3>3. toHost' = <<>>
      BY <1>0, <2>1, <3>1, <3>2
    <3> QED BY <1>0, <2>1, <2>2, <3>3 DEF Link, Network
  <2>3. CASE worker.pc # "await"
    BY <2>1, <2>3, LinkIdle
  <2> QED BY <2>2, <2>3
<1> QED BY <1>2, <1>3, <1>4

LEMMA LinkWorker ==
  ASSUME PairedInv, Link, Allowed, WorkerAction
  PROVE  Link'
<1> USE DEF shared, link, history, PairedInv
<1>1. CASE OpenFails
  BY <1>1, Moving, LinkMoves DEF OpenFails, WorkerPlaces, Connection
<1>2. CASE Opens
  <2>1. worker'.pc \in {"recv", "answer"}
    BY <1>2 DEF Opens, Typed
  <2>2. CASE core = "tcp"
    BY <1>2, <2>1, <2>2 DEF Opens, Reopened, Link, PeeksIn, Network
  <2>3. CASE core # "tcp"
    BY <1>2, <2>1, <2>3 DEF Opens, Reopened, Link
  <2> QED BY <2>2, <2>3
<1>3. CASE Receive
  <2>1. worker'.pc \in {"recv", "do", "answer"}
    <3>1. CASE Head(chan) = StartPolling
      BY <1>3, <3>1, Kinds DEF Receive
    <3>2. CASE Head(chan) = Exit
      BY <1>3, <3>2, Kinds, Answers, Responding DEF Receive
    <3>3. CASE Head(chan) # StartPolling /\ Head(chan) # Exit
      BY <1>3, <3>3 DEF Receive, Typed
    <3> QED BY <3>1, <3>2, <3>3
  <2> QED BY <1>3, <2>1, LinkMoves DEF Receive, Connection
<1>4. CASE Send \/ SendFails \/ Reply \/ Timeout
  BY <1>4, LinkSending
<1>5. CASE Transfer \/ \E err \in Errors : TransferFails(err)
  <2>1. worker'.pc = "answer" /\ worker.pc = "do"
    BY <1>5 DEF Transfer, TransferFails, Succeed, Fail, Respond, Typed
  <2> QED BY <1>5, <2>1, LinkMoves DEF Transfer, TransferFails, Connection
<1>6. CASE Answer
  <2>1. worker'.pc = "notify" /\ worker'.next = worker.next
    BY <1>6 DEF Answer, Typed
  <2> QED BY <1>6, <2>1, LinkMoves DEF Answer, Connection
<1>7. CASE Notify
  <2>1. worker'.pc = worker.next /\ worker.next \in {"recv", "drain", "ended"}
    BY <1>7 DEF Notify, Typed
  <2> QED BY <1>7, <2>1, LinkMoves DEF Notify, Connection
<1>8. CASE Drain
  <2>1. worker'.pc = "drain" \/ (worker'.pc = "answer" /\ worker'.next # "recv")
    <3>1. CASE Head(chan) = StartPolling
      BY <1>8, <3>1, Kinds DEF Drain, Drained
    <3>2. CASE Head(chan) = Exit
      BY <1>8, <3>2, Kinds, Answers, Responding DEF Drain, Drained
    <3>3. CASE Head(chan) # StartPolling /\ Head(chan) # Exit
      BY <1>8, <3>3 DEF Drain, Drained, NotConnected, Respond, Typed
    <3> QED BY <3>1, <3>2, <3>3
  <2> QED BY <1>8, <2>1, LinkMoves DEF Drain, Connection
<1>9. CASE Reopen
  BY <1>9, Moving, LinkMoves DEF Reopen, WorkerPlaces, Connection
<1>10. CASE Execute \/ LosePacket \/ LoseReply
  BY <1>10, LinkDevice
<1> QED
  BY <1>1, <1>2, <1>3, <1>4, <1>5, <1>6, <1>7, <1>8, <1>9, <1>10 DEF WorkerAction

\* What is being tried is not changed by the connection's thread.
LEMMA SameTried ==
  ASSUME Typed, WorkerAction
  PROVE  SameAsks /\ \A a : Tried(a)' = Tried(a)
<1>1. \A c \in Threads : (Busy(c)' <=> Busy(c)) /\ thread'[c].op = thread[c].op
  BY OnlyWakes DEF Busy
<1>2. SameAsks
  BY OnlyWakes DEF SameAsks, Asks
<1> QED BY <1>1, <1>2 DEF Tried

\* A connection opened again has lost no poke, or is no longer faithful.
LEMMA SettlesOpens ==
  ASSUME PairedInv, Opens, faithful', NEW a, NEW vs, Settles(toDev, mem, a, vs)
  PROVE  Settles(toDev', mem', a, vs) /\ faithful
<1>1. mem' = mem /\ faithful
  BY DEF Opens, Reopened
<1>2. CASE core = "tcp"
  <2>1. PokesOf(toDev, a) = {} /\ toDev' = <<>>
    BY <1>2 DEF Opens, Reopened, PokesOf
  <2> QED BY <1>1, <2>1, SettlesEmpty DEF Settles
<1>3. CASE core # "tcp"
  BY <1>1, <1>3 DEF Opens, Reopened
<1> QED BY <1>2, <1>3

\* What is executed has settled, and what UDP may lose is no poke.
LEMMA SettlesDevice ==
  ASSUME PairedInv, Execute \/ LosePacket \/ LoseReply, faithful', NEW a \in Addrs, NEW vs,
         Settles(toDev, mem, a, vs)
  PROVE  Settles(toDev', mem', a, vs) /\ faithful
<1> USE DEF PairedInv, history, link, shared
<1>0. toDev \in Seq(Operations) /\ mem \in [Addrs -> Vals]
  BY DEF Typed, TypeOK
<1>1. CASE Execute
  <2>1. Head(toDev) \in Operations /\ Head(toDev).addr \in Addrs
    BY <1>0, <1>1, Tailed, Kinds DEF Execute
  <2>2. IF Head(toDev).kind = "Poke" /\ Head(toDev).addr = a
        THEN mem'[a] = Head(toDev).val ELSE mem'[a] = mem[a]
    BY <1>0, <1>1, <2>1 DEF Execute
  <2> QED BY <1>0, <1>1, <2>2, SettlesTail DEF Execute
<1>2. CASE LosePacket
  BY <1>0, <1>2, SettlesTail DEF LosePacket
<1>3. CASE LoseReply
  BY <1>3 DEF LoseReply
<1> QED BY <1>1, <1>2, <1>3

LEMMA AllowedWorker ==
  ASSUME PairedInv, Link, Allowed, WorkerAction
  PROVE  Allowed'
<1> USE DEF shared, link, history, PairedInv
<1>0. /\ want' = want /\ \A a : Tried(a)' = Tried(a)
      /\ toDev \in Seq(Operations) /\ mem \in [Addrs -> Vals]
  BY SameTried DEF WorkerAction, OpenFails, Opens, Receive, Send, SendFails, Reply, Timeout,
       Transfer, TransferFails, Answer, Notify, Drain, Reopen, Execute, LosePacket, LoseReply,
       Typed, TypeOK
<1> SUFFICES ASSUME NEW a \in Addrs, faithful'
             PROVE  Settles(toDev', mem', a, want[a] \cup Tried(a))
  BY <1>0 DEF Allowed
<1>1. CASE OpenFails \/ Receive \/ SendFails \/ Reply \/ Timeout \/ Answer \/ Notify \/ Drain \/ Reopen
  BY <1>1 DEF OpenFails, Receive, SendFails, Reply, Timeout, Answer, Notify, Drain, Reopen, Allowed
<1>2. CASE Opens
  BY <1>2, SettlesOpens DEF Allowed, Opens, Reopened
<1>3. CASE Send
  <2>1. /\ worker.job \in Operations /\ worker.job.kind \in {"Peek", "Poke"}
        /\ Tried(a) = IF worker.job.kind = "Poke" /\ worker.job.addr = a THEN {worker.job.val} ELSE {}
    BY <1>3, Awaiting, Kinds DEF Send
  <2>2. Settles(toDev, mem, a, want[a] \cup Tried(a)) /\ mem' = mem /\ toDev' = Append(toDev, worker.job)
    BY <1>3 DEF Send, Allowed
  <2>3. CASE worker.job.kind = "Poke"
    BY <1>0, <2>1, <2>2, <2>3, SettlesPoke
  <2>4. CASE worker.job.kind = "Peek"
    BY <1>0, <2>1, <2>2, <2>4, SettlesPeek
  <2> QED BY <2>1, <2>3, <2>4
<1>4. CASE Transfer \/ \E err \in Errors : TransferFails(err)
  <2>1. /\ worker.job \in Operations /\ worker.job.addr \in Addrs
        /\ Tried(a) = IF worker.job.kind = "Poke" /\ worker.job.addr = a THEN {worker.job.val} ELSE {}
    BY <1>4, Awaiting, Kinds DEF Transfer, TransferFails
  <2>2. toDev = <<>> /\ toDev' = toDev /\ faithful
    BY <1>4 DEF Transfer, TransferFails, Link, Network
  <2>3. mem[a] \in want[a] \cup Tried(a)
    BY <2>2, SettlesEmpty DEF Allowed
  <2>4. mem' = mem \/ (mem' = Written /\ worker.job.kind = "Poke")
    BY <1>4 DEF Transfer, TransferFails
  <2>5. mem'[a] \in want[a] \cup Tried(a)
    BY <1>0, <2>1, <2>3, <2>4 DEF Written
  <2> QED BY <2>2, <2>5, SettlesEmpty
<1>5. CASE Execute \/ LosePacket \/ LoseReply
  <2>1. faithful
    BY <1>5 DEF Execute, LosePacket, LoseReply
  <2> QED BY <1>5, <2>1, SettlesDevice DEF Allowed
<1> QED BY <1>1, <1>2, <1>3, <1>4, <1>5 DEF WorkerAction

\* An answer that is not a success, and one to drop(), says nothing of the memory.
LEMMA ToldWorker ==
  ASSUME PairedInv, Link, Allowed, Told, WorkerAction
  PROVE  Told'
<1> USE DEF shared, link, history, PairedInv
<1>0. /\ want' = want /\ SameAsks
      /\ toDev \in Seq(Operations) /\ mem \in [Addrs -> Vals]
  BY SameTried DEF WorkerAction, OpenFails, Opens, Receive, Send, SendFails, Reply, Timeout,
       Transfer, TransferFails, Answer, Notify, Drain, Reopen, Execute, LosePacket, LoseReply,
       Typed, TypeOK
<1> SUFFICES ASSUME NEW c \in Threads, Asks(c), thread'[c].op = thread[c].op, faithful'
             PROVE  /\ worker'.pc = "answer" => Truthful(worker.job, thread[c].op)'
                    /\ response' # NULL => Truthful(response, thread[c].op)'
  BY <1>0 DEF Told, SameAsks
<1>1. Started /\ \A d \in Threads : Asks(d) => d = c
  BY Asking
<1>2. CASE OpenFails \/ Reopen \/ Notify
  <2>1. worker'.pc # "answer" /\ UNCHANGED <<toDev, mem, faithful, response>>
    BY <1>2 DEF OpenFails, Reopen, Notify, Typed
  <2> QED BY <1>0, <2>1 DEF Told, Truthful
<1>3. CASE Opens
  <2>1. worker'.pc = "recv" /\ UNCHANGED response /\ faithful
    BY <1>1, <1>3 DEF Opens, Reopened, Once, Typed
  <2>2. response # NULL => Truthful(response, thread[c].op)
    BY <2>1 DEF Told
  <2> QED BY <1>0, <1>3, <2>1, <2>2, SettlesOpens DEF Truthful
<1>4. CASE Receive \/ Drain
  <2>1. UNCHANGED <<toDev, mem, faithful, response>> /\ worker.pc \in {"recv", "drain"}
    BY <1>4 DEF Receive, Drain
  <2>2. response' # NULL => Truthful(response, thread[c].op)'
    BY <1>0, <2>1 DEF Told, Truthful
  <2>3. worker'.pc = "answer" => Truthful(worker.job, thread[c].op)'
    <3>1. CASE Head(chan) = StartPolling
      <4>1. UNCHANGED worker
        BY <1>4, <3>1, Kinds DEF Receive, Drain, Drained
      <4> QED BY <2>1, <4>1
    <3>2. CASE Head(chan) = Exit
      <4>1. Exit = thread[c].op
        BY <1>1, <1>4, <3>2, Kinds, HeadOnce DEF Receive, Drain
      <4> QED BY <4>1 DEF Truthful, Exit, Op
    <3>3. CASE Receive /\ Head(chan) # StartPolling /\ Head(chan) # Exit
      <4>1. worker'.pc = "do"
        BY <3>3 DEF Receive, Typed
      <4> QED BY <4>1
    <3>4. CASE Drain /\ Head(chan) # StartPolling /\ Head(chan) # Exit
      <4>1. worker'.job = Response(Head(chan).kind, "Other", 0)
        BY <3>4 DEF Drain, Drained, NotConnected, Respond, Typed
      <4> QED BY <4>1 DEF Truthful, Success, Response
    <3> QED BY <1>4, <3>1, <3>2, <3>3, <3>4
  <2> QED BY <2>2, <2>3
<1>5. CASE Answer
  <2>1. worker'.pc = "notify" /\ response' = worker.job /\ UNCHANGED <<toDev, mem, faithful>>
    BY <1>5 DEF Answer, Typed
  <2>2. Truthful(worker.job, thread[c].op)
    BY <1>5, <2>1 DEF Answer, Told
  <2> QED BY <1>0, <2>1, <2>2 DEF Truthful
<1>6. CASE Send \/ SendFails \/ Reply \/ Timeout \/ Transfer \/ \E err \in Errors : TransferFails(err)
  <2>1. worker.pc \in {"do", "await"} /\ response' = response /\ faithful
    BY <1>6 DEF Send, SendFails, Reply, Timeout, Transfer, TransferFails
  <2>2. response = NULL /\ worker.job = thread[c].op
    BY <1>1, <2>1 DEF Once
  <2>3. worker.job \in Operations /\ worker.job.kind \in {"Peek", "Poke"} /\ worker.job.addr \in Addrs
    BY <2>1, Awaiting, Kinds
  <2>4. CASE Send
    <3>1. CASE worker.job.kind = "Poke"
      <4>1. Settles(toDev', mem', worker.job.addr, {worker.job.val})
        BY <1>0, <2>3, <2>4, <3>1, SettlesPoke DEF Send
      <4> QED BY <2>1, <2>2, <3>1, <4>1 DEF Truthful
    <3>2. CASE worker.job.kind # "Poke"
      <4>1. worker'.pc = "await"
        BY <2>4, <3>2 DEF Send, Typed
      <4> QED BY <2>1, <2>2, <4>1
    <3> QED BY <3>1, <3>2
  <2>5. CASE SendFails \/ Timeout \/ \E err \in Errors : TransferFails(err)
    <3>1. PICK err \in Errors : worker'.job = Response(worker.job.kind, err, 0)
      BY <2>5 DEF SendFails, Timeout, TransferFails, Fail, Respond, Typed, Errors
    <3>2. ~Success(worker'.job)
      BY <3>1 DEF Success, Response, Errors
    <3> QED BY <2>1, <2>2, <3>2 DEF Truthful
  <2>6. CASE Reply
    <3>1. worker'.job = Response(worker.job.kind, "None", Head(toHost)) /\ worker.job.kind = "Peek"
      BY <2>1, <2>6 DEF Reply, Succeed, Respond, Typed, Link
    <3>2. toHost \in Seq(Vals) /\ toHost # <<>>
      BY <2>6 DEF Reply, Typed, TypeOK
    <3>3. 1 \in DOMAIN toHost /\ Head(toHost) = toHost[1]
      BY <3>2
    <3>4. Head(toHost) \in want[worker.job.addr]
      BY <2>1, <2>6, <3>3 DEF Reply, Link
    <3> QED BY <1>0, <2>1, <2>2, <3>1, <3>4 DEF Truthful, Response
  <2>7. CASE Transfer
    <3>1. toDev = <<>> /\ toDev' = toDev
      BY <2>1, <2>7 DEF Transfer, Link
    <3>2. CASE worker.job.kind = "Poke"
      <4>1. mem'[worker.job.addr] = worker.job.val
        BY <1>0, <2>3, <2>7, <3>2 DEF Transfer, Written
      <4>2. Settles(toDev', mem', worker.job.addr, {worker.job.val})
        BY <3>1, <4>1, SettlesEmpty
      <4> QED BY <2>1, <2>2, <3>2, <4>2 DEF Truthful
    <3>3. CASE worker.job.kind = "Peek"
      <4>1. worker'.job = Response(worker.job.kind, "None", mem[worker.job.addr])
        BY <2>7, <3>3 DEF Transfer, Succeed, Respond, Typed
      <4>2. Tried(worker.job.addr) = {}
        BY <2>1, <3>3, Awaiting
      <4>3. mem[worker.job.addr] \in want[worker.job.addr]
        BY <2>1, <2>3, <3>1, <4>2, SettlesEmpty DEF Allowed
      <4> QED BY <1>0, <2>1, <2>2, <3>3, <4>1, <4>3 DEF Truthful, Response
    <3> QED BY <2>3, <3>2, <3>3
  <2> QED BY <1>6, <2>4, <2>5, <2>6, <2>7
<1>7. CASE Execute \/ LosePacket \/ LoseReply
  <2>1. UNCHANGED <<worker, response>> /\ faithful
    BY <1>7 DEF Execute, LosePacket, LoseReply
  <2>2. thread[c].op \in Requests
    BY DEF Typed
  <2>3. thread[c].op.kind = "Poke" => thread[c].op.addr \in Addrs
    BY <2>2, Kinds DEF Requests, StartPolling, Exit, Op
  <2> QED BY <1>0, <1>7, <2>1, <2>3, SettlesDevice DEF Told, Truthful
<1> QED BY <1>2, <1>3, <1>4, <1>5, <1>6, <1>7 DEF WorkerAction

LEMMA PeekInit == Init => PeekInv
<1> SUFFICES ASSUME Init PROVE PeekInv
  OBVIOUS
<1>1. Link /\ Told
  BY DEF Init, Link, Told, PeeksIn
<1>2. Allowed
  <2> SUFFICES ASSUME NEW a \in Addrs PROVE Settles(toDev, mem, a, want[a] \cup Tried(a))
    BY DEF Allowed
  <2>1. mem[a] \in want[a] /\ toDev = <<>>
    BY DEF Init
  <2> QED BY <2>1, SettlesEmpty
<1> QED BY <1>1, <1>2, PairedInit DEF PeekInv

LEMMA PeekStep == PeekInv /\ [Next]_vars => PeekInv'
<1> SUFFICES ASSUME PeekInv, [Next]_vars PROVE PeekInv'
  OBVIOUS
<1>1. CASE UNCHANGED vars
  <2>1. Link'
    BY <1>1 DEF PeekInv, vars, shared, link, history, Link, Connection
  <2>2. Allowed'
    BY <1>1 DEF PeekInv, vars, shared, link, history, Allowed, Tried, Busy
  <2>3. Told'
    BY <1>1 DEF PeekInv, vars, shared, link, history, Told, Truthful, Asks
  <2> QED BY <2>1, <2>2, <2>3, PairedStep DEF PeekInv
<1>2. ASSUME NEW c \in Threads, ThreadAction(c) PROVE Link' /\ Allowed' /\ Told'
  BY <1>2, LinkThreads, AllowedThreads, ToldThreads DEF PeekInv
<1>3. CASE WorkerAction
  BY <1>3, LinkWorker, AllowedWorker, ToldWorker, PairedStep DEF PeekInv
<1> QED BY <1>1, <1>2, <1>3, NextSplit, PairedStep DEF PeekInv

\* A peek sees the last poke of whichever thread, with any number of threads,
\* addresses and packets on their way, as long as no poke is lost and no reply comes
\* after its timeout (ethernet.rs 345-389).
THEOREM PeeksSeePokes == Spec => []PeekSeesPokes
<1>1. PeekInv => PeekSeesPokes
  <2> SUFFICES ASSUME PeekInv, NEW c \in Threads,
                      thread[c].pc \in {"wait", "woken"}, thread[c].op.kind = "Peek",
                      response # NULL, response.err = "None", faithful
               PROVE  response.val \in want[thread[c].op.addr]
    BY DEF PeekSeesPokes
  <2>1. Asks(c)
    BY DEF Asks, StartPolling, Op
  <2> QED BY <2>1 DEF PeekInv, Told, Truthful, Success
<1> QED BY <1>1, PeekInit, PeekStep, PTL DEF Spec
=============================================================================
