--------------------------- MODULE RequestPipeline ---------------------------
(***************************************************************************)
(* The request path of BolServiceServer: the threads and the two queues    *)
(* between a client's socket and the response that is written back to it.  *)
(*                                                                         *)
(*   client --wire--> io thread --requestQueue--> work threads             *)
(*   client <--got--- io thread <--responseQueue, one notify byte--        *)
(*                                                                         *)
(* The io thread runs the SocketReactor: it accepts connections, frames    *)
(* packets (BolServiceRequestHandler) and writes responses (ResponseSend). *)
(* A work thread (WorkTask) takes a notification from requestQueue,        *)
(* replaces its data by the response, puts it on responseQueue and wakes   *)
(* the io thread with one byte on a loop-back socket (ResponseNotify).     *)
(* The main thread runs BolServiceServer::stop.                            *)
(*                                                                         *)
(* A packet is one element of a sequence; how a byte stream is cut into    *)
(* packets is not modelled here.  A behaviour starts when start() has      *)
(* returned, the notify socket being the one ResponseSend reads from.      *)
(***************************************************************************)
EXTENDS Naturals, Sequences, FiniteSets

CONSTANTS
    Conns,      \* the client connections that may be made
    Workers,    \* the work threads (BKernel.workthread.num of them)
    Sends,      \* the kinds of packets the clients send, a subset of Kinds
    MaxReq,     \* bound: packets one client sends
    SendCap,    \* responses a client's socket holds before sendBytes blocks
    NotifyCap,  \* bytes the notify socket holds before notify() blocks
    NULL        \* the NULL notification

(***************************************************************************)
(* What a packet may hold, as far as the server tells packets apart.       *)
(*   "known"    a request whose program id is in the program table         *)
(*   "unknown"  a request whose program lookup yields no row               *)
(*   "garbage"  bytes that ParseFromString rejects                         *)
(*   "zero"     a header that announces a body of length 0, and no body    *)
(***************************************************************************)
Kinds == {"known", "unknown", "garbage", "zero"}

Packet == [id : 1 .. MaxReq, data : Kinds]

(***************************************************************************)
(* TaskNotification: the data and the socket it came from.  WorkTask calls *)
(* setData on the same object: "reply" is a serialized response, "empty"   *)
(* the empty string that makes the sender close the connection.            *)
(***************************************************************************)
Data == Kinds \cup {"reply", "empty"}

TaskNotification == [conn : Conns, id : 1 .. MaxReq, data : Data]

ASSUME PipelineAssumption ==
    /\ Sends \subseteq Kinds
    /\ MaxReq \in Nat
    /\ SendCap \in Nat \ {0}
    /\ NotifyCap \in Nat \ {0}
    /\ NULL \notin TaskNotification

VARIABLES
    conn,           \* [Conns -> ...] server side of each connection
    peer,           \* [Conns -> ...] whether the client still has it open
    asked,          \* [Conns -> Seq(Kinds)] packets the client has sent
    wire,           \* [Conns -> Seq(Packet)] sent, not yet received
    inBuffer,       \* [Conns -> Seq(Packet)] the handler's _inBuffer
    got,            \* [Conns -> Seq(id)] responses written to the socket
    unread,         \* [Conns -> Nat] of these, not yet read by the client
    requestQueue,   \* _requestQueue: notifications waiting for a worker
    waitQueue,      \* its wait list: workers blocked on it, oldest first
    responseQueue,  \* _responseQueue
    notifyBytes,    \* bytes in flight on the notify socket
    notifyOpen,     \* FALSE once ResponseNotify::close was called
    io,             \* where the io thread is
    ioConn,         \* the connection whose packets it frames
    ioNf,           \* the response it writes (pTaskNf in sendResponse)
    wpc,            \* [Workers -> ...] where each work thread is
    nf,             \* [Workers -> notification or NULL] its pTaskNf
    cancelled,      \* TaskManager::cancelAll was called
    main            \* where the main thread is in stop()

clientVars == <<peer, asked, unread>>
socketVars == <<conn, wire, inBuffer>>
ioVars     == <<io, ioConn, ioNf>>
queueVars  == <<requestQueue, waitQueue>>
notifyVars == <<notifyBytes, notifyOpen>>
workVars   == <<wpc, nf>>
mainVars   == <<cancelled, main>>
vars == <<clientVars, socketVars, ioVars, queueVars, notifyVars, workVars,
          mainVars, got, responseQueue>>

ConnStates == {"none", "backlog", "handled", "closed"}
IoStates   == {"select", "framing", "draining", "dequeue", "sending", "stopped"}
WorkStates == {"check", "dequeue", "waiting", "working", "respond", "notify",
               "done"}
MainStates == {"serving", "stopReactor", "joinIo", "cancelAll", "wakeUpAll",
               "joinWorkers", "stopped"}

(***************************************************************************)
(* HandlerManager::_handlerMap: the connections that have a handler.       *)
(***************************************************************************)
handlerMap == {c \in Conns : conn[c] = "handled"}

Blocked(w) == \E i \in DOMAIN waitQueue : waitQueue[i] = w

------------------------------------------------------------------------------
(* Clients (the environment) *)

Connect(c) ==
    /\ conn[c] = "none"
    /\ conn' = [conn EXCEPT ![c] = "backlog"]
    /\ UNCHANGED <<clientVars, wire, inBuffer, ioVars, queueVars, notifyVars,
                   workVars, mainVars, got, responseQueue>>

SendPacket(c, kind) ==
    /\ conn[c] \in {"backlog", "handled"}
    /\ peer[c] = "up"
    /\ Len(asked[c]) < MaxReq
    /\ asked' = [asked EXCEPT ![c] = Append(@, kind)]
    /\ wire' = [wire EXCEPT ![c] =
                  Append(@, [id |-> Len(asked[c]) + 1, data |-> kind])]
    /\ UNCHANGED <<conn, peer, inBuffer, unread, ioVars, queueVars, notifyVars,
                   workVars, mainVars, got, responseQueue>>

ReadResponse(c) ==
    /\ peer[c] = "up"
    /\ unread[c] > 0
    /\ unread' = [unread EXCEPT ![c] = @ - 1]
    /\ UNCHANGED <<peer, asked, socketVars, ioVars, queueVars, notifyVars,
                   workVars, mainVars, got, responseQueue>>

Leave(c) ==
    /\ conn[c] # "none"
    /\ peer[c] = "up"
    /\ peer' = [peer EXCEPT ![c] = "gone"]
    /\ UNCHANGED <<asked, unread, socketVars, ioVars, queueVars, notifyVars,
                   workVars, mainVars, got, responseQueue>>

------------------------------------------------------------------------------
(* NotificationQueue (external): waiters are served directly, oldest first *)

\* Mutant: the notification is only queued, whoever sleeps goes on sleeping.
EnqueueRequestNoHandOver(n) ==
    /\ requestQueue' = Append(requestQueue, n)
    /\ UNCHANGED <<waitQueue, nf>>

\* Mutant: enqueueUrgentNotification, which puts the request first.
EnqueueRequestUrgent(n) ==
    IF waitQueue = <<>>
    THEN /\ requestQueue' = <<n>> \o requestQueue
         /\ UNCHANGED <<waitQueue, nf>>
    ELSE /\ nf' = [nf EXCEPT ![Head(waitQueue)] = n]
         /\ waitQueue' = Tail(waitQueue)
         /\ UNCHANGED requestQueue

EnqueueRequest(n) ==
    IF waitQueue = <<>>
    THEN /\ requestQueue' = Append(requestQueue, n)
         /\ UNCHANGED <<waitQueue, nf>>
    ELSE /\ nf' = [nf EXCEPT ![Head(waitQueue)] = n]
         /\ waitQueue' = Tail(waitQueue)
         /\ UNCHANGED requestQueue

------------------------------------------------------------------------------
(* The io thread: SocketReactor dispatching one handler at a time *)

(***************************************************************************)
(* BolServiceRequestHandler::shutdown: close the socket, delete the        *)
(* handler with its buffer; the destructor takes it out of _handlerMap.    *)
(***************************************************************************)
Shutdown(c) ==
    /\ conn'     = [conn EXCEPT ![c] = "closed"]
    /\ wire'     = [wire EXCEPT ![c] = <<>>]
    /\ inBuffer' = [inBuffer EXCEPT ![c] = <<>>]

OnAcceptor(c) ==
    /\ io = "select"
    /\ conn[c] = "backlog"
    /\ conn' = [conn EXCEPT ![c] = "handled"]
    /\ UNCHANGED <<clientVars, wire, inBuffer, ioVars, queueVars, notifyVars,
                   workVars, mainVars, got, responseQueue>>

OnRead(c) ==
    /\ io = "select"
    /\ c \in handlerMap
    /\ wire[c] # <<>>
    /\ inBuffer' = [inBuffer EXCEPT ![c] = @ \o wire[c]]
    /\ wire' = [wire EXCEPT ![c] = <<>>]
    /\ io' = "framing"
    /\ ioConn' = c
    /\ UNCHANGED <<clientVars, conn, ioNf, queueVars, notifyVars, workVars, mainVars,
                   got, responseQueue>>

OnReadClosed(c) ==
    /\ io = "select"
    /\ c \in handlerMap
    /\ wire[c] = <<>>
    /\ peer[c] = "gone"
    /\ Shutdown(c)
    /\ UNCHANGED <<clientVars, ioVars, queueVars, notifyVars, workVars, mainVars,
                   got, responseQueue>>

\* Mutant: the packet stays in the buffer when its notification is queued.
NotDrained(c) == inBuffer[c]

Drained(c) == Tail(inBuffer[c])

(***************************************************************************)
(* The loop of onRead goes on while more than a header is in the buffer: a *)
(* header of length 0 stays there until something follows it.              *)
(***************************************************************************)
Framable(c) ==
    /\ inBuffer[c] # <<>>
    /\ Head(inBuffer[c]).data = "zero" => Len(inBuffer[c]) > 1

FramePacket ==
    /\ io = "framing"
    /\ Framable(ioConn)
    /\ LET p == Head(inBuffer[ioConn]) IN
        IF p.data = "zero"
        THEN /\ Shutdown(ioConn)
             /\ io' = "select"
             /\ ioConn' = NULL
             /\ UNCHANGED <<queueVars, nf>>
        ELSE /\ EnqueueRequest([conn |-> ioConn, id |-> p.id, data |-> p.data])
             /\ inBuffer' = [inBuffer EXCEPT ![ioConn] = Drained(ioConn)]
             /\ UNCHANGED <<conn, wire, io, ioConn>>
    /\ UNCHANGED <<clientVars, ioNf, notifyVars, wpc, mainVars, got,
                   responseQueue>>

FrameEnd ==
    /\ io = "framing"
    /\ ~Framable(ioConn)
    /\ io' = "select"
    /\ ioConn' = NULL
    /\ UNCHANGED <<clientVars, socketVars, ioNf, queueVars, notifyVars,
                   workVars, mainVars, got, responseQueue>>

\* Mutant: the queue is taken from without asking whether it is empty.
AfterByteUntested == "dequeue"

AfterByte == "draining"

(***************************************************************************)
(* ResponseSend::onRead: one byte is received (none once the notify socket *)
(* is closed: the read returns at once), then sendResponse drains.         *)
(***************************************************************************)
OnNotify ==
    /\ io = "select"
    /\ \/ /\ notifyBytes > 0
          /\ notifyBytes' = notifyBytes - 1
       \/ /\ notifyBytes = 0
          /\ ~notifyOpen
          /\ UNCHANGED notifyBytes
    /\ io' = AfterByte
    /\ UNCHANGED <<clientVars, socketVars, ioConn, ioNf, queueVars, notifyOpen,
                   workVars, mainVars, got, responseQueue>>

DrainEmpty ==
    /\ io = "draining"
    /\ responseQueue = <<>>
    /\ io' = "select"
    /\ UNCHANGED <<clientVars, socketVars, ioConn, ioNf, queueVars, notifyVars,
                   workVars, mainVars, got, responseQueue>>

DrainNonEmpty ==
    /\ io = "draining"
    /\ responseQueue # <<>>
    /\ io' = "dequeue"
    /\ UNCHANGED <<clientVars, socketVars, ioConn, ioNf, queueVars, notifyVars,
                   workVars, mainVars, got, responseQueue>>

\* Mutant: getHandler is not asked, the response goes to the socket it names.
AnyHandler(c) == TRUE

HasHandler(c) == c \in handlerMap

(***************************************************************************)
(* _responseQueue.waitDequeueNotification(), which blocks on an empty      *)
(* queue.  A response whose connection has no handler any more is          *)
(* released, one without data closes its connection.                       *)
(***************************************************************************)
DequeueResponse ==
    /\ io = "dequeue"
    /\ responseQueue # <<>>
    /\ responseQueue' = Tail(responseQueue)
    /\ LET n == Head(responseQueue) IN
        \/ /\ ~HasHandler(n.conn)
           /\ io' = "draining"
           /\ UNCHANGED <<socketVars, ioNf>>
        \/ /\ HasHandler(n.conn)
           /\ n.data = "empty"
           /\ Shutdown(n.conn)
           /\ io' = "draining"
           /\ UNCHANGED ioNf
        \/ /\ HasHandler(n.conn)
           /\ n.data # "empty"
           /\ io' = "sending"
           /\ ioNf' = n
           /\ UNCHANGED socketVars
    /\ UNCHANGED <<clientVars, ioConn, queueVars, notifyVars, workVars, mainVars,
                   got>>

(***************************************************************************)
(* sendBytes on a blocking socket: it waits while the client's buffer is   *)
(* full, and fails (the exception is caught) when the client has gone.     *)
(***************************************************************************)
SendBytes ==
    /\ io = "sending"
    /\ LET c == ioNf.conn IN
        \/ /\ peer[c] = "gone"
           /\ UNCHANGED <<got, unread>>
        \/ /\ peer[c] = "up"
           /\ unread[c] < SendCap
           /\ unread' = [unread EXCEPT ![c] = @ + 1]
           /\ got' = [got EXCEPT ![c] = Append(@, ioNf.id)]
    /\ io' = "draining"
    /\ ioNf' = NULL
    /\ UNCHANGED <<peer, asked, socketVars, ioConn, queueVars, notifyVars,
                   workVars, mainVars, responseQueue>>

(***************************************************************************)
(* The reactor loop sees _stop and dispatches ShutdownNotification: every  *)
(* handler shuts its connection down.                                      *)
(***************************************************************************)
OnShutDown ==
    /\ io = "select"
    /\ main = "joinIo"
    /\ conn' = [c \in Conns |-> IF c \in handlerMap THEN "closed" ELSE conn[c]]
    /\ wire' = [c \in Conns |-> IF c \in handlerMap THEN <<>> ELSE wire[c]]
    /\ inBuffer' = [c \in Conns |-> <<>>]
    /\ io' = "stopped"
    /\ UNCHANGED <<clientVars, ioConn, ioNf, queueVars, notifyVars, workVars, mainVars,
                   got, responseQueue>>

------------------------------------------------------------------------------
(* The work threads: WorkTask::runTask *)

\* Mutant: the loop ends only when the queue hands out NULL.
LoopForever == FALSE

LoopEnds == cancelled

CheckCancelled(w) ==
    /\ wpc[w] = "check"
    /\ wpc' = [wpc EXCEPT ![w] = IF LoopEnds THEN "done" ELSE "dequeue"]
    /\ UNCHANGED <<clientVars, socketVars, ioVars, queueVars, notifyVars, nf,
                   mainVars, got, responseQueue>>

WaitDequeue(w) ==
    /\ wpc[w] = "dequeue"
    /\ IF requestQueue # <<>>
       THEN /\ nf' = [nf EXCEPT ![w] = Head(requestQueue)]
            /\ requestQueue' = Tail(requestQueue)
            /\ wpc' = [wpc EXCEPT ![w] = "working"]
            /\ UNCHANGED waitQueue
       ELSE /\ waitQueue' = Append(waitQueue, w)
            /\ wpc' = [wpc EXCEPT ![w] = "waiting"]
            /\ UNCHANGED <<requestQueue, nf>>
    /\ UNCHANGED <<clientVars, socketVars, ioVars, notifyVars, mainVars, got,
                   responseQueue>>

\* Mutant: a woken thread looks at the queue again, as for a condition variable.
AfterWakeRecheck(w) == IF nf[w] = NULL THEN "done" ELSE "check"

AfterWake(w) == IF nf[w] = NULL THEN "done" ELSE "working"

(***************************************************************************)
(* waitDequeueNotification returns: a notification was handed over, or     *)
(* wakeUpAll made it return NULL, and the thread leaves its loop.          *)
(***************************************************************************)
WakeUp(w) ==
    /\ wpc[w] = "waiting"
    /\ ~Blocked(w)
    /\ wpc' = [wpc EXCEPT ![w] = AfterWake(w)]
    /\ UNCHANGED <<clientVars, socketVars, ioVars, queueVars, notifyVars, nf,
                   mainVars, got, responseQueue>>

(***************************************************************************)
(* Parse and execute the request.  When the program lookup finds no row,   *)
(* getFieldValue throws and the handler at the end of the loop body only   *)
(* logs: the notification is never answered.                               *)
(***************************************************************************)
Process(w) ==
    /\ wpc[w] = "working"
    /\ \/ /\ nf[w].data = "known"
          /\ nf' = [nf EXCEPT ![w].data = "reply"]
          /\ wpc' = [wpc EXCEPT ![w] = "respond"]
       \/ /\ nf[w].data = "garbage"
          /\ nf' = [nf EXCEPT ![w].data = "empty"]
          /\ wpc' = [wpc EXCEPT ![w] = "respond"]
       \/ /\ nf[w].data = "unknown"
          /\ nf' = [nf EXCEPT ![w] = NULL]
          /\ wpc' = [wpc EXCEPT ![w] = "check"]
    /\ UNCHANGED <<clientVars, socketVars, ioVars, queueVars, notifyVars,
                   mainVars, got, responseQueue>>

Enqueued(q, n) == Append(q, n)

\* Mutant: the io thread is not notified of the response.
AfterEnqueueSilent == "check"

AfterEnqueue == "notify"

EnqueueResponse(w) ==
    /\ wpc[w] = "respond"
    /\ responseQueue' = Enqueued(responseQueue, nf[w])
    /\ nf' = [nf EXCEPT ![w] = NULL]
    /\ wpc' = [wpc EXCEPT ![w] = AfterEnqueue]
    /\ UNCHANGED <<clientVars, socketVars, ioVars, queueVars, notifyVars,
                   mainVars, got>>

\* Mutant: the socket takes any number of bytes.
NotifyAlways == TRUE

NotifyRoom == notifyBytes < NotifyCap

(***************************************************************************)
(* ResponseNotify::notify: write one byte, block while the socket is full, *)
(* swallow the exception of a closed socket.  A thread that close() finds  *)
(* blocked returns when ResponseSend::onShutDown closes the other end, if  *)
(* not before; main does not join it earlier.                              *)
(***************************************************************************)
Notify(w) ==
    /\ wpc[w] = "notify"
    /\ \/ /\ notifyOpen
          /\ NotifyRoom
          /\ notifyBytes' = notifyBytes + 1
       \/ /\ ~notifyOpen
          /\ UNCHANGED notifyBytes
    /\ wpc' = [wpc EXCEPT ![w] = "check"]
    /\ UNCHANGED <<clientVars, socketVars, ioVars, queueVars, notifyOpen, nf,
                   mainVars, got, responseQueue>>

------------------------------------------------------------------------------
(* The main thread: BolServiceServer::stop, after the termination request *)

MainStep(from, to) == main = from /\ main' = to

CloseNotify ==
    /\ MainStep("serving", "stopReactor")
    /\ notifyOpen' = FALSE
    /\ UNCHANGED <<clientVars, socketVars, ioVars, queueVars, notifyBytes,
                   workVars, cancelled, got, responseQueue>>

StopReactor ==
    /\ MainStep("stopReactor", "joinIo")
    /\ UNCHANGED <<clientVars, socketVars, ioVars, queueVars, notifyVars,
                   workVars, cancelled, got, responseQueue>>

JoinIo ==
    /\ MainStep("joinIo", "cancelAll")
    /\ io = "stopped"
    /\ UNCHANGED <<clientVars, socketVars, ioVars, queueVars, notifyVars,
                   workVars, cancelled, got, responseQueue>>

CancelAll ==
    /\ MainStep("cancelAll", "wakeUpAll")
    /\ cancelled' = TRUE
    /\ UNCHANGED <<clientVars, socketVars, ioVars, queueVars, notifyVars,
                   workVars, got, responseQueue>>

(***************************************************************************)
(* _requestQueue.wakeUpAll(): signals the threads that are waiting now.    *)
(***************************************************************************)
WakeUpAll ==
    /\ MainStep("wakeUpAll", "joinWorkers")
    /\ waitQueue' = <<>>
    /\ UNCHANGED <<clientVars, socketVars, ioVars, requestQueue, notifyVars,
                   workVars, cancelled, got, responseQueue>>

JoinAll ==
    /\ MainStep("joinWorkers", "stopped")
    /\ \A w \in Workers : wpc[w] = "done"
    /\ UNCHANGED <<clientVars, socketVars, ioVars, queueVars, notifyVars,
                   workVars, cancelled, got, responseQueue>>

------------------------------------------------------------------------------
Init ==
    /\ conn = [c \in Conns |-> "none"]
    /\ peer = [c \in Conns |-> "up"]
    /\ asked = [c \in Conns |-> <<>>]
    /\ wire = [c \in Conns |-> <<>>]
    /\ inBuffer = [c \in Conns |-> <<>>]
    /\ got = [c \in Conns |-> <<>>]
    /\ unread = [c \in Conns |-> 0]
    /\ requestQueue = <<>>
    /\ waitQueue = <<>>
    /\ responseQueue = <<>>
    /\ notifyBytes = 0
    /\ notifyOpen = TRUE
    /\ io = "select"
    /\ ioConn = NULL
    /\ ioNf = NULL
    /\ wpc = [w \in Workers |-> "check"]
    /\ nf = [w \in Workers |-> NULL]
    /\ cancelled = FALSE
    /\ main = "serving"

Client(c) ==
    \/ Connect(c)
    \/ \E kind \in Sends : SendPacket(c, kind)
    \/ ReadResponse(c)
    \/ Leave(c)

Reactor ==
    \/ \E c \in Conns : OnAcceptor(c) \/ OnRead(c) \/ OnReadClosed(c)
    \/ OnNotify
    \/ OnShutDown

Handler == FramePacket \/ FrameEnd \/ DrainEmpty \/ DrainNonEmpty
           \/ DequeueResponse \/ SendBytes

Worker(w) == CheckCancelled(w) \/ WaitDequeue(w) \/ WakeUp(w) \/ Process(w)
             \/ EnqueueResponse(w) \/ Notify(w)

Stop == CloseNotify \/ StopReactor \/ JoinIo \/ CancelAll \/ WakeUpAll \/ JoinAll

Next ==
    \/ \E c \in Conns : Client(c)
    \/ Reactor
    \/ Handler
    \/ \E w \in Workers : Worker(w)
    \/ Stop

Spec == Init /\ [][Next]_vars

------------------------------------------------------------------------------
(* Type invariant *)

TypeOK ==
    /\ conn \in [Conns -> ConnStates]
    /\ peer \in [Conns -> {"up", "gone"}]
    /\ asked \in [Conns -> Seq(Kinds)]
    /\ wire \in [Conns -> Seq(Packet)]
    /\ inBuffer \in [Conns -> Seq(Packet)]
    /\ got \in [Conns -> Seq(1 .. MaxReq)]
    /\ unread \in [Conns -> 0 .. SendCap]
    /\ requestQueue \in Seq(TaskNotification)
    /\ waitQueue \in Seq(Workers)
    /\ responseQueue \in Seq(TaskNotification)
    /\ notifyBytes \in 0 .. NotifyCap
    /\ notifyOpen \in BOOLEAN
    /\ io \in IoStates
    /\ io = "framing" => ioConn \in Conns
    /\ io = "sending" => ioNf \in TaskNotification
    /\ wpc \in [Workers -> WorkStates]
    /\ nf \in [Workers -> TaskNotification \cup {NULL}]
    /\ cancelled \in BOOLEAN
    /\ main \in MainStates

------------------------------------------------------------------------------
(* Safety *)

(***************************************************************************)
(* No response is stranded: while responseQueue holds one, the io thread   *)
(* is draining it, or a byte is on the notify socket, or the worker that   *)
(* put a response there has not notified yet, or stop() closed the socket. *)
(* (WorkTask enqueues before it notifies; ResponseSend reads the byte      *)
(* before it drains.)                                                      *)
(***************************************************************************)
NoLostNotification ==
    responseQueue # <<>> =>
        \/ io \in {"draining", "dequeue", "sending"}
        \/ notifyBytes > 0
        \/ \E w \in Workers : wpc[w] = "notify"
        \/ ~notifyOpen

(***************************************************************************)
(* sendResponse tests empty() and then calls the blocking                  *)
(* waitDequeueNotification: on the io thread that call never waits, which  *)
(* would stop every connection.                                            *)
(***************************************************************************)
IoNeverWaits == io = "dequeue" => responseQueue # <<>>

(***************************************************************************)
(* No work thread sleeps on the request queue while a request is in it,    *)
(* and a thread that sleeps holds no request.                              *)
(***************************************************************************)
NoSleepWhileQueued ==
    /\ requestQueue # <<>> => waitQueue = <<>>
    /\ \A w \in Workers : Blocked(w) => wpc[w] = "waiting" /\ nf[w] = NULL

(***************************************************************************)
(* The places where request i of connection c is: each notification has    *)
(* one owner at a time, from the queue to the bytes written to the client. *)
(***************************************************************************)
IsRequest(n, c, i) == n # NULL /\ n.conn = c /\ n.id = i

Places(c, i) ==
    {<<"requestQueue", k>> : k \in {k \in DOMAIN requestQueue :
                                        IsRequest(requestQueue[k], c, i)}}
    \cup {<<"worker", w>> : w \in {w \in Workers : IsRequest(nf[w], c, i)}}
    \cup {<<"responseQueue", k>> : k \in {k \in DOMAIN responseQueue :
                                        IsRequest(responseQueue[k], c, i)}}
    \cup {<<"io", k>> : k \in {k \in {1} : IsRequest(ioNf, c, i)}}
    \cup {<<"got", k>> : k \in {k \in DOMAIN got[c] : got[c][k] = i}}

(***************************************************************************)
(* A request is in at most one place: no two workers execute it, it is not *)
(* answered twice, and not answered while it is still to be executed.      *)
(***************************************************************************)
OneOwner ==
    \A c \in Conns, i \in 1 .. MaxReq : Cardinality(Places(c, i)) <= 1

(***************************************************************************)
(* A request for a known program, on a connection both ends still have     *)
(* open, is not lost anywhere between the client's send and the answer.    *)
(***************************************************************************)
NotReceived(c, i) ==
    \/ \E k \in DOMAIN wire[c] : wire[c][k].id = i
    \/ \E k \in DOMAIN inBuffer[c] : inBuffer[c][k].id = i

NoLostRequest ==
    \A c \in Conns : \A i \in DOMAIN asked[c] :
        (asked[c][i] = "known" /\ conn[c] = "handled" /\ peer[c] = "up")
            => NotReceived(c, i) \/ Places(c, i) # {}

(***************************************************************************)
(* Requests are taken in the order in which they were sent, whoever hands  *)
(* them over: while a request waits in requestQueue, no later one of its   *)
(* connection is with a worker, in responseQueue or answered.  (Answers    *)
(* may still overtake each other between the work threads, so a client has *)
(* to match them by message id.)                                           *)
(***************************************************************************)
TakenInOrder ==
    \A k \in DOMAIN requestQueue :
        LET n == requestQueue[k]
        IN \A j \in (n.id + 1) .. MaxReq :
               \A p \in Places(n.conn, j) : p[1] = "requestQueue" /\ p[2] > k

------------------------------------------------------------------------------
(* Fairness and liveness *)

(***************************************************************************)
(* Threads run: a handler or a worker that can take a step takes one.  The *)
(* reactor dispatches every socket that select() reported before it        *)
(* selects again, so a socket that is ready again and again is served      *)
(* (strong fairness).  Clients read what they are sent.  Nothing makes a   *)
(* client connect, send or leave, or the termination request come.         *)
(***************************************************************************)
Fairness ==
    /\ WF_vars(Handler)
    /\ \A c \in Conns : /\ SF_vars(OnAcceptor(c) \/ OnRead(c) \/ OnReadClosed(c))
                        /\ WF_vars(ReadResponse(c))
    /\ SF_vars(OnNotify)
    /\ SF_vars(OnShutDown)
    /\ \A w \in Workers : WF_vars(Worker(w))
    /\ WF_vars(StopReactor \/ JoinIo \/ CancelAll \/ WakeUpAll \/ JoinAll)

FairSpec == Spec /\ Fairness

(***************************************************************************)
(* A request for a known program is eventually answered, unless its        *)
(* connection is closed or the server is stopped.                          *)
(***************************************************************************)
Answered(c, i) == \E k \in DOMAIN got[c] : got[c][k] = i

RequestAnswered ==
    \A c \in Conns, i \in 1 .. MaxReq :
        (i \in DOMAIN asked[c] /\ asked[c][i] = "known")
            ~> (\/ Answered(c, i)
                \/ conn[c] = "closed"
                \/ peer[c] = "gone"
                \/ main # "serving")

(***************************************************************************)
(* stop() returns whatever the threads are in the middle of: a send to a   *)
(* client, a byte to an io thread that is gone, a queue full of requests,  *)
(* or sleep.  The exception is a work thread that has passed its           *)
(* isCancelled() test and is not asleep yet when wakeUpAll is to be        *)
(* called: it may sleep after the only wake-up there will be.              *)
(***************************************************************************)
OnItsWayToSleep == main = "wakeUpAll" /\ \E w \in Workers : wpc[w] = "dequeue"

StopCompletes == main = "stopReactor" ~> (main = "stopped" \/ OnItsWayToSleep)

------------------------------------------------------------------------------
(* Refinement *)

(***************************************************************************)
(* The abstract state read off the pipeline: a connection is open while it *)
(* has a handler; what a client sent and the server has neither left on    *)
(* the wire nor in the handler's buffer was accepted; a request is pending *)
(* while a notification of it is in a queue or in a thread's hands.        *)
(***************************************************************************)
AbstractState ==
    [c \in Conns |-> CASE conn[c] \in {"none", "backlog"} -> "new"
                       [] conn[c] = "handled"            -> "open"
                       [] conn[c] = "closed"             -> "closed"]

AbstractAccepted ==
    [c \in Conns |-> IF conn[c] = "handled"
                     THEN Len(asked[c]) - Len(wire[c]) - Len(inBuffer[c])
                     ELSE 0]

InFlight ==
    ({requestQueue[k] : k \in DOMAIN requestQueue}
        \cup {responseQueue[k] : k \in DOMAIN responseQueue}
        \cup {nf[w] : w \in Workers} \cup {ioNf}) \ {NULL}

AbstractPending ==
    [c \in Conns |-> {n.id : n \in {m \in InFlight : m.conn = c}}]

AbstractAnswered ==
    [c \in Conns |-> {got[c][k] : k \in DOMAIN got[c]}]

Service == INSTANCE RequestService WITH
    state    <- AbstractState,
    accepted <- AbstractAccepted,
    pending  <- AbstractPending,
    answered <- AbstractAnswered

(***************************************************************************)
(* The pipeline implements the service: whatever the interleaving of the   *)
(* threads, an accepted request is answered at most once, on its own       *)
(* connection, and only while that connection is open.                     *)
(***************************************************************************)
ImplementsService == Service!Spec

==============================================================================
