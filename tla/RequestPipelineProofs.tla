------------------------ MODULE RequestPipelineProofs ------------------------
(***************************************************************************)
(* Theorems about RequestPipeline, for any number of connections, work     *)
(* threads and requests and any size of the socket buffers.                *)
(***************************************************************************)
EXTENDS RequestPipeline, SequenceTheorems, TLAPS

(***************************************************************************)
(* A packet that is framed is a request the queue can hold.                *)
(***************************************************************************)
LEMMA PacketIsRequest ==
    ASSUME NEW c \in Conns, NEW p \in Packet
    PROVE  [conn |-> c, id |-> p.id, data |-> p.data] \in TaskNotification
BY DEF Packet, TaskNotification, Data

(***************************************************************************)
(* setData on a notification gives a notification.                         *)
(***************************************************************************)
LEMMA SetDataType ==
    ASSUME NEW n \in TaskNotification, NEW d \in Data
    PROVE  [n EXCEPT !.data = d] \in TaskNotification
BY DEF TaskNotification

(***************************************************************************)
(* Shutting a connection down leaves sockets and buffers of their types.   *)
(***************************************************************************)
LEMMA ShutdownType ==
    ASSUME TypeOK, NEW c \in Conns, Shutdown(c)
    PROVE  /\ conn' \in [Conns -> ConnStates]
           /\ wire' \in [Conns -> Seq(Packet)]
           /\ inBuffer' \in [Conns -> Seq(Packet)]
<1>1. <<>> \in Seq(Packet) /\ "closed" \in ConnStates
    BY EmptySeq DEF ConnStates
<1> QED
    BY <1>1 DEF TypeOK, Shutdown

(***************************************************************************)
(* Enqueuing a request keeps the queue, its wait list and the hand-over    *)
(* slots of the threads of their types.                                    *)
(***************************************************************************)
LEMMA EnqueueRequestType ==
    ASSUME requestQueue \in Seq(TaskNotification),
           waitQueue \in Seq(Workers),
           nf \in [Workers -> TaskNotification \cup {NULL}],
           NEW n \in TaskNotification,
           EnqueueRequest(n)
    PROVE  /\ requestQueue' \in Seq(TaskNotification)
           /\ waitQueue' \in Seq(Workers)
           /\ nf' \in [Workers -> TaskNotification \cup {NULL}]
<1>1. CASE waitQueue = <<>>
    BY <1>1, AppendProperties DEF EnqueueRequest
<1>2. CASE waitQueue # <<>>
    <2>1. Head(waitQueue) \in Workers /\ Tail(waitQueue) \in Seq(Workers)
        BY <1>2, HeadTailProperties
    <2> QED
        BY <1>2, <2>1 DEF EnqueueRequest
<1> QED
    BY <1>1, <1>2

LEMMA InitTypeOK == Init => TypeOK
<1> SUFFICES ASSUME Init PROVE TypeOK
    OBVIOUS
<1>1. \A S : <<>> \in Seq(S)
    BY EmptySeq
<1>2. /\ 0 \in 0 .. SendCap
      /\ 0 \in 0 .. NotifyCap
    BY PipelineAssumption
<1>3. /\ asked \in [Conns -> Seq(Kinds)]
      /\ wire \in [Conns -> Seq(Packet)]
      /\ inBuffer \in [Conns -> Seq(Packet)]
      /\ got \in [Conns -> Seq(1 .. MaxReq)]
    BY <1>1 DEF Init
<1>4. /\ requestQueue \in Seq(TaskNotification)
      /\ waitQueue \in Seq(Workers)
      /\ responseQueue \in Seq(TaskNotification)
    BY <1>1 DEF Init
<1>5. /\ unread \in [Conns -> 0 .. SendCap]
      /\ notifyBytes \in 0 .. NotifyCap
    BY <1>2 DEF Init
<1> QED
    BY <1>3, <1>4, <1>5
    DEF Init, TypeOK, ConnStates, IoStates, WorkStates, MainStates

(***************************************************************************)
(* Every step keeps the type invariant, one step of the proof per thread   *)
(* and per action.                                                         *)
(***************************************************************************)
LEMMA ClientTypeOK ==
    ASSUME TypeOK, NEW c \in Conns, Client(c)
    PROVE  TypeOK'
<1> USE PipelineAssumption DEF TypeOK, clientVars, socketVars, ioVars, queueVars,
        notifyVars, workVars, mainVars
<1>1. CASE Connect(c)
    BY <1>1 DEF Connect, ConnStates
<1>2. ASSUME NEW kind \in Sends, SendPacket(c, kind)
      PROVE  TypeOK'
    <2>1. kind \in Kinds
        OBVIOUS
    <2>2. [id |-> Len(asked[c]) + 1, data |-> kind] \in Packet
        BY <1>2, <2>1 DEF SendPacket, Packet
    <2>3. wire' \in [Conns -> Seq(Packet)]
        BY <1>2, <2>2 DEF SendPacket
    <2>4. asked' \in [Conns -> Seq(Kinds)]
        BY <1>2, <2>1 DEF SendPacket
    <2> QED
        BY <1>2, <2>3, <2>4 DEF SendPacket
<1>3. CASE ReadResponse(c)
    BY <1>3 DEF ReadResponse
<1>4. CASE Leave(c)
    BY <1>4 DEF Leave
<1> QED
    BY <1>1, <1>2, <1>3, <1>4 DEF Client

LEMMA ReactorTypeOK ==
    ASSUME TypeOK, Reactor
    PROVE  TypeOK'
<1> USE PipelineAssumption DEF TypeOK, clientVars, socketVars, ioVars, queueVars,
        notifyVars, workVars, mainVars
<1>1. ASSUME NEW c \in Conns, OnAcceptor(c) PROVE TypeOK'
    BY <1>1 DEF OnAcceptor, ConnStates
<1>2. ASSUME NEW c \in Conns, OnRead(c) PROVE TypeOK'
    BY <1>2 DEF OnRead, IoStates
<1>3. ASSUME NEW c \in Conns, OnReadClosed(c) PROVE TypeOK'
    BY <1>3 DEF OnReadClosed, Shutdown, ConnStates
<1>4. CASE OnNotify
    BY <1>4 DEF OnNotify, AfterByte, IoStates
<1>5. CASE OnShutDown
    BY <1>5 DEF OnShutDown, ConnStates, IoStates
<1> QED
    BY <1>1, <1>2, <1>3, <1>4, <1>5 DEF Reactor

LEMMA HandlerTypeOK ==
    ASSUME TypeOK, Handler
    PROVE  TypeOK'
<1> USE PipelineAssumption DEF TypeOK, clientVars, socketVars, ioVars, queueVars,
        notifyVars, workVars, mainVars
<1>1. CASE FramePacket
    <2>1. ioConn \in Conns /\ inBuffer[ioConn] # <<>>
        BY <1>1 DEF FramePacket, Framable
    <2> DEFINE p == Head(inBuffer[ioConn])
               n == [conn |-> ioConn, id |-> p.id, data |-> p.data]
    <2>2. p \in Packet
        BY <2>1
    <2>3. CASE p.data = "zero"
        <3>1. /\ Shutdown(ioConn)
              /\ io' = "select"
              /\ UNCHANGED <<queueVars, nf, clientVars, ioNf, notifyVars, wpc,
                             mainVars, got, responseQueue>>
            BY <1>1, <2>3 DEF FramePacket
        <3> QED
            BY <2>1, <3>1, ShutdownType DEF IoStates
    <2>4. CASE p.data # "zero"
        <3>1. n \in TaskNotification
            BY <2>1, <2>2, PacketIsRequest
        <3>2. /\ EnqueueRequest(n)
              /\ inBuffer' = [inBuffer EXCEPT ![ioConn] = Drained(ioConn)]
              /\ UNCHANGED <<conn, wire, io, ioConn, clientVars, ioNf, notifyVars,
                             wpc, mainVars, got, responseQueue>>
            BY <1>1, <2>4 DEF FramePacket
        <3>3. inBuffer' \in [Conns -> Seq(Packet)]
            BY <2>1, <3>2 DEF Drained
        <3>4. /\ requestQueue' \in Seq(TaskNotification)
              /\ waitQueue' \in Seq(Workers)
              /\ nf' \in [Workers -> TaskNotification \cup {NULL}]
            BY <3>1, <3>2, EnqueueRequestType
        <3> QED
            BY <3>2, <3>3, <3>4
    <2> QED
        BY <2>3, <2>4
<1>2. CASE FrameEnd
    BY <1>2 DEF FrameEnd, IoStates
<1>3. CASE DrainEmpty
    BY <1>3 DEF DrainEmpty, IoStates
<1>4. CASE DrainNonEmpty
    BY <1>4 DEF DrainNonEmpty, IoStates
<1>5. CASE DequeueResponse
    <2> DEFINE n == Head(responseQueue)
    <2>1. n \in TaskNotification /\ responseQueue' \in Seq(TaskNotification)
        BY <1>5 DEF DequeueResponse
    <2>2. n.conn \in Conns
        BY <2>1 DEF TaskNotification
    <2>3. CASE ~HasHandler(n.conn)
        BY <1>5, <2>1, <2>3 DEF DequeueResponse, IoStates
    <2>4. CASE HasHandler(n.conn) /\ n.data = "empty"
        <3>1. /\ Shutdown(n.conn)
              /\ io' = "draining"
              /\ UNCHANGED <<ioNf, clientVars, ioConn, queueVars, notifyVars,
                             workVars, mainVars, got>>
            BY <1>5, <2>4 DEF DequeueResponse
        <3> QED
            BY <2>1, <2>2, <3>1, ShutdownType DEF IoStates
    <2>5. CASE HasHandler(n.conn) /\ n.data # "empty"
        BY <1>5, <2>1, <2>5 DEF DequeueResponse, IoStates
    <2> QED
        BY <2>3, <2>4, <2>5
<1>6. CASE SendBytes
    <2>1. ioNf.conn \in Conns /\ ioNf.id \in 1 .. MaxReq
        BY <1>6 DEF SendBytes, TaskNotification
    <2>2. unread' \in [Conns -> 0 .. SendCap]
        <3>1. \/ unread' = unread
              \/ /\ unread[ioNf.conn] < SendCap
                 /\ unread' = [unread EXCEPT ![ioNf.conn] = unread[ioNf.conn] + 1]
            BY <1>6 DEF SendBytes
        <3>2. unread[ioNf.conn] \in 0 .. SendCap
            BY <2>1
        <3>3. unread[ioNf.conn] < SendCap => unread[ioNf.conn] + 1 \in 0 .. SendCap
            BY <3>2
        <3> QED
            BY <3>1, <3>3
    <2>3. got' \in [Conns -> Seq(1 .. MaxReq)]
        <3>1. Append(got[ioNf.conn], ioNf.id) \in Seq(1 .. MaxReq)
            BY <2>1, AppendProperties
        <3> QED
            BY <1>6, <2>1, <3>1 DEF SendBytes
    <2> QED
        BY <1>6, <2>2, <2>3 DEF SendBytes, IoStates
<1> QED
    BY <1>1, <1>2, <1>3, <1>4, <1>5, <1>6 DEF Handler

(***************************************************************************)
(* A thread holds a notification exactly between taking it and putting the *)
(* response on the queue (while it waits, one may be handed to it).        *)
(***************************************************************************)
WorkersHold ==
    \A w \in Workers :
        /\ wpc[w] \in {"working", "respond"} => nf[w] # NULL
        /\ wpc[w] \in {"check", "dequeue", "notify", "done"} => nf[w] = NULL

LEMMA WorkerTypeOK ==
    ASSUME TypeOK, WorkersHold, NEW w \in Workers, Worker(w)
    PROVE  TypeOK'
<1> USE PipelineAssumption DEF TypeOK, clientVars, socketVars, ioVars, queueVars,
        notifyVars, workVars, mainVars
<1>1. CASE CheckCancelled(w)
    BY <1>1 DEF CheckCancelled, WorkStates
<1>2. CASE WaitDequeue(w)
    <2>1. CASE requestQueue # <<>>
        <3>1. /\ Head(requestQueue) \in TaskNotification
              /\ Tail(requestQueue) \in Seq(TaskNotification)
            BY <2>1, HeadTailProperties
        <3> QED
            BY <1>2, <2>1, <3>1 DEF WaitDequeue, WorkStates
    <2>2. CASE requestQueue = <<>>
        <3>1. Append(waitQueue, w) \in Seq(Workers)
            BY AppendProperties
        <3> QED
            BY <1>2, <2>2, <3>1 DEF WaitDequeue, WorkStates
    <2> QED
        BY <2>1, <2>2
<1>3. CASE WakeUp(w)
    BY <1>3 DEF WakeUp, AfterWake, WorkStates
<1>4. CASE Process(w)
    <2>1. nf[w] \in TaskNotification
        BY <1>4 DEF Process, WorkersHold
    <2>2. \A d \in Data : [nf[w] EXCEPT !.data = d] \in TaskNotification
        BY <2>1, SetDataType
    <2>3. /\ "reply" \in Data
          /\ "empty" \in Data
        BY DEF Data
    <2>4. nf' \in [Workers -> TaskNotification \cup {NULL}]
        BY <1>4, <2>2, <2>3 DEF Process
    <2> QED
        BY <1>4, <2>4 DEF Process, WorkStates
<1>5. CASE EnqueueResponse(w)
    <2>1. nf[w] \in TaskNotification
        BY <1>5 DEF EnqueueResponse, WorkersHold
    <2> QED
        BY <1>5, <2>1 DEF EnqueueResponse, Enqueued, AfterEnqueue, WorkStates
<1>6. CASE Notify(w)
    BY <1>6 DEF Notify, NotifyRoom, WorkStates
<1> QED
    BY <1>1, <1>2, <1>3, <1>4, <1>5, <1>6 DEF Worker

LEMMA StopTypeOK ==
    ASSUME TypeOK, Stop
    PROVE  TypeOK'
<1> USE DEF TypeOK, clientVars, socketVars, ioVars, queueVars, notifyVars, workVars,
        mainVars, MainStep, MainStates
<1>1. CASE CloseNotify BY <1>1 DEF CloseNotify
<1>2. CASE StopReactor BY <1>2 DEF StopReactor
<1>3. CASE JoinIo      BY <1>3 DEF JoinIo
<1>4. CASE CancelAll   BY <1>4 DEF CancelAll
<1>5. CASE WakeUpAll   BY <1>5 DEF WakeUpAll
<1>6. CASE JoinAll     BY <1>6 DEF JoinAll
<1> QED
    BY <1>1, <1>2, <1>3, <1>4, <1>5, <1>6 DEF Stop

------------------------------------------------------------------------------
(***************************************************************************)
(* The inductive invariant behind the safety of the wake-ups.  Beside the  *)
(* properties themselves it says when a thread holds a notification, and   *)
(* that a thread is in the wait list at most once (else a hand-over to it  *)
(* would leave it listed as asleep with a request in hand).                *)
(***************************************************************************)
WaitersDistinct ==
    \A i, j \in DOMAIN waitQueue : waitQueue[i] = waitQueue[j] => i = j

QueueInv == WorkersHold /\ WaitersDistinct /\ NoSleepWhileQueued

NotifyInv == NoLostNotification /\ IoNeverWaits

IInv == TypeOK /\ QueueInv /\ NotifyInv

LEMMA NextTypeOK ==
    ASSUME TypeOK, WorkersHold, [Next]_vars
    PROVE  TypeOK'
<1>1. ASSUME NEW c \in Conns, Client(c) PROVE TypeOK'
    BY <1>1, ClientTypeOK
<1>2. CASE Reactor
    BY <1>2, ReactorTypeOK
<1>3. CASE Handler
    BY <1>3, HandlerTypeOK
<1>4. ASSUME NEW w \in Workers, Worker(w) PROVE TypeOK'
    BY <1>4, WorkerTypeOK
<1>5. CASE Stop
    BY <1>5, StopTypeOK
<1>6. CASE UNCHANGED vars
    BY <1>6 DEF vars, TypeOK, clientVars, socketVars, ioVars, queueVars, notifyVars,
        workVars, mainVars
<1> QED
    BY <1>1, <1>2, <1>3, <1>4, <1>5, <1>6 DEF Next

------------------------------------------------------------------------------
(* The request queue and its sleepers *)

LEMMA InitQueueInv == Init => QueueInv
BY DEF Init, QueueInv, WorkersHold, WaitersDistinct, NoSleepWhileQueued, Blocked

(***************************************************************************)
(* A hand-over serves the first sleeper; the others stay asleep.           *)
(***************************************************************************)
LEMMA EnqueueRequestQueueInv ==
    ASSUME TypeOK, QueueInv, NEW n \in TaskNotification, EnqueueRequest(n),
           UNCHANGED wpc
    PROVE  QueueInv'
<1> USE DEF QueueInv, WorkersHold, WaitersDistinct, NoSleepWhileQueued, Blocked
<1>1. n # NULL
    BY PipelineAssumption
<1>2. CASE waitQueue = <<>>
    BY <1>2 DEF EnqueueRequest
<1>3. CASE waitQueue # <<>>
    <2> DEFINE h == Head(waitQueue)
    <2>1. /\ waitQueue \in Seq(Workers)
          /\ nf \in [Workers -> TaskNotification \cup {NULL}]
        BY DEF TypeOK
    <2>2. /\ requestQueue = <<>>
          /\ requestQueue' = requestQueue
          /\ waitQueue' = Tail(waitQueue)
          /\ nf' = [nf EXCEPT ![h] = n]
        BY <1>3 DEF EnqueueRequest
    <2>3. /\ Len(waitQueue) \in Nat \ {0}
          /\ DOMAIN waitQueue = 1 .. Len(waitQueue)
          /\ h = waitQueue[1]
          /\ h \in Workers
        BY <1>3, <2>1
    <2>4. /\ DOMAIN waitQueue' = 1 .. Len(waitQueue) - 1
          /\ \A i \in 1 .. Len(waitQueue) - 1 : waitQueue'[i] = waitQueue[i + 1]
        BY <1>3, <2>1, <2>2, <2>3
    <2>5. \A i \in DOMAIN waitQueue' : /\ i + 1 \in DOMAIN waitQueue
                                      /\ waitQueue'[i] # h
        BY <2>3, <2>4
    <2>6. WaitersDistinct'
        BY <2>3, <2>4, <2>5
    <2>7. wpc[h] = "waiting"
        BY <2>3
    <2>8. WorkersHold'
        BY <1>1, <2>1, <2>2, <2>3, <2>7
    <2>9. \A w \in Workers : Blocked(w)' => wpc'[w] = "waiting" /\ nf'[w] = NULL
        BY <2>1, <2>2, <2>3, <2>4, <2>5
    <2> QED
        BY <2>2, <2>6, <2>8, <2>9
<1> QED
    BY <1>2, <1>3

(***************************************************************************)
(* A thread that finds the queue empty goes to sleep holding nothing.      *)
(***************************************************************************)
LEMMA WaitDequeueQueueInv ==
    ASSUME TypeOK, QueueInv, NEW w \in Workers, WaitDequeue(w)
    PROVE  QueueInv'
<1> USE DEF QueueInv, WorkersHold, WaitersDistinct, NoSleepWhileQueued, Blocked
<1>1. /\ waitQueue \in Seq(Workers)
      /\ requestQueue \in Seq(TaskNotification)
      /\ nf \in [Workers -> TaskNotification \cup {NULL}]
      /\ wpc \in [Workers -> WorkStates]
    BY DEF TypeOK
<1>2. CASE requestQueue # <<>>
    <2>1. Head(requestQueue) # NULL
        BY <1>1, <1>2, HeadTailProperties, PipelineAssumption
    <2>2. waitQueue = <<>> /\ waitQueue' = <<>>
        BY <1>2 DEF WaitDequeue
    <2>3. /\ nf' = [nf EXCEPT ![w] = Head(requestQueue)]
          /\ wpc' = [wpc EXCEPT ![w] = "working"]
        BY <1>2 DEF WaitDequeue
    <2> QED
        BY <1>1, <2>1, <2>2, <2>3
<1>3. CASE requestQueue = <<>>
    <2>1. /\ requestQueue' = <<>>
          /\ waitQueue' = Append(waitQueue, w)
          /\ wpc' = [wpc EXCEPT ![w] = "waiting"]
          /\ nf' = nf
          /\ wpc[w] = "dequeue"
        BY <1>3 DEF WaitDequeue
    <2>2. /\ Len(waitQueue) \in Nat
          /\ DOMAIN waitQueue = 1 .. Len(waitQueue)
          /\ DOMAIN waitQueue' = 1 .. Len(waitQueue) + 1
          /\ \A i \in 1 .. Len(waitQueue) : waitQueue'[i] = waitQueue[i]
          /\ waitQueue'[Len(waitQueue) + 1] = w
        BY <1>1, <2>1
    <2>3. \A i \in DOMAIN waitQueue : waitQueue[i] # w
        BY <2>1
    <2>4. WaitersDistinct'
        BY <2>2, <2>3
    <2>5. nf[w] = NULL
        BY <2>1
    <2>6. \A v \in Workers : Blocked(v)' => v = w \/ Blocked(v)
        BY <2>2
    <2>7. \A v \in Workers : Blocked(v)' => wpc'[v] = "waiting" /\ nf'[v] = NULL
        BY <1>1, <2>1, <2>5, <2>6
    <2>8. WorkersHold'
        BY <1>1, <2>1
    <2> QED
        BY <2>1, <2>4, <2>7, <2>8
<1> QED
    BY <1>2, <1>3

LEMMA WorkerQueueInv ==
    ASSUME TypeOK, QueueInv, NEW w \in Workers, Worker(w)
    PROVE  QueueInv'
<1>1. CASE WaitDequeue(w)
    BY <1>1, WaitDequeueQueueInv
<1> USE DEF QueueInv, WorkersHold, WaitersDistinct, NoSleepWhileQueued, Blocked,
        queueVars, TypeOK
<1>2. CASE CheckCancelled(w)
    BY <1>2 DEF CheckCancelled
<1>3. CASE WakeUp(w)
    BY <1>3 DEF WakeUp, AfterWake
<1>4. CASE Process(w)
    <2>1. nf[w] \in TaskNotification
        BY <1>4 DEF Process
    <2>2. \A d \in Data : [nf[w] EXCEPT !.data = d] # NULL
        BY <2>1, SetDataType, PipelineAssumption
    <2>3. wpc'[w] = "respond" =>
            \/ nf'[w] = [nf[w] EXCEPT !.data = "reply"]
            \/ nf'[w] = [nf[w] EXCEPT !.data = "empty"]
        BY <1>4 DEF Process
    <2>4. wpc'[w] = "respond" => nf'[w] # NULL
        BY <2>2, <2>3 DEF Data
    <2>5. /\ wpc'[w] \in {"respond", "check"}
          /\ wpc'[w] = "check" => nf'[w] = NULL
          /\ \A v \in Workers : v # w => wpc'[v] = wpc[v] /\ nf'[v] = nf[v]
          /\ UNCHANGED <<requestQueue, waitQueue>>
          /\ wpc[w] = "working"
        BY <1>4 DEF Process
    <2> QED
        BY <2>4, <2>5
<1>5. CASE EnqueueResponse(w)
    BY <1>5 DEF EnqueueResponse, AfterEnqueue
<1>6. CASE Notify(w)
    BY <1>6 DEF Notify
<1> QED
    BY <1>1, <1>2, <1>3, <1>4, <1>5, <1>6 DEF Worker

(***************************************************************************)
(* Steps that touch neither the queue nor the work threads.                *)
(***************************************************************************)
LEMMA QueueInvFrame ==
    ASSUME QueueInv, UNCHANGED <<queueVars, workVars>>
    PROVE  QueueInv'
BY DEF QueueInv, WorkersHold, WaitersDistinct, NoSleepWhileQueued, Blocked, queueVars,
    workVars

LEMMA HandlerQueueInv ==
    ASSUME TypeOK, QueueInv, Handler
    PROVE  QueueInv'
<1>1. CASE FramePacket
    <2> DEFINE p == Head(inBuffer[ioConn])
               n == [conn |-> ioConn, id |-> p.id, data |-> p.data]
    <2>1. CASE p.data = "zero"
        BY <1>1, <2>1, QueueInvFrame DEF FramePacket, workVars
    <2>2. CASE p.data # "zero"
        <3>1. ioConn \in Conns /\ inBuffer[ioConn] # <<>>
            BY <1>1 DEF FramePacket, Framable, TypeOK
        <3>2. p \in Packet
            BY <3>1 DEF TypeOK
        <3>3. n \in TaskNotification
            BY <3>1, <3>2, PacketIsRequest
        <3>4. EnqueueRequest(n) /\ UNCHANGED wpc
            BY <1>1, <2>2 DEF FramePacket
        <3> QED
            BY <3>3, <3>4, EnqueueRequestQueueInv
    <2> QED
        BY <2>1, <2>2
<1>2. CASE FrameEnd
    BY <1>2, QueueInvFrame DEF FrameEnd
<1>3. CASE DrainEmpty
    BY <1>3, QueueInvFrame DEF DrainEmpty
<1>4. CASE DrainNonEmpty
    BY <1>4, QueueInvFrame DEF DrainNonEmpty
<1>5. CASE DequeueResponse
    BY <1>5, QueueInvFrame DEF DequeueResponse
<1>6. CASE SendBytes
    BY <1>6, QueueInvFrame DEF SendBytes
<1> QED
    BY <1>1, <1>2, <1>3, <1>4, <1>5, <1>6 DEF Handler

LEMMA NextQueueInv ==
    ASSUME TypeOK, QueueInv, [Next]_vars
    PROVE  QueueInv'
<1>1. ASSUME NEW c \in Conns, Client(c) PROVE QueueInv'
    BY <1>1, QueueInvFrame DEF Client, Connect, SendPacket, ReadResponse, Leave
<1>2. CASE Reactor
    BY <1>2, QueueInvFrame
    DEF Reactor, OnAcceptor, OnRead, OnReadClosed, OnNotify, OnShutDown
<1>3. CASE Handler
    BY <1>3, HandlerQueueInv
<1>4. ASSUME NEW w \in Workers, Worker(w) PROVE QueueInv'
    BY <1>4, WorkerQueueInv
<1>5. CASE Stop
    <2>1. CASE WakeUpAll
        BY <2>1 DEF WakeUpAll, QueueInv, WorkersHold, WaitersDistinct,
            NoSleepWhileQueued, Blocked, workVars
    <2>2. CASE CloseNotify \/ StopReactor \/ JoinIo \/ CancelAll \/ JoinAll
        BY <2>2, QueueInvFrame DEF CloseNotify, StopReactor, JoinIo, CancelAll, JoinAll
    <2> QED
        BY <1>5, <2>1, <2>2 DEF Stop
<1>6. CASE UNCHANGED vars
    BY <1>6, QueueInvFrame DEF vars
<1> QED
    BY <1>1, <1>2, <1>3, <1>4, <1>5, <1>6 DEF Next

------------------------------------------------------------------------------
(* The response queue and the notify socket *)

LEMMA InitNotifyInv == Init => NotifyInv
BY DEF Init, NotifyInv, NoLostNotification, IoNeverWaits

(***************************************************************************)
(* Steps that touch neither the response queue, the io thread, the notify  *)
(* socket nor the pc of a work thread.                                     *)
(***************************************************************************)
LEMMA NotifyInvFrame ==
    ASSUME NotifyInv, UNCHANGED <<responseQueue, io, notifyVars, wpc>>
    PROVE  NotifyInv'
BY DEF NotifyInv, NoLostNotification, IoNeverWaits, notifyVars

LEMMA WorkerNotifyInv ==
    ASSUME TypeOK, NotifyInv, NEW w \in Workers, Worker(w)
    PROVE  NotifyInv'
<1> USE DEF NotifyInv, NoLostNotification, IoNeverWaits, ioVars, notifyVars
<1>1. /\ wpc \in [Workers -> WorkStates]
      /\ responseQueue \in Seq(TaskNotification)
      /\ notifyBytes \in Nat
    BY PipelineAssumption DEF TypeOK
<1>2. ASSUME wpc[w] # "notify",
             UNCHANGED <<responseQueue, ioVars, notifyVars>>,
             \A v \in Workers : v # w => wpc'[v] = wpc[v]
      PROVE  NotifyInv'
    BY <1>2
<1>3. CASE CheckCancelled(w)
    BY <1>1, <1>2, <1>3 DEF CheckCancelled
<1>4. CASE WaitDequeue(w)
    BY <1>1, <1>2, <1>4 DEF WaitDequeue
<1>5. CASE WakeUp(w)
    BY <1>1, <1>2, <1>5 DEF WakeUp
<1>6. CASE Process(w)
    BY <1>1, <1>2, <1>6 DEF Process
<1>7. CASE EnqueueResponse(w)
    <2>1. wpc'[w] = "notify"
        BY <1>1, <1>7 DEF EnqueueResponse, AfterEnqueue
    <2>2. io' = "dequeue" => responseQueue' # <<>>
        BY <1>1, <1>7 DEF EnqueueResponse, Enqueued
    <2> QED
        BY <2>1, <2>2
<1>8. CASE Notify(w)
    <2>1. notifyBytes' > 0 \/ ~notifyOpen'
        BY <1>1, <1>8 DEF Notify
    <2>2. UNCHANGED <<io, responseQueue>>
        BY <1>8 DEF Notify
    <2> QED
        BY <2>1, <2>2
<1> QED
    BY <1>3, <1>4, <1>5, <1>6, <1>7, <1>8 DEF Worker

LEMMA NextNotifyInv ==
    ASSUME TypeOK, NotifyInv, [Next]_vars
    PROVE  NotifyInv'
<1>1. ASSUME NEW c \in Conns, Client(c) PROVE NotifyInv'
    BY <1>1, NotifyInvFrame
    DEF Client, Connect, SendPacket, ReadResponse, Leave, ioVars, workVars
<1>2. CASE Reactor
    <2>1. ASSUME NEW c \in Conns, OnRead(c) PROVE NotifyInv'
        BY <2>1 DEF OnRead, NotifyInv, NoLostNotification, IoNeverWaits, notifyVars,
            workVars
    <2>2. CASE OnNotify
        BY <2>2 DEF OnNotify, AfterByte, NotifyInv, NoLostNotification, IoNeverWaits
    <2>3. CASE OnShutDown
        BY <2>3 DEF OnShutDown, NotifyInv, NoLostNotification, IoNeverWaits, notifyVars,
            workVars
    <2>4. ASSUME NEW c \in Conns, OnAcceptor(c) \/ OnReadClosed(c) PROVE NotifyInv'
        BY <2>4, NotifyInvFrame DEF OnAcceptor, OnReadClosed, ioVars, workVars
    <2> QED
        BY <1>2, <2>1, <2>2, <2>3, <2>4 DEF Reactor
<1>3. CASE Handler
    <2> USE DEF NotifyInv, NoLostNotification, IoNeverWaits, notifyVars, workVars
    <2>1. CASE FramePacket
        BY <2>1 DEF FramePacket
    <2>2. CASE FrameEnd
        BY <2>2 DEF FrameEnd
    <2>3. CASE DrainEmpty
        BY <2>3 DEF DrainEmpty
    <2>4. CASE DrainNonEmpty
        BY <2>4 DEF DrainNonEmpty
    <2>5. CASE DequeueResponse
        BY <2>5 DEF DequeueResponse
    <2>6. CASE SendBytes
        BY <2>6 DEF SendBytes
    <2> QED
        BY <1>3, <2>1, <2>2, <2>3, <2>4, <2>5, <2>6 DEF Handler
<1>4. ASSUME NEW w \in Workers, Worker(w) PROVE NotifyInv'
    BY <1>4, WorkerNotifyInv
<1>5. CASE Stop
    <2>1. CASE CloseNotify
        BY <2>1 DEF CloseNotify, NotifyInv, NoLostNotification, IoNeverWaits, ioVars
    <2>2. CASE StopReactor \/ JoinIo \/ CancelAll \/ WakeUpAll \/ JoinAll
        BY <2>2, NotifyInvFrame
        DEF StopReactor, JoinIo, CancelAll, WakeUpAll, JoinAll, ioVars, workVars
    <2> QED
        BY <1>5, <2>1, <2>2 DEF Stop
<1>6. CASE UNCHANGED vars
    BY <1>6, NotifyInvFrame DEF vars, ioVars, workVars
<1> QED
    BY <1>1, <1>2, <1>3, <1>4, <1>5, <1>6 DEF Next

------------------------------------------------------------------------------
(* The theorems *)

(***************************************************************************)
(* The inductive invariant holds in every reachable state.                 *)
(***************************************************************************)
THEOREM Invariance == Spec => []IInv
<1>1. Init => IInv
    BY InitTypeOK, InitQueueInv, InitNotifyInv DEF IInv
<1>2. IInv /\ [Next]_vars => IInv'
    <2> SUFFICES ASSUME IInv, [Next]_vars PROVE IInv'
        OBVIOUS
    <2>1. TypeOK'
        BY NextTypeOK DEF IInv, QueueInv
    <2>2. QueueInv'
        BY NextQueueInv DEF IInv
    <2>3. NotifyInv'
        BY NextNotifyInv DEF IInv
    <2> QED
        BY <2>1, <2>2, <2>3 DEF IInv
<1> QED
    BY <1>1, <1>2, PTL DEF Spec

(***************************************************************************)
(* Every variable keeps its type.                                          *)
(***************************************************************************)
THEOREM TypeCorrect == Spec => []TypeOK
<1>1. IInv => TypeOK
    BY DEF IInv
<1> QED
    BY <1>1, Invariance, PTL

(***************************************************************************)
(* A response that WorkTask put on responseQueue is never stranded there:  *)
(* a byte, a worker about to write one, or the draining io thread is on    *)
(* its way to it, until stop() closes the notify socket.                   *)
(***************************************************************************)
THEOREM ResponsesNotStranded == Spec => []NoLostNotification
<1>1. IInv => NoLostNotification
    BY DEF IInv, NotifyInv
<1> QED
    BY <1>1, Invariance, PTL

(***************************************************************************)
(* The io thread never blocks in waitDequeueNotification of sendResponse.  *)
(***************************************************************************)
THEOREM IoThreadNeverWaits == Spec => []IoNeverWaits
<1>1. IInv => IoNeverWaits
    BY DEF IInv, NotifyInv
<1> QED
    BY <1>1, Invariance, PTL

(***************************************************************************)
(* No work thread sleeps while a request is queued, nor with a request in  *)
(* its hands.                                                              *)
(***************************************************************************)
THEOREM WorkersAwakeWhileQueued == Spec => []NoSleepWhileQueued
<1>1. IInv => NoSleepWhileQueued
    BY DEF IInv, QueueInv
<1> QED
    BY <1>1, Invariance, PTL

==============================================================================
