----------------------- MODULE RequestOwnershipProofs -----------------------
(***************************************************************************)
(* Theorems about who holds a request of the pipeline, for any number of   *)
(* connections, work threads and requests: nobody executes or answers a    *)
(* request twice, none is lost, and they are taken in order.               *)
(***************************************************************************)
EXTENDS RequestPipelineProofs, FiniteSetTheorems

------------------------------------------------------------------------------
(* Where a request is, place by place *)

InQueue(q, c, i) == {k \in DOMAIN q : IsRequest(q[k], c, i)}
InHands(f, c, i) == {w \in Workers : IsRequest(f[w], c, i)}
InSlot(n, c, i)  == {k \in {1} : IsRequest(n, c, i)}
InGot(s, i)      == {k \in DOMAIN s : s[k] = i}

Waits(c, i)    == InQueue(requestQueue, c, i)
Worked(c, i)   == InHands(nf, c, i)
Responds(c, i) == InQueue(responseQueue, c, i)
Sent(c, i)     == InSlot(ioNf, c, i)
Had(c, i)      == InGot(got[c], i)

Taken(c, i) ==
    Worked(c, i) # {} \/ Responds(c, i) # {} \/ Sent(c, i) # {} \/ Had(c, i) # {}

Held(c, i) == Waits(c, i) # {} \/ Taken(c, i)

AtMostOne(S) == \A p, q \in S : p = q

\* Of the five places a request is in one only, and there once.
Lone(R, W, P, S, G) ==
    /\ AtMostOne(R) /\ AtMostOne(W) /\ AtMostOne(P) /\ AtMostOne(S) /\ AtMostOne(G)
    /\ R # {} => W = {} /\ P = {} /\ S = {} /\ G = {}
    /\ W # {} => P = {} /\ S = {} /\ G = {}
    /\ P # {} => S = {} /\ G = {}
    /\ S # {} => G = {}

Alone(c, i) ==
    Lone(Waits(c, i), Worked(c, i), Responds(c, i), Sent(c, i), Had(c, i))

\* No later request of the connection has passed one that is in the queue.
Behind(c, i) ==
    \A k \in Waits(c, i) : \A j \in (i + 1) .. MaxReq :
        /\ ~Taken(c, j)
        /\ \A l \in Waits(c, j) : l > k

------------------------------------------------------------------------------
(* The inductive invariant *)

(***************************************************************************)
(* A sequence that holds the packets sent after the first n, in order.     *)
(***************************************************************************)
Follows(s, n, sent) ==
    \A k \in 1 .. Len(s) : s[k].id = n + k /\ s[k].data = sent[n + k]

\* How many packets were framed: those neither on the wire nor buffered.
Rest(sent, onWire, buffered) == Len(sent) - Len(onWire) - Len(buffered)

\* What is buffered and on the wire are the last packets sent, in order.
InLine(sent, onWire, buffered) ==
    /\ Rest(sent, onWire, buffered) >= 0
    /\ Follows(buffered, Rest(sent, onWire, buffered), sent)
    /\ Follows(onWire, Len(sent) - Len(onWire), sent)

Framed(c) == Rest(asked[c], wire[c], inBuffer[c])

\* Without a handler nothing is buffered, and before it nothing is framed.
PacketsOf(c) ==
    /\ InLine(asked[c], wire[c], inBuffer[c])
    /\ conn[c] # "handled" => inBuffer[c] = <<>>
    /\ conn[c] \in {"none", "backlog"} => Framed(c) = 0

PacketInv == \A c \in Conns : PacketsOf(c)

\* Only what was framed is anywhere, once, and the queue is in order.
PlaceInv ==
    \A c \in Conns, i \in 1 .. MaxReq :
        /\ Held(c, i) => i <= Framed(c)
        /\ Alone(c, i)
        /\ Behind(c, i)

\* What a notification holds until it is executed.
AsSent(n, sent) ==
    /\ n.id \in DOMAIN sent[n.conn]
    /\ n.data = sent[n.conn][n.id]

\* A notification that was executed closes no connection that it should not.
Answering(n, sent) ==
    /\ n.id \in DOMAIN sent[n.conn]
    /\ sent[n.conn][n.id] = "known" => n.data # "empty"

DataInv ==
    /\ \A k \in DOMAIN requestQueue : AsSent(requestQueue[k], asked)
    /\ \A w \in Workers :
          nf[w] # NULL =>
              /\ wpc[w] \in {"waiting", "working"} => AsSent(nf[w], asked)
              /\ wpc[w] = "respond" => Answering(nf[w], asked)
    /\ \A k \in DOMAIN responseQueue : Answering(responseQueue[k], asked)
    /\ io # "sending" => ioNf = NULL

\* A request for a known program that was framed is somewhere.
KeptInv ==
    \A c \in Conns : \A i \in DOMAIN asked[c] :
        /\ asked[c][i] = "known"
        /\ conn[c] = "handled"
        /\ peer[c] = "up"
        /\ i <= Framed(c)
        => Held(c, i)

OwnInv == IInv /\ PacketInv /\ PlaceInv /\ DataInv /\ KeptInv

------------------------------------------------------------------------------
(* Packets *)

LEMMA FollowsAppend ==
    ASSUME NEW a \in Seq(Kinds), NEW w \in Seq(Packet), NEW d \in Kinds,
           NEW p \in Packet, p.id = Len(a) + 1, p.data = d,
           Len(w) <= Len(a), Follows(w, Len(a) - Len(w), a)
    PROVE  Follows(Append(w, p), Len(Append(a, d)) - Len(Append(w, p)), Append(a, d))
<1> DEFINE aa == Append(a, d)
           ww == Append(w, p)
<1>1. /\ Len(a) \in Nat
      /\ Len(aa) = Len(a) + 1
      /\ \A k \in 1 .. Len(a) : aa[k] = a[k]
      /\ aa[Len(a) + 1] = d
    OBVIOUS
<1>2. /\ Len(w) \in Nat
      /\ Len(ww) = Len(w) + 1
      /\ \A k \in 1 .. Len(w) : ww[k] = w[k]
      /\ ww[Len(w) + 1] = p
    OBVIOUS
<1> HIDE DEF aa, ww
<1>3. ASSUME NEW k \in 1 .. Len(w) + 1
      PROVE  /\ ww[k].id = Len(a) - Len(w) + k
             /\ ww[k].data = aa[Len(a) - Len(w) + k]
    <2>1. CASE k = Len(w) + 1
        BY <1>1, <1>2, <2>1
    <2>2. CASE k \in 1 .. Len(w)
        <3>1. Len(a) - Len(w) + k \in 1 .. Len(a)
            BY <1>1, <1>2, <2>2
        <3> QED
            BY <1>1, <1>2, <2>2, <3>1 DEF Follows
    <2> QED
        BY <1>2, <2>1, <2>2
<1>4. Len(aa) - Len(ww) = Len(a) - Len(w)
    BY <1>1, <1>2
<1>5. Follows(ww, Len(a) - Len(w), aa)
    BY <1>2, <1>3 DEF Follows
<1> QED
    BY <1>4, <1>5 DEF aa, ww

\* What follows the first packets is not changed by those sent later.
LEMMA FollowsSent ==
    ASSUME NEW a \in Seq(Kinds), NEW s \in Seq(Packet), NEW d \in Kinds,
           NEW n \in Nat, n + Len(s) <= Len(a), Follows(s, n, a)
    PROVE  Follows(s, n, Append(a, d))
<1>1. Len(a) \in Nat /\ Len(s) \in Nat
    OBVIOUS
<1>2. \A k \in 1 .. Len(a) : Append(a, d)[k] = a[k]
    OBVIOUS
<1>3. \A k \in 1 .. Len(s) : n + k \in 1 .. Len(a)
    BY <1>1
<1> QED
    BY <1>2, <1>3 DEF Follows

LEMMA FollowsConcat ==
    ASSUME NEW a \in Seq(Kinds), NEW s \in Seq(Packet), NEW t \in Seq(Packet),
           NEW n \in Nat, Follows(s, n, a), Follows(t, n + Len(s), a)
    PROVE  Follows(s \o t, n, a)
<1> DEFINE st == s \o t
<1>1. /\ Len(s) \in Nat /\ Len(t) \in Nat
      /\ Len(st) = Len(s) + Len(t)
      /\ \A k \in 1 .. Len(s) + Len(t) :
            st[k] = IF k <= Len(s) THEN s[k] ELSE t[k - Len(s)]
    BY ConcatProperties
<1> HIDE DEF st
<1>2. ASSUME NEW k \in 1 .. Len(s) + Len(t)
      PROVE  st[k].id = n + k /\ st[k].data = a[n + k]
    <2>1. CASE k <= Len(s)
        <3>1. k \in 1 .. Len(s) /\ st[k] = s[k]
            BY <1>1, <2>1
        <3> QED
            BY <3>1 DEF Follows
    <2>2. CASE k > Len(s)
        <3> DEFINE j == k - Len(s)
        <3>1. /\ j \in 1 .. Len(t)
              /\ (n + Len(s)) + j = n + k
              /\ st[k] = t[j]
            BY <1>1, <2>2
        <3> HIDE DEF j
        <3> QED
            BY <3>1 DEF Follows
    <2> QED
        BY <1>1, <2>1, <2>2
<1>3. Follows(st, n, a)
    BY <1>1, <1>2 DEF Follows
<1> QED
    BY <1>3 DEF st

LEMMA FollowsTail ==
    ASSUME NEW a \in Seq(Kinds), NEW s \in Seq(Packet), s # <<>>,
           NEW n \in Nat, Follows(s, n, a)
    PROVE  Follows(Tail(s), n + 1, a)
<1> DEFINE t == Tail(s)
<1>1. /\ Len(s) \in Nat
      /\ Len(t) = Len(s) - 1
      /\ \A k \in 1 .. Len(s) - 1 : t[k] = s[k + 1]
    BY HeadTailProperties
<1> HIDE DEF t
<1>2. ASSUME NEW k \in 1 .. Len(s) - 1
      PROVE  t[k].id = n + 1 + k /\ t[k].data = a[n + 1 + k]
    <2>1. k + 1 \in 1 .. Len(s) /\ n + (k + 1) = n + 1 + k
        BY <1>1
    <2> QED
        BY <1>1, <2>1 DEF Follows
<1>3. Follows(t, n + 1, a)
    BY <1>1, <1>2 DEF Follows
<1> QED
    BY <1>3 DEF t

\* A packet is sent.
LEMMA SentInLine ==
    ASSUME NEW a \in Seq(Kinds), NEW w \in Seq(Packet), NEW b \in Seq(Packet),
           NEW d \in Kinds, NEW p \in Packet, p.id = Len(a) + 1, p.data = d,
           InLine(a, w, b)
    PROVE  /\ InLine(Append(a, d), Append(w, p), b)
           /\ Rest(Append(a, d), Append(w, p), b) = Rest(a, w, b)
<1> DEFINE aa == Append(a, d)
           ww == Append(w, p)
<1>1. /\ Len(a) \in Nat /\ Len(w) \in Nat /\ Len(b) \in Nat
      /\ Len(aa) = Len(a) + 1
      /\ Len(ww) = Len(w) + 1
    OBVIOUS
<1>2. /\ Len(w) <= Len(a)
      /\ Rest(a, w, b) \in Nat
      /\ Rest(a, w, b) + Len(b) <= Len(a)
    BY <1>1 DEF InLine, Rest
<1>3. Follows(ww, Len(aa) - Len(ww), aa)
    BY <1>2, FollowsAppend DEF InLine
<1>4. Follows(b, Rest(a, w, b), aa)
    BY <1>2, FollowsSent DEF InLine
<1> HIDE DEF aa, ww
<1>5. Rest(aa, ww, b) = Rest(a, w, b)
    BY <1>1 DEF Rest
<1>6. InLine(aa, ww, b)
    BY <1>2, <1>3, <1>4, <1>5 DEF InLine
<1> QED
    BY <1>5, <1>6 DEF aa, ww

\* What is on the wire is received.
LEMMA ReadInLine ==
    ASSUME NEW a \in Seq(Kinds), NEW w \in Seq(Packet), NEW b \in Seq(Packet),
           InLine(a, w, b)
    PROVE  /\ InLine(a, <<>>, b \o w)
           /\ Rest(a, <<>>, b \o w) = Rest(a, w, b)
<1> DEFINE bw == b \o w
           e == <<>>
<1>1. /\ Len(a) \in Nat /\ Len(w) \in Nat /\ Len(b) \in Nat
      /\ Len(bw) = Len(b) + Len(w)
      /\ Len(e) = 0
    BY ConcatProperties
<1>2. Rest(a, w, b) \in Nat /\ Rest(a, w, b) + Len(b) = Len(a) - Len(w)
    BY <1>1 DEF InLine, Rest
<1>3. Follows(bw, Rest(a, w, b), a)
    BY <1>2, FollowsConcat DEF InLine
<1> HIDE DEF bw, e
<1>4. Rest(a, e, bw) = Rest(a, w, b)
    BY <1>1 DEF Rest
<1>5. Follows(e, Len(a) - Len(e), a)
    BY <1>1 DEF Follows
<1>6. InLine(a, e, bw)
    BY <1>2, <1>3, <1>4, <1>5 DEF InLine
<1> QED
    BY <1>4, <1>6 DEF bw, e

\* The connection is closed.
LEMMA ClosedInLine ==
    ASSUME NEW a \in Seq(Kinds), NEW w \in Seq(Packet), NEW b \in Seq(Packet)
    PROVE  /\ InLine(a, <<>>, <<>>)
           /\ Rest(a, <<>>, <<>>) >= Rest(a, w, b)
<1> DEFINE e == <<>>
<1>1. Len(a) \in Nat /\ Len(w) \in Nat /\ Len(b) \in Nat /\ Len(e) = 0
    OBVIOUS
<1> HIDE DEF e
<1>2. InLine(a, e, e)
    BY <1>1 DEF InLine, Rest, Follows
<1>3. Rest(a, e, e) >= Rest(a, w, b)
    BY <1>1 DEF Rest
<1> QED
    BY <1>2, <1>3 DEF e

\* A packet is framed: it is the next one sent.
LEMMA FramedInLine ==
    ASSUME NEW a \in Seq(Kinds), NEW w \in Seq(Packet), NEW b \in Seq(Packet),
           InLine(a, w, b), b # <<>>
    PROVE  /\ InLine(a, w, Tail(b))
           /\ Rest(a, w, Tail(b)) = Rest(a, w, b) + 1
           /\ Rest(a, w, b) + 1 \in DOMAIN a
           /\ Head(b) \in Packet
           /\ Head(b).id = Rest(a, w, b) + 1
           /\ Head(b).data = a[Rest(a, w, b) + 1]
<1> DEFINE t == Tail(b)
           h == Head(b)
<1>1. /\ Len(a) \in Nat /\ Len(w) \in Nat /\ Len(b) \in Nat \ {0}
      /\ Len(t) = Len(b) - 1
      /\ h = b[1]
      /\ h \in Packet
      /\ DOMAIN a = 1 .. Len(a)
    BY HeadTailProperties
<1>2. Rest(a, w, b) \in Nat /\ Rest(a, w, b) + 1 <= Len(a)
    BY <1>1 DEF InLine, Rest
<1>3. Follows(t, Rest(a, w, b) + 1, a)
    BY <1>2, FollowsTail DEF InLine
<1> HIDE DEF t, h
<1>4. Rest(a, w, t) = Rest(a, w, b) + 1
    BY <1>1 DEF Rest
<1>5. InLine(a, w, t)
    BY <1>2, <1>3, <1>4 DEF InLine
<1>6. h.id = Rest(a, w, b) + 1 /\ h.data = a[Rest(a, w, b) + 1]
    BY <1>1 DEF InLine, Follows
<1>7. Rest(a, w, b) + 1 \in DOMAIN a
    BY <1>1, <1>2
<1> QED
    BY <1>1, <1>4, <1>5, <1>6, <1>7 DEF t, h

(***************************************************************************)
(* What a step may do to the packets of a connection: what was asked stays,*)
(* and packets are framed one by one, or cleared when it is closed.        *)
(***************************************************************************)
Grows(c) ==
    /\ PacketsOf(c)'
    /\ Framed(c) \in Int /\ Framed(c)' \in Int
    /\ Framed(c)' >= Framed(c)
    /\ \A i \in Nat \ {0} : i <= Framed(c) => i \in DOMAIN asked[c]
    /\ peer'[c] = "up" => peer[c] = "up"
    /\ \A i \in DOMAIN asked[c] : i \in DOMAIN asked'[c] /\ asked'[c][i] = asked[c][i]
    /\ conn'[c] = "handled" =>
          /\ conn[c] = "handled" \/ Framed(c)' = 0
          /\ \/ Framed(c)' = Framed(c)
             \/ FramePacket /\ ioConn = c

LEMMA RestInt ==
    ASSUME NEW a \in Seq(Kinds), NEW w \in Seq(Packet), NEW b \in Seq(Packet)
    PROVE  Rest(a, w, b) \in Int
<1>1. Len(a) \in Nat /\ Len(w) \in Nat /\ Len(b) \in Nat
    OBVIOUS
<1> QED
    BY <1>1 DEF Rest

LEMMA ConnTypes ==
    ASSUME TypeOK, NEW c \in Conns
    PROVE  /\ asked[c] \in Seq(Kinds)
           /\ wire[c] \in Seq(Packet)
           /\ inBuffer[c] \in Seq(Packet)
           /\ conn[c] \in ConnStates
           /\ Framed(c) \in Int
<1>1. /\ asked[c] \in Seq(Kinds)
      /\ wire[c] \in Seq(Packet)
      /\ inBuffer[c] \in Seq(Packet)
      /\ conn[c] \in ConnStates
    BY DEF TypeOK
<1> QED
    BY <1>1, RestInt DEF Framed

LEMMA FramedAsked ==
    ASSUME TypeOK, NEW c \in Conns
    PROVE  \A i \in Nat \ {0} : i <= Framed(c) => i \in DOMAIN asked[c]
<1>1. ASSUME NEW a \in Seq(Kinds), NEW w \in Seq(Packet), NEW b \in Seq(Packet)
      PROVE  \A i \in Nat \ {0} : i <= Rest(a, w, b) => i \in DOMAIN a
    <2>1. Len(a) \in Nat /\ Len(w) \in Nat /\ Len(b) \in Nat /\ DOMAIN a = 1 .. Len(a)
        OBVIOUS
    <2> QED
        BY <2>1 DEF Rest
<1> QED
    BY <1>1, ConnTypes DEF Framed

LEMMA SameGrows ==
    ASSUME TypeOK, NEW c \in Conns, PacketsOf(c),
           asked'[c] = asked[c], wire'[c] = wire[c], inBuffer'[c] = inBuffer[c],
           peer'[c] = "up" => peer[c] = "up",
           \/ conn'[c] = conn[c]
           \/ conn'[c] = "backlog" /\ conn[c] = "none"
           \/ conn'[c] = "handled" /\ conn[c] = "backlog"
    PROVE  Grows(c)
<1>1. Framed(c)' = Framed(c) /\ Framed(c) \in Int
    BY ConnTypes DEF Framed
<1>2. PacketsOf(c)'
    BY <1>1 DEF PacketsOf
<1>3. conn'[c] = "handled" => conn[c] = "handled" \/ Framed(c) = 0
    BY DEF PacketsOf
<1> QED
    BY <1>1, <1>2, <1>3, FramedAsked DEF Grows

LEMMA SendPacketGrows ==
    ASSUME TypeOK, NEW c \in Conns, PacketsOf(c), NEW kind \in Sends,
           SendPacket(c, kind)
    PROVE  Grows(c)
<1> DEFINE p == [id |-> Len(asked[c]) + 1, data |-> kind]
<1>1. /\ asked'[c] = Append(asked[c], kind)
      /\ wire'[c] = Append(wire[c], p)
      /\ inBuffer'[c] = inBuffer[c]
      /\ UNCHANGED <<conn, peer>>
      /\ conn[c] \notin {"none"}
    BY DEF SendPacket, TypeOK
<1>2. kind \in Kinds /\ p \in Packet
    BY PipelineAssumption DEF SendPacket, Packet, TypeOK
<1>3. p.id = Len(asked[c]) + 1 /\ p.data = kind
    OBVIOUS
<1> HIDE DEF p
<1>4. /\ InLine(asked'[c], wire'[c], inBuffer'[c])
      /\ Framed(c)' = Framed(c)
    BY <1>1, <1>2, <1>3, ConnTypes, SentInLine DEF Framed, PacketsOf
<1>5. PacketsOf(c)'
    BY <1>1, <1>4 DEF PacketsOf
<1>6. \A i \in DOMAIN asked[c] : i \in DOMAIN asked'[c] /\ asked'[c][i] = asked[c][i]
    BY <1>1, <1>2, ConnTypes
<1>7. Framed(c) \in Int
    BY ConnTypes
<1> QED
    BY <1>1, <1>4, <1>5, <1>6, <1>7, FramedAsked DEF Grows

LEMMA OnReadGrows ==
    ASSUME TypeOK, NEW c \in Conns, PacketsOf(c), OnRead(c)
    PROVE  Grows(c)
<1>1. /\ inBuffer'[c] = inBuffer[c] \o wire[c]
      /\ wire'[c] = <<>>
      /\ UNCHANGED <<asked, conn, peer>>
      /\ conn[c] = "handled"
    BY DEF OnRead, TypeOK, clientVars, handlerMap
<1>2. /\ InLine(asked'[c], wire'[c], inBuffer'[c])
      /\ Framed(c)' = Framed(c)
    BY <1>1, ConnTypes, ReadInLine DEF Framed, PacketsOf
<1>3. PacketsOf(c)'
    BY <1>1, <1>2 DEF PacketsOf
<1>4. Framed(c) \in Int
    BY ConnTypes
<1> QED
    BY <1>1, <1>2, <1>3, <1>4, FramedAsked DEF Grows

LEMMA ClosedGrows ==
    ASSUME TypeOK, NEW c \in Conns, asked'[c] = asked[c], peer' = peer,
           wire'[c] = <<>>, inBuffer'[c] = <<>>, conn'[c] = "closed"
    PROVE  Grows(c)
<1>1. /\ InLine(asked'[c], wire'[c], inBuffer'[c])
      /\ Framed(c)' >= Framed(c)
    BY ConnTypes, ClosedInLine DEF Framed
<1>2. Framed(c)' \in Int
    <2>1. <<>> \in Seq(Packet)
        OBVIOUS
    <2> QED
        BY <2>1, ConnTypes, RestInt DEF Framed
<1>3. PacketsOf(c)'
    BY <1>1 DEF PacketsOf
<1> QED
    BY <1>1, <1>2, <1>3, ConnTypes, FramedAsked DEF Grows

LEMMA ShutdownGrows ==
    ASSUME TypeOK, NEW c \in Conns, PacketsOf(c), NEW d \in Conns, Shutdown(d),
           asked' = asked, peer' = peer
    PROVE  Grows(c)
<1>1. CASE c = d
    BY <1>1, ClosedGrows DEF Shutdown, TypeOK
<1>2. CASE c # d
    BY <1>2, SameGrows DEF Shutdown, TypeOK
<1> QED
    BY <1>1, <1>2

(***************************************************************************)
(* A packet that is framed becomes the next request in order.              *)
(***************************************************************************)
LEMMA FramedInOrder ==
    ASSUME TypeOK, PacketInv, FramePacket, Head(inBuffer[ioConn]).data # "zero"
    PROVE  \E c \in Conns :
              /\ ioConn = c
              /\ Framed(c) + 1 \in 1 .. MaxReq
              /\ Framed(c) + 1 \in DOMAIN asked[c]
              /\ EnqueueRequest([conn |-> c, id |-> Framed(c) + 1,
                                 data |-> asked[c][Framed(c) + 1]])
              /\ Framed(c)' = Framed(c) + 1
              /\ UNCHANGED <<conn, asked, peer>>
              /\ \A d \in Conns : Grows(d)
<1>1. PICK c \in Conns : ioConn = c /\ inBuffer[c] # <<>>
    BY DEF FramePacket, Framable, TypeOK
<1> DEFINE p == Head(inBuffer[c])
<1>2. PacketsOf(c)
    BY <1>1 DEF PacketInv
<1>3. /\ EnqueueRequest([conn |-> c, id |-> p.id, data |-> p.data])
      /\ inBuffer' = [inBuffer EXCEPT ![c] = Tail(inBuffer[c])]
      /\ UNCHANGED <<conn, wire, asked, peer>>
    BY <1>1 DEF FramePacket, Drained, clientVars
<1>4. inBuffer'[c] = Tail(inBuffer[c])
    BY <1>1, <1>3 DEF TypeOK
<1>5. /\ InLine(asked'[c], wire'[c], inBuffer'[c])
      /\ Framed(c)' = Framed(c) + 1
      /\ Framed(c) + 1 \in DOMAIN asked[c]
      /\ p \in Packet
      /\ p.id = Framed(c) + 1
      /\ p.data = asked[c][Framed(c) + 1]
    <2>1. /\ asked[c] \in Seq(Kinds)
          /\ wire[c] \in Seq(Packet)
          /\ inBuffer[c] \in Seq(Packet)
        BY <1>1, ConnTypes
    <2>2. InLine(asked[c], wire[c], inBuffer[c])
        BY <1>2 DEF PacketsOf
    <2>3. /\ asked'[c] = asked[c]
          /\ wire'[c] = wire[c]
        BY <1>3
    <2> QED
        BY <1>1, <1>4, <2>1, <2>2, <2>3, FramedInLine DEF Framed
<1>6. Framed(c) + 1 \in 1 .. MaxReq
    BY <1>5 DEF Packet
<1>7. conn[c] = "handled"
    BY <1>1, <1>2 DEF PacketsOf
<1>8. PacketsOf(c)'
    BY <1>3, <1>5, <1>7 DEF PacketsOf
<1>9. Framed(c) \in Int
    BY <1>1, ConnTypes
<1>10. conn'[c] = "handled" => conn[c] = "handled"
    BY <1>3
<1>11. Grows(c)
    BY <1>1, <1>3, <1>5, <1>8, <1>9, <1>10, FramedAsked DEF Grows
<1>12. ASSUME NEW d \in Conns, d # c
       PROVE  Grows(d)
    <2>1. inBuffer'[d] = inBuffer[d]
        BY <1>3, <1>12 DEF TypeOK
    <2>2. PacketsOf(d)
        BY DEF PacketInv
    <2> QED
        BY <1>3, <2>1, <2>2, SameGrows
<1> QED
    BY <1>1, <1>3, <1>5, <1>6, <1>11, <1>12

LEMMA PacketStep ==
    ASSUME TypeOK, PacketInv, [Next]_vars
    PROVE  \A c \in Conns : Grows(c)
<1> SUFFICES ASSUME NEW c \in Conns
             PROVE  Grows(c)
    OBVIOUS
<1>0. PacketsOf(c)
    BY DEF PacketInv
<1> USE DEF clientVars, socketVars
<1>1. ASSUME UNCHANGED <<asked, wire, inBuffer, conn>>, peer'[c] = "up" => peer[c] = "up"
      PROVE  Grows(c)
    BY <1>0, <1>1, SameGrows
<1>2. ASSUME NEW d \in Conns, Connect(d) \/ OnAcceptor(d)
      PROVE  Grows(c)
    BY <1>0, <1>2, SameGrows DEF Connect, OnAcceptor, TypeOK
<1>3. ASSUME NEW d \in Conns, NEW kind \in Sends, SendPacket(d, kind)
      PROVE  Grows(c)
    <2>1. CASE c = d
        BY <1>0, <1>3, <2>1, SendPacketGrows
    <2>2. CASE c # d
        BY <1>0, <1>3, <2>2, SameGrows DEF SendPacket, TypeOK
    <2> QED
        BY <2>1, <2>2
<1>4. ASSUME NEW d \in Conns, OnRead(d)
      PROVE  Grows(c)
    <2>1. CASE c = d
        BY <1>0, <1>4, <2>1, OnReadGrows
    <2>2. CASE c # d
        BY <1>0, <1>4, <2>2, SameGrows DEF OnRead, TypeOK
    <2> QED
        BY <2>1, <2>2
<1>5. ASSUME NEW d \in Conns, OnReadClosed(d)
      PROVE  Grows(c)
    BY <1>0, <1>5, ShutdownGrows DEF OnReadClosed
<1>6. CASE OnShutDown
    <2>1. CASE conn[c] = "handled"
        BY <1>6, <2>1, ClosedGrows DEF OnShutDown, handlerMap
    <2>2. CASE conn[c] # "handled" /\ inBuffer[c] = <<>>
        BY <1>0, <1>6, <2>2, SameGrows DEF OnShutDown, handlerMap
    <2>3. CASE conn[c] # "handled" /\ inBuffer[c] # <<>>
        BY <1>0, <1>6, <2>3, ConnTypes DEF OnShutDown, handlerMap, PacketsOf, ConnStates
    <2> QED
        BY <2>1, <2>2, <2>3
<1>7. CASE FramePacket
    <2>1. CASE Head(inBuffer[ioConn]).data = "zero"
        <3>1. ioConn \in Conns /\ Shutdown(ioConn) /\ UNCHANGED <<asked, peer>>
            BY <1>7, <2>1 DEF FramePacket, TypeOK
        <3> QED
            BY <1>0, <3>1, ShutdownGrows
    <2>2. CASE Head(inBuffer[ioConn]).data # "zero"
        BY <1>7, <2>2, FramedInOrder
    <2> QED
        BY <2>1, <2>2
<1>8. CASE DequeueResponse
    <2>1. UNCHANGED <<asked, peer>>
        BY <1>8 DEF DequeueResponse
    <2>2. Head(responseQueue).conn \in Conns
        <3>1. Head(responseQueue) \in TaskNotification
            BY <1>8 DEF DequeueResponse, TypeOK
        <3> QED
            BY <3>1 DEF TaskNotification
    <2>3. CASE Shutdown(Head(responseQueue).conn)
        BY <1>0, <2>1, <2>2, <2>3, ShutdownGrows
    <2>4. CASE UNCHANGED <<conn, wire, inBuffer>>
        BY <1>1, <2>1, <2>4
    <2> QED
        BY <1>8, <2>3, <2>4 DEF DequeueResponse
<1>9. CASE Handler
    BY <1>1, <1>7, <1>8, <1>9
    DEF Handler, FrameEnd, DrainEmpty, DrainNonEmpty, SendBytes
<1>10. CASE Reactor
    BY <1>1, <1>2, <1>4, <1>5, <1>6, <1>10 DEF Reactor, OnNotify
<1>11. ASSUME NEW d \in Conns, Client(d)
       PROVE  Grows(c)
    BY <1>1, <1>2, <1>3, <1>11 DEF Client, ReadResponse, Leave, TypeOK
<1>12. ASSUME NEW w \in Workers, Worker(w)
       PROVE  Grows(c)
    BY <1>1, <1>12
    DEF Worker, CheckCancelled, WaitDequeue, WakeUp, Process, EnqueueResponse, Notify
<1>13. CASE Stop
    BY <1>1, <1>13
    DEF Stop, CloseNotify, StopReactor, JoinIo, CancelAll, WakeUpAll, JoinAll
<1>14. CASE UNCHANGED vars
    BY <1>1, <1>14 DEF vars
<1> QED
    BY <1>9, <1>10, <1>11, <1>12, <1>13, <1>14 DEF Next

------------------------------------------------------------------------------
(* Queues, hands and places *)

LEMMA QueueAppend ==
    ASSUME NEW q \in Seq(TaskNotification), NEW n \in TaskNotification, NEW c \in Conns, NEW i \in Nat
    PROVE  /\ InQueue(q, c, i) \subseteq 1 .. Len(q)
           /\ InQueue(Append(q, n), c, i) =
                 InQueue(q, c, i) \cup {k \in {Len(q) + 1} : IsRequest(n, c, i)}
<1> DEFINE qn == Append(q, n)
<1>1. /\ Len(q) \in Nat
      /\ DOMAIN q = 1 .. Len(q)
      /\ DOMAIN qn = 1 .. Len(q) + 1
      /\ \A k \in 1 .. Len(q) : qn[k] = q[k]
      /\ qn[Len(q) + 1] = n
    OBVIOUS
<1> HIDE DEF qn
<1>2. InQueue(qn, c, i) =
         InQueue(q, c, i) \cup {k \in {Len(q) + 1} : IsRequest(n, c, i)}
    BY <1>1 DEF InQueue
<1> QED
    BY <1>1, <1>2 DEF qn, InQueue

LEMMA QueueTail ==
    ASSUME NEW q \in Seq(TaskNotification), q # <<>>, NEW c \in Conns, NEW i \in Nat
    PROVE  /\ InQueue(q, c, i) \subseteq Nat \ {0}
           /\ 1 \in InQueue(q, c, i) <=> IsRequest(Head(q), c, i)
           /\ InQueue(Tail(q), c, i) = {k \in Nat \ {0} : k + 1 \in InQueue(q, c, i)}
<1> DEFINE t == Tail(q)
           h == Head(q)
<1>1. /\ Len(q) \in Nat \ {0}
      /\ DOMAIN q = 1 .. Len(q)
      /\ DOMAIN t = 1 .. Len(q) - 1
      /\ \A k \in 1 .. Len(q) - 1 : t[k] = q[k + 1]
      /\ h = q[1]
    BY HeadTailProperties
<1> HIDE DEF t, h
<1>2. InQueue(t, c, i) = {k \in Nat \ {0} : k + 1 \in InQueue(q, c, i)}
    <2>1. ASSUME NEW k \in Nat \ {0}
          PROVE  k \in DOMAIN t <=> k + 1 \in DOMAIN q
        BY <1>1
    <2>2. \A k \in DOMAIN t : k \in Nat \ {0} /\ t[k] = q[k + 1]
        BY <1>1
    <2> QED
        BY <2>1, <2>2 DEF InQueue
<1>3. 1 \in InQueue(q, c, i) <=> IsRequest(h, c, i)
    BY <1>1 DEF InQueue
<1>4. InQueue(q, c, i) \subseteq Nat \ {0}
    BY <1>1 DEF InQueue
<1> QED
    BY <1>2, <1>3, <1>4 DEF t, h

LEMMA GotAppend ==
    ASSUME NEW s \in Seq(1 .. MaxReq), NEW id \in 1 .. MaxReq, NEW i \in Nat
    PROVE  /\ InGot(s, i) \subseteq 1 .. Len(s)
           /\ InGot(Append(s, id), i) = InGot(s, i) \cup {k \in {Len(s) + 1} : id = i}
<1> DEFINE sn == Append(s, id)
<1>1. /\ Len(s) \in Nat
      /\ DOMAIN s = 1 .. Len(s)
      /\ DOMAIN sn = 1 .. Len(s) + 1
      /\ \A k \in 1 .. Len(s) : sn[k] = s[k]
      /\ sn[Len(s) + 1] = id
    OBVIOUS
<1> HIDE DEF sn
<1>2. InGot(sn, i) = InGot(s, i) \cup {k \in {Len(s) + 1} : id = i}
    BY <1>1 DEF InGot
<1> QED
    BY <1>1, <1>2 DEF sn, InGot

(***************************************************************************)
(* How the five places of one request may change: it is dropped, comes into*)
(* the queue or into the hands of a sleeper, or moves from one place to the*)
(* next.                                                                   *)
(***************************************************************************)
LEMMA LoneDropped ==
    ASSUME NEW R, NEW W, NEW P, NEW S, NEW G, Lone(R, W, P, S, G),
           NEW W2 \in SUBSET W, NEW P2 \in SUBSET P, NEW S2 \in SUBSET S
    PROVE  Lone(R, W2, P2, S2, G)
BY DEF Lone, AtMostOne

LEMMA LoneArrives ==
    ASSUME NEW x
    PROVE  Lone({x}, {}, {}, {}, {}) /\ Lone({}, {x}, {}, {}, {})
BY DEF Lone, AtMostOne

LEMMA LoneTaken ==
    ASSUME NEW R \in SUBSET (Nat \ {0}), NEW W, NEW P, NEW S, NEW G,
           Lone(R, W, P, S, G), NEW w,
           NEW R2 \in SUBSET (Nat \ {0}), \A k \in R2 : k + 1 \in R,
           NEW W2,
           (1 \notin R /\ W2 = W) \/ (1 \in R /\ W2 = W \cup {w})
    PROVE  Lone(R2, W2, P, S, G)
<1>1. AtMostOne(R2)
    <2>1. \A p, q \in R : p = q
        BY DEF Lone, AtMostOne
    <2>2. \A p, q \in R2 : p + 1 = q + 1
        BY <2>1
    <2>3. \A p, q \in R2 : p \in Nat /\ q \in Nat
        OBVIOUS
    <2> QED
        BY <2>2, <2>3 DEF AtMostOne
<1>2. ASSUME NEW k \in R2
      PROVE  R # {} /\ 1 \notin R
    <2>1. k + 1 # 1 /\ k + 1 \in R
        OBVIOUS
    <2> QED
        BY <2>1 DEF Lone, AtMostOne
<1>3. CASE 1 \in R
    <2>1. R2 = {} /\ W = {} /\ P = {} /\ S = {} /\ G = {}
        BY <1>2, <1>3 DEF Lone
    <2>2. W2 = {w}
        BY <1>3, <2>1
    <2> QED
        BY <2>1, <2>2 DEF Lone, AtMostOne
<1>4. CASE 1 \notin R
    <2>1. W2 = W
        BY <1>4
    <2> QED
        BY <1>1, <1>2, <2>1 DEF Lone
<1> QED
    BY <1>3, <1>4

LEMMA LoneAnswered ==
    ASSUME NEW R, NEW W, NEW P, NEW S, NEW G, Lone(R, W, P, S, G), NEW w, NEW x,
           NEW W2, NEW P2,
           \/ (w \notin W /\ W2 = W /\ P2 = P)
           \/ (w \in W /\ W2 = W \ {w} /\ P2 = P \cup {x})
    PROVE  Lone(R, W2, P2, S, G)
<1>1. CASE w \in W
    <2>1. W \ {w} = {} /\ R = {} /\ P = {} /\ S = {} /\ G = {}
        BY <1>1 DEF Lone, AtMostOne
    <2>2. W2 = {} /\ P2 = {x}
        BY <1>1, <2>1
    <2> QED
        BY <2>1, <2>2 DEF Lone, AtMostOne
<1> QED
    BY <1>1

LEMMA LoneDequeued ==
    ASSUME NEW R, NEW W, NEW P \in SUBSET (Nat \ {0}), NEW G, Lone(R, W, P, {}, G),
           NEW P2 \in SUBSET (Nat \ {0}), \A k \in P2 : k + 1 \in P,
           NEW S2, S2 = {} \/ (S2 = {1} /\ 1 \in P)
    PROVE  Lone(R, W, P2, S2, G)
<1>1. AtMostOne(P2)
    <2>1. \A p, q \in P : p = q
        BY DEF Lone, AtMostOne
    <2>2. \A p, q \in P2 : p + 1 = q + 1
        BY <2>1
    <2>3. \A p, q \in P2 : p \in Nat /\ q \in Nat
        OBVIOUS
    <2> QED
        BY <2>2, <2>3 DEF AtMostOne
<1>2. ASSUME NEW k \in P2
      PROVE  P # {} /\ 1 \notin P
    <2>1. k + 1 # 1 /\ k + 1 \in P
        OBVIOUS
    <2> QED
        BY <2>1 DEF Lone, AtMostOne
<1>3. AtMostOne(S2)
    BY DEF AtMostOne
<1> QED
    BY <1>1, <1>2, <1>3 DEF Lone

LEMMA LoneSent ==
    ASSUME NEW R, NEW W, NEW P, NEW S, NEW G, Lone(R, W, P, S, G), NEW x,
           NEW G2, G2 = G \/ (S # {} /\ G2 = G \cup {x})
    PROVE  Lone(R, W, P, {}, G2)
<1>1. CASE S # {} /\ G2 = G \cup {x}
    <2>1. G2 = {x} /\ R = {} /\ W = {} /\ P = {}
        BY <1>1 DEF Lone
    <2> QED
        BY <2>1 DEF Lone, AtMostOne
<1>2. CASE G2 = G
    BY <1>2 DEF Lone, AtMostOne
<1> QED
    BY <1>1, <1>2

------------------------------------------------------------------------------
(* What the notifications hold *)

LEMMA SentStays ==
    ASSUME NEW n \in TaskNotification, \A c \in Conns : Grows(c)
    PROVE  /\ AsSent(n, asked) => AsSent(n, asked')
           /\ Answering(n, asked) => Answering(n, asked')
<1>1. n.conn \in Conns
    BY DEF TaskNotification
<1>2. \A i \in DOMAIN asked[n.conn] :
          i \in DOMAIN asked'[n.conn] /\ asked'[n.conn][i] = asked[n.conn][i]
    BY <1>1 DEF Grows
<1> QED
    BY <1>2 DEF AsSent, Answering

\* Of the notifications only those that a step puts somewhere need be looked at.
LEMMA DataStays ==
    ASSUME TypeOK, DataInv, \A c \in Conns : Grows(c),
           \A k \in DOMAIN requestQueue' :
              \/ \E j \in DOMAIN requestQueue : requestQueue'[k] = requestQueue[j]
              \/ AsSent(requestQueue'[k], asked'),
           \A w \in Workers :
              \/ nf'[w] = nf[w] /\ wpc'[w] = wpc[w]
              \/ nf'[w] = NULL
              \/ wpc'[w] \in {"waiting", "working"} /\ AsSent(nf'[w], asked')
              \/ wpc'[w] = "respond" /\ Answering(nf'[w], asked'),
           \A k \in DOMAIN responseQueue' :
              \/ \E j \in DOMAIN responseQueue : responseQueue'[k] = responseQueue[j]
              \/ Answering(responseQueue'[k], asked'),
           io' # "sending" => ioNf' = NULL
    PROVE  DataInv'
<1>1. ASSUME NEW k \in DOMAIN requestQueue'
      PROVE  AsSent(requestQueue'[k], asked')
    <2>1. ASSUME NEW j \in DOMAIN requestQueue
          PROVE  AsSent(requestQueue[j], asked')
        <3>1. requestQueue[j] \in TaskNotification
            BY DEF TypeOK
        <3> QED
            BY <3>1, SentStays DEF DataInv
    <2> QED
        BY <2>1
<1>2. ASSUME NEW k \in DOMAIN responseQueue'
      PROVE  Answering(responseQueue'[k], asked')
    <2>1. ASSUME NEW j \in DOMAIN responseQueue
          PROVE  Answering(responseQueue[j], asked')
        <3>1. responseQueue[j] \in TaskNotification
            BY DEF TypeOK
        <3> QED
            BY <3>1, SentStays DEF DataInv
    <2> QED
        BY <2>1
<1>3. ASSUME NEW w \in Workers, nf'[w] # NULL
      PROVE  /\ wpc'[w] \in {"waiting", "working"} => AsSent(nf'[w], asked')
             /\ wpc'[w] = "respond" => Answering(nf'[w], asked')
    <2>1. CASE nf'[w] = nf[w] /\ wpc'[w] = wpc[w]
        <3>1. nf[w] \in TaskNotification
            BY <1>3, <2>1 DEF TypeOK
        <3> QED
            BY <1>3, <2>1, <3>1, SentStays DEF DataInv
    <2> QED
        BY <1>3, <2>1
<1> QED
    BY <1>1, <1>2, <1>3 DEF DataInv

------------------------------------------------------------------------------
(* Steps that bring no new request *)

LEMMA Onward ==
    ASSUME TypeOK', PlaceInv, KeptInv,
           \A c \in Conns : Grows(c),
           \A c \in Conns : conn'[c] = "handled" => Framed(c)' = Framed(c),
           requestQueue' = requestQueue,
           \A c \in Conns, i \in 1 .. MaxReq : Alone(c, i)',
           \A c \in Conns, i \in Nat : Taken(c, i)' => Taken(c, i),
           \A c \in Conns : \A i \in DOMAIN asked[c] :
               /\ Taken(c, i)
               /\ asked[c][i] = "known"
               /\ conn'[c] = "handled"
               /\ peer'[c] = "up"
               => Taken(c, i)'
    PROVE  PlaceInv' /\ KeptInv'
<1>1. \A c \in Conns, i \in Nat : Waits(c, i)' = Waits(c, i)
    BY DEF Waits
<1>2. ASSUME NEW c \in Conns, NEW i \in 1 .. MaxReq
      PROVE  /\ Held(c, i)' => i <= Framed(c)'
             /\ Behind(c, i)'
    <2>1. Held(c, i)' => Held(c, i)
        BY <1>1 DEF Held
    <2>2. Framed(c) \in Int /\ Framed(c)' \in Int /\ Framed(c)' >= Framed(c)
        BY DEF Grows
    <2>3. Held(c, i) => i <= Framed(c)
        BY DEF PlaceInv
    <2>4. i <= Framed(c) => i <= Framed(c)'
        BY <2>2
    <2>5. Behind(c, i)
        BY DEF PlaceInv
    <2>6. \A j \in (i + 1) .. MaxReq : j \in Nat
        OBVIOUS
    <2>7. Behind(c, i)'
        BY <1>1, <2>5, <2>6 DEF Behind
    <2> QED
        BY <2>1, <2>3, <2>4, <2>7
<1>3. PlaceInv'
    BY <1>2 DEF PlaceInv
<1>4. ASSUME NEW c \in Conns, NEW i \in DOMAIN asked'[c],
             asked'[c][i] = "known", conn'[c] = "handled", peer'[c] = "up",
             i <= Framed(c)'
      PROVE  Held(c, i)'
    <2>1. /\ i \in Nat \ {0}
          /\ Framed(c)' = Framed(c)
          /\ Framed(c)' \in Int
        BY <1>4 DEF TypeOK, Grows
    <2>2. /\ conn[c] = "handled"
          /\ peer[c] = "up"
          /\ i \in DOMAIN asked[c]
          /\ asked[c][i] = "known"
          /\ i <= Framed(c)
        BY <1>4, <2>1 DEF Grows
    <2>3. Held(c, i)
        BY <2>2 DEF KeptInv
    <2> QED
        BY <1>1, <1>4, <2>1, <2>2, <2>3 DEF Held
<1> QED
    BY <1>3, <1>4 DEF KeptInv

\* Nothing is framed, but for a connection that is closed.
Still(c) ==
    /\ Grows(c)
    /\ conn'[c] = "handled" => Framed(c)' = Framed(c)

\* What a step has to keep, beside the packets.
PlacesKept == PlaceInv /\ KeptInv /\ DataInv

------------------------------------------------------------------------------
(* The requests in flight: framed, neither answered nor dropped *)

Flying(c, i) ==
    Waits(c, i) # {} \/ Worked(c, i) # {} \/ Responds(c, i) # {} \/ Sent(c, i) # {}

Done(c, i) == Had(c, i) # {}

\* What a step may do to the requests in flight.
SameFlight ==
    \A c \in Conns, i \in 1 .. MaxReq :
        (Flying(c, i)' <=> Flying(c, i)) /\ (Done(c, i)' <=> Done(c, i))

OneRises(d, j) ==
    \A c \in Conns, i \in 1 .. MaxReq :
        /\ Flying(c, i)' <=> Flying(c, i) \/ (c = d /\ i = j)
        /\ Done(c, i)' <=> Done(c, i)

OneDropped(d, j) ==
    /\ Flying(d, j)
    /\ \A c \in Conns, i \in 1 .. MaxReq :
          /\ Flying(c, i)' <=> Flying(c, i) /\ ~(c = d /\ i = j)
          /\ Done(c, i)' <=> Done(c, i)

OneAnswered(d, j) ==
    /\ Flying(d, j)
    /\ \A c \in Conns, i \in 1 .. MaxReq :
          /\ Flying(c, i)' <=> Flying(c, i) /\ ~(c = d /\ i = j)
          /\ Done(c, i)' <=> Done(c, i) \/ (c = d /\ i = j)

------------------------------------------------------------------------------
(* What each step does to the places *)

placeVars == <<requestQueue, nf, responseQueue, ioNf, got>>

LEMMA NothingMoves ==
    ASSUME OwnInv, TypeOK', \A c \in Conns : Still(c), UNCHANGED placeVars,
           \A w \in Workers : \/ wpc'[w] = wpc[w]
                              \/ nf[w] = NULL
                              \/ wpc[w] = "waiting" /\ wpc'[w] = "working",
           io' = io \/ io # "sending"
    PROVE  PlacesKept' /\ SameFlight
<1>1. TypeOK /\ PlaceInv /\ KeptInv /\ DataInv
    BY DEF OwnInv, IInv
<1>2. UNCHANGED <<requestQueue, nf, responseQueue, ioNf, got>>
    BY DEF placeVars
<1>3. \A c \in Conns : Grows(c)
    BY DEF Still
<1>4. \A c \in Conns, i \in Nat : Alone(c, i)' = Alone(c, i) /\ Taken(c, i)' = Taken(c, i)
    BY <1>2 DEF Alone, Taken, Waits, Worked, Responds, Sent, Had
<1>5. \A i \in 1 .. MaxReq : i \in Nat
    OBVIOUS
<1>6. \A c \in Conns : \A i \in DOMAIN asked[c] : i \in Nat
    BY <1>1 DEF TypeOK
<1>7. PlaceInv' /\ KeptInv'
    BY <1>1, <1>2, <1>3, <1>4, <1>5, <1>6, Onward DEF Still, PlaceInv
<1>8. DataInv'
    <2>1. ASSUME NEW w \in Workers
          PROVE  \/ nf'[w] = nf[w] /\ wpc'[w] = wpc[w]
                 \/ nf'[w] = NULL
                 \/ wpc'[w] \in {"waiting", "working"} /\ AsSent(nf'[w], asked')
        <3>1. CASE nf[w] # NULL /\ wpc[w] = "waiting" /\ wpc'[w] = "working"
            <4>1. AsSent(nf[w], asked) /\ nf[w] \in TaskNotification
                BY <1>1, <3>1 DEF DataInv, TypeOK
            <4> QED
                BY <1>2, <1>3, <3>1, <4>1, SentStays
        <3> QED
            BY <1>2, <3>1
    <2>2. io' # "sending" => ioNf' = NULL
        BY <1>1, <1>2 DEF DataInv
    <2> QED
        BY <1>1, <1>2, <1>3, <2>1, <2>2, DataStays
<1>9. SameFlight
    BY <1>2 DEF SameFlight, Flying, Done, Waits, Worked, Responds, Sent, Had
<1> QED
    BY <1>7, <1>8, <1>9 DEF PlacesKept

\* The notification a thread holds is of a request.
LEMMA HeldType ==
    ASSUME TypeOK, NEW n \in TaskNotification
    PROVE  /\ n # NULL
           /\ n.conn \in Conns
           /\ n.id \in 1 .. MaxReq
BY PipelineAssumption DEF TaskNotification

LEMMA ProcessPlaces ==
    ASSUME OwnInv, TypeOK', \A c \in Conns : Still(c), NEW w \in Workers, Process(w)
    PROVE  /\ PlacesKept'
           /\ SameFlight \/ \E d \in Conns, j \in 1 .. MaxReq : OneDropped(d, j)
<1>1. TypeOK /\ PlaceInv /\ KeptInv /\ DataInv /\ WorkersHold
    BY DEF OwnInv, IInv, QueueInv
<1>2. /\ wpc[w] = "working"
      /\ UNCHANGED <<requestQueue, responseQueue, ioNf, got, io>>
      /\ nf[w] \in TaskNotification
      /\ nf \in [Workers -> TaskNotification \cup {NULL}]
      /\ wpc \in [Workers -> WorkStates]
    BY <1>1 DEF Process, WorkersHold, TypeOK, ioVars, queueVars
<1>3. \A c \in Conns : Grows(c)
    BY DEF Still
<1>4. AsSent(nf[w], asked)
    BY <1>1, <1>2 DEF DataInv, WorkersHold
<1>5. PICK n \in TaskNotification \cup {NULL} :
               /\ nf' = [nf EXCEPT ![w] = n]
               /\ \/ /\ wpc' = [wpc EXCEPT ![w] = "respond"]
                     /\ n \in TaskNotification
                     /\ n.conn = nf[w].conn /\ n.id = nf[w].id
                     /\ nf[w].data = "known" => n.data # "empty"
                  \/ /\ wpc' = [wpc EXCEPT ![w] = "check"]
                     /\ n = NULL
                     /\ nf[w].data = "unknown"
    <2>1. CASE nf[w].data = "known"
        <3> DEFINE n == [nf[w] EXCEPT !.data = "reply"]
        <3>1. n \in TaskNotification /\ n.conn = nf[w].conn /\ n.id = nf[w].id /\ n.data = "reply"
            BY <1>2 DEF TaskNotification, Data
        <3>2. nf' = [nf EXCEPT ![w] = n] /\ wpc' = [wpc EXCEPT ![w] = "respond"]
            BY <1>2, <2>1 DEF Process
        <3> QED
            BY <3>1, <3>2
    <2>2. CASE nf[w].data = "garbage"
        <3> DEFINE n == [nf[w] EXCEPT !.data = "empty"]
        <3>1. n \in TaskNotification /\ n.conn = nf[w].conn /\ n.id = nf[w].id
            BY <1>2 DEF TaskNotification, Data
        <3>2. nf' = [nf EXCEPT ![w] = n] /\ wpc' = [wpc EXCEPT ![w] = "respond"]
            BY <1>2, <2>2 DEF Process
        <3> QED
            BY <2>2, <3>1, <3>2
    <2>3. CASE nf[w].data = "unknown"
        BY <2>3 DEF Process
    <2> QED
        BY <2>1, <2>2, <2>3 DEF Process
<1>6. ASSUME NEW c \in Conns, NEW i \in Nat
      PROVE  /\ Worked(c, i)' \in SUBSET Worked(c, i)
             /\ \/ Worked(c, i)' = Worked(c, i)
                \/ /\ nf[w].data = "unknown"
                   /\ IsRequest(nf[w], c, i)
                   /\ w \in Worked(c, i)
                   /\ Worked(c, i)' = Worked(c, i) \ {w}
             /\ n # NULL \/ ~IsRequest(nf[w], c, i) => Worked(c, i)' = Worked(c, i)
             /\ n = NULL => Worked(c, i)' = Worked(c, i) \ {w}
    <2>1. Worked(c, i)' = (Worked(c, i) \ {w}) \cup {v \in {w} : IsRequest(n, c, i)}
        <3>1. Worked(c, i)' = InHands(nf', c, i)
            BY DEF Worked, InHands
        <3>2. InHands(nf', c, i) =
                 (InHands(nf, c, i) \ {w}) \cup {v \in {w} : IsRequest(n, c, i)}
            BY <1>2, <1>5 DEF InHands
        <3> QED
            BY <3>1, <3>2 DEF Worked
    <2>2. w \in Worked(c, i) <=> IsRequest(nf[w], c, i)
        BY DEF Worked, InHands
    <2>3. CASE n \in TaskNotification /\ n.conn = nf[w].conn /\ n.id = nf[w].id
        <3>1. IsRequest(n, c, i) <=> IsRequest(nf[w], c, i)
            BY <1>1, <1>2, <2>3, HeldType DEF IsRequest
        <3>2. Worked(c, i)' = Worked(c, i)
            BY <2>1, <2>2, <3>1
        <3>3. n # NULL
            BY <1>1, <2>3, HeldType
        <3> QED
            BY <3>2, <3>3
    <2>4. CASE n = NULL /\ nf[w].data = "unknown"
        <3>1. ~IsRequest(n, c, i)
            BY <2>4 DEF IsRequest
        <3>2. Worked(c, i)' = Worked(c, i) \ {w}
            BY <2>1, <3>1
        <3>3. ~IsRequest(nf[w], c, i) => Worked(c, i)' = Worked(c, i)
            BY <2>2, <3>2
        <3> QED
            BY <2>2, <2>4, <3>2, <3>3
    <2> QED
        BY <1>5, <2>3, <2>4
<1>7. \A c \in Conns, i \in Nat :
          /\ Waits(c, i)' = Waits(c, i)
          /\ Responds(c, i)' = Responds(c, i)
          /\ Sent(c, i)' = Sent(c, i)
          /\ Had(c, i)' = Had(c, i)
    BY <1>2 DEF Waits, Responds, Sent, Had
<1>8. ASSUME NEW c \in Conns, NEW i \in 1 .. MaxReq
      PROVE  Alone(c, i)'
    <2>1. i \in Nat /\ Alone(c, i)
        BY <1>1 DEF PlaceInv
    <2> QED
        BY <1>6, <1>7, <2>1, LoneDropped DEF Alone
<1>9. ASSUME NEW c \in Conns, NEW i \in Nat
      PROVE  Taken(c, i)' => Taken(c, i)
    BY <1>6, <1>7 DEF Taken
<1>10. ASSUME NEW c \in Conns, NEW i \in DOMAIN asked[c], Taken(c, i), asked[c][i] = "known"
       PROVE  Taken(c, i)'
    <2>1. i \in Nat
        BY <1>1 DEF TypeOK
    <2>2. IsRequest(nf[w], c, i) => nf[w].data = "known"
        BY <1>4, <1>10 DEF AsSent, IsRequest
    <2>3. Worked(c, i)' = Worked(c, i)
        BY <1>6, <2>1, <2>2
    <2> QED
        BY <1>7, <1>10, <2>1, <2>3 DEF Taken
<1>11. PlaceInv' /\ KeptInv'
    BY <1>1, <1>2, <1>3, <1>8, <1>9, <1>10, Onward DEF Still
<1>12. DataInv'
    <2>1. ASSUME NEW v \in Workers
          PROVE  \/ nf'[v] = nf[v] /\ wpc'[v] = wpc[v]
                 \/ nf'[v] = NULL
                 \/ wpc'[v] = "respond" /\ Answering(nf'[v], asked')
        <3>1. CASE v # w
            BY <1>2, <1>5, <3>1
        <3>2. CASE v = w /\ n # NULL
            <4>1. wpc'[v] = "respond" /\ nf'[v] = n /\ n \in TaskNotification
                BY <1>2, <1>5, <3>2
            <4>2. Answering(n, asked)
                BY <1>4, <1>5, <3>2 DEF AsSent, Answering
            <4> QED
                BY <1>3, <4>1, <4>2, SentStays
        <3>3. CASE v = w /\ n = NULL
            BY <1>2, <1>5, <3>3
        <3> QED
            BY <3>1, <3>2, <3>3
    <2>2. io' # "sending" => ioNf' = NULL
        BY <1>1, <1>2 DEF DataInv
    <2> QED
        BY <1>1, <1>2, <1>3, <2>1, <2>2, DataStays
<1>13. SameFlight \/ \E d \in Conns, j \in 1 .. MaxReq : OneDropped(d, j)
    <2>1. CASE n # NULL
        <3>1. \A c \in Conns, i \in 1 .. MaxReq : Worked(c, i)' = Worked(c, i)
            BY <1>6, <2>1
        <3> QED
            BY <1>7, <3>1 DEF SameFlight, Flying, Done
    <2>2. CASE n = NULL
        <3>1. PICK d \in Conns, j \in 1 .. MaxReq : nf[w].conn = d /\ nf[w].id = j
            BY <1>1, <1>2, HeldType
        <3>2. \A c \in Conns, i \in Nat : IsRequest(nf[w], c, i) <=> c = d /\ i = j
            BY <1>1, <1>2, <3>1, HeldType DEF IsRequest
        <3>3. Worked(d, j)' = Worked(d, j) \ {w} /\ w \in Worked(d, j)
            BY <1>6, <2>2, <3>1, <3>2 DEF Worked, InHands
        <3>4. Flying(d, j) /\ ~Flying(d, j)' /\ (Done(d, j)' <=> Done(d, j))
            <4>1. Alone(d, j)
                BY <1>1 DEF PlaceInv
            <4>2. /\ Waits(d, j) = {} /\ Responds(d, j) = {} /\ Sent(d, j) = {}
                  /\ Worked(d, j)' = {}
                BY <3>3, <4>1 DEF Alone, Lone, AtMostOne
            <4> QED
                BY <1>7, <3>3, <4>2 DEF Flying, Done
        <3>5. ASSUME NEW c \in Conns, NEW i \in 1 .. MaxReq, ~(c = d /\ i = j)
              PROVE  (Flying(c, i)' <=> Flying(c, i)) /\ (Done(c, i)' <=> Done(c, i))
            <4>1. Worked(c, i)' = Worked(c, i)
                BY <1>6, <3>2, <3>5
            <4> QED
                BY <1>7, <4>1 DEF Flying, Done
        <3>6. OneDropped(d, j)
            BY <3>4, <3>5 DEF OneDropped
        <3> QED
            BY <3>6
    <2> QED
        BY <2>1, <2>2
<1> QED
    BY <1>11, <1>12, <1>13 DEF PlacesKept

LEMMA EnqueueResponsePlaces ==
    ASSUME OwnInv, TypeOK', \A c \in Conns : Still(c), NEW w \in Workers, EnqueueResponse(w)
    PROVE  PlacesKept' /\ SameFlight
<1>1. TypeOK /\ PlaceInv /\ KeptInv /\ DataInv /\ WorkersHold
    BY DEF OwnInv, IInv, QueueInv
<1>2. /\ wpc[w] = "respond"
      /\ UNCHANGED <<requestQueue, ioNf, got, io>>
      /\ nf[w] \in TaskNotification
      /\ nf \in [Workers -> TaskNotification \cup {NULL}]
      /\ wpc \in [Workers -> WorkStates]
      /\ responseQueue \in Seq(TaskNotification)
      /\ responseQueue' = Append(responseQueue, nf[w])
      /\ nf' = [nf EXCEPT ![w] = NULL]
      /\ wpc' = [wpc EXCEPT ![w] = "notify"]
    BY <1>1 DEF EnqueueResponse, Enqueued, AfterEnqueue, WorkersHold, TypeOK, ioVars,
        queueVars
<1>3. \A c \in Conns : Grows(c)
    BY DEF Still
<1> DEFINE x == Len(responseQueue) + 1
<1>4. ASSUME NEW c \in Conns, NEW i \in Nat
      PROVE  /\ Worked(c, i)' = Worked(c, i) \ {w}
             /\ Responds(c, i)' = Responds(c, i) \cup {k \in {x} : w \in Worked(c, i)}
             /\ Waits(c, i)' = Waits(c, i)
             /\ Sent(c, i)' = Sent(c, i)
             /\ Had(c, i)' = Had(c, i)
    <2>1. InHands(nf', c, i) = InHands(nf, c, i) \ {w}
        BY <1>2 DEF InHands, IsRequest
    <2>2. Worked(c, i)' = InHands(nf', c, i)
        BY DEF Worked, InHands
    <2>3. InQueue(responseQueue', c, i) =
             InQueue(responseQueue, c, i) \cup {k \in {x} : IsRequest(nf[w], c, i)}
        BY <1>2, QueueAppend
    <2>4. Responds(c, i)' = InQueue(responseQueue', c, i)
        BY DEF Responds, InQueue
    <2>5. w \in Worked(c, i) <=> IsRequest(nf[w], c, i)
        BY DEF Worked, InHands
    <2> HIDE DEF x
    <2>6. Responds(c, i)' = Responds(c, i) \cup {k \in {x} : w \in Worked(c, i)}
        BY <2>3, <2>4, <2>5 DEF Responds
    <2>7. Waits(c, i)' = Waits(c, i) /\ Sent(c, i)' = Sent(c, i) /\ Had(c, i)' = Had(c, i)
        BY <1>2 DEF Waits, Sent, Had
    <2> QED
        BY <2>1, <2>2, <2>6, <2>7 DEF Worked
<1> HIDE DEF x
<1>5. ASSUME NEW c \in Conns, NEW i \in 1 .. MaxReq
      PROVE  Alone(c, i)'
    <2>1. i \in Nat /\ Alone(c, i)
        BY <1>1 DEF PlaceInv
    <2>2. \/ /\ w \notin Worked(c, i)
             /\ Worked(c, i)' = Worked(c, i)
             /\ Responds(c, i)' = Responds(c, i)
          \/ /\ w \in Worked(c, i)
             /\ Worked(c, i)' = Worked(c, i) \ {w}
             /\ Responds(c, i)' = Responds(c, i) \cup {x}
        BY <1>4, <2>1
    <2>3. Lone(Waits(c, i), Worked(c, i)', Responds(c, i)', Sent(c, i), Had(c, i))
        BY <2>1, <2>2, LoneAnswered DEF Alone
    <2> QED
        BY <1>4, <2>1, <2>3 DEF Alone
<1>6. ASSUME NEW c \in Conns, NEW i \in Nat
      PROVE  Taken(c, i)' <=> Taken(c, i)
    BY <1>4 DEF Taken
<1>7. PlaceInv' /\ KeptInv'
    <2>1. \A c \in Conns : \A i \in DOMAIN asked[c] : i \in Nat
        BY <1>1 DEF TypeOK
    <2> QED
        BY <1>1, <1>2, <1>3, <1>5, <1>6, <2>1, Onward DEF Still
<1>8. DataInv'
    <2>1. \A v \in Workers : (nf'[v] = nf[v] /\ wpc'[v] = wpc[v]) \/ nf'[v] = NULL
        BY <1>2
    <2>2. io' # "sending" => ioNf' = NULL
        BY <1>1, <1>2 DEF DataInv
    <2>3. Answering(nf[w], asked')
        BY <1>1, <1>2, <1>3, SentStays, HeldType DEF DataInv
    <2>4. \A k \in DOMAIN responseQueue' :
             \/ \E j \in DOMAIN responseQueue : responseQueue'[k] = responseQueue[j]
             \/ responseQueue'[k] = nf[w]
        <3>1. /\ Len(responseQueue) \in Nat
              /\ DOMAIN responseQueue = 1 .. Len(responseQueue)
              /\ DOMAIN responseQueue' = 1 .. Len(responseQueue) + 1
              /\ \A k \in 1 .. Len(responseQueue) : responseQueue'[k] = responseQueue[k]
              /\ responseQueue'[Len(responseQueue) + 1] = nf[w]
            BY <1>2
        <3> QED
            BY <3>1
    <2> QED
        BY <1>1, <1>2, <1>3, <2>1, <2>2, <2>3, <2>4, DataStays
<1>9. SameFlight
    BY <1>4 DEF SameFlight, Flying, Done
<1> QED
    BY <1>7, <1>8, <1>9 DEF PlacesKept

LEMMA DequeueResponsePlaces ==
    ASSUME OwnInv, TypeOK', \A c \in Conns : Still(c), DequeueResponse
    PROVE  /\ PlacesKept'
           /\ \/ SameFlight /\ conn' = conn
              \/ \E d \in Conns, j \in 1 .. MaxReq :
                    /\ OneDropped(d, j)
                    /\ \/ conn' = conn
                       \/ conn[d] = "handled" /\ Shutdown(d)
<1>1. TypeOK /\ PlaceInv /\ KeptInv /\ DataInv
    BY DEF OwnInv, IInv
<1> DEFINE n == Head(responseQueue)
<1>2. /\ UNCHANGED <<requestQueue, nf, wpc, got>>
      /\ responseQueue \in Seq(TaskNotification) /\ responseQueue # <<>>
      /\ responseQueue' = Tail(responseQueue)
      /\ n \in TaskNotification
      /\ ioNf = NULL
    BY <1>1 DEF DequeueResponse, DataInv, TypeOK, queueVars, workVars
<1>3. \A c \in Conns : Grows(c)
    BY DEF Still
<1>4. \/ /\ ioNf' = NULL
         /\ io' # "sending"
         /\ conn[n.conn] # "handled" \/ n.data = "empty" \/ conn'[n.conn] # "handled"
         /\ conn'[n.conn] # "handled"
      \/ /\ ioNf' = n
         /\ io' = "sending"
    <2>1. n.conn \in Conns
        BY <1>1, <1>2, HeldType
    <2> HIDE DEF n
    <2> QED
        BY <1>1, <1>2, <2>1 DEF DequeueResponse, HasHandler, handlerMap, Shutdown, TypeOK, n,
            socketVars
<1>5. \A c \in Conns, i \in Nat : 1 \in Responds(c, i) <=> IsRequest(n, c, i)
    BY <1>2, QueueTail DEF Responds
<1> HIDE DEF n
<1>6. ASSUME NEW c \in Conns, NEW i \in Nat
      PROVE  /\ Responds(c, i) \in SUBSET (Nat \ {0})
             /\ Responds(c, i)' = {k \in Nat \ {0} : k + 1 \in Responds(c, i)}
             /\ Worked(c, i)' = Worked(c, i)
             /\ Waits(c, i)' = Waits(c, i)
             /\ Had(c, i)' = Had(c, i)
             /\ Sent(c, i) = {}
             /\ Sent(c, i)' = {k \in {1} : ioNf' = n /\ IsRequest(n, c, i)}
    <2>1. /\ InQueue(responseQueue, c, i) \subseteq Nat \ {0}
          /\ InQueue(responseQueue', c, i) =
                {k \in Nat \ {0} : k + 1 \in InQueue(responseQueue, c, i)}
        BY <1>2, QueueTail
    <2>2. Responds(c, i)' = InQueue(responseQueue', c, i)
        BY DEF Responds, InQueue
    <2>3. Waits(c, i)' = Waits(c, i) /\ Worked(c, i)' = Worked(c, i) /\ Had(c, i)' = Had(c, i)
        BY <1>2 DEF Waits, Worked, Had
    <2>4. Sent(c, i) = {}
        BY <1>2 DEF Sent, InSlot, IsRequest
    <2>5. Sent(c, i)' = {k \in {1} : ioNf' = n /\ IsRequest(n, c, i)}
        BY <1>4 DEF Sent, InSlot, IsRequest
    <2> QED
        BY <2>1, <2>2, <2>3, <2>4, <2>5 DEF Responds
<1>7. ASSUME NEW c \in Conns, NEW i \in Nat
      PROVE  Sent(c, i)' = {} \/ Sent(c, i)' = {k \in {1} : 1 \in Responds(c, i)}
    BY <1>4, <1>5, <1>6
<1>8. ASSUME NEW c \in Conns, NEW i \in 1 .. MaxReq
      PROVE  Alone(c, i)'
    <2>1. i \in Nat /\ Alone(c, i)
        BY <1>1 DEF PlaceInv
    <2>2. Lone(Waits(c, i), Worked(c, i), Responds(c, i), {}, Had(c, i))
        BY <1>6, <2>1 DEF Alone
    <2>3. /\ Responds(c, i) \in SUBSET (Nat \ {0})
          /\ Responds(c, i)' \in SUBSET (Nat \ {0})
          /\ \A k \in Responds(c, i)' : k + 1 \in Responds(c, i)
        BY <1>6, <2>1
    <2>4. Sent(c, i)' = {} \/ (Sent(c, i)' = {1} /\ 1 \in Responds(c, i))
        BY <1>7, <2>1
    <2>5. Lone(Waits(c, i), Worked(c, i), Responds(c, i)', Sent(c, i)', Had(c, i))
        BY <2>2, <2>3, <2>4, LoneDequeued
    <2> QED
        BY <1>6, <2>1, <2>5 DEF Alone
<1>9. ASSUME NEW c \in Conns, NEW i \in Nat
      PROVE  Taken(c, i)' => Taken(c, i)
    BY <1>6, <1>7 DEF Taken
<1>10. ASSUME NEW c \in Conns, NEW i \in DOMAIN asked[c], Taken(c, i),
              conn'[c] = "handled"
       PROVE  Taken(c, i)'
    <2>1. i \in Nat
        BY <1>1 DEF TypeOK
    <2>2. CASE \E k \in Responds(c, i) : k # 1
        <3>1. PICK k \in Responds(c, i) : k # 1
            BY <2>2
        <3>2. k - 1 \in Responds(c, i)'
            BY <1>6, <2>1, <3>1
        <3> QED
            BY <3>2 DEF Taken
    <2>3. CASE 1 \in Responds(c, i)
        <3>1. IsRequest(n, c, i) /\ n.conn = c
            BY <1>5, <2>1, <2>3 DEF IsRequest
        <3>2. ioNf' = n
            BY <1>4, <1>10, <3>1
        <3>3. Sent(c, i)' # {}
            BY <1>6, <2>1, <3>1, <3>2
        <3> QED
            BY <3>3 DEF Taken
    <2>4. CASE Responds(c, i) = {}
        BY <1>6, <1>10, <2>1, <2>4 DEF Taken
    <2> QED
        BY <2>2, <2>3, <2>4
<1>11. PlaceInv' /\ KeptInv'
    BY <1>1, <1>2, <1>3, <1>8, <1>9, <1>10, Onward DEF Still
<1>12. DataInv'
    <2>1. \A k \in DOMAIN responseQueue' :
             \E j \in DOMAIN responseQueue : responseQueue'[k] = responseQueue[j]
        <3>1. /\ Len(responseQueue) \in Nat \ {0}
              /\ DOMAIN responseQueue = 1 .. Len(responseQueue)
              /\ DOMAIN responseQueue' = 1 .. Len(responseQueue) - 1
              /\ \A k \in 1 .. Len(responseQueue) - 1 : responseQueue'[k] = responseQueue[k + 1]
            BY <1>2, HeadTailProperties
        <3> QED
            BY <3>1
    <2> QED
        BY <1>1, <1>2, <1>3, <1>4, <2>1, DataStays
<1>13. PICK d \in Conns, j \in 1 .. MaxReq : n.conn = d /\ n.id = j
    BY <1>1, <1>2, HeldType
<1>14. \A c \in Conns, i \in Nat : IsRequest(n, c, i) <=> c = d /\ i = j
    BY <1>1, <1>2, <1>13, HeldType DEF IsRequest
<1>15. ASSUME NEW c \in Conns, NEW i \in 1 .. MaxReq, ~(c = d /\ i = j)
       PROVE  (Flying(c, i)' <=> Flying(c, i)) /\ (Done(c, i)' <=> Done(c, i))
    <2>1. i \in Nat /\ 1 \notin Responds(c, i)
        BY <1>5, <1>14, <1>15
    <2>2. Responds(c, i) # {} <=> Responds(c, i)' # {}
        <3>1. ASSUME NEW k \in Responds(c, i)
              PROVE  k - 1 \in Responds(c, i)'
            BY <1>6, <2>1, <3>1
        <3>2. \A k \in Responds(c, i)' : k + 1 \in Responds(c, i)
            BY <1>6, <2>1
        <3> QED
            BY <3>1, <3>2
    <2>3. Sent(c, i)' = {} /\ Sent(c, i) = {}
        BY <1>6, <1>7, <2>1
    <2> QED
        BY <1>6, <2>1, <2>2, <2>3 DEF Flying, Done
<1>16. j \in Nat /\ 1 \in Responds(d, j)
    BY <1>5, <1>13, <1>14
<1>17. /\ Flying(d, j)
       /\ Waits(d, j)' = {} /\ Worked(d, j)' = {} /\ Responds(d, j)' = {}
       /\ Done(d, j)' <=> Done(d, j)
    <2>1. Alone(d, j)
        BY <1>1 DEF PlaceInv
    <2>2. Waits(d, j) = {} /\ Worked(d, j) = {} /\ \A k \in Responds(d, j) : k = 1
        BY <1>16, <2>1 DEF Alone, Lone, AtMostOne
    <2>3. \A k \in Responds(d, j)' : k \in Nat \ {0} /\ k + 1 \in Responds(d, j)
        BY <1>6, <1>16
    <2>4. Responds(d, j)' = {}
        BY <2>2, <2>3
    <2> QED
        BY <1>6, <1>16, <2>2, <2>4 DEF Flying, Done
<1>18. CASE ioNf' = NULL
    <2>1. Sent(d, j)' = {}
        BY <1>18 DEF Sent, InSlot, IsRequest
    <2>2. OneDropped(d, j)
        BY <1>15, <1>17, <2>1 DEF OneDropped, Flying
    <2>3. conn' = conn \/ (conn[d] = "handled" /\ Shutdown(d))
        BY <1>2, <1>13, <1>18
        DEF DequeueResponse, HasHandler, handlerMap, n, socketVars
    <2> QED
        BY <1>11, <1>12, <2>2, <2>3 DEF PlacesKept
<1>19. CASE ioNf' = n
    <2>1. Sent(d, j)' # {}
        BY <1>6, <1>14, <1>16, <1>19
    <2>2. SameFlight
        BY <1>15, <1>17, <2>1 DEF SameFlight, Flying
    <2>3. conn' = conn
        BY <1>1, <1>2, <1>19, HeldType DEF DequeueResponse, n, socketVars
    <2> QED
        BY <1>11, <1>12, <2>2, <2>3 DEF PlacesKept
<1> QED
    BY <1>4, <1>18, <1>19

LEMMA SendBytesPlaces ==
    ASSUME OwnInv, TypeOK', \A c \in Conns : Still(c), SendBytes
    PROVE  /\ PlacesKept'
           /\ \E j \in 1 .. MaxReq :
                 \/ OneDropped(ioNf.conn, j)
                 \/ OneAnswered(ioNf.conn, j)
<1>1. TypeOK /\ PlaceInv /\ KeptInv /\ DataInv
    BY DEF OwnInv, IInv
<1>2. /\ UNCHANGED <<requestQueue, nf, wpc, responseQueue, peer>>
      /\ ioNf \in TaskNotification
      /\ ioNf.conn \in Conns /\ ioNf.id \in 1 .. MaxReq
      /\ ioNf' = NULL
      /\ io' = "draining"
      /\ got \in [Conns -> Seq(1 .. MaxReq)]
      /\ \/ peer[ioNf.conn] = "gone" /\ got' = got
         \/ got' = [got EXCEPT ![ioNf.conn] = Append(@, ioNf.id)]
    BY <1>1, HeldType DEF SendBytes, TypeOK, queueVars, workVars
<1>3. \A c \in Conns : Grows(c)
    BY DEF Still
<1>4. ASSUME NEW c \in Conns, NEW i \in Nat
      PROVE  /\ Waits(c, i)' = Waits(c, i)
             /\ Worked(c, i)' = Worked(c, i)
             /\ Responds(c, i)' = Responds(c, i)
             /\ Sent(c, i)' = {}
             /\ Sent(c, i) # {} <=> ioNf.conn = c /\ ioNf.id = i
             /\ \/ Had(c, i)' = Had(c, i)
                \/ /\ Sent(c, i) # {}
                   /\ Had(c, i)' = Had(c, i) \cup {Len(got[c]) + 1}
             /\ Had(c, i)' = Had(c, i) /\ Sent(c, i) # {} => peer[c] = "gone"
    <2>1. Waits(c, i)' = Waits(c, i) /\ Worked(c, i)' = Worked(c, i)
             /\ Responds(c, i)' = Responds(c, i)
        BY <1>2 DEF Waits, Worked, Responds
    <2>2. Sent(c, i)' = {}
        BY <1>2 DEF Sent, InSlot, IsRequest
    <2>3. Sent(c, i) # {} <=> ioNf.conn = c /\ ioNf.id = i
        BY <1>1, <1>2, HeldType DEF Sent, InSlot, IsRequest
    <2>4. Had(c, i)' = InGot(got'[c], i)
        BY DEF Had, InGot
    <2>5. CASE got'[c] = got[c] /\ (ioNf.conn = c => peer[c] = "gone")
        BY <2>1, <2>2, <2>3, <2>4, <2>5 DEF Had
    <2>6. CASE ioNf.conn = c /\ got'[c] = Append(got[c], ioNf.id)
        <3>1. got[c] \in Seq(1 .. MaxReq) /\ Len(got[c]) \in Nat
            BY <1>2
        <3>2. /\ InGot(got[c], i) \subseteq 1 .. Len(got[c])
              /\ InGot(got'[c], i) =
                    InGot(got[c], i) \cup {k \in {Len(got[c]) + 1} : ioNf.id = i}
            BY <1>2, <2>6, <3>1, GotAppend
        <3>3. ioNf.id = i <=> Sent(c, i) # {}
            BY <2>3, <2>6
        <3>4. \/ (ioNf.id # i /\ Had(c, i)' = Had(c, i))
              \/ (ioNf.id = i /\ Had(c, i)' = Had(c, i) \cup {Len(got[c]) + 1})
            BY <2>4, <3>2 DEF Had
        <3>5. Len(got[c]) + 1 \notin Had(c, i)
            BY <3>1, <3>2 DEF Had
        <3> QED
            BY <2>1, <2>2, <2>3, <3>3, <3>4, <3>5
    <2> QED
        BY <1>2, <2>5, <2>6
<1>5. ASSUME NEW c \in Conns, NEW i \in 1 .. MaxReq
      PROVE  Alone(c, i)'
    <2>1. i \in Nat /\ Lone(Waits(c, i), Worked(c, i), Responds(c, i), Sent(c, i), Had(c, i))
        BY <1>1 DEF PlaceInv, Alone
    <2>3. \/ Had(c, i)' = Had(c, i)
          \/ (Sent(c, i) # {} /\ Had(c, i)' = Had(c, i) \cup {Len(got[c]) + 1})
        BY <1>4, <2>1
    <2>4. Lone(Waits(c, i), Worked(c, i), Responds(c, i), {}, Had(c, i)')
        BY <2>1, <2>3, LoneSent
    <2> QED
        BY <1>4, <2>1, <2>4 DEF Alone
<1>6. ASSUME NEW c \in Conns, NEW i \in Nat
      PROVE  Taken(c, i)' => Taken(c, i)
    BY <1>4 DEF Taken
<1>7. ASSUME NEW c \in Conns, NEW i \in DOMAIN asked[c], Taken(c, i), peer'[c] = "up"
      PROVE  Taken(c, i)'
    <2>1. i \in Nat
        BY <1>1 DEF TypeOK
    <2>2. Sent(c, i) # {} => Had(c, i)' # {}
        <3>1. ASSUME Sent(c, i) # {}
              PROVE  Had(c, i)' = Had(c, i) \cup {Len(got[c]) + 1}
            BY <1>2, <1>4, <1>7, <2>1, <3>1
        <3> QED
            BY <3>1
    <2>3. Had(c, i) # {} => Had(c, i)' # {}
        BY <1>4, <2>1
    <2> QED
        BY <1>4, <1>7, <2>1, <2>2, <2>3 DEF Taken
<1>8. PlaceInv' /\ KeptInv'
    BY <1>1, <1>2, <1>3, <1>5, <1>6, <1>7, Onward DEF Still
<1>9. DataInv'
    BY <1>1, <1>2, <1>3, DataStays
<1>10. PICK d \in Conns, j \in 1 .. MaxReq : ioNf.conn = d /\ ioNf.id = j
    BY <1>2
<1>11. j \in Nat /\ Sent(d, j) # {} /\ Flying(d, j)
    BY <1>4, <1>10 DEF Flying
<1>12. ~Flying(d, j)'
    <2>1. Alone(d, j)
        BY <1>1 DEF PlaceInv
    <2>2. Waits(d, j) = {} /\ Worked(d, j) = {} /\ Responds(d, j) = {}
        BY <1>11, <2>1 DEF Alone, Lone
    <2> QED
        BY <1>4, <1>11, <2>2 DEF Flying
<1>13. ASSUME NEW c \in Conns, NEW i \in 1 .. MaxReq, ~(c = d /\ i = j)
       PROVE  (Flying(c, i)' <=> Flying(c, i)) /\ (Done(c, i)' <=> Done(c, i))
    <2>1. i \in Nat /\ Sent(c, i) = {}
        BY <1>4, <1>10, <1>13
    <2> QED
        BY <1>4, <2>1 DEF Flying, Done
<1>14. CASE Had(d, j)' = Had(d, j)
    <2>1. OneDropped(d, j)
        BY <1>11, <1>12, <1>13, <1>14 DEF OneDropped, Done
    <2> QED
        BY <1>8, <1>9, <1>10, <2>1 DEF PlacesKept
<1>15. CASE Had(d, j)' = Had(d, j) \cup {Len(got[d]) + 1}
    <2>1. Done(d, j)'
        BY <1>15 DEF Done
    <2>2. OneAnswered(d, j)
        BY <1>11, <1>12, <1>13, <2>1 DEF OneAnswered
    <2> QED
        BY <1>8, <1>9, <1>10, <2>2 DEF PlacesKept
<1> QED
    BY <1>4, <1>11, <1>14, <1>15

(***************************************************************************)
(* A thread takes the oldest request that waits.                           *)
(***************************************************************************)
LEMMA TakeRequestPlaces ==
    ASSUME OwnInv, TypeOK', \A c \in Conns : Still(c), NEW w \in Workers,
           WaitDequeue(w), requestQueue # <<>>
    PROVE  PlacesKept' /\ SameFlight
<1>1. TypeOK /\ PlaceInv /\ KeptInv /\ DataInv /\ WorkersHold
    BY DEF OwnInv, IInv, QueueInv
<1> DEFINE h == Head(requestQueue)
<1>2. /\ UNCHANGED <<conn, asked, peer, responseQueue, ioNf, got, io>>
      /\ wpc[w] = "dequeue"
      /\ requestQueue \in Seq(TaskNotification)
      /\ requestQueue' = Tail(requestQueue)
      /\ h \in TaskNotification
      /\ nf \in [Workers -> TaskNotification \cup {NULL}]
      /\ wpc \in [Workers -> WorkStates]
      /\ nf' = [nf EXCEPT ![w] = h]
      /\ wpc' = [wpc EXCEPT ![w] = "working"]
    BY <1>1 DEF WaitDequeue, TypeOK, ioVars, clientVars, socketVars
<1>3. \A c \in Conns : Grows(c)
    BY DEF Still
<1>4. nf[w] = NULL
    BY <1>1, <1>2 DEF WorkersHold, TypeOK
<1>5. \A c \in Conns, i \in Nat : 1 \in Waits(c, i) <=> IsRequest(h, c, i)
    BY <1>2, QueueTail DEF Waits
<1>6. AsSent(h, asked)
    <2>1. 1 \in DOMAIN requestQueue /\ h = requestQueue[1]
        BY <1>2
    <2> QED
        BY <1>1, <2>1 DEF DataInv
<1> HIDE DEF h
<1>7. ASSUME NEW c \in Conns, NEW i \in Nat
      PROVE  /\ Waits(c, i) \in SUBSET (Nat \ {0})
             /\ Waits(c, i)' = {k \in Nat \ {0} : k + 1 \in Waits(c, i)}
             /\ \/ (1 \notin Waits(c, i) /\ Worked(c, i)' = Worked(c, i))
                \/ (1 \in Waits(c, i) /\ Worked(c, i)' = Worked(c, i) \cup {w})
             /\ Responds(c, i)' = Responds(c, i)
             /\ Sent(c, i)' = Sent(c, i)
             /\ Had(c, i)' = Had(c, i)
    <2>1. /\ InQueue(requestQueue, c, i) \subseteq Nat \ {0}
          /\ InQueue(requestQueue', c, i) =
                {k \in Nat \ {0} : k + 1 \in InQueue(requestQueue, c, i)}
        BY <1>2, QueueTail
    <2>2. Waits(c, i)' = InQueue(requestQueue', c, i)
        BY DEF Waits, InQueue
    <2>3. /\ Responds(c, i)' = Responds(c, i)
          /\ Sent(c, i)' = Sent(c, i)
          /\ Had(c, i)' = Had(c, i)
        BY <1>2 DEF Responds, Sent, Had
    <2>4. Worked(c, i)' = InHands(nf', c, i)
        BY DEF Worked, InHands
    <2>5. CASE IsRequest(h, c, i)
        <3>1. InHands(nf', c, i) = InHands(nf, c, i) \cup {w}
            BY <1>2, <2>5 DEF InHands
        <3> QED
            BY <1>5, <2>1, <2>2, <2>3, <2>4, <2>5, <3>1 DEF Waits, Worked
    <2>6. CASE ~IsRequest(h, c, i)
        <3>1. ~IsRequest(nf[w], c, i)
            BY <1>4 DEF IsRequest
        <3>2. InHands(nf', c, i) = InHands(nf, c, i)
            BY <1>2, <2>6, <3>1 DEF InHands
        <3> QED
            BY <1>5, <2>1, <2>2, <2>3, <2>4, <2>6, <3>2 DEF Waits, Worked
    <2> QED
        BY <2>5, <2>6
<1>8. \A c \in Conns, i \in Nat :
          /\ Waits(c, i) \in SUBSET (Nat \ {0})
          /\ Waits(c, i)' \in SUBSET (Nat \ {0})
          /\ \A k \in Waits(c, i)' : k + 1 \in Waits(c, i)
    BY <1>7
<1>9. \A c \in Conns, i \in Nat :
          /\ Taken(c, i)' => Taken(c, i) \/ 1 \in Waits(c, i)
          /\ Taken(c, i) \/ 1 \in Waits(c, i) => Taken(c, i)'
    BY <1>7 DEF Taken
<1>10. ASSUME NEW c \in Conns, NEW i \in 1 .. MaxReq
       PROVE  Alone(c, i)'
    <2>1. i \in Nat /\ Alone(c, i)
        BY <1>1 DEF PlaceInv
    <2>2. Lone(Waits(c, i)', Worked(c, i)', Responds(c, i), Sent(c, i), Had(c, i))
        BY <1>7, <1>8, <2>1, LoneTaken DEF Alone
    <2> QED
        BY <1>7, <2>1, <2>2 DEF Alone
<1>11. ASSUME NEW c \in Conns, NEW i \in 1 .. MaxReq
       PROVE  Behind(c, i)'
    <2> SUFFICES ASSUME NEW k \in Waits(c, i)', NEW j \in (i + 1) .. MaxReq
                 PROVE  ~Taken(c, j)' /\ \A l \in Waits(c, j)' : l > k
        BY DEF Behind
    <2>1. i \in Nat /\ j \in Nat
        OBVIOUS
    <2>2. k \in Nat \ {0} /\ k + 1 \in Waits(c, i)
        BY <1>8, <2>1
    <2>3. Behind(c, i)
        BY <1>1 DEF PlaceInv
    <2>4. ~Taken(c, j) /\ \A l \in Waits(c, j) : l > k + 1
        BY <2>2, <2>3 DEF Behind
    <2>5. 1 \notin Waits(c, j)
        BY <2>2, <2>4
    <2>6. ASSUME NEW l \in Waits(c, j)'
          PROVE  l > k
        <3>1. l \in Nat /\ l + 1 > k + 1
            BY <1>8, <2>1, <2>4
        <3> QED
            BY <2>2, <3>1
    <2> QED
        BY <1>9, <2>1, <2>4, <2>5, <2>6
<1>12. ASSUME NEW c \in Conns, NEW i \in Nat
       PROVE  Held(c, i)' <=> Held(c, i)
    <2>1. ASSUME NEW k \in Waits(c, i)
          PROVE  Held(c, i)'
        <3>1. CASE k = 1
            BY <1>9, <3>1 DEF Held
        <3>2. CASE k # 1
            <4>1. k - 1 \in Waits(c, i)'
                BY <1>7, <3>2
            <4> QED
                BY <4>1 DEF Held
        <3> QED
            BY <3>1, <3>2
    <2> QED
        BY <1>8, <1>9, <2>1 DEF Held
<1>13. PlaceInv'
    <2>1. ASSUME NEW c \in Conns, NEW i \in 1 .. MaxReq, Held(c, i)'
          PROVE  i <= Framed(c)'
        <3>1. i \in Nat /\ i <= Framed(c)
            BY <1>1, <1>12, <2>1 DEF PlaceInv
        <3> QED
            BY <1>3, <3>1 DEF Grows
    <2> QED
        BY <1>10, <1>11, <2>1 DEF PlaceInv
<1>14. KeptInv'
    <2> SUFFICES ASSUME NEW c \in Conns, NEW i \in DOMAIN asked'[c],
                        asked'[c][i] = "known", conn'[c] = "handled",
                        peer'[c] = "up", i <= Framed(c)'
                 PROVE  Held(c, i)'
        BY DEF KeptInv
    <2>1. i \in Nat
        BY DEF TypeOK
    <2>2. i <= Framed(c)
        BY DEF Still
    <2> QED
        BY <1>1, <1>2, <1>12, <2>1, <2>2 DEF KeptInv
<1>15. DataInv'
    <2>1. \A k \in DOMAIN requestQueue' :
             \E j \in DOMAIN requestQueue : requestQueue'[k] = requestQueue[j]
        <3>1. /\ Len(requestQueue) \in Nat \ {0}
              /\ DOMAIN requestQueue = 1 .. Len(requestQueue)
              /\ DOMAIN requestQueue' = 1 .. Len(requestQueue) - 1
              /\ \A k \in 1 .. Len(requestQueue) - 1 : requestQueue'[k] = requestQueue[k + 1]
            BY <1>2, HeadTailProperties
        <3> QED
            BY <3>1
    <2>2. AsSent(h, asked')
        BY <1>2, <1>3, <1>6, SentStays
    <2>3. \A v \in Workers :
             \/ (nf'[v] = nf[v] /\ wpc'[v] = wpc[v])
             \/ (wpc'[v] = "working" /\ nf'[v] = h)
        BY <1>2
    <2>4. \A v \in Workers :
             \/ (nf'[v] = nf[v] /\ wpc'[v] = wpc[v])
             \/ (wpc'[v] \in {"waiting", "working"} /\ AsSent(nf'[v], asked'))
        BY <2>2, <2>3
    <2>5. io' # "sending" => ioNf' = NULL
        BY <1>1, <1>2 DEF DataInv
    <2> QED
        BY <1>1, <1>2, <1>3, <2>1, <2>4, <2>5, DataStays
<1>16. ASSUME NEW c \in Conns, NEW i \in 1 .. MaxReq
       PROVE  (Flying(c, i)' <=> Flying(c, i)) /\ (Done(c, i)' <=> Done(c, i))
    <2>1. i \in Nat
        OBVIOUS
    <2>2. Waits(c, i) # {} <=> Waits(c, i)' # {} \/ 1 \in Waits(c, i)
        <3>1. ASSUME NEW k \in Waits(c, i), k # 1
              PROVE  k - 1 \in Waits(c, i)'
            BY <1>7, <2>1, <3>1
        <3>2. \A k \in Waits(c, i)' : k + 1 \in Waits(c, i)
            BY <1>8, <2>1
        <3> QED
            BY <3>1, <3>2
    <2> QED
        BY <1>7, <2>1, <2>2 DEF Flying, Done
<1>17. SameFlight
    BY <1>16 DEF SameFlight
<1> QED
    BY <1>13, <1>14, <1>15, <1>17 DEF PlacesKept

LEMMA WaitDequeuePlaces ==
    ASSUME OwnInv, TypeOK', \A c \in Conns : Still(c), NEW w \in Workers, WaitDequeue(w)
    PROVE  PlacesKept' /\ SameFlight
<1>1. CASE requestQueue # <<>>
    BY <1>1, TakeRequestPlaces
<1>2. CASE requestQueue = <<>>
    <2>1. /\ UNCHANGED placeVars
          /\ io' = io
          /\ wpc' = [wpc EXCEPT ![w] = "waiting"]
          /\ wpc[w] = "dequeue"
        BY <1>2 DEF WaitDequeue, placeVars, ioVars
    <2>2. \A v \in Workers : wpc'[v] = wpc[v] \/ nf[v] = NULL
        BY <2>1 DEF OwnInv, IInv, QueueInv, WorkersHold, TypeOK
    <2> QED
        BY <2>1, <2>2, NothingMoves
<1> QED
    BY <1>1, <1>2

(***************************************************************************)
(* A packet that is framed comes into the queue or into a sleeper's hands. *)
(***************************************************************************)
LEMMA EnqueuedPlaces ==
    ASSUME TypeOK, QueueInv, NEW n \in TaskNotification, EnqueueRequest(n),
           UNCHANGED <<responseQueue, ioNf, got>>,
           NEW c \in Conns, NEW i \in Nat
    PROVE  /\ Waits(c, i) \in SUBSET (1 .. Len(requestQueue))
           /\ Responds(c, i)' = Responds(c, i)
           /\ Sent(c, i)' = Sent(c, i)
           /\ Had(c, i)' = Had(c, i)
           /\ ~IsRequest(n, c, i) =>
                 Waits(c, i)' = Waits(c, i) /\ Worked(c, i)' = Worked(c, i)
           /\ IsRequest(n, c, i) =>
                 \/ /\ Waits(c, i)' = Waits(c, i) \cup {Len(requestQueue) + 1}
                    /\ Worked(c, i)' = Worked(c, i)
                 \/ /\ requestQueue = <<>>
                    /\ Waits(c, i)' = Waits(c, i)
                    /\ \E w \in Workers : Worked(c, i)' = Worked(c, i) \cup {w}
<1>1. /\ requestQueue \in Seq(TaskNotification)
      /\ Waits(c, i) \in SUBSET (1 .. Len(requestQueue))
    <2>1. requestQueue \in Seq(TaskNotification)
        BY DEF TypeOK
    <2> QED
        BY <2>1, QueueAppend DEF Waits
<1>2. /\ Responds(c, i)' = Responds(c, i)
      /\ Sent(c, i)' = Sent(c, i)
      /\ Had(c, i)' = Had(c, i)
    BY DEF Responds, Sent, Had
<1>3. /\ Waits(c, i)' = InQueue(requestQueue', c, i)
      /\ Worked(c, i)' = InHands(nf', c, i)
    BY DEF Waits, InQueue, Worked, InHands
<1>4. CASE waitQueue = <<>>
    <2>1. requestQueue' = Append(requestQueue, n) /\ nf' = nf
        BY <1>4 DEF EnqueueRequest
    <2>2. Worked(c, i)' = Worked(c, i)
        BY <1>3, <2>1 DEF Worked
    <2>3. InQueue(requestQueue', c, i) =
             InQueue(requestQueue, c, i)
                \cup {k \in {Len(requestQueue) + 1} : IsRequest(n, c, i)}
        BY <1>1, <2>1, QueueAppend
    <2>4. CASE IsRequest(n, c, i)
        <3>1. InQueue(requestQueue', c, i) =
                 InQueue(requestQueue, c, i) \cup {Len(requestQueue) + 1}
            BY <2>3, <2>4
        <3> QED
            BY <1>1, <1>2, <1>3, <2>2, <2>4, <3>1 DEF Waits
    <2>5. CASE ~IsRequest(n, c, i)
        <3>1. InQueue(requestQueue', c, i) = InQueue(requestQueue, c, i)
            BY <2>3, <2>5
        <3> QED
            BY <1>1, <1>2, <1>3, <2>2, <2>5, <3>1 DEF Waits
    <2> QED
        BY <2>4, <2>5
<1>5. CASE waitQueue # <<>>
    <2>1. PICK w \in Workers :
             /\ nf' = [nf EXCEPT ![w] = n]
             /\ requestQueue' = requestQueue
             /\ requestQueue = <<>>
             /\ nf[w] = NULL
        <3>1. waitQueue \in Seq(Workers)
            BY DEF TypeOK
        <3>2. /\ Head(waitQueue) \in Workers
              /\ 1 \in DOMAIN waitQueue
              /\ waitQueue[1] = Head(waitQueue)
            BY <1>5, <3>1
        <3>3. Blocked(Head(waitQueue))
            BY <3>2 DEF Blocked
        <3>4. requestQueue = <<>> /\ nf[Head(waitQueue)] = NULL
            BY <1>5, <3>2, <3>3 DEF QueueInv, NoSleepWhileQueued
        <3> QED
            BY <1>5, <3>2, <3>4 DEF EnqueueRequest
    <2>2. nf \in [Workers -> TaskNotification \cup {NULL}]
        BY DEF TypeOK
    <2>3. Waits(c, i)' = Waits(c, i)
        BY <1>3, <2>1 DEF Waits
    <2>4. ~IsRequest(nf[w], c, i)
        BY <2>1 DEF IsRequest
    <2>5. CASE IsRequest(n, c, i)
        <3>1. InHands(nf', c, i) = InHands(nf, c, i) \cup {w}
            BY <2>1, <2>2, <2>5 DEF InHands
        <3>2. Worked(c, i)' = Worked(c, i) \cup {w}
            BY <1>3, <3>1 DEF Worked
        <3> QED
            BY <1>1, <1>2, <2>1, <2>3, <2>5, <3>2
    <2>6. CASE ~IsRequest(n, c, i)
        <3>1. InHands(nf', c, i) = InHands(nf, c, i)
            BY <2>1, <2>2, <2>4, <2>6 DEF InHands
        <3> QED
            BY <1>1, <1>2, <1>3, <2>3, <2>6, <3>1 DEF Worked
    <2> QED
        BY <2>5, <2>6
<1> QED
    BY <1>4, <1>5

LEMMA EnqueuedData ==
    ASSUME TypeOK, QueueInv, DataInv, \A c \in Conns : Grows(c),
           NEW n \in TaskNotification, EnqueueRequest(n), AsSent(n, asked),
           UNCHANGED <<responseQueue, ioNf, io, wpc>>
    PROVE  DataInv'
<1>1. AsSent(n, asked')
    BY SentStays
<1>2. io' # "sending" => ioNf' = NULL
    BY DEF DataInv
<1>3. CASE waitQueue = <<>>
    <2>1. requestQueue' = Append(requestQueue, n) /\ nf' = nf
        BY <1>3 DEF EnqueueRequest
    <2>2. \A k \in DOMAIN requestQueue' :
             \/ \E j \in DOMAIN requestQueue : requestQueue'[k] = requestQueue[j]
             \/ requestQueue'[k] = n
        <3>1. requestQueue \in Seq(TaskNotification)
            BY DEF TypeOK
        <3>2. /\ Len(requestQueue) \in Nat
              /\ DOMAIN requestQueue = 1 .. Len(requestQueue)
              /\ DOMAIN requestQueue' = 1 .. Len(requestQueue) + 1
              /\ \A k \in 1 .. Len(requestQueue) : requestQueue'[k] = requestQueue[k]
              /\ requestQueue'[Len(requestQueue) + 1] = n
            BY <2>1, <3>1
        <3> QED
            BY <3>2
    <2> QED
        BY <1>1, <1>2, <2>1, <2>2, DataStays
<1>4. CASE waitQueue # <<>>
    <2>1. /\ nf' = [nf EXCEPT ![Head(waitQueue)] = n]
          /\ requestQueue' = requestQueue
        BY <1>4 DEF EnqueueRequest
    <2>2. waitQueue \in Seq(Workers) /\ nf \in [Workers -> TaskNotification \cup {NULL}]
        BY DEF TypeOK
    <2>3. wpc[Head(waitQueue)] = "waiting"
        <3>1. /\ Head(waitQueue) \in Workers
              /\ 1 \in DOMAIN waitQueue
              /\ waitQueue[1] = Head(waitQueue)
            BY <1>4, <2>2
        <3>2. Blocked(Head(waitQueue))
            BY <3>1 DEF Blocked
        <3> QED
            BY <3>1, <3>2 DEF QueueInv, NoSleepWhileQueued
    <2>4. \A v \in Workers :
             \/ (nf'[v] = nf[v] /\ wpc'[v] = wpc[v])
             \/ (wpc'[v] \in {"waiting", "working"} /\ AsSent(nf'[v], asked'))
        BY <1>1, <2>1, <2>2, <2>3
    <2> QED
        BY <1>2, <2>1, <2>4, DataStays
<1> QED
    BY <1>3, <1>4

LEMMA FramePacketPlaces ==
    ASSUME OwnInv, TypeOK', FramePacket, Head(inBuffer[ioConn]).data # "zero"
    PROVE  /\ PlacesKept'
           /\ UNCHANGED conn
           /\ \E d \in Conns, j \in 1 .. MaxReq :
                 /\ ioConn = d
                 /\ j = Framed(d) + 1
                 /\ Framed(d)' = j
                 /\ OneRises(d, j)
<1>1. TypeOK /\ QueueInv /\ PacketInv /\ PlaceInv /\ KeptInv /\ DataInv
    BY DEF OwnInv, IInv
<1>2. PICK c \in Conns, m \in 1 .. MaxReq :
              /\ ioConn = c
              /\ m = Framed(c) + 1
              /\ m \in DOMAIN asked[c]
              /\ EnqueueRequest([conn |-> c, id |-> m, data |-> asked[c][m]])
              /\ Framed(c)' = m
              /\ UNCHANGED <<conn, asked, peer>>
              /\ \A d \in Conns : Grows(d)
    BY <1>1, FramedInOrder
<1> DEFINE n == [conn |-> c, id |-> m, data |-> asked[c][m]]
<1>3. /\ n \in TaskNotification
      /\ n # NULL
      /\ n.conn = c /\ n.id = m
      /\ AsSent(n, asked)
    <2>1. asked[c] \in Seq(Kinds)
        BY <1>1 DEF TypeOK
    <2>2. asked[c][m] \in Data
        BY <1>2, <2>1 DEF Data
    <2>3. n \in TaskNotification
        BY <1>2, <2>2 DEF TaskNotification
    <2> QED
        BY <1>2, <2>3, PipelineAssumption DEF AsSent
<1>4. /\ m \in 1 .. MaxReq /\ m \in Nat
      /\ Framed(c) \in Int
      /\ Framed(c) = m - 1
      /\ Framed(c)' = m
      /\ EnqueueRequest(n)
      /\ UNCHANGED <<conn, asked, peer, responseQueue, ioNf, got, io, wpc>>
    <2>1. Framed(c) \in Int
        BY <1>2 DEF Grows
    <2>2. UNCHANGED <<responseQueue, ioNf, got, io, wpc>>
        <3>1. /\ UNCHANGED <<ioNf, wpc, got, responseQueue>>
              /\ io' = io
            BY DEF FramePacket
        <3> QED
            BY <3>1
    <2>3. Framed(c) = m - 1
        BY <1>2, <2>1
    <2> QED
        BY <1>2, <2>1, <2>2, <2>3
<1> HIDE DEF n
<1>5. \A d \in Conns, i \in Nat : IsRequest(n, d, i) <=> d = c /\ i = m
    BY <1>3 DEF IsRequest
<1>6. ASSUME NEW d \in Conns, NEW i \in Nat, ~(d = c /\ i = m)
      PROVE  /\ Waits(d, i)' = Waits(d, i)
             /\ Worked(d, i)' = Worked(d, i)
             /\ Responds(d, i)' = Responds(d, i)
             /\ Sent(d, i)' = Sent(d, i)
             /\ Had(d, i)' = Had(d, i)
             /\ Alone(d, i)' = Alone(d, i)
             /\ Taken(d, i)' = Taken(d, i)
             /\ Held(d, i)' = Held(d, i)
    <2>1. /\ Waits(d, i)' = Waits(d, i)
          /\ Worked(d, i)' = Worked(d, i)
          /\ Responds(d, i)' = Responds(d, i)
          /\ Sent(d, i)' = Sent(d, i)
          /\ Had(d, i)' = Had(d, i)
        BY <1>1, <1>3, <1>4, <1>5, <1>6, EnqueuedPlaces
    <2> QED
        BY <2>1 DEF Alone, Taken, Held
<1>7. \A j \in m .. MaxReq : ~Held(c, j)
    BY <1>1, <1>4 DEF PlaceInv
<1>8. /\ Waits(c, m) = {} /\ Worked(c, m) = {} /\ Responds(c, m) = {}
      /\ Sent(c, m) = {} /\ Had(c, m) = {}
    <2>1. m \in m .. MaxReq
        BY <1>4
    <2> QED
        BY <1>7, <2>1 DEF Held, Taken
<1>9. /\ Responds(c, m)' = {} /\ Sent(c, m)' = {} /\ Had(c, m)' = {}
      /\ \/ Waits(c, m)' = {Len(requestQueue) + 1} /\ Worked(c, m)' = {}
         \/ /\ requestQueue = <<>>
            /\ Waits(c, m)' = {}
            /\ \E w \in Workers : Worked(c, m)' = {w}
    <2>1. IsRequest(n, c, m)
        BY <1>4, <1>5
    <2>2. /\ Responds(c, m)' = Responds(c, m)
          /\ Sent(c, m)' = Sent(c, m)
          /\ Had(c, m)' = Had(c, m)
          /\ \/ /\ Waits(c, m)' = Waits(c, m) \cup {Len(requestQueue) + 1}
                /\ Worked(c, m)' = Worked(c, m)
             \/ /\ requestQueue = <<>>
                /\ Waits(c, m)' = Waits(c, m)
                /\ \E w \in Workers : Worked(c, m)' = Worked(c, m) \cup {w}
        BY <1>1, <1>3, <1>4, <2>1, EnqueuedPlaces
    <2> QED
        BY <1>8, <2>2
<1>10. Held(c, m)' /\ Alone(c, m)'
    <2>1. CASE Waits(c, m)' = {Len(requestQueue) + 1} /\ Worked(c, m)' = {}
        BY <1>9, <2>1, LoneArrives DEF Held, Alone
    <2>2. CASE Waits(c, m)' = {} /\ \E w \in Workers : Worked(c, m)' = {w}
        BY <1>9, <2>2, LoneArrives DEF Held, Taken, Alone
    <2> QED
        BY <1>9, <2>1, <2>2
<1>11. ASSUME NEW d \in Conns, NEW i \in 1 .. MaxReq
       PROVE  Behind(d, i)'
    <2> SUFFICES ASSUME NEW k \in Waits(d, i)', NEW j \in (i + 1) .. MaxReq
                 PROVE  ~Taken(d, j)' /\ \A l \in Waits(d, j)' : l > k
        BY DEF Behind
    <2>1. i \in Nat /\ j \in Nat /\ j > i
        OBVIOUS
    <2>2. CASE d = c /\ i = m
        <3>1. j \in m .. MaxReq /\ j # m
            BY <1>4, <2>1, <2>2
        <3>2. ~Held(c, j)
            BY <1>7, <3>1
        <3>3. ~Held(c, j)'
            BY <1>6, <2>1, <3>1, <3>2
        <3> QED
            BY <2>2, <3>3 DEF Held
    <2>3. CASE ~(d = c /\ i = m)
        <3>1. k \in Waits(d, i) /\ Waits(d, i) # {}
            BY <1>6, <2>1, <2>3
        <3>2. k \in 1 .. Len(requestQueue) /\ Len(requestQueue) \in Nat
            <4>1. requestQueue \in Seq(TaskNotification)
                BY <1>1 DEF TypeOK
            <4>2. Waits(d, i) \in SUBSET (1 .. Len(requestQueue))
                BY <1>1, <1>3, <1>4, <2>1, EnqueuedPlaces
            <4> QED
                BY <3>1, <4>1, <4>2
        <3>3. Behind(d, i)
            BY <1>1 DEF PlaceInv
        <3>4. ~Taken(d, j) /\ \A l \in Waits(d, j) : l > k
            BY <3>1, <3>3 DEF Behind
        <3>5. CASE d = c /\ j = m
            <4>1. requestQueue # <<>>
                BY <3>2
            <4>2. Waits(c, m)' = {Len(requestQueue) + 1} /\ Worked(c, m)' = {}
                BY <1>9, <4>1
            <4>3. ~Taken(c, m)'
                BY <1>9, <4>2 DEF Taken
            <4>4. Len(requestQueue) + 1 > k
                BY <3>2
            <4> QED
                BY <3>5, <4>2, <4>3, <4>4
        <3>6. CASE ~(d = c /\ j = m)
            BY <1>6, <2>1, <3>4, <3>6
        <3> QED
            BY <3>5, <3>6
    <2> QED
        BY <2>2, <2>3
<1>12. ASSUME NEW d \in Conns, NEW i \in 1 .. MaxReq
       PROVE  /\ Held(d, i)' => i <= Framed(d)'
              /\ Alone(d, i)'
    <2>1. i \in Nat
        OBVIOUS
    <2>2. CASE d = c /\ i = m
        BY <1>4, <1>10, <2>2
    <2>3. CASE ~(d = c /\ i = m)
        <3>1. /\ Held(d, i)' = Held(d, i)
              /\ Alone(d, i)' = Alone(d, i)
            BY <1>6, <2>1, <2>3
        <3>2. Alone(d, i) /\ (Held(d, i) => i <= Framed(d))
            BY <1>1 DEF PlaceInv
        <3>3. i <= Framed(d) => i <= Framed(d)'
            BY <1>2, <2>1 DEF Grows
        <3> QED
            BY <3>1, <3>2, <3>3
    <2> QED
        BY <2>2, <2>3
<1>13. PlaceInv'
    BY <1>11, <1>12 DEF PlaceInv
<1>14. KeptInv'
    <2> SUFFICES ASSUME NEW d \in Conns, NEW i \in DOMAIN asked'[d],
                        asked'[d][i] = "known", conn'[d] = "handled",
                        peer'[d] = "up", i <= Framed(d)'
                 PROVE  Held(d, i)'
        BY DEF KeptInv
    <2>1. i \in Nat
        BY DEF TypeOK
    <2>2. CASE d = c /\ i = m
        BY <1>10, <2>2
    <2>3. CASE ~(d = c /\ i = m)
        <3>1. i <= Framed(d)
            <4>1. CASE d = c
                BY <1>4, <2>1, <2>3, <4>1
            <4>2. CASE d # c
                BY <1>2, <4>2 DEF Grows
            <4> QED
                BY <4>1, <4>2
        <3>2. Held(d, i)
            BY <1>1, <1>4, <3>1 DEF KeptInv
        <3> QED
            BY <1>6, <2>1, <2>3, <3>2
    <2> QED
        BY <2>2, <2>3
<1>15. DataInv'
    BY <1>1, <1>2, <1>3, <1>4, EnqueuedData
<1>16. OneRises(c, m)
    <2>1. Flying(c, m)' /\ (Done(c, m)' <=> Done(c, m))
        BY <1>8, <1>9 DEF Flying, Done
    <2>2. ASSUME NEW d \in Conns, NEW i \in 1 .. MaxReq, ~(d = c /\ i = m)
          PROVE  (Flying(d, i)' <=> Flying(d, i)) /\ (Done(d, i)' <=> Done(d, i))
        <3>1. i \in Nat
            OBVIOUS
        <3> QED
            BY <1>6, <2>2, <3>1 DEF Flying, Done
    <2> QED
        BY <2>1, <2>2 DEF OneRises
<1> QED
    BY <1>2, <1>4, <1>13, <1>14, <1>15, <1>16 DEF PlacesKept

(***************************************************************************)
(* A header of length 0 closes its connection; no request moves.           *)
(***************************************************************************)
LEMMA ZeroHeaderPlaces ==
    ASSUME OwnInv, TypeOK', \A c \in Conns : Grows(c), FramePacket,
           Head(inBuffer[ioConn]).data = "zero"
    PROVE  /\ PlacesKept'
           /\ SameFlight
           /\ ioConn \in Conns
           /\ Shutdown(ioConn)
           /\ \A c \in Conns : Still(c)
<1>1. /\ UNCHANGED placeVars
      /\ UNCHANGED wpc
      /\ io = "framing"
      /\ Shutdown(ioConn)
    BY DEF FramePacket, placeVars, queueVars
<1>2. ioConn \in Conns
    BY <1>1 DEF OwnInv, IInv, TypeOK
<1>3. conn'[ioConn] = "closed"
    BY <1>1, <1>2 DEF Shutdown, OwnInv, IInv, TypeOK
<1>4. \A c \in Conns : Still(c)
    BY <1>3 DEF Still, Grows
<1> QED
    BY <1>1, <1>2, <1>4, NothingMoves

LEMMA WorkerPlaces ==
    ASSUME OwnInv, TypeOK', \A c \in Conns : Still(c), NEW w \in Workers, Worker(w)
    PROVE  /\ PlacesKept'
           /\ SameFlight \/ \E d \in Conns, j \in 1 .. MaxReq : OneDropped(d, j)
<1>1. WorkersHold /\ wpc \in [Workers -> WorkStates]
    BY DEF OwnInv, IInv, QueueInv, TypeOK
<1>2. CASE CheckCancelled(w) \/ WakeUp(w) \/ Notify(w)
    <2>1. /\ UNCHANGED placeVars
          /\ io' = io
        BY <1>2 DEF CheckCancelled, WakeUp, Notify, placeVars, queueVars, ioVars
    <2>2. \A v \in Workers : v # w => wpc'[v] = wpc[v]
        BY <1>1, <1>2 DEF CheckCancelled, WakeUp, Notify
    <2>3. \/ nf[w] = NULL
          \/ wpc[w] = "waiting" /\ wpc'[w] = "working"
        BY <1>1, <1>2 DEF CheckCancelled, WakeUp, Notify, WorkersHold, AfterWake
    <2> QED
        BY <2>1, <2>2, <2>3, NothingMoves
<1> QED
    BY <1>2, WaitDequeuePlaces, ProcessPlaces, EnqueueResponsePlaces DEF Worker

LEMMA StepPlaces ==
    ASSUME OwnInv, TypeOK', \A c \in Conns : Grows(c), [Next]_vars
    PROVE  PlacesKept'
<1>1. CASE FramePacket
    BY <1>1, ZeroHeaderPlaces, FramePacketPlaces
<1>2. CASE ~FramePacket
    <2>1. \A c \in Conns : Still(c)
        BY <1>2 DEF Still, Grows
    <2> USE DEF placeVars, queueVars, ioVars, workVars
    <2>2. ASSUME UNCHANGED <<placeVars, wpc>>, io' = io \/ io # "sending"
          PROVE  PlacesKept'
        BY <2>1, <2>2, NothingMoves
    <2>3. ASSUME NEW c \in Conns, Client(c)
          PROVE  PlacesKept'
        BY <2>2, <2>3 DEF Client, Connect, SendPacket, ReadResponse, Leave
    <2>4. CASE Reactor
        BY <2>2, <2>4
        DEF Reactor, OnAcceptor, OnRead, OnReadClosed, OnNotify, OnShutDown
    <2>5. CASE FrameEnd \/ DrainEmpty \/ DrainNonEmpty
        BY <2>2, <2>5 DEF FrameEnd, DrainEmpty, DrainNonEmpty
    <2>6. CASE Handler
        BY <1>2, <2>1, <2>5, <2>6, DequeueResponsePlaces, SendBytesPlaces DEF Handler
    <2>7. ASSUME NEW w \in Workers, Worker(w)
          PROVE  PlacesKept'
        BY <2>1, <2>7, WorkerPlaces
    <2>8. CASE Stop
        BY <2>2, <2>8
        DEF Stop, CloseNotify, StopReactor, JoinIo, CancelAll, WakeUpAll, JoinAll
    <2>9. CASE UNCHANGED vars
        BY <2>2, <2>9 DEF vars
    <2> QED
        BY <2>3, <2>4, <2>6, <2>7, <2>8, <2>9 DEF Next
<1> QED
    BY <1>1, <1>2

LEMMA NextOwnInv == OwnInv /\ [Next]_vars => OwnInv'
<1> SUFFICES ASSUME OwnInv, [Next]_vars
             PROVE  OwnInv'
    OBVIOUS
<1>1. IInv'
    BY NextTypeOK, NextQueueInv, NextNotifyInv DEF OwnInv, IInv, QueueInv
<1>2. \A c \in Conns : Grows(c)
    BY PacketStep DEF OwnInv, IInv
<1>3. PacketInv'
    BY <1>2 DEF PacketInv, Grows
<1>4. PlacesKept'
    BY <1>1, <1>2, StepPlaces DEF IInv
<1> QED
    BY <1>1, <1>3, <1>4 DEF OwnInv, PlacesKept

LEMMA InitOwnInv == Init => OwnInv
<1> SUFFICES ASSUME Init
             PROVE  OwnInv
    OBVIOUS
<1>1. IInv
    BY InitTypeOK, InitQueueInv, InitNotifyInv DEF IInv
<1>2. PacketInv
    <2>1. Rest(<<>>, <<>>, <<>>) = 0 /\ InLine(<<>>, <<>>, <<>>)
        <3>1. Len(<<>>) = 0
            OBVIOUS
        <3>2. Rest(<<>>, <<>>, <<>>) = 0
            <4>1. ASSUME NEW s, Len(s) = 0
                  PROVE  Rest(s, s, s) = 0
                BY <4>1 DEF Rest
            <4> QED
                BY <3>1, <4>1
        <3>3. \A n \in Int : Follows(<<>>, n, <<>>)
            <4>1. \A k \in 1 .. Len(<<>>) : FALSE
                BY <3>1
            <4> QED
                BY <4>1 DEF Follows
        <3>4. Len(<<>>) - Len(<<>>) \in Int
            BY <3>1
        <3> QED
            BY <3>2, <3>3, <3>4 DEF InLine
    <2>2. \A c \in Conns : asked[c] = <<>> /\ wire[c] = <<>> /\ inBuffer[c] = <<>>
        BY DEF Init
    <2> QED
        BY <2>1, <2>2 DEF PacketInv, PacketsOf, Framed
<1>3. ASSUME NEW c \in Conns, NEW i \in 1 .. MaxReq
      PROVE  /\ Waits(c, i) = {} /\ Worked(c, i) = {} /\ Responds(c, i) = {}
             /\ Sent(c, i) = {} /\ Had(c, i) = {}
    BY DEF Init, Waits, Worked, Responds, Sent, Had, InQueue, InHands, InSlot, InGot,
        IsRequest
<1>4. PlaceInv
    BY <1>3 DEF PlaceInv, Held, Taken, Alone, Lone, AtMostOne, Behind
<1>5. DataInv /\ KeptInv
    BY DEF Init, DataInv, KeptInv
<1> QED
    BY <1>1, <1>2, <1>4, <1>5 DEF OwnInv

------------------------------------------------------------------------------
(* The theorems *)

(***************************************************************************)
(* The inductive invariant holds in every reachable state.                 *)
(***************************************************************************)
THEOREM Ownership == Spec => []OwnInv
BY InitOwnInv, NextOwnInv, PTL DEF Spec

\* The places of a request, kind by kind.
LEMMA PlacesByKind ==
    ASSUME NEW c, NEW i, NEW p
    PROVE  p \in Places(c, i) <=>
              \/ \E k \in Waits(c, i) : p = <<"requestQueue", k>>
              \/ \E w \in Worked(c, i) : p = <<"worker", w>>
              \/ \E k \in Responds(c, i) : p = <<"responseQueue", k>>
              \/ \E k \in Sent(c, i) : p = <<"io", k>>
              \/ \E k \in Had(c, i) : p = <<"got", k>>
BY DEF Places, Waits, Worked, Responds, Sent, Had, InQueue, InHands, InSlot, InGot

(***************************************************************************)
(* A notification has one owner at a time, from the request queue to the   *)
(* bytes that ResponseSend writes: no request is executed by two threads,  *)
(* or answered twice, or answered while it waits.                          *)
(***************************************************************************)
THEOREM RequestsHaveOneOwner == Spec => []OneOwner
<1>1. ASSUME OwnInv, NEW c \in Conns, NEW i \in 1 .. MaxReq
      PROVE  Cardinality(Places(c, i)) <= 1
    <2>1. Lone(Waits(c, i), Worked(c, i), Responds(c, i), Sent(c, i), Had(c, i))
        BY <1>1 DEF OwnInv, PlaceInv, Alone
    <2>2. ASSUME NEW p \in Places(c, i), NEW q \in Places(c, i)
          PROVE  p = q
        BY <2>1, PlacesByKind DEF Lone, AtMostOne
    <2>3. CASE Places(c, i) = {}
        BY <2>3, FS_EmptySet
    <2>4. ASSUME NEW p \in Places(c, i)
          PROVE  Cardinality(Places(c, i)) <= 1
        <3>1. Places(c, i) = {p}
            BY <2>2, <2>4
        <3>2. Cardinality({p}) = 1
            BY FS_Singleton
        <3> QED
            BY <3>1, <3>2
    <2> QED
        BY <2>3, <2>4
<1>2. OwnInv => OneOwner
    BY <1>1 DEF OneOwner
<1> QED
    BY <1>2, Ownership, PTL

\* A packet that was sent and not framed is on the wire or buffered.
LEMMA UnframedInLine ==
    ASSUME NEW a \in Seq(Kinds), NEW w \in Seq(Packet), NEW b \in Seq(Packet),
           InLine(a, w, b), NEW i \in DOMAIN a, i > Rest(a, w, b)
    PROVE  \/ \E k \in DOMAIN w : w[k].id = i
           \/ \E k \in DOMAIN b : b[k].id = i
<1>1. /\ Len(a) \in Nat /\ Len(w) \in Nat /\ Len(b) \in Nat
      /\ DOMAIN a = 1 .. Len(a) /\ DOMAIN w = 1 .. Len(w) /\ DOMAIN b = 1 .. Len(b)
    OBVIOUS
<1>2. i \in Nat /\ i <= Len(a)
    BY <1>1
<1> DEFINE r == Len(a) - Len(w) - Len(b)
           n == Len(a) - Len(w)
<1>3. i > r
    BY DEF Rest
<1>4. CASE i <= n
    <2>1. i - r \in 1 .. Len(b)
        BY <1>1, <1>2, <1>3, <1>4
    <2>2. b[i - r].id = r + (i - r)
        BY <2>1 DEF InLine, Follows, Rest
    <2>3. r + (i - r) = i
        BY <1>1, <1>2
    <2> QED
        BY <1>1, <2>1, <2>2, <2>3
<1>5. CASE i > n
    <2>1. i - n \in 1 .. Len(w)
        BY <1>1, <1>2, <1>5
    <2>2. w[i - n].id = n + (i - n)
        BY <2>1 DEF InLine, Follows
    <2>3. n + (i - n) = i
        BY <1>1, <1>2
    <2> QED
        BY <1>1, <2>1, <2>2, <2>3
<1> QED
    BY <1>1, <1>2, <1>4, <1>5

(***************************************************************************)
(* A request for a known program is never lost between the client's send   *)
(* and the answer, as long as both ends keep the connection open: neither  *)
(* by the hand-over to a sleeping thread, nor by sendResponse's test of    *)
(* the handler, nor by an empty response.                                  *)
(***************************************************************************)
THEOREM RequestsNotLost == Spec => []NoLostRequest
<1>1. ASSUME OwnInv, NEW c \in Conns, NEW i \in DOMAIN asked[c],
             asked[c][i] = "known", conn[c] = "handled", peer[c] = "up"
      PROVE  NotReceived(c, i) \/ Places(c, i) # {}
    <2>1. TypeOK /\ PacketsOf(c) /\ KeptInv
        BY <1>1 DEF OwnInv, IInv, PacketInv
    <2>2. Framed(c) \in Int /\ i \in Nat
        BY <2>1, ConnTypes DEF TypeOK
    <2>3. CASE i <= Framed(c)
        <3>1. Held(c, i)
            BY <1>1, <2>1, <2>3 DEF KeptInv
        <3> QED
            BY <3>1, PlacesByKind DEF Held, Taken
    <2>4. CASE i > Framed(c)
        <3>1. InLine(asked[c], wire[c], inBuffer[c])
            BY <2>1 DEF PacketsOf
        <3>2. i > Rest(asked[c], wire[c], inBuffer[c])
            BY <2>4 DEF Framed
        <3> QED
            BY <1>1, <2>1, <3>1, <3>2, ConnTypes, UnframedInLine DEF NotReceived
    <2> QED
        BY <2>2, <2>3, <2>4
<1>2. OwnInv => NoLostRequest
    BY <1>1 DEF NoLostRequest
<1> QED
    BY <1>2, Ownership, PTL

(***************************************************************************)
(* The requests of a connection are taken in the order in which they were  *)
(* sent: while one waits in requestQueue no later one is with a thread, in *)
(* responseQueue or answered, and the later ones wait behind it.           *)
(***************************************************************************)
THEOREM RequestsTakenInOrder == Spec => []TakenInOrder
<1>1. ASSUME OwnInv, NEW k \in DOMAIN requestQueue,
             NEW j \in (requestQueue[k].id + 1) .. MaxReq,
             NEW p \in Places(requestQueue[k].conn, j)
      PROVE  p[1] = "requestQueue" /\ p[2] > k
    <2>1. PICK c \in Conns, i \in 1 .. MaxReq :
                 requestQueue[k].conn = c /\ requestQueue[k].id = i
        <3>1. requestQueue[k] \in TaskNotification
            BY <1>1 DEF OwnInv, IInv, TypeOK
        <3> QED
            BY <3>1 DEF TaskNotification
    <2>2. k \in Waits(c, i)
        <3>1. requestQueue[k] \in TaskNotification /\ requestQueue[k] # NULL
            BY <1>1, PipelineAssumption DEF OwnInv, IInv, TypeOK
        <3> QED
            BY <1>1, <2>1, <3>1 DEF Waits, InQueue, IsRequest
    <2>3. j \in (i + 1) .. MaxReq /\ p \in Places(c, j)
        BY <1>1, <2>1
    <2>4. ~Taken(c, j) /\ \A l \in Waits(c, j) : l > k
        BY <1>1, <2>2, <2>3 DEF OwnInv, PlaceInv, Behind
    <2>5. \E l \in Waits(c, j) : p = <<"requestQueue", l>>
        BY <2>3, <2>4, PlacesByKind DEF Taken
    <2> QED
        BY <2>4, <2>5
<1>2. OwnInv => TakenInOrder
    BY <1>1 DEF TakenInOrder
<1> QED
    BY <1>2, Ownership, PTL

------------------------------------------------------------------------------
(* The refinement *)

(***************************************************************************)
(* Only the io thread closes connections, so the one it writes to is open. *)
(***************************************************************************)
SendingOpen == io = "sending" => conn[ioNf.conn] = "handled"

ServedInv == OwnInv /\ SendingOpen

LEMMA NextSendingOpen ==
    ASSUME TypeOK, SendingOpen, [Next]_vars
    PROVE  SendingOpen'
<1> USE DEF SendingOpen, ioVars, socketVars
<1>0. io = "sending" => ioNf.conn \in Conns
    BY HeldType DEF TypeOK
<1>1. ASSUME UNCHANGED <<conn, io, ioNf>>
      PROVE  SendingOpen'
    BY <1>1
<1>2. ASSUME NEW c \in Conns, Connect(c)
      PROVE  SendingOpen'
    BY <1>0, <1>2 DEF Connect, TypeOK
<1>3. ASSUME NEW c \in Conns, Client(c)
      PROVE  SendingOpen'
    BY <1>1, <1>2, <1>3 DEF Client, SendPacket, ReadResponse, Leave
<1>4. CASE Reactor
    BY <1>4 DEF Reactor, OnAcceptor, OnRead, OnReadClosed, OnNotify, OnShutDown, AfterByte
<1>5. CASE DequeueResponse
    BY <1>5 DEF DequeueResponse, HasHandler, handlerMap
<1>6. CASE Handler
    BY <1>5, <1>6 DEF Handler, FramePacket, FrameEnd, DrainEmpty, DrainNonEmpty, SendBytes
<1>7. ASSUME NEW w \in Workers, Worker(w)
      PROVE  SendingOpen'
    BY <1>1, <1>7
    DEF Worker, CheckCancelled, WaitDequeue, WakeUp, Process, EnqueueResponse, Notify
<1>8. CASE Stop
    BY <1>1, <1>8
    DEF Stop, CloseNotify, StopReactor, JoinIo, CancelAll, WakeUpAll, JoinAll
<1>9. CASE UNCHANGED vars
    BY <1>1, <1>9 DEF vars
<1> QED
    BY <1>3, <1>4, <1>6, <1>7, <1>8, <1>9 DEF Next

\* The abstract state, connection by connection.
StateOf(c) == CASE conn[c] \in {"none", "backlog"} -> "new"
                [] conn[c] = "handled"            -> "open"
                [] conn[c] = "closed"             -> "closed"

AcceptedOf(c) == IF conn[c] = "handled" THEN Framed(c) ELSE 0

PendingOf(c) == {i \in 1 .. MaxReq : Flying(c, i)}

AnsweredOf(c) == {i \in 1 .. MaxReq : Done(c, i)}

Mapped ==
    /\ AbstractState    = [c \in Conns |-> StateOf(c)]
    /\ AbstractAccepted = [c \in Conns |-> AcceptedOf(c)]
    /\ AbstractPending  = [c \in Conns |-> PendingOf(c)]
    /\ AbstractAnswered = [c \in Conns |-> AnsweredOf(c)]

LEMMA MappedAlways == OwnInv => Mapped
<1> SUFFICES ASSUME OwnInv
             PROVE  Mapped
    OBVIOUS
<1>1. TypeOK /\ DataInv
    BY DEF OwnInv, IInv
<1>2. ASSUME NEW n, NEW c \in Conns, NEW i, n \in InFlight, n.conn = c, n.id = i
      PROVE  i \in 1 .. MaxReq /\ Flying(c, i)
    <2>1. n # NULL
        BY <1>2 DEF InFlight
    <2>2. IsRequest(n, c, i)
        BY <1>2, <2>1 DEF IsRequest
    <2>3. CASE \E k \in DOMAIN requestQueue : n = requestQueue[k]
        <3>1. Waits(c, i) # {}
            BY <2>2, <2>3 DEF Waits, InQueue
        <3>2. n \in TaskNotification
            BY <1>1, <2>3 DEF TypeOK
        <3> QED
            BY <1>1, <1>2, <3>1, <3>2, HeldType DEF Flying
    <2>4. CASE \E k \in DOMAIN responseQueue : n = responseQueue[k]
        <3>1. Responds(c, i) # {}
            BY <2>2, <2>4 DEF Responds, InQueue
        <3>2. n \in TaskNotification
            BY <1>1, <2>4 DEF TypeOK
        <3> QED
            BY <1>1, <1>2, <3>1, <3>2, HeldType DEF Flying
    <2>5. CASE \E w \in Workers : n = nf[w]
        <3>1. Worked(c, i) # {}
            BY <2>2, <2>5 DEF Worked, InHands
        <3>2. n \in TaskNotification
            BY <1>1, <2>1, <2>5 DEF TypeOK
        <3> QED
            BY <1>1, <1>2, <3>1, <3>2, HeldType DEF Flying
    <2>6. CASE n = ioNf
        <3>1. Sent(c, i) # {}
            BY <2>2, <2>6 DEF Sent, InSlot
        <3>2. n \in TaskNotification
            BY <1>1, <2>1, <2>6 DEF TypeOK, DataInv
        <3> QED
            BY <1>1, <1>2, <3>1, <3>2, HeldType DEF Flying
    <2> QED
        BY <1>2, <2>3, <2>4, <2>5, <2>6 DEF InFlight
<1>3. ASSUME NEW c \in Conns, NEW i \in 1 .. MaxReq, Flying(c, i)
      PROVE  \E n \in InFlight : n.conn = c /\ n.id = i
    <2>1. CASE Waits(c, i) # {}
        BY <2>1 DEF Waits, InQueue, IsRequest, InFlight
    <2>2. CASE Worked(c, i) # {}
        BY <2>2 DEF Worked, InHands, IsRequest, InFlight
    <2>3. CASE Responds(c, i) # {}
        BY <2>3 DEF Responds, InQueue, IsRequest, InFlight
    <2>4. CASE Sent(c, i) # {}
        BY <2>4 DEF Sent, InSlot, IsRequest, InFlight
    <2> QED
        BY <1>3, <2>1, <2>2, <2>3, <2>4 DEF Flying
<1>4. AbstractPending = [c \in Conns |-> PendingOf(c)]
    <2>1. ASSUME NEW c \in Conns
          PROVE  {n.id : n \in {m \in InFlight : m.conn = c}} = PendingOf(c)
        BY <1>2, <1>3 DEF PendingOf
    <2> QED
        BY <2>1 DEF AbstractPending
<1>5. AbstractAnswered = [c \in Conns |-> AnsweredOf(c)]
    <2>1. ASSUME NEW c \in Conns
          PROVE  {got[c][k] : k \in DOMAIN got[c]} = AnsweredOf(c)
        <3>1. got[c] \in Seq(1 .. MaxReq)
            BY <1>1 DEF TypeOK
        <3>2. \A k \in DOMAIN got[c] : got[c][k] \in 1 .. MaxReq
            <4>1. ASSUME NEW R, NEW s \in Seq(R)
                  PROVE  \A k \in DOMAIN s : s[k] \in R
                OBVIOUS
            <4> QED
                BY <3>1, <4>1
        <3> QED
            BY <3>2 DEF AnsweredOf, Done, Had, InGot
    <2> QED
        BY <2>1 DEF AbstractAnswered
<1>6. AbstractState = [c \in Conns |-> StateOf(c)]
    BY DEF AbstractState, StateOf
<1>7. AbstractAccepted = [c \in Conns |-> AcceptedOf(c)]
    BY DEF AbstractAccepted, AcceptedOf, Framed, Rest
<1> QED
    BY <1>4, <1>5, <1>6, <1>7 DEF Mapped

\* No connection is opened or closed and nothing is accepted.
SameSockets ==
    \A c \in Conns : StateOf(c)' = StateOf(c) /\ AcceptedOf(c)' = AcceptedOf(c)

\* The connections of S are closed and nothing else happens to any.
Closes(S) ==
    \A c \in Conns :
        /\ c \in S => conn[c] = "handled"
        /\ conn'[c] = IF c \in S THEN "closed" ELSE conn[c]
        /\ Still(c)

LEMMA SameFlightMaps ==
    ASSUME SameFlight
    PROVE  \A c \in Conns : PendingOf(c)' = PendingOf(c) /\ AnsweredOf(c)' = AnsweredOf(c)
BY DEF SameFlight, PendingOf, AnsweredOf

LEMMA OneLandsMaps ==
    ASSUME NEW d \in Conns, NEW j \in 1 .. MaxReq, OneDropped(d, j) \/ OneAnswered(d, j)
    PROVE  /\ j \in PendingOf(d)
           /\ PendingOf(d)' = PendingOf(d) \ {j}
           /\ \A c \in Conns : c # d => PendingOf(c)' = PendingOf(c)
           /\ OneDropped(d, j) => \A c \in Conns : AnsweredOf(c)' = AnsweredOf(c)
           /\ OneAnswered(d, j) =>
                 /\ AnsweredOf(d)' = AnsweredOf(d) \cup {j}
                 /\ \A c \in Conns : c # d => AnsweredOf(c)' = AnsweredOf(c)
<1>1. j \in PendingOf(d)
    BY DEF OneDropped, OneAnswered, PendingOf
<1>2. \A c \in Conns, i \in 1 .. MaxReq :
          Flying(c, i)' <=> Flying(c, i) /\ ~(c = d /\ i = j)
    BY DEF OneDropped, OneAnswered
<1>3. /\ PendingOf(d)' = PendingOf(d) \ {j}
      /\ \A c \in Conns : c # d => PendingOf(c)' = PendingOf(c)
    BY <1>2 DEF PendingOf
<1>4. ASSUME OneDropped(d, j)
      PROVE  \A c \in Conns : AnsweredOf(c)' = AnsweredOf(c)
    BY <1>4 DEF OneDropped, AnsweredOf
<1>5. ASSUME OneAnswered(d, j)
      PROVE  /\ AnsweredOf(d)' = AnsweredOf(d) \cup {j}
             /\ \A c \in Conns : c # d => AnsweredOf(c)' = AnsweredOf(c)
    BY <1>5 DEF OneAnswered, AnsweredOf
<1> QED
    BY <1>1, <1>3, <1>4, <1>5

LEMMA StutterMaps ==
    ASSUME Mapped, Mapped', SameSockets, SameFlight
    PROVE  UNCHANGED (Service!svars)
<1>1. \A c \in Conns : /\ StateOf(c)' = StateOf(c) /\ AcceptedOf(c)' = AcceptedOf(c)
                       /\ PendingOf(c)' = PendingOf(c) /\ AnsweredOf(c)' = AnsweredOf(c)
    BY SameFlightMaps DEF SameSockets
<1> QED
    BY <1>1 DEF Mapped, Service!svars

LEMMA LandsMaps ==
    ASSUME Mapped, Mapped', SameSockets, NEW d \in Conns, NEW j \in 1 .. MaxReq,
           OneDropped(d, j) \/ (OneAnswered(d, j) /\ conn[d] = "handled")
    PROVE  Service!Next
<1>1. \A c \in Conns : StateOf(c)' = StateOf(c) /\ AcceptedOf(c)' = AcceptedOf(c)
    BY DEF SameSockets
<1>2. UNCHANGED <<AbstractState, AbstractAccepted>>
    BY <1>1 DEF Mapped
<1>3. Service!Remove(d, j)
    BY OneLandsMaps DEF Mapped, Service!Remove
<1>4. CASE OneDropped(d, j)
    <2>1. AbstractAnswered' = AbstractAnswered
        BY <1>4, OneLandsMaps DEF Mapped
    <2>2. Service!Drop(d, j)
        BY <1>2, <1>3, <2>1 DEF Service!Drop
    <2> QED
        BY <2>2 DEF Service!Next, Service!Ids
<1>5. CASE OneAnswered(d, j) /\ conn[d] = "handled"
    <2>1. AbstractAnswered' = [AbstractAnswered EXCEPT ![d] = @ \cup {j}]
        BY <1>5, OneLandsMaps DEF Mapped
    <2>2. AbstractState[d] = "open"
        BY <1>5 DEF Mapped, StateOf
    <2>3. Service!Answer(d, j)
        BY <1>2, <1>3, <2>1, <2>2 DEF Service!Answer
    <2> QED
        BY <2>3 DEF Service!Next, Service!Ids
<1> QED
    BY <1>4, <1>5

LEMMA ClosesMaps ==
    ASSUME Mapped, Mapped', NEW S \in SUBSET Conns, Closes(S)
    PROVE  Service!CloseAll(S)
<1>1. \A c \in S : StateOf(c) = "open"
    BY DEF Closes, StateOf
<1>2. ASSUME NEW c \in Conns
      PROVE  StateOf(c)' = IF c \in S THEN "closed" ELSE StateOf(c)
    <2>1. CASE c \in S
        <3>1. conn'[c] = "closed"
            BY <2>1 DEF Closes
        <3> QED
            BY <2>1, <3>1 DEF StateOf
    <2>2. CASE c \notin S
        <3>1. conn'[c] = conn[c]
            BY <2>2 DEF Closes
        <3>2. StateOf(c)' = StateOf(c)
            BY <3>1 DEF StateOf
        <3> QED
            BY <2>2, <3>2
    <2> QED
        BY <2>1, <2>2
<1>3. \A c \in Conns : AcceptedOf(c)' = IF c \in S THEN 0 ELSE AcceptedOf(c)
    BY DEF Closes, AcceptedOf, Still
<1> QED
    BY <1>1, <1>2, <1>3 DEF Mapped, Service!CloseAll

LEMMA CloseMaps ==
    ASSUME Mapped, Mapped', NEW S \in SUBSET Conns, Closes(S), SameFlight
    PROVE  Service!Next
<1>1. UNCHANGED <<AbstractPending, AbstractAnswered>>
    BY SameFlightMaps DEF Mapped
<1> QED
    BY <1>1, ClosesMaps DEF Service!Next, Service!Close

LEMMA RejectMaps ==
    ASSUME Mapped, Mapped', NEW d \in Conns, NEW j \in 1 .. MaxReq, Closes({d}),
           OneDropped(d, j)
    PROVE  Service!Next
<1>1. Service!Remove(d, j) /\ AbstractAnswered' = AbstractAnswered
    BY OneLandsMaps DEF Mapped, Service!Remove
<1>2. Service!CloseAll({d})
    BY ClosesMaps
<1> QED
    BY <1>1, <1>2 DEF Service!Next, Service!Reject, Service!Ids

LEMMA FrameMaps ==
    ASSUME OwnInv, TypeOK', \A c \in Conns : Grows(c), Mapped, Mapped', FramePacket
    PROVE  Service!Next
<1>1. PICK d \in Conns : ioConn = d /\ inBuffer[d] # <<>>
    BY DEF FramePacket, Framable, OwnInv, IInv, TypeOK
<1>2. conn[d] = "handled" /\ conn \in [Conns -> ConnStates]
    BY <1>1 DEF OwnInv, IInv, TypeOK, PacketInv, PacketsOf
<1>3. CASE Head(inBuffer[ioConn]).data = "zero"
    <2>1. SameFlight /\ Shutdown(d) /\ \A c \in Conns : Still(c)
        BY <1>1, <1>3, ZeroHeaderPlaces
    <2>2. Closes({d})
        BY <1>2, <2>1 DEF Closes, Shutdown
    <2> QED
        BY <2>1, <2>2, CloseMaps
<1>4. CASE Head(inBuffer[ioConn]).data # "zero"
    <2>1. PICK j \in 1 .. MaxReq :
                 /\ j = Framed(d) + 1
                 /\ Framed(d)' = j
                 /\ OneRises(d, j)
        BY <1>1, <1>4, FramePacketPlaces
    <2>2. conn' = conn
        BY <1>4, FramePacketPlaces
    <2>3. \A c \in Conns : StateOf(c)' = StateOf(c)
        BY <2>2 DEF StateOf
    <2>4. Framed(d) \in Int
        BY DEF Grows
    <2>5. AcceptedOf(d) = Framed(d) /\ AcceptedOf(d)' = Framed(d)'
        BY <1>2, <2>2 DEF AcceptedOf
    <2>6. \A c \in Conns : c # d => AcceptedOf(c)' = AcceptedOf(c)
        BY <1>1, <2>2 DEF AcceptedOf, Grows
    <2>7. PendingOf(d)' = PendingOf(d) \cup {j}
        BY <2>1 DEF OneRises, PendingOf
    <2>8. \A c \in Conns : c # d => PendingOf(c)' = PendingOf(c)
        BY <2>1 DEF OneRises, PendingOf
    <2>9. \A c \in Conns : AnsweredOf(c)' = AnsweredOf(c)
        BY <2>1 DEF OneRises, AnsweredOf
    <2>10. /\ AbstractState[d] = "open"
           /\ AbstractAccepted[d] = Framed(d)
        BY <1>2, <2>5 DEF Mapped, StateOf
    <2>11. Framed(d) < MaxReq
        BY <2>1, <2>4, PipelineAssumption
    <2>12. AbstractAccepted' = [AbstractAccepted EXCEPT ![d] = @ + 1]
        BY <2>1, <2>5, <2>6 DEF Mapped
    <2>13. AbstractPending' = [AbstractPending EXCEPT ![d] = @ \cup {j}]
        BY <2>7, <2>8 DEF Mapped
    <2>14. UNCHANGED <<AbstractState, AbstractAnswered>>
        BY <2>3, <2>9 DEF Mapped
    <2>15. Service!Accept(d)
        BY <2>1, <2>10, <2>11, <2>12, <2>13, <2>14 DEF Service!Accept
    <2> QED
        BY <2>15 DEF Service!Next
<1> QED
    BY <1>3, <1>4

LEMMA OpenMaps ==
    ASSUME Mapped, Mapped', \A c \in Conns : Still(c), SameFlight, TypeOK,
           NEW d \in Conns, OnAcceptor(d)
    PROVE  Service!Next
<1>1. /\ conn[d] = "backlog"
      /\ conn' = [conn EXCEPT ![d] = "handled"]
      /\ conn \in [Conns -> ConnStates]
    BY DEF OnAcceptor, TypeOK
<1>2. StateOf(d) = "new" /\ StateOf(d)' = "open"
    BY <1>1 DEF StateOf
<1>3. \A c \in Conns : c # d => StateOf(c)' = StateOf(c)
    BY <1>1 DEF StateOf
<1>4. AcceptedOf(d)' = 0 /\ AcceptedOf(d) = 0
    BY <1>1 DEF AcceptedOf, Still, Grows
<1>5. \A c \in Conns : c # d => AcceptedOf(c)' = AcceptedOf(c)
    BY <1>1 DEF AcceptedOf, Still
<1>6. Service!Open(d)
    BY <1>2, <1>3, <1>4, <1>5, SameFlightMaps DEF Mapped, Service!Open
<1> QED
    BY <1>6 DEF Service!Next

LEMMA StepMaps ==
    ASSUME ServedInv, TypeOK', [Next]_vars, Mapped, Mapped',
           \A c \in Conns : Grows(c)
    PROVE  [Service!Next]_(Service!svars)
<1>0. OwnInv /\ TypeOK /\ conn \in [Conns -> ConnStates]
    BY DEF ServedInv, OwnInv, IInv, TypeOK
<1>1. CASE FramePacket
    BY <1>0, <1>1, FrameMaps
<1>2. CASE ~FramePacket
    <2>1. \A c \in Conns : Still(c)
        BY <1>2 DEF Still, Grows
    <2>2. ASSUME conn' = conn
          PROVE  SameSockets
        BY <2>1, <2>2 DEF SameSockets, StateOf, AcceptedOf, Still
    <2> USE DEF placeVars, queueVars, ioVars, workVars, socketVars
    <2>3. ASSUME UNCHANGED <<placeVars, wpc>>, io' = io \/ io # "sending"
          PROVE  SameFlight
        BY <1>0, <2>1, <2>3, NothingMoves
    <2>4. ASSUME UNCHANGED <<placeVars, wpc, conn>>, io' = io \/ io # "sending"
          PROVE  UNCHANGED (Service!svars)
        BY <2>2, <2>3, <2>4, StutterMaps
    <2>5. ASSUME NEW c \in Conns, Client(c)
          PROVE  UNCHANGED (Service!svars)
        <3>1. CASE Connect(c)
            <4>1. /\ conn[c] = "none"
                  /\ conn' = [conn EXCEPT ![c] = "backlog"]
                BY <3>1 DEF Connect
            <4>2. StateOf(c) = "new" /\ StateOf(c)' = "new"
                BY <1>0, <4>1 DEF StateOf
            <4>3. \A d \in Conns : d # c => StateOf(d)' = StateOf(d)
                BY <1>0, <4>1 DEF StateOf
            <4>4. \A d \in Conns : AcceptedOf(d)' = AcceptedOf(d)
                BY <1>0, <2>1, <4>1 DEF AcceptedOf, Still
            <4>5. SameSockets
                BY <4>2, <4>3, <4>4 DEF SameSockets
            <4>6. SameFlight
                BY <2>3, <3>1 DEF Connect
            <4> QED
                BY <4>5, <4>6, StutterMaps
        <3>2. CASE Leave(c) \/ ReadResponse(c) \/ \E kind \in Sends : SendPacket(c, kind)
            BY <2>4, <3>2 DEF SendPacket, ReadResponse, Leave
        <3> QED
            BY <2>5, <3>1, <3>2 DEF Client
    <2>6. ASSUME NEW c \in Conns, OnAcceptor(c)
          PROVE  Service!Next
        <3>1. SameFlight
            BY <2>3, <2>6 DEF OnAcceptor
        <3> QED
            BY <1>0, <2>1, <2>6, <3>1, OpenMaps
    <2>7. ASSUME NEW c \in Conns, OnReadClosed(c)
          PROVE  Service!Next
        <3>1. SameFlight
            BY <2>3, <2>7 DEF OnReadClosed
        <3>2. Closes({c})
            BY <1>0, <2>1, <2>7 DEF OnReadClosed, handlerMap, Shutdown, Closes
        <3> QED
            BY <3>1, <3>2, CloseMaps
    <2>8. CASE OnShutDown
        <3>1. SameFlight
            BY <2>3, <2>8 DEF OnShutDown
        <3>2. handlerMap \in SUBSET Conns /\ Closes(handlerMap)
            BY <2>1, <2>8 DEF OnShutDown, handlerMap, Closes
        <3> QED
            BY <3>1, <3>2, CloseMaps
    <2>9. ASSUME NEW c \in Conns, OnRead(c)
          PROVE  UNCHANGED (Service!svars)
        BY <2>4, <2>9 DEF OnRead
    <2>10. CASE OnNotify
        BY <2>4, <2>10 DEF OnNotify
    <2>11. CASE Reactor
        BY <2>6, <2>7, <2>8, <2>9, <2>10, <2>11 DEF Reactor
    <2>12. CASE FrameEnd \/ DrainEmpty \/ DrainNonEmpty
        BY <2>4, <2>12 DEF FrameEnd, DrainEmpty, DrainNonEmpty
    <2>13. CASE DequeueResponse
        <3>1. CASE SameFlight /\ conn' = conn
            BY <2>2, <3>1, StutterMaps
        <3>2. ASSUME NEW d \in Conns, NEW j \in 1 .. MaxReq, OneDropped(d, j),
                     conn' = conn
              PROVE  Service!Next
            BY <2>2, <3>2, LandsMaps
        <3>3. ASSUME NEW d \in Conns, NEW j \in 1 .. MaxReq, OneDropped(d, j),
                     conn[d] = "handled", Shutdown(d)
              PROVE  Service!Next
            <4>1. Closes({d})
                BY <1>0, <2>1, <3>3 DEF Closes, Shutdown
            <4> QED
                BY <3>3, <4>1, RejectMaps
        <3> QED
            BY <1>0, <2>1, <2>13, <3>1, <3>2, <3>3, DequeueResponsePlaces
    <2>14. CASE SendBytes
        <3>1. conn' = conn
            BY <2>14 DEF SendBytes
        <3>2. ioNf.conn \in Conns /\ conn[ioNf.conn] = "handled"
            BY <1>0, <2>14, HeldType DEF SendBytes, TypeOK, ServedInv, SendingOpen
        <3>3. PICK d \in Conns, j \in 1 .. MaxReq :
                     /\ conn[d] = "handled"
                     /\ OneDropped(d, j) \/ OneAnswered(d, j)
            BY <1>0, <2>1, <2>14, <3>2, SendBytesPlaces
        <3> QED
            BY <2>2, <3>1, <3>3, LandsMaps
    <2>15. CASE Handler
        BY <1>2, <2>12, <2>13, <2>14, <2>15 DEF Handler
    <2>16. ASSUME NEW w \in Workers, Worker(w)
           PROVE  [Service!Next]_(Service!svars)
        <3>1. SameSockets
            BY <2>2, <2>16
            DEF Worker, CheckCancelled, WaitDequeue, WakeUp, Process, EnqueueResponse, Notify
        <3>2. SameFlight \/ \E d \in Conns, j \in 1 .. MaxReq : OneDropped(d, j)
            BY <1>0, <2>1, <2>16, WorkerPlaces
        <3> QED
            BY <3>1, <3>2, StutterMaps, LandsMaps
    <2>17. CASE Stop
        BY <2>4, <2>17
        DEF Stop, CloseNotify, StopReactor, JoinIo, CancelAll, WakeUpAll, JoinAll
    <2>18. CASE UNCHANGED vars
        BY <2>4, <2>18 DEF vars
    <2> QED
        BY <2>5, <2>11, <2>15, <2>16, <2>17, <2>18 DEF Next
<1> QED
    BY <1>1, <1>2

LEMMA InitMaps == Init /\ OwnInv => Service!Init
<1> SUFFICES ASSUME Init, OwnInv
             PROVE  Service!Init
    OBVIOUS
<1>1. Mapped
    BY MappedAlways
<1>2. \A c \in Conns : conn[c] = "none"
    BY DEF Init
<1>3. \A c \in Conns : StateOf(c) = "new" /\ AcceptedOf(c) = 0
    BY <1>2 DEF StateOf, AcceptedOf
<1>4. \A c \in Conns, i \in 1 .. MaxReq : ~Flying(c, i) /\ ~Done(c, i)
    BY DEF Init, Flying, Done, Waits, Worked, Responds, Sent, Had, InQueue, InHands,
        InSlot, InGot, IsRequest
<1>5. \A c \in Conns : PendingOf(c) = {} /\ AnsweredOf(c) = {}
    BY <1>4 DEF PendingOf, AnsweredOf
<1> QED
    BY <1>1, <1>3, <1>5 DEF Mapped, Service!Init

(***************************************************************************)
(* The pipeline implements the service for any number of clients and       *)
(* threads: every step of the io thread, a work thread or stop() accepts,  *)
(* answers or drops one request, opens or closes connections, or changes   *)
(* nothing that a client can see.                                          *)
(***************************************************************************)
THEOREM PipelineImplementsService == Spec => ImplementsService
<1>1. Init => ServedInv /\ Service!Init
    BY InitOwnInv, InitMaps DEF Init, ServedInv, SendingOpen
<1>2. ServedInv /\ [Next]_vars => ServedInv'
    BY NextOwnInv, NextSendingOpen DEF ServedInv, OwnInv, IInv
<1>3. ServedInv => Mapped
    BY MappedAlways DEF ServedInv
<1>4. ServedInv /\ ServedInv' /\ Mapped /\ Mapped' /\ [Next]_vars
          => [Service!Next]_(Service!svars)
    BY PacketStep, StepMaps DEF ServedInv, OwnInv, IInv
<1> QED
    BY <1>1, <1>2, <1>3, <1>4, PTL DEF Spec, ImplementsService, Service!Spec
==============================================================================
