---------------------------- MODULE SocketProofs ----------------------------
(***************************************************************************)
(* Proofs about the UDP socket's two directions and what they carry:       *)
(* UdpChannel, EventLoop and Framing, whose FramingConstants is a          *)
(* hypothesis here.  They share nothing.                                   *)
(***************************************************************************)
EXTENDS UdpChannel, EventLoop, Framing, TLAPS, SequenceTheorems

-----------------------------------------------------------------------------
(***************************************************************************)
(* UdpChannel: the sink never joins two messages, the writer fails only    *)
(* where the kernel refuses a datagram, and UdpChannel implements          *)
(* EgressQueue, for every set of addresses and payloads.                   *)
(***************************************************************************)

Wire == [to : Endpoints, data : Payloads]

(***************************************************************************)
(* The inductive invariant: what is in the buffer is one whole message     *)
(* exactly while something is pending.                                     *)
(***************************************************************************)
IInv ==
  /\ TypeOK
  /\ IF flushed THEN wr = <<>> ELSE wr \in Payloads
  /\ wire \in Seq(Wire)

LEMMA EmptyConcat ==
  ASSUME NEW S, NEW s \in Seq(S)
  PROVE  <<>> \o s = s
OBVIOUS

LEMMA ConsProperties ==
  ASSUME NEW S, NEW x \in S, NEW s \in Seq(S)
  PROVE  /\ <<x>> \o s # <<>>
         /\ Head(<<x>> \o s) = x
         /\ Tail(<<x>> \o s) = s
OBVIOUS

LEMMA AppendConcat ==
  ASSUME NEW S, NEW r \in Seq(S), NEW s \in Seq(S), NEW x \in S
  PROVE  r \o Append(s, x) = Append(r \o s, x)
OBVIOUS

LEMMA HeadTail ==
  ASSUME NEW S, NEW s \in Seq(S), s # <<>>
  PROVE  /\ Head(s) \in S
         /\ Tail(s) \in Seq(S)
         /\ <<Head(s)>> \o Tail(s) = s
OBVIOUS

LEMMA DatagramType ==
  ASSUME NEW m \in Message PROVE Datagram(m) \in Wire
BY DEF Datagram, Message, Wire

\* Datagrams follows a sequence of messages element by element.
LEMMA DatagramsType ==
  ASSUME NEW c \in Seq(Message)
  PROVE  /\ Datagrams(c) \in Seq(Wire)
         /\ Len(Datagrams(c)) = Len(c)
         /\ \A n \in 1 .. Len(c) : Datagrams(c)[n] = Datagram(c[n])
<1>1. Len(c) \in Nat
  OBVIOUS
<1>2. \A n \in 1 .. Len(c) : c[n] \in Message
  OBVIOUS
<1>3. \A n \in 1 .. Len(c) : Datagram(c[n]) \in Wire
  BY <1>2, DatagramType
<1>4. Datagrams(c) \in [1 .. Len(c) -> Wire]
  BY <1>3 DEF Datagrams
<1>5. QED
  BY <1>1, <1>4 DEF Datagrams

LEMMA DatagramsAppend ==
  ASSUME NEW c \in Seq(Message), NEW m \in Message
  PROVE  Datagrams(Append(c, m)) = Append(Datagrams(c), Datagram(m))
<1> DEFINE d == Append(c, m)
<1>1. d \in Seq(Message) /\ Len(d) = Len(c) + 1 /\ d[Len(c) + 1] = m
      /\ (\A n \in 1 .. Len(c) : d[n] = c[n])
  BY AppendProperties
<1> HIDE DEF d
<1>2. Datagrams(c) \in Seq(Wire) /\ Len(Datagrams(c)) = Len(c)
      /\ (\A n \in 1 .. Len(c) : Datagrams(c)[n] = Datagram(c[n]))
  BY DatagramsType
<1>3. Datagrams(d) \in Seq(Wire) /\ Len(Datagrams(d)) = Len(d)
      /\ (\A n \in 1 .. Len(d) : Datagrams(d)[n] = Datagram(d[n]))
  BY <1>1, DatagramsType
<1> DEFINE e == Append(Datagrams(c), Datagram(m))
<1>4. e \in Seq(Wire) /\ Len(e) = Len(c) + 1 /\ e[Len(c) + 1] = Datagram(m)
      /\ (\A n \in 1 .. Len(c) : e[n] = Datagrams(c)[n])
  BY <1>2, DatagramType, AppendProperties
<1> HIDE DEF e
<1>5. Len(c) \in Nat
  OBVIOUS
<1>6. \A n \in 1 .. Len(d) : Datagrams(d)[n] = e[n]
  <2> SUFFICES ASSUME NEW n \in 1 .. Len(d) PROVE Datagrams(d)[n] = e[n]
    OBVIOUS
  <2>1. CASE n = Len(c) + 1
    BY <2>1, <1>1, <1>3, <1>4
  <2>2. CASE n \in 1 .. Len(c)
    BY <2>2, <1>1, <1>2, <1>3, <1>4
  <2>3. QED
    BY <2>1, <2>2, <1>1, <1>5
<1>7. Datagrams(d) = e
  BY <1>1, <1>3, <1>4, <1>6, SeqEqual
<1>8. QED
  BY <1>7 DEF d, e

\* The first message on its own, and the rest.
LEMMA DatagramsHeadTail ==
  ASSUME NEW c \in Seq(Message), c # <<>>
  PROVE  Datagrams(c) = <<Datagram(Head(c))>> \o Datagrams(Tail(c))
<1>1. Head(c) \in Message /\ Tail(c) \in Seq(Message) /\ Len(c) \in Nat /\ Len(c) >= 1
      /\ Len(Tail(c)) = Len(c) - 1 /\ c[1] = Head(c)
      /\ (\A n \in 1 .. Len(c) - 1 : Tail(c)[n] = c[n + 1])
  BY SMTT(30)
<1> DEFINE t == Datagrams(Tail(c))
<1>2. t \in Seq(Wire) /\ Len(t) = Len(c) - 1
      /\ (\A n \in 1 .. Len(c) - 1 : t[n] = Datagram(Tail(c)[n]))
  BY <1>1, DatagramsType, Zenon
<1>3. Datagrams(c) \in Seq(Wire) /\ Len(Datagrams(c)) = Len(c)
      /\ (\A n \in 1 .. Len(c) : Datagrams(c)[n] = Datagram(c[n]))
  BY DatagramsType
<1> HIDE DEF t
<1> DEFINE h == Datagram(Head(c))
<1>4. h \in Wire
  BY <1>1, DatagramType
<1> HIDE DEF h
<1> DEFINE e == <<h>> \o t
<1>5. e \in Seq(Wire) /\ Len(e) = Len(t) + 1 /\ e[1] = h
      /\ (\A n \in 1 .. Len(t) : e[n + 1] = t[n])
  BY <1>2, <1>4
<1> HIDE DEF e
<1>6. \A n \in 1 .. Len(c) : Datagrams(c)[n] = e[n]
  <2> SUFFICES ASSUME NEW n \in 1 .. Len(c) PROVE Datagrams(c)[n] = e[n]
    OBVIOUS
  <2>1. CASE n = 1
    BY <2>1, <1>1, <1>3, <1>5 DEF h
  <2>2. CASE n # 1
    <3>1. n - 1 \in 1 .. Len(c) - 1 /\ (n - 1) + 1 = n
      BY <2>2, <1>1
    <3>2. e[n] = t[n - 1] /\ t[n - 1] = Datagram(Tail(c)[n - 1]) /\ Tail(c)[n - 1] = c[n]
      BY <3>1, <1>1, <1>2, <1>5
    <3>3. QED
      BY <3>2, <1>3, Zenon
  <2>3. QED
    BY <2>1, <2>2
<1>7. Datagrams(c) = e
  BY <1>1, <1>2, <1>3, <1>5, <1>6, SeqEqual
<1>8. QED
  BY <1>7 DEF e, h, t

LEMMA TypeInit == Init => IInv
<1> SUFFICES ASSUME Init PROVE IInv
  OBVIOUS
<1>1. <<>> \in Seq(Message) /\ <<>> \in Seq(Nat) /\ <<>> \in Seq(Wire)
      /\ <<>> \in Seq([to : Endpoints, data : Seq(Nat)])
  OBVIOUS
<1>2. out_addr \in [to : Endpoints, pktinfo : BOOLEAN]
  BY Zenon DEF Init
<1>3. QED
  BY <1>1, <1>2, Zenon DEF Init, IInv, TypeOK

\* Every step keeps the buffer to one message.
LEMMA Step == IInv /\ [Next]_vars => IInv'
<1> SUFFICES ASSUME IInv, [Next]_vars PROVE IInv'
  OBVIOUS
<1> USE DEF IInv, TypeOK
<1>1. ASSUME NEW m \in Message, Send(m) PROVE IInv'
  <2>1. channel' \in Seq(Message)
    BY <1>1 DEF Send
  <2>2. QED
    BY <1>1, <2>1 DEF Send, sink, network
<1>2. CASE Drop
  BY <1>2, Zenon DEF Drop, sink, network
<1>3. CASE StartSend
  <2>1. Head(channel) \in Message /\ Tail(channel) \in Seq(Message)
    BY <1>3, HeadTail DEF StartSend
  <2>2. Head(channel).data \in Payloads /\ Head(channel).data \in Seq(Nat)
    BY <2>1, UdpConstants, SMTT(30) DEF UdpConstants, Message
  <2>3. wr' = Head(channel).data
    BY <1>3, <2>2, EmptyConcat DEF StartSend
  <2>4. out_addr' \in [to : Endpoints, pktinfo : BOOLEAN]
    BY <1>3, <2>1 DEF StartSend, Message
  <2>5. QED
    BY <1>3, <2>1, <2>2, <2>3, <2>4, Zenon DEF StartSend, network
<1>4. CASE FlushSent
  <2>1. wr \in Payloads /\ wr \in Seq(Nat) /\ out_addr.to \in Endpoints
    BY <1>4 DEF FlushSent, Flushing
  <2> DEFINE d == [to |-> out_addr.to, data |-> wr]
  <2>2. d \in Wire /\ d \in [to : Endpoints, data : Seq(Nat)]
    BY <2>1 DEF Wire
  <2>3. wire' = Append(wire, d)
    BY <1>4 DEF FlushSent
  <2> HIDE DEF d
  <2>4. wire' \in Seq(Wire) /\ wire' \in Seq([to : Endpoints, data : Seq(Nat)])
    BY <2>2, <2>3
  <2>5. <<>> \in Seq(Nat)
    OBVIOUS
  <2>6. QED
    BY <1>4, <2>4, <2>5 DEF FlushSent, network
<1>5. CASE FlushWouldBlock
  BY <1>5, Zenon DEF FlushWouldBlock, sink, network
<1>6. CASE FlushFails
  <2>1. <<>> \in Seq(Message)
    OBVIOUS
  <2>2. QED
    BY <1>6, <2>1 DEF FlushFails, sink, network
<1>7. CASE Close
  BY <1>7 DEF Close, sink, network
<1>8. CASE Kernel
  <2>1. ASSUME NEW f \in Families, NEW a \in {"room", "full", "error"}, SocketAnswers(f, a)
        PROVE  IInv'
    BY <2>1 DEF SocketAnswers, sink, network
  <2>2. ASSUME NEW f \in Families, SocketWritable(f) PROVE IInv'
    BY <2>2 DEF SocketWritable, sink, network
  <2>3. CASE SourceAddressChanges
    BY <2>3 DEF SourceAddressChanges, sink, network
  <2>4. QED
    BY <1>8, <2>1, <2>2, <2>3, Zenon DEF Kernel
<1>9. CASE UNCHANGED vars
  BY <1>9 DEF vars
<1>10. QED
  BY <1>1, <1>2, <1>3, <1>4, <1>5, <1>6, <1>7, <1>8, <1>9, Zenon DEF Next, Writer

(***************************************************************************)
(* The inductive invariant holds in every reachable state.                 *)
(***************************************************************************)
THEOREM Inductive == Spec => []IInv
BY TypeInit, Step, PTL DEF Spec

(***************************************************************************)
(* The sink's buffer and every datagram that has left are one message of   *)
(* the event loop each (VecUdpCodec::encode, UdpFramed::poll_complete).    *)
(***************************************************************************)
THEOREM NeverJoined == Spec => []OneMessagePerDatagram
<1>1. IInv => OneMessagePerDatagram
  <2> SUFFICES ASSUME IInv PROVE OneMessagePerDatagram
    OBVIOUS
  <2>1. \A n \in 1 .. Len(wire) : wire[n] \in Wire
    BY DEF IInv
  <2>2. QED
    BY <2>1 DEF IInv, OneMessagePerDatagram, Wire
<1>2. QED
  BY <1>1, Inductive, PTL

\* The kernel's answer is the same with and without the retry.
LEMMA AnswerOfKernel ==
  ASSUME IInv PROVE sendmsg(out_addr) = kernel[FamilyOf[out_addr.to]]
<1>1. out_addr \in [to : Endpoints, pktinfo : BOOLEAN]
  BY DEF IInv, TypeOK
<1>2. to_cleared_pktinfo(out_addr).pktinfo = FALSE /\ to_cleared_pktinfo(out_addr).to = out_addr.to
  BY <1>1 DEF to_cleared_pktinfo
<1>3. FamilyOf[out_addr.to] \in Families
  BY <1>1, UdpConstants DEF UdpConstants
<1>4. kernel[FamilyOf[out_addr.to]] # "EINVAL"
  BY <1>3, Zenon DEF IInv, TypeOK
<1>5. QED
  BY <1>2, <1>4 DEF sendmsg, answer

(***************************************************************************)
(* The writer task fails only in a step in which a socket refuses the      *)
(* datagram: EAGAIN and a stale pktinfo (EINVAL) never end it.             *)
(***************************************************************************)
THEOREM FailsOnRefusal == Spec => FailsOnlyOnRefusal
<1>1. IInv /\ [Next]_vars =>
        [task' = "failed" /\ task # "failed" => \E f \in Families : kernel[f] = "error"]_vars
  <2> SUFFICES ASSUME IInv, Next, task' = "failed", task # "failed"
               PROVE  \E f \in Families : kernel[f] = "error"
    BY SMTT(30) DEF vars
  <2>1. FlushFails
    BY DEF Next, Send, Drop, Writer, StartSend, FlushSent, FlushWouldBlock, Close, Kernel,
           SocketAnswers, SocketWritable, SourceAddressChanges
  <2>2. FamilyOf[out_addr.to] \in Families
    BY UdpConstants DEF UdpConstants, IInv, TypeOK
  <2>3. kernel[FamilyOf[out_addr.to]] = "error"
    BY <2>1, <2>2, AnswerOfKernel DEF FlushFails, Sent, WouldBlock, IInv, TypeOK
  <2>4. QED
    BY <2>2, <2>3
<1>2. QED
  BY <1>1, Inductive, PTL DEF Spec, FailsOnlyOnRefusal

-----------------------------------------------------------------------------
(* Refinement *)

LEMMA FrameIsSeq ==
  ASSUME IInv PROVE Frame \in Seq(Wire)
<1>1. CASE flushed
  BY <1>1 DEF Frame
<1>2. CASE ~flushed
  <2>1. [to |-> out_addr.to, data |-> wr] \in Wire
    BY <1>2 DEF IInv, TypeOK, Wire
  <2>2. QED
    BY <1>2, <2>1 DEF Frame
<1>3. QED
  BY <1>1, <1>2

LEMMA RefinesInit == Init => Egress!Init
<1> SUFFICES ASSUME Init PROVE Egress!Init
  OBVIOUS
<1>1. Frame = <<>> /\ Datagrams(channel) = <<>>
  BY DEF Init, Frame, Datagrams
<1>2. queue = <<>>
  BY <1>1 DEF queue
<1>3. QED
  BY <1>2 DEF Init, Egress!Init

\* Nothing that the abstract queue sees has changed.
LEMMA Stutters ==
  ASSUME UNCHANGED <<channel, sink, task, wire>>
  PROVE  UNCHANGED Egress!vars
<1>1. queue' = queue
  BY DEF queue, Frame, sink
<1>2. QED
  BY <1>1 DEF Egress!vars, sink

LEMMA RefinesSend ==
  ASSUME IInv, NEW m \in Message, Send(m)
  PROVE  Egress!Next \/ UNCHANGED Egress!vars
<1>1. CASE task # "running"
  BY <1>1, Stutters DEF Send
<1>2. CASE task = "running"
  <2>1. channel \in Seq(Message) /\ channel' = Append(channel, m) /\ task' = "running"
    BY <1>2 DEF Send, IInv, TypeOK
  <2>2. Datagram(m) \in Wire
    BY DatagramType
  <2>3. Datagrams(channel) \in Seq(Wire)
        /\ Datagrams(channel)' = Append(Datagrams(channel), Datagram(m))
    BY <2>1, DatagramsType, DatagramsAppend
  <2>4. Frame' = Frame /\ Frame \in Seq(Wire)
    BY FrameIsSeq DEF Send, sink, Frame
  <2>5. queue = Frame \o Datagrams(channel)
        /\ queue' = Frame \o Append(Datagrams(channel), Datagram(m))
    BY <1>2, <2>1, <2>3, <2>4 DEF queue
  <2>6. queue' = Append(queue, Datagram(m))
    BY <2>2, <2>3, <2>4, <2>5, AppendConcat, SMTT(30)
  <2>7. Egress!Accept(Datagram(m))
    BY <1>2, <2>1, <2>6 DEF Egress!Accept, Send
  <2>8. QED
    BY <2>2, <2>7 DEF Egress!Next, Wire
<1>3. QED
  BY <1>1, <1>2

\* Encoding moves a message from the channel into the buffer.
LEMMA RefinesStartSend ==
  ASSUME IInv, StartSend
  PROVE  UNCHANGED Egress!vars
<1>1. channel \in Seq(Message) /\ channel # <<>> /\ channel' = Tail(channel)
      /\ flushed /\ ~flushed' /\ wr = <<>> /\ task = "running" /\ task' = "running"
  BY DEF StartSend, IInv, TypeOK
<1>2. Head(channel) \in Message
  BY <1>1
<1>3. Head(channel).data \in Seq(Nat)
  BY <1>2, UdpConstants DEF UdpConstants, Message
<1>4. wr' = Head(channel).data /\ out_addr'.to = Head(channel).to
  BY <1>1, <1>3, EmptyConcat DEF StartSend
<1>5. Frame = <<>> /\ Frame' = <<Datagram(Head(channel))>>
  BY <1>1, <1>4 DEF Frame, Datagram
<1>6. Datagrams(channel) = <<Datagram(Head(channel))>> \o Datagrams(Tail(channel))
  BY <1>1, DatagramsHeadTail, SMTT(30)
<1>7. Datagrams(channel) \in Seq(Wire) /\ Datagrams(channel)' = Datagrams(Tail(channel))
  BY <1>1, DatagramsType
<1>8. queue' = queue
  BY <1>1, <1>5, <1>6, <1>7, EmptyConcat DEF queue
<1>9. QED
  BY <1>1, <1>8 DEF StartSend, Egress!vars

\* A flushed buffer is the abstract queue's head.
LEMMA RefinesFlushSent ==
  ASSUME IInv, FlushSent
  PROVE  Egress!Transmit
<1> DEFINE d == [to |-> out_addr.to, data |-> wr]
<1>1. ~flushed /\ flushed' /\ task = "running" /\ task' = "running" /\ wire' = Append(wire, d)
      /\ channel' = channel
  BY DEF FlushSent, Flushing
<1>2. Frame = <<d>> /\ Frame' = <<>>
  BY <1>1 DEF Frame
<1>3. d \in Wire
  BY <1>1 DEF IInv, TypeOK, Wire
<1> HIDE DEF d
<1>4. Datagrams(channel) \in Seq(Wire) /\ Datagrams(channel)' = Datagrams(channel)
  BY <1>1, DatagramsType DEF IInv, TypeOK
<1>5. queue = <<d>> \o Datagrams(channel) /\ queue' = Datagrams(channel)
  BY <1>1, <1>2, <1>4, EmptyConcat DEF queue
<1>6. queue # <<>> /\ Head(queue) = d /\ Tail(queue) = queue'
  BY <1>3, <1>4, <1>5, ConsProperties
<1>7. QED
  BY <1>1, <1>6 DEF Egress!Transmit

LEMMA RefinesStep == IInv /\ [Next]_vars => [Egress!Next]_(Egress!vars)
<1> SUFFICES ASSUME IInv, [Next]_vars PROVE Egress!Next \/ UNCHANGED Egress!vars
  OBVIOUS
<1>1. ASSUME NEW m \in Message, Send(m) PROVE Egress!Next \/ UNCHANGED Egress!vars
  BY <1>1, RefinesSend
<1>2. CASE Drop
  BY <1>2, Stutters DEF Drop
<1>3. CASE StartSend
  BY <1>3, RefinesStartSend
<1>4. CASE FlushSent
  BY <1>4, RefinesFlushSent DEF Egress!Next
<1>5. CASE FlushWouldBlock
  BY <1>5, Stutters DEF FlushWouldBlock
<1>6. CASE FlushFails
  <2>1. queue' = <<>>
    BY <1>6 DEF FlushFails, queue
  <2>2. Egress!Fail
    BY <1>6, <2>1 DEF FlushFails, Flushing, Egress!Fail
  <2>3. QED
    BY <2>2 DEF Egress!Next
<1>7. CASE Close
  <2>1. queue' = queue
    BY <1>7 DEF Close, queue, Frame, sink
  <2>2. QED
    BY <1>7, <2>1 DEF Close, Egress!vars
<1>8. CASE Kernel
  BY <1>8, Stutters DEF Kernel, SocketAnswers, SocketWritable, SourceAddressChanges
<1>9. CASE UNCHANGED vars
  BY <1>9, Stutters DEF vars, sink
<1>10. QED
  BY <1>1, <1>2, <1>3, <1>4, <1>5, <1>6, <1>7, <1>8, <1>9 DEF Next, Writer

(***************************************************************************)
(* UdpChannel implements EgressQueue: what PeerServer::send_to_peer hands  *)
(* over leaves message by message, in order, until the first refusal.      *)
(***************************************************************************)
THEOREM Refinement == Spec => ImplementsEgressQueue
<1>1. IInv /\ [Next]_vars => [Egress!Next]_(Egress!vars)
  BY RefinesStep
<1>2. QED
  BY <1>1, RefinesInit, Inductive, PTL DEF Spec, ImplementsEgressQueue, Egress!Spec

-----------------------------------------------------------------------------
(***************************************************************************)
(* EventLoop.  recv_from clears a readiness cache only of the socket it    *)
(* has just found empty: Chosen is that socket, and it was cached as       *)
(* readable.                                                               *)
(***************************************************************************)

WakeInv ==
  /\ data \in [AddressFamilies -> Nat]
  /\ edge \in [AddressFamilies -> BOOLEAN]
  /\ ready \in [AddressFamilies -> BOOLEAN]
  /\ \A f \in AddressFamilies : data[f] > 0 => edge[f] \/ ready[f]

LEMMA WakeInit == LoopInit => WakeInv
BY DEF LoopInit, WakeInv

LEMMA ChosenIsReadable ==
  ASSUME Readable # {}
  PROVE  Chosen \in AddressFamilies /\ ready[Chosen]
BY DEF Readable, Chosen, AddressFamilies

LEMMA WakeStep == WakeInv /\ [LoopNext]_loopVars => WakeInv'
<1> SUFFICES ASSUME WakeInv, [LoopNext]_loopVars PROVE WakeInv'
  OBVIOUS
<1> USE DEF WakeInv
<1>1. ASSUME NEW f \in AddressFamilies, PacketArrives(f) PROVE WakeInv'
  BY <1>1 DEF PacketArrives
<1>2. ASSUME NEW f \in AddressFamilies, ReactorEvent(f) PROVE WakeInv'
  BY <1>2 DEF ReactorEvent
<1>3. CASE ReceivePacket
  <2>1. Chosen \in AddressFamilies
    BY <1>3, ChosenIsReadable DEF ReceivePacket
  <2> QED BY <1>3, <2>1 DEF ReceivePacket
<1>4. CASE ReceiveWouldBlock
  <2>1. Chosen \in AddressFamilies
    BY <1>4, ChosenIsReadable DEF ReceiveWouldBlock
  <2> QED BY <1>4, <2>1 DEF ReceiveWouldBlock
<1>5. CASE UNCHANGED <<data, edge, ready>>
  BY <1>5
<1>6. ASSUME NEW c \in Channels, ChannelMessage(c)
      PROVE  UNCHANGED <<data, edge, ready>>
  BY <1>6 DEF ChannelMessage, sockets
<1>7. ASSUME NEW c, NEW then, Drain(c, then)
      PROVE  UNCHANGED <<data, edge, ready>>
  BY <1>7, SMTT(30) DEF Drain, sockets
<1>8. ASSUME \/ PollStarts \/ ReceiveNotReady \/ NoSockets \/ HandleOneHandshake
             \/ ReceiveError \/ UNCHANGED loopVars
      PROVE  UNCHANGED <<data, edge, ready>>
  BY <1>8 DEF PollStarts, ReceiveNotReady, NoSockets, HandleOneHandshake,
              ReceiveError, loopVars, sockets
<1>9. CASE ReplaceSockets
  BY <1>9 DEF ReplaceSockets
<1> HIDE DEF WakeInv
<1> QED BY <1>1, <1>2, <1>3, <1>4, <1>5, <1>6, <1>7, <1>8, <1>9, SMTT(30) DEF LoopNext, Poll

\* The event loop forgets no packet, whatever the number of packets and messages
\* and however they interleave with poll: a socket that holds one has an event
\* coming or is taken to be readable.
THEOREM NeverForgotten == LoopSpec => []NoPacketForgotten
<1>1. WakeInv => NoPacketForgotten
  BY DEF WakeInv, NoPacketForgotten
<1> QED BY <1>1, WakeInit, WakeStep, PTL DEF LoopSpec

-----------------------------------------------------------------------------
(***************************************************************************)
(* Framing: padding and truncation are inverse for every padding, overhead *)
(* and segment size below 2^16.  The invariant says how many bytes there   *)
(* are in every place, and that a packet of the tunnel device that got     *)
(* past the size test is small enough for the 16 bits in which             *)
(* IpPacket::length adds.                                                  *)
(***************************************************************************)

Accepted == packet.version # 0 =>
  /\ IsIpPacket(packet.size)
  /\ packet.size < U16

LengthInv ==
  /\ packet \in [version : {0, 4, 6}, size : Nat]
  /\ length \in Nat
  /\ place \in {"tunnel", "peer"} => length = packet.size
  /\ place \in {"peer", "wire", "remote"} => Accepted
  /\ place \in {"wire", "remote"} =>
       length = packet.size + padding(packet.size) + TRANSPORT_OVERHEAD
  /\ RoundTrip

\* The padding is a number of bytes, and there is none for an empty packet.
LEMMA PaddingType ==
  ASSUME FramingConstants, NEW n \in Nat
  PROVE  padding(n) \in Nat /\ padding(0) = 0
<1>1. n % PADDING_MULTIPLE \in 0 .. PADDING_MULTIPLE - 1
  BY DEF FramingConstants
<1>2. 0 % PADDING_MULTIPLE = 0
  BY DEF FramingConstants
<1> QED BY <1>1, <1>2 DEF FramingConstants, padding

\* The receiving end reads the size of an accepted packet from its header.
LEMMA HeaderLength ==
  ASSUME FramingConstants,
         packet \in [version : {0, 4, 6}, size : Nat], packet.version # 0, Accepted
  PROVE  ip_length = packet.size /\ packet.size > 0
<1>1. CASE packet.version = 4
  BY <1>1 DEF ip_length, LengthField, Accepted, IsIpPacket, HeaderSize, IPV4_HEADER
<1>2. CASE packet.version = 6
  <2>1. IPV6_HEADER + LengthField = packet.size
    BY <1>2 DEF LengthField, IPV6_HEADER
  <2>2. packet.size \in 0 .. U16 - 1 /\ U16 \in Nat
    BY DEF FramingConstants, Accepted
  <2>3. packet.size % U16 = packet.size
    BY <2>2
  <2> QED BY <1>2, <2>1, <2>3 DEF ip_length, Accepted, IsIpPacket, HeaderSize, IPV6_HEADER
<1> QED BY <1>1, <1>2

LEMMA LengthInit ==
  ASSUME FramingConstants, FramingInit
  PROVE  LengthInv
<1>1. CASE packet \in [version : {4, 6}, size : Sizes] /\ place = "tunnel"
  <2>1. packet \in [version : {0, 4, 6}, size : Nat]
    BY <1>1, Zenon DEF FramingConstants
  <2> QED BY <1>1, <2>1 DEF FramingInit, LengthInv, RoundTrip
<1>2. CASE packet \in [version : {0}, size : Sizes \cup {0}] /\ place = "peer"
  <2> DEFINE Sealed == Sizes \cup {0}
  <2>0. Sealed \subseteq Nat
    BY DEF FramingConstants
  <2> HIDE DEF Sealed
  <2>1. packet \in [version : {0, 4, 6}, size : Nat] /\ packet.version = 0
    <3>1. packet \in [version : {0}, size : Sealed]
      BY <1>2 DEF Sealed
    <3> QED BY <2>0, <3>1, Zenon
  <2> QED BY <1>2, <2>1 DEF FramingInit, LengthInv, Accepted, RoundTrip
<1> QED BY <1>1, <1>2 DEF FramingInit

LEMMA LengthStep ==
  ASSUME FramingConstants, LengthInv, [FramingNext]_framingVars
  PROVE  LengthInv'
<1> USE DEF FramingConstants
<1>0. TRANSPORT_OVERHEAD \in Nat /\ MAX_CONTENT_SIZE < U16
  BY DEF TRANSPORT_OVERHEAD, MAX_CONTENT_SIZE
<1>1. CASE HandleEgressPacket
  <2>1. UNCHANGED <<packet, length>> /\ place' \in {"peer", "dropped"} /\ length = packet.size
    BY <1>1 DEF HandleEgressPacket, LengthInv
  <2>2. place' = "peer" => Accepted'
    <3>1. place' = "peer" => length \in 1 .. MAX_CONTENT_SIZE /\ IsIpPacket(length)
      BY <1>1 DEF HandleEgressPacket
    <3>2. MAX_CONTENT_SIZE \in Int
      BY DEF MAX_CONTENT_SIZE, TRANSPORT_OVERHEAD
    <3> QED BY <1>0, <2>1, <3>1, <3>2 DEF Accepted, IsIpPacket
  <2> QED BY <2>1, <2>2 DEF LengthInv, RoundTrip
<1>2. CASE HandleOutgoingTransport
  <2>1. padding(packet.size) \in Nat
    BY PaddingType DEF LengthInv
  <2>2. place' = "wire" /\ packet' = packet /\ Accepted' /\ length = packet.size
        /\ length' = length + padding(length) + TRANSPORT_OVERHEAD
    BY <1>2 DEF HandleOutgoingTransport, LengthInv, Accepted, IsIpPacket
  <2>3. padding(packet.size)' = padding(packet.size)
    BY <2>2 DEF padding
  <2> QED BY <1>0, <2>1, <2>2, <2>3 DEF LengthInv, RoundTrip
<1>3. CASE Carry
  <2>1. UNCHANGED <<packet, length>> /\ place = "wire" /\ place' \in {"dropped", "remote"}
    BY <1>3 DEF Carry
  <2>2. padding(packet.size)' = padding(packet.size) /\ Accepted' = Accepted
    BY <2>1 DEF padding, Accepted, IsIpPacket
  <2> QED BY <2>1, <2>2 DEF LengthInv, RoundTrip
<1>4. CASE HandleIncomingTransport
  <2> DEFINE len == length - TRANSPORT_OVERHEAD
  <2>1. /\ packet' = packet /\ place = "remote" /\ Accepted
        /\ length = packet.size + padding(packet.size) + TRANSPORT_OVERHEAD
    BY <1>4 DEF HandleIncomingTransport, LengthInv
  <2>2. padding(packet.size) \in Nat /\ padding(0) = 0
    BY PaddingType, SMTT(30) DEF LengthInv
  <2>3. packet \in [version : {0, 4, 6}, size : Nat] /\ len \in Nat /\ len >= packet.size
        /\ length >= packet.size /\ length \in Nat
    BY <1>0, <2>1, <2>2, SMTT(30) DEF LengthInv
  <2>4. CASE place' = "dropped" /\ length' = length
    BY <2>1, <2>3, <2>4 DEF LengthInv, RoundTrip
  <2>5. CASE /\ len > 0 => IsIpPacket(len)
             /\ length' = truncated(len)
             /\ place' = IF truncated(len) = 0 THEN "keepalive" ELSE "delivered"
    <3>1. CASE packet.version = 0
      <4>1. len = 0
        BY <2>3, <2>5, <3>1 DEF IsIpPacket
      <4>2. packet.size = 0 /\ truncated(len) = 0
        BY <2>3, <4>1, SMTT(30) DEF truncated
      <4> QED BY <2>1, <2>3, <2>5, <4>2, SMTT(30) DEF LengthInv, RoundTrip
    <3>2. CASE packet.version # 0
      <4>1. ip_length = packet.size /\ packet.size > 0
        BY <2>1, <2>3, <3>2, HeaderLength
      <4>2. truncated(len) = packet.size
        BY <2>3, <4>1, SMTT(30) DEF truncated, Smaller
      <4> QED BY <2>1, <2>3, <2>5, <4>1, <4>2, SMTT(30) DEF LengthInv, RoundTrip
    <3> QED BY <3>1, <3>2, SMTT(30)
  <2> QED BY <1>4, <2>4, <2>5, SMTT(30) DEF HandleIncomingTransport
<1>5. CASE UNCHANGED framingVars
  BY <1>5 DEF framingVars, LengthInv, Accepted, RoundTrip, IsIpPacket, padding
<1> QED BY <1>1, <1>2, <1>3, <1>4, <1>5 DEF FramingNext

\* Whatever the padding and the overhead, and for packets of every size, the far
\* end delivers as many bytes as entered the tunnel and takes nothing else for a
\* keepalive, as long as MAX_SEGMENT_SIZE is below 2^16.
THEOREM RoundTripHolds ==
  ASSUME FramingConstants
  PROVE  FramingSpec => []RoundTrip
<1>1. FramingInit => LengthInv
  BY LengthInit
<1>2. LengthInv /\ [FramingNext]_framingVars => LengthInv'
  BY LengthStep
<1>3. LengthInv => RoundTrip
  BY DEF LengthInv
<1> QED BY <1>1, <1>2, <1>3, PTL DEF FramingSpec
=============================================================================
