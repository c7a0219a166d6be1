----------------------------- MODULE UdpChannel -----------------------------
(***************************************************************************)
(* The sending half of the UDP socket: UdpChannel and the task it spawns   *)
(* to write through to the sink (src/udp/frame.rs), and sendmsg            *)
(* (src/udp/mod.rs) below it.                                              *)
(*                                                                         *)
(* The event loop puts messages into an unbounded channel.  The writer     *)
(* task takes one at a time, encodes it into the sink's buffer and hands   *)
(* the buffer to the socket of the address' family, waiting for it to be   *)
(* writable where it has to.  The first error ends the task.               *)
(*                                                                         *)
(* The kernel is the environment: a socket takes a datagram, has no room   *)
(* for it, or refuses it; and the local address that a reply is to be sent *)
(* from (the pktinfo of an endpoint) may have gone.                        *)
(***************************************************************************)
EXTENDS Integers, Sequences

CONSTANTS
  Endpoints, Families,     \* remote addresses, and the two address families
  FamilyOf,                \* the family of an address (UdpSocket::get_io)
  Payloads,                \* what a message carries: nonempty byte sequences
  MaxMessages              \* bound: messages sent in all

ASSUME UdpConstants ==
  /\ FamilyOf \in [Endpoints -> Families]
  /\ Payloads \subseteq Seq(Nat) \ {<<>>}
  /\ MaxMessages \in Nat

\* pktinfo: the endpoint was learnt from a packet, and carries the local
\* address to answer from.
Message == [to : Endpoints, pktinfo : BOOLEAN, data : Payloads]

VARIABLES
  held,                    \* PeerServer.udp holds this channel
  channel,                 \* egress_rx: messages the writer has not taken
  wr, out_addr, flushed,   \* the sink: buffer, its destination, nothing pending
  task,                    \* the writer: "running", "failed" or "closed"
  writable,                \* PollEvented: the socket of a family takes writes
  kernel,                  \* what a family's socket answers: "room", "full", "error"
  source_gone,             \* the local address of the pktinfos no longer exists
  wire                     \* the datagrams the kernel has taken (history)

vars == <<held, channel, wr, out_addr, flushed, task, writable, kernel, source_gone, wire>>
sink == <<wr, out_addr, flushed>>
network == <<kernel, source_gone>>

Init ==
  /\ held = TRUE
  /\ channel = <<>>
  /\ wr = <<>> /\ out_addr \in [to : Endpoints, pktinfo : {FALSE}] /\ flushed = TRUE
  /\ task = "running"
  /\ writable = [f \in Families |-> TRUE]
  /\ kernel = [f \in Families |-> "room"]
  /\ source_gone = FALSE
  /\ wire = <<>>

-----------------------------------------------------------------------------
(* What the channel and the sink hold, oldest message first. *)

Datagram(m) == [to |-> m.to, data |-> m.data]
Frame == IF flushed THEN <<>> ELSE <<[to |-> out_addr.to, data |-> wr]>>
Datagrams(messages) == [n \in 1 .. Len(messages) |-> Datagram(messages[n])]
queue == IF task = "failed" THEN <<>> ELSE Frame \o Datagrams(channel)

-----------------------------------------------------------------------------
(***************************************************************************)
(* UdpChannel::send, called by send_to_peer.  When the writer has ended,   *)
(* its receiver is gone: unbounded_send fails and nobody looks.            *)
(***************************************************************************)
Send(m) ==
  /\ held
  /\ Len(queue) + Len(wire) < MaxMessages
  /\ channel' = IF task = "running" THEN Append(channel, m) ELSE channel
  /\ UNCHANGED <<held, sink, task, writable, network, wire>>

\* rebind to another port, or no private key any more: the sender is dropped.
Drop ==
  /\ held
  /\ held' = FALSE
  /\ UNCHANGED <<channel, sink, task, writable, network, wire>>

-----------------------------------------------------------------------------
(* The writer task: udp_sink.send_all(egress_rx) *)

\* start_send of an empty sink: `encode` appends to the buffer.
StartSend ==
  /\ task = "running" /\ flushed /\ channel # <<>>
  /\ wr' = wr \o Head(channel).data
  /\ out_addr' = [to |-> Head(channel).to, pktinfo |-> Head(channel).pktinfo]
  /\ flushed' = FALSE
  /\ channel' = Tail(channel)
  /\ UNCHANGED <<held, task, writable, network, wire>>

Flushing == task = "running" /\ ~flushed /\ writable[FamilyOf[out_addr.to]]

\* EINVAL: the source address is gone.  The second attempt is made without it.
answer(addr) ==
  IF addr.pktinfo /\ source_gone THEN "EINVAL" ELSE kernel[FamilyOf[addr.to]]

to_cleared_pktinfo(addr) == [addr EXCEPT !.pktinfo = FALSE]

\* Mutant: EINVAL is an error like any other.
sendmsg_once(addr) == answer(addr)

sendmsg(addr) ==
  IF answer(addr) = "EINVAL" THEN answer(to_cleared_pktinfo(addr)) ELSE answer(addr)

Sent == sendmsg(out_addr) = "room"
WouldBlock == sendmsg(out_addr) = "full"

\* Mutant: the buffer is not cleared.
FlushSentKeeps ==
  /\ Flushing /\ Sent
  /\ wire' = Append(wire, [to |-> out_addr.to, data |-> wr])
  /\ flushed' = TRUE
  /\ UNCHANGED <<held, channel, wr, out_addr, task, writable, network>>

FlushSent ==
  /\ Flushing /\ Sent
  /\ wire' = Append(wire, [to |-> out_addr.to, data |-> wr])
  /\ wr' = <<>> /\ flushed' = TRUE
  /\ UNCHANGED <<held, channel, out_addr, task, writable, network>>

FlushWouldBlock ==
  /\ Flushing /\ WouldBlock
  /\ writable' = [writable EXCEPT ![FamilyOf[out_addr.to]] = FALSE]
  /\ UNCHANGED <<held, channel, sink, task, network, wire>>

\* Mutant: a refused message is skipped.
FlushFailsSkips ==
  /\ Flushing /\ ~Sent /\ ~WouldBlock
  /\ wr' = <<>> /\ flushed' = TRUE
  /\ UNCHANGED <<held, channel, out_addr, task, writable, network, wire>>

\* The buffer stays as it is; the task ends, and its receiver goes with it.  (A
\* datagram written in part would end it too; the kernel sends all or nothing.)
FlushFails ==
  /\ Flushing /\ ~Sent /\ ~WouldBlock
  /\ task' = "failed"
  /\ channel' = <<>>
  /\ UNCHANGED <<held, sink, writable, network, wire>>

\* Mutant: the task ends with its channel's sender, whatever still waits.
CloseAtOnce ==
  /\ task = "running" /\ ~held /\ flushed
  /\ task' = "closed"
  /\ UNCHANGED <<held, channel, sink, writable, network, wire>>

\* egress_rx has ended: close flushes (above) and the task is done.
Close ==
  /\ task = "running" /\ ~held /\ flushed /\ channel = <<>>
  /\ task' = "closed"
  /\ UNCHANGED <<held, channel, sink, writable, network, wire>>

Writer == StartSend \/ FlushSent \/ FlushWouldBlock \/ FlushFails \/ Close

-----------------------------------------------------------------------------
(* The kernel *)

SocketAnswers(f, answers) ==
  /\ kernel' = [kernel EXCEPT ![f] = answers]
  /\ UNCHANGED <<held, channel, sink, task, writable, source_gone, wire>>

\* A socket with room again notifies the writer.
SocketWritable(f) ==
  /\ ~writable[f] /\ kernel[f] # "full"
  /\ writable' = [writable EXCEPT ![f] = TRUE]
  /\ UNCHANGED <<held, channel, sink, task, network, wire>>

SourceAddressChanges ==
  /\ source_gone' = ~source_gone
  /\ UNCHANGED <<held, channel, sink, task, writable, kernel, wire>>

Kernel ==
  \/ \E f \in Families, a \in {"room", "full", "error"} : SocketAnswers(f, a)
  \/ \E f \in Families : SocketWritable(f)
  \/ SourceAddressChanges

Next == (\E m \in Message : Send(m)) \/ Drop \/ Writer \/ Kernel

\* The reactor runs the writer and tells it of a socket that is writable again.
Fairness ==
  /\ WF_vars(StartSend) /\ WF_vars(FlushSent) /\ WF_vars(FlushWouldBlock)
  /\ WF_vars(FlushFails) /\ WF_vars(Close)
  /\ \A f \in Families : WF_vars(SocketWritable(f))

Spec == Init /\ [][Next]_vars

FairSpec == Spec /\ Fairness

-----------------------------------------------------------------------------
TypeOK ==
  /\ held \in BOOLEAN /\ flushed \in BOOLEAN /\ source_gone \in BOOLEAN
  /\ channel \in Seq(Message)
  /\ wr \in Seq(Nat)
  /\ out_addr \in [to : Endpoints, pktinfo : BOOLEAN]
  /\ task \in {"running", "failed", "closed"}
  /\ writable \in [Families -> BOOLEAN]
  /\ kernel \in [Families -> {"room", "full", "error"}]
  /\ wire \in Seq([to : Endpoints, data : Seq(Nat)])

(***************************************************************************)
(* The sink's buffer holds one message or nothing: encode, which appends,  *)
(* never joins two messages into one datagram.                             *)
(***************************************************************************)
OneMessagePerDatagram ==
  /\ flushed => wr = <<>>
  /\ \A n \in 1 .. Len(wire) : wire[n].data \in Payloads

(***************************************************************************)
(* UdpChannel implements EgressQueue: the messages leave one by one in the *)
(* order of `send` until the writer fails.                                 *)
(***************************************************************************)
Egress == INSTANCE EgressQueue WITH
            Message <- [to : Endpoints, data : Payloads], open <- task # "failed"

ImplementsEgressQueue == Egress!Spec

(***************************************************************************)
(* The writer ends early only where the kernel refuses a datagram: neither *)
(* a full socket nor a local address that has gone does that to it.        *)
(***************************************************************************)
FailsOnlyOnRefusal ==
  [][task' = "failed" /\ task # "failed" => \E f \in Families : kernel[f] = "error"]_vars

(***************************************************************************)
(* Liveness: once the sockets have room, what was sent leaves, in both     *)
(* families, and also what was still waiting when the channel was dropped. *)
(***************************************************************************)
HasRoom == \A f \in Families : kernel[f] = "room"

EverythingLeaves == <>[]HasRoom => []<>(queue = <<>>)

=============================================================================
