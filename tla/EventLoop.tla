------------------------------ MODULE EventLoop ------------------------------
(***************************************************************************)
(* PeerServer::poll (src/interface/peer_server.rs): the order in which the *)
(* event loop drains its sources, and what wakes it up again.              *)
(*                                                                         *)
(* poll runs as a task of a single-threaded reactor.  It is called when    *)
(* the task has been notified, drains the config, timer, UDP and tunnel    *)
(* sources in this order, handles at most one queued handshake message and *)
(* returns NotReady.  A channel that has been polled until NotReady        *)
(* notifies the task at its next message.  The UDP source is two sockets   *)
(* behind one recv_from (src/udp/mod.rs): each caches whether it is        *)
(* readable, and notifies the task only if it has parked the task since    *)
(* the last time it did.  Config messages open, replace and close them.    *)
(*                                                                         *)
(* What the handlers do to the peers is the subject of PeerServer; here a  *)
(* source is the number of messages waiting in it.                         *)
(***************************************************************************)
EXTENDS Integers

CONSTANTS
  MaxWaiting,              \* bound: messages in one channel
  MaxPackets               \* bound: UDP packets that arrive in all

ASSUME EventLoopConstants == MaxWaiting \in Nat /\ MaxPackets \in Nat

AddressFamilies == {"v4", "v6"}
Channels == {"config", "timer", "tunnel"}

VARIABLES
  pc,                      \* where poll is: "idle" between two calls
  notified,                \* the task will be polled again
  waiting,                 \* messages in the three channels
  handshakes,              \* self.handshakes.len()
  udp,                     \* self.udp.is_some()
  data,                    \* packets in the kernel's buffer of a socket
  edge,                    \* the kernel has an event for the reactor
  ready,                   \* PollEvented: the socket is taken to be readable
  parked,                  \* PollEvented: the task waits for the socket
  arrived                  \* UDP packets so far

loopVars ==
  <<pc, notified, waiting, handshakes, udp, data, edge, ready, parked, arrived>>
sockets == <<udp, data, edge, ready, parked, arrived>>

\* The first poll has parked the task everywhere.
LoopInit ==
  /\ pc = "idle" /\ notified = FALSE
  /\ waiting = [c \in Channels |-> 0]
  /\ handshakes = 0
  /\ udp \in BOOLEAN
  /\ data = [f \in AddressFamilies |-> 0]
  /\ edge = [f \in AddressFamilies |-> FALSE]
  /\ ready = [f \in AddressFamilies |-> FALSE]
  /\ parked = [f \in AddressFamilies |-> udp]
  /\ arrived = 0

-----------------------------------------------------------------------------
(* The outside: packets reach the kernel at any time, everything else        *)
(* happens on the reactor's thread, between two calls of poll.               *)

PacketArrives(f) ==
  /\ udp /\ arrived < MaxPackets
  /\ arrived' = arrived + 1
  /\ data' = [data EXCEPT ![f] = @ + 1]
  /\ edge' = [edge EXCEPT ![f] = TRUE]
  /\ UNCHANGED <<pc, notified, waiting, handshakes, udp, ready, parked>>

ReactorEvent(f) ==
  /\ pc = "idle" /\ edge[f]
  /\ edge' = [edge EXCEPT ![f] = FALSE]
  /\ ready' = [ready EXCEPT ![f] = TRUE]
  /\ notified' = (notified \/ parked[f])
  /\ parked' = [parked EXCEPT ![f] = FALSE]
  /\ UNCHANGED <<pc, waiting, handshakes, udp, data, arrived>>

ChannelMessage(c) ==
  /\ pc = "idle" /\ waiting[c] < MaxWaiting
  /\ waiting' = [waiting EXCEPT ![c] = @ + 1]
  /\ notified' = TRUE
  /\ UNCHANGED <<pc, handshakes, sockets>>

-----------------------------------------------------------------------------
(* PeerServer::poll *)

PollStarts ==
  /\ pc = "idle" /\ notified
  /\ pc' = "config"
  /\ notified' = FALSE
  /\ UNCHANGED <<waiting, handshakes, sockets>>

\* One turn of a loop that drains a channel.
Drain(c, then) ==
  /\ pc = c
  /\ IF waiting[c] > 0
     THEN waiting' = [waiting EXCEPT ![c] = @ - 1] /\ UNCHANGED pc
     ELSE pc' = then /\ UNCHANGED waiting
  /\ UNCHANGED <<notified, handshakes, sockets>>

\* A config message that changes the port or the key: rebind opens two sockets
\* in place of the old ones, which go with what is in them, and a key that is
\* taken away leaves none.
ReplaceSockets ==
  /\ pc = "config" /\ waiting["config"] > 0
  /\ waiting' = [waiting EXCEPT !["config"] = @ - 1]
  /\ udp' \in BOOLEAN
  /\ data' = [f \in AddressFamilies |-> 0]
  /\ edge' = [f \in AddressFamilies |-> FALSE]
  /\ ready' = [f \in AddressFamilies |-> FALSE]
  /\ parked' = [f \in AddressFamilies |-> FALSE]
  /\ UNCHANGED <<pc, notified, handshakes, arrived>>

\* handle_ingress_packet: a transport packet is handled at once, any other
\* message is queued, and the task notified.
handle_ingress_packet ==
  \/ UNCHANGED <<handshakes, notified>>
  \/ handshakes' = handshakes + 1 /\ notified' = TRUE

\* Both sockets are asked whether they are readable, which parks the task on
\* the ones that are not.
poll_read == [f \in AddressFamilies |-> parked[f] \/ ~ready[f]]

Readable == {f \in AddressFamilies : ready[f]}

\* Mutant: the v6 socket is polled and never read.
ChosenAlwaysV4 == "v4"

\* UdpSocket::recv_from: v4 goes first.
Chosen == IF "v4" \in Readable THEN "v4" ELSE "v6"

\* One turn of the loop that drains the UDP stream.
ReceivePacket ==
  /\ pc = "udp" /\ Readable # {} /\ data[Chosen] > 0
  /\ data' = [data EXCEPT ![Chosen] = @ - 1]
  /\ parked' = poll_read
  /\ handle_ingress_packet
  /\ UNCHANGED <<pc, waiting, udp, edge, ready, arrived>>

\* Mutant: need_read for both sockets, although one was tried.
WouldBlockBoth ==
  /\ pc = "udp" /\ Readable # {} /\ data[Chosen] = 0
  /\ ready' = [f \in AddressFamilies |-> FALSE]
  /\ parked' = [f \in AddressFamilies |-> TRUE]
  /\ pc' = "tunnel"
  /\ UNCHANGED <<notified, waiting, handshakes, udp, data, edge, arrived>>

\* EAGAIN: need_read for the socket that was tried, and NotReady.
ReceiveWouldBlock ==
  /\ pc = "udp" /\ Readable # {} /\ data[Chosen] = 0
  /\ ready' = [ready EXCEPT ![Chosen] = FALSE]
  /\ parked' = [poll_read EXCEPT ![Chosen] = TRUE]
  /\ pc' = "tunnel"
  /\ UNCHANGED <<notified, waiting, handshakes, udp, data, edge, arrived>>

ReceiveNotReady ==
  /\ pc = "udp" /\ udp /\ Readable = {}
  /\ parked' = poll_read
  /\ pc' = "tunnel"
  /\ UNCHANGED <<notified, waiting, handshakes, udp, data, edge, ready, arrived>>

\* Without sockets the loop over the UDP stream is skipped.
NoSockets ==
  /\ pc = "udp" /\ ~udp
  /\ pc' = "tunnel"
  /\ UNCHANGED <<notified, waiting, handshakes, sockets>>

\* Any other error of recvmsg ends the event loop, and with it the process.
ReceiveError ==
  /\ pc = "udp" /\ Readable # {}
  /\ pc' = "ended"
  /\ UNCHANGED <<notified, waiting, handshakes, sockets>>

HandleOneHandshake ==
  /\ pc = "handshake"
  /\ handshakes' = IF handshakes > 0 THEN handshakes - 1 ELSE 0
  /\ pc' = "idle"
  /\ UNCHANGED <<notified, waiting, sockets>>

Poll ==
  \/ PollStarts
  \/ Drain("config", "timer") \/ ReplaceSockets
  \/ Drain("timer", "udp")
  \/ ReceivePacket \/ ReceiveWouldBlock \/ ReceiveNotReady \/ NoSockets
  \/ Drain("tunnel", "handshake")
  \/ HandleOneHandshake

LoopNext ==
  \/ \E f \in AddressFamilies : PacketArrives(f) \/ ReactorEvent(f)
  \/ \E c \in Channels : ChannelMessage(c)
  \/ Poll
  \/ ReceiveError

\* The reactor polls a notified task to the end, and dispatches the kernel's
\* events at every turn, between two calls of poll.
ReactorFairness ==
  /\ \A f \in AddressFamilies : SF_loopVars(ReactorEvent(f))
  /\ WF_loopVars(Poll)

LoopSpec == LoopInit /\ [][LoopNext]_loopVars

LoopFairSpec == LoopSpec /\ ReactorFairness

-----------------------------------------------------------------------------
LoopTypeOK ==
  /\ pc \in Channels \cup {"idle", "udp", "handshake", "ended"}
  /\ notified \in BOOLEAN
  /\ waiting \in [Channels -> 0 .. MaxWaiting]
  /\ handshakes \in 0 .. MaxPackets
  /\ udp \in BOOLEAN
  /\ data \in [AddressFamilies -> 0 .. MaxPackets]
  /\ {edge, ready, parked} \subseteq [AddressFamilies -> BOOLEAN]
  /\ arrived \in 0 .. MaxPackets

(***************************************************************************)
(* A socket that holds packets can still wake the loop up, or is known to  *)
(* be readable, so that the next poll reads it: no packet is lost for good *)
(* in the readiness caches of the two sockets.                             *)
(***************************************************************************)
NoPacketForgotten ==
  pc # "ended" => \A f \in AddressFamilies : data[f] > 0 => edge[f] \/ ready[f]

Backlog == handshakes > 0 \/ \E f \in AddressFamilies : data[f] > 0

(***************************************************************************)
(* Liveness: as long as poll goes on being called, every UDP packet and    *)
(* every queued handshake message is handled in the end, whichever of the  *)
(* sources the calls are for.  The premise is needed: see NotReadyIsSafe.  *)
(***************************************************************************)
BacklogHandled ==
  []<><<PollStarts>>_loopVars => (Backlog ~> (~Backlog \/ pc = "ended"))

(***************************************************************************)
(* What the comment at the head of poll asks for: when poll has returned   *)
(* NotReady, whatever is left to do has a wake-up coming.                  *)
(***************************************************************************)
NotReadyIsSafe == pc = "idle" /\ handshakes > 0 => notified

=============================================================================
