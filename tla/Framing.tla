-------------------------------- MODULE Framing --------------------------------
(***************************************************************************)
(* The lengths of a packet on its way through the tunnel: the size test of *)
(* handle_egress_packet, the padding of handle_outgoing_transport, the     *)
(* datagram, and the truncation of handle_incoming_transport, which finds  *)
(* the end of the packet by the length field of its IP header.             *)
(*                                                                         *)
(* A packet is its IP version, its size and the length field of its        *)
(* header; the sender's kernel has set the field.  The bytes themselves    *)
(* and their encryption are left out: noise adds AEAD_TAG_SIZE bytes.      *)
(***************************************************************************)
EXTENDS Integers

CONSTANTS
  Sizes,                     \* sizes of the packets the tunnel device hands over
  PADDING_MULTIPLE,
  TRANSPORT_HEADER_SIZE, AEAD_TAG_SIZE,
  MAX_SEGMENT_SIZE,
  MAX_DATAGRAM,              \* what the kernel takes as one UDP datagram
  U16                        \* 2^16

IPV4_HEADER == 20
IPV6_HEADER == 40

\* What the theorems about this module assume of its constants.
FramingConstants ==
  /\ Sizes \subseteq Nat
  /\ PADDING_MULTIPLE \in Nat \ {0}
  /\ {TRANSPORT_HEADER_SIZE, AEAD_TAG_SIZE, MAX_SEGMENT_SIZE, MAX_DATAGRAM} \subseteq Nat
  /\ U16 \in Nat /\ MAX_SEGMENT_SIZE < U16

TRANSPORT_OVERHEAD == TRANSPORT_HEADER_SIZE + AEAD_TAG_SIZE
MAX_CONTENT_SIZE == MAX_SEGMENT_SIZE - TRANSPORT_OVERHEAD

VARIABLES
  packet,                    \* the packet on its way: its version (0: not IP) and size
  place,                     \* where it is
  length,                    \* the bytes there are of it in this place
  refused                    \* the kernel did not take the datagram (EMSGSIZE)

framingVars == <<packet, place, length, refused>>

Places == {"tunnel", "peer", "wire", "remote", "delivered", "keepalive", "dropped"}

\* A packet of the tunnel device; or what is sealed for a peer without passing
\* through it: the empty packet of the keepalive timers, and whatever another
\* implementation seals, which need not be an IP packet.
FramingInit ==
  /\ \/ packet \in [version : {4, 6}, size : Sizes] /\ place = "tunnel"
     \/ packet \in [version : {0}, size : Sizes \cup {0}] /\ place = "peer"
  /\ length = packet.size
  /\ refused = FALSE

-----------------------------------------------------------------------------
(* IpPacket *)

HeaderSize(version) == IF version = 4 THEN IPV4_HEADER ELSE IPV6_HEADER

\* IpPacket::new: at least a header.
IsIpPacket(bytes) == packet.version \in {4, 6} /\ bytes >= HeaderSize(packet.version)

\* The field the sender's kernel wrote: total_length, or payload_length.
LengthField == IF packet.version = 4 THEN packet.size ELSE packet.size - IPV6_HEADER

\* IpPacket::length, in 16 bits.
ip_length ==
  IF packet.version = 4 THEN LengthField ELSE (IPV6_HEADER + LengthField) % U16

-----------------------------------------------------------------------------
(* The sending end *)

\* handle_egress_packet: the size test, then a route by the destination.
HandleEgressPacket ==
  /\ place = "tunnel"
  /\ place' = IF length \in 1 .. MAX_CONTENT_SIZE /\ IsIpPacket(length) THEN "peer" ELSE "dropped"
  /\ UNCHANGED <<packet, length, refused>>

padding(len) ==
  IF len % PADDING_MULTIPLE # 0 THEN PADDING_MULTIPLE - (len % PADDING_MULTIPLE) ELSE 0

\* handle_outgoing_transport: header, padded packet and tag.
HandleOutgoingTransport ==
  /\ place = "peer"
  /\ place' = "wire"
  /\ length' = length + padding(length) + TRANSPORT_OVERHEAD
  /\ UNCHANGED <<packet, refused>>

Carry ==
  /\ place = "wire"
  /\ refused' = (length > MAX_DATAGRAM)
  /\ place' = IF refused' THEN "dropped" ELSE "remote"
  /\ UNCHANGED <<packet, length>>

-----------------------------------------------------------------------------
(* The receiving end *)

Smaller(a, b) == IF a <= b THEN a ELSE b

\* What handle_incoming_transport leaves of a buffer as large as the datagram,
\* when noise has read `len` bytes into it.
truncated(len) == IF len > 0 THEN Smaller(length, ip_length) ELSE 0

\* handle_incoming_transport and what handle_ingress_transport does next.
HandleIncomingTransport ==
  LET len == length - TRANSPORT_OVERHEAD IN
  /\ place = "remote"
  /\ \/ /\ len > 0 /\ ~IsIpPacket(len)
        /\ place' = "dropped"
        /\ UNCHANGED length
     \/ /\ len > 0 => IsIpPacket(len)
        /\ length' = truncated(len)
        /\ place' = IF truncated(len) = 0 THEN "keepalive" ELSE "delivered"
  /\ UNCHANGED <<packet, refused>>

FramingNext ==
  HandleEgressPacket \/ HandleOutgoingTransport \/ Carry \/ HandleIncomingTransport

FramingSpec == FramingInit /\ [][FramingNext]_framingVars

-----------------------------------------------------------------------------
(* Properties *)

\* What leaves the tunnel at the far end is what entered it, whatever padding and
\* headers it travelled with, and only the empty packet of the timers is taken
\* for a keepalive: truncation in handle_incoming_transport undoes the padding of
\* handle_outgoing_transport at every size.
RoundTrip ==
  /\ place = "delivered" => length = packet.size
  /\ place = "keepalive" => packet.size = 0

\* A packet that passes the size test of handle_egress_packet fits with its
\* overhead into the segment MAX_CONTENT_SIZE was derived from.
FitsSegment == place = "wire" /\ packet.version # 0 => length <= MAX_SEGMENT_SIZE
=============================================================================
