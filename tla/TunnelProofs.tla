---------------------------- MODULE TunnelProofs ----------------------------
(***************************************************************************)
(* Proofs about two devices and the network between them, for every bound  *)
(* on packets, faults and time and every value of the protocol's           *)
(* constants.                                                              *)
(*                                                                         *)
(* A step of the tunnel is a step of PeerServer whose interface is up      *)
(* (UpNext), or changes nothing of it.  For that the datagrams in flight   *)
(* have to be ones that PeerServer can receive (Sound), which those are    *)
(* that the handlers send.  So TunnelSpec implements UpSpec, and what the  *)
(* other modules prove of one device, with an environment that sends       *)
(* anything, holds of the two of them.                                     *)
(***************************************************************************)
EXTENDS TimerProofs, Tunnel, FiniteSetTheorems

\* A datagram as the handlers of the other end expect it.
Sound(m) ==
  /\ m.from \in Ends
  /\ m.type \in {"initiation", "response", "transport"}
  /\ m.type = "initiation" => m.sender \in Indices /\ m.tai64n \in 1 .. MaxTai64n
  /\ m.type = "response" => m.sender \in Indices /\ m.receiver \in Indices
  /\ m.type = "transport" => m.receiver \in Indices /\ m.data \in BOOLEAN

TunnelInv ==
  /\ UpInv /\ NextUnused
  /\ now <= MaxTime
  /\ \A m \in net : Sound(m)

\* What a handler may hand to the socket or the tunnel.
WellSent(x) ==
  /\ x.type \in {"initiation", "response", "transport", "tunnel"}
  /\ x.type = "initiation" => x.sender \in Indices
  /\ x.type = "response" => x.sender \in Indices /\ x.receiver \in Indices

\* An initiation under index i at most, beside transport packets.
SentBy(p, i, x) == x.type \in {"transport", "tunnel"} \/ (i \in Indices /\ x = Initiation(p, i))

LEMMA OtherEnd ==
  ASSUME NEW d
  PROVE  Other(d) \in Ends
<1>1. \E e \in Ends : e # d
  BY Zenon DEF Ends
<1> QED BY <1>1, Zenon DEF Other

-----------------------------------------------------------------------------
(* What the handlers send *)

LEMMA EncryptedType ==
  ASSUME NEW p, NEW s, NEW n, NEW x \in Encrypted(p, s, n)
  PROVE  x.type = "transport"
BY DEF Encrypted, Transport

LEMMA CommitSends ==
  ASSUME NEW p, NEW s, NEW t, NEW e, NEW m, NEW r, NEW o,
         commit(p, s, t, m, r, o) \/ send_handshake_init(p, s, t, e, m, r, o),
         \A x \in o : x.type \in {"transport", "tunnel"}
  PROVE  \E i : \A x \in out' : SentBy(p, i, x)
<1>1. CASE out' = o
  BY <1>1, Zenon DEF SentBy
<1>2. ASSUME NEW i \in Indices, out' = o \cup send_to_peer({Initiation(p, i)})
      PROVE  \A x \in out' : SentBy(p, i, x)
  BY <1>2, Zenon DEF send_to_peer, SentBy
<1> QED BY <1>1, <1>2, Zenon DEF commit, send_handshake_init, unused_index

LEMMA EgressSent ==
  ASSUME IInv, NEW p \in Peers, HandleEgressPacket(p)
  PROVE  \E i : \A x \in out' : SentBy(p, i, x)
<1>1. PICK n, t, o :
        /\ o \subseteq Encrypted(p, sessions[p], n)
        /\ \/ commit(p, handle_outgoing_transport(sessions[p], n), t, index_map, rekeys, o)
           \/ send_handshake_init(p, handle_outgoing_transport(sessions[p], n), t, endpoint[p],
                                  index_map, rekeys, o)
  BY EgressCommits, Zenon
<1>2. \A x \in o : x.type \in {"transport", "tunnel"}
  BY <1>1, EncryptedType, Zenon
<1> QED BY <1>1, <1>2, CommitSends, Zenon

LEMMA RekeySent ==
  ASSUME NEW r, HandleRekeyTimer(r)
  PROVE  \E i : \A x \in out' : SentBy(r.peer, i, x)
<1> DEFINE nothing == {}
<1>1. PICK s, t, e, r1 : \/ commit(r.peer, s, t, index_map, r1, nothing)
                         \/ send_handshake_init(r.peer, s, t, e, index_map, r1, nothing)
  BY Zenon DEF HandleRekeyTimer
<1>2. \A x \in nothing : x.type \in {"transport", "tunnel"}
  OBVIOUS
<1> HIDE DEF nothing
<1> QED BY <1>1, <1>2, CommitSends, Zenon

\* A keepalive is one packet on the current session.
LEMMA KeepaliveCommits ==
  ASSUME NEW p, SendKeepalive(p)
  PROVE  \E o : /\ o \subseteq Encrypted(p, sessions[p], 1)
                /\ 0 < sendable(sessions[p], endpoint[p], now)
                /\ commit(p, handle_outgoing_transport(sessions[p], 1), timers[p], index_map,
                          rekeys, o)
<1>1. send_to_peer(Encrypted(p, sessions[p], 1)) \subseteq Encrypted(p, sessions[p], 1)
  BY Zenon DEF send_to_peer
<1>2. sendable(sessions[p], endpoint[p], now) > 0
  BY Zenon DEF SendKeepalive
<1>3. 0 < sendable(sessions[p], endpoint[p], now)
  BY <1>2
<1> QED BY <1>1, <1>3, Zenon DEF SendKeepalive

LEMMA KeepaliveSent ==
  ASSUME NEW p, SendKeepalive(p)
  PROVE  \A x \in out' : WellSent(x)
<1>1. PICK o : o \subseteq Encrypted(p, sessions[p], 1) /\ out' = o
  BY KeepaliveCommits, Zenon DEF commit
<1>2. \A x \in out' : x.type = "transport"
  BY <1>1, EncryptedType, Zenon
<1> QED BY <1>2, Zenon DEF WellSent

LEMMA TransportSent ==
  ASSUME IInv, NEW p \in Peers, NEW i \in Indices, NEW addr \in Endpoints,
         NEW deliverable \in BOOLEAN, HandleIngressTransport(p, i, addr, deliverable)
  PROVE  \E j : \A x \in out' : SentBy(p, j, x)
<1> DEFINE s1    == AfterReceipt(p, i)
           s2(n) == handle_outgoing_transport(s1, n)
<1>1. PICK n, t, m, o :
        /\ n \in Nat /\ t \in Timers
        /\ \A d \in o : d = TunnelPacket(p) \/ d \in Encrypted(p, s1, n)
        /\ \/ commit(p, s2(n), t, m, rekeys, o)
           \/ send_handshake_init(p, s2(n), t, addr, m, rekeys, o)
  BY TransportCommits, Zenon
<1> HIDE DEF s1, s2
<1>2. TunnelPacket(p).type = "tunnel"
  BY Zenon DEF TunnelPacket
<1>3. \A x \in o : x.type \in {"transport", "tunnel"}
  BY <1>1, <1>2, EncryptedType, Zenon
<1> QED BY <1>1, <1>3, CommitSends, Zenon

LEMMA SentIsWell ==
  ASSUME NEW p, NEW i, \A x \in out' : SentBy(p, i, x)
  PROVE  \A x \in out' : WellSent(x)
BY DEF SentBy, WellSent, Initiation

\* What is done with a datagram is what a peer may do.
LEMMA AcceptIsStep ==
  ASSUME NEW m, Sound(m), NEW d \in Ends, Accept(d, m)
  PROVE  d \in Peers /\ PeerStep(d)
<1>1. d \in Peers /\ m.from \in Endpoints /\ Indices = TheirIndices
  BY TunnelConstants, Zenon DEF Sound
<1>2. CASE m.type = "initiation"
  BY <1>1, <1>2, Zenon DEF Accept, PeerStep, Sound
<1>3. CASE m.type = "response"
  BY <1>1, <1>3, Zenon DEF Accept, PeerStep, Sound
<1>4. CASE m.type = "transport"
  BY <1>1, <1>4, Zenon DEF Accept, PeerStep, Sound
<1> QED BY <1>1, <1>2, <1>3, <1>4, Zenon DEF Sound

\* and so is what it sends.
LEMMA AcceptSent ==
  ASSUME IInv, NEW m, Sound(m), NEW d \in Ends, Accept(d, m)
  PROVE  \A x \in out' : WellSent(x)
<1>1. d \in Peers /\ m.from \in Endpoints /\ Indices = TheirIndices
  BY TunnelConstants, Zenon DEF Sound
<1>2. CASE m.type = "initiation"
  <2>1. PICK i \in Indices : out' = send_to_peer({Response(d, i, m.sender)})
    BY <1>2, Zenon DEF Accept, HandleIngressHandshakeInit, commit, unused_index
  <2> QED BY <1>2, <2>1, SMTT(30) DEF send_to_peer, Response, WellSent, Sound
<1>3. CASE m.type = "response" /\ HandleIngressHandshakeResp(d, m.receiver, m.from, m.sender)
  <2>1. m.receiver \in Indices /\ m.sender \in TheirIndices
    BY <1>1, <1>3, Zenon DEF Sound
  <2>2. PICK n, t, o :
          LET s == process_incoming_handshake_response(sessions[d], m.sender, now)
          IN  /\ o \subseteq Encrypted(d, s, n)
              /\ commit(d, handle_outgoing_transport(s, n), t,
                        Unmap(index_map, IndexOf(sessions[d].past)), rekeys, o)
    BY <1>1, <1>3, <2>1, ResponseCommits, ZenonT(60)
  <2>3. \A x \in out' : x.type = "transport"
    BY <2>2, EncryptedType, Zenon DEF commit
  <2> QED BY <2>3, Zenon DEF WellSent
<1>4. CASE m.type = "response" /\ RejectIngressHandshakeResp(d, m.receiver)
  BY <1>4, Zenon DEF RejectIngressHandshakeResp, commit
<1>5. CASE m.type = "transport"
  <2>1. m.receiver \in Indices /\ m.data \in BOOLEAN
        /\ HandleIngressTransport(d, m.receiver, m.from, m.data)
    BY <1>5, Zenon DEF Sound, Accept
  <2>2. PICK i : \A x \in out' : SentBy(d, i, x)
    BY <1>1, <2>1, TransportSent, Zenon
  <2> QED BY <2>2, SentIsWell, Zenon
<1> QED BY <1>2, <1>3, <1>4, <1>5, ZenonT(60) DEF Accept

-----------------------------------------------------------------------------
(* Every step *)

\* A step of one of the devices.
LEMMA DeviceStep ==
  ASSUME UpInv, NextUnused, UpNext
  PROVE  /\ UpInv' /\ NextUnused'
         /\ \A x \in out' : x.type = "transport" => x.receiver \in Indices
<1>1. Next
  BY Zenon DEF UpNext, Next
<1>2. IInv /\ UpInv' /\ NextUnused'
  BY <1>1, UpInvStep, UnusedStep, Zenon DEF UpInv
<1>3. ASSUME NEW p \in Peers, NEW s, NEW n, Sends(p, s, n), NEW x \in out', x.type = "transport"
      PROVE  x.receiver \in Indices
  <2>1. s \in Sessions /\ n \in Nat /\ x \in Encrypted(p, s, n) /\ (n # 0 => s.current # NONE)
        /\ sessions'[p].current = handle_outgoing_transport(s, n).current
    BY <1>3, Zenon DEF Sends
  <2>2. /\ n # 0 /\ s.current \in Session
        /\ handle_outgoing_transport(s, n).current =
              [s.current EXCEPT !.sending_nonce = s.current.sending_nonce + n]
    BY <2>1, EncryptedNonces, SMTT(30)
  <2>3. x.receiver = s.current.their_index
    BY <2>1, <2>2, SMTT(30) DEF Encrypted, Transport
  <2>4. sessions'[p].current \in Slot
    BY <1>2, Zenon DEF UpInv, IInv, TypeOK, Sessions
  <2>5. /\ sessions'[p].current # NONE
        /\ sessions'[p].current.their_index = s.current.their_index
        /\ sessions'[p].current.their_index \in TheirIndices \cup {NONE}
    <3> DEFINE c == [s.current EXCEPT !.sending_nonce = s.current.sending_nonce + n]
    <3>1. c.their_index = s.current.their_index
      BY <2>2, Zenon DEF Session
    <3>2. sessions'[p].current = c
      BY <2>1, <2>2, Zenon
    <3>3. s.current.sending_nonce + n <= REJECT_AFTER_MESSAGES /\ s.current.sending_nonce \in Nat
      BY <1>3, <2>2, PeerConstants, SMTT(30) DEF Sends, Session
    <3>4. c \in Session
      BY <2>1, <2>2, <3>3, PeerConstants, SMTT(30) DEF Session
    <3> HIDE DEF c
    <3> QED BY <3>1, <3>2, <3>4, NoneIsNoSession, ZenonT(60) DEF Session
  <2>6. sessions'[p].current.their_index # NONE
    BY <1>2, <2>5, Zenon DEF UpInv, IInv, Usable, Transporting
  <2> QED BY <2>3, <2>5, <2>6, TunnelConstants, ZenonT(60)
<1> QED BY <1>1, <1>2, <1>3, StepSends, Zenon DEF Silent

\* What a handler sends is sound on the network.
LEMMA EmitSound ==
  ASSUME TypeOK, now <= MaxTime, \A m \in net : Sound(m), NEW d \in Ends, NEW taken,
         NEW data \in BOOLEAN, Emit(d, taken, data),
         \A x \in out' : WellSent(x) /\ (x.type = "transport" => x.receiver \in Indices)
  PROVE  \A m \in net' : Sound(m)
<1>1. net' = (net \ taken) \cup {Datagram(x, d, data) : x \in {y \in out' : y.type # "tunnel"}}
  BY Zenon DEF Emit
<1>2. now + 1 \in 1 .. MaxTai64n
  BY TunnelConstants, PeerServerConstants, SMTT(30) DEF TypeOK
<1>3. ASSUME NEW x \in out', x.type # "tunnel"
      PROVE  Sound(Datagram(x, d, data))
  <2>1. CASE x.type = "initiation"
    BY <1>2, <1>3, <2>1, Zenon DEF Datagram, Sound, WellSent
  <2>2. CASE x.type = "response"
    BY <1>3, <2>2, Zenon DEF Datagram, Sound, WellSent
  <2>3. CASE x.type = "transport"
    BY <1>3, <2>3, Zenon DEF Datagram, Sound, WellSent
  <2> QED BY <1>3, <2>1, <2>2, <2>3, ZenonT(60) DEF WellSent
<1> QED BY <1>1, <1>3, Zenon

\* A handler of device d that puts what it sent on the network.
LEMMA HandlerStep ==
  ASSUME TunnelInv, UpNext, NEW d \in Ends, NEW taken, NEW data \in BOOLEAN,
         Emit(d, taken, data), now' = now, \A x \in out' : WellSent(x)
  PROVE  TunnelInv'
<1>1. /\ UpInv' /\ NextUnused'
      /\ \A x \in out' : x.type = "transport" => x.receiver \in Indices
  BY DeviceStep, Zenon DEF TunnelInv
<1>2. TypeOK
  BY Zenon DEF TunnelInv, UpInv, IInv
<1>3. \A m \in net' : Sound(m)
  BY <1>1, <1>2, EmitSound, Zenon DEF TunnelInv
<1> QED BY <1>1, <1>3, Zenon DEF TunnelInv, Sound

LEMMA TunnelStep ==
  ASSUME TunnelInv, [TunnelNext]_tunnelVars
  PROVE  TunnelInv'
<1>1. IInv /\ Peers = Ends
  BY TunnelConstants, Zenon DEF TunnelInv, UpInv
<1>2. CASE UNCHANGED tunnelVars
  <2>1. net' = net /\ now' = now /\ UNCHANGED vars
    BY <1>2, Zenon DEF tunnelVars, vars
  <2>2. UpInv' /\ NextUnused'
    BY <1>1, <2>1, UpInvStep, UnusedStep, Zenon DEF TunnelInv
  <2> QED BY <2>1, <2>2, Zenon DEF TunnelInv, Sound
<1>3. ASSUME NEW d \in Ends, Send(d)
      PROVE  TunnelInv'
  <2>1. HandleEgressPacket(d) /\ Emit(d, {}, TRUE) /\ now' = now
    BY <1>3, Zenon DEF Send, HandleEgressPacket, interfaceVars
  <2>2. UpNext
    BY <1>1, <2>1, Zenon DEF UpNext, PeerStep
  <2>3. \A x \in out' : WellSent(x)
    BY <1>1, <2>1, EgressSent, SentIsWell, ZenonT(60)
  <2> QED BY <2>1, <2>2, <2>3, HandlerStep, Zenon
<1>9. ASSUME NEW d \in Ends, Keepalive(d)
      PROVE  TunnelInv'
  <2>1. SendKeepalive(d) /\ Emit(d, {}, FALSE) /\ now' = now
    BY <1>9, Zenon DEF Keepalive, SendKeepalive, interfaceVars
  <2>2. UpNext
    BY <1>1, <2>1, Zenon DEF UpNext, PeerStep
  <2>3. \A x \in out' : WellSent(x)
    BY <2>1, KeepaliveSent, Zenon
  <2> QED BY <2>1, <2>2, <2>3, HandlerStep, Zenon
<1>4. ASSUME NEW m \in net, Receive(m)
      PROVE  TunnelInv'
  <2> DEFINE d == Other(m.from)
  <2>1. d \in Ends /\ Sound(m)
    BY OtherEnd, Zenon DEF TunnelInv
  <2>2. Accept(d, m) /\ \E taken : Emit(d, taken, outgoing_queue[d] > 0)
    BY <1>4, Zenon DEF Receive
  <2> HIDE DEF d
  <2>3. PeerStep(d) /\ UpNext
    BY <2>1, <2>2, AcceptIsStep, Zenon DEF UpNext
  <2>4. \A x \in out' : WellSent(x)
    BY <1>1, <2>1, <2>2, AcceptSent, ZenonT(60)
  <2>5. now' = now
    BY <2>2, Zenon DEF Accept, HandleIngressHandshakeInit, HandleIngressHandshakeResp,
                RejectIngressHandshakeResp, HandleIngressTransport, interfaceVars
  <2>6. (outgoing_queue[d] > 0) \in BOOLEAN
    OBVIOUS
  <2> QED BY <2>1, <2>2, <2>3, <2>4, <2>5, <2>6, HandlerStep, ZenonT(60)
<1>5. ASSUME NEW m \in net, Vanish(m)
      PROVE  TunnelInv'
  <2>1. net' \subseteq net /\ now' = now /\ UNCHANGED vars
    BY <1>5, Zenon DEF Vanish, vars
  <2>2. UpInv' /\ NextUnused'
    BY <1>1, <2>1, UpInvStep, UnusedStep, ZenonT(60) DEF TunnelInv
  <2> QED BY <2>1, <2>2, Zenon DEF TunnelInv, Sound
<1>6. ASSUME NEW r \in rekeys, HandleRekeyTimer(r), Emit(r.peer, {}, FALSE)
      PROVE  TunnelInv'
  <2>1. r.peer \in Ends /\ now' = now /\ UpNext
    BY <1>1, <1>6, ZenonT(60) DEF IInv, TypeOK, RekeyMessage, HandleRekeyTimer, interfaceVars,
                             UpNext, TimerStep
  <2>2. \A x \in out' : WellSent(x)
    BY <1>6, RekeySent, SentIsWell, ZenonT(60)
  <2> QED BY <1>6, <2>1, <2>2, HandlerStep, ZenonT(60)
<1>7. ASSUME NEW w \in wipes, HandleWipeTimer(w), Emit(w.peer, {}, FALSE)
      PROVE  TunnelInv'
  <2>1. w.peer \in Ends /\ now' = now /\ UpNext /\ out' = {}
    BY <1>1, <1>7, ZenonT(60) DEF IInv, TypeOK, WipeMessage, HandleWipeTimer, commit, interfaceVars,
                             UpNext, TimerStep
  <2> QED BY <1>7, <2>1, HandlerStep, ZenonT(60)
<1>8. CASE PromptTick
  <2>1. Tick /\ net' = net
    BY <1>8, Zenon DEF PromptTick
  <2>2. UpInv' /\ NextUnused'
    BY <2>1, DeviceStep, ZenonT(60) DEF TunnelInv, UpNext
  <2>3. now' <= MaxTime
    BY <1>1, <2>1, PeerServerConstants, SMTT(30) DEF Tick, IInv, TypeOK
  <2> QED BY <2>1, <2>2, <2>3, ZenonT(60) DEF TunnelInv, Sound
<1> QED BY <1>2, <1>3, <1>4, <1>5, <1>6, <1>7, <1>8, <1>9, ZenonT(60) DEF TunnelNext, Fire

LEMMA TunnelInvAlways == TunnelSpec => []TunnelInv
<1>1. TunnelInit => TunnelInv
  <2> SUFFICES ASSUME TunnelInit
               PROVE  TunnelInv
    OBVIOUS
  <2>1. InitWith(TRUE) /\ net = {}
    BY Zenon DEF TunnelInit
  <2>2. NextUnused /\ now <= MaxTime
    BY <2>1, PeerServerConstants, SMTT(30) DEF InitWith, NewSessions, NextUnused
  <2> QED BY <2>1, <2>2, UpInvInit, Zenon DEF TunnelInv
<1>2. TunnelInv /\ [TunnelNext]_tunnelVars => TunnelInv'
  BY TunnelStep, Zenon
<1> QED BY <1>1, <1>2, PTL DEF TunnelSpec

\* Every step is one of PeerServer with its interface up, or changes nothing of it.
LEMMA TunnelIsUp ==
  ASSUME TunnelInv, [TunnelNext]_tunnelVars
  PROVE  [UpNext]_vars
<1>1. Peers = Ends
  BY TunnelConstants, Zenon
<1>2. CASE UNCHANGED tunnelVars
  BY <1>2, Zenon DEF tunnelVars
<1>3. ASSUME NEW d \in Ends, Send(d)
      PROVE  UpNext
  BY <1>1, <1>3, Zenon DEF Send, UpNext, PeerStep
<1>8. ASSUME NEW d \in Ends, Keepalive(d)
      PROVE  UpNext
  BY <1>1, <1>8, Zenon DEF Keepalive, UpNext, PeerStep
<1>4. ASSUME NEW m \in net, Receive(m)
      PROVE  UpNext
  <2> DEFINE d == Other(m.from)
  <2>1. d \in Ends /\ Sound(m)
    BY OtherEnd, Zenon DEF TunnelInv
  <2>2. Accept(d, m)
    BY <1>4, Zenon DEF Receive
  <2> HIDE DEF d
  <2> QED BY <2>1, <2>2, AcceptIsStep, ZenonT(60) DEF UpNext
<1>5. ASSUME NEW m \in net, Vanish(m)
      PROVE  UNCHANGED vars
  BY <1>5, Zenon DEF Vanish
<1>6. CASE Fire
  BY <1>6, Zenon DEF Fire, UpNext, TimerStep
<1>7. CASE PromptTick
  BY <1>7, Zenon DEF PromptTick, UpNext
<1> QED BY <1>2, <1>3, <1>4, <1>5, <1>6, <1>7, <1>8, ZenonT(60) DEF TunnelNext

\* Two devices and the network between them are a special case of devices that stay
\* up in an environment that may send them anything.
THEOREM TunnelImplementsUp == TunnelSpec => UpSpec
<1>1. TunnelInit => InitWith(TRUE)
  BY Zenon DEF TunnelInit
<1>2. TunnelInv /\ [TunnelNext]_tunnelVars => [UpNext]_vars
  BY TunnelIsUp, Zenon
<1> QED BY <1>1, <1>2, TunnelInvAlways, PTL DEF TunnelSpec, UpSpec

\* So, whatever is lost, doubled or reordered between them, every unanswered
\* initiation has its retry to come or used up its attempts,
THEOREM TunnelRetries == TunnelSpec => []RetryArmed
BY TunnelImplementsUp, RetryStaysArmed, PTL

\* every session in use has its wipe to come,
THEOREM TunnelWipes == TunnelSpec => []WipeArmed
BY TunnelImplementsUp, WipeStaysArmed, PTL

\* no packet is left queued beside a session that could carry it,
THEOREM TunnelQueues == TunnelSpec => []NothingQueuedWhenReady
BY TunnelImplementsUp, NothingLeftQueued, PTL

\* both devices reach their sessions through index_map, tell their slots apart, and
\* can use their current session,
THEOREM TunnelSessions == TunnelSpec => [](SessionsMapped /\ SlotsDistinct /\ CurrentIsUsable)
<1>1. IInv => SessionsMapped /\ SlotsDistinct /\ CurrentIsUsable
  BY InvImplies, Zenon
<1> QED BY <1>1, TunnelImplementsUp, UpInvariance, PTL

\* and neither reuses a nonce.
THEOREM TunnelNonces == TunnelSpec => NoncesNeverReused
<1>1. TunnelInv /\ [UpNext]_vars =>
        [\A p \in Peers : \A d \in out' :
           d.type = "transport" /\ d.peer = p =>
             /\ sessions'[p].current # NONE
             /\ d.nonce < sessions'[p].current.sending_nonce
             /\ d.nonce < REJECT_AFTER_MESSAGES
             /\ \A s \in Slots(p) :
                  s.our_index = sessions'[p].current.our_index => d.nonce >= s.sending_nonce]_vars
  <2> SUFFICES ASSUME TunnelInv, [UpNext]_vars
               PROVE  [\A p \in Peers : \A d \in out' :
                         d.type = "transport" /\ d.peer = p => NoReuse(p, d)]_vars
    BY Zenon DEF NoReuse
  <2>1. IInv /\ NextUnused /\ [Next]_vars
    BY Zenon DEF TunnelInv, UpInv, UpNext, Next
  <2> QED BY <2>1, NonceStep, Zenon
<1> QED BY <1>1, TunnelInvAlways, TunnelImplementsUp, PTL DEF UpSpec, NoncesNeverReused

-----------------------------------------------------------------------------
(***************************************************************************)
(* The initiations to a peer that does not answer.  There is never a       *)
(* session, so all of them come from the egress handler, with a packet     *)
(* that sets the count back, or from a Rekey timer in slot `next`, which   *)
(* counts an attempt for each.                                             *)
(***************************************************************************)
Silence ==
  /\ silent \in BOOLEAN /\ initiations \in [Ends -> Nat]
  /\ ~silent => \A d \in Ends : initiations[d] = 0
  /\ silent => \A d \in Ends : /\ sessions[d].current = NONE
                               /\ initiations[d] <= timers[d].handshake_attempts + 1

\* A handler sends at most one initiation.
LEMMA OneInitiation ==
  ASSUME NEW p, NEW i, \A x \in out' : SentBy(p, i, x)
  PROVE  SentInitiations \in {0, 1} /\ (~silent => SentInitiations = 0)
<1> DEFINE S == {m \in out' : m.type = "initiation"}
<1>1. S \subseteq {Initiation(p, i)}
  BY Zenon DEF SentBy
<1>2. S = {} \/ S = {Initiation(p, i)}
  BY <1>1, Zenon
<1>3. Cardinality(S) \in {0, 1}
  BY <1>2, FS_EmptySet, FS_Singleton, ZenonT(60)
<1> QED BY <1>3, Zenon DEF SentInitiations

\* A handler of p that commits its sessions without a current one.
LEMMA StaysWithout ==
  ASSUME IInv, Peers = Ends, NEW p \in Ends, NEW s \in Sessions, NEW t, NEW e, NEW m, NEW r, NEW o,
         commit(p, s, t, m, r, o) \/ send_handshake_init(p, s, t, e, m, r, o),
         s.current = NONE, \A d \in Ends : sessions[d].current = NONE, t \in Timers
  PROVE  /\ \A d \in Ends : sessions'[d].current = NONE
         /\ timers'[p].handshake_attempts = t.handshake_attempts
         /\ \A d \in Ends \ {p} : timers'[d] = timers[d]
<1>1. sessions \in [Ends -> Sessions] /\ timers \in [Ends -> Timers] /\ now \in Nat
  BY Zenon DEF IInv, TypeOK
<1>2. CASE commit(p, s, t, m, r, o)
  BY <1>1, <1>2, ZenonT(60) DEF commit
<1>3. ASSUME NEW i,
             sessions' = [sessions EXCEPT ![p] = initiate_new_session(s, i)],
             \/ timers' = [timers EXCEPT ![p] = t]
             \/ timers' = [timers EXCEPT ![p] = [t EXCEPT !.handshake_initialized = now]]
      PROVE  /\ \A d \in Ends : sessions'[d].current = NONE
             /\ timers'[p].handshake_attempts = t.handshake_attempts
             /\ \A d \in Ends \ {p} : timers'[d] = timers[d]
  <2>1. initiate_new_session(s, i).current = NONE
    BY Zenon DEF initiate_new_session, replace_next, Sessions
  <2>2. [t EXCEPT !.handshake_initialized = now].handshake_attempts = t.handshake_attempts
    BY Zenon DEF Timers
  <2>3. \A d \in Ends : sessions'[d].current = NONE
    BY <1>1, <1>3, <2>1, ZenonT(60)
  <2>4. timers'[p].handshake_attempts = t.handshake_attempts
    BY <1>1, <1>3, <2>2, ZenonT(60)
  <2> QED BY <1>1, <1>3, <2>3, <2>4, ZenonT(60)
<1> QED BY <1>2, <1>3, ZenonT(60) DEF send_handshake_init, commit

\* Its count and its attempts go together; those of the other end stay.
LEMMA SilentHandler ==
  ASSUME Silence, silent, silent' = silent, timers \in [Ends -> Timers],
         NEW p \in Ends, NEW t \in Timers, NEW n \in Nat,
         \A d \in Ends : sessions'[d].current = NONE,
         timers'[p].handshake_attempts = t.handshake_attempts,
         \A d \in Ends \ {p} : timers'[d] = timers[d],
         initiations' = [initiations EXCEPT ![p] = n], n <= t.handshake_attempts + 1
  PROVE  Silence'
<1>1. initiations' \in [Ends -> Nat]
  BY Zenon DEF Silence
<1>2. ASSUME NEW d \in Ends
      PROVE  initiations'[d] <= timers'[d].handshake_attempts + 1
  <2>1. CASE d = p
    BY <2>1, ZenonT(60) DEF Silence
  <2>2. CASE d # p
    BY <1>2, <2>2, ZenonT(60) DEF Silence
  <2> QED BY <2>1, <2>2
<1> QED BY <1>1, <1>2, Zenon DEF Silence

\* Without silence nothing is counted.
LEMMA NotSilent ==
  ASSUME Silence, ~silent, silent' = silent, NEW p,
         \/ initiations' = [initiations EXCEPT ![p] = 0]
         \/ initiations' = [initiations EXCEPT ![p] = @ + 0]
         \/ initiations' = initiations
  PROVE  Silence'
<1>1. \A d \in Ends : initiations[d] = 0
  BY Zenon DEF Silence
<1>2. initiations' \in [Ends -> Nat] /\ \A d \in Ends : initiations'[d] = 0
  BY <1>1, SMTT(30) DEF Silence
<1> QED BY <1>2, Zenon DEF Silence

\* A packet sets the count back; its initiation is the first.
LEMMA SendSilence ==
  ASSUME IInv, Peers = Ends, Silence, NEW d \in Ends, Send(d)
  PROVE  Silence'
<1>1. /\ HandleEgressPacket(d) /\ silent' = silent
      /\ initiations' = [initiations EXCEPT ![d] = SentInitiations]
  BY Zenon DEF Send, Emit
<1>2. SentInitiations \in {0, 1} /\ (~silent => SentInitiations = 0)
  BY <1>1, EgressSent, OneInitiation, ZenonT(60)
<1>3. CASE ~silent
  BY <1>1, <1>2, <1>3, NotSilent, ZenonT(60)
<1>4. CASE silent
  <2>1. PICK n, t, o :
          /\ n \in Nat /\ t \in Timers
          /\ n <= sendable(sessions[d], endpoint[d], now)
          /\ \/ commit(d, handle_outgoing_transport(sessions[d], n), t, index_map, rekeys, o)
             \/ send_handshake_init(d, handle_outgoing_transport(sessions[d], n), t, endpoint[d],
                                    index_map, rekeys, o)
    BY <1>1, EgressCommits, ZenonT(60)
  <2>2. /\ sessions[d] \in Sessions /\ sessions[d].current = NONE
        /\ \A e \in Ends : sessions[e].current = NONE
    BY <1>4, Zenon DEF IInv, TypeOK, Silence
  <2>3. handle_outgoing_transport(sessions[d], n) = sessions[d]
    <3>1. sendable(sessions[d], endpoint[d], now) = 0
      BY <2>2, SendableBound, ZenonT(60)
    <3>2. n = 0
      BY <2>1, <3>1, SMTT(30)
    <3> QED BY <3>2, Zenon DEF handle_outgoing_transport
  <2>4. /\ \A e \in Ends : sessions'[e].current = NONE
        /\ timers'[d].handshake_attempts = t.handshake_attempts
        /\ \A e \in Ends \ {d} : timers'[e] = timers[e]
    BY <2>1, <2>2, <2>3, StaysWithout, ZenonT(60)
  <2>5. SentInitiations \in Nat /\ SentInitiations <= t.handshake_attempts + 1
    BY <1>2, <2>1, PeerConstants, SMTT(30) DEF Timers
  <2>6. timers \in [Ends -> Timers]
    BY Zenon DEF IInv, TypeOK
  <2> QED BY <1>1, <1>4, <2>1, <2>4, <2>5, <2>6, SilentHandler, ZenonT(60)
<1> QED BY <1>3, <1>4, ZenonT(60) DEF Silence

\* A Rekey timer counts the attempt that it makes.
LEMMA RekeySilence ==
  ASSUME IInv, Peers = Ends, Silence, NEW r \in rekeys, HandleRekeyTimer(r), silent' = silent,
         initiations' = [initiations EXCEPT ![r.peer] = @ + SentInitiations]
  PROVE  Silence'
<1> DEFINE p  == r.peer
           t1 == [timers[p] EXCEPT !.handshake_attempts = @ + 1]
<1>1. SentInitiations \in {0, 1} /\ (~silent => SentInitiations = 0)
  BY RekeySent, OneInitiation, ZenonT(60)
<1>2. CASE ~silent
  BY <1>1, <1>2, NotSilent, ZenonT(60)
<1>3. CASE silent
  <2>1. /\ p \in Ends /\ sessions[p] \in Sessions
        /\ timers[p] \in Timers /\ timers \in [Ends -> Timers]
    BY Zenon DEF IInv, TypeOK, RekeyMessage
  <2>2. sessions[p].current = NONE /\ \A d \in Ends : sessions[d].current = NONE
    BY <1>3, <2>1, ZenonT(60) DEF Silence
  <2>3. find_session(sessions[p], r.index) # "current"
    BY <2>2, Zenon DEF find_session, Holds
  <2>4. \/ \E r1 : commit(p, sessions[p], timers[p], index_map, r1, {})
        \/ /\ ~gave_up(timers[p])
           /\ send_handshake_init(p, sessions[p], t1, endpoint[p], index_map, rekeys \ {r}, {})
    BY <2>3, Zenon DEF HandleRekeyTimer
  <2>5. ~gave_up(timers[p]) =>
          t1 \in Timers /\ t1.handshake_attempts = timers[p].handshake_attempts + 1
    BY <2>1, PeerConstants, SMTT(30) DEF gave_up, Timers
  <2>6. initiations' = [initiations EXCEPT ![p] = initiations[p] + SentInitiations]
    BY <2>1, Zenon
  <2> HIDE DEF p, t1
  <2>7. timers[p].handshake_attempts \in Nat /\ initiations[p] \in Nat
        /\ initiations[p] <= timers[p].handshake_attempts + 1
    BY <1>3, <2>1, PeerConstants, SMTT(30) DEF Timers, Silence
  <2>8. ASSUME NEW r1, commit(p, sessions[p], timers[p], index_map, r1, {})
        PROVE  Silence'
    <3>1. SentInitiations = 0
      <4>1. {m \in out' : m.type = "initiation"} = {}
        BY <2>8, Zenon DEF commit
      <4> QED BY <4>1, FS_EmptySet, ZenonT(60) DEF SentInitiations
    <3>2. /\ \A e \in Ends : sessions'[e].current = NONE
          /\ timers'[p].handshake_attempts = timers[p].handshake_attempts
          /\ \A d \in Ends \ {p} : timers'[d] = timers[d]
      BY <2>1, <2>2, <2>8, StaysWithout, ZenonT(60)
    <3>3. /\ initiations[p] + SentInitiations \in Nat
          /\ initiations[p] + SentInitiations <= timers[p].handshake_attempts + 1
      BY <2>7, <3>1, SMTT(30)
    <3> QED BY <1>3, <2>1, <2>6, <3>2, <3>3, SilentHandler, ZenonT(60)
  <2>9. CASE /\ ~gave_up(timers[p])
             /\ send_handshake_init(p, sessions[p], t1, endpoint[p], index_map, rekeys \ {r}, {})
    <3>1. /\ \A e \in Ends : sessions'[e].current = NONE
          /\ timers'[p].handshake_attempts = t1.handshake_attempts
          /\ \A d \in Ends \ {p} : timers'[d] = timers[d]
      BY <2>1, <2>2, <2>5, <2>9, StaysWithout, ZenonT(60)
    <3>2. /\ initiations[p] + SentInitiations \in Nat
          /\ initiations[p] + SentInitiations <= t1.handshake_attempts + 1
      BY <1>1, <2>5, <2>7, <2>9, SMTT(30)
    <3> QED BY <1>3, <2>1, <2>5, <2>6, <2>9, <3>1, <3>2, SilentHandler, ZenonT(60)
  <2> QED BY <2>4, <2>8, <2>9, ZenonT(60)
<1> QED BY <1>2, <1>3, Zenon DEF Silence

\* The other steps send no initiation.
LEMMA SilenceStep ==
  ASSUME TunnelInv, Silence, [TunnelNext]_tunnelVars
  PROVE  Silence'
<1>1. IInv /\ Peers = Ends
  BY TunnelConstants, Zenon DEF TunnelInv, UpInv
<1>2. ASSUME UNCHANGED <<sessions, timers, silent, initiations>>
      PROVE  Silence'
  BY <1>2, Zenon DEF Silence
<1>3. CASE UNCHANGED tunnelVars
  BY <1>2, <1>3, ZenonT(60) DEF tunnelVars, vars
<1>4. ASSUME NEW m \in net, Receive(m)
      PROVE  Silence'
  BY <1>4 DEF Receive, Emit, Silence
<1>5. ASSUME NEW m \in net, Vanish(m)
      PROVE  Silence'
  BY <1>2, <1>5, ZenonT(60) DEF Vanish, vars
<1>6. ASSUME NEW w \in wipes, HandleWipeTimer(w), Emit(w.peer, {}, FALSE), initiations' = initiations
      PROVE  Silence'
  <2>1. w.peer \in Ends /\ sessions \in [Ends -> Sessions] /\ timers \in [Ends -> Timers]
    BY <1>1, Zenon DEF IInv, TypeOK, WipeMessage
  <2>2. \E m : \/ commit(w.peer, NewSessions, timers[w.peer], m, rekeys, {})
               \/ commit(w.peer, sessions[w.peer], timers[w.peer], m, rekeys, {})
    BY <1>6, Zenon DEF HandleWipeTimer
  <2>3. timers' = timers
        /\ \A d \in Ends : sessions[d].current = NONE => sessions'[d].current = NONE
    BY <2>1, <2>2, SMTT(30) DEF commit, NewSessions
  <2> QED BY <1>6, <2>3, ZenonT(60) DEF Silence, Emit
<1>7. CASE PromptTick
  BY <1>2, <1>7, Zenon DEF PromptTick, Tick, peerVars
<1>8. ASSUME NEW r \in rekeys, HandleRekeyTimer(r), Emit(r.peer, {}, FALSE),
             initiations' = [initiations EXCEPT ![r.peer] = @ + SentInitiations]
      PROVE  Silence'
  BY <1>1, <1>8, RekeySilence, Zenon DEF Emit
<1>9. ASSUME NEW d \in Ends, Keepalive(d)
      PROVE  Silence'
  <2>1. SendKeepalive(d) /\ silent' = silent /\ initiations' = initiations
    BY <1>9, Zenon DEF Keepalive, Emit
  <2>2. 0 < sendable(sessions[d], endpoint[d], now) /\ sessions[d] \in Sessions
    BY <1>1, <2>1, KeepaliveCommits, Zenon DEF IInv, TypeOK
  <2>3. sessions[d].current # NONE
    BY <2>2, SendableBound, SMTT(30)
  <2>4. ~silent
    BY <2>3, Zenon DEF Silence
  <2> QED BY <2>1, <2>4, NotSilent, ZenonT(60)
<1> QED BY <1>1, <1>3, <1>4, <1>5, <1>6, <1>7, <1>8, <1>9, SendSilence, ZenonT(60)
        DEF TunnelNext, Fire

\* A peer that does not answer gets MAX_HANDSHAKE_ATTEMPTS + 1 initiations at most
\* after the last packet for it, for any number of attempts and all timeouts.
THEOREM AttemptsEnd == TunnelSpec => []InitiationsBounded
<1>1. TunnelInit => Silence
  BY TunnelConstants DEF TunnelInit, InitWith, NewSessions, NewTimers, Silence
<1>2. TunnelInv /\ Silence /\ [TunnelNext]_tunnelVars => Silence'
  BY SilenceStep, Zenon
<1>3. TunnelInv /\ Silence => InitiationsBounded
  <2> SUFFICES ASSUME TunnelInv, Silence, NEW d \in Ends
               PROVE  initiations[d] <= MAX_HANDSHAKE_ATTEMPTS + 1
    BY Zenon DEF InitiationsBounded
  <2>1. timers[d].handshake_attempts \in 0 .. MAX_HANDSHAKE_ATTEMPTS
    BY TunnelConstants, Zenon DEF TunnelInv, UpInv, IInv, TypeOK, Timers
  <2>2. initiations[d] = 0 \/ initiations[d] <= timers[d].handshake_attempts + 1
    BY Zenon DEF Silence
  <2> QED BY <2>1, <2>2, PeerConstants, SMTT(30) DEF Silence
<1> QED BY <1>1, <1>2, <1>3, TunnelInvAlways, PTL DEF TunnelSpec

-----------------------------------------------------------------------------
(***************************************************************************)
(* The ends agree on their sessions (SessionsAgree).                       *)
(*                                                                         *)
(* Sessions pair up by a response: the responder makes its session when it *)
(* sends it, the initiator when it gets it.  So a response in flight has   *)
(* to agree with the sessions that are there already.  That an initiation  *)
(* has but one responder session is the timestamp's doing: a duplicate is  *)
(* not newer than the newest one accepted, which the invariant carries as  *)
(* AnsweredOnce.  And a response cannot be taken for an initiation of the  *)
(* end that sent it, since an index is not drawn while something names it. *)
(*                                                                         *)
(* The argument is first about relations between indices, with what a step *)
(* may add to them, and then about the handlers that add it.               *)
(***************************************************************************)

\* The finished and the unfinished sessions among s, by their indices.
Held(s) == {s.past, s.current, s.next} \ {NONE}

Paired(s, i, j) == \E x \in Held(s) : x.finished /\ x.our_index = i /\ x.their_index = j
Open(s, i)      == \E x \in Held(s) : ~x.finished /\ x.our_index = i

\* The initiations and responses of d in flight on n.
Initiated(n, d, i, ts) ==
  \E m \in n : m.type = "initiation" /\ m.from = d /\ m.sender = i /\ m.tai64n = ts
Responded(n, d, i, j) ==
  \E m \in n : m.type = "response" /\ m.from = d /\ m.sender = i /\ m.receiver = j

\* An end whose newest initiation was at `last` does not take the one of ts.
Seen(last, ts) == ~is_newer(ts, last)

(***************************************************************************)
(* The invariant, for sessions S, datagrams n in flight and newest         *)
(* timestamps L.  Sessions agree with each other, responses with the       *)
(* sessions they announce; an index that responds is none that initiates;  *)
(* and an initiation that was answered is not accepted again.              *)
(***************************************************************************)
PairsAgree(S) ==
  \A d, e \in Ends : d # e =>
    \A i, j, k : Paired(S[d], i, j) /\ Paired(S[e], j, k) => i = k

ResponsesAgree(S, n) ==
  \A d \in Ends : \A i, j, k :
    /\ Responded(n, d, i, j) /\ Paired(S[d], i, k) => j = k
    /\ Responded(n, d, i, j) /\ Paired(S[d], k, j) => i = k

RespondersApart(S, n) ==
  \A d \in Ends : \A i, j, k : Responded(n, d, i, j) => ~Open(S[d], i) /\ ~Initiated(n, d, i, k)

CrossingApart(n) ==
  \A d, e \in Ends : d # e =>
    \A i, j, k : Responded(n, d, i, j) => ~Responded(n, e, j, k)

OneTime(n) ==
  \A d \in Ends : \A i, ts, tt : Initiated(n, d, i, ts) /\ Initiated(n, d, i, tt) => ts = tt

AnsweredOnce(S, n, L) ==
  \A d, e \in Ends : d # e =>
    \A i, j : \A ts \in Nat :
      /\ Initiated(n, d, i, ts) /\ Paired(S[d], i, j) => Seen(L[e], ts)
      /\ Initiated(n, d, i, ts) /\ Paired(S[e], j, i) => Seen(L[e], ts)
      /\ Initiated(n, d, i, ts) /\ Responded(n, e, j, i) => Seen(L[e], ts)

Agreed(S, n, L) ==
  /\ PairsAgree(S) /\ ResponsesAgree(S, n) /\ RespondersApart(S, n)
  /\ CrossingApart(n) /\ OneTime(n) /\ AnsweredOnce(S, n, L)

Agreement == Agreed(sessions, net, last_handshake_tai64n)

\* Nothing refers to i.
Forgotten(i) ==
  \A d \in Ends : \A j :
    /\ ~Paired(sessions[d], i, j) /\ ~Paired(sessions[d], j, i) /\ ~Open(sessions[d], i)
    /\ ~Responded(net, d, i, j) /\ ~Responded(net, d, j, i) /\ ~Initiated(net, d, i, j)

\* What a step may add: initiations of d under the indices I,
AddsInitiations(S1, n1, d, I, ts) ==
  \A c \in Ends : \A x, y :
    /\ Paired(S1[c], x, y) => Paired(sessions[c], x, y)
    /\ Open(S1[c], x) => Open(sessions[c], x) \/ (c = d /\ x \in I)
    /\ Initiated(n1, c, x, y) => Initiated(net, c, x, y) \/ (c = d /\ x \in I /\ y = ts)
    /\ Responded(n1, c, x, y) => Responded(net, c, x, y)

\* a session of e under index j, with its response to index i,
AddsResponse(S1, n1, e, j, i) ==
  \A c \in Ends : \A x, y :
    /\ Paired(S1[c], x, y) => Paired(sessions[c], x, y) \/ (c = e /\ x = j /\ y = i)
    /\ Open(S1[c], x) => Open(sessions[c], x)
    /\ Initiated(n1, c, x, y) => Initiated(net, c, x, y)
    /\ Responded(n1, c, x, y) => Responded(net, c, x, y) \/ (c = e /\ x = j /\ y = i)

\* or the session of d that a response completes.
AddsSession(S1, n1, d, i, j) ==
  \A c \in Ends : \A x, y :
    /\ Paired(S1[c], x, y) => Paired(sessions[c], x, y) \/ (c = d /\ x = i /\ y = j)
    /\ Open(S1[c], x) => Open(sessions[c], x)
    /\ Initiated(n1, c, x, y) => Initiated(net, c, x, y)
    /\ Responded(n1, c, x, y) => Responded(net, c, x, y)

\* Nothing names the index of a new initiation, so it contradicts nothing.
LEMMA AgreeInitiate ==
  ASSUME Agreement, NEW S1, NEW n1, NEW d \in Ends, NEW I, NEW ts, \A i \in I : Forgotten(i),
         AddsInitiations(S1, n1, d, I, ts)
  PROVE  Agreed(S1, n1, last_handshake_tai64n)
<1>1. \A c \in Ends : \A x, y : Paired(S1[c], x, y) => Paired(sessions[c], x, y)
  BY Zenon DEF AddsInitiations
<1>2. \A c \in Ends : \A x, y : Responded(n1, c, x, y) => Responded(net, c, x, y)
  BY Zenon DEF AddsInitiations
<1>3. \A c \in Ends : \A x, y :
        Initiated(n1, c, x, y) => Initiated(net, c, x, y) \/ (c = d /\ x \in I /\ y = ts)
  BY Zenon DEF AddsInitiations
<1>4. \A c \in Ends : \A x : Open(S1[c], x) => Open(sessions[c], x) \/ (c = d /\ x \in I)
  BY Zenon DEF AddsInitiations
<1>5. PairsAgree(S1)
  BY <1>1, ZenonT(60) DEF Agreement, Agreed, PairsAgree
<1>6. ResponsesAgree(S1, n1)
  BY <1>1, <1>2 DEF Agreement, Agreed, ResponsesAgree
<1>7. RespondersApart(S1, n1)
  BY <1>2, <1>3, <1>4, SMTT(30) DEF Agreement, Agreed, RespondersApart, Forgotten
<1>8. CrossingApart(n1)
  BY <1>2, SMTT(30) DEF Agreement, Agreed, CrossingApart
<1>9. OneTime(n1)
  BY <1>3, SMTT(30) DEF Agreement, Agreed, OneTime, Forgotten
<1>10. AnsweredOnce(S1, n1, last_handshake_tai64n)
  <2> SUFFICES ASSUME NEW c \in Ends, NEW f \in Ends, c # f, NEW x, NEW y, NEW tt \in Nat,
                      Initiated(n1, c, x, tt),
                      Paired(S1[c], x, y) \/ Paired(S1[f], y, x) \/ Responded(n1, f, y, x)
               PROVE  Seen(last_handshake_tai64n[f], tt)
    BY ZenonT(60) DEF AnsweredOnce
  <2>1. Paired(sessions[c], x, y) \/ Paired(sessions[f], y, x) \/ Responded(net, f, y, x)
    BY <1>1, <1>2, Zenon
  <2>2. x \notin I
    BY <2>1, Zenon DEF Forgotten
  <2>3. Initiated(net, c, x, tt)
    BY <1>3, <2>2, Zenon
  <2> QED BY <2>1, <2>3, ZenonT(60) DEF Agreement, Agreed, AnsweredOnce
<1> QED BY <1>5, <1>6, <1>7, <1>8, <1>9, <1>10, ZenonT(60) DEF Agreed

\* A responder session under a new index: the initiation was not answered before, as it
\* is newer than the newest one, and it will not be again.
LEMMA AgreeAccept ==
  ASSUME Agreement, NEW S1, NEW n1, NEW L, NEW d \in Ends, NEW e \in Ends, d # e,
         NEW j, Forgotten(j), NEW i, NEW ts \in Nat,
         Initiated(net, d, i, ts), ~Seen(last_handshake_tai64n[e], ts), Seen(L[e], ts),
         \A c \in Ends : \A x \in Nat : Seen(last_handshake_tai64n[c], x) => Seen(L[c], x),
         AddsResponse(S1, n1, e, j, i)
  PROVE  Agreed(S1, n1, L)
<1>0. \A c \in Ends : c = d \/ c = e
  BY Zenon DEF Ends
<1>1. \A x : ~Paired(sessions[d], i, x) /\ ~Paired(sessions[e], x, i) /\ ~Responded(net, e, x, i)
  BY Zenon DEF Agreement, Agreed, AnsweredOnce
<1>2. \A c \in Ends : \A x, y :
        Paired(S1[c], x, y) => Paired(sessions[c], x, y) \/ (c = e /\ x = j /\ y = i)
  BY Zenon DEF AddsResponse
<1>3. \A c \in Ends : \A x, y :
        Responded(n1, c, x, y) => Responded(net, c, x, y) \/ (c = e /\ x = j /\ y = i)
  BY Zenon DEF AddsResponse
<1>4. \A c \in Ends : \A x, y :
        /\ Initiated(n1, c, x, y) => Initiated(net, c, x, y)
        /\ Open(S1[c], x) => Open(sessions[c], x)
  BY Zenon DEF AddsResponse
<1>5. PairsAgree(S1)
  <2> SUFFICES ASSUME NEW c \in Ends, NEW f \in Ends, c # f, NEW x, NEW y, NEW z,
                      Paired(S1[c], x, y), Paired(S1[f], y, z)
               PROVE  x = z
    BY Zenon DEF PairsAgree
  <2>1. CASE Paired(sessions[c], x, y) /\ Paired(sessions[f], y, z)
    BY <2>1, Zenon DEF Agreement, Agreed, PairsAgree
  <2>2. CASE c = e /\ x = j /\ y = i
    BY <1>0, <1>1, <1>2, <2>2, ZenonT(60)
  <2>3. CASE f = e /\ y = j /\ z = i
    BY <1>0, <1>2, <2>3, ZenonT(60) DEF Forgotten
  <2> QED BY <1>2, <2>1, <2>2, <2>3, SMTT(30)
<1>6. ResponsesAgree(S1, n1)
  <2> SUFFICES ASSUME NEW c \in Ends, NEW x, NEW y, NEW v, NEW w,
                      Responded(n1, c, x, y), Paired(S1[c], v, w)
               PROVE  x = v <=> y = w
    BY Zenon DEF ResponsesAgree
  <2>1. CASE Responded(net, c, x, y) /\ Paired(sessions[c], v, w)
    BY <2>1, ZenonT(60) DEF Agreement, Agreed, ResponsesAgree
  <2>2. CASE c = e /\ x = j /\ y = i
    <3>1. CASE Paired(sessions[e], v, w)
      BY <1>1, <2>2, <3>1, ZenonT(60) DEF Forgotten
    <3> QED BY <1>2, <2>2, <3>1, SMTT(30)
  <2>3. CASE c = e /\ v = j /\ w = i
    BY <1>1, <1>3, <2>3, SMTT(30) DEF Forgotten
  <2> QED BY <1>2, <1>3, <2>1, <2>2, <2>3, SMTT(30)
<1>7. RespondersApart(S1, n1)
  BY <1>3, <1>4, SMTT(30) DEF Agreement, Agreed, RespondersApart, Forgotten
<1>8. CrossingApart(n1)
  BY <1>0, <1>3, SMTT(30) DEF Agreement, Agreed, CrossingApart, RespondersApart, Forgotten
<1>9. OneTime(n1)
  BY <1>4, ZenonT(60) DEF Agreement, Agreed, OneTime
<1>10. AnsweredOnce(S1, n1, L)
  <2> SUFFICES ASSUME NEW c \in Ends, NEW f \in Ends, c # f, NEW x, NEW y, NEW tt \in Nat,
                      Initiated(n1, c, x, tt),
                      Paired(S1[c], x, y) \/ Paired(S1[f], y, x) \/ Responded(n1, f, y, x)
               PROVE  Seen(L[f], tt)
    BY ZenonT(60) DEF AnsweredOnce
  <2>1. Initiated(net, c, x, tt)
    BY <1>4, Zenon
  <2>2. CASE Paired(sessions[c], x, y) \/ Paired(sessions[f], y, x) \/ Responded(net, f, y, x)
    BY <2>1, <2>2, Zenon DEF Agreement, Agreed, AnsweredOnce
  <2>3. ~(c = e /\ x = j)
    BY <2>1, Zenon DEF Forgotten
  <2>4. CASE f = e /\ y = j /\ x = i
    <3>1. c = d /\ tt = ts
      BY <1>0, <2>1, <2>4, ZenonT(60) DEF Agreement, Agreed, OneTime
    <3> QED BY <2>4, <3>1, Zenon
  <2> QED BY <1>2, <1>3, <2>2, <2>3, <2>4, SMTT(30)
<1> QED BY <1>5, <1>6, <1>7, <1>8, <1>9, <1>10, Zenon DEF Agreed

\* The initiator's session is the counterpart of the one that the response announces.
LEMMA AgreeComplete ==
  ASSUME Agreement, NEW S1, NEW n1, NEW d \in Ends, NEW e \in Ends, d # e, NEW i, NEW j,
         Responded(net, e, j, i), Open(sessions[d], i), AddsSession(S1, n1, d, i, j)
  PROVE  Agreed(S1, n1, last_handshake_tai64n)
<1>0. \A c \in Ends : c = d \/ c = e
  BY Zenon DEF Ends
<1>1. \A c \in Ends : \A x, y :
        Paired(S1[c], x, y) => Paired(sessions[c], x, y) \/ (c = d /\ x = i /\ y = j)
  BY Zenon DEF AddsSession
<1>2. \A c \in Ends : \A x, y : Responded(n1, c, x, y) => Responded(net, c, x, y)
  BY Zenon DEF AddsSession
<1>3. \A c \in Ends : \A x, y :
        /\ Initiated(n1, c, x, y) => Initiated(net, c, x, y)
        /\ Open(S1[c], x) => Open(sessions[c], x)
  BY Zenon DEF AddsSession
<1>4. \A x : ~Responded(net, d, i, x) /\ ~Responded(net, d, x, j) /\ ~Initiated(net, e, j, x)
  BY Zenon DEF Agreement, Agreed, RespondersApart, CrossingApart
<1>5. \A x : /\ Paired(sessions[e], j, x) => x = i
             /\ Paired(sessions[e], x, i) => x = j
  BY ZenonT(60) DEF Agreement, Agreed, ResponsesAgree
<1>6. PairsAgree(S1)
  <2> SUFFICES ASSUME NEW c \in Ends, NEW f \in Ends, c # f, NEW x, NEW y, NEW z,
                      Paired(S1[c], x, y), Paired(S1[f], y, z)
               PROVE  x = z
    BY Zenon DEF PairsAgree
  <2>1. CASE Paired(sessions[c], x, y) /\ Paired(sessions[f], y, z)
    BY <2>1, Zenon DEF Agreement, Agreed, PairsAgree
  <2>2. CASE c = d /\ x = i /\ y = j
    BY <1>0, <1>1, <1>5, <2>2, ZenonT(60)
  <2>3. CASE f = d /\ y = i /\ z = j
    BY <1>0, <1>1, <1>5, <2>3, ZenonT(60)
  <2> QED BY <1>1, <2>1, <2>2, <2>3, SMTT(30)
<1>7. ResponsesAgree(S1, n1)
  <2> SUFFICES ASSUME NEW c \in Ends, NEW x, NEW y, NEW v, NEW w,
                      Responded(n1, c, x, y), Paired(S1[c], v, w)
               PROVE  x = v <=> y = w
    BY Zenon DEF ResponsesAgree
  <2>1. CASE Responded(net, c, x, y) /\ Paired(sessions[c], v, w)
    BY <2>1, Zenon DEF Agreement, Agreed, ResponsesAgree
  <2>2. CASE c = d /\ v = i /\ w = j
    BY <1>2, <1>4, <2>2, ZenonT(60)
  <2> QED BY <1>1, <1>2, <2>1, <2>2, SMTT(30)
<1>8. RespondersApart(S1, n1)
  BY <1>2, <1>3, ZenonT(60) DEF Agreement, Agreed, RespondersApart
<1>9. CrossingApart(n1)
  BY <1>2 DEF Agreement, Agreed, CrossingApart
<1>10. OneTime(n1)
  BY <1>3, Zenon DEF Agreement, Agreed, OneTime
<1>11. AnsweredOnce(S1, n1, last_handshake_tai64n)
  <2> SUFFICES ASSUME NEW c \in Ends, NEW f \in Ends, c # f, NEW x, NEW y, NEW tt \in Nat,
                      Initiated(n1, c, x, tt),
                      Paired(S1[c], x, y) \/ Paired(S1[f], y, x) \/ Responded(n1, f, y, x)
               PROVE  Seen(last_handshake_tai64n[f], tt)
    BY ZenonT(60) DEF AnsweredOnce
  <2>1. Initiated(net, c, x, tt)
    BY <1>3, Zenon
  <2>2. CASE Paired(sessions[c], x, y) \/ Paired(sessions[f], y, x) \/ Responded(net, f, y, x)
    BY <2>1, <2>2, Zenon DEF Agreement, Agreed, AnsweredOnce
  <2>3. CASE c = d /\ x = i
    <3>1. f = e
      BY <1>0, <2>3, ZenonT(60)
    <3> QED BY <2>1, <2>3, <3>1, Zenon DEF Agreement, Agreed, AnsweredOnce
  <2>4. ~(f = d /\ x = j)
    BY <1>0, <1>4, <2>1, Zenon
  <2> QED BY <1>1, <1>2, <2>2, <2>3, <2>4, SMTT(30)
<1> QED BY <1>6, <1>7, <1>8, <1>9, <1>10, <1>11, ZenonT(60) DEF Agreed

\* An index that nothing names is forgotten.
LEMMA UnnamedForgotten ==
  ASSUME NEW i, i \notin NamedIndices
  PROVE  Forgotten(i)
<1>1. ASSUME NEW d \in Ends, NEW x \in Held(sessions[d])
      PROVE  x.our_index # i /\ x.their_index # i
  <2>1. x \in UNION {Slots(e) : e \in Ends}
    BY <1>1, Zenon DEF Held, Slots
  <2>2. {x.our_index, x.their_index} \subseteq NamedIndices
    BY <2>1, Zenon DEF NamedIndices
  <2> QED BY <2>2, Zenon
<1>2. ASSUME NEW m \in net
      PROVE  m.type = "initiation" => m.sender # i
  <2>1. Named(m) \subseteq NamedIndices
    BY <1>2, Zenon DEF NamedIndices
  <2> QED BY <2>1, Zenon DEF Named
<1>3. ASSUME NEW m \in net
      PROVE  m.type = "response" => m.sender # i /\ m.receiver # i
  <2>1. Named(m) \subseteq NamedIndices
    BY <1>3, Zenon DEF NamedIndices
  <2> QED BY <2>1, ZenonT(60) DEF Named
<1> QED BY <1>1, <1>2, <1>3, ZenonT(60) DEF Forgotten, Paired, Open, Initiated, Responded

\* The sessions s1 are among those of s.
Within(s1, s) ==
  \A i, j : (Paired(s1, i, j) => Paired(s, i, j)) /\ (Open(s1, i) => Open(s, i))

\* Fewer slots hold fewer sessions.
LEMMA HeldWithin ==
  ASSUME NEW s1, NEW s, Held(s1) \subseteq Held(s)
  PROVE  Within(s1, s)
BY Zenon DEF Within, Paired, Open

\* Using up nonces leaves the indices alone.
LEMMA SendWithin ==
  ASSUME NEW s \in Sessions, NEW n \in Nat, n # 0 => s.current # NONE
  PROVE  Within(handle_outgoing_transport(s, n), s)
<1>1. CASE n = 0
  BY <1>1, Zenon DEF handle_outgoing_transport, Within
<1>2. CASE n # 0
  <2> DEFINE c == [s.current EXCEPT !.sending_nonce = s.current.sending_nonce + n]
  <2>1. s.current \in Session
    BY <1>2, Zenon DEF Sessions, Slot
  <2>2. c.finished = s.current.finished /\ c.our_index = s.current.our_index
        /\ c.their_index = s.current.their_index
    BY <2>1, Zenon DEF Session
  <2>3. handle_outgoing_transport(s, n) = [s EXCEPT !.current = c]
    BY <1>2, Zenon DEF handle_outgoing_transport, Sessions
  <2> HIDE DEF c
  <2>4. Held(handle_outgoing_transport(s, n)) \subseteq {s.past, c, s.next} \ {NONE}
    BY <2>3, Zenon DEF Held, Sessions
  <2> QED BY <1>2, <2>2, <2>4, ZenonT(60) DEF Within, Paired, Open, Held
<1> QED BY <1>1, <1>2, Zenon

\* initiate_new_session adds an unfinished session,
LEMMA InitiateWithin ==
  ASSUME NEW s \in Sessions, NEW i
  PROVE  \A x, y : /\ Paired(initiate_new_session(s, i), x, y) => Paired(s, x, y)
                   /\ Open(initiate_new_session(s, i), x) => Open(s, x) \/ x = i
<1>1. Held(initiate_new_session(s, i)) \subseteq Held(s) \cup {new_session(i)}
  BY Zenon DEF Held, initiate_new_session, replace_next, Sessions
<1>2. new_session(i).our_index = i /\ new_session(i).finished = FALSE
  BY Zenon DEF new_session
<1> QED BY <1>1, <1>2, ZenonT(60) DEF Paired, Open

\* complete_incoming_handshake a finished one,
LEMMA AnswerWithin ==
  ASSUME NEW s \in Sessions, NEW i, NEW their, NEW n0
  PROVE  LET s1 == complete_incoming_handshake(s, i, their, n0)
         IN  \A x, y : /\ Paired(s1, x, y) => Paired(s, x, y) \/ (x = i /\ y = their)
                       /\ Open(s1, x) => Open(s, x)
<1> DEFINE t == transport_session(i, their, n0)
<1>1. Held(complete_incoming_handshake(s, i, their, n0)) \subseteq Held(s) \cup {t}
  BY Zenon DEF Held, complete_incoming_handshake, replace_next, Sessions
<1>2. t.our_index = i /\ t.their_index = their /\ t.finished = TRUE
  BY Zenon DEF transport_session
<1> HIDE DEF t
<1> QED BY <1>1, <1>2, Zenon DEF Paired, Open

\* and process_incoming_handshake_response finishes the one in `next`.
LEMMA CompleteWithin ==
  ASSUME NEW s \in Sessions, NEW their, NEW n0
  PROVE  LET s1 == process_incoming_handshake_response(s, their, n0)
         IN  \A x, y : /\ Paired(s1, x, y) => Paired(s, x, y) \/ (x = s.next.our_index /\ y = their)
                       /\ Open(s1, x) => Open(s, x)
<1> DEFINE t == transport_session(s.next.our_index, their, n0)
<1>1. Held(process_incoming_handshake_response(s, their, n0)) \subseteq Held(s) \cup {t}
  BY Zenon DEF Held, process_incoming_handshake_response
<1>2. t.our_index = s.next.our_index /\ t.their_index = their /\ t.finished = TRUE
  BY Zenon DEF transport_session
<1> HIDE DEF t
<1> QED BY <1>1, <1>2, ZenonT(60) DEF Paired, Open

\* What is on the network after a handler of d.
LEMMA NetGrows ==
  ASSUME NEW d, NEW taken, NEW data, Emit(d, taken, data), \A x \in out' : WellSent(x)
  PROVE  \A c, x, y :
           /\ Initiated(net', c, x, y) =>
                \/ Initiated(net, c, x, y)
                \/ c = d /\ y = now + 1 /\ \E z \in out' : z.type = "initiation" /\ z.sender = x
           /\ Responded(net', c, x, y) =>
                \/ Responded(net, c, x, y)
                \/ c = d /\ \E z \in out' : z.type = "response" /\ z.sender = x /\ z.receiver = y
<1>1. ASSUME NEW m \in net', m \notin net
      PROVE  \E z \in out' : z.type # "tunnel" /\ m = Datagram(z, d, data)
  BY <1>1, Zenon DEF Emit
<1>2. ASSUME NEW z \in out', z.type # "tunnel"
      PROVE  LET m == Datagram(z, d, data) IN
             /\ m.type = z.type /\ m.from = d
             /\ z.type = "initiation" => m.sender = z.sender /\ m.tai64n = now + 1
             /\ z.type = "response" => m.sender = z.sender /\ m.receiver = z.receiver
  <2>1. CASE z.type = "initiation"
    BY <2>1, Zenon DEF Datagram
  <2>2. CASE z.type = "response"
    BY <2>2, Zenon DEF Datagram
  <2>3. CASE z.type = "transport"
    BY <2>3, ZenonT(60) DEF Datagram
  <2> QED BY <1>2, <2>1, <2>2, <2>3, ZenonT(60) DEF WellSent
<1>3. ASSUME NEW c, NEW x, NEW y, Initiated(net', c, x, y), ~Initiated(net, c, x, y)
      PROVE  c = d /\ y = now + 1 /\ \E z \in out' : z.type = "initiation" /\ z.sender = x
  <2>1. PICK m \in net' : m.type = "initiation" /\ m.from = c /\ m.sender = x /\ m.tai64n = y
    BY <1>3, Zenon DEF Initiated
  <2>2. m \notin net
    BY <1>3, <2>1, ZenonT(60) DEF Initiated
  <2>3. PICK z \in out' : z.type # "tunnel" /\ m = Datagram(z, d, data)
    BY <1>1, <2>2, ZenonT(60)
  <2> QED BY <1>2, <2>1, <2>3, ZenonT(60)
<1>4. ASSUME NEW c, NEW x, NEW y, Responded(net', c, x, y), ~Responded(net, c, x, y)
      PROVE  c = d /\ \E z \in out' : z.type = "response" /\ z.sender = x /\ z.receiver = y
  <2>1. PICK m \in net' : m.type = "response" /\ m.from = c /\ m.sender = x /\ m.receiver = y
    BY <1>4, Zenon DEF Responded
  <2>2. m \notin net
    BY <1>4, <2>1, ZenonT(60) DEF Responded
  <2>3. PICK z \in out' : z.type # "tunnel" /\ m = Datagram(z, d, data)
    BY <1>1, <2>2, Zenon
  <2> QED BY <1>2, <2>1, <2>3, ZenonT(60)
<1> QED BY <1>3, <1>4, SMTT(30)

\* A handler of d that keeps, ends or initiates sessions, without a handshake message
\* taken in.
LEMMA CommitAgrees ==
  ASSUME TunnelInv, Agreement, NEW d \in Ends,
         NEW s \in Sessions, NEW t, NEW e, NEW m, NEW r, NEW o,
         commit(d, s, t, m, r, o) \/ send_handshake_init(d, s, t, e, m, r, o),
         Within(s, sessions[d]), \A x \in o : x.type \in {"transport", "tunnel"},
         NEW taken, NEW data, Emit(d, taken, data),
         last_handshake_tai64n' = last_handshake_tai64n
  PROVE  Agreement'
<1>1. udp /\ sessions \in [Ends -> Sessions]
  BY TunnelConstants, Zenon DEF TunnelInv, UpInv, IInv, TypeOK
<1>2. \A x \in out' : WellSent(x)
  BY CommitSends, SentIsWell, Zenon
<1>3. ASSUME NEW I, \A i \in I : Forgotten(i), NEW s1, sessions' = [sessions EXCEPT ![d] = s1],
             \A x, y : /\ Paired(s1, x, y) => Paired(s, x, y)
                       /\ Open(s1, x) => Open(s, x) \/ x \in I,
             \A z \in out' : z.type # "response" /\ (z.type = "initiation" => z.sender \in I)
      PROVE  Agreement'
  <2>1. \A c, x, y :
           /\ Initiated(net', c, x, y) =>
                \/ Initiated(net, c, x, y)
                \/ c = d /\ y = now + 1 /\ \E z \in out' : z.type = "initiation" /\ z.sender = x
           /\ Responded(net', c, x, y) =>
                \/ Responded(net, c, x, y)
                \/ c = d /\ \E z \in out' : z.type = "response" /\ z.sender = x /\ z.receiver = y
    BY <1>2, NetGrows, SMTT(30)
  <2>2. \A c, x, y : Initiated(net', c, x, y) =>
          Initiated(net, c, x, y) \/ (c = d /\ x \in I /\ y = now + 1)
    BY <1>3, <2>1, SMTT(30)
  <2>3. \A c, x, y : Responded(net', c, x, y) => Responded(net, c, x, y)
    BY <1>3, <2>1, ZenonT(60)
  <2>4. sessions'[d] = s1 /\ \A c \in Ends : c # d => sessions'[c] = sessions[c]
    BY <1>1, <1>3, Zenon
  <2>5. \A x, y : /\ Paired(s1, x, y) => Paired(sessions[d], x, y)
                  /\ Open(s1, x) => Open(sessions[d], x) \/ x \in I
    BY <1>3, Zenon DEF Within
  <2>6. AddsInitiations(sessions', net', d, I, now + 1)
    BY <2>2, <2>3, <2>4, <2>5, ZenonT(60) DEF AddsInitiations
  <2>7. Agreed(sessions', net', last_handshake_tai64n)
    BY <1>3, <2>6, AgreeInitiate, Zenon
  <2> QED BY <2>7, ZenonT(60) DEF Agreement
<1>4. CASE commit(d, s, t, m, r, o)
  <2>1. sessions' = [sessions EXCEPT ![d] = s] /\ out' = o
    BY <1>4, Zenon DEF commit
  <2> DEFINE I == {}
  <2>2. /\ \A i \in I : Forgotten(i)
        /\ \A z \in out' : z.type # "response" /\ (z.type = "initiation" => z.sender \in I)
        /\ \A x : Open(s, x) => Open(s, x) \/ x \in I
    BY <2>1, Zenon
  <2> HIDE DEF I
  <2> QED BY <1>3, <2>1, <2>2, ZenonT(60)
<1>5. ASSUME NEW i \in Indices, sessions' = [sessions EXCEPT ![d] = initiate_new_session(s, i)],
             out' = o \cup send_to_peer({Initiation(d, i)})
      PROVE  Agreement'
  <2>1. out' = o \cup {Initiation(d, i)}
    BY <1>1, <1>5, ZenonT(60) DEF send_to_peer
  <2>2. Initiation(d, i).type = "initiation" /\ Initiation(d, i).sender = i
    BY Zenon DEF Initiation
  <2>3. Forgotten(i)
    BY <2>1, <2>2, UnnamedForgotten, ZenonT(60) DEF Emit, ChoosesFresh
  <2> DEFINE I == {i}
  <2>4. /\ \A x \in I : Forgotten(x)
        /\ \A z \in out' : z.type # "response" /\ (z.type = "initiation" => z.sender \in I)
        /\ \A x, y : /\ Paired(initiate_new_session(s, i), x, y) => Paired(s, x, y)
                     /\ Open(initiate_new_session(s, i), x) => Open(s, x) \/ x \in I
    BY <2>1, <2>2, <2>3, InitiateWithin, ZenonT(60)
  <2> HIDE DEF I
  <2> QED BY <1>3, <1>5, <2>4, ZenonT(60)
<1> QED BY <1>4, <1>5, ZenonT(60) DEF send_handshake_init, commit, unused_index

\* An initiation that is accepted: newer than any accepted before.
LEMMA AcceptInitAgrees ==
  ASSUME TunnelInv, Agreement, NEW m \in net, NEW d \in Ends, d = Other(m.from),
         m.type = "initiation", HandleIngressHandshakeInit(d, m.from, m.sender, m.tai64n),
         NEW taken, NEW data, Emit(d, taken, data)
  PROVE  Agreement'
<1> DEFINE L == last_handshake_tai64n
<1>1. /\ udp /\ sessions \in [Ends -> Sessions] /\ Sound(m)
      /\ L \in [Ends -> Nat \cup {NONE}]
  BY TunnelConstants, ZenonT(60) DEF TunnelInv, UpInv, IInv, TypeOK, Timestamp
<1>2. m.from \in Ends /\ m.from # d /\ m.sender \in Indices /\ m.tai64n \in Nat
  <2>1. m.from \in Ends
    BY <1>1, Zenon DEF Sound
  <2>2. \E e \in Ends : e # m.from
    BY Zenon DEF Ends
  <2> QED BY <1>1, <2>1, <2>2, PeerServerConstants, SMTT(30) DEF Sound, Other
<1>3. PICK i \in Indices : commit(d, complete_incoming_handshake(sessions[d], i, m.sender, now),
               [timers[d] EXCEPT !.authenticated_received = now],
               [Unmap(index_map, dead_of_replaced_next(sessions[d])) EXCEPT ![i] = d],
               rekeys, send_to_peer({Response(d, i, m.sender)}))
  BY Zenon DEF HandleIngressHandshakeInit, unused_index
<1> DEFINE s1 == complete_incoming_handshake(sessions[d], i, m.sender, now)
<1>4. sessions' = [sessions EXCEPT ![d] = s1] /\ out' = {Response(d, i, m.sender)}
  BY <1>1, <1>3, Zenon DEF commit, send_to_peer
<1>5. /\ Response(d, i, m.sender).type = "response" /\ Response(d, i, m.sender).sender = i
      /\ Response(d, i, m.sender).receiver = m.sender
  BY Zenon DEF Response
<1>6. Forgotten(i)
  BY <1>4, <1>5, UnnamedForgotten, ZenonT(60) DEF Emit, ChoosesFresh
<1>7. \A x \in out' : WellSent(x)
  BY <1>2, <1>4, <1>5, ZenonT(60) DEF WellSent
<1>8. \A x, y : /\ Paired(s1, x, y) => Paired(sessions[d], x, y) \/ (x = i /\ y = m.sender)
                /\ Open(s1, x) => Open(sessions[d], x)
  BY <1>1, AnswerWithin, ZenonT(60)
<1> HIDE DEF s1
<1>9. sessions'[d] = s1 /\ \A c \in Ends : c # d => sessions'[c] = sessions[c]
  BY <1>1, <1>4, ZenonT(60)
<1>10. \A c, x, y :
         /\ Initiated(net', c, x, y) =>
              \/ Initiated(net, c, x, y)
              \/ c = d /\ y = now + 1 /\ \E z \in out' : z.type = "initiation" /\ z.sender = x
         /\ Responded(net', c, x, y) =>
              \/ Responded(net, c, x, y)
              \/ c = d /\ \E z \in out' : z.type = "response" /\ z.sender = x /\ z.receiver = y
  BY <1>7, NetGrows, SMTT(30)
<1>11. \A c, x, y :
         /\ Initiated(net', c, x, y) => Initiated(net, c, x, y)
         /\ Responded(net', c, x, y) => Responded(net, c, x, y) \/ (c = d /\ x = i /\ y = m.sender)
  BY <1>4, <1>5, <1>10, SMTT(30)
<1>12. AddsResponse(sessions', net', d, i, m.sender)
  BY <1>8, <1>9, <1>11, ZenonT(60) DEF AddsResponse
<1>13. Initiated(net, m.from, m.sender, m.tai64n)
  BY Zenon DEF Initiated
<1>14. /\ is_newer(m.tai64n, L[d]) /\ L' = [L EXCEPT ![d] = m.tai64n]
  BY Zenon DEF HandleIngressHandshakeInit
<1>15. ~Seen(L[d], m.tai64n) /\ Seen(L'[d], m.tai64n)
  BY <1>1, <1>2, <1>14, PeerConstants, SMTT(30) DEF Seen, is_newer
<1>16. \A c \in Ends : \A x \in Nat : Seen(L[c], x) => Seen(L'[c], x)
  <2>1. \A x \in Nat : Seen(L[d], x) => Seen(m.tai64n, x)
    BY <1>1, <1>2, <1>14, PeerConstants, SMTT(30) DEF Seen, is_newer
  <2> QED BY <1>1, <1>14, <2>1, ZenonT(60)
<1> HIDE DEF L
<1>17. Agreed(sessions', net', L')
  BY <1>2, <1>6, <1>12, <1>13, <1>15, <1>16, AgreeAccept, ZenonT(60) DEF L
<1> QED BY <1>17, Zenon DEF Agreement, L

\* The response to the initiation in `next`.
LEMMA AcceptRespAgrees ==
  ASSUME TunnelInv, Agreement, NEW m \in net, NEW d \in Ends, d = Other(m.from),
         m.type = "response", HandleIngressHandshakeResp(d, m.receiver, m.from, m.sender),
         NEW taken, NEW data, Emit(d, taken, data)
  PROVE  Agreement'
<1>1. IInv /\ sessions \in [Ends -> Sessions] /\ Sound(m)
  BY TunnelConstants, Zenon DEF TunnelInv, UpInv, IInv, TypeOK
<1>2. /\ m.from \in Ends /\ m.from # d
      /\ d \in Peers /\ m.from \in Endpoints /\ m.receiver \in Indices /\ m.sender \in TheirIndices
  <2>1. m.from \in Ends
    BY <1>1, Zenon DEF Sound
  <2>2. \E e \in Ends : e # m.from
    BY Zenon DEF Ends
  <2> QED BY <1>1, <2>1, <2>2, TunnelConstants, ZenonT(60) DEF Sound, Other
<1> DEFINE s == process_incoming_handshake_response(sessions[d], m.sender, now)
<1>3. s \in Sessions
  BY <1>1, <1>2, ResponseTyped, ZenonT(60)
<1>4. PICK n, t, o :
        /\ n \in Nat /\ n <= sendable(s, m.from, now)
        /\ o \subseteq Encrypted(d, s, n)
        /\ commit(d, handle_outgoing_transport(s, n), t,
                  Unmap(index_map, IndexOf(sessions[d].past)), rekeys, o)
  BY <1>1, <1>2, ResponseCommits, ZenonT(60)
<1>5. /\ sessions[d].next # NONE /\ sessions[d].next.our_index = m.receiver
      /\ ~sessions[d].next.finished /\ last_handshake_tai64n' = last_handshake_tai64n
  BY Zenon DEF HandleIngressHandshakeResp, Holds
<1>6. \A x, y : /\ Paired(s, x, y) =>
                     Paired(sessions[d], x, y) \/ (x = m.receiver /\ y = m.sender)
                /\ Open(s, x) => Open(sessions[d], x)
  BY <1>1, <1>5, CompleteWithin, ZenonT(60)
<1> HIDE DEF s
<1> DEFINE s1 == handle_outgoing_transport(s, n)
<1>7. n # 0 => s.current # NONE
  BY <1>3, <1>4, SendableBound, SMTT(30)
<1>8. Within(s1, s)
  BY <1>3, <1>4, <1>7, SendWithin, ZenonT(60)
<1>9. sessions' = [sessions EXCEPT ![d] = s1] /\ \A x \in out' : x.type = "transport"
  BY <1>4, EncryptedType, ZenonT(60) DEF commit
<1> HIDE DEF s1
<1>10. sessions'[d] = s1 /\ \A c \in Ends : c # d => sessions'[c] = sessions[c]
  BY <1>1, <1>9, ZenonT(60)
<1>11. \A x, y : /\ Paired(s1, x, y) =>
                      Paired(sessions[d], x, y) \/ (x = m.receiver /\ y = m.sender)
                 /\ Open(s1, x) => Open(sessions[d], x)
  BY <1>6, <1>8, ZenonT(60) DEF Within
<1>12. \A x \in out' : WellSent(x)
  BY <1>9, Zenon DEF WellSent
<1>13. \A c, x, y :
         /\ Initiated(net', c, x, y) =>
              \/ Initiated(net, c, x, y)
              \/ c = d /\ y = now + 1 /\ \E z \in out' : z.type = "initiation" /\ z.sender = x
         /\ Responded(net', c, x, y) =>
              \/ Responded(net, c, x, y)
              \/ c = d /\ \E z \in out' : z.type = "response" /\ z.sender = x /\ z.receiver = y
  BY <1>12, NetGrows, SMTT(30)
<1>14. \A c, x, y : /\ Initiated(net', c, x, y) => Initiated(net, c, x, y)
                    /\ Responded(net', c, x, y) => Responded(net, c, x, y)
  BY <1>9, <1>13, Zenon
<1>15. AddsSession(sessions', net', d, m.receiver, m.sender)
  BY <1>10, <1>11, <1>14, ZenonT(60) DEF AddsSession
<1>16. Responded(net, m.from, m.sender, m.receiver) /\ Open(sessions[d], m.receiver)
  BY <1>5, Zenon DEF Responded, Open, Held
<1>17. Agreed(sessions', net', last_handshake_tai64n)
  BY <1>2, <1>15, <1>16, AgreeComplete, ZenonT(60)
<1> QED BY <1>5, <1>17, ZenonT(60) DEF Agreement

\* Slots that are moved or emptied hold nothing new.
LEMMA MovedWithin ==
  ASSUME NEW s \in Sessions
  PROVE  Within(s, s) /\ Within(reject_handshake_response(s), s)
         /\ Within(confirm_next(s), s) /\ Within(NewSessions, s)
<1>1. Held(s) \subseteq Held(s)
  OBVIOUS
<1>2. Held(reject_handshake_response(s)) \subseteq Held(s)
  BY Zenon DEF Held, reject_handshake_response, Sessions
<1>3. Held(confirm_next(s)) \subseteq Held(s)
  BY Zenon DEF Held, confirm_next
<1>4. Held(NewSessions) \subseteq Held(s)
  BY Zenon DEF Held, NewSessions
<1> QED BY <1>1, <1>2, <1>3, <1>4, HeldWithin, ZenonT(60)

\* Encrypting what is sendable on such sessions does not, either.
LEMMA SentWithin ==
  ASSUME NEW s0, NEW s \in Sessions, Within(s, s0), NEW e, NEW n \in Nat, n <= sendable(s, e, now)
  PROVE  /\ handle_outgoing_transport(s, n) \in Sessions
         /\ Within(handle_outgoing_transport(s, n), s0)
<1>1. handle_outgoing_transport(s, n) \in Sessions
  BY SendEffect, ZenonT(60)
<1>2. n # 0 => s.current # NONE
  BY SendableBound, SMTT(30)
<1>3. Within(handle_outgoing_transport(s, n), s)
  BY <1>2, SendWithin, ZenonT(60)
<1> QED BY <1>1, <1>3, ZenonT(60) DEF Within

\* A transport packet, a response that is refused,
LEMMA AcceptOtherAgrees ==
  ASSUME TunnelInv, Agreement, NEW m, Sound(m), NEW d \in Ends, NEW taken, NEW data,
         Emit(d, taken, data),
         \/ m.type = "response" /\ RejectIngressHandshakeResp(d, m.receiver)
         \/ m.type = "transport" /\ HandleIngressTransport(d, m.receiver, m.from, m.data)
  PROVE  Agreement'
<1>1. IInv /\ d \in Peers /\ sessions[d] \in Sessions
  BY TunnelConstants, ZenonT(60) DEF TunnelInv, UpInv, IInv, TypeOK
<1> DEFINE nothing == {}
<1>2. CASE m.type = "response" /\ RejectIngressHandshakeResp(d, m.receiver)
  <2> DEFINE s == reject_handshake_response(sessions[d])
  <2>1. /\ commit(d, s, timers[d], index_map, rekeys, nothing)
        /\ last_handshake_tai64n' = last_handshake_tai64n
    BY <1>2, Zenon DEF RejectIngressHandshakeResp
  <2>2. s \in Sessions /\ Within(s, sessions[d])
    <3>1. s \in Sessions
      BY <1>1, ZenonT(60) DEF reject_handshake_response, Sessions, Slot
    <3> QED BY <1>1, <3>1, MovedWithin, ZenonT(60)
  <2>3. \A x \in nothing : x.type \in {"transport", "tunnel"}
    OBVIOUS
  <2> HIDE DEF nothing, s
  <2> QED BY <2>1, <2>2, <2>3, CommitAgrees, ZenonT(60)
<1>3. CASE m.type = "transport" /\ HandleIngressTransport(d, m.receiver, m.from, m.data)
  <2>1. m.receiver \in Indices /\ m.from \in Endpoints /\ m.data \in BOOLEAN
    BY <1>3, TunnelConstants, ZenonT(60) DEF Sound
  <2> DEFINE s1 == AfterReceipt(d, m.receiver)
  <2>2. s1 \in Sessions
    BY <1>1, <1>3, <2>1, TransportCommits, ZenonT(60)
  <2>3. PICK n, t, o :
          /\ n \in Nat /\ n <= sendable(s1, m.from, now)
          /\ \A x \in o : x = TunnelPacket(d) \/ x \in Encrypted(d, s1, n)
          /\ \/ commit(d, handle_outgoing_transport(s1, n), t, MapAfterReceipt(d, m.receiver),
                       rekeys, o)
             \/ send_handshake_init(d, handle_outgoing_transport(s1, n), t, m.from,
                                    MapAfterReceipt(d, m.receiver), rekeys, o)
    BY <1>1, <1>3, <2>1, TransportCommits, ZenonT(60)
  <2>4. Within(s1, sessions[d])
    BY <1>1, MovedWithin, ZenonT(60) DEF AfterReceipt
  <2> HIDE DEF s1
  <2>5. /\ handle_outgoing_transport(s1, n) \in Sessions
        /\ Within(handle_outgoing_transport(s1, n), sessions[d])
    BY <2>2, <2>3, <2>4, SentWithin, ZenonT(60)
  <2>6. TunnelPacket(d).type = "tunnel"
    BY Zenon DEF TunnelPacket
  <2>7. \A x \in o : x.type \in {"transport", "tunnel"}
    BY <2>3, <2>6, EncryptedType, ZenonT(60)
  <2>8. last_handshake_tai64n' = last_handshake_tai64n
    BY <1>3, ZenonT(60) DEF HandleIngressTransport
  <2> QED BY <2>3, <2>5, <2>7, <2>8, CommitAgrees, ZenonT(60)
<1> QED BY <1>2, <1>3, Zenon

\* a packet of the user,
LEMMA SendAgrees ==
  ASSUME TunnelInv, Agreement, NEW d \in Ends, HandleEgressPacket(d), Emit(d, {}, TRUE)
  PROVE  Agreement'
<1>1. IInv /\ d \in Peers /\ sessions[d] \in Sessions
  BY TunnelConstants, Zenon DEF TunnelInv, UpInv, IInv, TypeOK
<1> DEFINE s1(n) == handle_outgoing_transport(sessions[d], n)
<1>2. PICK n, t, o :
        /\ n \in Nat /\ n <= sendable(sessions[d], endpoint[d], now)
        /\ o \subseteq Encrypted(d, sessions[d], n)
        /\ \/ commit(d, s1(n), t, index_map, rekeys, o)
           \/ send_handshake_init(d, s1(n), t, endpoint[d], index_map, rekeys, o)
  BY <1>1, EgressCommits, Zenon
<1>3. s1(n) \in Sessions /\ Within(s1(n), sessions[d])
  BY <1>1, <1>2, MovedWithin, SentWithin, ZenonT(60)
<1>4. \A x \in o : x.type \in {"transport", "tunnel"}
  BY <1>2, EncryptedType, ZenonT(60)
<1>5. last_handshake_tai64n' = last_handshake_tai64n
  BY Zenon DEF HandleEgressPacket
<1> HIDE DEF s1
<1> QED BY <1>2, <1>3, <1>4, <1>5, CommitAgrees, Zenon

\* a keepalive,
LEMMA KeepaliveAgrees ==
  ASSUME TunnelInv, Agreement, NEW d \in Ends, SendKeepalive(d), Emit(d, {}, FALSE)
  PROVE  Agreement'
<1>1. sessions[d] \in Sessions
  BY TunnelConstants, Zenon DEF TunnelInv, UpInv, IInv, TypeOK
<1>2. PICK o : /\ o \subseteq Encrypted(d, sessions[d], 1)
               /\ 0 < sendable(sessions[d], endpoint[d], now)
               /\ commit(d, handle_outgoing_transport(sessions[d], 1), timers[d], index_map,
                         rekeys, o)
  BY KeepaliveCommits, Zenon
<1>3. 1 \in Nat /\ 1 <= sendable(sessions[d], endpoint[d], now)
  <2>1. sendable(sessions[d], endpoint[d], now) \in Nat
    BY <1>1, SendableBound, Zenon
  <2> QED BY <1>2, <2>1
<1>4. /\ handle_outgoing_transport(sessions[d], 1) \in Sessions
      /\ Within(handle_outgoing_transport(sessions[d], 1), sessions[d])
  BY <1>1, <1>3, MovedWithin, SentWithin, ZenonT(60)
<1>5. \A x \in o : x.type \in {"transport", "tunnel"}
  BY <1>2, EncryptedType, ZenonT(60)
<1>6. last_handshake_tai64n' = last_handshake_tai64n
  BY Zenon DEF SendKeepalive
<1> QED BY <1>2, <1>4, <1>5, <1>6, CommitAgrees, ZenonT(60)

\* and a timer.
LEMMA FireAgrees ==
  ASSUME TunnelInv, Agreement, Fire
  PROVE  Agreement'
<1>1. IInv /\ Peers = Ends /\ sessions \in [Ends -> Sessions]
  BY TunnelConstants, ZenonT(60) DEF TunnelInv, UpInv, IInv, TypeOK
<1> DEFINE nothing == {}
<1>2. \A x \in nothing : x.type \in {"transport", "tunnel"}
  OBVIOUS
<1>3. ASSUME NEW r \in rekeys, HandleRekeyTimer(r), Emit(r.peer, {}, FALSE)
      PROVE  Agreement'
  <2>1. /\ r.peer \in Ends /\ sessions[r.peer] \in Sessions
        /\ last_handshake_tai64n' = last_handshake_tai64n
    BY <1>1, <1>3, ZenonT(60) DEF IInv, TypeOK, RekeyMessage, HandleRekeyTimer
  <2>2. PICK t, e, r1 :
          \/ commit(r.peer, sessions[r.peer], t, index_map, r1, nothing)
          \/ send_handshake_init(r.peer, sessions[r.peer], t, e, index_map, r1, nothing)
    BY <1>3, ZenonT(60) DEF HandleRekeyTimer
  <2>3. Within(sessions[r.peer], sessions[r.peer])
    BY <2>1, MovedWithin, ZenonT(60)
  <2> HIDE DEF nothing
  <2> QED BY <1>2, <1>3, <2>1, <2>2, <2>3, CommitAgrees, ZenonT(60)
<1>4. ASSUME NEW w \in wipes, HandleWipeTimer(w), Emit(w.peer, {}, FALSE)
      PROVE  Agreement'
  <2>1. /\ w.peer \in Ends /\ sessions[w.peer] \in Sessions
        /\ last_handshake_tai64n' = last_handshake_tai64n
    BY <1>1, <1>4, ZenonT(60) DEF IInv, TypeOK, WipeMessage, HandleWipeTimer
  <2>2. PICK s \in {NewSessions, sessions[w.peer]} : \E m :
          commit(w.peer, s, timers[w.peer], m, rekeys, nothing)
    BY <1>4, ZenonT(60) DEF HandleWipeTimer
  <2>3. s \in Sessions /\ Within(s, sessions[w.peer])
    BY <2>1, <2>2, MovedWithin, SMTT(30) DEF NewSessions, Sessions, Slot
  <2> HIDE DEF nothing
  <2> QED BY <1>2, <1>4, <2>1, <2>2, <2>3, CommitAgrees, ZenonT(60)
<1> QED BY <1>3, <1>4, ZenonT(60) DEF Fire

LEMMA AgreementStep ==
  ASSUME TunnelInv, Agreement, [TunnelNext]_tunnelVars
  PROVE  Agreement'
<1>1. ASSUME sessions' = sessions, net' \subseteq net,
             last_handshake_tai64n' = last_handshake_tai64n
      PROVE  Agreement'
  <2>1. AddsInitiations(sessions', net', "a", {}, 0)
    BY <1>1, ZenonT(60) DEF AddsInitiations, Initiated, Responded
  <2>2. "a" \in Ends /\ \A i \in {} : Forgotten(i)
    BY Zenon DEF Ends
  <2>3. Agreed(sessions', net', last_handshake_tai64n)
    BY <2>1, <2>2, AgreeInitiate, SMTT(30)
  <2> QED BY <1>1, <2>3, ZenonT(60) DEF Agreement
<1>2. CASE UNCHANGED tunnelVars
  BY <1>1, <1>2, Zenon DEF tunnelVars, vars
<1>3. ASSUME NEW d \in Ends, Send(d)
      PROVE  Agreement'
  BY <1>3, SendAgrees, ZenonT(60) DEF Send
<1>7. ASSUME NEW d \in Ends, Keepalive(d)
      PROVE  Agreement'
  BY <1>7, KeepaliveAgrees, ZenonT(60) DEF Keepalive
<1>4. ASSUME NEW m \in net, Receive(m)
      PROVE  Agreement'
  <2> DEFINE d == Other(m.from)
  <2>1. d \in Ends /\ d = Other(m.from) /\ Sound(m)
    BY OtherEnd, ZenonT(60) DEF TunnelInv
  <2>2. Accept(d, m) /\ \E taken : Emit(d, taken, outgoing_queue[d] > 0)
    BY <1>4, Zenon DEF Receive
  <2> HIDE DEF d
  <2>3. \/ m.type = "initiation" /\ HandleIngressHandshakeInit(d, m.from, m.sender, m.tai64n)
        \/ m.type = "response" /\ HandleIngressHandshakeResp(d, m.receiver, m.from, m.sender)
        \/ m.type = "response" /\ RejectIngressHandshakeResp(d, m.receiver)
        \/ m.type = "transport" /\ HandleIngressTransport(d, m.receiver, m.from, m.data)
    BY <2>2, Zenon DEF Accept
  <2> QED BY <2>1, <2>2, <2>3, AcceptInitAgrees, AcceptRespAgrees, AcceptOtherAgrees, ZenonT(60)
<1>5. ASSUME NEW m \in net, Vanish(m)
      PROVE  Agreement'
  BY <1>1, <1>5, ZenonT(60) DEF Vanish, vars
<1>6. CASE PromptTick
  BY <1>1, <1>6, ZenonT(60) DEF PromptTick, Tick, peerVars
<1> QED BY <1>2, <1>3, <1>4, <1>5, <1>6, <1>7, FireAgrees, ZenonT(60) DEF TunnelNext

\* The ends agree on their sessions: whatever the network loses, doubles or reorders,
\* and however initiations cross.
THEOREM EndsAgree == TunnelSpec => []SessionsAgree
<1>1. TunnelInit => Agreement
  <2> SUFFICES ASSUME TunnelInit
               PROVE  Agreement
    OBVIOUS
  <2>1. net = {} /\ \A d \in Ends : Held(sessions[d]) = {}
    BY TunnelConstants, Zenon DEF TunnelInit, InitWith, NewSessions, Held
  <2>2. \A d \in Ends : \A i, j : /\ ~Paired(sessions[d], i, j) /\ ~Open(sessions[d], i)
                                  /\ ~Initiated(net, d, i, j) /\ ~Responded(net, d, i, j)
    BY <2>1, Zenon DEF Paired, Open, Initiated, Responded
  <2> QED BY <2>2, ZenonT(60) DEF Agreement, Agreed, PairsAgree, ResponsesAgree, RespondersApart,
                      CrossingApart, OneTime, AnsweredOnce
<1>2. TunnelInv /\ Agreement /\ [TunnelNext]_tunnelVars => Agreement'
  BY AgreementStep, Zenon
<1>3. Agreement => SessionsAgree
  <2> SUFFICES ASSUME Agreement, NEW s \in Slots("a"), NEW t \in Slots("b"),
                      s.finished, t.finished
               PROVE  s.their_index = t.our_index <=> t.their_index = s.our_index
    BY Zenon DEF SessionsAgree
  <2>1. /\ Paired(sessions["a"], s.our_index, s.their_index)
        /\ Paired(sessions["b"], t.our_index, t.their_index)
    BY Zenon DEF Paired, Held, Slots
  <2> QED BY <2>1, Zenon DEF Agreement, Agreed, PairsAgree, Ends
<1> QED BY <1>1, <1>2, <1>3, TunnelInvAlways, PTL DEF TunnelSpec
=============================================================================
