-------------------------------- MODULE Tunnel --------------------------------
(***************************************************************************)
(* Two devices, each the only peer of the other, over a network that       *)
(* reorders, and loses or duplicates a bounded number of datagrams.        *)
(*                                                                         *)
(* Both devices run the handlers of PeerServer.  A device of one peer has  *)
(* one entry in every per-peer variable of PeerServer, so the two devices  *)
(* together are PeerServer for the two Ends, where sessions[d] is what     *)
(* device d holds for its peer.  The ends share nothing but the clock:     *)
(* index_map[i] = d says that i is an index of device d, and the only      *)
(* thing lost is that the two choose the same number by chance.            *)
(*                                                                         *)
(* The network is prompt: what is in flight arrives, or is lost, and what  *)
(* is due is handled, before the clock goes on.  Or there is nobody at the *)
(* other end, as in the retry section of tests/timers.sh: then nothing     *)
(* that is sent arrives.                                                   *)
(***************************************************************************)
EXTENDS PeerServer

CONSTANTS
  Senders,                 \* the devices whose users send packets
  MaxPackets,              \* bound: packets of the users and keepalives
  MaxFaults                \* bound: datagrams lost or duplicated

Ends == {"a", "b"}

ASSUME TunnelConstants ==
  /\ Peers = Ends /\ Endpoints = Ends /\ TheirIndices = Indices
  /\ Senders \subseteq Ends
  /\ MaxPackets \in Nat /\ MaxFaults \in Nat
  /\ MaxTime < MaxTai64n    \* initiations carry now + 1

VARIABLES
  net,                     \* the datagrams in flight
  packets,                 \* how many packets and keepalives were sent
  faults,                  \* how many datagrams were lost or duplicated
  waiting,                 \* history: since when packets wait for a handshake of the
                           \* device's own, per device, or NONE
  silent,                  \* nobody answers
  initiations              \* history: a device's initiations since its user's last
                           \* packet, if silent

tunnelVars == <<vars, net, packets, faults, waiting, silent, initiations>>

Other(d) == CHOOSE e \in Ends : e # d

First == CHOOSE d \in Senders : TRUE

TunnelInit ==
  /\ InitWith(TRUE)
  /\ \A d \in Senders : endpoint[d] = Other(d)
  /\ net = {} /\ packets = 0 /\ faults = 0
  /\ waiting = [d \in Ends |-> NONE]
  /\ silent \in BOOLEAN /\ initiations = [d \in Ends |-> 0]

-----------------------------------------------------------------------------
(* Datagrams *)

\* A datagram of device d, as the other end needs to know it: an initiation
\* carries the time (Tai64n::now), a transport packet the keys it is under,
\* named by the sender's index, and whether there is an IP packet in it.
Datagram(m, d, data) ==
  CASE m.type = "initiation" ->
         [type |-> "initiation", from |-> d, sender |-> m.sender, tai64n |-> now + 1]
    [] m.type = "response" ->
         [type |-> "response", from |-> d, sender |-> m.sender, receiver |-> m.receiver]
    [] m.type = "transport" ->
         [type |-> "transport", from |-> d, sender |-> sessions'[d].current.our_index,
          receiver |-> m.receiver, nonce |-> m.nonce, data |-> data]

Named(m) == IF m.type = "initiation" THEN {m.sender} ELSE {m.sender, m.receiver}

\* Indices that something still refers to.
NamedIndices ==
  UNION ({Named(m) : m \in net}
         \cup {{s.our_index, s.their_index} : s \in UNION {Slots(d) : d \in Ends}})

\* A random index of 32 bits is not one that is still remembered somewhere.
\* Which of the others it is makes no difference.
FreshIndex == CHOOSE i \in Indices : index_map[i] = NONE /\ i \notin NamedIndices

ChoosesFresh ==
  \A m \in out' : m.type \in {"initiation", "response"} =>
    m.sender = FreshIndex /\ m.sender \notin NamedIndices

\* An initiation of ours is under way for queued packets.
Initiating(queue, s) == queue > 0 /\ s.next # NONE /\ ~s.next.finished

\* After a handler of d: what it sent is in flight, and what it took is not any
\* more.
Emit(d, taken, data) ==
  /\ ChoosesFresh
  /\ net' = (net \ taken) \cup {Datagram(m, d, data) : m \in {x \in out' : x.type # "tunnel"}}
  /\ waiting' = [waiting EXCEPT ![d] = IF ~Initiating(outgoing_queue'[d], sessions'[d]) THEN NONE
                                       ELSE IF @ = NONE THEN now ELSE @]
  /\ UNCHANGED silent

\* Those of the handler that runs.
SentInitiations == IF silent THEN Cardinality({m \in out' : m.type = "initiation"}) ELSE 0

-----------------------------------------------------------------------------
(* Steps *)

\* The ends are alike, so it does not matter which one is the first to send.
Send(d) ==
  /\ d \in Senders /\ packets < MaxPackets
  /\ packets = 0 => d = First
  /\ packets' = packets + 1
  /\ HandleEgressPacket(d)
  /\ Emit(d, {}, TRUE)
  /\ initiations' = [initiations EXCEPT ![d] = SentInitiations]
  /\ UNCHANGED faults

\* A keepalive of either keepalive timer: at any time, since when they are due
\* is left open here.
Keepalive(d) ==
  /\ packets < MaxPackets
  /\ packets' = packets + 1
  /\ SendKeepalive(d)
  /\ Emit(d, {}, FALSE)
  /\ UNCHANGED <<faults, initiations>>

\* What the handlers do with a datagram; noise accepts a response to the
\* initiation in `next` and a transport packet under the session's own keys.
Accept(d, m) ==
  \/ /\ m.type = "initiation"
     /\ HandleIngressHandshakeInit(d, m.from, m.sender, m.tai64n)
  \/ /\ m.type = "response"
     /\ \/ HandleIngressHandshakeResp(d, m.receiver, m.from, m.sender)
        \/ /\ ~(Holds(sessions[d].next, m.receiver) /\ ~sessions[d].next.finished)
           /\ RejectIngressHandshakeResp(d, m.receiver)
  \/ /\ m.type = "transport"
     /\ find_session(sessions[d], m.receiver) # "none"
     /\ session_of(sessions[d], m.receiver).their_index = m.sender
     /\ HandleIngressTransport(d, m.receiver, m.from, m.data)

\* When they do something with it.
Acceptable(d, m) ==
  CASE m.type = "initiation" -> is_newer(m.tai64n, last_handshake_tai64n[d])
    [] m.type = "response"   -> index_map[m.receiver] = d /\ sessions[d].next # NONE
    [] m.type = "transport"  ->
         /\ index_map[m.receiver] = d
         /\ find_session(sessions[d], m.receiver) # "none"
         /\ session_of(sessions[d], m.receiver).their_index = m.sender
         /\ accepts_transport(session_of(sessions[d], m.receiver), now)

\* A datagram may arrive and stay in flight, as a duplicate.  The replay window
\* refuses the duplicate of a transport packet.  What the handler sends in its
\* turn are the queued packets, or a keepalive if there are none.
Receive(m) ==
  LET d == Other(m.from) IN
  /\ ~silent
  /\ \/ Accept(d, m) /\ Emit(d, {m}, outgoing_queue[d] > 0) /\ UNCHANGED faults
     \/ /\ m.type # "transport" /\ faults < MaxFaults
        /\ faults' = faults + 1
        /\ Accept(d, m) /\ Emit(d, {}, outgoing_queue[d] > 0)
  /\ UNCHANGED <<packets, initiations>>

\* Nobody is there, no handler changes anything for it, or it is lost.
Vanish(m) ==
  /\ \/ (silent \/ ~Acceptable(Other(m.from), m)) /\ UNCHANGED faults
     \/ ~silent /\ faults < MaxFaults /\ faults' = faults + 1
  /\ net' = net \ {m}
  /\ UNCHANGED <<vars, packets, waiting, silent, initiations>>

Fire ==
  /\ \/ \E r \in rekeys :
          /\ HandleRekeyTimer(r) /\ Emit(r.peer, {}, FALSE)
          /\ initiations' = [initiations EXCEPT ![r.peer] = @ + SentInitiations]
     \/ \E w \in wipes :
          HandleWipeTimer(w) /\ Emit(w.peer, {}, FALSE) /\ UNCHANGED initiations
  /\ UNCHANGED <<packets, faults>>

\* The clock starts with the first packet.
PromptTick ==
  /\ net = {} /\ packets > 0
  /\ \A t \in rekeys \cup wipes : t.due > now
  /\ Tick
  /\ UNCHANGED <<net, packets, faults, waiting, silent, initiations>>

TunnelNext ==
  \/ \E d \in Ends : Send(d) \/ Keepalive(d)
  \/ \E m \in net : Receive(m) \/ Vanish(m)
  \/ Fire \/ PromptTick

TunnelSpec == TunnelInit /\ [][TunnelNext]_tunnelVars

-----------------------------------------------------------------------------
(* Properties *)

\* A handshake that a device makes for its queued packets takes no longer than
\* one retry for every datagram the network lost or doubled: the Rekey timer, the
\* response and the flush of the queue work together across both devices, until
\* the attempts are used up.
QueueDrainsInTime ==
  \A d \in Ends :
    ~silent /\ waiting[d] # NONE /\ faults <= MAX_HANDSHAKE_ATTEMPTS =>
      now - waiting[d] <= faults * (REKEY_TIMEOUT + TIMER_SLACK)

\* tests/timers.sh counts MAX_HANDSHAKE_ATTEMPTS + 1 initiations to a peer that
\* does not answer, and then silence: after the last packet for it the timers
\* never send more.
InitiationsBounded == \A d \in Ends : initiations[d] <= MAX_HANDSHAKE_ATTEMPTS + 1

Unattended(d) == outgoing_queue[d] > 0 /\ sessions[d].next = NONE

\* Packets are left in the queue with no handshake under way, until a user sends
\* another one, in four situations only.  The packet comes within REKEY_TIMEOUT
\* of an initiation, and send_handshake_init bails out.  The session is too old
\* for it and yet needs no new handshake, since its confirmation came late
\* (ready_for_transport goes by its birthday, needs_new_handshake by
\* handshake_completed), which takes a lost datagram.  A response that noise
\* rejects has emptied `next`.  Or a wipe has.
UnattendedOnlyBy ==
  [][\A d \in Ends : Unattended(d)' =>
       \/ Unattended(d)
       \/ /\ outgoing_queue'[d] > outgoing_queue[d]
          /\ \/ elapsed(timers[d].handshake_initialized, now) < REKEY_TIMEOUT
             \/ /\ faults > 0 /\ sessions[d].current # NONE
                /\ timers[d].handshake_completed # sessions[d].current.birthday
       \/ \E i \in Indices : RejectIngressHandshakeResp(d, i)
       \/ \E w \in wipes : w.peer = d /\ HandleWipeTimer(w)]_tunnelVars

\* The ends agree on their sessions, whatever is lost, doubled, late or crosses:
\* when one end addresses its packets to a session of the other, the other
\* addresses its own to that same session, and no two sessions are taken for
\* one another.
SessionsAgree ==
  \A s \in Slots("a"), t \in Slots("b") :
    s.finished /\ t.finished => (s.their_index = t.our_index <=> t.their_index = s.our_index)
=============================================================================
