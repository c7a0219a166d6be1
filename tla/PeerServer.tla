----------------------------- MODULE PeerServer -----------------------------
(***************************************************************************)
(* The event loop of one device (src/interface/peer_server.rs) with a      *)
(* fixed set of configured peers: one action per handler.                  *)
(*                                                                         *)
(* The remote side is the environment.  It may send an initiation, a       *)
(* response or a transport packet at any time; what snow and the replay    *)
(* window answer is the environment's choice, within what an honest remote *)
(* can cause (see each action).  Messages that a handler refuses without   *)
(* changing any state are not steps.  All handlers run on one reactor      *)
(* thread, so a handler is atomic; between two handlers any other handler, *)
(* and any amount of time, may come.                                       *)
(***************************************************************************)
EXTENDS Peer, FiniteSets

CONSTANTS
  Peers,                   \* the configured peers (pubkey_map)
  Endpoints,               \* remote socket addresses
  STALE_SESSION_TIMEOUT, WIPE_AFTER_TIME,
  TIMER_SLACK,             \* what Timer::send_after adds: 2 * TIMER_RESOLUTION
  MaxTime,                 \* bound: the last tick of the clock
  MaxTai64n                \* bound: initiations carry timestamps 1 .. MaxTai64n

ASSUME PeerServerConstants ==
  /\ {STALE_SESSION_TIMEOUT, WIPE_AFTER_TIME, TIMER_SLACK, MaxTime, MaxTai64n} \subseteq Nat
  /\ WIPE_AFTER_TIME < FOREVER
  /\ NONE \notin Peers \cup Endpoints

VARIABLES
  now,                     \* Instant::now(), in ticks
  private_key,             \* interface_info.private_key.is_some()
  udp,                     \* self.udp.is_some()
  sessions,                \* peer.sessions, per peer
  timers,                  \* peer.timers, per peer
  outgoing_queue,          \* peer.outgoing_queue.len(), per peer
  endpoint,                \* peer.info.endpoint, per peer
  last_handshake_tai64n,   \* per peer
  index_map,               \* state.index_map: our_index -> peer
  rekeys,                  \* TimerMessage::Rekey messages that are still to come
  wipes,                   \* TimerMessage::Wipe messages that are still to come
  out                      \* what the last step handed to the socket and the tunnel

vars == <<now, private_key, udp, sessions, timers, outgoing_queue, endpoint,
          last_handshake_tai64n, index_map, rekeys, wipes, out>>

peerVars == <<sessions, timers, outgoing_queue, endpoint, last_handshake_tai64n>>
interfaceVars == <<now, private_key, udp>>

RekeyMessage == [peer : Peers, index : Indices, due : Nat]
WipeMessage  == [peer : Peers, due : Nat]

\* PeerServer::new and Peer::new; `up` says whether the interface has been
\* given its private key (and so its socket) already.
InitWith(up) ==
  /\ now = 0
  /\ private_key = up
  /\ udp = up
  /\ sessions = [p \in Peers |-> NewSessions]
  /\ timers = [p \in Peers |-> NewTimers]
  /\ outgoing_queue = [p \in Peers |-> 0]
  /\ endpoint \in [Peers -> Endpoints \cup {NONE}]
  /\ last_handshake_tai64n = [p \in Peers |-> NONE]
  /\ index_map = [i \in Indices |-> NONE]
  /\ rekeys = {}
  /\ wipes = {}
  /\ out = {}

Init == InitWith(FALSE)

-----------------------------------------------------------------------------
(* What a handler puts on the wire or into the tunnel *)

Initiation(p, i)        == [type |-> "initiation", peer |-> p, sender |-> i]
Response(p, i, their)   == [type |-> "response", peer |-> p, sender |-> i, receiver |-> their]
Transport(p, s, n)      == [type |-> "transport", peer |-> p,
                            receiver |-> s.current.their_index, nonce |-> n]
TunnelPacket(p)         == [type |-> "tunnel", peer |-> p]

\* The n packets that handle_outgoing_transport encrypts on s.current.
Encrypted(p, s, n) ==
  IF n = 0 THEN {}
  ELSE {Transport(p, s, s.current.sending_nonce + k) : k \in 0 .. n - 1}

\* send_to_peer: without a socket it fails and nothing is sent.
send_to_peer(datagrams) == IF udp THEN datagrams ELSE {}

\* Mutant: the random index is not looked up in index_map.
any_index(map) == Indices


unused_index(map) == {i \in Indices : map[i] = NONE}

Unmap(map, dead) == [i \in Indices |-> IF i \in dead THEN NONE ELSE map[i]]

\* Mutant: the wheel is a tick late.
Due_late(delay) == now + delay + 2 * TIMER_SLACK


\* Timer::send_after.
Due(delay) == now + delay + TIMER_SLACK

-----------------------------------------------------------------------------
(***************************************************************************)
(* send_handshake_init, called by a handler that has already computed the  *)
(* sessions s, timers t and endpoint e of the peer, the index map m, the   *)
(* pending rekeys r and the output o.  A failure (`?` in the caller) keeps *)
(* what the handler did so far.                                            *)
(***************************************************************************)
CanInitiate(t, e) ==
  /\ elapsed(t.handshake_initialized, now) >= REKEY_TIMEOUT
  /\ private_key
  /\ e # NONE

\* Commit what the handler computed.
commit(p, s, t, m, r, o) ==
  /\ sessions' = [sessions EXCEPT ![p] = s]
  /\ timers' = [timers EXCEPT ![p] = t]
  /\ index_map' = m
  /\ rekeys' = r
  /\ out' = o

send_handshake_init(p, s, t, e, m, r, o) ==
  IF CanInitiate(t, e)
  THEN \E i \in unused_index(m) :
         commit(p,
                initiate_new_session(s, i),
                IF udp THEN [t EXCEPT !.handshake_initialized = now] ELSE t,
                Unmap([m EXCEPT ![i] = p], dead_of_replaced_next(s)),
                IF udp THEN r \cup {[peer |-> p, index |-> i, due |-> Due(REKEY_TIMEOUT)]} ELSE r,
                o \cup send_to_peer({Initiation(p, i)}))
  ELSE commit(p, s, t, m, r, o)

-----------------------------------------------------------------------------
(***************************************************************************)
(* The loop that sends queued packets: pop, encrypt, send, and return from *)
(* the handler on the first failure.  The packet that fails is lost.  q is *)
(* the length of the queue, room what handle_outgoing_transport can still  *)
(* encrypt.                                                                *)
(***************************************************************************)
Lesser(a, b) == IF a <= b THEN a ELSE b

\* Mutant: `if let` for `while let`: one queued packet only.
drain_one(q, room) == Lesser(q, 1)


drain_popped(q, room)    == Lesser(q, IF udp THEN room + 1 ELSE 1)
drain_encrypted(q, room) == Lesser(drain_popped(q, room), room)
drain_ok(q, room)        == udp /\ q <= room

\* Mutant: no second wipe while one is pending.
wipe_unless_pending(p) ==
  IF \E w \in wipes : w.peer = p THEN {} ELSE {[peer |-> p, due |-> Due(WIPE_AFTER_TIME)]}

\* The timer message with which a completed handshake schedules its wipe.
wipe_message(p) == {[peer |-> p, due |-> Due(WIPE_AFTER_TIME)]}

\* handle_egress_packet, for a packet the router sends to p.
HandleEgressPacket(p) ==
  LET s     == sessions[p]
      fits  == has_room(outgoing_queue[p])
      q     == IF fits THEN outgoing_queue[p] + 1 ELSE outgoing_queue[p]
      ready == ready_for_transport(s, now)
      room  == sendable(s, endpoint[p], now)
      n     == IF ready THEN drain_encrypted(q, room) ELSE 0
      t     == [timers[p] EXCEPT !.handshake_attempts = IF fits THEN 0 ELSE @,
                                 !.data_sent = IF n > 0 THEN now ELSE @]
      s1    == handle_outgoing_transport(s, n)
      o     == send_to_peer(Encrypted(p, s, n))
  IN  /\ outgoing_queue' = [outgoing_queue EXCEPT ![p] =
                              IF ready THEN q - drain_popped(q, room) ELSE q]
      /\ IF needs_new_handshake(s, timers[p], now, TRUE) /\ (ready => drain_ok(q, room))
         THEN send_handshake_init(p, s1, t, endpoint[p], index_map, rekeys, o)
         ELSE commit(p, s1, t, index_map, rekeys, o)
      /\ UNCHANGED <<interfaceVars, endpoint, last_handshake_tai64n, wipes>>

\* handle_ingress_handshake_init, past the MAC and load checks, for an
\* initiation that noise accepts as coming from p.
HandleIngressHandshakeInit(p, addr, their, timestamp) ==
  LET s == sessions[p] IN
  /\ private_key
  /\ is_newer(timestamp, last_handshake_tai64n[p])
  /\ \E i \in unused_index(index_map) :
       commit(p,
              complete_incoming_handshake(s, i, their, now),
              [timers[p] EXCEPT !.authenticated_received = now],
              [Unmap(index_map, dead_of_replaced_next(s)) EXCEPT ![i] = p],
              rekeys,
              send_to_peer({Response(p, i, their)}))
  /\ endpoint' = [endpoint EXCEPT ![p] = addr]
  /\ last_handshake_tai64n' = [last_handshake_tai64n EXCEPT ![p] = timestamp]
  /\ UNCHANGED <<interfaceVars, outgoing_queue, wipes>>

\* handle_ingress_handshake_resp, for a response that noise rejects: one to an
\* older initiation, a duplicate, or one under a different preshared key.
\* Its receiver index leads to p, but is not compared with `next`.
RejectIngressHandshakeResp(p, i) ==
  /\ index_map[i] = p
  /\ sessions[p].next # NONE
  /\ commit(p, reject_handshake_response(sessions[p]), timers[p], index_map, rekeys, {})
  /\ UNCHANGED <<interfaceVars, outgoing_queue, endpoint, last_handshake_tai64n, wipes>>

\* handle_ingress_handshake_resp, for the response to the initiation in `next`
\* (an honest responder echoes its index).
HandleIngressHandshakeResp(p, i, addr, their) ==
  LET s     == process_incoming_handshake_response(sessions[p], their, now)
      q     == outgoing_queue[p]
      ready == ready_for_transport(s, now)
      room  == sendable(s, addr, now)
      n     == CASE ~ready         -> 0
                 [] ready /\ q > 0 -> drain_encrypted(q, room)
                 [] ready /\ q = 0 -> Lesser(1, room)      \* a keepalive
      ok    == ready => drain_ok(IF q > 0 THEN q ELSE 1, room)
  IN  /\ index_map[i] = p
      /\ Holds(sessions[p].next, i) /\ ~sessions[p].next.finished
      /\ commit(p,
                handle_outgoing_transport(s, n),
                [timers[p] EXCEPT !.authenticated_received = now,
                                  !.handshake_completed = now,
                                  !.data_sent = IF q > 0 /\ n > 0 THEN now ELSE @],
                Unmap(index_map, IndexOf(sessions[p].past)),
                rekeys,
                send_to_peer(Encrypted(p, s, n)))
      /\ outgoing_queue' = [outgoing_queue EXCEPT ![p] =
                              IF ready THEN q - drain_popped(q, room) ELSE q]
      /\ endpoint' = [endpoint EXCEPT ![p] = addr]
      /\ wipes' = IF ok THEN wipes \cup wipe_message(p) ELSE wipes
      /\ UNCHANGED <<interfaceVars, last_handshake_tai64n>>

\* handle_ingress_transport, for a packet that the replay window and noise
\* accept on session i of p.  `deliverable`: it carries an IP packet whose
\* source the router maps to p (else it is a keepalive, or is refused last).
HandleIngressTransport(p, i, addr, deliverable) ==
  LET s         == sessions[p]
      confirmed == find_session(s, i) = "next"
      s1        == IF confirmed THEN confirm_next(s) ELSE s
      m         == IF confirmed THEN Unmap(index_map, IndexOf(s.past)) ELSE index_map
      n         == IF confirmed THEN Lesser(outgoing_queue[p], sendable(s1, addr, now)) ELSE 0
      s2        == handle_outgoing_transport(s1, n)
      t         == [timers[p] EXCEPT !.authenticated_received = now,
                                     !.handshake_completed = IF confirmed THEN now ELSE @,
                                     !.data_sent = IF n > 0 THEN now ELSE @]
      needs     == needs_new_handshake(s2, t, now, FALSE)
      o         == Encrypted(p, s1, n) \cup
                     (IF deliverable /\ (needs => CanInitiate(t, addr))
                      THEN {TunnelPacket(p)} ELSE {})
  IN  /\ udp
      /\ index_map[i] = p
      /\ find_session(s, i) # "none"
      /\ accepts_transport(session_of(s, i), now)
      /\ IF needs THEN send_handshake_init(p, s2, t, addr, m, rekeys, o)
                  ELSE commit(p, s2, t, m, rekeys, o)
      /\ outgoing_queue' = [outgoing_queue EXCEPT ![p] = IF confirmed THEN 0 ELSE @]
      /\ endpoint' = [endpoint EXCEPT ![p] = addr]
      /\ wipes' = IF confirmed THEN wipes \cup wipe_message(p) ELSE wipes
      /\ UNCHANGED <<interfaceVars, last_handshake_tai64n>>

-----------------------------------------------------------------------------
(* handle_timer *)

\* Rekey.  Of two times in the same tick either may be the later one, so that the
\* comparison of since_send with since_recv goes either way.
HandleRekeyTimer(r) ==
  LET p          == r.peer
      s          == sessions[p]
      t          == timers[p]
      slot       == find_session(s, r.index)
      rest       == rekeys \ {r}
      again(d)   == rest \cup {[r EXCEPT !.due = Due(d)]}
      since_init == elapsed(t.handshake_initialized, now)
      since_send == elapsed(t.data_sent, now)
      since_recv == elapsed(t.authenticated_received, now)
      retry(t1)  == send_handshake_init(p, s, t1, endpoint[p], index_map, rest, {})
      quit(r1)   == commit(p, s, t, index_map, r1, {})
  IN  /\ r.due <= now
      /\ \/ /\ slot = "next"
            /\ \/ since_init < REKEY_TIMEOUT /\ quit(again(REKEY_TIMEOUT - since_init))
               \/ /\ since_init >= REKEY_TIMEOUT
                  /\ gave_up(t)
                  /\ quit(rest)
               \/ /\ since_init >= REKEY_TIMEOUT
                  /\ ~gave_up(t)
                  /\ retry([t EXCEPT !.handshake_attempts = @ + 1])
         \/ /\ slot = "current"
            /\ \/ since_send >= since_recv /\ quit(again(STALE_SESSION_TIMEOUT))
               \/ /\ since_send <= since_recv
                  /\ since_recv <= STALE_SESSION_TIMEOUT
                  /\ quit(again(STALE_SESSION_TIMEOUT - since_recv))
               \/ since_send <= since_recv /\ since_recv > STALE_SESSION_TIMEOUT /\ retry(t)
         \/ slot \notin {"next", "current"} /\ quit(rest)
      /\ UNCHANGED <<interfaceVars, outgoing_queue, endpoint, last_handshake_tai64n, wipes>>

HandleWipeTimer(w) ==
  LET p     == w.peer
      stale == elapsed(timers[p].handshake_completed, now) >= WIPE_AFTER_TIME
  IN  /\ w.due <= now
      /\ wipes' = wipes \ {w}
      /\ IF stale
         THEN commit(p, NewSessions, timers[p],
                     Unmap(index_map, get_mapped_indices(sessions[p])), rekeys, {})
         ELSE commit(p, sessions[p], timers[p], index_map, rekeys, {})
      /\ UNCHANGED <<interfaceVars, outgoing_queue, endpoint, last_handshake_tai64n>>

\* A keepalive of the PassiveKeepAlive or PersistentKeepAlive timer, or of a
\* new persistent keepalive interval.  It costs a nonce even without a socket.
SendKeepalive(p) ==
  /\ sendable(sessions[p], endpoint[p], now) > 0
  /\ commit(p, handle_outgoing_transport(sessions[p], 1), timers[p], index_map, rekeys,
            send_to_peer(Encrypted(p, sessions[p], 1)))
  /\ UNCHANGED <<interfaceVars, outgoing_queue, endpoint, last_handshake_tai64n, wipes>>

-----------------------------------------------------------------------------
(***************************************************************************)
(* handle_incoming_event, together with the configuration update that sent *)
(* the event (the channel is drained before any other work of a poll).     *)
(***************************************************************************)
NewPrivateKey ==
  /\ private_key' = TRUE
  /\ udp' = TRUE                   \* rebind().unwrap(): the bind succeeds or the process ends
  /\ out' = {}
  /\ UNCHANGED <<now, peerVars, index_map, rekeys, wipes>>

\* The event has no handler: the socket stays open.
ClearPrivateKey ==
  /\ private_key' = FALSE
  /\ out' = {}
  /\ UNCHANGED <<now, udp, peerVars, index_map, rekeys, wipes>>

\* rebind: close the socket without a key, else open one; the old one stays
\* when the port cannot be bound.
NewListenPort ==
  /\ udp' \in (IF private_key THEN {udp, TRUE} ELSE {FALSE})
  /\ out' = {}
  /\ UNCHANGED <<now, private_key, peerVars, index_map, rekeys, wipes>>

\* UpdateEvent::UpdatePeer with an endpoint; it sends no event.
UpdateEndpoint(p, addr) ==
  /\ endpoint' = [endpoint EXCEPT ![p] = addr]
  /\ out' = {}
  /\ UNCHANGED <<interfaceVars, sessions, timers, outgoing_queue, last_handshake_tai64n,
                 index_map, rekeys, wipes>>

Tick ==
  /\ now < MaxTime
  /\ now' = now + 1
  /\ out' = {}
  /\ UNCHANGED <<private_key, udp, peerVars, index_map, rekeys, wipes>>

-----------------------------------------------------------------------------
PeerStep(p) ==
  \/ HandleEgressPacket(p)
  \/ SendKeepalive(p)
  \/ \E addr \in Endpoints, their \in TheirIndices :
       \/ \E ts \in 1 .. MaxTai64n : HandleIngressHandshakeInit(p, addr, their, ts)
       \/ \E i \in Indices : HandleIngressHandshakeResp(p, i, addr, their)
  \/ \E i \in Indices : RejectIngressHandshakeResp(p, i)
  \/ \E i \in Indices, addr \in Endpoints, deliverable \in BOOLEAN :
       HandleIngressTransport(p, i, addr, deliverable)

TimerStep ==
  \/ \E r \in rekeys : HandleRekeyTimer(r)
  \/ \E w \in wipes : HandleWipeTimer(w)

InterfaceStep ==
  \/ NewPrivateKey \/ ClearPrivateKey \/ NewListenPort
  \/ \E p \in Peers, addr \in Endpoints : UpdateEndpoint(p, addr)

Next == Tick \/ TimerStep \/ InterfaceStep \/ \E p \in Peers : PeerStep(p)

Spec == Init /\ [][Next]_vars

\* The same device while its interface stays up: no configuration changes.
UpNext == Tick \/ TimerStep \/ \E p \in Peers : PeerStep(p)

UpSpec == InitWith(TRUE) /\ [][UpNext]_vars

-----------------------------------------------------------------------------
Slots(p) == {sessions[p].past, sessions[p].current, sessions[p].next} \ {NONE}

\* Every field holds a value of its Rust type.
TypeOK ==
  /\ now \in Nat /\ private_key \in BOOLEAN /\ udp \in BOOLEAN
  /\ sessions \in [Peers -> Sessions]
  /\ timers \in [Peers -> Timers]
  /\ outgoing_queue \in [Peers -> 0 .. MAX_QUEUED_PACKETS]
  /\ endpoint \in [Peers -> Endpoints \cup {NONE}]
  /\ last_handshake_tai64n \in [Peers -> Timestamp]
  /\ index_map \in [Indices -> Peers \cup {NONE}]
  /\ rekeys \subseteq RekeyMessage
  /\ wipes \subseteq WipeMessage

\* An incoming packet is dispatched through index_map alone, so every session
\* a peer holds must be reachable under its own index, and lead to that peer.
SessionsMapped == \A p \in Peers : \A s \in Slots(p) : index_map[s.our_index] = p

\* The three slots of a peer never share an index: find_session would otherwise
\* shadow a live session.
SlotsDistinct ==
  \A p \in Peers :
    /\ IndexOf(sessions[p].past) \cap IndexOf(sessions[p].current) = {}
    /\ IndexOf(sessions[p].past) \cap IndexOf(sessions[p].next) = {}
    /\ IndexOf(sessions[p].current) \cap IndexOf(sessions[p].next) = {}

\* needs_new_handshake and ready_for_transport unwrap the sending nonce of the
\* current session, which panics unless its handshake is finished; a current
\* session also has a birthday, an endpoint and an index of the remote side.
CurrentIsUsable ==
  \A p \in Peers : sessions[p].current # NONE =>
    /\ sessions[p].current.finished
    /\ sessions[p].current.birthday # NONE
    /\ sessions[p].current.their_index # NONE
    /\ endpoint[p] # NONE

\* AEAD nonces are never reused: a transport packet that a step sends carries
\* a nonce below the counter its session has afterwards, and not below the one
\* the same session had before, wherever handle_outgoing_transport was called
\* from (queue, keepalive, first packet on a confirmed `next`).
NoncesNeverReused ==
  [][\A p \in Peers : \A d \in out' :
       d.type = "transport" /\ d.peer = p =>
         /\ sessions'[p].current # NONE
         /\ d.nonce < sessions'[p].current.sending_nonce
         /\ d.nonce < REJECT_AFTER_MESSAGES
         /\ \A s \in Slots(p) :
              s.our_index = sessions'[p].current.our_index => d.nonce >= s.sending_nonce]_vars

\* A Rekey message for p's unanswered initiation is still to come, or all
\* attempts have been used up.
RetryComing(p) ==
  sessions[p].next # NONE /\ ~sessions[p].next.finished =>
    \/ \E r \in rekeys : r.peer = p /\ r.index = sessions[p].next.our_index
    \/ timers[p].handshake_attempts >= MAX_HANDSHAKE_ATTEMPTS

\* While the interface is up, an unanswered initiation is always retried.
RetryArmed == \A p \in Peers : RetryComing(p)

\* A Wipe message is still to come that will not find activity since it was
\* triggered, if p has a current session.
WipeComing(p) ==
  sessions[p].current # NONE =>
    \E w \in wipes : w.peer = p /\ w.due >= timers[p].handshake_completed + WIPE_AFTER_TIME

\* While the interface is up, the keys of a current session are going to be
\* wiped.
WipeArmed == \A p \in Peers : WipeComing(p)

\* The current session is ready, but not for all that is queued for p.
NoncesRunOut(p) ==
  /\ ready_for_transport(sessions[p], now)
  /\ outgoing_queue[p] >= REJECT_AFTER_MESSAGES - sessions[p].current.sending_nonce

\* Whatever is reconfigured meanwhile, a retry chain ends early only in a step
\* of a handler that finds no socket or no key, or that uses up the nonces of the
\* session: the `?` after which handle_timer, send_handshake_init and the drain
\* loop of handle_egress_packet schedule nothing.
RetryLostOnlyByEarlyReturn ==
  [][\A p \in Peers :
       RetryComing(p) /\ ~RetryComing(p)' => ~udp \/ ~private_key \/ NoncesRunOut(p)]_vars

\* Whatever is reconfigured meanwhile, keys are left without a Wipe message only
\* by a response that is handled when the socket has gone: the `?` before the
\* send_after of handle_ingress_handshake_resp.
WipeLostOnlyWhenDown ==
  [][\A p \in Peers : WipeComing(p) /\ ~WipeComing(p)' => ~udp]_vars

\* Indices that index_map leads to p under and that no session of p has.
Orphans(p) == {i \in Indices : index_map[i] = p} \ {s.our_index : s \in Slots(p)}

\* The handlers free the index of every session they drop, in rotation, wipe and
\* replacement, but for the response that noise rejects: its handler has emptied
\* `next` by then and learns of no index to free.
OrphanedOnlyByRejection ==
  [][\A p \in Peers :
       (Orphans(p))' \subseteq Orphans(p) \/ \E i \in Indices : RejectIngressHandshakeResp(p, i)]_vars

\* While the interface is up, no packet stays queued beside a session that is
\* ready for it, whichever message made the session ready.
NothingQueuedWhenReady ==
  \A p \in Peers : ready_for_transport(sessions[p], now) => outgoing_queue[p] = 0

-----------------------------------------------------------------------------
(* What the repository says and the handlers do not do *)

\* tests/timers.sh, after the handshakes of one side went unanswered: the other
\* side's ping gets through.  So an egress packet that has to be queued leaves
\* an initiation of ours under way whenever one could be sent.
EgressStartsHandshake ==
  [][\A p \in Peers :
       outgoing_queue'[p] > outgoing_queue[p] /\ CanInitiate(timers[p], endpoint[p]) =>
         sessions'[p].next # NONE /\ ~sessions'[p].next.finished]_vars

\* Sessions::wipe returns "all of our indices that were stored in order to clear
\* out caches/maps": no index of a wiped peer is left in index_map.
WipeClearsIndexMap ==
  [][\A w \in wipes \ wipes' :
       sessions'[w.peer] = NewSessions => \A i \in Indices : index_map'[i] # w.peer]_vars
=============================================================================
