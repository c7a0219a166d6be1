----------------------------- MODULE TimerProofs -----------------------------
(***************************************************************************)
(* Proofs about what PeerServer leaves to its timers, for every set of     *)
(* peers and indices and every value of the protocol's constants.          *)
(*                                                                         *)
(* Wipe.  A step of the device is one of three kinds.  A quiet one gives   *)
(* no peer a current session it did not have, and leaves                   *)
(* handshake_completed and the Wipe messages alone.  One that completes a  *)
(* handshake of p sets handshake_completed and schedules a Wipe message.   *)
(* The third kind is the Wipe timer itself, which removes a message, but,  *)
(* if it is the one that was to come, the session with it.                 *)
(*                                                                         *)
(* Retry, and the queue that a handshake is made for, follow below; at the *)
(* end UpInv has all that holds while the interface stays up.              *)
(***************************************************************************)
EXTENDS PeerServerProofs

\* A peer with a current session has completed a handshake.
Completed ==
  \A p \in Peers : sessions[p].current # NONE => timers[p].handshake_completed # NONE

QuietStep ==
  /\ wipes' = wipes
  /\ \A p \in Peers :
       /\ sessions[p].current = NONE => sessions'[p].current = NONE
       /\ timers'[p].handshake_completed = timers[p].handshake_completed

CompletingStep(p) ==
  /\ wipes' = wipes \/ wipes' = wipes \cup wipe_message(p)
  /\ udp => wipes' = wipes \cup wipe_message(p)
  /\ timers'[p].handshake_completed = now
  /\ \A q \in Peers \ {p} : sessions'[q] = sessions[q] /\ timers'[q] = timers[q]

-----------------------------------------------------------------------------
(* Wipe: the handlers *)

\* A handler of p that does not complete a handshake is quiet.
LEMMA QuietCommit ==
  ASSUME IInv, NEW p \in Peers, NEW s \in Sessions, NEW t \in Timers, NEW e, NEW m, NEW r, NEW o,
         commit(p, s, t, m, r, o) \/ send_handshake_init(p, s, t, e, m, r, o),
         sessions[p].current = NONE => s.current = NONE,
         t.handshake_completed = timers[p].handshake_completed,
         wipes' = wipes
  PROVE  QuietStep
<1>1. /\ sessions'[p].current = s.current
      /\ timers'[p].handshake_completed = t.handshake_completed
      /\ \A q \in Peers \ {p} : sessions'[q] = sessions[q] /\ timers'[q] = timers[q]
  BY CommitEffect, Zenon
<1> QED BY <1>1, Zenon DEF QuietStep

\* handle_egress_packet.
LEMMA EgressQuiet ==
  ASSUME IInv, NEW p \in Peers, HandleEgressPacket(p)
  PROVE  QuietStep
<1>1. PICK n, t, o :
        /\ n \in Nat /\ t \in Timers
        /\ n <= sendable(sessions[p], endpoint[p], now)
        /\ t.handshake_completed = timers[p].handshake_completed
        /\ \/ commit(p, handle_outgoing_transport(sessions[p], n), t, index_map, rekeys, o)
           \/ send_handshake_init(p, handle_outgoing_transport(sessions[p], n), t, endpoint[p],
                                  index_map, rekeys, o)
  BY EgressCommits, Zenon
<1>2. /\ handle_outgoing_transport(sessions[p], n) \in Sessions
      /\ sessions[p].current = NONE => handle_outgoing_transport(sessions[p], n).current = NONE
  BY <1>1, SendEffect, Zenon DEF IInv, TypeOK
<1>3. wipes' = wipes
  BY Zenon DEF HandleEgressPacket
<1> QED BY <1>1, <1>2, <1>3, QuietCommit, Zenon

\* handle_ingress_handshake_init.
LEMMA InitiationQuiet ==
  ASSUME IInv, NEW p \in Peers, NEW addr \in Endpoints, NEW their \in TheirIndices, NEW ts,
         HandleIngressHandshakeInit(p, addr, their, ts)
  PROVE  QuietStep
<1> DEFINE s(j) == complete_incoming_handshake(sessions[p], j, their, now)
           t    == [timers[p] EXCEPT !.authenticated_received = now]
<1>1. sessions[p] \in Sessions /\ timers[p] \in Timers /\ now \in Nat
  BY Zenon DEF IInv, TypeOK
<1>2. PICK j \in Indices : \E m, o : commit(p, s(j), t, m, rekeys, o)
  BY Zenon DEF HandleIngressHandshakeInit, unused_index
<1>3. s(j) \in Sessions /\ s(j).current = sessions[p].current
  BY <1>1, NewSessionType, Zenon DEF complete_incoming_handshake, replace_next, Sessions, Slot
<1>4. t \in Timers /\ t.handshake_completed = timers[p].handshake_completed
  BY <1>1, Zenon DEF Timers, Timestamp
<1>5. wipes' = wipes
  BY Zenon DEF HandleIngressHandshakeInit
<1> HIDE DEF s, t
<1> QED BY <1>2, <1>3, <1>4, <1>5, QuietCommit, Zenon

\* A response that noise rejects.
LEMMA RejectQuiet ==
  ASSUME IInv, NEW p \in Peers, NEW i \in Indices, RejectIngressHandshakeResp(p, i)
  PROVE  QuietStep
<1> DEFINE s == reject_handshake_response(sessions[p])
<1>1. sessions[p] \in Sessions /\ timers[p] \in Timers
  BY Zenon DEF IInv, TypeOK
<1>2. commit(p, s, timers[p], index_map, rekeys, {}) /\ wipes' = wipes
  BY Zenon DEF RejectIngressHandshakeResp
<1>3. s \in Sessions /\ s.current = sessions[p].current
  BY <1>1, Zenon DEF reject_handshake_response, Sessions, Slot
<1> HIDE DEF s
<1> QED BY <1>1, <1>2, <1>3, QuietCommit, Zenon

\* A keepalive.
LEMMA KeepaliveQuiet ==
  ASSUME IInv, NEW p \in Peers, SendKeepalive(p)
  PROVE  QuietStep
<1> DEFINE s    == handle_outgoing_transport(sessions[p], 1)
           room == sendable(sessions[p], endpoint[p], now)
<1>1. /\ room > 0 /\ wipes' = wipes
      /\ \E o : commit(p, s, timers[p], index_map, rekeys, o)
  BY Zenon DEF SendKeepalive
<1>2. sessions[p] \in Sessions /\ timers[p] \in Timers
  BY Zenon DEF IInv, TypeOK
<1>3. room \in Nat
  BY <1>2, SendableBound, Zenon
<1>4. 1 <= room
  <2> HIDE DEF room, s
  <2> QED BY <1>1, <1>3
<1>5. s \in Sessions /\ (sessions[p].current = NONE => s.current = NONE)
  BY <1>2, <1>4, SendEffect
<1> HIDE DEF s
<1> QED BY <1>1, <1>2, <1>5, QuietCommit, Zenon

\* handle_timer, Rekey.
LEMMA RekeyQuiet ==
  ASSUME IInv, NEW r \in rekeys, HandleRekeyTimer(r)
  PROVE  QuietStep
<1> DEFINE p == r.peer
           t1 == [timers[p] EXCEPT !.handshake_attempts = @ + 1]
<1>1. p \in Peers /\ sessions[p] \in Sessions /\ timers[p] \in Timers
  BY Zenon DEF IInv, TypeOK, RekeyMessage
<1>2. /\ wipes' = wipes
      /\ \E r1 : \/ commit(p, sessions[p], timers[p], index_map, r1, {})
                 \/ send_handshake_init(p, sessions[p], timers[p], endpoint[p], index_map, r1, {})
                 \/ /\ ~gave_up(timers[p])
                    /\ send_handshake_init(p, sessions[p], t1, endpoint[p], index_map, r1, {})
  BY Zenon DEF HandleRekeyTimer
<1>3. ~gave_up(timers[p]) =>
        t1 \in Timers /\ t1.handshake_completed = timers[p].handshake_completed
  BY <1>1, PeerConstants DEF gave_up, Timers
<1> HIDE DEF p, t1
<1> QED BY <1>1, <1>2, <1>3, QuietCommit, Zenon

\* handle_ingress_handshake_resp: the `?` before send_after is taken only
\* without a socket, because a new session has nonces for the whole queue.
LEMMA ResponseCompletes ==
  ASSUME IInv, NEW p \in Peers, NEW i \in Indices, NEW addr \in Endpoints,
         NEW their \in TheirIndices, HandleIngressHandshakeResp(p, i, addr, their)
  PROVE  CompletingStep(p)
<1> DEFINE s0    == sessions[p]
           s     == process_incoming_handshake_response(s0, their, now)
           q     == outgoing_queue[p]
           ready == ready_for_transport(s, now)
           room  == sendable(s, addr, now)
           n     == CASE ~ready         -> 0
                      [] ready /\ q > 0 -> drain_encrypted(q, room)
                      [] ready /\ q = 0 -> Lesser(1, room)
           ok    == ready => drain_ok(IF q > 0 THEN q ELSE 1, room)
           t     == [timers[p] EXCEPT !.authenticated_received = now,
                                      !.handshake_completed = now,
                                      !.data_sent = IF q > 0 /\ n > 0 THEN now ELSE @]
<1>1. /\ Holds(s0.next, i)
      /\ sessions' = [sessions EXCEPT ![p] = handle_outgoing_transport(s, n)]
      /\ timers' = [timers EXCEPT ![p] = t]
      /\ wipes' = IF ok THEN wipes \cup wipe_message(p) ELSE wipes
  BY Zenon DEF HandleIngressHandshakeResp, commit
<1>2. /\ sessions \in [Peers -> Sessions] /\ timers \in [Peers -> Timers]
      /\ s0 \in Sessions /\ now \in Nat /\ q \in 0 .. MAX_QUEUED_PACKETS
  BY Zenon DEF IInv, TypeOK
<1>3. ready => room = REJECT_AFTER_MESSAGES /\ REJECT_AFTER_MESSAGES > 0
  <2>1. s.current.sending_nonce = 0
    BY Zenon DEF process_incoming_handshake_response, transport_session
  <2>2. addr # NONE
    BY PeerServerConstants, Zenon
  <2> QED BY <2>1, <2>2, PeerConstants DEF sendable, ready_for_transport
<1>4. udp => ok
  <2> HIDE DEF s, q, ready, room
  <2> QED BY <1>2, <1>3, PeerConstants, QueueWithinNonces DEF drain_ok
<1> HIDE DEF s, ok, ready, room, n, q
<1>5. timers'[p].handshake_completed = now
  BY <1>1, <1>2, Zenon DEF Timers
<1>6. \A k \in Peers \ {p} : sessions'[k] = sessions[k] /\ timers'[k] = timers[k]
  BY <1>1, <1>2, Zenon
<1> QED BY <1>1, <1>4, <1>5, <1>6, Zenon DEF CompletingStep

\* handle_ingress_transport completes the handshake of `next`, or is quiet.
LEMMA TransportStep ==
  ASSUME IInv, NEW p \in Peers, NEW i \in Indices, NEW addr \in Endpoints,
         NEW deliverable \in BOOLEAN, HandleIngressTransport(p, i, addr, deliverable)
  PROVE  QuietStep \/ CompletingStep(p)
<1> DEFINE s1    == AfterReceipt(p, i)
           s2(n) == handle_outgoing_transport(s1, n)
<1>1. PICK n, t, m, o :
        /\ n \in Nat /\ t \in Timers
        /\ n <= sendable(s1, addr, now)
        /\ t.handshake_completed = IF Confirmed(p, i) THEN now ELSE timers[p].handshake_completed
        /\ \/ commit(p, s2(n), t, m, rekeys, o)
           \/ send_handshake_init(p, s2(n), t, addr, m, rekeys, o)
  BY TransportCommits, Zenon
<1>2. s1 \in Sessions
  BY TransportCommits, Zenon
<1> HIDE DEF s1
<1>3. s2(n) \in Sessions /\ (s1.current = NONE => s2(n).current = NONE)
  BY <1>1, <1>2, SendEffect, Zenon
<1>4. wipes' = IF Confirmed(p, i) THEN wipes \cup wipe_message(p) ELSE wipes
  BY Zenon DEF HandleIngressTransport, Confirmed
<1> HIDE DEF s2
<1>5. CASE Confirmed(p, i)
  <2>1. /\ timers'[p].handshake_completed = t.handshake_completed
        /\ \A q \in Peers \ {p} : sessions'[q] = sessions[q] /\ timers'[q] = timers[q]
    BY <1>1, <1>3, CommitEffect, Zenon
  <2> QED BY <1>1, <1>4, <1>5, <2>1, Zenon DEF CompletingStep
<1>6. CASE ~Confirmed(p, i)
  BY <1>1, <1>3, <1>4, <1>6, QuietCommit, Zenon DEF s1, AfterReceipt
<1> QED BY <1>5, <1>6, Zenon

\* Every step is quiet, completes a handshake or is a Wipe timer's.
LEMMA StepKinds ==
  ASSUME IInv, [Next]_vars
  PROVE  \/ QuietStep
         \/ \E p \in Peers : CompletingStep(p)
         \/ \E w \in wipes : HandleWipeTimer(w)
<1>1. CASE Tick \/ InterfaceStep \/ UNCHANGED vars
  <2>1. sessions' = sessions /\ timers' = timers /\ wipes' = wipes
    BY <1>1, Zenon DEF InterfaceStep, Tick, NewPrivateKey, ClearPrivateKey, NewListenPort,
                UpdateEndpoint, vars, peerVars
  <2> QED BY <2>1, Zenon DEF QuietStep
<1>2. CASE TimerStep
  BY <1>2, RekeyQuiet, Zenon DEF TimerStep
<1>3. ASSUME NEW p \in Peers, PeerStep(p)
      PROVE  QuietStep \/ CompletingStep(p)
  <2>1. CASE HandleEgressPacket(p) \/ SendKeepalive(p)
    BY <2>1, EgressQuiet, KeepaliveQuiet, Zenon
  <2>2. ASSUME NEW addr \in Endpoints, NEW their \in TheirIndices, NEW ts \in 1 .. MaxTai64n,
               HandleIngressHandshakeInit(p, addr, their, ts)
        PROVE  QuietStep
    BY <2>2, InitiationQuiet, Zenon
  <2>3. ASSUME NEW addr \in Endpoints, NEW their \in TheirIndices, NEW i \in Indices,
               HandleIngressHandshakeResp(p, i, addr, their)
        PROVE  CompletingStep(p)
    BY <2>3, ResponseCompletes, Zenon
  <2>4. ASSUME NEW i \in Indices, RejectIngressHandshakeResp(p, i)
        PROVE  QuietStep
    BY <2>4, RejectQuiet, Zenon
  <2>5. ASSUME NEW i \in Indices, NEW addr \in Endpoints, NEW deliverable \in BOOLEAN,
               HandleIngressTransport(p, i, addr, deliverable)
        PROVE  QuietStep \/ CompletingStep(p)
    BY <2>5, TransportStep, Zenon
  <2> QED BY <1>3, <2>1, <2>2, <2>3, <2>4, <2>5, Zenon DEF PeerStep
<1> QED BY <1>1, <1>2, <1>3, Zenon DEF Next

-----------------------------------------------------------------------------
(* The theorems *)

\* A peer that gets a current session has just completed a handshake.
LEMMA CompletedStep ==
  ASSUME IInv, Completed, [Next]_vars
  PROVE  Completed'
<1>1. CASE QuietStep
  BY <1>1, Zenon DEF QuietStep, Completed
<1>2. ASSUME NEW p \in Peers, CompletingStep(p)
      PROVE  Completed'
  <2>1. now # NONE
    BY PeerConstants, Zenon DEF IInv, TypeOK
  <2> QED BY <1>2, <2>1, Zenon DEF CompletingStep, Completed
<1>3. ASSUME NEW w \in wipes, HandleWipeTimer(w)
      PROVE  Completed'
  <2>1. timers' = timers /\ sessions' \in {sessions, [sessions EXCEPT ![w.peer] = NewSessions]}
    <3>1. w.peer \in Peers /\ timers \in [Peers -> Timers] /\ sessions \in [Peers -> Sessions]
      BY Zenon DEF IInv, TypeOK, WipeMessage
    <3> QED BY <1>3, <3>1, Zenon DEF HandleWipeTimer, commit
  <2>2. \A p \in Peers : sessions'[p].current # NONE => sessions[p].current # NONE
    BY <2>1 DEF IInv, TypeOK, NewSessions
  <2> QED BY <2>1, <2>2, Zenon DEF Completed
<1> QED BY <1>1, <1>2, <1>3, StepKinds, Zenon

\* The Wipe timer that was to come finds no activity and wipes the sessions.
LEMMA WipeTimerKeeps ==
  ASSUME IInv, Completed, NEW w \in wipes, HandleWipeTimer(w), NEW p \in Peers, WipeComing(p)
  PROVE  WipeComing(p)'
<1>1. /\ w.peer \in Peers /\ w.due \in Nat /\ now \in Nat /\ WIPE_AFTER_TIME \in Nat
      /\ timers \in [Peers -> Timers] /\ sessions \in [Peers -> Sessions]
  BY PeerServerConstants, Zenon DEF IInv, TypeOK, WipeMessage
<1>2. w.due <= now /\ wipes' = wipes \ {w}
  BY Zenon DEF HandleWipeTimer
<1>3. timers' = timers
  BY <1>1, Zenon DEF HandleWipeTimer, commit
<1> DEFINE stale == elapsed(timers[w.peer].handshake_completed, now) >= WIPE_AFTER_TIME
<1>4. sessions' = IF stale THEN [sessions EXCEPT ![w.peer] = NewSessions] ELSE sessions
  BY <1>1, Zenon DEF HandleWipeTimer, commit
<1> HIDE DEF stale
<1>5. CASE sessions'[p].current = NONE
  BY <1>5, Zenon DEF WipeComing
<1>6. CASE sessions'[p].current # NONE
  <2>1. sessions'[p] = sessions[p]
    BY <1>1, <1>4, <1>6, Zenon DEF NewSessions
  <2>2. PICK u \in wipes : u.peer = p /\ u.due >= timers[p].handshake_completed + WIPE_AFTER_TIME
    BY <1>6, <2>1, Zenon DEF WipeComing
  <2>3. u # w
    <3> SUFFICES ASSUME u = w
                 PROVE  FALSE
      OBVIOUS
    <3>1. timers[p].handshake_completed \in Nat
      BY <1>1, <1>6, <2>1, Zenon DEF Completed, Timers, Timestamp
    <3>2. timers[p].handshake_completed + WIPE_AFTER_TIME <= now
      BY <1>1, <1>2, <2>2, <3>1
    <3>3. elapsed(timers[p].handshake_completed, now) = now - timers[p].handshake_completed
      BY <3>1, PeerConstants, Zenon DEF elapsed
    <3>4. stale
      BY <1>1, <2>2, <3>1, <3>2, <3>3 DEF stale
    <3>5. sessions'[p] = NewSessions
      BY <1>1, <1>4, <2>2, <3>4, Zenon
    <3> QED BY <1>6, <3>5 DEF NewSessions
  <2> QED BY <1>2, <1>3, <2>2, <2>3, Zenon DEF WipeComing
<1> QED BY <1>5, <1>6, Zenon

\* A device with a socket loses no Wipe message that it needs.
LEMMA WipeStaysComing ==
  ASSUME IInv, Completed, [Next]_vars, NEW p \in Peers, WipeComing(p), udp
  PROVE  WipeComing(p)'
<1>1. CASE QuietStep
  BY <1>1, Zenon DEF QuietStep, WipeComing
<1>2. ASSUME NEW k \in Peers, CompletingStep(k)
      PROVE  WipeComing(p)'
  <2>1. wipes' = wipes \cup wipe_message(k)
    BY <1>2, Zenon DEF CompletingStep
  <2>2. CASE k = p
    <3> DEFINE w == [peer |-> p, due |-> Due(WIPE_AFTER_TIME)]
    <3>1. w \in wipes' /\ w.peer = p
      BY <2>1, <2>2, Zenon DEF wipe_message
    <3>2. timers'[p].handshake_completed = now
      BY <1>2, <2>2, Zenon DEF CompletingStep
    <3>3. w.due >= now + WIPE_AFTER_TIME
      BY PeerServerConstants DEF IInv, TypeOK, Due
    <3> HIDE DEF w
    <3> QED BY <3>1, <3>2, <3>3, Zenon DEF WipeComing
  <2>3. CASE k # p
    BY <1>2, <2>1, <2>3, Zenon DEF CompletingStep, WipeComing
  <2> QED BY <2>2, <2>3, Zenon
<1>3. ASSUME NEW w \in wipes, HandleWipeTimer(w)
      PROVE  WipeComing(p)'
  BY <1>3, WipeTimerKeeps, Zenon
<1> QED BY <1>1, <1>2, <1>3, StepKinds, Zenon

\* A new device has no sessions.
LEMMA CompletedInit ==
  ASSUME NEW up, InitWith(up)
  PROVE  Completed /\ WipeArmed
BY Zenon DEF InitWith, NewSessions, Completed, WipeArmed, WipeComing

\* However sockets, keys and endpoints come and go, whatever the peers send and
\* whenever the timers fire: a session in use is left without the Wipe message
\* that will erase its keys only by a step that begins without a socket.
THEOREM WipeLoss == Spec => WipeLostOnlyWhenDown
<1>1. Init => Completed
  BY CompletedInit, Zenon DEF Init
<1>2. IInv /\ Completed /\ [Next]_vars => Completed'
  BY CompletedStep, Zenon
<1>3. Spec => []Completed
  BY <1>1, <1>2, Invariance, PTL DEF Spec
<1>4. IInv /\ Completed /\ [Next]_vars =>
        [\A p \in Peers : WipeComing(p) /\ ~WipeComing(p)' => ~udp]_vars
  BY WipeStaysComing, Zenon
<1> QED BY <1>3, <1>4, Invariance, PTL DEF Spec, WipeLostOnlyWhenDown

\* No handler of a packet or timer closes the socket or clears the key.
LEMMA UpKeepsInterface ==
  ASSUME [UpNext]_vars
  PROVE  UNCHANGED <<private_key, udp>>
<1>1. CASE Tick \/ UNCHANGED vars
  BY <1>1, Zenon DEF Tick, vars
<1>2. CASE TimerStep
  BY <1>2, Zenon DEF TimerStep, HandleRekeyTimer, HandleWipeTimer, interfaceVars
<1>3. ASSUME NEW p \in Peers, PeerStep(p)
      PROVE  UNCHANGED <<private_key, udp>>
  <2>1. HandleEgressPacket(p) => UNCHANGED <<private_key, udp>>
    BY Zenon DEF HandleEgressPacket, interfaceVars
  <2>2. SendKeepalive(p) => UNCHANGED <<private_key, udp>>
    BY Zenon DEF SendKeepalive, interfaceVars
  <2>3. \A addr, their, ts : HandleIngressHandshakeInit(p, addr, their, ts) => UNCHANGED <<private_key, udp>>
    BY Zenon DEF HandleIngressHandshakeInit, interfaceVars
  <2>4. \A i, addr, their : HandleIngressHandshakeResp(p, i, addr, their) => UNCHANGED <<private_key, udp>>
    BY ZenonT(60) DEF HandleIngressHandshakeResp, interfaceVars
  <2>5. \A i : RejectIngressHandshakeResp(p, i) => UNCHANGED <<private_key, udp>>
    BY Zenon DEF RejectIngressHandshakeResp, interfaceVars
  <2>6. \A i, addr, d : HandleIngressTransport(p, i, addr, d) => UNCHANGED <<private_key, udp>>
    BY DEF HandleIngressTransport, interfaceVars
  <2> QED BY <1>3, <2>1, <2>2, <2>3, <2>4, <2>5, <2>6, Zenon DEF PeerStep
<1> QED BY <1>1, <1>2, <1>3, Zenon DEF UpNext

-----------------------------------------------------------------------------
(***************************************************************************)
(* Retry.  That the Rekey message of an unanswered initiation is not lost  *)
(* needs a fact about the peers without one: their attempts were used up   *)
(* when the last message came, so the last initiation is REKEY_TIMEOUT old *)
(* by then (Rested), and the packet that starts another round of attempts  *)
(* can also start it with an initiation.  An initiation has gone somewhere *)
(* (Located).  A handler of p computes sessions s, timers t and messages   *)
(* r, so the facts are stated for those.                                   *)
(***************************************************************************)
Unanswered(s) == s.next # NONE /\ ~s.next.finished

Timed(p, s, r) == \E x \in r : x.peer = p /\ x.index = s.next.our_index

Coming(p, s, t, r) == Unanswered(s) => Timed(p, s, r) \/ gave_up(t)

Rested(p, s, t, r, n) ==
  Unanswered(s) /\ ~Timed(p, s, r) /\ gave_up(t) =>
    elapsed(t.handshake_initialized, n) >= REKEY_TIMEOUT

Located(s, e) == Unanswered(s) => e # NONE

RetryInv ==
  \A p \in Peers :
    Rested(p, sessions[p], timers[p], rekeys, now) /\ Located(sessions[p], endpoint[p])

\* None of the early returns is taken.
Unhindered(p) == udp /\ private_key /\ ~NoncesRunOut(p)

\* What a step of p does to the retries.
RetryKept(p) ==
  /\ RetryInv'
  /\ \A q \in Peers \ {p} : RetryComing(q) => RetryComing(q)'
  /\ RetryComing(p) /\ Unhindered(p) => RetryComing(p)'

\* RetryComing in these terms.
LEMMA ComingIs ==
  ASSUME NEW p \in Peers
  PROVE  RetryComing(p) <=> Coming(p, sessions[p], timers[p], rekeys)
BY Zenon DEF RetryComing, Coming, Unanswered, Timed, gave_up

\* A handler of p that commits such sessions, timers and messages.
LEMMA RetryCommitted ==
  ASSUME IInv, RetryInv, NEW p \in Peers, NEW s, NEW t, NEW r,
         sessions' = [sessions EXCEPT ![p] = s], timers' = [timers EXCEPT ![p] = t],
         rekeys' = r, now' = now, EndpointStep(p),
         \A x \in rekeys : x.peer # p => x \in r,
         Rested(p, s, t, r, now), Located(s, endpoint'[p]),
         RetryComing(p) /\ Unhindered(p) => Coming(p, s, t, r)
  PROVE  RetryKept(p)
<1>1. sessions'[p] = s /\ timers'[p] = t
  BY Zenon DEF IInv, TypeOK
<1>2. \A q \in Peers \ {p} : /\ sessions'[q] = sessions[q] /\ timers'[q] = timers[q]
                             /\ endpoint'[q] = endpoint[q]
  BY Zenon DEF IInv, TypeOK, EndpointStep
<1>3. \A q \in Peers \ {p} : Timed(q, sessions[q], rekeys) => Timed(q, sessions[q], r)
  BY Zenon DEF Timed
<1>4. ASSUME NEW q \in Peers
      PROVE  Rested(q, sessions'[q], timers'[q], r, now) /\ Located(sessions'[q], endpoint'[q])
  <2>1. CASE q = p
    BY <1>1, <2>1, Zenon
  <2>2. CASE q # p
    BY <1>2, <1>3, <2>2, Zenon DEF RetryInv, Rested
  <2> QED BY <2>1, <2>2, Zenon
<1>5. RetryInv'
  BY <1>4, Zenon DEF RetryInv, Rested, Located, Unanswered, Timed, gave_up, elapsed
<1>6. ASSUME NEW q \in Peers \ {p}, RetryComing(q)
      PROVE  RetryComing(q)'
  BY <1>2, <1>3, <1>6, Zenon DEF RetryComing, Timed
<1>7. ASSUME Coming(p, s, t, r)
      PROVE  RetryComing(p)'
  BY <1>1, <1>7, Zenon DEF RetryComing, Coming, Unanswered, Timed, gave_up
<1> QED BY <1>5, <1>6, <1>7, Zenon DEF RetryKept

\* The same for a handler that may initiate: an initiation is sent with a Rekey
\* message, or without a socket, when the last one is old enough.
LEMMA RetryCommit ==
  ASSUME IInv, RetryInv, NEW p \in Peers, NEW s \in Sessions, NEW t \in Timers, NEW e, NEW m,
         NEW r, NEW o,
         commit(p, s, t, m, r, o) \/ send_handshake_init(p, s, t, e, m, r, o),
         now' = now, EndpointStep(p), endpoint'[p] = e,
         \A x \in rekeys : x.peer # p => x \in r,
         Rested(p, s, t, r, now), Located(s, e),
         RetryComing(p) /\ Unhindered(p) =>
           \/ Coming(p, s, t, r)
           \/ send_handshake_init(p, s, t, e, m, r, o) /\ CanInitiate(t, e)
  PROVE  RetryKept(p)
<1>1. CASE send_handshake_init(p, s, t, e, m, r, o) /\ CanInitiate(t, e)
  <2> DEFINE s1(i) == initiate_new_session(s, i)
             t1    == IF udp THEN [t EXCEPT !.handshake_initialized = now] ELSE t
             r1(i) == IF udp THEN r \cup {[peer |-> p, index |-> i, due |-> Due(REKEY_TIMEOUT)]} ELSE r
  <2>1. PICK i : /\ sessions' = [sessions EXCEPT ![p] = s1(i)]
                 /\ timers' = [timers EXCEPT ![p] = t1]
                 /\ rekeys' = r1(i)
    BY <1>1, Zenon DEF send_handshake_init, commit
  <2>2. s1(i).next = new_session(i) /\ new_session(i).our_index = i
    BY Zenon DEF initiate_new_session, replace_next, Sessions, new_session
  <2>3. udp => Timed(p, s1(i), r1(i))
    <3> DEFINE x == [peer |-> p, index |-> i, due |-> Due(REKEY_TIMEOUT)]
    <3>1. udp => x \in r1(i)
      OBVIOUS
    <3>2. x.peer = p /\ x.index = s1(i).next.our_index
      BY <2>2, Zenon
    <3> HIDE DEF x, r1, s1
    <3> QED BY <3>1, <3>2, Zenon DEF Timed
  <2>4. ~udp => elapsed(t1.handshake_initialized, now) >= REKEY_TIMEOUT
    BY <1>1, Zenon DEF CanInitiate
  <2>5. Rested(p, s1(i), t1, r1(i), now)
    BY <2>3, <2>4, Zenon DEF Rested
  <2>6. Located(s1(i), endpoint'[p])
    BY <1>1, Zenon DEF Located, CanInitiate
  <2>7. Unhindered(p) => Coming(p, s1(i), t1, r1(i))
    BY <2>3, Zenon DEF Unhindered, Coming
  <2>8. \A x \in rekeys : x.peer # p => x \in r1(i)
    OBVIOUS
  <2> HIDE DEF s1, t1, r1
  <2> QED BY <2>1, <2>5, <2>6, <2>7, <2>8, RetryCommitted, Zenon
<1>2. CASE commit(p, s, t, m, r, o) /\ ~(send_handshake_init(p, s, t, e, m, r, o) /\ CanInitiate(t, e))
  <2>1. RetryComing(p) /\ Unhindered(p) => Coming(p, s, t, r)
    BY <1>2, Zenon
  <2>2. sessions' = [sessions EXCEPT ![p] = s] /\ timers' = [timers EXCEPT ![p] = t] /\ rekeys' = r
    BY <1>2, Zenon DEF commit
  <2> QED BY <2>1, <2>2, RetryCommitted, Zenon
<1> QED BY <1>1, <1>2, Zenon DEF send_handshake_init

\* handle_egress_packet.  The packet sets handshake_attempts back; if the attempts
\* had been used up, the loop that drains the queue comes to its end and an
\* initiation follows.
LEMMA EgressRetry ==
  ASSUME IInv, RetryInv, NEW p \in Peers, HandleEgressPacket(p)
  PROVE  RetryKept(p)
<1> DEFINE s     == sessions[p]
           fits  == has_room(outgoing_queue[p])
           q     == IF fits THEN outgoing_queue[p] + 1 ELSE outgoing_queue[p]
           ready == ready_for_transport(s, now)
           room  == sendable(s, endpoint[p], now)
           n     == IF ready THEN drain_encrypted(q, room) ELSE 0
           t     == [timers[p] EXCEPT !.handshake_attempts = IF fits THEN 0 ELSE @,
                                      !.data_sent = IF n > 0 THEN now ELSE @]
           s1    == handle_outgoing_transport(s, n)
           o     == send_to_peer(Encrypted(p, s, n))
           needs == needs_new_handshake(s, timers[p], now, TRUE)
<1>1. IF needs /\ (ready => drain_ok(q, room))
      THEN send_handshake_init(p, s1, t, endpoint[p], index_map, rekeys, o)
      ELSE commit(p, s1, t, index_map, rekeys, o)
  BY Zenon DEF HandleEgressPacket
<1>2. now' = now /\ endpoint' = endpoint
  BY Zenon DEF HandleEgressPacket, interfaceVars
<1>3. s \in Sessions /\ timers[p] \in Timers /\ now \in Nat /\ outgoing_queue[p] \in Nat
  BY PeerConstants DEF IInv, TypeOK
<1>4. q \in Nat /\ room \in Nat
  BY <1>3, SendableBound, SMTT(30)
<1>5. Unhindered(p) => (ready => drain_ok(q, room))
  <2> SUFFICES ASSUME Unhindered(p), ready
               PROVE  udp /\ q <= room
    BY Zenon DEF drain_ok
  <2>1. endpoint[p] # NONE
    BY InvImplies, Zenon DEF CurrentIsUsable, ready_for_transport
  <2>2. /\ udp /\ room = REJECT_AFTER_MESSAGES - s.current.sending_nonce
        /\ ~(outgoing_queue[p] >= REJECT_AFTER_MESSAGES - s.current.sending_nonce)
    BY <2>1, Zenon DEF Unhindered, NoncesRunOut, sendable
  <2> HIDE DEF room
  <2> QED BY <1>3, <1>4, <2>2
<1>6. gave_up(timers[p]) /\ s.next # NONE => needs
  BY Zenon DEF needs_new_handshake
<1>7. n \in Nat /\ n <= room
  <2> HIDE DEF q, room, ready
  <2> QED BY <1>4, DrainBounds
<1> HIDE DEF q, room, ready, needs, n
<1>8. s1 \in Sessions /\ s1.next = s.next
  BY <1>3, <1>7, SendEffect, SendKeepsNext, Zenon DEF room
<1> HIDE DEF fits
<1>9. /\ t \in Timers
      /\ t.handshake_initialized = timers[p].handshake_initialized
      /\ gave_up(t) => gave_up(timers[p])
  <2>1. /\ (IF fits THEN 0 ELSE timers[p].handshake_attempts) \in 0 .. MAX_HANDSHAKE_ATTEMPTS
        /\ (IF n > 0 THEN now ELSE timers[p].data_sent) \in Timestamp
    BY <1>3, PeerConstants DEF Timers, Timestamp
  <2>2. /\ t \in Timers
        /\ t.handshake_initialized = timers[p].handshake_initialized
        /\ t.handshake_attempts = IF fits THEN 0 ELSE timers[p].handshake_attempts
    BY <1>3, <2>1, Zenon DEF Timers
  <2>3. gave_up(t) => gave_up(timers[p])
    BY <1>3, <2>2, PeerConstants DEF gave_up, Timers
  <2> QED BY <2>2, <2>3, Zenon
<1> HIDE DEF s1, t, o
<1>10. Rested(p, s1, t, rekeys, now) /\ Located(s1, endpoint[p])
  BY <1>8, <1>9, Zenon DEF RetryInv, Rested, Located, Unanswered, Timed
<1>11. ASSUME RetryComing(p), Unhindered(p), ~Coming(p, s1, t, rekeys)
       PROVE  send_handshake_init(p, s1, t, endpoint[p], index_map, rekeys, o) /\ CanInitiate(t, endpoint[p])
  <2>1. Unanswered(s) /\ ~Timed(p, s, rekeys) /\ gave_up(timers[p])
    BY <1>8, <1>11, ComingIs, Zenon DEF Coming, Unanswered, Timed
  <2>2. elapsed(t.handshake_initialized, now) >= REKEY_TIMEOUT
    BY <1>9, <2>1, Zenon DEF RetryInv, Rested
  <2>3. endpoint[p] # NONE
    BY <2>1, Zenon DEF RetryInv, Located
  <2> QED BY <1>1, <1>5, <1>6, <1>11, <2>1, <2>2, <2>3, Zenon DEF CanInitiate, Unhindered, Unanswered
<1>12. EndpointStep(p)
  BY <1>2, Zenon DEF EndpointStep
<1> QED BY <1>1, <1>2, <1>8, <1>9, <1>10, <1>11, <1>12, RetryCommit, Zenon

\* A handler that commits no unanswered initiation.
LEMMA AnsweredRetry ==
  ASSUME IInv, RetryInv, NEW p \in Peers, NEW s, NEW t, NEW m, NEW o,
         commit(p, s, t, m, rekeys, o), now' = now, EndpointStep(p), ~Unanswered(s)
  PROVE  RetryKept(p)
<1>1. sessions' = [sessions EXCEPT ![p] = s] /\ timers' = [timers EXCEPT ![p] = t] /\ rekeys' = rekeys
  BY Zenon DEF commit
<1>2. Rested(p, s, t, rekeys, now) /\ Located(s, endpoint'[p]) /\ Coming(p, s, t, rekeys)
  BY Zenon DEF Rested, Located, Coming
<1> QED BY <1>1, <1>2, RetryCommitted, Zenon

\* handle_ingress_handshake_init puts a finished session into `next`; a response
\* empties it, accepted or not.
LEMMA HandshakeRetry ==
  ASSUME IInv, RetryInv, NEW p \in Peers, NEW addr \in Endpoints, NEW their \in TheirIndices,
         \/ \E ts : HandleIngressHandshakeInit(p, addr, their, ts)
         \/ \E i \in Indices : HandleIngressHandshakeResp(p, i, addr, their)
  PROVE  RetryKept(p)
<1>1. sessions[p] \in Sessions
  BY Zenon DEF IInv, TypeOK
<1>2. ASSUME NEW ts, HandleIngressHandshakeInit(p, addr, their, ts)
      PROVE  RetryKept(p)
  <2> DEFINE s(i) == complete_incoming_handshake(sessions[p], i, their, now)
  <2>1. PICK i, t, m, o : commit(p, s(i), t, m, rekeys, o)
    BY <1>2, Zenon DEF HandleIngressHandshakeInit
  <2>2. ~Unanswered(s(i))
    BY <1>1, Zenon DEF Unanswered, complete_incoming_handshake, replace_next, transport_session, Sessions
  <2>3. now' = now /\ EndpointStep(p)
    BY <1>2, Zenon DEF HandleIngressHandshakeInit, interfaceVars, EndpointStep
  <2> HIDE DEF s
  <2> QED BY <2>1, <2>2, <2>3, AnsweredRetry, Zenon
<1>3. ASSUME NEW i \in Indices, HandleIngressHandshakeResp(p, i, addr, their)
      PROVE  RetryKept(p)
  <2> DEFINE s == process_incoming_handshake_response(sessions[p], their, now)
  <2>1. PICK n, t, m, o : commit(p, handle_outgoing_transport(s, n), t, m, rekeys, o)
    BY <1>3, Zenon DEF HandleIngressHandshakeResp
  <2>2. s \in Sessions
    BY <1>3, ResponseTyped, Zenon
  <2>3. s.next = NONE
    BY Zenon DEF process_incoming_handshake_response
  <2> HIDE DEF s
  <2>4. ~Unanswered(handle_outgoing_transport(s, n))
    BY <2>2, <2>3, SendKeepsNext, Zenon DEF Unanswered
  <2>5. now' = now /\ EndpointStep(p)
    BY <1>3, Zenon DEF HandleIngressHandshakeResp, interfaceVars, EndpointStep
  <2> QED BY <2>1, <2>4, <2>5, AnsweredRetry, Zenon
<1> QED BY <1>2, <1>3, Zenon

LEMMA RejectRetry ==
  ASSUME IInv, RetryInv, NEW p \in Peers, NEW i \in Indices, RejectIngressHandshakeResp(p, i)
  PROVE  RetryKept(p)
<1> DEFINE s == reject_handshake_response(sessions[p])
<1>1. commit(p, s, timers[p], index_map, rekeys, {})
  BY Zenon DEF RejectIngressHandshakeResp
<1>2. ~Unanswered(s)
  BY Zenon DEF Unanswered, reject_handshake_response, IInv, TypeOK, Sessions
<1>3. now' = now /\ EndpointStep(p)
  BY Zenon DEF RejectIngressHandshakeResp, interfaceVars, EndpointStep
<1> HIDE DEF s
<1> QED BY <1>1, <1>2, <1>3, AnsweredRetry, Zenon

\* handle_ingress_transport and a keepalive leave an unanswered initiation, its
\* timers and its message as they are, or initiate.
LEMMA TransportRetry ==
  ASSUME IInv, RetryInv, NEW p \in Peers, NEW i \in Indices, NEW addr \in Endpoints,
         NEW deliverable \in BOOLEAN, HandleIngressTransport(p, i, addr, deliverable)
  PROVE  RetryKept(p)
<1> DEFINE s1    == AfterReceipt(p, i)
           m     == MapAfterReceipt(p, i)
           s2(n) == handle_outgoing_transport(s1, n)
<1>1. PICK n, t, o :
        /\ n \in Nat /\ t \in Timers
        /\ n <= sendable(s1, addr, now)
        /\ t.handshake_initialized = timers[p].handshake_initialized
        /\ t.handshake_attempts = timers[p].handshake_attempts
        /\ \/ commit(p, s2(n), t, m, rekeys, o)
           \/ send_handshake_init(p, s2(n), t, addr, m, rekeys, o)
  BY TransportCommits, SMTT(30)
<1>2. s1 \in Sessions
  BY TransportCommits, Zenon
<1>3. s1.next \in {NONE, sessions[p].next}
  BY Zenon DEF AfterReceipt, confirm_next
<1> HIDE DEF s1, m
<1>4. s2(n) \in Sessions /\ s2(n).next \in {NONE, sessions[p].next}
  BY <1>1, <1>2, <1>3, SendEffect, SendKeepsNext, Zenon
<1> HIDE DEF s2
<1>5. now' = now /\ EndpointStep(p) /\ endpoint'[p] = addr
  BY Zenon DEF HandleIngressTransport, interfaceVars, EndpointStep, IInv, TypeOK
<1>6. Rested(p, s2(n), t, rekeys, now)
  BY <1>1, <1>4, Zenon DEF RetryInv, Rested, Unanswered, Timed, gave_up
<1>7. Located(s2(n), addr)
  BY PeerServerConstants, Zenon DEF Located
<1>8. RetryComing(p) => Coming(p, s2(n), t, rekeys)
  BY <1>1, <1>4, ComingIs, Zenon DEF Coming, Unanswered, Timed, gave_up
<1> QED BY <1>1, <1>4, <1>5, <1>6, <1>7, <1>8, RetryCommit, Zenon

LEMMA KeepaliveRetry ==
  ASSUME IInv, RetryInv, NEW p \in Peers, SendKeepalive(p)
  PROVE  RetryKept(p)
<1> DEFINE s == handle_outgoing_transport(sessions[p], 1)
<1>1. PICK o : commit(p, s, timers[p], index_map, rekeys, o)
  BY Zenon DEF SendKeepalive
<1>2. sessions[p] \in Sessions
  BY Zenon DEF IInv, TypeOK
<1>3. s.next = sessions[p].next
  BY <1>2, SendKeepsNext, Zenon
<1>4. now' = now /\ endpoint' = endpoint
  BY Zenon DEF SendKeepalive, interfaceVars
<1>5. EndpointStep(p)
  BY <1>4, Zenon DEF EndpointStep
<1> HIDE DEF s
<1>6. Rested(p, s, timers[p], rekeys, now) /\ Located(s, endpoint'[p])
  BY <1>3, <1>4, Zenon DEF RetryInv, Rested, Located, Unanswered, Timed
<1>7. RetryComing(p) => Coming(p, s, timers[p], rekeys)
  BY <1>3, ComingIs, Zenon DEF Coming, Unanswered, Timed
<1>8. /\ sessions' = [sessions EXCEPT ![p] = s]
      /\ timers' = [timers EXCEPT ![p] = timers[p]] /\ rekeys' = rekeys
  BY <1>1, Zenon DEF commit
<1> QED BY <1>4, <1>5, <1>6, <1>7, <1>8, RetryCommitted, Zenon

\* handle_timer, Rekey: a message is taken out.  If it is that of `next`, another
\* one replaces it, or the attempts are used up, or the initiation is repeated; if
\* not, the one of `next` is still there, since the slots share no index.
LEMMA RekeyRetry ==
  ASSUME IInv, RetryInv, NEW r \in rekeys, HandleRekeyTimer(r)
  PROVE  RetryKept(r.peer)
<1> DEFINE p        == r.peer
           s        == sessions[p]
           t        == timers[p]
           t1       == [t EXCEPT !.handshake_attempts = @ + 1]
           rest     == rekeys \ {r}
           again(d) == rest \cup {[r EXCEPT !.due = Due(d)]}
           init(u)  == send_handshake_init(p, s, u, endpoint[p], index_map, rest, {})
           quit(r1) == commit(p, s, t, index_map, r1, {})
           old      == elapsed(t.handshake_initialized, now) >= REKEY_TIMEOUT
<1> SUFFICES RetryKept(p)
  OBVIOUS
<1>1. /\ p \in Peers /\ s \in Sessions /\ t \in Timers /\ r \in RekeyMessage
      /\ now \in Nat /\ REKEY_TIMEOUT \in Nat
  BY PeerConstants, Zenon DEF IInv, TypeOK, RekeyMessage
<1>2. now' = now /\ endpoint' = endpoint
  BY Zenon DEF HandleRekeyTimer, interfaceVars
<1>3. EndpointStep(p)
  BY <1>2, Zenon DEF EndpointStep
<1>4. Rested(p, s, t, rekeys, now) /\ Located(s, endpoint[p])
  BY <1>1, Zenon DEF RetryInv
<1>5. \A x \in rekeys : x.peer # p => x \in rest
  OBVIOUS
<1>6. \/ find_session(s, r.index) = "next" /\ \E d : quit(again(d))
      \/ find_session(s, r.index) = "next" /\ old /\ gave_up(t) /\ quit(rest)
      \/ find_session(s, r.index) = "next" /\ old /\ ~gave_up(t) /\ init(t1)
      \/ find_session(s, r.index) # "next" /\ \E d : quit(again(d))
      \/ find_session(s, r.index) # "next" /\ (init(t) \/ quit(rest))
  BY Zenon DEF HandleRekeyTimer
<1>7. find_session(s, r.index) = "next" => s.next # NONE /\ s.next.our_index = r.index
  BY Zenon DEF find_session, Holds
<1>8. find_session(s, r.index) # "next" => ~Holds(s.next, r.index)
  BY Zenon DEF find_session
<1>9. \A d : /\ [r EXCEPT !.due = d].peer = p /\ [r EXCEPT !.due = d].index = r.index
             /\ [r EXCEPT !.due = Due(d)] \in again(d)
  BY <1>1, Zenon DEF RekeyMessage
<1>10. \A d : \A x \in rekeys : x.peer # p => x \in again(d)
  OBVIOUS
<1>11. \A d : rest \subseteq again(d)
  OBVIOUS
<1> HIDE DEF p, s, t, again, init, quit, old
<1>12. ASSUME NEW r1, quit(r1), Rested(p, s, t, r1, now), RetryComing(p) => Coming(p, s, t, r1),
              \A x \in rekeys : x.peer # p => x \in r1
       PROVE  RetryKept(p)
  <2>1. /\ sessions' = [sessions EXCEPT ![p] = s] /\ timers' = [timers EXCEPT ![p] = t]
        /\ rekeys' = r1
    BY <1>12, Zenon DEF quit, commit
  <2> QED BY <1>1, <1>2, <1>3, <1>4, <1>12, <2>1, RetryCommitted, ZenonT(60)
<1>13. ASSUME NEW d, find_session(s, r.index) = "next", quit(again(d))
       PROVE  RetryKept(p)
  <2>1. Timed(p, s, again(d))
    BY <1>7, <1>9, <1>13, Zenon DEF Timed
  <2>2. Rested(p, s, t, again(d), now) /\ Coming(p, s, t, again(d))
    BY <2>1, Zenon DEF Rested, Coming
  <2> QED BY <1>10, <1>12, <1>13, <2>2, Zenon
<1>14. CASE old /\ gave_up(t) /\ quit(rest)
  <2>1. Rested(p, s, t, rest, now) /\ Coming(p, s, t, rest)
    BY <1>14, Zenon DEF Rested, Coming, old
  <2> QED BY <1>5, <1>12, <1>14, <2>1, Zenon
<1>15. CASE old /\ ~gave_up(t) /\ init(t1)
  <2>1. t1 \in Timers /\ t1.handshake_initialized = t.handshake_initialized
    BY <1>1, <1>15, PeerConstants DEF gave_up, Timers
  <2> HIDE DEF t1
  <2>2. Rested(p, s, t1, rest, now)
    BY <1>15, <2>1, Zenon DEF Rested, old
  <2>3. Unhindered(p) => Coming(p, s, t1, rest) \/ CanInitiate(t1, endpoint[p])
    BY <1>4, <1>15, <2>1, Zenon DEF Unhindered, CanInitiate, old, Coming, Located
  <2> QED BY <1>1, <1>2, <1>3, <1>4, <1>5, <1>15, <2>1, <2>2, <2>3, RetryCommit, ZenonT(60) DEF init
<1>16. ASSUME find_session(s, r.index) # "next"
       PROVE  /\ Unanswered(s) /\ Timed(p, s, rekeys) => Timed(p, s, rest)
              /\ Rested(p, s, t, rest, now)
              /\ RetryComing(p) => Coming(p, s, t, rest)
  <2>1. Unanswered(s) /\ Timed(p, s, rekeys) => Timed(p, s, rest)
    BY <1>8, <1>16, Zenon DEF Timed, Unanswered, Holds
  <2> QED BY <1>1, <1>4, <2>1, ComingIs, Zenon DEF Rested, Coming, s, t
<1>17. ASSUME NEW d, find_session(s, r.index) # "next", quit(again(d))
       PROVE  RetryKept(p)
  <2>1. Timed(p, s, rest) => Timed(p, s, again(d))
    BY <1>11, Zenon DEF Timed
  <2>2. Rested(p, s, t, again(d), now) /\ (RetryComing(p) => Coming(p, s, t, again(d)))
    BY <1>16, <1>17, <2>1, Zenon DEF Rested, Coming
  <2> QED BY <1>10, <1>12, <1>17, <2>2, Zenon
<1>18. CASE find_session(s, r.index) # "next" /\ (init(t) \/ quit(rest))
  BY <1>1, <1>2, <1>3, <1>4, <1>5, <1>12, <1>16, <1>18, RetryCommit, Zenon DEF init
<1> HIDE DEF t1, rest
<1> QED BY <1>6, <1>13, <1>14, <1>15, <1>17, <1>18, Zenon

\* handle_timer, Wipe.
LEMMA WipeRetry ==
  ASSUME IInv, RetryInv, NEW w \in wipes, HandleWipeTimer(w)
  PROVE  RetryKept(w.peer)
<1> DEFINE p == w.peer
<1>1. p \in Peers /\ sessions[p] \in Sessions
  BY Zenon DEF IInv, TypeOK, WipeMessage
<1>2. now' = now /\ endpoint' = endpoint
  BY Zenon DEF HandleWipeTimer, interfaceVars
<1>3. EndpointStep(p)
  BY <1>2, Zenon DEF EndpointStep
<1>4. \E m : \/ commit(p, NewSessions, timers[p], m, rekeys, {})
             \/ commit(p, sessions[p], timers[p], m, rekeys, {})
  BY Zenon DEF HandleWipeTimer
<1>5. ~Unanswered(NewSessions)
  BY Zenon DEF NewSessions, Unanswered
<1>6. Rested(p, sessions[p], timers[p], rekeys, now) /\ Located(sessions[p], endpoint'[p])
  BY <1>1, <1>2, Zenon DEF RetryInv
<1> HIDE DEF p
<1>7. ASSUME NEW m, commit(p, sessions[p], timers[p], m, rekeys, {})
      PROVE  RetryKept(p)
  <2>1. /\ sessions' = [sessions EXCEPT ![p] = sessions[p]]
        /\ timers' = [timers EXCEPT ![p] = timers[p]] /\ rekeys' = rekeys
    BY <1>7, Zenon DEF commit
  <2> QED BY <1>1, <1>2, <1>3, <1>6, <2>1, ComingIs, RetryCommitted, Zenon
<1>8. RetryKept(p)
  BY <1>1, <1>2, <1>3, <1>4, <1>5, <1>7, AnsweredRetry, Zenon
<1> QED BY <1>8, Zenon DEF p

\* The clock and a new configuration leave sessions, timers and messages alone.
LEMMA IdleRetry ==
  ASSUME IInv, RetryInv, Tick \/ InterfaceStep \/ UNCHANGED vars
  PROVE  RetryInv' /\ \A p \in Peers : RetryComing(p) => RetryComing(p)'
<1>1. sessions' = sessions /\ timers' = timers /\ rekeys' = rekeys /\ now' \in {now, now + 1}
  BY Zenon DEF InterfaceStep, Tick, NewPrivateKey, ClearPrivateKey, NewListenPort, UpdateEndpoint,
         vars, peerVars, interfaceVars
<1>2. \A p \in Peers : endpoint[p] # NONE => endpoint'[p] # NONE
  <2>1. CASE endpoint' = endpoint
    BY <2>1, Zenon
  <2>2. ASSUME NEW p \in Peers, NEW addr \in Endpoints, UpdateEndpoint(p, addr)
        PROVE  \A q \in Peers : endpoint[q] # NONE => endpoint'[q] # NONE
    BY <2>2, PeerServerConstants, Zenon DEF UpdateEndpoint, IInv, TypeOK
  <2> QED BY <2>1, <2>2, Zenon DEF InterfaceStep, Tick, NewPrivateKey, ClearPrivateKey, NewListenPort,
                            vars, peerVars
<1>3. \A p \in Peers : RetryComing(p) => RetryComing(p)'
  BY <1>1, Zenon DEF RetryComing
<1>4. now \in Nat /\ REKEY_TIMEOUT \in Nat /\ REKEY_TIMEOUT < FOREVER /\ FOREVER \in Nat
  BY PeerConstants, Zenon DEF IInv, TypeOK
<1>5. ASSUME NEW p \in Peers
      PROVE  elapsed(timers[p].handshake_initialized, now) >= REKEY_TIMEOUT =>
             elapsed(timers[p].handshake_initialized, now') >= REKEY_TIMEOUT
  <2>1. timers[p].handshake_initialized \in Nat \cup {NONE}
    BY Zenon DEF IInv, TypeOK, Timers, Timestamp
  <2> QED BY <1>1, <1>4, <2>1, PeerConstants, SMTT(30) DEF elapsed
<1>6. \A p \in Peers : (Rested(p, sessions[p], timers[p], rekeys, now))'
  BY <1>1, <1>5, Zenon DEF RetryInv, Rested, Timed, Unanswered, gave_up
<1>7. \A p \in Peers : (Located(sessions[p], endpoint[p]))'
  BY <1>1, <1>2, Zenon DEF RetryInv, Located, Unanswered
<1> QED BY <1>3, <1>6, <1>7, Zenon DEF RetryInv

\* What every step of the device does to the retries.
LEMMA RetryStep ==
  ASSUME IInv, RetryInv, [Next]_vars
  PROVE  RetryInv' /\ \A p \in Peers : RetryComing(p) /\ Unhindered(p) => RetryComing(p)'
<1>1. CASE Tick \/ InterfaceStep \/ UNCHANGED vars
  BY <1>1, IdleRetry, Zenon
<1>2. ASSUME NEW r \in rekeys, HandleRekeyTimer(r)
      PROVE  r.peer \in Peers /\ RetryKept(r.peer)
  BY <1>2, RekeyRetry, Zenon DEF IInv, TypeOK, RekeyMessage
<1>3. ASSUME NEW w \in wipes, HandleWipeTimer(w)
      PROVE  w.peer \in Peers /\ RetryKept(w.peer)
  BY <1>3, WipeRetry, Zenon DEF IInv, TypeOK, WipeMessage
<1>4. ASSUME NEW p \in Peers, PeerStep(p)
      PROVE  RetryKept(p)
  <2>1. CASE HandleEgressPacket(p)
    BY <2>1, EgressRetry, Zenon
  <2>2. CASE SendKeepalive(p)
    BY <2>2, KeepaliveRetry, Zenon
  <2>3. ASSUME NEW addr \in Endpoints, NEW their \in TheirIndices,
               \/ \E ts \in 1 .. MaxTai64n : HandleIngressHandshakeInit(p, addr, their, ts)
               \/ \E i \in Indices : HandleIngressHandshakeResp(p, i, addr, their)
        PROVE  RetryKept(p)
    BY <2>3, HandshakeRetry, Zenon
  <2>4. ASSUME NEW i \in Indices, RejectIngressHandshakeResp(p, i)
        PROVE  RetryKept(p)
    BY <2>4, RejectRetry, Zenon
  <2>5. ASSUME NEW i \in Indices, NEW addr \in Endpoints, NEW d \in BOOLEAN,
               HandleIngressTransport(p, i, addr, d)
        PROVE  RetryKept(p)
    BY <2>5, TransportRetry, Zenon
  <2> QED BY <1>4, <2>1, <2>2, <2>3, <2>4, <2>5, Zenon DEF PeerStep
<1>5. \A p \in Peers : RetryKept(p) =>
        RetryInv' /\ \A q \in Peers : RetryComing(q) /\ Unhindered(q) => RetryComing(q)'
  BY Zenon DEF RetryKept
<1> QED BY <1>1, <1>2, <1>3, <1>4, <1>5, Zenon DEF Next, TimerStep

\* A new device has initiated nothing.
LEMMA RetryInit ==
  ASSUME NEW up, InitWith(up)
  PROVE  RetryInv /\ RetryArmed
BY Zenon DEF InitWith, NewSessions, RetryInv, Rested, Located, Unanswered, RetryArmed, RetryComing

\* However sockets, keys and endpoints come and go, whatever the peers send and
\* whenever the timers fire: an unanswered initiation loses its retry only in a
\* step that starts without a socket or a key, or that uses up the nonces of the
\* session.
THEOREM RetryLoss == Spec => RetryLostOnlyByEarlyReturn
<1>1. Init => RetryInv
  BY RetryInit, Zenon DEF Init
<1>2. IInv /\ RetryInv /\ [Next]_vars => RetryInv'
  BY RetryStep, Zenon
<1>3. Spec => []RetryInv
  BY <1>1, <1>2, Invariance, PTL DEF Spec
<1>4. IInv /\ RetryInv /\ [Next]_vars =>
        [\A p \in Peers : RetryComing(p) /\ ~RetryComing(p)' =>
           ~udp \/ ~private_key \/ NoncesRunOut(p)]_vars
  BY RetryStep, Zenon DEF Unhindered
<1> QED BY <1>3, <1>4, Invariance, PTL DEF Spec, RetryLostOnlyByEarlyReturn

-----------------------------------------------------------------------------
(***************************************************************************)
(* Queue.  That a session which can send has nothing left to send depends  *)
(* on the drain loop never running out of nonces.  It cannot: a session    *)
(* that is ready had an empty queue before the packet, and a new session   *)
(* has more nonces than a full queue needs.                                *)
(***************************************************************************)

\* Sending makes no session ready.
LEMMA SendingReadiesNothing ==
  ASSUME NEW s \in Sessions, NEW e, NEW n \in Nat, NEW now0 \in Nat, n <= sendable(s, e, now0),
         ready_for_transport(handle_outgoing_transport(s, n), now0)
  PROVE  ready_for_transport(s, now0)
<1> DEFINE x == handle_outgoing_transport(s, n).current
<1>1. s.current # NONE /\ x # NONE
  BY SendEffect, Zenon DEF ready_for_transport
<1>2. x.birthday = s.current.birthday /\ x.sending_nonce = s.current.sending_nonce + n
  BY <1>1, SendEffect, Zenon
<1>3. s.current.sending_nonce \in Nat /\ REJECT_AFTER_MESSAGES \in Nat
  BY <1>1, PeerConstants DEF Sessions, Slot, Session
<1>4. elapsed(x.birthday, now0) < REJECT_AFTER_TIME /\ x.sending_nonce < REJECT_AFTER_MESSAGES
  BY Zenon DEF ready_for_transport
<1> HIDE DEF x
<1> QED BY <1>1, <1>2, <1>3, <1>4 DEF ready_for_transport

\* A handler ends in a commit, perhaps with a new initiation in `next`: it keeps
\* the queues in order if it leaves nothing queued for a `current` that is ready.
LEMMA QueueCommit ==
  ASSUME IInv, NothingQueuedWhenReady, NEW p \in Peers, NEW s \in Sessions, NEW t, NEW e, NEW m,
         NEW r, NEW o,
         commit(p, s, t, m, r, o) \/ send_handshake_init(p, s, t, e, m, r, o),
         now' = now, \A q \in Peers \ {p} : outgoing_queue'[q] = outgoing_queue[q],
         ready_for_transport(s, now) => outgoing_queue'[p] = 0
  PROVE  NothingQueuedWhenReady'
<1>1. \E x : x.current = s.current /\ sessions' = [sessions EXCEPT ![p] = x]
  <2>1. CASE commit(p, s, t, m, r, o)
    BY <2>1, Zenon DEF commit
  <2>2. ASSUME NEW i, NEW t1, NEW m1, NEW r1, NEW o1,
               commit(p, initiate_new_session(s, i), t1, m1, r1, o1)
        PROVE  \E x : x.current = s.current /\ sessions' = [sessions EXCEPT ![p] = x]
    <3>1. initiate_new_session(s, i).current = s.current
      BY Zenon DEF initiate_new_session, replace_next, Sessions
    <3> QED BY <2>2, <3>1, Zenon DEF commit
  <2> QED BY <2>1, <2>2, Zenon DEF send_handshake_init
<1>2. PICK x : x.current = s.current /\ sessions' = [sessions EXCEPT ![p] = x]
  BY <1>1, Zenon
<1>3. sessions'[p] = x /\ \A q \in Peers \ {p} : sessions'[q] = sessions[q]
  BY <1>2, Zenon DEF IInv, TypeOK
<1>4. ready_for_transport(x, now) <=> ready_for_transport(s, now)
  BY <1>2, Zenon DEF ready_for_transport
<1>5. ASSUME NEW q \in Peers, (ready_for_transport(sessions[q], now))'
      PROVE  outgoing_queue'[q] = 0
  <2>1. (ready_for_transport(sessions[q], now))' <=> ready_for_transport(sessions'[q], now)
    BY Zenon DEF ready_for_transport
  <2> QED BY <1>3, <1>4, <1>5, <2>1, Zenon DEF NothingQueuedWhenReady
<1> QED BY <1>5, Zenon DEF NothingQueuedWhenReady

\* handle_egress_packet: the packet is the only one in the queue of a session
\* that is ready, and is encrypted with one of the nonces that are left.
LEMMA EgressQueue ==
  ASSUME IInv, NothingQueuedWhenReady, udp, NEW p \in Peers, HandleEgressPacket(p)
  PROVE  NothingQueuedWhenReady'
<1> DEFINE s     == sessions[p]
           q     == IF has_room(outgoing_queue[p]) THEN outgoing_queue[p] + 1
                                                   ELSE outgoing_queue[p]
           room  == sendable(s, endpoint[p], now)
           ready == ready_for_transport(s, now)
<1>1. PICK n, t, o : /\ n \in Nat /\ n <= sendable(s, endpoint[p], now)
                     /\ \/ commit(p, handle_outgoing_transport(s, n), t, index_map, rekeys, o)
                        \/ send_handshake_init(p, handle_outgoing_transport(s, n), t, endpoint[p],
                                               index_map, rekeys, o)
  BY EgressCommits, Zenon
<1>2. s \in Sessions /\ now \in Nat /\ outgoing_queue \in [Peers -> 0 .. MAX_QUEUED_PACKETS]
  BY Zenon DEF IInv, TypeOK
<1>3. outgoing_queue' = [outgoing_queue EXCEPT ![p] =
                           IF ready THEN q - drain_popped(q, room) ELSE q]
  BY Zenon DEF HandleEgressPacket
<1>4. ready => q \in {0, 1}
  BY DEF NothingQueuedWhenReady
<1>5. ready => room \in Nat /\ room >= 1
  <2>1. ready => endpoint[p] # NONE
    BY InvImplies, Zenon DEF ready_for_transport, CurrentIsUsable
  <2>2. ready => s.current.sending_nonce \in Nat /\ s.current.sending_nonce < REJECT_AFTER_MESSAGES
    BY <1>2 DEF ready_for_transport, Sessions, Slot, Session
  <2> QED BY <2>1, <2>2, PeerConstants DEF sendable
<1> HIDE DEF q, room
<1>6. ready => drain_popped(q, room) = q
  BY <1>4, <1>5 DEF drain_popped, Lesser
<1>7. ready => outgoing_queue'[p] = 0
  BY <1>2, <1>3, <1>4, <1>6, SMTT(30)
<1>8. ready_for_transport(handle_outgoing_transport(s, n), now) => ready
  BY <1>1, <1>2, SendingReadiesNothing, Zenon
<1>9. \A k \in Peers \ {p} : outgoing_queue'[k] = outgoing_queue[k]
  BY <1>2, <1>3, Zenon
<1>10. now' = now
  BY Zenon DEF HandleEgressPacket, interfaceVars
<1>11. handle_outgoing_transport(s, n) \in Sessions
  BY <1>1, <1>2, SendEffect, Zenon
<1> HIDE DEF ready, s
<1> QED BY <1>1, <1>7, <1>8, <1>9, <1>10, <1>11, QueueCommit, Zenon

\* handle_ingress_handshake_resp: the nonces of the new session are enough for a
\* full queue.
LEMMA ResponseQueue ==
  ASSUME IInv, NothingQueuedWhenReady, udp, NEW p \in Peers, NEW i \in Indices,
         NEW addr \in Endpoints, NEW their \in TheirIndices,
         HandleIngressHandshakeResp(p, i, addr, their)
  PROVE  NothingQueuedWhenReady'
<1> DEFINE s     == process_incoming_handshake_response(sessions[p], their, now)
           q     == outgoing_queue[p]
           room  == sendable(s, addr, now)
           ready == ready_for_transport(s, now)
<1>1. PICK n, t, o : /\ n \in Nat /\ n <= sendable(s, addr, now)
                     /\ commit(p, handle_outgoing_transport(s, n), t,
                               Unmap(index_map, IndexOf(sessions[p].past)), rekeys, o)
  BY ResponseCommits, Zenon
<1>2. /\ s \in Sessions /\ now \in Nat /\ q \in 0 .. MAX_QUEUED_PACKETS
      /\ outgoing_queue \in [Peers -> 0 .. MAX_QUEUED_PACKETS]
  BY ResponseTyped, Zenon DEF IInv, TypeOK
<1>3. outgoing_queue' = [outgoing_queue EXCEPT ![p] =
                           IF ready THEN q - drain_popped(q, room) ELSE q]
  BY Zenon DEF HandleIngressHandshakeResp
<1>4. ready => room = REJECT_AFTER_MESSAGES
  <2>1. s.current.sending_nonce = 0
    BY Zenon DEF process_incoming_handshake_response, transport_session
  <2> HIDE DEF s
  <2> QED BY <2>1, PeerConstants, PeerServerConstants DEF sendable
<1> HIDE DEF room, q
<1>5. ready => drain_popped(q, room) = q
  BY <1>2, <1>4, PeerConstants, QueueWithinNonces, SMTT(30) DEF drain_popped, Lesser
<1>6. ready => outgoing_queue'[p] = 0
  BY <1>2, <1>3, <1>5, PeerConstants, SMTT(30)
<1>7. \A k \in Peers \ {p} : outgoing_queue'[k] = outgoing_queue[k]
  BY <1>2, <1>3, Zenon
<1>8. now' = now
  BY Zenon DEF HandleIngressHandshakeResp, interfaceVars
<1> HIDE DEF s
<1>9. ready_for_transport(handle_outgoing_transport(s, n), now) => ready
  BY <1>1, <1>2, SendingReadiesNothing, Zenon
<1>10. handle_outgoing_transport(s, n) \in Sessions
  BY <1>1, <1>2, SendEffect, Zenon
<1> HIDE DEF ready
<1> QED BY <1>1, <1>6, <1>7, <1>8, <1>9, <1>10, QueueCommit, Zenon

\* handle_ingress_transport: the packet that confirms `next` empties the queue;
\* any other one leaves `current` and the queue as they are.
LEMMA TransportQueue ==
  ASSUME IInv, NothingQueuedWhenReady, NEW p \in Peers, NEW i \in Indices, NEW addr \in Endpoints,
         NEW deliverable \in BOOLEAN, HandleIngressTransport(p, i, addr, deliverable)
  PROVE  NothingQueuedWhenReady'
<1> DEFINE s1 == AfterReceipt(p, i)
           m  == MapAfterReceipt(p, i)
<1>1. PICK n, t, o :
        /\ n \in Nat /\ n <= sendable(s1, addr, now)
        /\ \/ commit(p, handle_outgoing_transport(s1, n), t, m, rekeys, o)
           \/ send_handshake_init(p, handle_outgoing_transport(s1, n), t, addr, m, rekeys, o)
  BY TransportCommits, SMTT(30)
<1>2. /\ s1 \in Sessions /\ now \in Nat
      /\ outgoing_queue \in [Peers -> 0 .. MAX_QUEUED_PACKETS]
  BY TransportCommits, Zenon DEF IInv, TypeOK
<1>3. outgoing_queue' = [outgoing_queue EXCEPT ![p] = IF Confirmed(p, i) THEN 0 ELSE @]
  BY Zenon DEF HandleIngressTransport, Confirmed
<1>4. ~Confirmed(p, i) => s1 = sessions[p]
  BY Zenon DEF AfterReceipt
<1> HIDE DEF s1, m
<1>5. ready_for_transport(s1, now) => outgoing_queue'[p] = 0
  BY <1>2, <1>3, <1>4, Zenon DEF NothingQueuedWhenReady
<1>6. ready_for_transport(handle_outgoing_transport(s1, n), now) => ready_for_transport(s1, now)
  BY <1>1, <1>2, SendingReadiesNothing, Zenon
<1>7. handle_outgoing_transport(s1, n) \in Sessions
  BY <1>1, <1>2, SendEffect, Zenon
<1>8. \A k \in Peers \ {p} : outgoing_queue'[k] = outgoing_queue[k]
  BY <1>2, <1>3, Zenon
<1>9. now' = now
  BY Zenon DEF HandleIngressTransport, interfaceVars
<1> QED BY <1>1, <1>5, <1>6, <1>7, <1>8, <1>9, QueueCommit, ZenonT(60)

\* The handlers that do not touch the queue ready no session either.
LEMMA OthersQueue ==
  ASSUME IInv, NothingQueuedWhenReady, NEW p \in Peers,
         \/ SendKeepalive(p)
         \/ \E addr, their, ts : HandleIngressHandshakeInit(p, addr, their, ts)
         \/ \E i : RejectIngressHandshakeResp(p, i)
         \/ \E r \in rekeys : r.peer = p /\ HandleRekeyTimer(r)
         \/ \E w \in wipes : w.peer = p /\ HandleWipeTimer(w)
  PROVE  NothingQueuedWhenReady'
<1> DEFINE s == sessions[p]
<1>1. now' = now /\ outgoing_queue' = outgoing_queue
  BY Zenon DEF SendKeepalive, HandleIngressHandshakeInit, RejectIngressHandshakeResp, HandleRekeyTimer,
         HandleWipeTimer, interfaceVars
<1>2. s \in Sessions /\ now \in Nat /\ (ready_for_transport(s, now) => outgoing_queue[p] = 0)
  BY Zenon DEF IInv, TypeOK, NothingQueuedWhenReady
<1>3. ASSUME NEW s1 \in Sessions, NEW t, NEW e, NEW m, NEW r, NEW o,
             commit(p, s1, t, m, r, o) \/ send_handshake_init(p, s1, t, e, m, r, o),
             ready_for_transport(s1, now) => ready_for_transport(s, now)
      PROVE  NothingQueuedWhenReady'
  <2>1. ready_for_transport(s1, now) => outgoing_queue'[p] = 0
    BY <1>1, <1>2, <1>3, Zenon
  <2> QED BY <1>1, <1>3, <2>1, QueueCommit, Zenon
<1>4. CASE SendKeepalive(p)
  <2> DEFINE s1 == handle_outgoing_transport(s, 1)
  <2>1. 1 <= sendable(s, endpoint[p], now)
    BY <1>2, <1>4, SendableBound DEF SendKeepalive
  <2>2. s1 \in Sessions /\ (ready_for_transport(s1, now) => ready_for_transport(s, now))
    BY <1>2, <2>1, SendEffect, SendingReadiesNothing, Zenon
  <2>3. \E o : commit(p, s1, timers[p], index_map, rekeys, o)
    BY <1>4, Zenon DEF SendKeepalive
  <2> HIDE DEF s1
  <2> QED BY <1>3, <2>2, <2>3, ZenonT(60)
<1>5. ASSUME NEW addr, NEW their, NEW ts, HandleIngressHandshakeInit(p, addr, their, ts)
      PROVE  NothingQueuedWhenReady'
  <2>1. PICK i, t, m, o :
          commit(p, complete_incoming_handshake(s, i, their, now), t, m, rekeys, o)
    BY <1>5, Zenon DEF HandleIngressHandshakeInit
  <2>2. (ready_for_transport(sessions[p], now))' <=> ready_for_transport(s, now)
    BY <1>1, <1>2, <2>1, ZenonT(60) DEF commit, complete_incoming_handshake, replace_next, ready_for_transport,
                            Sessions, IInv, TypeOK
  <2>3. \A q \in Peers \ {p} : sessions'[q] = sessions[q]
    BY <2>1, Zenon DEF commit, IInv, TypeOK
  <2> QED BY <1>1, <1>2, <2>2, <2>3, Zenon DEF NothingQueuedWhenReady, ready_for_transport
<1>6. ASSUME NEW i, RejectIngressHandshakeResp(p, i)
      PROVE  NothingQueuedWhenReady'
  <2> DEFINE s1 == reject_handshake_response(s)
  <2>1. commit(p, s1, timers[p], index_map, rekeys, {})
    BY <1>6, Zenon DEF RejectIngressHandshakeResp
  <2>2. s1 \in Sessions /\ s1.current = s.current
    BY <1>2, Zenon DEF reject_handshake_response, Sessions, Slot
  <2> HIDE DEF s1
  <2> QED BY <1>3, <2>1, <2>2, Zenon DEF ready_for_transport
<1>7. ASSUME NEW r \in rekeys, r.peer = p, HandleRekeyTimer(r)
      PROVE  NothingQueuedWhenReady'
  <2>1. PICK t, r1 : \/ commit(p, s, t, index_map, r1, {})
                     \/ send_handshake_init(p, s, t, endpoint[p], index_map, r1, {})
    BY <1>7, Zenon DEF HandleRekeyTimer
  <2> QED BY <1>2, <1>3, <2>1, Zenon
<1>8. ASSUME NEW w \in wipes, w.peer = p, HandleWipeTimer(w)
      PROVE  NothingQueuedWhenReady'
  <2>1. PICK m : \/ commit(p, NewSessions, timers[p], m, rekeys, {})
                 \/ commit(p, s, timers[p], m, rekeys, {})
    BY <1>8, Zenon DEF HandleWipeTimer
  <2>2. NewSessions \in Sessions /\ ~ready_for_transport(NewSessions, now)
    BY Zenon DEF NewSessions, Sessions, Slot, ready_for_transport
  <2> QED BY <1>2, <1>3, <2>1, <2>2, Zenon
<1> QED BY <1>4, <1>5, <1>6, <1>7, <1>8, Zenon

\* The clock only ages sessions.
LEMMA TickQueue ==
  ASSUME IInv, NothingQueuedWhenReady, Tick
  PROVE  NothingQueuedWhenReady'
<1>1. now' = now + 1 /\ sessions' = sessions /\ outgoing_queue' = outgoing_queue /\ now \in Nat
  BY Zenon DEF Tick, peerVars, IInv, TypeOK
<1>2. ASSUME NEW p \in Peers, (ready_for_transport(sessions[p], now))'
      PROVE  ready_for_transport(sessions[p], now)
  <2> DEFINE b == sessions[p].current.birthday
  <2>1. sessions[p].current # NONE /\ sessions[p].current.sending_nonce < REJECT_AFTER_MESSAGES
    BY <1>1, <1>2, Zenon DEF ready_for_transport
  <2>2. b \in Nat \cup {NONE}
    BY <2>1, Zenon DEF IInv, TypeOK, Sessions, Slot, Session, Timestamp
  <2>3. elapsed(b, now + 1) < REJECT_AFTER_TIME
    BY <1>1, <1>2, Zenon DEF ready_for_transport, elapsed
  <2>4. elapsed(b, now) < REJECT_AFTER_TIME
    BY <1>1, <2>2, <2>3, PeerConstants, SMTT(30) DEF elapsed
  <2> QED BY <2>1, <2>4, Zenon DEF ready_for_transport
<1> QED BY <1>1, <1>2, Zenon DEF NothingQueuedWhenReady

LEMMA QueueStep ==
  ASSUME IInv, NothingQueuedWhenReady, udp, [UpNext]_vars
  PROVE  NothingQueuedWhenReady'
<1>1. CASE UNCHANGED vars
  BY <1>1, Zenon DEF vars, peerVars, NothingQueuedWhenReady, ready_for_transport
<1>2. CASE TimerStep
  BY <1>2, OthersQueue, Zenon DEF TimerStep, IInv, TypeOK, RekeyMessage, WipeMessage
<1>3. ASSUME NEW p \in Peers, PeerStep(p)
      PROVE  NothingQueuedWhenReady'
  <2>1. CASE HandleEgressPacket(p)
    BY <2>1, EgressQueue, Zenon
  <2>2. ASSUME NEW addr \in Endpoints, NEW their \in TheirIndices, NEW i \in Indices,
               HandleIngressHandshakeResp(p, i, addr, their)
        PROVE  NothingQueuedWhenReady'
    BY <2>2, ResponseQueue, Zenon
  <2>3. ASSUME NEW i \in Indices, NEW addr \in Endpoints, NEW d \in BOOLEAN,
               HandleIngressTransport(p, i, addr, d)
        PROVE  NothingQueuedWhenReady'
    BY <2>3, TransportQueue, Zenon
  <2> QED BY <1>3, <2>1, <2>2, <2>3, OthersQueue, Zenon DEF PeerStep
<1> QED BY <1>1, <1>2, <1>3, TickQueue, Zenon DEF UpNext

\* What holds while the interface stays up.
UpInv ==
  /\ IInv /\ udp /\ private_key
  /\ Completed /\ WipeArmed
  /\ RetryInv /\ RetryArmed
  /\ NothingQueuedWhenReady

LEMMA UpInvInit ==
  ASSUME InitWith(TRUE)
  PROVE  UpInv
<1>1. NothingQueuedWhenReady
  BY Zenon DEF InitWith, NewSessions, NothingQueuedWhenReady, ready_for_transport
<1>2. udp /\ private_key
  BY Zenon DEF InitWith
<1> QED BY <1>1, <1>2, InitInv, CompletedInit, RetryInit, Zenon DEF UpInv

\* A session that is ready has nonces for its empty queue, so that nothing is
\* left that could stop a retry.
LEMMA UpInvStep ==
  ASSUME UpInv, [UpNext]_vars
  PROVE  UpInv'
<1>1. [Next]_vars
  BY Zenon DEF UpNext, Next
<1>2. udp' /\ private_key'
  BY UpKeepsInterface, Zenon DEF UpInv
<1>3. IInv' /\ Completed' /\ RetryInv' /\ NothingQueuedWhenReady'
  BY <1>1, StepInv, CompletedStep, RetryStep, QueueStep, Zenon DEF UpInv
<1>4. WipeArmed'
  BY <1>1, WipeStaysComing, Zenon DEF WipeArmed, UpInv
<1>5. ASSUME NEW p \in Peers
      PROVE  ~NoncesRunOut(p)
  <2>1. SUFFICES ASSUME ready_for_transport(sessions[p], now)
                 PROVE  ~ (outgoing_queue[p] >= REJECT_AFTER_MESSAGES
                                                 - sessions[p].current.sending_nonce)
    BY Zenon DEF NoncesRunOut
  <2>2. outgoing_queue[p] = 0
    BY <2>1, Zenon DEF UpInv, NothingQueuedWhenReady
  <2>3. /\ sessions[p].current.sending_nonce \in Nat
        /\ sessions[p].current.sending_nonce < REJECT_AFTER_MESSAGES
    BY <2>1 DEF UpInv, IInv, TypeOK, ready_for_transport, Sessions, Slot, Session
  <2> QED BY <2>2, <2>3, PeerConstants
<1>6. \A p \in Peers : RetryComing(p)'
  BY <1>1, <1>5, RetryStep, Zenon DEF UpInv, RetryArmed, Unhindered
<1> QED BY <1>2, <1>3, <1>4, <1>6, Zenon DEF UpInv, RetryArmed

LEMMA UpInvAlways == UpSpec => []UpInv
<1>1. InitWith(TRUE) => UpInv
  BY UpInvInit, Zenon
<1>2. UpInv /\ [UpNext]_vars => UpInv'
  BY UpInvStep, Zenon
<1> QED BY <1>1, <1>2, PTL DEF UpSpec

\* On an interface that stays up every session in use has its wipe to come,
THEOREM WipeStaysArmed == UpSpec => []WipeArmed
<1>1. UpInv => WipeArmed
  BY Zenon DEF UpInv
<1> QED BY <1>1, UpInvAlways, PTL

\* every unanswered initiation its retry, until the attempts are used up,
THEOREM RetryStaysArmed == UpSpec => []RetryArmed
<1>1. UpInv => RetryArmed
  BY Zenon DEF UpInv
<1> QED BY <1>1, UpInvAlways, PTL

\* and no packet is left queued beside a session that could carry it.
THEOREM NothingLeftQueued == UpSpec => []NothingQueuedWhenReady
<1>1. UpInv => NothingQueuedWhenReady
  BY Zenon DEF UpInv
<1> QED BY <1>1, UpInvAlways, PTL

=============================================================================
