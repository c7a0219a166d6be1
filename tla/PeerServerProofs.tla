-------------------------- MODULE PeerServerProofs --------------------------
(***************************************************************************)
(* Proofs about PeerServer for every set of peers and indices and every    *)
(* value of the protocol's constants.                                      *)
(*                                                                         *)
(* The inductive invariant IInv is a conjunction over the peers.  A        *)
(* handler of peer p computes new sessions s and a new index map m and     *)
(* commits them, so the proof is about such pairs: Good(p, s, m) says that *)
(* m maps the indices of s to p, that the slots of s do not share one, and *)
(* that m leaves the entries of the other peers alone.                     *)
(***************************************************************************)
EXTENDS PeerServer, TLAPS

Maps == [Indices -> Peers \cup {NONE}]

\* The indices of s lead to p, and no two slots share one.
Consistent(p, s, m) ==
  /\ \A i \in get_mapped_indices(s) : m[i] = p
  /\ IndexOf(s.past) \cap IndexOf(s.current) = {}
  /\ IndexOf(s.past) \cap IndexOf(s.next) = {}
  /\ IndexOf(s.current) \cap IndexOf(s.next) = {}

\* m has every entry of index_map that belongs to another peer than p.
KeepsOthers(p, m) ==
  \A i \in Indices : index_map[i] \in Peers \ {p} => m[i] = index_map[i]

Good(p, s, m) ==
  s \in Sessions /\ m \in Maps /\ Consistent(p, s, m) /\ KeepsOthers(p, m)

\* A session in transport mode knows when it began, with whom, and where.
Transporting(slot, e) ==
  slot # NONE /\ slot.finished =>
    slot.birthday # NONE /\ slot.their_index # NONE /\ e # NONE

Usable(s, e) ==
  /\ s.current # NONE => s.current.finished
  /\ Transporting(s.current, e)
  /\ Transporting(s.next, e)

IInv ==
  /\ TypeOK
  /\ \A p \in Peers : Consistent(p, sessions[p], index_map)
  /\ \A p \in Peers : Usable(sessions[p], endpoint[p])

-----------------------------------------------------------------------------
(* Sessions *)

\* Slots are NONE or sessions, and a session has an index of ours.
LEMMA IndexOfType ==
  ASSUME NEW slot \in Slot
  PROVE  IndexOf(slot) \subseteq Indices
BY NoneIsNoSession, Zenon DEF IndexOf, Slot, Session

\* The sessions that a handshake creates are well-formed.
LEMMA NewSessionType ==
  ASSUME NEW i \in Indices, NEW their \in TheirIndices, NEW n \in Nat
  PROVE  /\ new_session(i) \in Session
         /\ transport_session(i, their, n) \in Session
BY PeerConstants DEF new_session, transport_session, Session, Timestamp

\* A fresh index goes into `next`, a replaced `next` goes to `past`, and what
\* was in `past` is removed from the map.
LEMMA GoodReplaceNext ==
  ASSUME NEW p \in Peers, NEW s, NEW m, Good(p, s, m),
         NEW i \in unused_index(m), NEW session \in Session, session.our_index = i,
         NEW m1 \in {Unmap([m EXCEPT ![i] = p], dead_of_replaced_next(s)),
                     [Unmap(m, dead_of_replaced_next(s)) EXCEPT ![i] = p]}
  PROVE  Good(p, replace_next(s, session), m1)
<1> DEFINE dead == dead_of_replaced_next(s)
<1> DEFINE s1 == replace_next(s, session)
<1>1. /\ s \in Sessions /\ m \in Maps
      /\ i \in Indices /\ m[i] = NONE
      /\ NONE \notin Peers
  BY PeerServerConstants, Zenon DEF Good, unused_index
<1>2. s.past \in Slot /\ s.current \in Slot /\ s.next \in Slot
  BY <1>1, Zenon DEF Sessions
<1>3. dead \subseteq Indices /\ i \notin dead
  BY <1>1, <1>2, IndexOfType, Zenon
  DEF dead_of_replaced_next, Good, Consistent, get_mapped_indices
<1>4. /\ m1 \in Maps
      /\ \A j \in Indices : m1[j] = IF j = i THEN p ELSE IF j \in dead THEN NONE ELSE m[j]
  <2>1. CASE m1 = Unmap([m EXCEPT ![i] = p], dead)
    BY <1>1, <1>3, <2>1, Zenon DEF Unmap, Maps
  <2>2. CASE m1 = [Unmap(m, dead) EXCEPT ![i] = p]
    BY <1>1, <1>3, <2>2, Zenon DEF Unmap, Maps
  <2> QED BY <2>1, <2>2, Zenon
<1>5. s1 \in Sessions
  BY <1>1, <1>2, Zenon DEF replace_next, Sessions, Slot
<1>6. /\ s1.next = session /\ s1.current = s.current
      /\ s1.past = IF s.next = NONE THEN s.past ELSE s.next
  BY <1>1, Zenon DEF replace_next, Sessions
<1>7. IndexOf(session) = {i}
  BY NoneIsNoSession, Zenon DEF IndexOf
<1>8. /\ i \notin IndexOf(s.past) /\ i \notin IndexOf(s.current) /\ i \notin IndexOf(s.next)
  BY <1>1, Zenon DEF Good, Consistent, get_mapped_indices
<1>9. Consistent(p, s1, m1)
  <2>1. CASE s.next = NONE
    BY <1>1, <1>2, <1>4, <1>6, <1>7, <1>8, <2>1, IndexOfType
    DEF Good, Consistent, get_mapped_indices, dead_of_replaced_next
  <2>2. CASE s.next # NONE
    BY <1>1, <1>2, <1>4, <1>6, <1>7, <1>8, <2>2, IndexOfType
    DEF Good, Consistent, get_mapped_indices, dead_of_replaced_next
  <2> QED BY <2>1, <2>2, Zenon
<1>10. KeepsOthers(p, m1)
  <2> SUFFICES ASSUME NEW j \in Indices, index_map[j] \in Peers \ {p}
               PROVE  m1[j] = index_map[j]
    BY Zenon DEF KeepsOthers
  <2>1. m[j] = index_map[j]
    BY Zenon DEF Good, KeepsOthers
  <2>2. j # i /\ j \notin dead
    BY <1>1, <2>1, Zenon DEF Good, Consistent, get_mapped_indices, dead_of_replaced_next
  <2> QED BY <1>4, <2>1, <2>2, Zenon
<1> QED BY <1>4, <1>5, <1>9, <1>10, Zenon DEF Good

\* A rejected response empties `next`; its index stays mapped.
LEMMA GoodReject ==
  ASSUME NEW p \in Peers, NEW s, NEW m, Good(p, s, m)
  PROVE  Good(p, reject_handshake_response(s), m)
<1>1. s \in Sessions BY Zenon DEF Good
<1>2. reject_handshake_response(s) = [past |-> s.past, current |-> s.current, next |-> NONE]
  BY <1>1 DEF reject_handshake_response, Sessions
<1> QED BY <1>1, <1>2 DEF Good, Consistent, get_mapped_indices, IndexOf, Sessions, Slot

\* `next` moves to `current` and `current` to `past`; the old `past` is removed
\* from the map.
LEMMA GoodPromote ==
  ASSUME NEW p \in Peers, NEW s, NEW m, Good(p, s, m), s.next # NONE,
         NEW x \in Session, x.our_index = s.next.our_index
  PROVE  Good(p, [past |-> s.current, current |-> x, next |-> NONE],
                 Unmap(m, IndexOf(s.past)))
<1> DEFINE s1 == [past |-> s.current, current |-> x, next |-> NONE]
<1> DEFINE m1 == Unmap(m, IndexOf(s.past))
<1>1. s \in Sessions /\ m \in Maps /\ s.past \in Slot /\ s.current \in Slot /\ s.next \in Slot
  BY Zenon DEF Good, Sessions
<1>2. IndexOf(x) = IndexOf(s.next) /\ IndexOf(NONE) = {}
  BY NoneIsNoSession, Zenon DEF IndexOf
<1>3. /\ m1 \in Maps
      /\ \A j \in Indices : m1[j] = IF j \in IndexOf(s.past) THEN NONE ELSE m[j]
  BY <1>1, Zenon DEF Unmap, Maps
<1>4. s1 \in Sessions
  BY <1>1, Zenon DEF Sessions, Slot
<1>5. Consistent(p, s1, m1)
  BY <1>1, <1>2, <1>3, IndexOfType, Zenon DEF Good, Consistent, get_mapped_indices
<1>6. KeepsOthers(p, m1)
  BY <1>1, <1>3, PeerServerConstants, Zenon DEF Good, KeepsOthers, Consistent, get_mapped_indices
<1> QED BY <1>3, <1>4, <1>5, <1>6, Zenon DEF Good

\* Using up nonces of `current` touches no index.
LEMMA GoodSend ==
  ASSUME NEW p \in Peers, NEW s, NEW m, Good(p, s, m), NEW n \in Nat,
         n # 0 => s.current # NONE /\ s.current.sending_nonce + n <= REJECT_AFTER_MESSAGES
  PROVE  Good(p, handle_outgoing_transport(s, n), m)
<1>1. CASE n = 0
  BY <1>1, Zenon DEF handle_outgoing_transport
<1>2. CASE n # 0
  <2> DEFINE s1 == handle_outgoing_transport(s, n)
  <2>1. s \in Sessions /\ s.current \in Session
    BY <1>2, Zenon DEF Good, Sessions, Slot
  <2>2. /\ s1.past = s.past /\ s1.next = s.next
        /\ s1.current = [s.current EXCEPT !.sending_nonce = @ + n]
    BY <1>2, <2>1, Zenon DEF handle_outgoing_transport, Sessions
  <2>3. s1.current \in Session /\ s1.current.our_index = s.current.our_index
    BY <1>2, <2>1, <2>2, PeerConstants DEF Session
  <2>4. s1 \in Sessions
    BY <1>2, <2>1, <2>3, Zenon DEF handle_outgoing_transport, Sessions, Slot
  <2>5. IndexOf(s1.current) = IndexOf(s.current)
    BY <2>1, <2>3, NoneIsNoSession, Zenon DEF IndexOf
  <2> QED BY <2>2, <2>4, <2>5, Zenon DEF Good, Consistent, get_mapped_indices
<1> QED BY <1>1, <1>2, Zenon

\* Wiping empties the slots and unmaps their indices.
LEMMA GoodWipe ==
  ASSUME NEW p \in Peers, NEW s, NEW m, Good(p, s, m)
  PROVE  Good(p, NewSessions, Unmap(m, get_mapped_indices(s)))
<1>1. s \in Sessions /\ m \in Maps BY Zenon DEF Good
<1>2. NewSessions \in Sessions /\ get_mapped_indices(NewSessions) = {}
  BY Zenon DEF NewSessions, Sessions, Slot, get_mapped_indices, IndexOf
<1>3. Unmap(m, get_mapped_indices(s)) \in Maps
  BY <1>1, Zenon DEF Unmap, Maps
<1>4. KeepsOthers(p, Unmap(m, get_mapped_indices(s)))
  BY <1>1, PeerServerConstants, Zenon DEF Good, KeepsOthers, Consistent, Unmap
<1> QED BY <1>2, <1>3, <1>4, Zenon DEF Good, Consistent, NewSessions, IndexOf

-----------------------------------------------------------------------------
(* Usable *)

\* The new `next` is unfinished, or in transport mode with a known endpoint.
LEMMA UsableReplaceNext ==
  ASSUME NEW s \in Sessions, NEW e, NEW e1, NEW session \in Session,
         Usable(s, e), e # NONE => e1 # NONE, Transporting(session, e1)
  PROVE  Usable(replace_next(s, session), e1)
BY Zenon DEF Usable, Transporting, replace_next, Sessions

\* Sending only advances a nonce.
LEMMA UsableSend ==
  ASSUME NEW s \in Sessions, NEW e, Usable(s, e), NEW n \in Nat, n # 0 => s.current # NONE
  PROVE  Usable(handle_outgoing_transport(s, n), e)
<1>1. CASE n = 0
  BY <1>1, Zenon DEF handle_outgoing_transport
<1>2. CASE n # 0
  <2>1. s.current \in Session
    BY <1>2, Zenon DEF Sessions, Slot
  <2>2. handle_outgoing_transport(s, n).next = s.next
    BY <1>2, Zenon DEF handle_outgoing_transport, Sessions
  <2>3. handle_outgoing_transport(s, n).current = [s.current EXCEPT !.sending_nonce = @ + n]
    BY <1>2, Zenon DEF handle_outgoing_transport, Sessions
  <2> QED BY <1>2, <2>1, <2>2, <2>3, Zenon DEF Usable, Transporting, Session
<1> QED BY <1>1, <1>2, Zenon

-----------------------------------------------------------------------------
(* Committing the result of a handler *)

\* The part of the invariant about the variables that `commit` writes.
CoreInv ==
  /\ sessions \in [Peers -> Sessions]
  /\ timers \in [Peers -> Timers]
  /\ index_map \in Maps
  /\ rekeys \subseteq RekeyMessage
  /\ \A p \in Peers : Consistent(p, sessions[p], index_map)
  /\ \A p \in Peers : Usable(sessions[p], endpoint[p])

\* What a handler may do to the endpoints: set the one of its peer.
EndpointStep(p) ==
  \/ endpoint' = endpoint
  \/ \E e \in Endpoints : endpoint' = [endpoint EXCEPT ![p] = e]

\* The state a handler of p starts from is good.
LEMMA GoodSelf ==
  ASSUME IInv, NEW p \in Peers
  PROVE  Good(p, sessions[p], index_map) /\ Usable(sessions[p], endpoint[p])
BY Zenon DEF IInv, TypeOK, Good, KeepsOthers, Maps

\* Committing a good pair for p keeps the invariant, for p and the others.
LEMMA CommitInv ==
  ASSUME IInv, NEW p \in Peers, NEW s, NEW m, NEW t \in Timers,
         NEW r \in SUBSET RekeyMessage, NEW o,
         Good(p, s, m), EndpointStep(p), Usable(s, endpoint'[p]),
         commit(p, s, t, m, r, o)
  PROVE  CoreInv'
<1>1. /\ sessions \in [Peers -> Sessions] /\ timers \in [Peers -> Timers]
      /\ index_map \in Maps /\ endpoint \in [Peers -> Endpoints \cup {NONE}]
  BY Zenon DEF IInv, TypeOK, Maps
<1>2. /\ s \in Sessions /\ m \in Maps /\ Consistent(p, s, m) /\ KeepsOthers(p, m)
  BY Zenon DEF Good
<1>3. /\ sessions' = [sessions EXCEPT ![p] = s] /\ timers' = [timers EXCEPT ![p] = t]
      /\ index_map' = m /\ rekeys' = r
  BY Zenon DEF commit
<1>4. /\ sessions' \in [Peers -> Sessions] /\ timers' \in [Peers -> Timers]
      /\ index_map' \in Maps /\ rekeys' \subseteq RekeyMessage
  BY <1>1, <1>2, <1>3, Zenon
<1>5. ASSUME NEW q \in Peers
      PROVE  Consistent(q, sessions'[q], m) /\ Usable(sessions'[q], endpoint'[q])
  <2>1. CASE q = p
    BY <1>1, <1>2, <1>3, <2>1, Zenon
  <2>2. CASE q # p
    <3>1. sessions'[q] = sessions[q] /\ endpoint'[q] = endpoint[q]
      BY <1>1, <1>3, <2>2, Zenon DEF EndpointStep
    <3>2. Consistent(q, sessions[q], index_map) /\ Usable(sessions[q], endpoint[q])
      BY Zenon DEF IInv
    <3>3. get_mapped_indices(sessions[q]) \subseteq Indices
      BY <1>1, IndexOfType, Zenon DEF get_mapped_indices, Sessions
    <3> QED BY <1>2, <2>2, <3>1, <3>2, <3>3, Zenon DEF Consistent, KeepsOthers
  <2> QED BY <2>1, <2>2, Zenon
<1> QED BY <1>3, <1>4, <1>5, Zenon DEF CoreInv, Consistent, Usable, Transporting

\* send_handshake_init keeps the invariant, whether it sends or not.
LEMMA SendInitInv ==
  ASSUME IInv, NEW p \in Peers, NEW s, NEW m, NEW t \in Timers, NEW e,
         NEW r \in SUBSET RekeyMessage, NEW o,
         Good(p, s, m), EndpointStep(p), Usable(s, endpoint'[p]),
         send_handshake_init(p, s, t, e, m, r, o)
  PROVE  CoreInv'
<1>1. CASE ~CanInitiate(t, e)
  <2>1. commit(p, s, t, m, r, o)
    BY <1>1, Zenon DEF send_handshake_init
  <2> QED BY <2>1, CommitInv, Zenon
<1>2. CASE CanInitiate(t, e)
  <2> DEFINE t1 == IF udp THEN [t EXCEPT !.handshake_initialized = now] ELSE t
  <2> DEFINE m1(i) == Unmap([m EXCEPT ![i] = p], dead_of_replaced_next(s))
  <2> DEFINE r1(i) == IF udp THEN r \cup {[peer |-> p, index |-> i, due |-> Due(REKEY_TIMEOUT)]}
                             ELSE r
  <2>1. PICK i \in unused_index(m) :
          commit(p, initiate_new_session(s, i), t1, m1(i), r1(i),
                 o \cup send_to_peer({Initiation(p, i)}))
    BY <1>2, Zenon DEF send_handshake_init
  <2>2. i \in Indices
    BY Zenon DEF unused_index
  <2>3. now \in Nat /\ Due(REKEY_TIMEOUT) \in Nat
    BY PeerConstants, PeerServerConstants DEF IInv, TypeOK, Due
  <2>4. t1 \in Timers
    BY <2>3, Zenon DEF Timers, Timestamp
  <2>5. r1(i) \in SUBSET RekeyMessage
    BY <2>2, <2>3 DEF RekeyMessage
  <2>6. new_session(i) \in Session /\ new_session(i).our_index = i /\ ~new_session(i).finished
    BY <2>2, PeerConstants DEF new_session, Session, Timestamp
  <2>7. Good(p, initiate_new_session(s, i), m1(i))
    BY <2>1, <2>6, GoodReplaceNext, Zenon DEF initiate_new_session
  <2>8. Usable(initiate_new_session(s, i), endpoint'[p])
    BY <2>6, UsableReplaceNext, Zenon DEF initiate_new_session, Transporting, Good
  <2> HIDE DEF t1, m1, r1
  <2> QED BY <2>1, <2>4, <2>5, <2>7, <2>8, CommitInv, Zenon
<1> QED BY <1>1, <1>2, Zenon

-----------------------------------------------------------------------------
(* Transport *)

\* What can still be encrypted is what is left of the nonces of `current`.
LEMMA SendableBound ==
  ASSUME NEW s \in Sessions, NEW e, NEW n0
  PROVE  /\ sendable(s, e, n0) \in Nat
         /\ sendable(s, e, n0) # 0 =>
              /\ s.current # NONE
              /\ s.current.sending_nonce + sendable(s, e, n0) = REJECT_AFTER_MESSAGES
<1>1. CASE ready_for_transport(s, n0) /\ e # NONE
  <2>1. s.current \in Session
    BY <1>1, Zenon DEF ready_for_transport, Sessions, Slot
  <2> QED BY <1>1, <2>1, PeerConstants DEF sendable, ready_for_transport, Session
<1>2. CASE ~(ready_for_transport(s, n0) /\ e # NONE)
  BY <1>2, Zenon DEF sendable
<1> QED BY <1>1, <1>2, Zenon

\* The drain loop encrypts no more than there is room for, nor than is queued.
LEMMA DrainBounds ==
  ASSUME NEW q \in Nat, NEW room \in Nat
  PROVE  /\ drain_popped(q, room) \in Nat /\ drain_popped(q, room) <= q
         /\ drain_encrypted(q, room) \in Nat /\ drain_encrypted(q, room) <= room
BY DEF drain_popped, drain_encrypted, Lesser

\* Encrypting at most what is sendable keeps sessions good and usable.
LEMMA SendGood ==
  ASSUME NEW p \in Peers, NEW s, NEW m, NEW e, NEW e1, NEW n0, NEW n \in Nat,
         Good(p, s, m), Usable(s, e), n <= sendable(s, e1, n0)
  PROVE  Good(p, handle_outgoing_transport(s, n), m) /\ Usable(handle_outgoing_transport(s, n), e)
<1>1. s \in Sessions
  BY Zenon DEF Good
<1>2. n # 0 => s.current # NONE /\ s.current.sending_nonce + n <= REJECT_AFTER_MESSAGES
  <2> SUFFICES ASSUME n # 0
               PROVE  s.current # NONE /\ s.current.sending_nonce + n <= REJECT_AFTER_MESSAGES
    OBVIOUS
  <2>1. s.current # NONE /\ s.current.sending_nonce + sendable(s, e1, n0) = REJECT_AFTER_MESSAGES
    BY <1>1, SendableBound
  <2>2. s.current \in Session
    BY <1>1, <2>1, Zenon DEF Sessions, Slot
  <2> QED BY <1>1, <2>1, <2>2, SendableBound, PeerConstants DEF Session
<1> QED BY <1>1, <1>2, GoodSend, UsableSend, Zenon

-----------------------------------------------------------------------------
(* One lemma per handler *)

\* The types of the variables that `commit` does not write.
OtherTypes ==
  /\ now \in Nat /\ private_key \in BOOLEAN /\ udp \in BOOLEAN
  /\ outgoing_queue \in [Peers -> 0 .. MAX_QUEUED_PACKETS]
  /\ endpoint \in [Peers -> Endpoints \cup {NONE}]
  /\ last_handshake_tai64n \in [Peers -> Timestamp]
  /\ wipes \subseteq WipeMessage

\* The Wipe message that Timer::send_after schedules is well typed.
LEMMA WipeMessageTyped ==
  ASSUME NEW p \in Peers, now \in Nat
  PROVE  wipe_message(p) \subseteq WipeMessage
<1>1. WIPE_AFTER_TIME \in Nat /\ TIMER_SLACK \in Nat
  BY PeerServerConstants, Zenon
<1>2. Due(WIPE_AFTER_TIME) \in Nat
  BY <1>1 DEF Due
<1> QED BY <1>2 DEF wipe_message, WipeMessage

\* handle_egress_packet: queue, drain, and perhaps initiate.
LEMMA EgressInv ==
  ASSUME IInv, NEW p \in Peers, HandleEgressPacket(p)
  PROVE  IInv'
<1> DEFINE s     == sessions[p]
           fits  == has_room(outgoing_queue[p])
           q     == IF fits THEN outgoing_queue[p] + 1 ELSE outgoing_queue[p]
           ready == ready_for_transport(s, now)
           room  == sendable(s, endpoint[p], now)
           n     == IF ready THEN drain_encrypted(q, room) ELSE 0
           t     == [timers[p] EXCEPT !.handshake_attempts = IF fits THEN 0 ELSE @,
                                      !.data_sent = IF n > 0 THEN now ELSE @]
           s1    == handle_outgoing_transport(s, n)
           o     == send_to_peer(Encrypted(p, s, n))
           left  == IF ready THEN q - drain_popped(q, room) ELSE q
<1>1. /\ outgoing_queue' = [outgoing_queue EXCEPT ![p] = left]
      /\ \/ send_handshake_init(p, s1, t, endpoint[p], index_map, rekeys, o)
         \/ commit(p, s1, t, index_map, rekeys, o)
      /\ UNCHANGED <<interfaceVars, endpoint, last_handshake_tai64n, wipes>>
  BY Zenon DEF HandleEgressPacket
<1>2. s \in Sessions /\ timers[p] \in Timers /\ now \in Nat /\ rekeys \in SUBSET RekeyMessage
  BY Zenon DEF IInv, TypeOK
<1>3. q \in 0 .. MAX_QUEUED_PACKETS
  BY PeerConstants DEF IInv, TypeOK, has_room
<1>4. room \in Nat
  BY <1>2, SendableBound, Zenon
<1> HIDE DEF q, room, ready
<1>5. n \in Nat /\ n <= room /\ left \in 0 .. MAX_QUEUED_PACKETS
  <2>1. /\ drain_popped(q, room) \in Nat /\ drain_popped(q, room) <= q
        /\ drain_encrypted(q, room) \in Nat /\ drain_encrypted(q, room) <= room
    <3>1. q \in Nat
      BY <1>3, PeerConstants
    <3> QED BY <1>4, <3>1, DrainBounds, Zenon
  <2> QED BY <1>3, <1>4, <2>1, PeerConstants
<1> HIDE DEF n, left, fits
<1>6. t \in Timers
  <2>1. /\ (IF fits THEN 0 ELSE timers[p].handshake_attempts) \in 0 .. MAX_HANDSHAKE_ATTEMPTS
        /\ (IF n > 0 THEN now ELSE timers[p].data_sent) \in Timestamp
    BY <1>2, PeerConstants DEF Timers, Timestamp
  <2> QED BY <1>2, <2>1, Zenon DEF Timers
<1>7. Good(p, s1, index_map) /\ Usable(s1, endpoint[p])
  BY <1>5, GoodSelf, SendGood, Zenon DEF room
<1>8. EndpointStep(p) /\ endpoint'[p] = endpoint[p]
  BY <1>1, Zenon DEF EndpointStep
<1> HIDE DEF s1, t, o, s
<1>9. CoreInv'
  BY <1>1, <1>2, <1>6, <1>7, <1>8, SendInitInv, CommitInv, Zenon
<1>10. OtherTypes'
  BY <1>1, <1>5, Zenon DEF IInv, TypeOK, OtherTypes, interfaceVars
<1> QED BY <1>9, <1>10, Zenon DEF IInv, TypeOK, CoreInv, OtherTypes, Maps

\* handle_ingress_handshake_init: the responder's session goes into `next`.
LEMMA IngressInitInv ==
  ASSUME IInv, NEW p \in Peers, NEW addr \in Endpoints, NEW their \in TheirIndices,
         NEW timestamp \in 1 .. MaxTai64n,
         HandleIngressHandshakeInit(p, addr, their, timestamp)
  PROVE  IInv'
<1> DEFINE s    == sessions[p]
           t    == [timers[p] EXCEPT !.authenticated_received = now]
           m(i) == [Unmap(index_map, dead_of_replaced_next(s)) EXCEPT ![i] = p]
<1>1. PICK i \in unused_index(index_map) :
        commit(p, complete_incoming_handshake(s, i, their, now), t, m(i), rekeys,
               send_to_peer({Response(p, i, their)}))
  BY Zenon DEF HandleIngressHandshakeInit
<1>2. /\ endpoint' = [endpoint EXCEPT ![p] = addr]
      /\ last_handshake_tai64n' = [last_handshake_tai64n EXCEPT ![p] = timestamp]
      /\ UNCHANGED <<interfaceVars, outgoing_queue, wipes>>
  BY Zenon DEF HandleIngressHandshakeInit
<1>3. s \in Sessions /\ timers[p] \in Timers /\ now \in Nat /\ rekeys \in SUBSET RekeyMessage
      /\ endpoint \in [Peers -> Endpoints \cup {NONE}]
  BY Zenon DEF IInv, TypeOK
<1>4. t \in Timers
  BY <1>3, Zenon DEF Timers, Timestamp
<1>5. EndpointStep(p) /\ endpoint'[p] = addr /\ addr # NONE
  BY <1>2, <1>3, PeerServerConstants, Zenon DEF EndpointStep
<1> DEFINE x == transport_session(i, their, now)
<1>6. /\ x \in Session /\ x.our_index = i
      /\ x.birthday # NONE /\ (their # NONE => x.their_index # NONE)
  BY <1>1, <1>3, NewSessionType, PeerConstants, Zenon DEF transport_session, unused_index
<1>7. Good(p, complete_incoming_handshake(s, i, their, now), m(i))
  BY <1>1, <1>6, GoodSelf, GoodReplaceNext, Zenon DEF complete_incoming_handshake
<1>8. Usable(complete_incoming_handshake(s, i, their, now), endpoint'[p])
  <2>1. Transporting(x, addr)
    BY <1>5, <1>6, PeerConstants, Zenon DEF Transporting
  <2> QED BY <1>3, <1>5, <1>6, <2>1, GoodSelf, UsableReplaceNext, Zenon DEF complete_incoming_handshake
<1> HIDE DEF t, m, s
<1>9. CoreInv'
  BY <1>1, <1>3, <1>4, <1>5, <1>7, <1>8, CommitInv, Zenon
<1>10. OtherTypes'
  BY <1>2, PeerServerConstants DEF IInv, TypeOK, OtherTypes, interfaceVars, Timestamp
<1> QED BY <1>9, <1>10, Zenon DEF IInv, TypeOK, CoreInv, OtherTypes, Maps

\* handle_ingress_handshake_resp, when noise rejects the response.
LEMMA RejectRespInv ==
  ASSUME IInv, NEW p \in Peers, NEW i \in Indices, RejectIngressHandshakeResp(p, i)
  PROVE  IInv'
<1>1. /\ commit(p, reject_handshake_response(sessions[p]), timers[p], index_map, rekeys, {})
      /\ UNCHANGED <<interfaceVars, outgoing_queue, endpoint, last_handshake_tai64n, wipes>>
  BY Zenon DEF RejectIngressHandshakeResp
<1>2. sessions[p] \in Sessions /\ timers[p] \in Timers /\ rekeys \in SUBSET RekeyMessage
  BY Zenon DEF IInv, TypeOK
<1>3. Good(p, reject_handshake_response(sessions[p]), index_map)
  BY GoodSelf, GoodReject, Zenon
<1>4. EndpointStep(p) /\ endpoint'[p] = endpoint[p]
  BY <1>1, Zenon DEF EndpointStep
<1>5. Usable(reject_handshake_response(sessions[p]), endpoint'[p])
  BY <1>2, <1>4, GoodSelf, Zenon DEF Usable, Transporting, reject_handshake_response, Sessions
<1>6. CoreInv'
  BY <1>1, <1>2, <1>3, <1>4, <1>5, CommitInv, Zenon
<1>7. OtherTypes'
  BY <1>1, Zenon DEF IInv, TypeOK, OtherTypes, interfaceVars
<1> QED BY <1>6, <1>7, SMTT(30) DEF IInv, TypeOK, CoreInv, OtherTypes, Maps

\* handle_ingress_handshake_resp: `next` becomes `current`, the queue drains.
LEMMA IngressRespInv ==
  ASSUME IInv, NEW p \in Peers, NEW i \in Indices, NEW addr \in Endpoints,
         NEW their \in TheirIndices, HandleIngressHandshakeResp(p, i, addr, their)
  PROVE  IInv'
<1> DEFINE s0    == sessions[p]
           s     == process_incoming_handshake_response(s0, their, now)
           q     == outgoing_queue[p]
           ready == ready_for_transport(s, now)
           room  == sendable(s, addr, now)
           n     == CASE ~ready         -> 0
                      [] ready /\ q > 0 -> drain_encrypted(q, room)
                      [] ready /\ q = 0 -> Lesser(1, room)
           ok    == ready => drain_ok(IF q > 0 THEN q ELSE 1, room)
           s1    == handle_outgoing_transport(s, n)
           t     == [timers[p] EXCEPT !.authenticated_received = now,
                                      !.handshake_completed = now,
                                      !.data_sent = IF q > 0 /\ n > 0 THEN now ELSE @]
           m     == Unmap(index_map, IndexOf(s0.past))
           left  == IF ready THEN q - drain_popped(q, room) ELSE q
<1>1. /\ Holds(s0.next, i)
      /\ commit(p, s1, t, m, rekeys, send_to_peer(Encrypted(p, s, n)))
      /\ outgoing_queue' = [outgoing_queue EXCEPT ![p] = left]
      /\ endpoint' = [endpoint EXCEPT ![p] = addr]
      /\ wipes' = IF ok THEN wipes \cup wipe_message(p) ELSE wipes
      /\ UNCHANGED <<interfaceVars, last_handshake_tai64n>>
  BY Zenon DEF HandleIngressHandshakeResp
<1>2. /\ s0 \in Sessions /\ timers[p] \in Timers /\ now \in Nat
      /\ rekeys \in SUBSET RekeyMessage /\ q \in 0 .. MAX_QUEUED_PACKETS
      /\ endpoint \in [Peers -> Endpoints \cup {NONE}]
  BY Zenon DEF IInv, TypeOK
<1> DEFINE x == transport_session(s0.next.our_index, their, now)
<1>3. s0.next \in Session /\ s0.next # NONE
  BY <1>1, <1>2, Zenon DEF Holds, Sessions, Slot
<1>4. /\ x \in Session /\ x.our_index = s0.next.our_index /\ x.finished
      /\ x.birthday # NONE /\ x.their_index = their
  BY <1>2, <1>3, NewSessionType, PeerConstants, Zenon DEF transport_session, Session
<1>5. s = [past |-> s0.current, current |-> x, next |-> NONE]
  BY Zenon DEF process_incoming_handshake_response
<1>6. Good(p, s, m) /\ s \in Sessions
  <2>1. Good(p, s0, index_map)
    BY GoodSelf, Zenon
  <2> HIDE DEF s0, x, s
  <2>2. Good(p, s, m)
    BY <1>3, <1>4, <1>5, <2>1, GoodPromote, Zenon
  <2> QED BY <2>2, Zenon DEF Good
<1>7. Usable(s, addr)
  <2>1. Transporting(x, addr)
    BY <1>4, PeerConstants, PeerServerConstants, Zenon DEF Transporting
  <2>2. s.current = x /\ s.next = NONE
    BY <1>5
  <2>3. x.finished /\ x # NONE
    BY <1>4, NoneIsNoSession, Zenon
  <2>4. Transporting(NONE, addr)
    BY Zenon DEF Transporting
  <2> HIDE DEF x, s
  <2> QED BY <2>1, <2>2, <2>3, <2>4, Zenon DEF Usable
<1>8. room \in Nat /\ q \in Nat
  <2> HIDE DEF s
  <2>1. room \in Nat
    BY <1>6, SendableBound, Zenon
  <2>2. MAX_QUEUED_PACKETS \in Nat
    BY PeerConstants, Zenon
  <2> QED BY <1>2, <2>1, <2>2
<1> HIDE DEF ready, s, s0, x, m
<1>9. n \in Nat /\ n <= room /\ left \in 0 .. MAX_QUEUED_PACKETS
  <2> HIDE DEF room, q
  <2>1. /\ drain_popped(q, room) \in Nat /\ drain_popped(q, room) <= q
        /\ drain_encrypted(q, room) \in Nat /\ drain_encrypted(q, room) <= room
    BY <1>8, DrainBounds, Zenon
  <2>2. Lesser(1, room) \in Nat /\ Lesser(1, room) <= room
    BY <1>8 DEF Lesser
  <2>3. n \in {0, drain_encrypted(q, room), Lesser(1, room)}
    BY <1>8
  <2> QED BY <1>2, <1>8, <2>1, <2>2, <2>3, PeerConstants DEF q
<1> HIDE DEF n, left, ok
<1>10. Good(p, s1, m) /\ Usable(s1, addr)
  BY <1>6, <1>7, <1>9, SendGood, Zenon
<1>11. t \in Timers
  <2>1. (IF q > 0 /\ n > 0 THEN now ELSE timers[p].data_sent) \in Timestamp
    BY <1>2, Zenon DEF Timers, Timestamp
  <2> QED BY <1>2, <2>1, Zenon DEF Timers, Timestamp
<1>12. EndpointStep(p) /\ endpoint'[p] = addr
  BY <1>1, <1>2, Zenon DEF EndpointStep
<1> HIDE DEF s1, t, room, q
<1>13. CoreInv'
  BY <1>1, <1>2, <1>10, <1>11, <1>12, CommitInv, Zenon
<1>14. wipe_message(p) \subseteq WipeMessage
  BY <1>2, WipeMessageTyped, Zenon
<1>15. OtherTypes'
  BY <1>1, <1>9, <1>14, Zenon DEF IInv, TypeOK, OtherTypes, interfaceVars
<1> QED BY <1>13, <1>15, Zenon DEF IInv, TypeOK, CoreInv, OtherTypes, Maps

\* handle_ingress_transport: a packet on `next` confirms it.
LEMMA IngressTransportInv ==
  ASSUME IInv, NEW p \in Peers, NEW i \in Indices, NEW addr \in Endpoints,
         NEW deliverable \in BOOLEAN, HandleIngressTransport(p, i, addr, deliverable)
  PROVE  IInv'
<1> DEFINE s         == sessions[p]
           confirmed == find_session(s, i) = "next"
           s1        == IF confirmed THEN confirm_next(s) ELSE s
           m         == IF confirmed THEN Unmap(index_map, IndexOf(s.past)) ELSE index_map
           n         == IF confirmed THEN Lesser(outgoing_queue[p], sendable(s1, addr, now)) ELSE 0
           s2        == handle_outgoing_transport(s1, n)
           t         == [timers[p] EXCEPT !.authenticated_received = now,
                                          !.handshake_completed = IF confirmed THEN now ELSE @,
                                          !.data_sent = IF n > 0 THEN now ELSE @]
<1>1. /\ accepts_transport(session_of(s, i), now)
      /\ \E o : \/ send_handshake_init(p, s2, t, addr, m, rekeys, o)
                \/ commit(p, s2, t, m, rekeys, o)
      /\ outgoing_queue' = [outgoing_queue EXCEPT ![p] = IF confirmed THEN 0 ELSE @]
      /\ endpoint' = [endpoint EXCEPT ![p] = addr]
      /\ wipes' = IF confirmed THEN wipes \cup wipe_message(p) ELSE wipes
      /\ UNCHANGED <<interfaceVars, last_handshake_tai64n>>
  BY ZenonT(60) DEF HandleIngressTransport
<1>2. /\ s \in Sessions /\ timers[p] \in Timers /\ now \in Nat
      /\ rekeys \in SUBSET RekeyMessage /\ outgoing_queue[p] \in Nat
      /\ endpoint \in [Peers -> Endpoints \cup {NONE}] /\ addr # NONE
  <2>1. /\ s \in Sessions /\ timers[p] \in Timers /\ now \in Nat
        /\ rekeys \in SUBSET RekeyMessage
        /\ endpoint \in [Peers -> Endpoints \cup {NONE}]
    BY Zenon DEF IInv, TypeOK
  <2>2. outgoing_queue[p] \in Nat
    BY PeerConstants DEF IInv, TypeOK
  <2>3. addr # NONE
    BY PeerServerConstants, Zenon
  <2> QED BY <2>1, <2>2, <2>3, Zenon
<1>3. Good(p, s, index_map) /\ Usable(s, endpoint[p])
  BY GoodSelf, Zenon
<1>4. Good(p, s1, m) /\ Usable(s1, addr)
  <2>1. CASE confirmed
    <3>1. s.next \in Session /\ s.next # NONE /\ s.next.finished
      BY <1>1, <1>2, <2>1, NoneIsNoSession, SMTT(30)
      DEF find_session, session_of, Holds, accepts_transport, Sessions, Slot
    <3>2. s1 = [past |-> s.current, current |-> s.next, next |-> NONE]
      BY <2>1, Zenon DEF confirm_next
    <3>3. Usable(s1, addr)
      <4>1. s.next.birthday # NONE /\ s.next.their_index # NONE
        BY <1>3, <3>1, Zenon DEF Usable, Transporting
      <4>2. Transporting(s.next, addr)
        BY <1>2, <4>1, Zenon DEF Transporting
      <4> HIDE DEF s1, s
      <4>3. s1.current = s.next /\ s1.next = NONE
        BY <3>2, Zenon
      <4> QED BY <3>1, <4>2, <4>3, Zenon DEF Usable, Transporting
    <3>4. m = Unmap(index_map, IndexOf(s.past))
      BY <2>1, Zenon
    <3> HIDE DEF s1, m, s
    <3>5. Good(p, s1, m)
      BY <1>3, <3>1, <3>2, <3>4, GoodPromote, Zenon
    <3> QED BY <3>3, <3>5, Zenon
  <2>2. CASE ~confirmed
    <3>1. s1 = s /\ m = index_map
      BY <2>2, SMTT(30)
    <3>2. Usable(s, addr)
      <4> HIDE DEF s
      <4> QED BY <1>2, <1>3, Zenon DEF Usable, Transporting
    <3> HIDE DEF s1, m, s
    <3> QED BY <1>3, <3>1, <3>2, Zenon
  <2> QED BY <2>1, <2>2, Zenon
<1>5. s1 \in Sessions
  BY <1>4, Zenon DEF Good
<1> HIDE DEF s1, m, confirmed
<1>6. n \in Nat /\ n <= sendable(s1, addr, now)
  <2>1. sendable(s1, addr, now) \in Nat
    BY <1>5, SendableBound, Zenon
  <2>2. outgoing_queue[p] \in Nat
    BY <1>2, Zenon
  <2>3. n = 0 \/ n = Lesser(outgoing_queue[p], sendable(s1, addr, now))
    OBVIOUS
  <2> HIDE DEF n, s
  <2> QED BY <2>1, <2>2, <2>3, SMTT(30) DEF Lesser
<1> HIDE DEF n
<1>7. Good(p, s2, m) /\ Usable(s2, addr)
  BY <1>4, <1>6, SendGood, Zenon
<1>8. t \in Timers
  <2>1. /\ (IF confirmed THEN now ELSE timers[p].handshake_completed) \in Timestamp
        /\ (IF n > 0 THEN now ELSE timers[p].data_sent) \in Timestamp
    BY <1>2, Zenon DEF Timers, Timestamp
  <2> QED BY <1>2, <2>1, Zenon DEF Timers, Timestamp
<1>9. EndpointStep(p) /\ endpoint'[p] = addr
  BY <1>1, <1>2, Zenon DEF EndpointStep
<1> HIDE DEF s2, t, s
<1>10. CoreInv'
  BY <1>1, <1>2, <1>7, <1>8, <1>9, CommitInv, SendInitInv, Zenon
<1>11. wipe_message(p) \subseteq WipeMessage
  BY <1>2, WipeMessageTyped, Zenon
<1>12. OtherTypes'
  <2>1. wipes' \subseteq WipeMessage
    BY <1>1, <1>11, Zenon DEF IInv, TypeOK
  <2>2. outgoing_queue' \in [Peers -> 0 .. MAX_QUEUED_PACKETS]
    <3>1. outgoing_queue \in [Peers -> 0 .. MAX_QUEUED_PACKETS]
      BY Zenon DEF IInv, TypeOK
    <3>2. 0 \in 0 .. MAX_QUEUED_PACKETS
      <4>1. MAX_QUEUED_PACKETS \in Nat
        BY PeerConstants, Zenon
      <4> QED BY <4>1
    <3>3. outgoing_queue' = [outgoing_queue EXCEPT ![p] = IF confirmed THEN 0 ELSE @]
      BY <1>1, Zenon
    <3> QED BY <3>1, <3>2, <3>3, Zenon
  <2> QED BY <1>1, <2>1, <2>2, Zenon DEF IInv, TypeOK, OtherTypes, interfaceVars
<1> QED BY <1>10, <1>12, Zenon DEF IInv, TypeOK, CoreInv, OtherTypes, Maps

\* handle_timer, Rekey: wait on, give up, or initiate again.
LEMMA RekeyTimerInv ==
  ASSUME IInv, NEW r \in rekeys, HandleRekeyTimer(r)
  PROVE  IInv'
<1> DEFINE p        == r.peer
           s        == sessions[p]
           t        == timers[p]
           again(d) == (rekeys \ {r}) \cup {[r EXCEPT !.due = Due(d)]}
<1>1. r \in RekeyMessage /\ p \in Peers /\ now \in Nat
  BY Zenon DEF IInv, TypeOK, RekeyMessage
<1>2. /\ UNCHANGED <<interfaceVars, outgoing_queue, endpoint, last_handshake_tai64n, wipes>>
      /\ \/ \E d \in Nat : commit(p, s, t, index_map, again(d), {})
         \/ commit(p, s, t, index_map, rekeys \ {r}, {})
         \/ /\ ~gave_up(t)
            /\ send_handshake_init(p, s, [t EXCEPT !.handshake_attempts = @ + 1],
                                   endpoint[p], index_map, rekeys \ {r}, {})
         \/ send_handshake_init(p, s, t, endpoint[p], index_map, rekeys \ {r}, {})
  <2>1. ASSUME elapsed(t.handshake_initialized, now) < REKEY_TIMEOUT
        PROVE  REKEY_TIMEOUT - elapsed(t.handshake_initialized, now) \in Nat
    <3>1. t.handshake_initialized \in Timestamp
      BY <1>1, Zenon DEF IInv, TypeOK, Timers
    <3> HIDE DEF t
    <3>2. REKEY_TIMEOUT \in Nat /\ FOREVER \in Nat
      BY PeerConstants, Zenon
    <3> QED BY <1>1, <2>1, <3>1, <3>2 DEF elapsed, Timestamp
  <2>2. ASSUME elapsed(t.authenticated_received, now) <= STALE_SESSION_TIMEOUT
        PROVE  STALE_SESSION_TIMEOUT - elapsed(t.authenticated_received, now) \in Nat
    <3>1. t.authenticated_received \in Timestamp
      BY <1>1, Zenon DEF IInv, TypeOK, Timers
    <3> QED BY <1>1, <2>2, <3>1, PeerConstants, PeerServerConstants DEF elapsed, Timestamp
  <2>3. STALE_SESSION_TIMEOUT \in Nat
    BY PeerServerConstants, Zenon
  <2> QED BY <2>1, <2>2, <2>3, Zenon DEF HandleRekeyTimer
<1>3. s \in Sessions /\ t \in Timers /\ rekeys \subseteq RekeyMessage
  BY <1>1, Zenon DEF IInv, TypeOK
<1>4. rekeys \ {r} \in SUBSET RekeyMessage /\ \A d \in Nat : again(d) \in SUBSET RekeyMessage
  BY <1>1, <1>3, PeerServerConstants DEF RekeyMessage, Due
<1>5. ~gave_up(t) => [t EXCEPT !.handshake_attempts = @ + 1] \in Timers
  BY <1>3, PeerConstants, SMTT(30) DEF gave_up, Timers
<1>6. Good(p, s, index_map) /\ Usable(s, endpoint[p])
  BY <1>1, GoodSelf, Zenon
<1>7. EndpointStep(p) /\ endpoint'[p] = endpoint[p]
  BY <1>2, Zenon DEF EndpointStep
<1> HIDE DEF p, s, t, again
<1>8. CoreInv'
  BY <1>1, <1>2, <1>3, <1>4, <1>5, <1>6, <1>7, CommitInv, SendInitInv, Zenon
<1>9. OtherTypes'
  BY <1>2, Zenon DEF IInv, TypeOK, OtherTypes, interfaceVars
<1> QED BY <1>8, <1>9, Zenon DEF IInv, TypeOK, CoreInv, OtherTypes, Maps

\* handle_timer, Wipe: all sessions go, and their indices with them.
LEMMA WipeTimerInv ==
  ASSUME IInv, NEW w \in wipes, HandleWipeTimer(w)
  PROVE  IInv'
<1> DEFINE p == w.peer
<1>1. p \in Peers
  BY Zenon DEF IInv, TypeOK, WipeMessage
<1>2. /\ wipes' = wipes \ {w}
      /\ UNCHANGED <<interfaceVars, outgoing_queue, endpoint, last_handshake_tai64n>>
      /\ \/ commit(p, NewSessions, timers[p],
                   Unmap(index_map, get_mapped_indices(sessions[p])), rekeys, {})
         \/ commit(p, sessions[p], timers[p], index_map, rekeys, {})
  BY Zenon DEF HandleWipeTimer
<1>3. timers[p] \in Timers /\ rekeys \in SUBSET RekeyMessage
  BY <1>1, Zenon DEF IInv, TypeOK
<1>4. Good(p, sessions[p], index_map) /\ Usable(sessions[p], endpoint[p])
  BY <1>1, GoodSelf, Zenon
<1>5. Good(p, NewSessions, Unmap(index_map, get_mapped_indices(sessions[p])))
  BY <1>1, <1>4, GoodWipe, Zenon
<1>6. Usable(NewSessions, endpoint[p])
  BY SMTT(30) DEF Usable, Transporting, NewSessions
<1>7. EndpointStep(p) /\ endpoint'[p] = endpoint[p]
  BY <1>2, Zenon DEF EndpointStep
<1> HIDE DEF p
<1>8. CoreInv'
  BY <1>1, <1>2, <1>3, <1>4, <1>5, <1>6, <1>7, CommitInv, Zenon
<1>9. OtherTypes'
  BY <1>2, Zenon DEF IInv, TypeOK, OtherTypes, interfaceVars
<1> QED BY <1>8, <1>9, Zenon DEF IInv, TypeOK, CoreInv, OtherTypes, Maps

\* The keepalive timers use up a nonce.
LEMMA KeepaliveInv ==
  ASSUME IInv, NEW p \in Peers, SendKeepalive(p)
  PROVE  IInv'
<1> DEFINE s1 == handle_outgoing_transport(sessions[p], 1)
<1>1. /\ sendable(sessions[p], endpoint[p], now) > 0
      /\ commit(p, s1, timers[p], index_map, rekeys,
                send_to_peer(Encrypted(p, sessions[p], 1)))
      /\ UNCHANGED <<interfaceVars, outgoing_queue, endpoint, last_handshake_tai64n, wipes>>
  BY Zenon DEF SendKeepalive
<1>2. sessions[p] \in Sessions /\ timers[p] \in Timers /\ rekeys \in SUBSET RekeyMessage
  BY Zenon DEF IInv, TypeOK
<1>3. 1 <= sendable(sessions[p], endpoint[p], now)
  <2>1. sendable(sessions[p], endpoint[p], now) \in Nat
    BY <1>2, SendableBound, Zenon
  <2>2. sendable(sessions[p], endpoint[p], now) > 0
    BY <1>1, Zenon
  <2> HIDE DEF s1
  <2> QED BY <2>1, <2>2
<1>4. Good(p, s1, index_map) /\ Usable(s1, endpoint[p])
  BY <1>3, GoodSelf, SendGood, SMTT(30)
<1>5. EndpointStep(p) /\ endpoint'[p] = endpoint[p]
  BY <1>1, Zenon DEF EndpointStep
<1> HIDE DEF s1
<1>6. CoreInv'
  BY <1>1, <1>2, <1>4, <1>5, CommitInv, Zenon
<1>7. OtherTypes'
  BY <1>1, Zenon DEF IInv, TypeOK, OtherTypes, interfaceVars
<1> QED BY <1>6, <1>7, Zenon DEF IInv, TypeOK, CoreInv, OtherTypes, Maps

\* Key and port changes, the clock and stuttering touch no peer.
LEMMA InterfaceInv ==
  ASSUME IInv, Tick \/ NewPrivateKey \/ ClearPrivateKey \/ NewListenPort \/ UNCHANGED vars
  PROVE  IInv'
<1>1. UNCHANGED <<peerVars, index_map, rekeys, wipes>>
  BY Zenon DEF Tick, NewPrivateKey, ClearPrivateKey, NewListenPort, vars, peerVars
<1>2. now' \in Nat /\ private_key' \in BOOLEAN /\ udp' \in BOOLEAN
  <2>1. now \in Nat /\ private_key \in BOOLEAN /\ udp \in BOOLEAN
    BY Zenon DEF IInv, TypeOK
  <2>2. now' \in Nat
    <3>1. now' = now \/ now' = now + 1
      BY Zenon DEF Tick, NewPrivateKey, ClearPrivateKey, NewListenPort, vars
    <3> QED BY <2>1, <3>1
  <2>3. private_key' \in BOOLEAN
    BY <2>1, Zenon DEF Tick, NewPrivateKey, ClearPrivateKey, NewListenPort, vars
  <2>4. udp' \in BOOLEAN
    <3>1. CASE NewListenPort
      <4>1. (IF private_key THEN {udp, TRUE} ELSE {FALSE}) \subseteq BOOLEAN
        BY <2>1, Zenon
      <4> QED BY <3>1, <4>1, Zenon DEF NewListenPort
    <3>2. CASE udp' = udp \/ udp' = TRUE
      BY <2>1, <3>2, Zenon
    <3> QED BY <3>1, <3>2, Zenon DEF Tick, NewPrivateKey, ClearPrivateKey, vars
  <2> QED BY <2>2, <2>3, <2>4, Zenon
<1>3. TypeOK'
  BY <1>1, <1>2, Zenon DEF IInv, TypeOK, peerVars
<1> QED BY <1>1, <1>3, Zenon DEF IInv, peerVars

\* A configured endpoint replaces the one that was learned.
LEMMA EndpointInv ==
  ASSUME IInv, NEW p \in Peers, NEW addr \in Endpoints, UpdateEndpoint(p, addr)
  PROVE  IInv'
<1>1. /\ endpoint' = [endpoint EXCEPT ![p] = addr] /\ addr # NONE
      /\ UNCHANGED <<now, private_key, udp, sessions, timers, outgoing_queue,
                     last_handshake_tai64n, index_map, rekeys, wipes>>
  BY PeerServerConstants, Zenon DEF UpdateEndpoint, interfaceVars
<1>2. endpoint \in [Peers -> Endpoints \cup {NONE}]
  BY Zenon DEF IInv, TypeOK
<1>3. TypeOK'
  BY <1>1, <1>2, Zenon DEF IInv, TypeOK
<1>4. \A q \in Peers : endpoint[q] # NONE => endpoint'[q] # NONE
  BY <1>1, <1>2, Zenon
<1>5. \A q \in Peers : Usable(sessions[q], endpoint'[q])
  BY <1>4, Zenon DEF IInv, Usable, Transporting
<1> QED BY <1>1, <1>3, <1>5, Zenon DEF IInv

-----------------------------------------------------------------------------
(* The theorems *)

\* A new device has no sessions and an empty map.
LEMMA InitInv ==
  ASSUME NEW up \in BOOLEAN, InitWith(up)
  PROVE  IInv
<1>1. NewSessions \in Sessions /\ NewTimers \in Timers
  <2>1. NewSessions \in Sessions
    BY Zenon DEF NewSessions, Sessions, Slot
  <2>2. MAX_HANDSHAKE_ATTEMPTS \in Nat
    BY PeerConstants, Zenon
  <2>3. NewTimers \in Timers
    BY <2>2 DEF NewTimers, Timers, Timestamp
  <2> QED BY <2>1, <2>3, Zenon
<1>2. TypeOK
  <2>1. MAX_QUEUED_PACKETS \in Nat
    BY PeerConstants, Zenon
  <2> QED BY <1>1, <2>1 DEF InitWith, TypeOK, Timestamp
<1>3. \A p \in Peers : Consistent(p, sessions[p], index_map) /\ Usable(sessions[p], endpoint[p])
  BY Zenon DEF InitWith, NewSessions, Consistent, get_mapped_indices, IndexOf, Usable, Transporting
<1> QED BY <1>2, <1>3, Zenon DEF IInv

\* Every handler keeps the inductive invariant.
LEMMA StepInv ==
  ASSUME IInv, [Next]_vars
  PROVE  IInv'
<1>1. CASE Tick \/ InterfaceStep \/ UNCHANGED vars
  BY <1>1, InterfaceInv, EndpointInv, Zenon DEF InterfaceStep
<1>2. CASE TimerStep
  BY <1>2, RekeyTimerInv, WipeTimerInv, Zenon DEF TimerStep
<1>3. ASSUME NEW p \in Peers, PeerStep(p)
      PROVE  IInv'
  <2>1. CASE HandleEgressPacket(p)
    BY <2>1, EgressInv, Zenon
  <2>2. CASE SendKeepalive(p)
    BY <2>2, KeepaliveInv, Zenon
  <2>3. ASSUME NEW addr \in Endpoints, NEW their \in TheirIndices, NEW ts \in 1 .. MaxTai64n,
               HandleIngressHandshakeInit(p, addr, their, ts)
        PROVE  IInv'
    <3>1. ts \in Nat
      BY PeerServerConstants
    <3> QED BY <2>3, <3>1, IngressInitInv, Zenon
  <2>4. ASSUME NEW addr \in Endpoints, NEW their \in TheirIndices, NEW i \in Indices,
               HandleIngressHandshakeResp(p, i, addr, their)
        PROVE  IInv'
    BY <2>4, IngressRespInv, Zenon
  <2>5. ASSUME NEW i \in Indices, RejectIngressHandshakeResp(p, i)
        PROVE  IInv'
    BY <2>5, RejectRespInv, Zenon
  <2>6. ASSUME NEW i \in Indices, NEW addr \in Endpoints, NEW deliverable \in BOOLEAN,
               HandleIngressTransport(p, i, addr, deliverable)
        PROVE  IInv'
    BY <2>6, IngressTransportInv, Zenon
  <2> QED BY <1>3, <2>1, <2>2, <2>3, <2>4, <2>5, <2>6, Zenon DEF PeerStep
<1> QED BY <1>1, <1>2, <1>3, Zenon DEF Next

\* The inductive invariant gives the four properties that the runs check.
LEMMA InvImplies ==
  ASSUME IInv
  PROVE  TypeOK /\ SessionsMapped /\ SlotsDistinct /\ CurrentIsUsable
<1>1. TypeOK
  BY Zenon DEF IInv
<1>2. SessionsMapped
  <2> SUFFICES ASSUME NEW p \in Peers, NEW s \in Slots(p)
               PROVE  index_map[s.our_index] = p
    BY Zenon DEF SessionsMapped
  <2>1. s.our_index \in get_mapped_indices(sessions[p])
    BY Zenon DEF Slots, get_mapped_indices, IndexOf
  <2> QED BY <2>1, Zenon DEF IInv, Consistent
<1>3. SlotsDistinct
  BY Zenon DEF IInv, Consistent, SlotsDistinct
<1>4. CurrentIsUsable
  BY Zenon DEF IInv, Usable, Transporting, CurrentIsUsable
<1> QED BY <1>1, <1>2, <1>3, <1>4, Zenon

\* In every behaviour of the device, with key and port changes.
THEOREM Invariance == Spec => []IInv
<1>1. Init => IInv
  BY InitInv, Zenon DEF Init
<1>2. IInv /\ [Next]_vars => IInv'
  BY StepInv, Zenon
<1> QED BY <1>1, <1>2, PTL DEF Spec

\* Type correctness, and with it the bounds of the egress queue, of the attempt
\* counter and of the sending nonces, for any constants.
THEOREM TypeCorrect == Spec => []TypeOK
<1>1. IInv => TypeOK
  BY InvImplies, Zenon
<1> QED BY <1>1, Invariance, PTL

\* The dispatch tables are right: whatever the handlers do to the three slots,
\* index_map leads from the index of every live session to its peer.
THEOREM SessionsStayMapped == Spec => []SessionsMapped
<1>1. IInv => SessionsMapped
  BY InvImplies, Zenon
<1> QED BY <1>1, Invariance, PTL

\* find_session is unambiguous.
THEOREM SlotsStayDistinct == Spec => []SlotsDistinct
<1>1. IInv => SlotsDistinct
  BY InvImplies, Zenon
<1> QED BY <1>1, Invariance, PTL

\* No unwrap of the current session's nonce, birthday, index or endpoint in
\* needs_new_handshake, ready_for_transport or handle_outgoing_transport panics.
THEOREM CurrentStaysUsable == Spec => []CurrentIsUsable
<1>1. IInv => CurrentIsUsable
  BY InvImplies, Zenon
<1> QED BY <1>1, Invariance, PTL

\* An interface that is never taken down is a special case.
THEOREM UpInvariance == UpSpec => []IInv
<1>1. InitWith(TRUE) => IInv
  BY InitInv, Zenon
<1>2. IInv /\ [UpNext]_vars => IInv'
  BY StepInv, Zenon DEF UpNext, Next
<1> QED BY <1>1, <1>2, PTL DEF UpSpec

-----------------------------------------------------------------------------
(***************************************************************************)
(* What the handlers commit, and what follows from it for nonces and       *)
(* indices.                                                                *)
(*                                                                         *)
(* Nonces.  A handler of p may first promote `next` to `current` and then  *)
(* encrypts n packets: Sends(p, s, n), for the sessions s after the        *)
(* promotion.  The nonces are those after the counter of s.current, so the *)
(* proof needs that the session in p's slots that is now s.current had     *)
(* used none above: it is `current` itself, or `next`, which NextUnused    *)
(* says has sent nothing.                                                  *)
(***************************************************************************)

\* The session in `next` has not encrypted anything.
NextUnused == \A p \in Peers : sessions[p].next # NONE => sessions[p].next.sending_nonce = 0

\* n packets are encrypted on s.current.
Sends(p, s, n) ==
  /\ s \in Sessions /\ n \in Nat
  /\ n # 0 =>
       /\ s.current # NONE /\ s.current.sending_nonce + n <= REJECT_AFTER_MESSAGES
       /\ \A x \in Slots(p) :
            x.our_index = s.current.our_index => x.sending_nonce <= s.current.sending_nonce
  /\ sessions'[p].current = handle_outgoing_transport(s, n).current
  /\ \A d \in out' : d.type = "transport" => d \in Encrypted(p, s, n)

Silent == \A d \in out' : d.type # "transport"

NoReuse(p, d) ==
  /\ sessions'[p].current # NONE
  /\ d.nonce < sessions'[p].current.sending_nonce
  /\ d.nonce < REJECT_AFTER_MESSAGES
  /\ \A s \in Slots(p) :
       s.our_index = sessions'[p].current.our_index => d.nonce >= s.sending_nonce

-----------------------------------------------------------------------------
(* What a handler commits *)

\* Neither commit nor send_handshake_init touches `current`, handshake_completed
\* or another peer.
LEMMA CommitEffect ==
  ASSUME IInv, NEW p \in Peers, NEW s \in Sessions, NEW t \in Timers, NEW e, NEW m, NEW r, NEW o,
         commit(p, s, t, m, r, o) \/ send_handshake_init(p, s, t, e, m, r, o)
  PROVE  /\ sessions'[p].current = s.current
         /\ timers'[p].handshake_completed = t.handshake_completed
         /\ \A q \in Peers \ {p} : sessions'[q] = sessions[q] /\ timers'[q] = timers[q]
<1>1. sessions \in [Peers -> Sessions] /\ timers \in [Peers -> Timers]
  BY Zenon DEF IInv, TypeOK
<1>2. PICK s1, t1 :
        /\ sessions' = [sessions EXCEPT ![p] = s1] /\ timers' = [timers EXCEPT ![p] = t1]
        /\ s1.current = s.current /\ t1.handshake_completed = t.handshake_completed
  <2>1. CASE commit(p, s, t, m, r, o)
    BY <2>1, Zenon DEF commit
  <2>2. CASE send_handshake_init(p, s, t, e, m, r, o) /\ CanInitiate(t, e)
    <3> DEFINE t2 == IF udp THEN [t EXCEPT !.handshake_initialized = now] ELSE t
    <3>1. PICK i : sessions' = [sessions EXCEPT ![p] = initiate_new_session(s, i)]
                   /\ timers' = [timers EXCEPT ![p] = t2]
      BY <2>2, Zenon DEF send_handshake_init, commit
    <3>2. initiate_new_session(s, i).current = s.current
      BY Zenon DEF initiate_new_session, replace_next, Sessions
    <3>3. t2.handshake_completed = t.handshake_completed
      BY Zenon DEF Timers
    <3> QED BY <3>1, <3>2, <3>3, Zenon
  <2>3. CASE send_handshake_init(p, s, t, e, m, r, o) /\ ~CanInitiate(t, e)
    BY <2>3, Zenon DEF send_handshake_init, commit
  <2> QED BY <2>1, <2>2, <2>3, Zenon
<1> QED BY <1>1, <1>2, Zenon

\* Sending needs a current session, of which it advances the nonce, and leaves
\* none where there was none.
LEMMA SendEffect ==
  ASSUME NEW s \in Sessions, NEW e, NEW n0, NEW n \in Nat, n <= sendable(s, e, n0)
  PROVE  /\ handle_outgoing_transport(s, n) \in Sessions
         /\ s.current = NONE => handle_outgoing_transport(s, n).current = NONE
         /\ s.current # NONE =>
              LET x == handle_outgoing_transport(s, n).current
              IN  /\ x \in Session /\ x.our_index = s.current.our_index
                  /\ x.birthday = s.current.birthday
                  /\ x.sending_nonce = s.current.sending_nonce + n
<1>1. sendable(s, e, n0) \in Nat
  BY SendableBound, Zenon
<1>2. CASE n = 0
  <2>1. handle_outgoing_transport(s, n) = s
    BY <1>2, Zenon DEF handle_outgoing_transport
  <2>2. s.current # NONE => s.current \in Session /\ s.current.sending_nonce + n = s.current.sending_nonce
    BY <1>2, PeerConstants DEF Sessions, Slot, Session
  <2> QED BY <2>1, <2>2, Zenon
<1>3. CASE n # 0
  <2>1. sendable(s, e, n0) # 0
    BY <1>1, <1>3
  <2>2. s.current # NONE /\ s.current.sending_nonce + sendable(s, e, n0) = REJECT_AFTER_MESSAGES
    BY <2>1, SendableBound, Zenon
  <2>3. s.current \in Session
    BY <2>2, Zenon DEF Sessions, Slot
  <2>4. s.current.sending_nonce + n \in 0 .. REJECT_AFTER_MESSAGES
    BY <1>1, <2>2, <2>3, PeerConstants DEF Session
  <2>5. [s.current EXCEPT !.sending_nonce = @ + n] \in Session
    BY <2>3, <2>4, Zenon DEF Session
  <2>6. handle_outgoing_transport(s, n) =
          [s EXCEPT !.current = [s.current EXCEPT !.sending_nonce = @ + n]]
    BY <1>3, <2>3, Zenon DEF handle_outgoing_transport, Sessions, Session
  <2>7. /\ [s.current EXCEPT !.sending_nonce = @ + n].our_index = s.current.our_index
        /\ [s.current EXCEPT !.sending_nonce = @ + n].birthday = s.current.birthday
        /\ [s.current EXCEPT !.sending_nonce = @ + n].sending_nonce = s.current.sending_nonce + n
    BY <2>3, Zenon DEF Session
  <2>8. /\ handle_outgoing_transport(s, n) \in Sessions
        /\ handle_outgoing_transport(s, n).current = [s.current EXCEPT !.sending_nonce = @ + n]
    BY <2>5, <2>6, Zenon DEF Sessions, Slot
  <2> QED BY <2>2, <2>5, <2>7, <2>8, Zenon
<1> QED BY <1>2, <1>3, Zenon

\* Encrypting leaves `next` alone.
LEMMA SendKeepsNext ==
  ASSUME NEW s \in Sessions, NEW n
  PROVE  handle_outgoing_transport(s, n).next = s.next
BY Zenon DEF handle_outgoing_transport, Sessions

\* handle_egress_packet encrypts what fits and commits it, and perhaps initiates.
LEMMA EgressCommits ==
  ASSUME IInv, NEW p \in Peers, HandleEgressPacket(p)
  PROVE  \E n \in Nat, t \in Timers : \E o :
           LET s1 == handle_outgoing_transport(sessions[p], n)
           IN  /\ n <= sendable(sessions[p], endpoint[p], now)
               /\ t.handshake_completed = timers[p].handshake_completed
               /\ t.handshake_initialized = timers[p].handshake_initialized
               /\ t.handshake_attempts \in {0, timers[p].handshake_attempts}
               /\ o \subseteq Encrypted(p, sessions[p], n)
               /\ \/ commit(p, s1, t, index_map, rekeys, o)
                  \/ send_handshake_init(p, s1, t, endpoint[p], index_map, rekeys, o)
<1> DEFINE s     == sessions[p]
           fits  == has_room(outgoing_queue[p])
           q     == IF fits THEN outgoing_queue[p] + 1 ELSE outgoing_queue[p]
           ready == ready_for_transport(s, now)
           room  == sendable(s, endpoint[p], now)
           n     == IF ready THEN drain_encrypted(q, room) ELSE 0
           t     == [timers[p] EXCEPT !.handshake_attempts = IF fits THEN 0 ELSE @,
                                      !.data_sent = IF n > 0 THEN now ELSE @]
           s1    == handle_outgoing_transport(s, n)
           o     == send_to_peer(Encrypted(p, s, n))
<1>1. \/ commit(p, s1, t, index_map, rekeys, o)
      \/ send_handshake_init(p, s1, t, endpoint[p], index_map, rekeys, o)
  BY Zenon DEF HandleEgressPacket
<1>2. s \in Sessions /\ timers[p] \in Timers /\ now \in Nat
  BY Zenon DEF IInv, TypeOK
<1>3. q \in Nat /\ room \in Nat
  BY <1>2, SendableBound, PeerConstants DEF IInv, TypeOK, has_room
<1> HIDE DEF q, room, ready
<1>4. n \in Nat /\ n <= room
  BY <1>3, DrainBounds
<1>5. o \subseteq Encrypted(p, s, n)
  BY Zenon DEF send_to_peer
<1> HIDE DEF n, fits
<1>6. /\ t \in Timers
      /\ t.handshake_completed = timers[p].handshake_completed
      /\ t.handshake_initialized = timers[p].handshake_initialized
      /\ t.handshake_attempts \in {0, timers[p].handshake_attempts}
  <2>1. /\ (IF fits THEN 0 ELSE timers[p].handshake_attempts) \in 0 .. MAX_HANDSHAKE_ATTEMPTS
        /\ (IF n > 0 THEN now ELSE timers[p].data_sent) \in Timestamp
    BY <1>2, PeerConstants DEF Timers, Timestamp
  <2> QED BY <1>2, <2>1, Zenon DEF Timers
<1> HIDE DEF t, o
<1> QED BY <1>1, <1>4, <1>5, <1>6, Zenon DEF room

\* The sessions after a transport packet on session i has been accepted.
Confirmed(p, i) == find_session(sessions[p], i) = "next"
AfterReceipt(p, i) == IF Confirmed(p, i) THEN confirm_next(sessions[p]) ELSE sessions[p]
MapAfterReceipt(p, i) ==
  IF Confirmed(p, i) THEN Unmap(index_map, IndexOf(sessions[p].past)) ELSE index_map

\* handle_ingress_transport confirms `next`, encrypts the queue, and commits.
LEMMA TransportCommits ==
  ASSUME IInv, NEW p \in Peers, NEW i \in Indices, NEW addr \in Endpoints,
         NEW deliverable \in BOOLEAN, HandleIngressTransport(p, i, addr, deliverable)
  PROVE  /\ AfterReceipt(p, i) \in Sessions
         /\ \E n \in Nat, t \in Timers : \E o :
              LET s2 == handle_outgoing_transport(AfterReceipt(p, i), n)
                  m  == MapAfterReceipt(p, i)
              IN  /\ n <= sendable(AfterReceipt(p, i), addr, now)
                  /\ ~Confirmed(p, i) => n = 0
                  /\ t.handshake_completed =
                       IF Confirmed(p, i) THEN now ELSE timers[p].handshake_completed
                  /\ t.handshake_initialized = timers[p].handshake_initialized
                  /\ t.handshake_attempts = timers[p].handshake_attempts
                  /\ \A d \in o : d = TunnelPacket(p) \/ d \in Encrypted(p, AfterReceipt(p, i), n)
                  /\ \/ commit(p, s2, t, m, rekeys, o)
                     \/ send_handshake_init(p, s2, t, addr, m, rekeys, o)
<1> DEFINE confirmed == Confirmed(p, i)
           s1        == AfterReceipt(p, i)
           m         == MapAfterReceipt(p, i)
           n         == IF confirmed THEN Lesser(outgoing_queue[p], sendable(s1, addr, now)) ELSE 0
           s2        == handle_outgoing_transport(s1, n)
           t         == [timers[p] EXCEPT !.authenticated_received = now,
                                          !.handshake_completed = IF confirmed THEN now ELSE @,
                                          !.data_sent = IF n > 0 THEN now ELSE @]
           needs     == needs_new_handshake(s2, t, now, FALSE)
           o         == Encrypted(p, s1, n) \cup
                          (IF deliverable /\ (needs => CanInitiate(t, addr))
                           THEN {TunnelPacket(p)} ELSE {})
<1>1. \/ commit(p, s2, t, m, rekeys, o)
      \/ send_handshake_init(p, s2, t, addr, m, rekeys, o)
  BY Zenon DEF HandleIngressTransport, Confirmed, AfterReceipt, MapAfterReceipt
<1>6. \A d \in o : d = TunnelPacket(p) \/ d \in Encrypted(p, s1, n)
  BY Zenon
<1> HIDE DEF o, needs
<1>2. sessions[p] \in Sessions /\ timers[p] \in Timers /\ now \in Nat /\ outgoing_queue[p] \in Nat
  BY PeerConstants DEF IInv, TypeOK
<1>3. s1 \in Sessions
  BY <1>2, Zenon DEF AfterReceipt, confirm_next, Sessions, Slot
<1> HIDE DEF s1, confirmed
<1>4. n \in Nat /\ n <= sendable(s1, addr, now) /\ (~confirmed => n = 0)
  BY <1>2, <1>3, SendableBound DEF Lesser
<1> HIDE DEF n
<1>5. /\ t \in Timers
      /\ t.handshake_completed = IF confirmed THEN now ELSE timers[p].handshake_completed
      /\ t.handshake_initialized = timers[p].handshake_initialized
      /\ t.handshake_attempts = timers[p].handshake_attempts
  <2>1. /\ (IF n > 0 THEN now ELSE timers[p].data_sent) \in Timestamp
        /\ (IF confirmed THEN now ELSE timers[p].handshake_completed) \in Timestamp
        /\ now \in Timestamp
    BY <1>2, Zenon DEF Timers, Timestamp
  <2> QED BY <1>2, <2>1, Zenon DEF Timers
<1> HIDE DEF t
<1> QED BY <1>1, <1>3, <1>4, <1>5, <1>6, Zenon DEF s1, confirmed

-----------------------------------------------------------------------------
(* Slots and output *)

\* The index of a session names it among the slots of its peer.
LEMMA IndexNames ==
  ASSUME IInv, NEW p \in Peers, NEW x \in Slots(p)
  PROVE  /\ sessions[p].current # NONE /\ x.our_index = sessions[p].current.our_index =>
              x = sessions[p].current
         /\ sessions[p].next # NONE /\ x.our_index = sessions[p].next.our_index =>
              x = sessions[p].next
<1>1. Consistent(p, sessions[p], index_map)
  BY Zenon DEF IInv
<1>2. x \in {sessions[p].past, sessions[p].current, sessions[p].next} /\ x # NONE
  BY Zenon DEF Slots
<1> QED BY <1>1, <1>2, Zenon DEF Consistent, IndexOf

\* The transport packets of a step are those the handler computed.
LEMMA CommitOut ==
  ASSUME NEW p \in Peers, NEW s, NEW t, NEW e, NEW m, NEW r, NEW o,
         commit(p, s, t, m, r, o) \/ send_handshake_init(p, s, t, e, m, r, o)
  PROVE  \A d \in out' : d.type = "transport" => d \in o
<1>1. CASE out' = o
  BY <1>1, Zenon
<1>2. ASSUME NEW i, out' = o \cup send_to_peer({Initiation(p, i)})
      PROVE  \A d \in out' : d.type = "transport" => d \in o
  <2>1. Initiation(p, i).type = "initiation"
    BY Zenon DEF Initiation
  <2> QED BY <1>2, <2>1, Zenon DEF send_to_peer
<1> QED BY <1>1, <1>2, Zenon DEF commit, send_handshake_init

\* What handle_outgoing_transport leaves in `current`, and what it sent.
LEMMA EncryptedNonces ==
  ASSUME NEW p \in Peers, NEW s \in Sessions, NEW n \in Nat, NEW d \in Encrypted(p, s, n),
         n # 0 => s.current # NONE
  PROVE  /\ n # 0 /\ s.current \in Session /\ d.peer = p
         /\ \E k \in 0 .. n - 1 : d.nonce = s.current.sending_nonce + k
         /\ handle_outgoing_transport(s, n).current =
              [s.current EXCEPT !.sending_nonce = s.current.sending_nonce + n]
<1>1. n # 0
  BY Zenon DEF Encrypted
<1>2. s.current \in Session
  BY <1>1, Zenon DEF Sessions, Slot
<1>3. PICK k \in 0 .. n - 1 : d = Transport(p, s, s.current.sending_nonce + k)
  BY <1>1, Zenon DEF Encrypted
<1>4. d.peer = p /\ d.nonce = s.current.sending_nonce + k
  BY <1>3, Zenon DEF Transport
<1>5. handle_outgoing_transport(s, n).current =
        [s.current EXCEPT !.sending_nonce = s.current.sending_nonce + n]
  BY <1>1, <1>2, Zenon DEF handle_outgoing_transport, Sessions, Session
<1> QED BY <1>1, <1>2, <1>3, <1>4, <1>5, Zenon

\* A step that sends on s.current reuses no nonce.
LEMMA SendsSafe ==
  ASSUME IInv, NEW p \in Peers, NEW s, NEW n, Sends(p, s, n),
         NEW d \in out', d.type = "transport"
  PROVE  d.peer = p /\ NoReuse(p, d)
<1>1. s \in Sessions /\ n \in Nat /\ d \in Encrypted(p, s, n)
  BY Zenon DEF Sends
<1>2. n # 0 => s.current # NONE
  BY Zenon DEF Sends
<1>3. /\ n # 0 /\ s.current \in Session /\ d.peer = p
      /\ \E k \in 0 .. n - 1 : d.nonce = s.current.sending_nonce + k
      /\ handle_outgoing_transport(s, n).current =
           [s.current EXCEPT !.sending_nonce = s.current.sending_nonce + n]
  BY <1>1, <1>2, EncryptedNonces
<1>4. PICK k \in 0 .. n - 1 : d.nonce = s.current.sending_nonce + k
  BY <1>3, Zenon
<1>5. /\ s.current.sending_nonce + n <= REJECT_AFTER_MESSAGES
      /\ \A x \in Slots(p) :
           x.our_index = s.current.our_index => x.sending_nonce <= s.current.sending_nonce
      /\ sessions'[p].current = [s.current EXCEPT !.sending_nonce = s.current.sending_nonce + n]
  BY <1>3, Zenon DEF Sends
<1>6. s.current.sending_nonce \in Nat /\ REJECT_AFTER_MESSAGES \in Nat
  BY <1>3, PeerConstants DEF Session
<1>7. sessions'[p].current \in Session
  BY <1>1, <1>3, <1>5, <1>6 DEF Session
<1>8. /\ sessions'[p].current.sending_nonce = s.current.sending_nonce + n
      /\ sessions'[p].current.our_index = s.current.our_index
      /\ sessions'[p].current # NONE
  BY <1>3, <1>5, <1>7, NoneIsNoSession, Zenon DEF Session
<1>9. \A x \in Slots(p) : x.sending_nonce \in Nat
  BY PeerConstants DEF Slots, IInv, TypeOK, Sessions, Slot, Session
<1> QED BY <1>1, <1>3, <1>4, <1>5, <1>6, <1>8, <1>9 DEF NoReuse

-----------------------------------------------------------------------------
(* The handlers *)

\* What is encrypted on the session that is `current` already.
LEMMA SendsOnCurrent ==
  ASSUME IInv, NEW p \in Peers, NEW e, NEW n0, NEW n \in Nat,
         n <= sendable(sessions[p], e, n0),
         sessions'[p].current = handle_outgoing_transport(sessions[p], n).current,
         \A d \in out' : d.type = "transport" => d \in Encrypted(p, sessions[p], n)
  PROVE  Sends(p, sessions[p], n)
<1>1. sessions[p] \in Sessions
  BY Zenon DEF IInv, TypeOK
<1>2. ASSUME n # 0
      PROVE  /\ sessions[p].current # NONE
             /\ sessions[p].current.sending_nonce + n <= REJECT_AFTER_MESSAGES
             /\ sessions[p].current.sending_nonce \in Nat
  <2>1. sendable(sessions[p], e, n0) \in Nat /\ sendable(sessions[p], e, n0) # 0
    BY <1>1, <1>2, SendableBound
  <2>2. /\ sessions[p].current # NONE
        /\ sessions[p].current.sending_nonce + sendable(sessions[p], e, n0) = REJECT_AFTER_MESSAGES
    BY <1>1, <2>1, SendableBound, Zenon
  <2>3. sessions[p].current.sending_nonce \in Nat
    BY <1>1, <2>2, PeerConstants, SMTT(30) DEF Sessions, Slot, Session
  <2> QED BY <2>1, <2>2, <2>3, PeerConstants
<1>3. ASSUME n # 0, NEW x \in Slots(p), x.our_index = sessions[p].current.our_index
      PROVE  x.sending_nonce <= sessions[p].current.sending_nonce
  BY <1>2, <1>3, IndexNames
<1> QED BY <1>1, <1>2, <1>3, Zenon DEF Sends

\* handle_egress_packet.
LEMMA EgressSends ==
  ASSUME IInv, NEW p \in Peers, HandleEgressPacket(p)
  PROVE  \E n : Sends(p, sessions[p], n)
<1> DEFINE s1(n) == handle_outgoing_transport(sessions[p], n)
<1>1. PICK n, t, o :
        /\ n \in Nat /\ t \in Timers
        /\ n <= sendable(sessions[p], endpoint[p], now)
        /\ o \subseteq Encrypted(p, sessions[p], n)
        /\ \/ commit(p, s1(n), t, index_map, rekeys, o)
           \/ send_handshake_init(p, s1(n), t, endpoint[p], index_map, rekeys, o)
  BY EgressCommits, Zenon
<1>2. s1(n) \in Sessions
  BY <1>1, SendEffect, Zenon DEF IInv, TypeOK
<1> HIDE DEF s1
<1>3. sessions'[p].current = s1(n).current
  BY <1>1, <1>2, CommitEffect, Zenon
<1>4. \A d \in out' : d.type = "transport" => d \in o
  BY <1>1, CommitOut, Zenon
<1>5. Sends(p, sessions[p], n)
  BY <1>1, <1>3, <1>4, SendsOnCurrent, Zenon DEF s1
<1> QED BY <1>5, Zenon

\* A keepalive.
LEMMA KeepaliveSends ==
  ASSUME IInv, NEW p \in Peers, SendKeepalive(p)
  PROVE  \E n : Sends(p, sessions[p], n)
<1> DEFINE s    == handle_outgoing_transport(sessions[p], 1)
           room == sendable(sessions[p], endpoint[p], now)
           o    == send_to_peer(Encrypted(p, sessions[p], 1))
<1>1. room > 0 /\ commit(p, s, timers[p], index_map, rekeys, o)
  BY Zenon DEF SendKeepalive
<1>2. sessions[p] \in Sessions /\ timers[p] \in Timers
  BY Zenon DEF IInv, TypeOK
<1>3. room \in Nat
  BY <1>2, SendableBound, Zenon
<1>4. 1 <= room
  <2> HIDE DEF room, s, o
  <2> QED BY <1>1, <1>3
<1>5. s \in Sessions
  BY <1>2, <1>4, SendEffect, Zenon
<1>6. o \subseteq Encrypted(p, sessions[p], 1)
  BY Zenon DEF send_to_peer
<1> HIDE DEF s, o
<1>7. sessions'[p].current = s.current
  BY <1>1, <1>2, <1>5, CommitEffect, Zenon
<1>8. \A d \in out' : d.type = "transport" => d \in o
  BY <1>1, CommitOut, Zenon
<1>9. Sends(p, sessions[p], 1)
  BY <1>4, <1>6, <1>7, <1>8, SendsOnCurrent, Zenon DEF s
<1> QED BY <1>9, Zenon

\* What is encrypted on the session that was `next` until now.
LEMMA SendsOnNext ==
  ASSUME IInv, NextUnused, NEW p \in Peers, NEW s \in Sessions, NEW e, NEW n0, NEW n \in Nat,
         n <= sendable(s, e, n0),
         sessions[p].next # NONE, s.current.our_index = sessions[p].next.our_index,
         sessions'[p].current = handle_outgoing_transport(s, n).current,
         \A d \in out' : d.type = "transport" => d \in Encrypted(p, s, n)
  PROVE  Sends(p, s, n)
<1>1. ASSUME n # 0
      PROVE  /\ s.current # NONE /\ s.current.sending_nonce + n <= REJECT_AFTER_MESSAGES
             /\ s.current.sending_nonce \in Nat
  <2>1. sendable(s, e, n0) \in Nat /\ sendable(s, e, n0) # 0
    BY <1>1, SendableBound
  <2>2. /\ s.current # NONE
        /\ s.current.sending_nonce + sendable(s, e, n0) = REJECT_AFTER_MESSAGES
    BY <2>1, SendableBound, Zenon
  <2>3. s.current.sending_nonce \in Nat
    BY <2>2, PeerConstants, SMTT(30) DEF Sessions, Slot, Session
  <2> QED BY <2>1, <2>2, <2>3, PeerConstants
<1>2. ASSUME n # 0, NEW x \in Slots(p), x.our_index = s.current.our_index
      PROVE  x.sending_nonce <= s.current.sending_nonce
  <2>1. x = sessions[p].next
    BY <1>2, IndexNames, Zenon
  <2>2. x.sending_nonce = 0
    BY <2>1, Zenon DEF NextUnused
  <2> QED BY <1>1, <1>2, <2>2
<1> QED BY <1>1, <1>2, Zenon DEF Sends

\* The response to `next` makes it a well-formed `current`.
LEMMA ResponseTyped ==
  ASSUME IInv, NEW p \in Peers, NEW i \in Indices, NEW addr \in Endpoints,
         NEW their \in TheirIndices, HandleIngressHandshakeResp(p, i, addr, their)
  PROVE  /\ sessions[p].next # NONE
         /\ process_incoming_handshake_response(sessions[p], their, now) \in Sessions
<1>1. sessions[p] \in Sessions /\ now \in Nat
  BY Zenon DEF IInv, TypeOK
<1>2. sessions[p].next # NONE
  BY Zenon DEF HandleIngressHandshakeResp, Holds
<1>3. transport_session(sessions[p].next.our_index, their, now) \in Session
  BY <1>1, <1>2, NewSessionType, Zenon DEF Sessions, Slot, Session
<1> QED BY <1>1, <1>2, <1>3, Zenon DEF process_incoming_handshake_response, Sessions, Slot

\* handle_ingress_handshake_resp encrypts what is queued, or a keepalive, on the
\* new session, and commits.
LEMMA ResponseCommits ==
  ASSUME IInv, NEW p \in Peers, NEW i \in Indices, NEW addr \in Endpoints,
         NEW their \in TheirIndices, HandleIngressHandshakeResp(p, i, addr, their)
  PROVE  \E n \in Nat : \E t, o :
           LET s == process_incoming_handshake_response(sessions[p], their, now)
           IN  /\ n <= sendable(s, addr, now)
               /\ o \subseteq Encrypted(p, s, n)
               /\ commit(p, handle_outgoing_transport(s, n), t,
                         Unmap(index_map, IndexOf(sessions[p].past)), rekeys, o)
<1> DEFINE s     == process_incoming_handshake_response(sessions[p], their, now)
           m     == Unmap(index_map, IndexOf(sessions[p].past))
           q     == outgoing_queue[p]
           ready == ready_for_transport(s, now)
           room  == sendable(s, addr, now)
           n     == CASE ~ready         -> 0
                      [] ready /\ q > 0 -> drain_encrypted(q, room)
                      [] ready /\ q = 0 -> Lesser(1, room)
           o     == send_to_peer(Encrypted(p, s, n))
<1>1. \E t : commit(p, handle_outgoing_transport(s, n), t, m, rekeys, o)
  BY Zenon DEF HandleIngressHandshakeResp
<1>2. q \in Nat /\ s \in Sessions
  BY ResponseTyped, PeerConstants DEF IInv, TypeOK
<1> HIDE DEF s, m
<1>3. room \in Nat
  BY <1>2, SendableBound, Zenon
<1> HIDE DEF ready, room, q
<1>4. drain_encrypted(q, room) \in Nat /\ drain_encrypted(q, room) <= room
  BY <1>2, <1>3, DrainBounds, Zenon
<1>5. Lesser(1, room) \in Nat /\ Lesser(1, room) <= room
  BY <1>3 DEF Lesser
<1>6. n \in {0, drain_encrypted(q, room), Lesser(1, room)}
  BY <1>2
<1>7. o \subseteq Encrypted(p, s, n)
  BY Zenon DEF send_to_peer
<1> HIDE DEF n, o
<1>8. n \in Nat /\ n <= room
  BY <1>3, <1>4, <1>5, <1>6
<1> QED BY <1>1, <1>7, <1>8, Zenon DEF s, m, room

\* handle_ingress_handshake_resp.
LEMMA ResponseSends ==
  ASSUME IInv, NextUnused, NEW p \in Peers, NEW i \in Indices, NEW addr \in Endpoints,
         NEW their \in TheirIndices, HandleIngressHandshakeResp(p, i, addr, their)
  PROVE  \E s, n : Sends(p, s, n)
<1> DEFINE s  == process_incoming_handshake_response(sessions[p], their, now)
           m  == Unmap(index_map, IndexOf(sessions[p].past))
<1>1. PICK n, t, o :
        /\ n \in Nat /\ n <= sendable(s, addr, now)
        /\ o \subseteq Encrypted(p, s, n)
        /\ commit(p, handle_outgoing_transport(s, n), t, m, rekeys, o)
  BY ResponseCommits, Zenon
<1>2. sessions[p].next # NONE /\ s \in Sessions
  BY ResponseTyped, Zenon
<1>3. s.current.our_index = sessions[p].next.our_index
  BY Zenon DEF process_incoming_handshake_response, transport_session
<1> HIDE DEF s, m
<1>4. sessions'[p].current = handle_outgoing_transport(s, n).current /\ out' = o
  BY <1>1, Zenon DEF commit, IInv, TypeOK
<1>5. Sends(p, s, n)
  BY <1>1, <1>2, <1>3, <1>4, SendsOnNext, Zenon
<1> QED BY <1>5, Zenon

\* handle_ingress_transport.
LEMMA TransportSends ==
  ASSUME IInv, NextUnused, NEW p \in Peers, NEW i \in Indices, NEW addr \in Endpoints,
         NEW deliverable \in BOOLEAN, HandleIngressTransport(p, i, addr, deliverable)
  PROVE  \E s, n : Sends(p, s, n)
<1> DEFINE s1    == AfterReceipt(p, i)
           s2(n) == handle_outgoing_transport(s1, n)
<1>1. PICK n, t, m, o :
        /\ n \in Nat /\ t \in Timers
        /\ n <= sendable(s1, addr, now)
        /\ ~Confirmed(p, i) => n = 0
        /\ \A d \in o : d = TunnelPacket(p) \/ d \in Encrypted(p, s1, n)
        /\ \/ commit(p, s2(n), t, m, rekeys, o)
           \/ send_handshake_init(p, s2(n), t, addr, m, rekeys, o)
  BY TransportCommits, Zenon
<1>2. s1 \in Sessions
  BY TransportCommits, Zenon
<1>3. Confirmed(p, i) =>
        sessions[p].next # NONE /\ s1.current.our_index = sessions[p].next.our_index
  BY Zenon DEF Confirmed, AfterReceipt, find_session, Holds, confirm_next
<1> HIDE DEF s1
<1>4. s2(n) \in Sessions
  BY <1>1, <1>2, SendEffect, Zenon
<1> HIDE DEF s2
<1>5. sessions'[p].current = s2(n).current
  BY <1>1, <1>4, CommitEffect, Zenon
<1>6. \A d \in out' : d.type = "transport" => d \in Encrypted(p, s1, n)
  <2>1. \A d \in out' : d.type = "transport" => d \in o
    BY <1>1, CommitOut, Zenon
  <2>2. TunnelPacket(p).type = "tunnel"
    BY Zenon DEF TunnelPacket
  <2> QED BY <1>1, <2>1, <2>2, Zenon
<1>7. Sends(p, s1, n)
  <2>1. CASE Confirmed(p, i)
    BY <1>1, <1>2, <1>3, <1>5, <1>6, <2>1, SendsOnNext, Zenon DEF s2
  <2>2. CASE ~Confirmed(p, i)
    BY <1>1, <1>2, <1>5, <1>6, <2>2, Zenon DEF s2, Sends
  <2> QED BY <2>1, <2>2, Zenon
<1> QED BY <1>7, Zenon

\* The other handlers put no transport packet on the wire.
LEMMA OthersSilent ==
  ASSUME IInv,
         \/ Tick \/ TimerStep \/ InterfaceStep
         \/ \E p \in Peers, i \in Indices : RejectIngressHandshakeResp(p, i)
         \/ \E p \in Peers : \E addr, their, ts : HandleIngressHandshakeInit(p, addr, their, ts)
  PROVE  Silent
<1>1. CASE Tick \/ InterfaceStep
  BY <1>1, Zenon DEF InterfaceStep, Tick, NewPrivateKey, ClearPrivateKey, NewListenPort,
              UpdateEndpoint, Silent
<1>2. ASSUME NEW r \in rekeys, HandleRekeyTimer(r)
      PROVE  Silent
  <2>1. r.peer \in Peers
    BY Zenon DEF IInv, TypeOK, RekeyMessage
  <2> DEFINE nothing == {}
  <2>2. PICK s, t, e, r1 : \/ commit(r.peer, s, t, index_map, r1, nothing)
                           \/ send_handshake_init(r.peer, s, t, e, index_map, r1, nothing)
    BY <1>2, Zenon DEF HandleRekeyTimer
  <2> HIDE DEF nothing
  <2>3. \A d \in out' : d.type = "transport" => d \in nothing
    BY <2>1, <2>2, CommitOut, Zenon
  <2> QED BY <2>3, Zenon DEF Silent, nothing
<1>3. ASSUME NEW w \in wipes, HandleWipeTimer(w)
      PROVE  Silent
  BY <1>3, Zenon DEF HandleWipeTimer, commit, Silent
<1>4. ASSUME NEW p \in Peers, NEW i \in Indices, RejectIngressHandshakeResp(p, i)
      PROVE  Silent
  BY <1>4, Zenon DEF RejectIngressHandshakeResp, commit, Silent
<1>5. ASSUME NEW p \in Peers, NEW addr, NEW their, NEW ts,
             HandleIngressHandshakeInit(p, addr, their, ts)
      PROVE  Silent
  <2>1. PICK i : out' = send_to_peer({Response(p, i, their)})
    BY <1>5, Zenon DEF HandleIngressHandshakeInit, commit
  <2>2. Response(p, i, their).type = "response"
    BY Zenon DEF Response
  <2> QED BY <2>1, <2>2, Zenon DEF send_to_peer, Silent
<1> QED BY <1>1, <1>2, <1>3, <1>4, <1>5, Zenon DEF TimerStep

-----------------------------------------------------------------------------
(* `next` has sent nothing *)

\* Committing sessions whose `next` is unused keeps NextUnused.
LEMMA UnusedCommit ==
  ASSUME IInv, NextUnused, NEW p \in Peers, NEW s \in Sessions, NEW t, NEW e, NEW m, NEW r, NEW o,
         commit(p, s, t, m, r, o) \/ send_handshake_init(p, s, t, e, m, r, o),
         s.next # NONE => s.next.sending_nonce = 0
  PROVE  NextUnused'
<1>1. sessions \in [Peers -> Sessions]
  BY Zenon DEF IInv, TypeOK
<1>2. PICK s1 : /\ sessions' = [sessions EXCEPT ![p] = s1]
                /\ s1.next # NONE => s1.next.sending_nonce = 0
  <2>1. CASE commit(p, s, t, m, r, o)
    BY <2>1, Zenon DEF commit
  <2>2. CASE send_handshake_init(p, s, t, e, m, r, o) /\ CanInitiate(t, e)
    <3>1. PICK i : sessions' = [sessions EXCEPT ![p] = initiate_new_session(s, i)]
      BY <2>2, Zenon DEF send_handshake_init, commit
    <3>2. initiate_new_session(s, i).next = new_session(i)
      BY Zenon DEF initiate_new_session, replace_next, Sessions
    <3>3. new_session(i).sending_nonce = 0
      BY Zenon DEF new_session
    <3> QED BY <3>1, <3>2, <3>3, Zenon
  <2>3. CASE send_handshake_init(p, s, t, e, m, r, o) /\ ~CanInitiate(t, e)
    BY <2>3, Zenon DEF send_handshake_init, commit
  <2> QED BY <2>1, <2>2, <2>3, Zenon
<1> QED BY <1>1, <1>2, Zenon DEF NextUnused
\* Every handler of a peer keeps NextUnused.
LEMMA UnusedPeerStep ==
  ASSUME IInv, NextUnused, NEW p \in Peers, PeerStep(p)
  PROVE  NextUnused'
<1>1. sessions \in [Peers -> Sessions] /\ sessions[p] \in Sessions
  BY Zenon DEF IInv, TypeOK
<1>2. sessions[p].next # NONE => sessions[p].next.sending_nonce = 0
  BY Zenon DEF NextUnused
<1>3. ASSUME NEW s, NEW n, sessions' = [sessions EXCEPT ![p] = handle_outgoing_transport(s, n)],
             s \in Sessions, s.next # NONE => s.next.sending_nonce = 0
      PROVE  NextUnused'
  BY <1>1, <1>3, SendKeepsNext, Zenon DEF NextUnused
<1>4. CASE HandleEgressPacket(p)
  <2> DEFINE s1(n) == handle_outgoing_transport(sessions[p], n)
  <2>1. PICK n, t, o :
          /\ n \in Nat /\ t \in Timers
          /\ n <= sendable(sessions[p], endpoint[p], now)
          /\ \/ commit(p, s1(n), t, index_map, rekeys, o)
             \/ send_handshake_init(p, s1(n), t, endpoint[p], index_map, rekeys, o)
    BY <1>4, EgressCommits, Zenon
  <2>2. s1(n) \in Sessions /\ s1(n).next = sessions[p].next
    BY <1>1, <2>1, SendEffect, SendKeepsNext, Zenon
  <2> HIDE DEF s1
  <2> QED BY <1>2, <2>1, <2>2, UnusedCommit, SMTT(30)
<1>5. CASE SendKeepalive(p)
  <2>1. sessions' = [sessions EXCEPT ![p] = handle_outgoing_transport(sessions[p], 1)]
    BY <1>5, Zenon DEF SendKeepalive, commit
  <2> QED BY <1>1, <1>2, <1>3, <2>1, Zenon
<1>6. ASSUME NEW addr, NEW their, NEW ts, HandleIngressHandshakeInit(p, addr, their, ts)
      PROVE  NextUnused'
  <2>1. PICK i : sessions' = [sessions EXCEPT ![p] =
                                complete_incoming_handshake(sessions[p], i, their, now)]
    BY <1>6, Zenon DEF HandleIngressHandshakeInit, commit
  <2>2. complete_incoming_handshake(sessions[p], i, their, now).next =
          transport_session(i, their, now)
    BY <1>1, Zenon DEF complete_incoming_handshake, replace_next, Sessions
  <2> QED BY <1>1, <2>1, <2>2 DEF NextUnused, transport_session
<1>7. ASSUME NEW i, RejectIngressHandshakeResp(p, i)
      PROVE  NextUnused'
  <2>1. sessions' = [sessions EXCEPT ![p] = reject_handshake_response(sessions[p])]
    BY <1>7, Zenon DEF RejectIngressHandshakeResp, commit
  <2>2. reject_handshake_response(sessions[p]).next = NONE
    BY <1>1, Zenon DEF reject_handshake_response, Sessions
  <2> QED BY <1>1, <2>1, <2>2, Zenon DEF NextUnused
<1>8. ASSUME NEW i \in Indices, NEW addr \in Endpoints, NEW their \in TheirIndices,
             HandleIngressHandshakeResp(p, i, addr, their)
      PROVE  NextUnused'
  <2> DEFINE s == process_incoming_handshake_response(sessions[p], their, now)
  <2>1. PICK n : sessions' = [sessions EXCEPT ![p] = handle_outgoing_transport(s, n)]
    BY <1>8, Zenon DEF HandleIngressHandshakeResp, commit
  <2>2. s.next = NONE
    BY Zenon DEF process_incoming_handshake_response
  <2>3. s \in Sessions
    BY <1>8, ResponseTyped, Zenon
  <2> HIDE DEF s
  <2> QED BY <1>3, <2>1, <2>2, <2>3, Zenon
<1>9. ASSUME NEW i \in Indices, NEW addr \in Endpoints, NEW d \in BOOLEAN,
             HandleIngressTransport(p, i, addr, d)
      PROVE  NextUnused'
  <2> DEFINE s1    == AfterReceipt(p, i)
             s2(n) == handle_outgoing_transport(s1, n)
  <2>1. PICK n, t, m, o :
          /\ n \in Nat /\ t \in Timers
          /\ n <= sendable(s1, addr, now)
          /\ \/ commit(p, s2(n), t, m, rekeys, o)
             \/ send_handshake_init(p, s2(n), t, addr, m, rekeys, o)
    BY <1>9, TransportCommits, SMTT(30)
  <2>2. s1 \in Sessions /\ (s1.next # NONE => s1.next.sending_nonce = 0)
    BY <1>2, <1>9, TransportCommits, Zenon DEF AfterReceipt, confirm_next
  <2> HIDE DEF s1
  <2>3. s2(n) \in Sessions /\ s2(n).next = s1.next
    BY <2>1, <2>2, SendEffect, SendKeepsNext, Zenon
  <2> HIDE DEF s2
  <2> QED BY <2>1, <2>2, <2>3, UnusedCommit, SMTT(30)
<1> QED BY <1>4, <1>5, <1>6, <1>7, <1>8, <1>9, Zenon DEF PeerStep

\* Timers, configuration and the clock keep NextUnused too.
LEMMA UnusedStep ==
  ASSUME IInv, NextUnused, [Next]_vars
  PROVE  NextUnused'
<1>1. sessions \in [Peers -> Sessions]
  BY Zenon DEF IInv, TypeOK
<1>2. CASE Tick \/ InterfaceStep \/ UNCHANGED vars
  <2>1. sessions' = sessions
    BY <1>2, Zenon DEF InterfaceStep, Tick, NewPrivateKey, ClearPrivateKey, NewListenPort,
                UpdateEndpoint, vars, peerVars
  <2> QED BY <2>1, Zenon DEF NextUnused
<1>3. ASSUME NEW r \in rekeys, HandleRekeyTimer(r)
      PROVE  NextUnused'
  <2>1. r.peer \in Peers
    BY Zenon DEF IInv, TypeOK, RekeyMessage
  <2>2. PICK t, r1 :
          \/ commit(r.peer, sessions[r.peer], t, index_map, r1, {})
          \/ send_handshake_init(r.peer, sessions[r.peer], t, endpoint[r.peer], index_map, r1, {})
    BY <1>3, Zenon DEF HandleRekeyTimer
  <2>3. sessions[r.peer].next # NONE => sessions[r.peer].next.sending_nonce = 0
    BY <2>1, Zenon DEF NextUnused
  <2> QED BY <1>1, <2>1, <2>2, <2>3, UnusedCommit, Zenon
<1>4. ASSUME NEW w \in wipes, HandleWipeTimer(w)
      PROVE  NextUnused'
  <2>1. w.peer \in Peers
    BY Zenon DEF IInv, TypeOK, WipeMessage
  <2>2. sessions' \in {sessions, [sessions EXCEPT ![w.peer] = NewSessions]}
    BY <1>1, <1>4, <2>1, Zenon DEF HandleWipeTimer, commit
  <2> QED BY <1>1, <2>1, <2>2 DEF NextUnused, NewSessions
<1>5. ASSUME NEW p \in Peers, PeerStep(p)
      PROVE  NextUnused'
  BY <1>5, UnusedPeerStep, Zenon
<1> QED BY <1>2, <1>3, <1>4, <1>5, Zenon DEF Next, TimerStep

-----------------------------------------------------------------------------
\* A step sends on at most one session, or sends no transport packet.
LEMMA StepSends ==
  ASSUME IInv, NextUnused, Next
  PROVE  Silent \/ \E p \in Peers : \E s, n : Sends(p, s, n)
<1>1. CASE Tick \/ TimerStep \/ InterfaceStep
  BY <1>1, OthersSilent, Zenon
<1>2. ASSUME NEW p \in Peers, PeerStep(p)
      PROVE  Silent \/ \E s, n : Sends(p, s, n)
  <2>1. CASE HandleEgressPacket(p) \/ SendKeepalive(p)
    BY <2>1, EgressSends, KeepaliveSends, Zenon
  <2>2. ASSUME NEW addr, NEW their, NEW ts, HandleIngressHandshakeInit(p, addr, their, ts)
        PROVE  Silent
    BY <2>2, OthersSilent, Zenon
  <2>3. ASSUME NEW i \in Indices, RejectIngressHandshakeResp(p, i)
        PROVE  Silent
    BY <2>3, OthersSilent, Zenon
  <2>4. ASSUME NEW i \in Indices, NEW addr \in Endpoints, NEW their \in TheirIndices,
               HandleIngressHandshakeResp(p, i, addr, their)
        PROVE  \E s, n : Sends(p, s, n)
    BY <2>4, ResponseSends, Zenon
  <2>5. ASSUME NEW i \in Indices, NEW addr \in Endpoints, NEW deliverable \in BOOLEAN,
               HandleIngressTransport(p, i, addr, deliverable)
        PROVE  \E s, n : Sends(p, s, n)
    BY <2>5, TransportSends, Zenon
  <2> QED BY <1>2, <2>1, <2>2, <2>3, <2>4, <2>5, Zenon DEF PeerStep
<1> QED BY <1>1, <1>2, Zenon DEF Next

\* No step reuses a nonce.
LEMMA NonceStep ==
  ASSUME IInv, NextUnused, [Next]_vars
  PROVE  [\A p \in Peers : \A d \in out' :
            d.type = "transport" /\ d.peer = p => NoReuse(p, d)]_vars
<1>1. CASE UNCHANGED vars
  BY <1>1, Zenon
<1>2. CASE Next
  BY <1>2, StepSends, SendsSafe, Zenon DEF Silent
<1> QED BY <1>1, <1>2, Zenon

\* Nonces are not reused: every transport packet of every step carries a nonce
\* that is not below its session's counter before the step, but below it
\* afterwards, and none at or above REJECT_AFTER_MESSAGES, from whichever handler
\* it was sent.
THEOREM NonceSafety == Spec => NoncesNeverReused
<1>1. Init => NextUnused
  BY DEF Init, InitWith, NewSessions, NextUnused
<1>2. IInv /\ NextUnused /\ [Next]_vars => NextUnused'
  BY UnusedStep, Zenon
<1>3. Spec => []NextUnused
  BY <1>1, <1>2, Invariance, PTL DEF Spec
<1>4. IInv /\ NextUnused /\ [Next]_vars =>
        [\A p \in Peers : \A d \in out' :
           d.type = "transport" /\ d.peer = p =>
             /\ sessions'[p].current # NONE
             /\ d.nonce < sessions'[p].current.sending_nonce
             /\ d.nonce < REJECT_AFTER_MESSAGES
             /\ \A s \in Slots(p) :
                  s.our_index = sessions'[p].current.our_index => d.nonce >= s.sending_nonce]_vars
  BY NonceStep, Zenon DEF NoReuse
<1> QED BY <1>3, <1>4, Invariance, PTL DEF Spec, NoncesNeverReused

-----------------------------------------------------------------------------
(***************************************************************************)
(* Indices.  What a handler of p commits is tidy if the index map leads to *)
(* p only under the indices of the sessions it commits and of those that   *)
(* were orphaned already, and has no new entry for another peer.           *)
(***************************************************************************)
Tidy(p, s, m) ==
  /\ \A i \in Indices : m[i] = p => i \in get_mapped_indices(s) \cup Orphans(p)
  /\ \A i \in Indices : m[i] \in Peers \ {p} => index_map[i] = m[i]

\* The indices of the slots.
LEMMA SlotIndices ==
  ASSUME NEW p \in Peers
  PROVE  {x.our_index : x \in Slots(p)} = get_mapped_indices(sessions[p])
BY Zenon DEF Slots, get_mapped_indices, IndexOf

\* The state a handler starts from is tidy.
LEMMA TidySelf ==
  ASSUME NEW p \in Peers
  PROVE  Tidy(p, sessions[p], index_map)
BY SlotIndices, Zenon DEF Tidy, Orphans

\* A new `next` takes an unused index; what it pushes out of `past` is freed.
LEMMA TidyReplaceNext ==
  ASSUME NEW p \in Peers, NEW s \in Sessions, NEW m \in Maps, Tidy(p, s, m),
         NEW i \in Indices, NEW session \in Session, session.our_index = i,
         NEW m1 \in {Unmap([m EXCEPT ![i] = p], dead_of_replaced_next(s)),
                     [Unmap(m, dead_of_replaced_next(s)) EXCEPT ![i] = p]}
  PROVE  Tidy(p, replace_next(s, session), m1)
<1> DEFINE dead == dead_of_replaced_next(s)
           s1   == replace_next(s, session)
<1>1. \A j \in Indices :
        /\ m1[j] # NONE => j = i \/ (j \notin dead /\ m1[j] = m[j])
        /\ m1[j] \in {p, NONE, m[j]}
        /\ j = i => m1[j] \in {p, NONE}
  <2>1. CASE m1 = Unmap([m EXCEPT ![i] = p], dead)
    BY <2>1, Zenon DEF Unmap, Maps
  <2>2. CASE m1 = [Unmap(m, dead) EXCEPT ![i] = p]
    BY <2>2, Zenon DEF Unmap, Maps
  <2> QED BY <2>1, <2>2, Zenon
<1>2. /\ s1.next = session /\ s1.current = s.current
      /\ s1.past = IF s.next = NONE THEN s.past ELSE s.next
  BY Zenon DEF replace_next, Sessions
<1>3. i \in get_mapped_indices(s1)
  BY <1>2, NoneIsNoSession, Zenon DEF get_mapped_indices, IndexOf
<1>4. get_mapped_indices(s) \subseteq get_mapped_indices(s1) \cup dead
  BY <1>2, Zenon DEF get_mapped_indices, dead_of_replaced_next, IndexOf
<1>5. NONE \notin Peers
  BY PeerServerConstants, Zenon
<1> HIDE DEF dead, s1
<1>6. ASSUME NEW j \in Indices, m1[j] = p
      PROVE  j \in get_mapped_indices(s1) \cup Orphans(p)
  BY <1>1, <1>3, <1>4, <1>5, <1>6, Zenon DEF Tidy
<1>7. ASSUME NEW j \in Indices, m1[j] \in Peers \ {p}
      PROVE  index_map[j] = m1[j]
  BY <1>1, <1>5, <1>7, Zenon DEF Tidy
<1> QED BY <1>6, <1>7, Zenon DEF Tidy, s1

\* `next` becomes `current` and `current` becomes `past`, whose index is freed.
LEMMA TidyPromote ==
  ASSUME NEW p \in Peers, NEW s \in Sessions, NEW m \in Maps, Tidy(p, s, m), s.next # NONE,
         NEW x \in Session, x.our_index = s.next.our_index
  PROVE  Tidy(p, [past |-> s.current, current |-> x, next |-> NONE], Unmap(m, IndexOf(s.past)))
<1> DEFINE s1 == [past |-> s.current, current |-> x, next |-> NONE]
           m1 == Unmap(m, IndexOf(s.past))
<1>1. \A j \in Indices : m1[j] # NONE => j \notin IndexOf(s.past) /\ m1[j] = m[j]
  BY Zenon DEF Unmap
<1>2. get_mapped_indices(s) \subseteq get_mapped_indices(s1) \cup IndexOf(s.past)
  BY NoneIsNoSession, Zenon DEF get_mapped_indices, IndexOf
<1>3. NONE \notin Peers
  BY PeerServerConstants, Zenon
<1> HIDE DEF s1, m1
<1> QED BY <1>1, <1>2, <1>3, Zenon DEF Tidy, s1, m1

\* Sending concerns no index.
LEMMA TidySend ==
  ASSUME NEW p \in Peers, NEW s \in Sessions, NEW m, Tidy(p, s, m),
         NEW e, NEW n0, NEW n \in Nat, n <= sendable(s, e, n0)
  PROVE  Tidy(p, handle_outgoing_transport(s, n), m)
<1> DEFINE s1 == handle_outgoing_transport(s, n)
<1>1. s1.next = s.next /\ s1.past = s.past
  BY Zenon DEF handle_outgoing_transport, Sessions
<1>2. IndexOf(s1.current) = IndexOf(s.current)
  BY SendEffect, NoneIsNoSession, Zenon DEF IndexOf
<1> HIDE DEF s1
<1>3. get_mapped_indices(s1) = get_mapped_indices(s)
  BY <1>1, <1>2, Zenon DEF get_mapped_indices
<1> QED BY <1>3, Zenon DEF Tidy, s1

NoNewOrphans == \A p \in Peers : (Orphans(p))' \subseteq Orphans(p)

\* Committing what is tidy orphans no index, of p or of another peer.
LEMMA TidyCommit ==
  ASSUME IInv, NEW p \in Peers, NEW s \in Sessions, NEW m \in Maps, Tidy(p, s, m),
         NEW t, NEW r, NEW o, commit(p, s, t, m, r, o)
  PROVE  NoNewOrphans
<1>1. sessions \in [Peers -> Sessions] /\ sessions' = [sessions EXCEPT ![p] = s] /\ index_map' = m
  BY Zenon DEF IInv, TypeOK, commit
<1>2. ASSUME NEW q \in Peers
      PROVE  (Orphans(q))' = {i \in Indices : m[i] = q} \ get_mapped_indices(sessions'[q])
  BY <1>1 DEF Orphans, Slots, get_mapped_indices, IndexOf
<1>3. ASSUME NEW q \in Peers, q # p
      PROVE  (Orphans(q))' \subseteq Orphans(q)
  <2>1. sessions'[q] = sessions[q]
    BY <1>1, <1>3, Zenon
  <2>2. \A i \in Indices : m[i] = q => index_map[i] = q
    BY <1>3, Zenon DEF Tidy
  <2>3. Orphans(q) = {i \in Indices : index_map[i] = q} \ get_mapped_indices(sessions[q])
    BY SlotIndices, Zenon DEF Orphans
  <2> QED BY <1>2, <2>1, <2>2, <2>3, Zenon
<1>4. (Orphans(p))' \subseteq Orphans(p)
  <2>1. sessions'[p] = s
    BY <1>1, Zenon
  <2> QED BY <1>2, <2>1, Zenon DEF Tidy
<1> QED BY <1>3, <1>4, Zenon DEF NoNewOrphans

\* send_handshake_init frees the index it pushes out.
LEMMA TidyInitiate ==
  ASSUME IInv, NEW p \in Peers, NEW s \in Sessions, NEW m \in Maps, Tidy(p, s, m),
         NEW t, NEW e, NEW r, NEW o, send_handshake_init(p, s, t, e, m, r, o)
  PROVE  NoNewOrphans
<1>1. CASE ~CanInitiate(t, e)
  BY <1>1, TidyCommit, Zenon DEF send_handshake_init
<1>2. CASE CanInitiate(t, e)
  <2> DEFINE m1(i) == Unmap([m EXCEPT ![i] = p], dead_of_replaced_next(s))
  <2>1. PICK i, t1, r1, o1 :
          i \in unused_index(m) /\ commit(p, initiate_new_session(s, i), t1, m1(i), r1, o1)
    BY <1>2, Zenon DEF send_handshake_init
  <2>2. i \in Indices
    BY <2>1, ZenonT(60) DEF unused_index
  <2>3. new_session(i) \in Session /\ new_session(i).our_index = i
    BY <2>2, PeerConstants DEF new_session, Session, Timestamp
  <2>4. Tidy(p, initiate_new_session(s, i), m1(i))
    BY <2>2, <2>3, TidyReplaceNext, Zenon DEF initiate_new_session
  <2>5. initiate_new_session(s, i) \in Sessions
    BY <2>3, Zenon DEF initiate_new_session, replace_next, Sessions, Slot
  <2>6. m1(i) \in Maps
    BY Zenon DEF Unmap, Maps
  <2> HIDE DEF m1
  <2> QED BY <2>1, <2>4, <2>5, <2>6, TidyCommit, Zenon
<1> QED BY <1>1, <1>2, Zenon

\* handle_ingress_handshake_resp.
LEMMA TidyResponse ==
  ASSUME IInv, NEW p \in Peers, NEW i \in Indices, NEW addr \in Endpoints,
         NEW their \in TheirIndices, HandleIngressHandshakeResp(p, i, addr, their)
  PROVE  NoNewOrphans
<1> DEFINE s == process_incoming_handshake_response(sessions[p], their, now)
           m == Unmap(index_map, IndexOf(sessions[p].past))
           x == transport_session(sessions[p].next.our_index, their, now)
<1>1. /\ sessions[p] \in Sessions /\ index_map \in Maps /\ now \in Nat
      /\ Tidy(p, sessions[p], index_map)
  BY TidySelf, Zenon DEF IInv, TypeOK, Maps
<1>2. PICK n, t, o :
        /\ n \in Nat /\ n <= sendable(s, addr, now)
        /\ commit(p, handle_outgoing_transport(s, n), t, m, rekeys, o)
  BY ResponseCommits, Zenon
<1>3. sessions[p].next # NONE /\ s \in Sessions
  BY ResponseTyped, Zenon
<1>4. x \in Session /\ x.our_index = sessions[p].next.our_index
  BY <1>1, <1>3, NewSessionType, Zenon DEF Sessions, Slot, Session, transport_session
<1>5. Tidy(p, s, m)
  BY <1>1, <1>3, <1>4, TidyPromote, Zenon DEF process_incoming_handshake_response
<1>6. m \in Maps
  BY <1>1, Zenon DEF Unmap, Maps
<1> HIDE DEF s, m
<1>7. handle_outgoing_transport(s, n) \in Sessions /\ Tidy(p, handle_outgoing_transport(s, n), m)
  BY <1>2, <1>3, <1>5, SendEffect, TidySend, Zenon
<1> QED BY <1>2, <1>6, <1>7, TidyCommit, Zenon

\* handle_ingress_transport.
LEMMA TidyTransport ==
  ASSUME IInv, NEW p \in Peers, NEW i \in Indices, NEW addr \in Endpoints,
         NEW deliverable \in BOOLEAN, HandleIngressTransport(p, i, addr, deliverable)
  PROVE  NoNewOrphans
<1> DEFINE s1    == AfterReceipt(p, i)
           m     == MapAfterReceipt(p, i)
           s2(n) == handle_outgoing_transport(s1, n)
<1>1. PICK n, t, o :
        /\ n \in Nat /\ n <= sendable(s1, addr, now)
        /\ \/ commit(p, s2(n), t, m, rekeys, o)
           \/ send_handshake_init(p, s2(n), t, addr, m, rekeys, o)
  BY TransportCommits, Zenon
<1>2. /\ sessions[p] \in Sessions /\ index_map \in Maps /\ s1 \in Sessions
      /\ Tidy(p, sessions[p], index_map)
  BY TidySelf, TransportCommits, Zenon DEF IInv, TypeOK, Maps
<1>3. Tidy(p, s1, m) /\ m \in Maps
  <2>1. CASE Confirmed(p, i)
    <3>1. sessions[p].next # NONE
      BY <2>1, Zenon DEF Confirmed, find_session, Holds
    <3>2. sessions[p].next \in Session
      BY <1>2, <3>1, Zenon DEF Sessions, Slot
    <3>3. Tidy(p, confirm_next(sessions[p]), Unmap(index_map, IndexOf(sessions[p].past)))
      BY <1>2, <3>1, <3>2, TidyPromote, Zenon DEF confirm_next
    <3>4. Unmap(index_map, IndexOf(sessions[p].past)) \in Maps
      BY <1>2, Zenon DEF Unmap, Maps
    <3> QED BY <2>1, <3>3, <3>4, Zenon DEF AfterReceipt, MapAfterReceipt
  <2>2. CASE ~Confirmed(p, i)
    BY <1>2, <2>2, Zenon DEF AfterReceipt, MapAfterReceipt
  <2> QED BY <2>1, <2>2, Zenon
<1> HIDE DEF s1, m
<1>4. s2(n) \in Sessions /\ Tidy(p, s2(n), m)
  BY <1>1, <1>2, <1>3, SendEffect, TidySend, Zenon
<1> HIDE DEF s2
<1> QED BY <1>1, <1>3, <1>4, TidyCommit, TidyInitiate, Zenon

\* The handlers of a peer, but for a response that noise rejects.
LEMMA TidyPeerStep ==
  ASSUME IInv, NEW p \in Peers, PeerStep(p)
  PROVE  NoNewOrphans \/ \E i \in Indices : RejectIngressHandshakeResp(p, i)
<1>1. /\ sessions[p] \in Sessions /\ index_map \in Maps /\ now \in Nat
      /\ Tidy(p, sessions[p], index_map)
  BY TidySelf, Zenon DEF IInv, TypeOK, Maps
<1>2. CASE HandleEgressPacket(p)
  <2> DEFINE s1(n) == handle_outgoing_transport(sessions[p], n)
  <2>1. PICK n, t, o :
          /\ n \in Nat
          /\ n <= sendable(sessions[p], endpoint[p], now)
          /\ \/ commit(p, s1(n), t, index_map, rekeys, o)
             \/ send_handshake_init(p, s1(n), t, endpoint[p], index_map, rekeys, o)
    BY <1>2, EgressCommits, Zenon
  <2>2. s1(n) \in Sessions /\ Tidy(p, s1(n), index_map)
    BY <1>1, <2>1, SendEffect, TidySend, Zenon
  <2> HIDE DEF s1
  <2> QED BY <1>1, <2>1, <2>2, TidyCommit, TidyInitiate, Zenon
<1>3. CASE SendKeepalive(p)
  <2> DEFINE s1   == handle_outgoing_transport(sessions[p], 1)
             room == sendable(sessions[p], endpoint[p], now)
  <2>1. room > 0 /\ \E o : commit(p, s1, timers[p], index_map, rekeys, o)
    BY <1>3, Zenon DEF SendKeepalive
  <2>2. room \in Nat
    BY <1>1, SendableBound, Zenon
  <2>3. 1 <= room
    <3> HIDE DEF room, s1
    <3> QED BY <2>1, <2>2
  <2>4. s1 \in Sessions /\ Tidy(p, s1, index_map)
    BY <1>1, <2>3, SendEffect, TidySend, Zenon
  <2> HIDE DEF s1
  <2> QED BY <1>1, <2>1, <2>4, TidyCommit, Zenon
<1>4. ASSUME NEW addr, NEW their \in TheirIndices, NEW ts,
             HandleIngressHandshakeInit(p, addr, their, ts)
      PROVE  NoNewOrphans
  <2> DEFINE s1(i) == complete_incoming_handshake(sessions[p], i, their, now)
             m1(i) == [Unmap(index_map, dead_of_replaced_next(sessions[p])) EXCEPT ![i] = p]
  <2>1. PICK i, t, o : i \in unused_index(index_map) /\ commit(p, s1(i), t, m1(i), rekeys, o)
    BY <1>4, Zenon DEF HandleIngressHandshakeInit
  <2>2. i \in Indices
    BY <2>1, Zenon DEF unused_index
  <2>3. transport_session(i, their, now) \in Session /\ transport_session(i, their, now).our_index = i
    BY <1>1, <2>2, NewSessionType, Zenon DEF transport_session
  <2>4. Tidy(p, s1(i), m1(i))
    BY <1>1, <2>2, <2>3, TidyReplaceNext, Zenon DEF complete_incoming_handshake
  <2>5. s1(i) \in Sessions
    BY <1>1, <2>3, Zenon DEF complete_incoming_handshake, replace_next, Sessions, Slot
  <2>6. m1(i) \in Maps
    BY <1>1, Zenon DEF Unmap, Maps
  <2> HIDE DEF s1, m1
  <2> QED BY <2>1, <2>4, <2>5, <2>6, TidyCommit, Zenon
<1>5. ASSUME NEW i \in Indices, NEW addr \in Endpoints, NEW their \in TheirIndices,
             HandleIngressHandshakeResp(p, i, addr, their)
      PROVE  NoNewOrphans
  BY <1>5, TidyResponse, Zenon
<1>6. ASSUME NEW i \in Indices, NEW addr \in Endpoints, NEW d \in BOOLEAN,
             HandleIngressTransport(p, i, addr, d)
      PROVE  NoNewOrphans
  BY <1>6, TidyTransport, Zenon
<1> QED BY <1>2, <1>3, <1>4, <1>5, <1>6, Zenon DEF PeerStep

\* The timers: a retry rotates the slots, a wipe empties them.
LEMMA TidyTimerStep ==
  ASSUME IInv, TimerStep
  PROVE  NoNewOrphans
<1>1. ASSUME NEW r \in rekeys, HandleRekeyTimer(r)
      PROVE  NoNewOrphans
  <2>1. r.peer \in Peers
    BY Zenon DEF IInv, TypeOK, RekeyMessage
  <2>2. PICK t, r1 :
          \/ commit(r.peer, sessions[r.peer], t, index_map, r1, {})
          \/ send_handshake_init(r.peer, sessions[r.peer], t, endpoint[r.peer], index_map, r1, {})
    BY <1>1, Zenon DEF HandleRekeyTimer
  <2>3. /\ sessions[r.peer] \in Sessions /\ index_map \in Maps
        /\ Tidy(r.peer, sessions[r.peer], index_map)
    BY <2>1, TidySelf, Zenon DEF IInv, TypeOK, Maps
  <2> QED BY <2>1, <2>2, <2>3, TidyCommit, TidyInitiate, Zenon
<1>2. ASSUME NEW w \in wipes, HandleWipeTimer(w)
      PROVE  NoNewOrphans
  <2> DEFINE p == w.peer
             m == Unmap(index_map, get_mapped_indices(sessions[p]))
  <2>1. p \in Peers
    BY Zenon DEF IInv, TypeOK, WipeMessage
  <2>2. /\ sessions[p] \in Sessions /\ index_map \in Maps
        /\ Tidy(p, sessions[p], index_map)
    BY <2>1, TidySelf, Zenon DEF IInv, TypeOK, Maps
  <2>3. \/ commit(p, NewSessions, timers[p], m, rekeys, {})
        \/ commit(p, sessions[p], timers[p], index_map, rekeys, {})
    BY <1>2, Zenon DEF HandleWipeTimer
  <2>4. NewSessions \in Sessions /\ m \in Maps
    BY <2>2, Zenon DEF NewSessions, Sessions, Slot, Unmap, Maps
  <2>5. Tidy(p, NewSessions, m)
    BY <2>1, <2>2, PeerServerConstants, Zenon DEF Tidy, Unmap
  <2> HIDE DEF p, m
  <2> QED BY <2>1, <2>2, <2>3, <2>4, <2>5, TidyCommit, Zenon
<1> QED BY <1>1, <1>2, Zenon DEF TimerStep

\* index_map does not leak: whatever rotates, replaces or wipes the sessions of a
\* peer also frees the indices it drops, with the one exception that a rejected
\* response makes; however many peers, sessions and restarts of a handshake.
THEOREM NoLeaks == Spec => OrphanedOnlyByRejection
<1>1. ASSUME IInv, [Next]_vars
      PROVE  [\A p \in Peers :
                (Orphans(p))' \subseteq Orphans(p)
                  \/ \E i \in Indices : RejectIngressHandshakeResp(p, i)]_vars
  <2>1. CASE Tick \/ InterfaceStep \/ UNCHANGED vars
    <3>1. sessions' = sessions /\ index_map' = index_map
      BY <2>1, Zenon DEF InterfaceStep, Tick, NewPrivateKey, ClearPrivateKey, NewListenPort,
                  UpdateEndpoint, vars, peerVars
    <3> QED BY <3>1, Zenon DEF Orphans, Slots
  <2>2. CASE TimerStep
    BY <1>1, <2>2, TidyTimerStep, Zenon DEF NoNewOrphans
  <2>3. ASSUME NEW p \in Peers, PeerStep(p)
        PROVE  \/ NoNewOrphans
               \/ /\ \E i \in Indices : RejectIngressHandshakeResp(p, i)
                  /\ \A q \in Peers \ {p} : (Orphans(q))' \subseteq Orphans(q)
    <3>1. ASSUME NEW i \in Indices, RejectIngressHandshakeResp(p, i), NEW q \in Peers \ {p}
          PROVE  (Orphans(q))' \subseteq Orphans(q)
      <4>1. sessions'[q] = sessions[q] /\ index_map' = index_map
        BY <1>1, <3>1, Zenon DEF RejectIngressHandshakeResp, commit, IInv, TypeOK
      <4> QED BY <4>1, Zenon DEF Orphans, Slots
    <3> QED BY <1>1, <2>3, <3>1, TidyPeerStep, Zenon
  <2> QED BY <1>1, <2>1, <2>2, <2>3, Zenon DEF Next, NoNewOrphans
<1>2. IInv /\ [Next]_vars =>
        [\A p \in Peers :
           (Orphans(p))' \subseteq Orphans(p)
             \/ \E i \in Indices : RejectIngressHandshakeResp(p, i)]_vars
  BY <1>1, Zenon
<1> QED BY <1>2, Invariance, PTL DEF Spec, OrphanedOnlyByRejection

=============================================================================
