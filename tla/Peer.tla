-------------------------------- MODULE Peer --------------------------------
(***************************************************************************)
(* One remote peer: the methods of src/peer.rs as operators on its state.  *)
(*                                                                         *)
(* A method that mutates `self` is an operator from the old state to the   *)
(* new one; a method that returns a Result is split into the condition     *)
(* under which it succeeds and the state it then leaves behind.  The state *)
(* of a peer is kept in the parts its struct has: `sessions` (the three    *)
(* slots) and `timers` (the timestamps and the attempt counter).           *)
(*                                                                         *)
(* Abstractions.  A noise session is reduced to whether its handshake is   *)
(* finished and to its sending nonce; a timestamp is the tick at which it  *)
(* was taken, or NONE for Timestamp::default().  Byte counters, cookies,   *)
(* packet bytes and the timestamps only the keepalive timers read          *)
(* (data_received, authenticated_traversed, keepalive_sent) are left out.  *)
(***************************************************************************)
EXTENDS Option, Integers

CONSTANTS
  Indices,                 \* the u32 session indices we choose from
  TheirIndices,            \* the indices the remote side chooses from
  REKEY_TIMEOUT, REKEY_AFTER_TIME, REKEY_AFTER_TIME_RECV,
  REJECT_AFTER_TIME, FOREVER,
  REKEY_AFTER_MESSAGES, REJECT_AFTER_MESSAGES,
  MAX_QUEUED_PACKETS, MAX_HANDSHAKE_ATTEMPTS

ASSUME PeerConstants ==
  /\ {REKEY_TIMEOUT, REKEY_AFTER_TIME, REKEY_AFTER_TIME_RECV, REJECT_AFTER_TIME,
      FOREVER, REKEY_AFTER_MESSAGES, REJECT_AFTER_MESSAGES, MAX_QUEUED_PACKETS,
      MAX_HANDSHAKE_ATTEMPTS} \subseteq Nat
  /\ REKEY_TIMEOUT < FOREVER /\ REJECT_AFTER_TIME < FOREVER
  /\ NONE \notin Nat /\ NONE \notin TheirIndices

\* A new session has nonces for a whole queue.
ASSUME QueueWithinNonces == MAX_QUEUED_PACKETS <= REJECT_AFTER_MESSAGES

Timestamp == Nat \cup {NONE}

\* Timestamp::elapsed: an unset timestamp is FOREVER old.
elapsed(ts, now) == IF ts = NONE THEN FOREVER ELSE now - ts

Session ==
  [our_index     : Indices,
   their_index   : TheirIndices \cup {NONE},
   finished      : BOOLEAN,          \* noise.is_handshake_finished()
   birthday      : Timestamp,
   sending_nonce : 0 .. REJECT_AFTER_MESSAGES]

ASSUME NoneIsNoSession == NONE \notin Session

Slot == Session \cup {NONE}

Sessions == [past : Slot, current : Slot, next : Slot]

Timers ==
  [data_sent : Timestamp, authenticated_received : Timestamp,
   handshake_completed : Timestamp, handshake_initialized : Timestamp,
   handshake_attempts : 0 .. MAX_HANDSHAKE_ATTEMPTS]

\* Peer::new: every slot empty, every timestamp unset.
NewSessions == [past |-> NONE, current |-> NONE, next |-> NONE]

NewTimers ==
  [data_sent |-> NONE, authenticated_received |-> NONE,
   handshake_completed |-> NONE, handshake_initialized |-> NONE,
   handshake_attempts |-> 0]

\* Session::new, for a handshake we initiate.
new_session(i) ==
  [our_index |-> i, their_index |-> NONE, finished |-> FALSE,
   birthday |-> NONE, sending_nonce |-> 0]

\* A session whose handshake is over, in transport mode since `now`.
transport_session(i, their, now) ==
  [our_index |-> i, their_index |-> their, finished |-> TRUE,
   birthday |-> now, sending_nonce |-> 0]

-----------------------------------------------------------------------------
(* Index bookkeeping *)

Holds(slot, i) == slot # NONE /\ slot.our_index = i

\* The set {our_index} of an occupied slot, as Option::map gives it.
IndexOf(slot) == IF slot = NONE THEN {} ELSE {slot.our_index}

\* find_session: which slot answers to the index; next first, past last.
find_session(s, i) ==
  IF Holds(s.next, i) THEN "next"
  ELSE IF Holds(s.current, i) THEN "current"
  ELSE IF Holds(s.past, i) THEN "past"
  ELSE "none"

\* The session that find_session returns, when it finds one.
session_of(s, i) ==
  IF Holds(s.next, i) THEN s.next ELSE IF Holds(s.current, i) THEN s.current ELSE s.past

get_mapped_indices(s) == IndexOf(s.past) \cup IndexOf(s.current) \cup IndexOf(s.next)

-----------------------------------------------------------------------------
(* Handshakes *)

\* A new `next` pushes a previous `next` into `past`, and kills `past` then.
replace_next(s, session) ==
  [s EXCEPT !.next = session,
            !.past = IF s.next = NONE THEN @ ELSE s.next]

\* Mutant: the replaced `next` is taken for the dead session.
dead_is_old_next(s) == IndexOf(s.next)


dead_of_replaced_next(s) == IF s.next = NONE THEN {} ELSE IndexOf(s.past)

initiate_new_session(s, i) == replace_next(s, new_session(i))

\* Mutant: an initiation with the newest timestamp is taken again.
not_older(timestamp, last) == last # NONE => timestamp >= last

\* The timestamp test of complete_incoming_handshake.
is_newer(timestamp, last) == last # NONE => timestamp > last

complete_incoming_handshake(s, i, their, now) ==
  replace_next(s, transport_session(i, their, now))

\* `next` is taken out before noise reads the response: a response that
\* noise rejects leaves the slot empty.
reject_handshake_response(s) == [s EXCEPT !.next = NONE]

\* Mutant: the new session keeps its unset birthday.
response_without_birthday(s, their, now) ==
  [past    |-> s.current,
   current |-> [s.next EXCEPT !.finished = TRUE, !.their_index = their],
   next    |-> NONE]

\* `next` becomes `current` in transport mode, `current` becomes `past`.
process_incoming_handshake_response(s, their, now) ==
  [past    |-> s.current,
   current |-> transport_session(s.next.our_index, their, now),
   next    |-> NONE]

\* The first transport packet on `next` confirms it.
confirm_next(s) == [past |-> s.current, current |-> s.next, next |-> NONE]

\* Mutant: one attempt more than the limit.
gave_up_late(t) == t.handshake_attempts > MAX_HANDSHAKE_ATTEMPTS
\* Mutant: the last attempt is not made.
gave_up_early(t) == t.handshake_attempts + 1 >= MAX_HANDSHAKE_ATTEMPTS


gave_up(t) == t.handshake_attempts >= MAX_HANDSHAKE_ATTEMPTS

needs_new_handshake(s, t, now, sending) ==
  IF s.next # NONE THEN gave_up(t)
  ELSE \/ s.current = NONE
       \/ sending  /\ elapsed(t.handshake_completed, now) > REKEY_AFTER_TIME
       \/ ~sending /\ elapsed(t.handshake_completed, now) > REKEY_AFTER_TIME_RECV
       \/ s.current.sending_nonce >= REKEY_AFTER_MESSAGES

-----------------------------------------------------------------------------
(* Transport *)

ready_for_transport(s, now) ==
  /\ s.current # NONE
  /\ elapsed(s.current.birthday, now) < REJECT_AFTER_TIME
  /\ s.current.sending_nonce < REJECT_AFTER_MESSAGES

\* The session tests of handle_incoming_transport.
accepts_transport(session, now) ==
  session.finished /\ elapsed(session.birthday, now) < REJECT_AFTER_TIME

\* How many packets handle_outgoing_transport still encrypts on `current`.
sendable(s, endpoint, now) ==
  IF ready_for_transport(s, now) /\ endpoint # NONE
  THEN REJECT_AFTER_MESSAGES - s.current.sending_nonce
  ELSE 0

\* Mutant: the nonce is written into the packet but not advanced.
nonce_not_advanced(s, n) == s

\* handle_outgoing_transport, n times: n nonces of `current` are used up.
handle_outgoing_transport(s, n) ==
  IF n = 0 THEN s ELSE [s EXCEPT !.current.sending_nonce = @ + n]

\* Mutant: one packet more than the queue takes.
has_room_for_one_more(queue) == queue <= MAX_QUEUED_PACKETS

\* queue_egress: queued packets wait for a session; a full queue drops.
has_room(queue) == queue < MAX_QUEUED_PACKETS
=============================================================================
