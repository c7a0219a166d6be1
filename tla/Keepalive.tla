------------------------------ MODULE Keepalive ------------------------------
(***************************************************************************)
(* The two keepalive timers of one peer: the PassiveKeepAlive and          *)
(* PersistentKeepAlive arms of handle_timer, the NewPeer and               *)
(* NewPersistentKeepalive events that start and restart them               *)
(* (src/interface/peer_server.rs), and the timers of src/timer.rs they run *)
(* on.                                                                     *)
(*                                                                         *)
(* A timer is a delay task that, when its time is over and nobody has      *)
(* cancelled it by then, puts its message into a channel; the message is   *)
(* handled some time later, and the handler arms the next delay.  So a     *)
(* keepalive timer is a chain, and it ends when a handler returns early.   *)
(*                                                                         *)
(* Abstractions.  Time passes for ever, so ages are counted up to the      *)
(* value the code compares them with.  The comparison of data_sent with    *)
(* data_received is kept as which of the two is the younger.  A session is *)
(* reduced to what the timers see of it: whether there is a current one    *)
(* and whether a packet can be encrypted and handed to a socket.           *)
(***************************************************************************)
EXTENDS Option, Integers, Sequences, FiniteSets

CONSTANTS
  KEEPALIVE_TIMEOUT,
  Intervals,               \* the intervals > 0 that may be configured
  TIMER_SLACK,             \* what Timer::send_after adds: 2 * TIMER_RESOLUTION
  Tasks                    \* bound: the delay tasks that may run at once

Greatest(S) == CHOOSE n \in S : \A m \in S : m <= n

\* The age from which authenticated_traversed makes no difference any more.
MaxAge == Greatest(Intervals \cup {0})

Chains == {"passive", "persistent"}

Delay == [chain : Chains, left : 0 .. KEEPALIVE_TIMEOUT + MaxAge + TIMER_SLACK,
          canceled : BOOLEAN]

ASSUME KeepaliveConstants ==
  /\ KEEPALIVE_TIMEOUT \in Nat \ {0} /\ TIMER_SLACK \in Nat
  /\ Intervals \subseteq Nat \ {0} /\ IsFiniteSet(Intervals)
  /\ NONE \notin Nat /\ NONE \notin Tasks /\ NONE \notin Delay
  /\ IsFiniteSet(Tasks) /\ Cardinality(Tasks) >= 2

VARIABLES
  keepalive,               \* peer.info.keepalive
  current,                 \* the current session: "none", "usable" or "expired"
  recv_age,                \* data_received.elapsed(), NONE while it is unset
  sent_last,               \* data_sent is younger than data_received
  traversed_age,           \* authenticated_traversed.elapsed()
  keepalive_sent,          \* timers.keepalive_sent
  delays,                  \* the delay tasks that have not ended
  persistent_timer,        \* the task timers.persistent_timer can still cancel
  channel,                 \* timer messages that wait to be handled
  sent,                    \* what the last step handed to the socket
  failed                   \* the chains that a failed send has ended (history)

vars == <<keepalive, current, recv_age, sent_last, traversed_age, keepalive_sent,
          delays, persistent_timer, channel, sent, failed>>

timestamps == <<recv_age, sent_last, traversed_age>>
timerTasks == <<delays, persistent_timer, channel>>

\* An age one tick later; the code compares it with nothing above limit.
Older(age, limit) == IF age = NONE \/ age = limit THEN age ELSE age + 1

-----------------------------------------------------------------------------
(* src/timer.rs *)

\* The task the next delay runs as.
NewTask(tasks) == CHOOSE t \in Tasks : tasks[t] = NONE

\* Timer::send_after.
send_after(tasks, chain, delay) ==
  [tasks EXCEPT ![NewTask(tasks)] =
     [chain |-> chain, left |-> delay + TIMER_SLACK, canceled |-> FALSE]]

\* TimerHandle::cancel: it sets a flag that the task reads when its delay is over.
cancel(tasks, handle) ==
  IF handle = NONE THEN tasks ELSE [tasks EXCEPT ![handle].canceled = TRUE]

\* The end of a delay; from here on its handle cancels nothing.
EndDelay(t) ==
  /\ delays[t] # NONE /\ delays[t].left = 0
  /\ channel' = IF delays[t].canceled THEN channel ELSE Append(channel, delays[t].chain)
  /\ delays' = [delays EXCEPT ![t] = NONE]
  /\ persistent_timer' = IF persistent_timer = t THEN NONE ELSE persistent_timer
  /\ sent' = "none"
  /\ UNCHANGED <<keepalive, current, timestamps, keepalive_sent, failed>>

Tick ==
  /\ recv_age' = Older(recv_age, KEEPALIVE_TIMEOUT)
  /\ traversed_age' = Older(traversed_age, MaxAge)
  /\ delays' = [t \in Tasks |->
                  IF delays[t] = NONE \/ delays[t].left = 0 THEN delays[t]
                  ELSE [delays[t] EXCEPT !.left = @ - 1]]
  /\ sent' = "none"
  /\ UNCHANGED <<keepalive, current, sent_last, keepalive_sent, persistent_timer, channel, failed>>

-----------------------------------------------------------------------------
\* PeerInfo::persistent_keepalive: Some(0) counts as unset.
persistent_keepalive(k) == k \notin {NONE, 0}

\* The NewPeer event of a peer configured with interval k; `first` is what the
\* session, if there already is one, has been opened with.
InitWith(session, k, first) ==
  /\ keepalive = k
  /\ current = session
  /\ recv_age = NONE
  /\ sent_last = (first = "data")
  /\ traversed_age = IF first = "none" THEN MaxAge ELSE 0
  /\ keepalive_sent = FALSE
  /\ LET passive == send_after([t \in Tasks |-> NONE], "passive", KEEPALIVE_TIMEOUT)
     IN  IF persistent_keepalive(k)
         THEN /\ delays = send_after(passive, "persistent", k)
              /\ persistent_timer = NewTask(passive)
         ELSE /\ delays = passive
              /\ persistent_timer = NONE
  /\ channel = <<>>
  /\ sent = first
  /\ failed = {}

Init == \E k \in Intervals \cup {NONE, 0} : InitWith("none", k, "none")

-----------------------------------------------------------------------------
(***************************************************************************)
(* handle_outgoing_transport followed by send_to_peer, for an empty packet *)
(* (a keepalive) or one with data.  Either fails without a session that is *)
(* young enough and below the nonce limit, or without a socket; then the   *)
(* handler returns, and the chain it serves has come to its end.           *)
(***************************************************************************)
CanSend == current = "usable"

Send(what) ==
  /\ sent' = what
  /\ traversed_age' = 0
  /\ sent_last' = (what = "data" \/ sent_last)
  /\ UNCHANGED recv_age

SendNothing == sent' = "none" /\ UNCHANGED timestamps

-----------------------------------------------------------------------------
(* handle_timer *)

Handling(chain) ==
  /\ channel # <<>> /\ Head(channel) = chain
  /\ channel' = Tail(channel)

rearm_passive(delay) ==
  /\ delays' = send_after(delays, "passive", delay)
  /\ UNCHANGED persistent_timer

rearm_persistent(tasks, delay) ==
  /\ delays' = send_after(tasks, "persistent", delay)
  /\ persistent_timer' = NewTask(tasks)

\* data_received.elapsed() < KEEPALIVE_TIMEOUT
ReceivedLately == recv_age # NONE /\ recv_age < KEEPALIVE_TIMEOUT

\* Mutant: data_sent and data_received swapped.
PassiveSkipsSwapped ==
  \/ current = "none"
  \/ keepalive # NONE
  \/ keepalive_sent
  \/ ~sent_last

PassiveSkips ==
  \/ current = "none"
  \/ keepalive # NONE
  \/ keepalive_sent
  \/ sent_last

\* Mutant: a tick that comes too early after data does not ask for another one.
HandlePassiveOnce ==
  /\ Handling("passive")
  /\ \/ /\ PassiveSkips
        /\ rearm_passive(KEEPALIVE_TIMEOUT)
        /\ SendNothing
        /\ UNCHANGED <<keepalive_sent, failed>>
     \/ /\ ~PassiveSkips /\ ReceivedLately
        /\ SendNothing
        /\ UNCHANGED <<delays, persistent_timer, keepalive_sent, failed>>
  /\ UNCHANGED <<keepalive, current>>

HandlePassiveKeepAlive ==
  /\ Handling("passive")
  /\ \/ /\ PassiveSkips
        /\ rearm_passive(KEEPALIVE_TIMEOUT)
        /\ SendNothing
        /\ UNCHANGED <<keepalive_sent, failed>>
     \/ /\ ~PassiveSkips /\ ReceivedLately
        /\ rearm_passive(KEEPALIVE_TIMEOUT - recv_age)
        /\ SendNothing
        /\ UNCHANGED <<keepalive_sent, failed>>
     \/ /\ ~PassiveSkips /\ ~ReceivedLately
        /\ keepalive_sent' = TRUE
        /\ IF CanSend
           THEN /\ Send("keepalive")
                /\ rearm_passive(KEEPALIVE_TIMEOUT)
                /\ UNCHANGED failed
           ELSE /\ SendNothing
                /\ failed' = failed \cup {"passive"}
                /\ UNCHANGED <<delays, persistent_timer>>
  /\ UNCHANGED <<keepalive, current>>

\* Mutant: the persistent keepalive waits for the token of the passive one.
HandlePersistentToken ==
  /\ Handling("persistent")
  /\ persistent_keepalive(keepalive)
  /\ rearm_persistent(delays, keepalive)
  /\ IF CanSend /\ ~keepalive_sent
     THEN Send("keepalive") /\ keepalive_sent' = TRUE
     ELSE SendNothing /\ UNCHANGED keepalive_sent
  /\ UNCHANGED <<failed, keepalive, current>>

HandlePersistentKeepAlive ==
  /\ Handling("persistent")
  /\ \/ /\ persistent_keepalive(keepalive) /\ traversed_age < keepalive
        /\ rearm_persistent(delays, keepalive - traversed_age)
        /\ SendNothing
        /\ UNCHANGED failed
     \/ /\ persistent_keepalive(keepalive) /\ traversed_age >= keepalive
        /\ IF CanSend
           THEN /\ Send("keepalive")
                /\ rearm_persistent(delays, keepalive)
                /\ UNCHANGED failed
           ELSE /\ SendNothing
                /\ failed' = failed \cup {"persistent"}
                /\ UNCHANGED <<delays, persistent_timer>>
     \/ /\ ~persistent_keepalive(keepalive)
        /\ SendNothing
        /\ UNCHANGED <<delays, persistent_timer, failed>>
  /\ UNCHANGED <<keepalive, current, keepalive_sent>>

-----------------------------------------------------------------------------
(***************************************************************************)
(* UpdatePeer with an interval, and the NewPersistentKeepalive event it    *)
(* causes when the interval is another one.  The event is handled in the   *)
(* poll after the update, before any timer message; the new timer is armed *)
(* before the keepalive is tried, so a failing send does not end it.       *)
(***************************************************************************)
Pending == {t \in Tasks : delays[t] # NONE}

\* Mutant: the timer is cancelled after the new one has been armed.
UpdateThenCancel(k) ==
  /\ k # keepalive
  /\ Cardinality(Pending) + Len(channel) < Cardinality(Tasks)
  /\ persistent_keepalive(k)
  /\ keepalive' = k
  /\ failed' = failed \ {"persistent"}
  /\ LET armed == send_after(delays, "persistent", k)
     IN  /\ delays' = cancel(armed, NewTask(delays))
         /\ persistent_timer' = NewTask(delays)
  /\ SendNothing
  /\ UNCHANGED <<current, keepalive_sent, channel>>

UpdateKeepalive(k) ==
  /\ k # keepalive
  /\ Cardinality(Pending) + Len(channel) < Cardinality(Tasks)
  /\ keepalive' = k
  /\ failed' = failed \ {"persistent"}
  /\ IF persistent_keepalive(k)
     THEN /\ rearm_persistent(cancel(delays, persistent_timer), k)
          /\ IF CanSend THEN Send("keepalive") ELSE SendNothing
     ELSE /\ delays' = cancel(delays, persistent_timer)
          /\ SendNothing
          /\ UNCHANGED persistent_timer
  /\ UNCHANGED <<current, keepalive_sent, channel>>

-----------------------------------------------------------------------------
(* Traffic and the life of the session, as far as the timers see them *)

\* handle_egress_packet on a usable session.
Egress ==
  /\ CanSend
  /\ Send("data")
  /\ UNCHANGED <<keepalive, current, keepalive_sent, timerTasks, failed>>

\* handle_incoming_transport: an authentic packet, empty or with data, on the
\* current session or on the next one, which it makes the current one; then
\* handle_ingress_transport sends the packets that were queued, if there are any.
Ingress(data, session, flushed) ==
  /\ \/ session = "next"
     \/ current # "none" /\ flushed = "none"
  /\ current' = IF session = "next" THEN "usable" ELSE current
  /\ recv_age' = IF data THEN 0 ELSE recv_age
  /\ sent_last' = (flushed = "data" \/ (sent_last /\ ~data))
  /\ traversed_age' = 0
  /\ keepalive_sent' = FALSE
  /\ sent' = flushed
  /\ UNCHANGED <<keepalive, timerTasks, failed>>

\* handle_ingress_handshake_resp: a new current session, and the queued packets
\* or an empty one on it; or the socket is gone.
SessionUp(what) ==
  /\ current' = IF what = "none" THEN "expired" ELSE "usable"
  /\ IF what = "none"
     THEN sent' = "none" /\ traversed_age' = 0 /\ UNCHANGED <<recv_age, sent_last>>
     ELSE Send(what)
  /\ UNCHANGED <<keepalive, keepalive_sent, timerTasks, failed>>

\* complete_incoming_handshake: authenticated, but no new current session yet.
HandshakeInit ==
  /\ traversed_age' = 0
  /\ sent' = "none"
  /\ UNCHANGED <<keepalive, current, recv_age, sent_last, keepalive_sent, timerTasks, failed>>

\* The session grows too old or the socket is lost; a socket comes back; the
\* Wipe timer empties the slots.
SessionDown(c) ==
  /\ <<current, c>> \in {<<"usable", "expired">>, <<"expired", "usable">>, <<"expired", "none">>}
  /\ current' = c
  /\ SendNothing
  /\ UNCHANGED <<keepalive, keepalive_sent, timerTasks, failed>>

-----------------------------------------------------------------------------
Environment ==
  \/ Egress
  \/ \E data \in BOOLEAN, session \in {"current", "next"}, flushed \in {"none", "data"} :
       Ingress(data, session, flushed)
  \/ \E what \in {"data", "keepalive", "none"} : SessionUp(what)
  \/ HandshakeInit
  \/ \E c \in {"usable", "expired", "none"} : SessionDown(c)
  \/ \E k \in Intervals \cup {0} : UpdateKeepalive(k)

TimerStep ==
  \/ \E t \in Tasks : EndDelay(t)
  \/ HandlePassiveKeepAlive
  \/ HandlePersistentKeepAlive

Next == Environment \/ TimerStep \/ Tick

\* The clock runs, a delay that is over ends, and the reactor handles the
\* messages of the channel.
Fairness ==
  /\ WF_vars(Tick)
  /\ \A t \in Tasks : WF_vars(EndDelay(t))
  /\ WF_vars(HandlePassiveKeepAlive)
  /\ WF_vars(HandlePersistentKeepAlive)

Spec == Init /\ [][Next]_vars

FairSpec == Spec /\ Fairness

-----------------------------------------------------------------------------
TypeOK ==
  /\ keepalive \in Intervals \cup {NONE, 0}
  /\ current \in {"none", "usable", "expired"}
  /\ recv_age \in 0 .. KEEPALIVE_TIMEOUT \cup {NONE}
  /\ traversed_age \in 0 .. MaxAge
  /\ sent_last \in BOOLEAN /\ keepalive_sent \in BOOLEAN
  /\ delays \in [Tasks -> Delay \cup {NONE}]
  /\ persistent_timer \in Tasks \cup {NONE}
  /\ channel \in Seq(Chains)
  /\ sent \in {"none", "data", "keepalive"}
  /\ failed \subseteq Chains

\* The messages of a chain that will still be handled.
Alive(chain) ==
  Cardinality({t \in Pending : delays[t].chain = chain /\ ~delays[t].canceled})
    + Cardinality({n \in 1 .. Len(channel) : channel[n] = chain})

(***************************************************************************)
(* The passive timer is one chain: exactly one message is under way from   *)
(* the moment the peer is configured, and none once a send has failed.     *)
(***************************************************************************)
OnePassiveChain == Alive("passive") = IF "passive" \in failed THEN 0 ELSE 1

(***************************************************************************)
(* A configured interval has a timer under way unless a send has failed    *)
(* since it was configured: a cancelled timer, and a message of the old    *)
(* interval that was already in the channel, never take the new one away.  *)
(***************************************************************************)
PersistentChainAlive ==
  persistent_keepalive(keepalive) /\ "persistent" \notin failed => Alive("persistent") >= 1

(***************************************************************************)
(* Liveness: while an interval is configured, the session is usable and no *)
(* send has failed, the session never falls silent: again and again an     *)
(* authenticated packet traverses it, whatever the remote side does.       *)
(***************************************************************************)
KeptAlive ==
  <>[](persistent_keepalive(keepalive) /\ CanSend /\ "persistent" \notin failed)
    => []<>(traversed_age = 0)

\* Data was received, nothing has been sent in answer, and the timeout is over.
Overdue ==
  /\ CanSend /\ keepalive = NONE /\ "passive" \notin failed
  /\ recv_age = KEEPALIVE_TIMEOUT /\ ~sent_last /\ ~keepalive_sent

(***************************************************************************)
(* Liveness: data that nobody answers is answered by a passive keepalive   *)
(* once the timeout is over, unless the session, the configuration or the  *)
(* traffic changes first.                                                  *)
(***************************************************************************)
PassiveAnswered == Overdue ~> ~Overdue

(***************************************************************************)
(* What tests/netns.sh relies on: as long as the session is usable, the    *)
(* configured interval keeps packets coming.                               *)
(***************************************************************************)
IntervalKept ==
  <>[](persistent_keepalive(keepalive) /\ CanSend) => []<>(traversed_age = 0)

=============================================================================
