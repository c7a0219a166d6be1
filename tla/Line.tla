-------------------------------- MODULE Line --------------------------------
(***************************************************************************)
(* Two devices of this implementation, l and r, with a usable session      *)
(* between them and no persistent keepalive: what their passive keepalive  *)
(* timers do to each other.  Packets of one direction arrive in order; the *)
(* two directions are independent, so packets may cross.                   *)
(***************************************************************************)
EXTENDS Option, Integers, Sequences, FiniteSets

CONSTANTS
  KEEPALIVE_TIMEOUT, TIMER_SLACK, Tasks,
  MaxInFlight              \* bound: packets on their way in one direction

VARIABLES
  keepalive, current,      \* the same on both sides, and never changed here
  l_recv_age, l_sent_last, l_traversed_age, l_keepalive_sent,
  l_delays, l_persistent_timer, l_channel, l_sent, l_failed,
  r_recv_age, r_sent_last, r_traversed_age, r_keepalive_sent,
  r_delays, r_persistent_timer, r_channel, r_sent, r_failed,
  toL, toR                 \* packets on their way: "data" or "keepalive"

lVars == <<l_recv_age, l_sent_last, l_traversed_age, l_keepalive_sent,
           l_delays, l_persistent_timer, l_channel, l_sent, l_failed>>
rVars == <<r_recv_age, r_sent_last, r_traversed_age, r_keepalive_sent,
           r_delays, r_persistent_timer, r_channel, r_sent, r_failed>>
vars == <<keepalive, current, lVars, rVars, toL, toR>>

L == INSTANCE Keepalive WITH
       Intervals <- {},
       recv_age <- l_recv_age, sent_last <- l_sent_last,
       traversed_age <- l_traversed_age, keepalive_sent <- l_keepalive_sent,
       delays <- l_delays, persistent_timer <- l_persistent_timer,
       channel <- l_channel, sent <- l_sent, failed <- l_failed

R == INSTANCE Keepalive WITH
       Intervals <- {},
       recv_age <- r_recv_age, sent_last <- r_sent_last,
       traversed_age <- r_traversed_age, keepalive_sent <- r_keepalive_sent,
       delays <- r_delays, persistent_timer <- r_persistent_timer,
       channel <- r_channel, sent <- r_sent, failed <- r_failed

\* l had a packet to send and has opened the session with it.
Init ==
  /\ L!InitWith("usable", NONE, "data") /\ R!InitWith("usable", NONE, "none")
  /\ toL = <<>> /\ toR = <<"data">>

-----------------------------------------------------------------------------
\* What a side has sent joins the packets on their way.
Carry(sent, way) == IF sent = "none" THEN way ELSE Append(way, sent)

\* A step of one side alone.
LStep(A) ==
  /\ Len(toR) < MaxInFlight
  /\ A
  /\ toR' = Carry(l_sent', toR)
  /\ UNCHANGED <<rVars, toL>>

RStep(A) ==
  /\ Len(toL) < MaxInFlight
  /\ A
  /\ toL' = Carry(r_sent', toL)
  /\ UNCHANGED <<lVars, toR>>

Tick == L!Tick /\ R!Tick /\ UNCHANGED <<toL, toR>>

\* The oldest packet of a direction arrives.
DeliverL ==
  /\ toL # <<>>
  /\ L!Ingress(Head(toL) = "data", "current", "none")
  /\ toL' = Tail(toL)
  /\ UNCHANGED <<rVars, toR>>

DeliverR ==
  /\ toR # <<>>
  /\ R!Ingress(Head(toR) = "data", "current", "none")
  /\ toR' = Tail(toR)
  /\ UNCHANGED <<lVars, toL>>

Lose ==
  /\ \/ toL # <<>> /\ toL' = Tail(toL) /\ UNCHANGED toR
     \/ toR # <<>> /\ toR' = Tail(toR) /\ UNCHANGED toL
  /\ UNCHANGED <<keepalive, current, lVars, rVars>>

Next ==
  \/ LStep(L!Egress) \/ RStep(R!Egress)
  \/ LStep(L!TimerStep) \/ RStep(R!TimerStep)
  \/ DeliverL \/ DeliverR \/ Lose
  \/ Tick

\* The clocks run, the timers of both sides run, and packets arrive or are lost.
Fairness ==
  /\ WF_vars(Tick)
  /\ WF_vars(LStep(L!TimerStep)) /\ WF_vars(RStep(R!TimerStep))
  /\ WF_vars(DeliverL) /\ WF_vars(DeliverR)

Spec == Init /\ [][Next]_vars /\ Fairness

-----------------------------------------------------------------------------
NoData == l_sent # "data" /\ r_sent # "data"
Silent == l_sent = "none" /\ r_sent = "none"

(***************************************************************************)
(* What tests/timers.sh expects: when no more data is sent, the passive    *)
(* keepalives come to an end as well and the line stays quiet.             *)
(***************************************************************************)
LineGoesQuiet == <>[]NoData => <>[]Silent

(***************************************************************************)
(* The line does go quiet when the last data packets of the two directions *)
(* have not crossed, that is when one side knows that its own was the last *)
(* one: the keepalive it receives is not answered by another keepalive.    *)
(***************************************************************************)
QuietUnlessCrossed == <>[](NoData /\ (l_sent_last \/ r_sent_last)) => <>[]Silent

=============================================================================
