----------------------------- MODULE EgressQueue -----------------------------
(***************************************************************************)
(* What UdpChannel promises to the event loop that calls its `send`: the   *)
(* messages leave as datagrams of their own, in the order they were sent   *)
(* in, none left out and none twice, until the first failure.  From then   *)
(* on nothing leaves any more, and `send` says nothing about it.           *)
(***************************************************************************)
EXTENDS Sequences

CONSTANT Message

VARIABLES
  queue,                   \* messages accepted and not sent yet
  wire,                    \* the datagrams that have left
  open                     \* no failure yet

vars == <<queue, wire, open>>

Init == queue = <<>> /\ wire = <<>> /\ open = TRUE

Accept(m) ==
  /\ open
  /\ queue' = Append(queue, m)
  /\ UNCHANGED <<wire, open>>

Transmit ==
  /\ open /\ queue # <<>>
  /\ wire' = Append(wire, Head(queue))
  /\ queue' = Tail(queue)
  /\ UNCHANGED open

Fail ==
  /\ open
  /\ open' = FALSE
  /\ queue' = <<>>
  /\ UNCHANGED wire

Next == (\E m \in Message : Accept(m)) \/ Transmit \/ Fail

Spec == Init /\ [][Next]_vars
=============================================================================
