---------------------------- MODULE ReplayWindow ----------------------------
(***************************************************************************)
(* What a receiver of numbered packets is promised by an anti-replay       *)
(* window of the given size: a number is accepted exactly when it has not  *)
(* been accepted before and is not too far behind the largest one that     *)
(* has.  Nothing is forgotten here; AntiReplay keeps a ring of bits.       *)
(***************************************************************************)
EXTENDS Integers

CONSTANTS
  Window,                  \* how far behind the largest number one may be
  MaxSeq                   \* the largest number (u64::MAX)

VARIABLES
  last,                    \* the largest number accepted, or 0
  accepted,                \* every number accepted so far
  answer                   \* the last question and its answer

Fresh(seq) == seq > last \/ (last - seq <= Window /\ seq \notin accepted)

Init ==
  /\ last = 0
  /\ accepted = {}
  /\ answer = [seq |-> 0, ok |-> FALSE]

Ask(seq) ==
  /\ answer' = [seq |-> seq, ok |-> Fresh(seq)]
  /\ accepted' = IF Fresh(seq) THEN accepted \cup {seq} ELSE accepted
  /\ last' = IF seq > last THEN seq ELSE last

Next == \E seq \in 0 .. MaxSeq : Ask(seq)

vars == <<last, accepted, answer>>

Spec == Init /\ [][Next]_vars
=============================================================================
