----------------------------- MODULE AntiReplay -----------------------------
(***************************************************************************)
(* The anti-replay window of a session (src/anti_replay.rs, RFC 6479): a   *)
(* ring of BITMAP_LEN words of SIZE_OF_INTEGER bits.  A word is the set of *)
(* its bits that are one.  `x & (n - 1)` and `x >> log2 n`, for n a power  *)
(* of two, are x % n and x \div n.                                         *)
(*                                                                         *)
(* `accepted` and `answer` are history: what update has said so far.       *)
(***************************************************************************)
EXTENDS Integers

CONSTANTS
  SIZE_OF_INTEGER,         \* bits of a word
  BITMAP_LEN,              \* words of the ring
  MaxSeq                   \* bound: the largest sequence number

ASSUME AntiReplayConstants ==
  /\ SIZE_OF_INTEGER \in Nat \ {0}
  /\ BITMAP_LEN \in Nat \ {0}
  /\ MaxSeq \in Nat

WINDOW_SIZE == SIZE_OF_INTEGER * BITMAP_LEN - SIZE_OF_INTEGER

VARIABLES bitmap, last, accepted, answer

vars == <<bitmap, last, accepted, answer>>

Words == 0 .. BITMAP_LEN - 1
Bits  == 0 .. SIZE_OF_INTEGER - 1
Seqs  == 0 .. MaxSeq

Word(seq)         == seq \div SIZE_OF_INTEGER
index(seq)        == Word(seq) % BITMAP_LEN
bit_location(seq) == seq % SIZE_OF_INTEGER

BitSet(seq) == bit_location(seq) \in bitmap[index(seq)]

Init ==
  /\ bitmap = [w \in Words |-> {}]
  /\ last = 0
  /\ accepted = {}
  /\ answer = [seq |-> 0, ok |-> FALSE]

\* Mutant: the window is taken to be the whole ring.
check_whole_ring(seq) ==
  seq > last \/ (last - seq <= SIZE_OF_INTEGER * BITMAP_LEN /\ ~BitSet(seq))


check(seq) == seq > last \/ (last - seq <= WINDOW_SIZE /\ ~BitSet(seq))

\* Mutant: the word that the window leaves first is kept.
cleared_one_short(seq) ==
  LET diff == Word(seq) - Word(last)
  IN  IF diff >= BITMAP_LEN THEN Words
      ELSE {(Word(last) + i) % BITMAP_LEN : i \in 0 .. diff - 1}

\* The words that the window leaves behind as it moves up to seq.
cleared(seq) ==
  LET diff == Word(seq) - Word(last)
  IN  IF seq <= last THEN {}
      ELSE IF diff >= BITMAP_LEN THEN Words
      ELSE {(Word(last) + i + 1) % BITMAP_LEN : i \in 0 .. diff - 1}

update_store(seq) ==
  /\ bitmap' = [w \in Words |->
                  (IF w \in cleared(seq) THEN {} ELSE bitmap[w])
                    \cup (IF w = index(seq) THEN {bit_location(seq)} ELSE {})]
  /\ last' = IF seq > last THEN seq ELSE last

update(seq) ==
  /\ answer' = [seq |-> seq, ok |-> check(seq)]
  /\ \/ check(seq) /\ update_store(seq) /\ accepted' = accepted \cup {seq}
     \/ ~check(seq) /\ UNCHANGED <<bitmap, last, accepted>>

Next == \E seq \in Seqs : update(seq)

Spec == Init /\ [][Next]_vars

-----------------------------------------------------------------------------
\* Every field holds a value of its Rust type, and the history fits it.
TypeOK ==
  /\ bitmap \in [Words -> SUBSET Bits]
  /\ last \in Seqs
  /\ accepted \subseteq 0 .. last
  /\ answer \in [seq : Seqs, ok : BOOLEAN]

\* Within the window the ring remembers exactly what update accepted: a word
\* that the window enters again holds no bit of its earlier use, and no bit of
\* its present use is lost.
WindowExact ==
  \A seq \in Seqs :
    seq <= last /\ last - seq <= WINDOW_SIZE => (BitSet(seq) <=> seq \in accepted)

Abstract == INSTANCE ReplayWindow WITH Window <- WINDOW_SIZE

\* update answers every question as a window that forgets nothing would: no
\* number is accepted twice, however the window has moved in between, and none
\* that is new and within the window is refused.
ImplementsWindow == Abstract!Spec
=============================================================================
