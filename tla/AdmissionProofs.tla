-------------------------- MODULE AdmissionProofs --------------------------
(***************************************************************************)
(* Proofs about what stands between a datagram and its handler: AntiReplay *)
(* for transport packets and, for handshake messages while the device is   *)
(* under load, RateLimiter and Cookie.  They share nothing.                *)
(***************************************************************************)
EXTENDS AntiReplay, RateLimiter, Cookie, TLAPS

-----------------------------------------------------------------------------
(***************************************************************************)
(* AntiReplay implements ReplayWindow, for every word size and every       *)
(* length of the ring.  WindowExact speaks of the window only; the         *)
(* inductive invariant RingExact speaks of all the numbers whose words are *)
(* in the ring, the ones the window has just left and the ones it has not  *)
(* reached included, because those words are still, or already, in use.    *)
(***************************************************************************)

\* Division with remainder.
LEMMA DivMod ==
  ASSUME NEW n \in Nat, NEW k \in Nat \ {0}
  PROVE  /\ n \div k \in Nat
         /\ n % k \in 0 .. k - 1
         /\ n = k * (n \div k) + (n % k)
OBVIOUS

\* Quotient and remainder determine the number.
LEMMA DivModUnique ==
  ASSUME NEW m \in Nat, NEW n \in Nat, NEW k \in Nat \ {0},
         m \div k = n \div k, m % k = n % k
  PROVE  m = n
BY DivMod, Zenon

\* Division is monotonic.
LEMMA DivMonotonic ==
  ASSUME NEW m \in Nat, NEW n \in Nat, NEW k \in Nat \ {0}, m <= n
  PROVE  m \div k <= n \div k
BY DivMod

\* Numbers less than k apart with the same remainder are equal
LEMMA ModInjective ==
  ASSUME NEW m \in Nat, NEW n \in Nat, NEW k \in Nat \ {0},
         m <= n, n - m < k, m % k = n % k
  PROVE  m = n
<1> DEFINE a == m \div k
           b == n \div k
           r == n % k
<1>1. a \in Nat /\ b \in Nat /\ r \in Nat /\ m = k * a + r /\ n = k * b + r
  <2>1. a \in Nat /\ m = k * a + (m % k)
    BY DivMod, Zenon
  <2>2. b \in Nat /\ r \in 0 .. k - 1 /\ n = k * b + r
    BY DivMod, Zenon
  <2> QED BY <2>1, <2>2
<1>2. a <= b
  BY DivMonotonic
<1> HIDE DEF a, b, r
<1>3. n - m = k * (b - a)
  BY <1>1
<1>4. b - a \in Nat
  BY <1>1, <1>2
<1>5. CASE b - a >= 1
  <2>1. k * (b - a) >= k
    BY <1>4, <1>5
  <2> QED BY <1>3, <2>1
<1>6. CASE b - a = 0
  BY <1>1, <1>4, <1>6
<1> QED BY <1>4, <1>5, <1>6

-----------------------------------------------------------------------------
\* The word of x is in the ring when the largest number is `top`.
InRing(x, top) == Word(x) <= Word(top) /\ Word(top) - Word(x) < BITMAP_LEN

RingExact == \A x \in Seqs : InRing(x, last) => (BitSet(x) <=> x \in accepted)

IInv == TypeOK /\ RingExact

\* A number has a word, and a place in the ring.
LEMMA PlaceType ==
  ASSUME NEW x \in Nat
  PROVE  Word(x) \in Nat /\ index(x) \in Words /\ bit_location(x) \in Bits
<1>1. Word(x) \in Nat /\ bit_location(x) \in Bits
  BY AntiReplayConstants, DivMod, Zenon DEF Word, bit_location, Bits
<1>2. index(x) \in Words
  BY <1>1, AntiReplayConstants, DivMod, Zenon DEF index, Words
<1> QED BY <1>1, <1>2

\* Two numbers of the ring never share a bit.
LEMMA SameBit ==
  ASSUME NEW x \in Nat, NEW y \in Nat, NEW top \in Nat, InRing(x, top), InRing(y, top),
         index(x) = index(y), bit_location(x) = bit_location(y)
  PROVE  x = y
<1>1. Word(x) \in Nat /\ Word(y) \in Nat /\ Word(top) \in Nat
  BY PlaceType
<1>2. Word(x) = Word(y)
  <2>1. \A a, b \in Nat : a <= b /\ b - a < BITMAP_LEN /\ a % BITMAP_LEN = b % BITMAP_LEN => a = b
    BY AntiReplayConstants, ModInjective, Zenon
  <2>2. Word(x) % BITMAP_LEN = Word(y) % BITMAP_LEN
    BY DEF index
  <2>3. Word(y) - Word(x) < BITMAP_LEN /\ Word(x) - Word(y) < BITMAP_LEN
    BY <1>1, AntiReplayConstants DEF InRing
  <2>4. CASE Word(x) <= Word(y)
    BY <1>1, <2>1, <2>2, <2>3, <2>4
  <2>5. CASE Word(y) <= Word(x)
    BY <1>1, <2>1, <2>2, <2>3, <2>5
  <2> QED BY <1>1, <2>4, <2>5
<1> QED BY <1>2, AntiReplayConstants, DivModUnique, Zenon DEF Word, bit_location

\* The window lies within the ring.
LEMMA WindowInRing ==
  ASSUME NEW x \in Nat, NEW top \in Nat, x <= top, top - x <= WINDOW_SIZE
  PROVE  InRing(x, top)
<1> DEFINE S == SIZE_OF_INTEGER
           a == Word(x)
           b == Word(top)
<1>1. a \in Nat /\ b \in Nat /\ S \in Nat \ {0} /\ BITMAP_LEN \in Nat
  BY PlaceType, AntiReplayConstants
<1>2. a <= b
  BY AntiReplayConstants, DivMonotonic DEF Word
<1>3. PICK r \in 0 .. S - 1 : x = S * a + r
  BY AntiReplayConstants, DivMod, Zenon DEF Word
<1>4. PICK q \in 0 .. S - 1 : top = S * b + q
  BY AntiReplayConstants, DivMod, Zenon DEF Word
<1> HIDE DEF a, b, S
<1>5. S * b - S * a < S * BITMAP_LEN
  <2>1. top - x <= S * BITMAP_LEN - S
    BY DEF WINDOW_SIZE, S
  <2>2. S * b \in Nat /\ S * a \in Nat /\ S * BITMAP_LEN \in Nat
    BY <1>1
  <2> QED BY <1>1, <1>3, <1>4, <2>1, <2>2
<1>6. b - a < BITMAP_LEN
  <2> SUFFICES ASSUME b - a >= BITMAP_LEN
               PROVE  FALSE
    BY <1>1
  <2>1. S * (b - a) >= S * BITMAP_LEN
    BY <1>1, <1>2
  <2>2. S * (b - a) = S * b - S * a
    BY <1>1
  <2> QED BY <1>1, <1>5, <2>1, <2>2
<1> QED BY <1>2, <1>6 DEF InRing, a, b

\* RingExact is WindowExact, and more.
LEMMA RingGivesWindow ==
  ASSUME IInv
  PROVE  WindowExact
<1> SUFFICES ASSUME NEW x \in Seqs, x <= last, last - x <= WINDOW_SIZE
             PROVE  BitSet(x) <=> x \in accepted
  BY DEF WindowExact
<1>1. x \in Nat /\ last \in Nat
  BY AntiReplayConstants DEF IInv, TypeOK, Seqs
<1> QED BY <1>1, WindowInRing DEF IInv, RingExact

\* check answers as a window that forgets nothing would.
LEMMA CheckIsFresh ==
  ASSUME IInv, NEW seq \in Seqs
  PROVE  check(seq) <=> Abstract!Fresh(seq)
<1>1. seq \in Int /\ last \in Int
  BY AntiReplayConstants DEF IInv, TypeOK, Seqs
<1>2. CASE seq > last
  BY <1>2 DEF check, Abstract!Fresh
<1>3. CASE seq <= last
  BY <1>1, <1>3, RingGivesWindow DEF WindowExact, check, Abstract!Fresh
<1> QED BY <1>1, <1>2, <1>3

-----------------------------------------------------------------------------
\* The words cleared on the way up to seq are exactly the ones of the new ring
\* that were not in the old one.
LEMMA ClearedAreNew ==
  ASSUME NEW seq \in Nat, NEW x \in Nat, last \in Nat, InRing(x, seq), last < seq
  PROVE  index(x) \in cleared(seq) <=> ~InRing(x, last)
<1> DEFINE diff == Word(seq) - Word(last)
<1>1. /\ Word(x) \in Nat /\ Word(seq) \in Nat /\ Word(last) \in Nat
      /\ BITMAP_LEN \in Nat \ {0} /\ index(x) \in Words
  BY PlaceType, AntiReplayConstants
<1>2. Word(last) <= Word(seq)
  BY AntiReplayConstants, DivMonotonic DEF Word
<1>3. InRing(x, last) <=> Word(x) <= Word(last)
  BY <1>1, <1>2 DEF InRing
<1>4. CASE diff >= BITMAP_LEN
  <2>1. Word(x) > Word(last)
    BY <1>1, <1>4 DEF InRing
  <2>2. cleared(seq) = Words
    BY <1>4 DEF cleared
  <2> QED BY <1>1, <1>3, <2>1, <2>2
<1>5. CASE diff < BITMAP_LEN
  <2>1. cleared(seq) = {(Word(last) + i + 1) % BITMAP_LEN : i \in 0 .. diff - 1}
    BY <1>1, <1>5 DEF cleared
  <2>2. ASSUME Word(x) > Word(last)
        PROVE  index(x) \in cleared(seq)
    <3> DEFINE i == Word(x) - Word(last) - 1
    <3>1. i \in 0 .. diff - 1 /\ Word(last) + i + 1 = Word(x)
      BY <1>1, <2>2 DEF InRing
    <3> QED BY <2>1, <3>1 DEF index
  <2>3. ASSUME index(x) \in cleared(seq)
        PROVE  Word(x) > Word(last)
    <3>1. PICK i \in 0 .. diff - 1 : index(x) = (Word(last) + i + 1) % BITMAP_LEN
      BY <2>1, <2>3
    <3> DEFINE y == Word(last) + i + 1
    <3>2. /\ y \in Nat /\ y > Word(last) /\ y <= Word(seq)
          /\ Word(x) - y < BITMAP_LEN /\ y - Word(x) < BITMAP_LEN
      BY <1>1, <1>2, <1>5 DEF InRing
    <3>3. Word(x) % BITMAP_LEN = y % BITMAP_LEN
      BY <3>1 DEF index
    <3> HIDE DEF y
    <3>4. \A a, b \in Nat : a <= b /\ b - a < BITMAP_LEN /\ a % BITMAP_LEN = b % BITMAP_LEN => a = b
      BY <1>1, ModInjective, Zenon
    <3>5. Word(x) = y
      BY <1>1, <3>2, <3>3, <3>4
    <3> QED BY <3>2, <3>5
  <2> QED BY <1>1, <1>3, <2>2, <2>3
<1> QED BY <1>1, <1>4, <1>5

\* update_store keeps the ring exact.
LEMMA StoreExact ==
  ASSUME IInv, NEW seq \in Seqs, check(seq), update_store(seq), accepted' = accepted \cup {seq}
  PROVE  RingExact'
<1>1. /\ seq \in Nat /\ last \in Nat /\ last' \in Nat
      /\ accepted \subseteq 0 .. last /\ bitmap \in [Words -> SUBSET Bits]
  BY AntiReplayConstants DEF IInv, TypeOK, Seqs, update_store
<1> SUFFICES ASSUME NEW x \in Seqs, InRing(x, last')
             PROVE  BitSet(x)' <=> x \in accepted'
  BY DEF RingExact, InRing
<1>2. x \in Nat /\ index(x) \in Words
  BY PlaceType, AntiReplayConstants DEF Seqs
<1>3. InRing(seq, last')
  <2>1. CASE seq > last
    BY <1>1, <2>1, PlaceType, AntiReplayConstants DEF update_store, InRing
  <2>2. CASE seq <= last
    BY <1>1, <2>2, WindowInRing DEF update_store, check
  <2> QED BY <1>1, <2>1, <2>2
<1>4. BitSet(x)' <=> \/ index(x) \notin cleared(seq) /\ BitSet(x)
                     \/ x = seq
  <2>1. BitSet(x)' <=> \/ index(x) \notin cleared(seq) /\ BitSet(x)
                       \/ index(x) = index(seq) /\ bit_location(x) = bit_location(seq)
    BY <1>2 DEF BitSet, update_store
  <2> QED BY <1>1, <1>2, <1>3, <2>1, SameBit
<1>5. index(x) \notin cleared(seq) /\ BitSet(x) <=> x \in accepted
  <2>1. CASE seq <= last
    <3>1. last' = last /\ cleared(seq) = {}
      BY <1>1, <2>1 DEF update_store, cleared
    <3> QED BY <3>1 DEF IInv, RingExact
  <2>2. CASE seq > last
    <3>1. index(x) \in cleared(seq) <=> ~InRing(x, last)
      BY <1>1, <1>2, <2>2, ClearedAreNew DEF update_store
    <3>2. ASSUME ~InRing(x, last)
          PROVE  x \notin accepted
      <4>1. last' = seq
        BY <2>2 DEF update_store
      <4>2. Word(x) \in Nat /\ Word(last) \in Nat /\ Word(seq) \in Nat
        BY <1>1, <1>2, PlaceType
      <4>3. Word(last) <= Word(seq)
        BY <1>1, <2>2, AntiReplayConstants, DivMonotonic, SMTT(30) DEF Word
      <4>4. ~(Word(x) <= Word(last))
        BY <3>2, <4>1, <4>2, <4>3, AntiReplayConstants DEF InRing
      <4>5. ~(x <= last)
        BY <1>1, <1>2, <4>4, AntiReplayConstants, DivMonotonic DEF Word
      <4> QED BY <1>1, <1>2, <4>5
    <3> QED BY <3>1, <3>2 DEF IInv, RingExact
  <2> QED BY <1>1, <2>1, <2>2
<1> QED BY <1>4, <1>5

\* The ring is empty at first.
LEMMA InitInv ==
  ASSUME Init
  PROVE  IInv
<1>1. TypeOK
  BY AntiReplayConstants DEF Init, TypeOK, Seqs, Words, Bits
<1>2. \A x \in Seqs : index(x) \in Words
  BY PlaceType, AntiReplayConstants DEF Seqs
<1>3. RingExact
  BY <1>2 DEF Init, RingExact, BitSet
<1> QED BY <1>1, <1>3 DEF IInv

\* update keeps it exact, whatever its answer.
LEMMA StepInv ==
  ASSUME IInv, [Next]_vars
  PROVE  IInv'
<1>1. ASSUME NEW seq \in Seqs, update(seq)
      PROVE  IInv'
  <2>1. CASE check(seq) /\ update_store(seq) /\ accepted' = accepted \cup {seq}
    <3>1. bit_location(seq) \in Bits
      BY PlaceType, AntiReplayConstants DEF Seqs
    <3>2. bitmap' \in [Words -> SUBSET Bits]
      BY <2>1, <3>1 DEF update_store, IInv, TypeOK
    <3>3. last' \in Seqs /\ accepted' \subseteq 0 .. last'
      BY <2>1, AntiReplayConstants DEF update_store, IInv, TypeOK, Seqs
    <3>4. answer' \in [seq : Seqs, ok : BOOLEAN]
      BY <1>1 DEF update, check
    <3>5. RingExact'
      BY <2>1, StoreExact
    <3> QED BY <3>2, <3>3, <3>4, <3>5 DEF IInv, TypeOK
  <2>2. CASE UNCHANGED <<bitmap, last, accepted>>
    <3>1. answer' \in [seq : Seqs, ok : BOOLEAN]
      BY <1>1 DEF update, check
    <3> QED BY <2>2, <3>1 DEF IInv, TypeOK, RingExact, InRing, BitSet
  <2> QED BY <1>1, <2>1, <2>2 DEF update
<1>2. CASE UNCHANGED vars
  BY <1>2 DEF vars, IInv, TypeOK, RingExact, InRing, BitSet
<1> QED BY <1>1, <1>2 DEF Next

\* For every word size and ring length, update records and forgets exactly
\* what the window requires.
THEOREM WindowStaysExact == Spec => []WindowExact
<1>1. Init => IInv
  BY InitInv
<1>2. IInv /\ [Next]_vars => IInv'
  BY StepInv
<1>3. IInv => WindowExact
  BY RingGivesWindow
<1> QED BY <1>1, <1>2, <1>3, PTL DEF Spec

\* Every answer of update is the one ReplayWindow prescribes: no replay is
\* accepted, and nothing new within the window is refused.
THEOREM Refinement == Spec => ImplementsWindow
<1>1. Init => Abstract!Init
  BY DEF Init, Abstract!Init
<1>2. IInv /\ [Next]_vars => [Abstract!Next]_(Abstract!vars)
  <2> SUFFICES ASSUME IInv, [Next]_vars
               PROVE  [Abstract!Next]_(Abstract!vars)
    OBVIOUS
  <2>1. ASSUME NEW seq \in Seqs, update(seq)
        PROVE  Abstract!Ask(seq)
    <3>1. check(seq) <=> Abstract!Fresh(seq)
      BY CheckIsFresh
    <3>2. answer' = [seq |-> seq, ok |-> Abstract!Fresh(seq)]
      BY <2>1, <3>1 DEF update, check, Abstract!Fresh
    <3>3. seq > last => check(seq)
      BY DEF check
    <3> QED BY <2>1, <3>1, <3>2, <3>3 DEF update, update_store, Abstract!Ask
  <2>2. CASE Next
    BY <2>1, <2>2 DEF Next, Seqs, Abstract!Next
  <2>3. CASE UNCHANGED vars
    BY <2>3 DEF vars, Abstract!vars
  <2> QED BY <2>2, <2>3
<1>3. Init => IInv
  BY InitInv
<1>4. IInv /\ [Next]_vars => IInv'
  BY StepInv
<1> QED BY <1>1, <1>2, <1>3, <1>4, PTL DEF Spec, ImplementsWindow, Abstract!Spec

-----------------------------------------------------------------------------
(***************************************************************************)
(* RateBound, for every rate, burst and set of addresses.  The inductive   *)
(* invariant counts what an address has spent together with the tokens it  *)
(* has left; an address without an entry counts as having a full bucket.   *)
(***************************************************************************)

\* What the entry of a (or its absence) allows a to have spent since `mark`.
Earned(a) ==
  IF table[a] = NONE THEN spent[a] <= now - mark
  ELSE /\ table[a].last_time < mark => spent[a] = 0
       /\ table[a].last_time >= mark =>
            spent[a] + table[a].tokens <= MAX_TOKENS + (table[a].last_time - mark)

RateInv == LimiterTypeOK /\ \A a \in Addrs : Earned(a)

\* The burst holds at least one packet.
LEMMA Limits ==
  /\ PACKET_COST \in Nat /\ MAX_TOKENS \in Nat
  /\ SECOND \in Nat \ {0} /\ GC_INTERVAL \in Nat
  /\ PACKET_COST <= MAX_TOKENS /\ MAX_TOKENS <= GC_INTERVAL
<1>1. /\ PACKET_COST \in Nat \ {0} /\ PACKETS_BURSTABLE \in Nat \ {0}
      /\ SECOND \in Nat \ {0} /\ GC_INTERVAL \in Nat
  BY RateLimiterConstants
<1>2. PACKET_COST * PACKETS_BURSTABLE >= PACKET_COST
  BY <1>1
<1>3. PACKET_COST * PACKETS_BURSTABLE \in Nat
  BY <1>1
<1> QED BY <1>1, <1>2, <1>3, RateLimiterConstants DEF MAX_TOKENS

\* A refill adds at most the time that has passed.
LEMMA RefillBound ==
  ASSUME now \in Nat, NEW entry \in Entry, entry.last_time <= now
  PROVE  /\ refilled(entry) \in 0 .. MAX_TOKENS
         /\ refilled(entry) <= entry.tokens + (now - entry.last_time)
<1> DEFINE wait == now - entry.last_time
           part == wait % SECOND
<1>1. wait \in Nat /\ entry.tokens \in Nat
  BY Limits DEF Entry
<1> HIDE DEF wait
<1>2. part \in Nat /\ part <= wait
  <2>1. part \in Nat /\ wait \div SECOND \in Nat /\ wait = SECOND * (wait \div SECOND) + part
    <3>1. SECOND \in Nat \ {0}
      BY Limits
    <3> HIDE DEF part
    <3>2. wait \div SECOND \in Nat /\ wait % SECOND \in 0 .. SECOND - 1
          /\ wait = SECOND * (wait \div SECOND) + (wait % SECOND)
      BY <1>1, <3>1, DivMod, Zenon
    <3> QED BY <3>1, <3>2 DEF part
  <2>2. SECOND * (wait \div SECOND) >= 0
    BY <2>1, Limits
  <2> QED BY <1>1, <2>1, <2>2, Limits
<1>3. refilled(entry) = IF entry.tokens + part > MAX_TOKENS THEN MAX_TOKENS
                        ELSE entry.tokens + part
  BY DEF refilled, wait
<1> HIDE DEF part
<1>4. refilled(entry) \in 0 .. MAX_TOKENS /\ refilled(entry) <= entry.tokens + wait
  BY <1>1, <1>2, <1>3, Limits
<1> QED BY <1>4 DEF wait

\* Before the first packet nothing is spent.
LEMMA RateStart ==
  ASSUME LimiterInit
  PROVE  RateInv
BY DEF LimiterInit, RateInv, LimiterTypeOK, Earned

\* allow, with an entry.
LEMMA AllowKnownInv ==
  ASSUME RateInv, NEW a \in Addrs, AllowKnown(a)
  PROVE  RateInv'
<1> DEFINE tokens == refilled(table[a])
           cost   == IF tokens > PACKET_COST THEN PACKET_COST ELSE 0
<1>1. /\ table[a] # NONE
      /\ table' = [table EXCEPT ![a] = [last_time |-> now, tokens |-> tokens - cost]]
      /\ spent' = [spent EXCEPT ![a] = @ + cost]
      /\ now' = now /\ mark' = mark
  BY DEF AllowKnown
<1>2. /\ table[a] \in Entry /\ now \in Nat /\ mark \in 0 .. now
      /\ table[a].last_time <= now /\ spent[a] \in Nat
      /\ table \in [Addrs -> Entry \cup {NONE}] /\ spent \in [Addrs -> Nat]
  BY <1>1 DEF RateInv, LimiterTypeOK
<1>3. tokens \in 0 .. MAX_TOKENS /\ tokens <= table[a].tokens + (now - table[a].last_time)
  BY <1>2, RefillBound
<1>4. table[a].last_time \in Nat /\ table[a].tokens \in Nat
  BY <1>2, Limits DEF Entry
<1>5. Earned(a)
  BY DEF RateInv
<1> HIDE DEF tokens
<1>6. cost \in Nat /\ tokens - cost \in 0 .. MAX_TOKENS
  BY <1>3, Limits
<1>7. spent[a] + tokens <= MAX_TOKENS + (now - mark)
  BY <1>1, <1>2, <1>3, <1>4, <1>5, Limits DEF Earned
<1> HIDE DEF cost
<1>8. /\ table'[a] = [last_time |-> now, tokens |-> tokens - cost]
      /\ table'[a] \in Entry /\ spent'[a] = spent[a] + cost
  BY <1>1, <1>2, <1>6 DEF Entry
<1>9. Earned(a)'
  <2>1. table'[a] # NONE
    BY <1>8, NoneIsNoEntry
  <2>2. (spent[a] + cost) + (tokens - cost) <= MAX_TOKENS + (now - mark)
    BY <1>2, <1>3, <1>6, <1>7
  <2> QED BY <1>1, <1>2, <1>8, <2>1, <2>2, SMTT(30) DEF Earned
<1>10. \A b \in Addrs : Earned(b)'
  <2> TAKE b \in Addrs
  <2>1. CASE b # a
    <3>1. table'[b] = table[b] /\ spent'[b] = spent[b]
      BY <1>1, <1>2, <2>1, SMTT(30)
    <3> QED BY <1>1, <3>1 DEF RateInv, Earned
  <2> QED BY <1>9, <2>1
<1>11. LimiterTypeOK'
  BY <1>1, <1>2, <1>6, <1>8 DEF RateInv, LimiterTypeOK
<1> QED BY <1>10, <1>11 DEF RateInv

\* allow, without one.
LEMMA AllowNewInv ==
  ASSUME RateInv, NEW a \in Addrs, AllowNew(a)
  PROVE  RateInv'
<1> DEFINE e == [last_time |-> now, tokens |-> MAX_TOKENS - PACKET_COST]
<1>1. /\ table' = [table EXCEPT ![a] = e]
      /\ spent' = [spent EXCEPT ![a] = @ + PACKET_COST]
      /\ now' = now /\ mark' = mark
  BY DEF AllowNew
<1>2. /\ now \in Nat /\ mark \in 0 .. now /\ spent[a] \in Nat /\ spent[a] <= now - mark
      /\ table \in [Addrs -> Entry \cup {NONE}] /\ spent \in [Addrs -> Nat]
  BY DEF AllowNew, RateInv, LimiterTypeOK, Earned
<1>3. e \in Entry /\ e # NONE
  BY <1>2, Limits, NoneIsNoEntry DEF Entry
<1>4. table'[a] = e /\ spent'[a] = spent[a] + PACKET_COST /\ spent'[a] \in Nat
  BY <1>1, <1>2, Limits
<1>5. Earned(a)'
  BY <1>1, <1>2, <1>3, <1>4, Limits DEF Earned
<1>6. \A b \in Addrs : Earned(b)'
  <2> TAKE b \in Addrs
  <2>1. CASE b # a
    <3>1. table'[b] = table[b] /\ spent'[b] = spent[b]
      BY <1>1, <1>2, <2>1, SMTT(30)
    <3> QED BY <1>1, <3>1 DEF RateInv, Earned
  <2> QED BY <1>5, <2>1
<1>7. LimiterTypeOK'
  BY <1>1, <1>2, <1>3, <1>4, Limits DEF RateInv, LimiterTypeOK
<1> QED BY <1>6, <1>7 DEF RateInv

\* A collected entry has been idle for long enough to be full again.
LEMMA GcInv ==
  ASSUME RateInv, handle_gc
  PROVE  RateInv'
<1>1. now' = now /\ mark' = mark /\ spent' = spent
  BY DEF handle_gc
<1>2. LimiterTypeOK'
  BY DEF handle_gc, RateInv, LimiterTypeOK
<1>3. ASSUME NEW a \in Addrs
      PROVE  Earned(a)'
  <2>1. now \in Nat /\ mark \in 0 .. now /\ spent[a] \in Nat /\ Earned(a)
    BY SMTT(30) DEF RateInv, LimiterTypeOK
  <2>2. CASE table'[a] = table[a]
    BY <1>1, <2>1, <2>2 DEF Earned
  <2>3. CASE table'[a] # table[a]
    <3>1. /\ table'[a] = NONE /\ table[a] # NONE
          /\ ~(now - table[a].last_time <= GC_INTERVAL)
      BY <2>3 DEF handle_gc
    <3>2. table[a].last_time \in Nat /\ table[a].tokens \in Nat
      BY <3>1, Limits DEF RateInv, LimiterTypeOK, Entry
    <3>3. spent[a] <= now - mark
      BY <2>1, <3>1, <3>2, Limits DEF Earned
    <3> QED BY <1>1, <3>1, <3>3 DEF Earned
  <2> QED BY <2>2, <2>3
<1> QED BY <1>2, <1>3 DEF RateInv

\* The clock only adds to what has been earned.
LEMMA TickInv ==
  ASSUME RateInv, LimiterTick
  PROVE  RateInv'
<1>1. now \in Nat /\ mark \in 0 .. now /\ \A a \in Addrs : spent[a] \in Nat
  BY DEF RateInv, LimiterTypeOK
<1>2. LimiterTypeOK'
  BY DEF LimiterTick, RateInv, LimiterTypeOK, Entry
<1>3. \A a \in Addrs : Earned(a)'
  BY <1>1 DEF LimiterTick, RateInv, Earned
<1> QED BY <1>2, <1>3 DEF RateInv

\* A new interval begins with nothing spent, whatever is in the buckets.
LEMMA StartInv ==
  ASSUME RateInv, StartInterval
  PROVE  RateInv'
<1>1. LimiterTypeOK'
  BY DEF StartInterval, RateInv, LimiterTypeOK
<1>2. ASSUME NEW a \in Addrs
      PROVE  Earned(a)'
  <2>1. now \in Nat /\ now' = now /\ mark' = now /\ table'[a] = table[a] /\ spent'[a] = 0
    BY DEF StartInterval, RateInv, LimiterTypeOK
  <2>2. CASE table[a] = NONE
    BY <2>1, <2>2 DEF Earned
  <2>3. CASE table[a] # NONE
    <3>1. table[a].last_time \in Nat /\ table[a].tokens \in 0 .. MAX_TOKENS
          /\ table[a].last_time <= now
      BY <2>3 DEF RateInv, LimiterTypeOK, Entry
    <3> QED BY <2>1, <2>3, <3>1, Limits DEF Earned
  <2> QED BY <2>2, <2>3
<1> QED BY <1>1, <1>2 DEF RateInv

\* The inductive invariant bounds what is spent.
LEMMA EarnedBounds ==
  ASSUME RateInv
  PROVE  RateBound
<1> SUFFICES ASSUME NEW a \in Addrs
             PROVE  spent[a] <= MAX_TOKENS + (now - mark)
  BY DEF RateBound
<1>1. now \in Nat /\ mark \in 0 .. now /\ spent[a] \in Nat /\ Earned(a)
  BY DEF RateInv, LimiterTypeOK
<1>2. table[a] # NONE =>
        table[a].last_time \in Nat /\ table[a].tokens \in Nat /\ table[a].last_time <= now
  BY Limits DEF RateInv, LimiterTypeOK, Entry
<1> QED BY <1>1, <1>2, Limits DEF Earned

\* Only allow brings an entry up to date: the others keep it or remove it.
LEMMA OnlyAllowUpdates ==
  ASSUME RateInv, [LimiterNext]_limiterVars, NEW a \in Addrs,
         table[a] # NONE, table'[a] # NONE, table'[a] # table[a]
  PROVE  AllowKnown(a)
<1>1. ASSUME NEW b \in Addrs, AllowKnown(b) PROVE a = b
  BY <1>1 DEF AllowKnown, RateInv, LimiterTypeOK
<1>2. ASSUME NEW b \in Addrs, AllowNew(b) PROVE FALSE
  BY <1>2 DEF AllowNew, RateInv, LimiterTypeOK
<1>3. ~handle_gc
  BY DEF handle_gc
<1>4. ~LimiterTick /\ ~StartInterval /\ ~UNCHANGED limiterVars
  BY DEF LimiterTick, StartInterval, limiterVars
<1> QED BY <1>1, <1>2, <1>3, <1>4 DEF LimiterNext

\* The inductive invariant holds.
LEMMA InvHolds == LimiterSpec => []RateInv
<1>1. LimiterInit => RateInv
  BY RateStart
<1>2. RateInv /\ [LimiterNext]_limiterVars => RateInv'
  <2> SUFFICES ASSUME RateInv, [LimiterNext]_limiterVars
               PROVE  RateInv'
    OBVIOUS
  <2>1. CASE UNCHANGED limiterVars
    BY <2>1 DEF limiterVars, RateInv, LimiterTypeOK, Earned
  <2> QED BY <2>1, AllowKnownInv, AllowNewInv, GcInv, TickInv, StartInv DEF LimiterNext
<1> QED BY <1>1, <1>2, PTL DEF LimiterSpec

\* No address exceeds its rate in any interval, for any rate and burst, as long
\* as an entry is kept for the time its bucket takes to fill.
THEOREM RateBounded == LimiterSpec => []RateBound
<1>1. RateInv => RateBound
  BY EarnedBounds
<1> QED BY <1>1, InvHolds, PTL

\* For any rate and any burst of more than a packet, a wait of more than
\* PACKET_COST and less than a second earns the next packet.
THEOREM RefillEarns ==
  ASSUME PACKETS_BURSTABLE > 1
  PROVE  LimiterSpec => RefillWithinSecond
<1>1. ASSUME RateInv, [LimiterNext]_limiterVars, NEW a \in Addrs,
             table[a] # NONE, now - table[a].last_time \in PACKET_COST + 1 .. SECOND - 1,
             table'[a] # NONE, table'[a] # table[a]
      PROVE  spent'[a] > spent[a]
  <2> DEFINE wait == now - table[a].last_time
  <2>1. AllowKnown(a)
    BY <1>1, OnlyAllowUpdates
  <2>2. /\ PACKET_COST \in Nat \ {0} /\ SECOND \in Nat \ {0} /\ wait \in Nat
        /\ table[a].tokens \in 0 .. MAX_TOKENS /\ spent[a] \in Nat /\ MAX_TOKENS \in Nat
    BY <1>1, Limits, RateLimiterConstants, SMTT(30) DEF RateInv, LimiterTypeOK, Entry
  <2>3. wait % SECOND = wait
    BY <1>1, <2>2
  <2>4. MAX_TOKENS > PACKET_COST
    <3>1. PACKET_COST \in Nat \ {0} /\ PACKETS_BURSTABLE \in Nat
      BY RateLimiterConstants
    <3>2. \A c \in Nat \ {0}, n \in Nat : n > 1 => c * n > c
      BY Z3
    <3> QED BY <3>1, <3>2 DEF MAX_TOKENS
  <2>5. refilled(table[a]) > PACKET_COST
    BY <1>1, <2>2, <2>3, <2>4 DEF refilled
  <2>6. spent'[a] = spent[a] + PACKET_COST
    BY <1>1, <2>1, <2>5, SMTT(30) DEF AllowKnown, RateInv, LimiterTypeOK
  <2> QED BY <2>2, <2>6
<1>2. RateInv /\ [LimiterNext]_limiterVars =>
        [\A a \in Addrs :
           /\ table[a] # NONE /\ now - table[a].last_time \in PACKET_COST + 1 .. SECOND - 1
           /\ table'[a] # NONE /\ table'[a] # table[a]
           => spent'[a] > spent[a]]_limiterVars
  BY <1>1
<1> QED BY <1>2, InvHolds, PTL DEF LimiterSpec, RefillWithinSecond

-----------------------------------------------------------------------------
(***************************************************************************)
(* Cookie.  The invariant follows the cookies of the secret in force: the  *)
(* peer's own, the ones its messages are made with and the ones on their   *)
(* way to it are all cookies of addresses that a reply was sent to.        *)
(***************************************************************************)

\* A cookie of the secret in force.
Fresh(c) == c # NONE /\ c.secret = "latest"

CookieInv ==
  /\ messages \subseteq Message /\ replies \subseteq Reply
  /\ cookie \in CookieValue \cup {NONE} /\ source \in Sources
  /\ Fresh(cookie) => cookie.source \in issued
  /\ \A m \in messages : Fresh(m.mac2) => m.mac2.source \in issued
  /\ \A r \in replies : Fresh(r.cookie) => r.cookie.source \in issued

LEMMA CookieStart ==
  ASSUME CookieInit
  PROVE  CookieInv
BY DEF CookieInit, CookieInv, Fresh

\* With a new secret no cookie there was is one of the secret in force.
LEMMA OutdatedIs ==
  ASSUME NEW c \in CookieValue \cup {NONE}
  PROVE  /\ Outdated(c) \in CookieValue \cup {NONE}
         /\ c # NONE => Outdated(c) \in CookieValue
         /\ ~Fresh(Outdated(c))
<1>1. CASE c = NONE
  BY <1>1 DEF Outdated, Fresh
<1>2. CASE c # NONE
  <2>1. c \in CookieValue
    BY <1>2
  <2>2. [c EXCEPT !.secret = "earlier"] \in CookieValue
        /\ [c EXCEPT !.secret = "earlier"].secret = "earlier"
    BY <2>1, SMTT(30) DEF CookieValue, Recency
  <2> QED BY <1>2, <2>2 DEF Outdated, Fresh
<1> QED BY <1>1, <1>2

LEMMA NewSecretCookies ==
  ASSUME CookieInv,
         NEW in_flight \in SUBSET messages, NEW answers \in SUBSET Reply,
         NewSecret(in_flight, answers),
         \A r \in answers : Fresh(r.cookie) => r.cookie.source \in issued',
         UNCHANGED source
  PROVE  CookieInv'
<1>1. cookie' \in CookieValue \cup {NONE} /\ ~Fresh(cookie')
  BY OutdatedIs, SMTT(30) DEF CookieInv, NewSecret
<1>2. ASSUME NEW m \in messages' PROVE m \in Message /\ ~Fresh(m.mac2)
  <2>1. PICK n \in in_flight : m = [n EXCEPT !.mac2 = Outdated(n.mac2)]
    BY <1>2 DEF NewSecret
  <2>2. n \in Message
    BY SMTT(30) DEF CookieInv
  <2>3. n.mac2 \in CookieValue \cup {NONE}
    BY <2>2, SMTT(30) DEF Message
  <2> DEFINE c == Outdated(n.mac2)
  <2>4. c \in CookieValue \cup {NONE} /\ ~Fresh(c)
    BY <2>3, OutdatedIs
  <2> HIDE DEF c
  <2>5. m = [n EXCEPT !.mac2 = c]
    BY <2>1 DEF c
  <2>6. m \in Message /\ m.mac2 = c
    BY <2>2, <2>4, <2>5, SMTT(30) DEF Message
  <2> QED BY <2>4, <2>6
<1>3. ASSUME NEW r \in replies'
      PROVE  /\ r \in Reply
             /\ Fresh(r.cookie) => r.cookie.source \in issued'
  <2>1. CASE r \in answers
    BY <2>1
  <2>2. CASE r \notin answers
    <3>1. PICK s \in replies : r = [s EXCEPT !.cookie = Outdated(s.cookie)]
      BY <1>3, <2>2 DEF NewSecret
    <3>2. s \in Reply
      BY DEF CookieInv
    <3>3. s.cookie \in CookieValue /\ s.cookie # NONE
      BY <3>2, CookieConstants DEF Reply
    <3> DEFINE c == Outdated(s.cookie)
    <3>4. c \in CookieValue /\ ~Fresh(c)
      BY <3>3, OutdatedIs
    <3> HIDE DEF c
    <3>5. r = [s EXCEPT !.cookie = c]
      BY <3>1 DEF c
    <3>6. r \in Reply /\ r.cookie = c
      BY <3>2, <3>4, <3>5, SMTT(30) DEF Reply
    <3> QED BY <3>2, <3>4, <3>6
  <2> QED BY <2>1, <2>2
<1> QED BY <1>1, <1>2, <1>3 DEF CookieInv

\* The message is made with the cookie the peer holds.
LEMMA SendCookies ==
  ASSUME CookieInv, NEW kind \in Kinds, SendMessage(kind)
  PROVE  CookieInv'
<1>1. UNCHANGED <<issued, cookie, source>>
  BY SMTT(30) DEF SendMessage, server, generator
<1> DEFINE new == [kind |-> kind, message |-> "latest", mac2 |-> build_mac2, source |-> source]
<1>2. build_mac2 \in CookieValue \cup {NONE}
      /\ (Fresh(build_mac2) => build_mac2.source \in issued)
  BY SMTT(30) DEF CookieInv, build_mac2, Fresh
<1>3. new \in Message /\ new.mac2 = build_mac2
  BY <1>2 DEF CookieInv, Message, Recency
<1>4. ASSUME NEW m \in messages'
      PROVE  m \in Message /\ (Fresh(m.mac2) => m.mac2.source \in issued)
  <2> HIDE DEF new
  <2>1. CASE m = new
    BY <1>2, <1>3, <2>1
  <2>2. CASE m # new
    <3>1. PICK n \in messages : m = [n EXCEPT !.message = "earlier"]
      BY <1>4, <2>2 DEF SendMessage, new
    <3>2. n \in Message /\ (Fresh(n.mac2) => n.mac2.source \in issued)
      BY DEF CookieInv
    <3>3. m \in Message /\ m.mac2 = n.mac2
      BY <3>1, <3>2 DEF Message, Recency
    <3> QED BY <3>2, <3>3
  <2> QED BY <2>1, <2>2
<1>5. ASSUME NEW r \in replies'
      PROVE  /\ r \in Reply
             /\ Fresh(r.cookie) => r.cookie.source \in issued
  <2>1. PICK s \in replies : r = [s EXCEPT !.aad.message = "earlier"]
    BY <1>5, SMTT(30) DEF SendMessage
  <2>2. s \in Reply /\ (Fresh(s.cookie) => s.cookie.source \in issued)
    BY DEF CookieInv
  <2>3. s.aad \in Mac1
    BY <2>2 DEF Reply
  <2> DEFINE a == [s.aad EXCEPT !.message = "earlier"]
  <2>4. a \in Mac1
    BY <2>3 DEF Mac1, Recency
  <2>5. r = [s EXCEPT !.aad = a]
    BY <2>1
  <2> HIDE DEF a
  <2>6. r \in Reply /\ r.cookie = s.cookie
    BY <2>2, <2>4, <2>5 DEF Reply
  <2> QED BY <2>2, <2>4, <2>6
<1> QED BY <1>1, <1>4, <1>5 DEF CookieInv

\* The answer holds the cookie of the address it goes to, which is noted.
LEMMA AskCookies ==
  ASSUME CookieInv, NEW m \in messages, AskForCookie(m)
  PROVE  CookieInv'
<1> DEFINE a == Answer(m)
<1>1. m \in Message
  BY DEF CookieInv
<1>2. mac1(m) \in Mac1
  BY <1>1 DEF mac1, Mac1, Message
<1>3. cookie_for(m.source) \in CookieValue /\ cookie_for(m.source).source = m.source
  BY <1>1 DEF cookie_for, CookieValue, Recency, Message
<1>4. a \in Reply /\ a.cookie = cookie_for(m.source)
  BY <1>1, <1>2, <1>3 DEF Answer, Reply, Message
<1>5. source' = source /\ m.source \in issued'
  BY SMTT(30) DEF AskForCookie, generate_reply
<1>6. a.cookie.source \in issued'
  BY <1>2, <1>3, <1>4, <1>5
<1> HIDE DEF a
<1>7. \/ /\ issued' = issued \cup {m.source} /\ messages' = messages \ {m}
         /\ replies' = replies \cup {a} /\ cookie' = cookie
      \/ NewSecret(messages \ {m}, {a})
  BY SMTT(30) DEF AskForCookie, generate_reply, a
<1>8. CASE /\ issued' = issued \cup {m.source} /\ messages' = messages \ {m}
           /\ replies' = replies \cup {a} /\ cookie' = cookie
  BY <1>4, <1>5, <1>6, <1>8, SMTT(30) DEF CookieInv
<1>9. CASE NewSecret(messages \ {m}, {a})
  <2>1. {a} \in SUBSET Reply /\ messages \ {m} \in SUBSET messages
    BY <1>4
  <2> QED BY <1>5, <1>6, <1>9, <2>1, NewSecretCookies
<1> QED BY <1>7, <1>8, <1>9

\* The peer takes its cookie from a reply on its way to it.
LEMMA ReplyCookies ==
  ASSUME CookieInv, NEW r \in replies, HandleCookieReply(r)
  PROVE  CookieInv'
<1>1. UNCHANGED <<source, issued, messages>> /\ replies' = replies \ {r}
  BY DEF HandleCookieReply, server
<1>2. r.cookie \in CookieValue /\ (Fresh(r.cookie) => r.cookie.source \in issued)
  BY SMTT(30) DEF CookieInv, Reply
<1>3. cookie' \in {cookie, r.cookie}
  BY DEF HandleCookieReply, generator
<1> QED BY <1>1, <1>2, <1>3, SMTT(30) DEF CookieInv

LEMMA CookieStep ==
  ASSUME CookieInv, [CookieNext]_cookieVars
  PROVE  CookieInv'
\* Steps that add no message, reply or cookie.
<1>1. ASSUME messages' \subseteq messages, replies' \subseteq replies, source' \in Sources,
             UNCHANGED <<cookie, issued>>
      PROVE  CookieInv'
  BY <1>1 DEF CookieInv
<1>2. source \in Sources
  BY DEF CookieInv
<1>3. ASSUME NEW m \in messages, HandleHandshake(m) PROVE CookieInv'
  <2>1. CASE AskForCookie(m)
    BY <2>1, AskCookies
  <2>2. CASE Received(m)
    BY <1>1, <1>2, <2>2 DEF Received, generator
  <2> QED BY <1>3, <2>1, <2>2 DEF HandleHandshake, Admit, RateLimited, AdmitVerified
<1>4. ASSUME NEW r \in replies, HandleCookieReply(r) PROVE CookieInv'
  BY <1>4, ReplyCookies
<1>5. ASSUME NEW kind \in Kinds, SendMessage(kind) PROVE CookieInv'
  BY <1>5, SendCookies
<1>6. CASE NewPrivateKey
  <2>1. NewSecret(messages, {}) /\ UNCHANGED source
    BY <1>6 DEF NewPrivateKey
  <2> QED BY <2>1, NewSecretCookies
<1>7. CASE Lose \/ Roam \/ LoadChanges
  BY <1>1, <1>2, <1>7 DEF Lose, Roam, LoadChanges, server, generator
<1>8. CASE Tick \/ CalmDown
  BY <1>1, <1>2, <1>8 DEF Tick, CalmDown, server, generator
<1>9. CASE UNCHANGED cookieVars
  BY <1>1, <1>2, <1>9 DEF cookieVars, server, generator
<1>10. "response" \in Kinds
  BY DEF Kinds
<1> QED BY <1>3, <1>4, <1>5, <1>6, <1>7, <1>8, <1>9, <1>10, SMTT(30)
        DEF CookieNext, Restless, Respond, CalmTick, Handshake, Environment

\* Under load nobody is admitted from an address that was sent no cookie of the
\* secret in force, for every set of addresses and every refresh time: a cookie
\* does not outlive its secret in any message, reply or generator.
THEOREM AdmittedFromProvedAddress == CookieSpec => AddressProved
<1> DEFINE Proved == \A m \in messages : AdmitVerified(m) => m.source \in issued
<1>1. CookieInit => CookieInv
  BY CookieStart
<1>2. CookieInv /\ [CookieNext]_cookieVars => CookieInv'
  BY CookieStep
<1>3. CookieInv /\ [CookieNext]_cookieVars => [Proved]_cookieVars
  <2> SUFFICES ASSUME CookieInv, NEW m \in messages, AdmitVerified(m)
               PROVE  m.source \in issued
    OBVIOUS
  <2>1. m \in Message /\ m.mac2 = cookie_for(m.source)
    BY DEF CookieInv, AdmitVerified, verify_mac2
  <2>2. /\ cookie_for(m.source) \in CookieValue
        /\ cookie_for(m.source).source = m.source
        /\ cookie_for(m.source).secret = "latest"
    BY <2>1 DEF cookie_for, CookieValue, Recency, Message
  <2>3. Fresh(m.mac2)
    BY <2>1, <2>2, CookieConstants DEF Fresh
  <2> QED BY <2>1, <2>2, <2>3 DEF CookieInv
<1> QED BY <1>1, <1>2, <1>3, PTL DEF CookieSpec, AddressProved
=============================================================================
