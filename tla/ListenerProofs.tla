--------------------------- MODULE ListenerProofs ---------------------------
(***************************************************************************)
(* Proofs about Listener, for all ports, marks and bounds.                 *)
(*                                                                         *)
(* What the socket lacks is on its way: the messages in the channel say    *)
(* so, and the last message about the mark has the configured one.  Of the *)
(* handlers only bind reads the state, which is the newest.                *)
(***************************************************************************)
EXTENDS Listener, SequenceTheorems, WellFoundedInduction, TLAPS

Messages ==
  [event : {"NewPrivateKey", "ClearPrivateKey", "NewListenPort"}]
    \cup [event : {"NewFwmark"}, mark : Marks]

Coming(ch, e) == \E n \in 1 .. Len(ch) : ch[n].event = e

LastMark(ch, mark) ==
  \A n \in 1 .. Len(ch) :
    /\ ch[n].event = "NewFwmark"
    /\ \A m \in 1 .. Len(ch) : m > n => ch[m].event # "NewFwmark"
    => ch[n].mark = mark

ListenInv ==
  /\ private_key \in BOOLEAN
  /\ listen_port \in Ports \cup {NONE} /\ fwmark \in Marks \cup {NONE}
  /\ udp \in [port : Ports, mark : Marks] \cup {NONE}
  /\ failures \in Nat
  /\ channel \in Seq(Messages)
  /\ LastMark(channel, fwmark)
  /\ PortIsSockets
  /\ failures = 0 =>
       /\ private_key /\ udp = NONE => Coming(channel, "NewPrivateKey")
       /\ udp # NONE /\ udp.port # unwrap_or_0(listen_port) => Coming(channel, "NewListenPort")
       /\ udp # NONE /\ udp.mark # unwrap_or_0(fwmark) => Coming(channel, "NewFwmark")

\* Every set of numbers has a least element, and a bounded one a greatest.
LEMMA Least ==
  ASSUME NEW S \in SUBSET Nat, S # {}
  PROVE  \E m \in S : \A n \in S : m <= n
<1> DEFINE R == OpToRel(<, Nat)
<1>1. IsWellFoundedOn(R, Nat)
  BY NatLessThanWellFounded
<1> HIDE DEF R
<1>2. PICK m \in S : \A n \in S : ~(<<n, m>> \in R)
  BY <1>1, WFMin, Zenon
<1>3. \A n \in S : n < m => <<n, m>> \in R
  BY DEF R, OpToRel
<1>4. \A n \in S : ~(n < m)
  BY <1>2, <1>3, Zenon
<1> QED BY <1>4

LEMMA Greatest ==
  ASSUME NEW b \in Nat, NEW S \in SUBSET (1 .. b), S # {}
  PROVE  \E m \in S : \A n \in S : m >= n
<1> DEFINE T == {b - n : n \in S}
<1>1. T \in SUBSET Nat /\ T # {}
  <2>1. \A n \in S : b - n \in Nat
    OBVIOUS
  <2> QED BY <2>1, Zenon
<1>2. PICK k \in T : \A n \in T : k <= n
  <2> HIDE DEF T
  <2> QED BY <1>1, Least
<1>3. PICK m \in S : k = b - m
  OBVIOUS
<1>4. \A n \in S : m >= n
  BY <1>2, <1>3
<1> QED BY <1>4

\* A command is applied up to the first refused update.
LEMMA AppliedTyped ==
  ASSUME NEW updates \in Seq(Updates)
  PROVE  /\ Applied(updates) \in Seq(Updates)
         /\ \A n \in 1 .. Len(Applied(updates)) : Applied(updates)[n].update # "Refused"
<1> DEFINE I == {i \in 1 .. Len(updates) : updates[i].update = "Refused"}
<1>1. Applied(updates) = IF I = {} THEN updates ELSE SubSeq(updates, 1, Min(I) - 1)
  <2>1. SelectInSeq(updates, LAMBDA u : u.update = "Refused") = IF I # {} THEN Min(I) ELSE 0
    BY DEF SelectInSeq
  <2>2. I # {} => Min(I) \in I
    <3>1. I \in SUBSET Nat
      OBVIOUS
    <3> HIDE DEF I
    <3> QED BY <3>1, Least, Zenon DEF Min
  <2>3. I # {} => Min(I) # 0
    BY <2>2
  <2> HIDE DEF I
  <2> QED BY <2>1, <2>3 DEF Applied
<1>2. CASE I = {}
  BY <1>1, <1>2
<1>3. CASE I # {}
  <2>1. Min(I) \in I /\ \A i \in I : Min(I) <= i
    <3>1. I \in SUBSET Nat
      OBVIOUS
    <3> HIDE DEF I
    <3> QED BY <1>3, <3>1, Least, Zenon DEF Min
  <2> DEFINE least == Min(I)
             k     == least - 1
  <2>2. k \in Nat /\ k <= Len(updates) /\ \A n \in 1 .. k : n \notin I
    <3>1. least \in 1 .. Len(updates)
      BY <2>1
    <3>2. \A i \in I : i >= least
      BY <2>1
    <3> HIDE DEF I, least
    <3> QED BY <3>1, <3>2
  <2> HIDE DEF k
  <2>3. /\ SubSeq(updates, 1, k) \in Seq(Updates) /\ Len(SubSeq(updates, 1, k)) = k
        /\ \A n \in 1 .. k : SubSeq(updates, 1, k)[n] = updates[n]
    BY <2>2
  <2>4. \A n \in 1 .. k : updates[n].update # "Refused"
    BY <2>2
  <2> HIDE DEF I
  <2> QED BY <1>1, <1>3, <2>3, <2>4 DEF k
<1> QED BY <1>2, <1>3

\* The value an applied command leaves behind: that of the last update of its kind.
LEMMA LastValueIs ==
  ASSUME NEW s \in Seq(Updates), NEW kind, NEW otherwise
  PROVE  LET v == LastValue(s, kind, otherwise)
         IN  \/ v = otherwise /\ \A n \in 1 .. Len(s) : s[n].update # kind
             \/ \E n \in 1 .. Len(s) : /\ s[n].update = kind /\ v = s[n].value
                                       /\ \A m \in 1 .. Len(s) : m > n => s[m].update # kind
<1> DEFINE I == {i \in 1 .. Len(s) : s[i].update = kind}
<1>1. SelectLastInSeq(s, LAMBDA u : u.update = kind) = IF I # {} THEN Max(I) ELSE 0
  BY DEF SelectLastInSeq
<1>2. Len(s) \in Nat /\ I \in SUBSET (1 .. Len(s))
  OBVIOUS
<1>3. CASE I = {}
  BY <1>1, <1>3, Zenon DEF LastValue
<1>4. CASE I # {}
  <2>1. Max(I) \in I /\ \A i \in I : Max(I) >= i
    <3> HIDE DEF I
    <3> QED BY <1>2, <1>4, Greatest, Zenon DEF Max
  <2> DEFINE n == Max(I)
  <2>2. n \in 1 .. Len(s) /\ s[n].update = kind /\ \A m \in 1 .. Len(s) : m > n => s[m].update # kind
    <3>1. n \in 1 .. Len(s) /\ s[n].update = kind
      BY <2>1
    <3>2. \A m \in 1 .. Len(s) : s[m].update = kind => n >= m
      BY <2>1
    <3> HIDE DEF n
    <3> QED BY <3>1, <3>2, SMTT(30)
  <2>3. LastValue(s, kind, otherwise) = s[n].value
    <3>1. n # 0
      BY <2>2
    <3> HIDE DEF I
    <3> QED BY <1>1, <1>4, <3>1, SMTT(30) DEF LastValue
  <2> HIDE DEF n
  <2> QED BY <2>2, <2>3
<1> QED BY <1>3, <1>4

LEMMA MessageIs ==
  ASSUME NEW u \in Updates, u.update # "Refused"
  PROVE  /\ Message(u) \in Messages
         /\ u.update = "PrivateKey" /\ u.value => Message(u).event = "NewPrivateKey"
         /\ u.update = "ListenPort" => Message(u).event = "NewListenPort"
         /\ u.update = "Fwmark" <=> Message(u).event = "NewFwmark"
         /\ u.update = "Fwmark" => Message(u).mark = u.value
         /\ u.update = "PrivateKey" => u.value \in BOOLEAN
         /\ u.update = "ListenPort" => u.value \in Ports
         /\ u.update = "Fwmark" => u.value \in Marks
<1>1. CASE u \in [update : {"PrivateKey"}, value : BOOLEAN]
  BY <1>1 DEF Message, Messages
<1>2. CASE u \in [update : {"ListenPort"}, value : Ports]
  BY <1>2 DEF Message, Messages
<1>3. CASE u \in [update : {"Fwmark"}, value : Marks]
  BY <1>3 DEF Message, Messages
<1> QED BY <1>1, <1>2, <1>3, SMTT(30) DEF Updates

LEMMA MessagesAre ==
  ASSUME NEW updates \in Seq(Updates)
  PROVE  LET a == Applied(updates)
         IN  /\ messages(updates) \in Seq(Messages)
             /\ Len(messages(updates)) = Len(a)
             /\ \A n \in 1 .. Len(a) : messages(updates)[n] = Message(a[n])
<1> DEFINE a == Applied(updates)
<1>1. a \in Seq(Updates) /\ \A n \in 1 .. Len(a) : a[n].update # "Refused"
  BY AppliedTyped
<1>2. messages(updates) = [n \in 1 .. Len(a) |-> Message(a[n])]
  <2>1. DOMAIN a = 1 .. Len(a)
    BY <1>1
  <2> QED BY <2>1 DEF messages
<1> HIDE DEF a
<1>3. \A n \in 1 .. Len(a) : Message(a[n]) \in Messages
  BY <1>1, MessageIs, SMTT(30)
<1>4. Len(a) \in Nat
  BY <1>1
<1>5. messages(updates) \in Seq(Messages)
  BY <1>2, <1>3, <1>4, IsASeq, SMTT(30)
<1>6. Len(messages(updates)) = Len(a)
  BY <1>2, <1>4, <1>5, SMTT(30)
<1> QED BY <1>2, <1>5, <1>6 DEF a

\* What is on its way stays so while messages are added behind it.
LEMMA StillComing ==
  ASSUME NEW s \in Seq(Messages), NEW t \in Seq(Messages), NEW e, Coming(s, e) \/ Coming(t, e)
  PROVE  Coming(s \o t, e)
<1>1. /\ Len(s \o t) = Len(s) + Len(t) /\ Len(s) \in Nat /\ Len(t) \in Nat
      /\ \A n \in 1 .. Len(s) : (s \o t)[n] = s[n]
      /\ \A n \in 1 .. Len(t) : (s \o t)[Len(s) + n] = t[n]
  BY ConcatProperties
<1>2. ASSUME NEW n \in 1 .. Len(s), s[n].event = e
      PROVE  Coming(s \o t, e)
  BY <1>1, <1>2, SMTT(30) DEF Coming
<1>3. ASSUME NEW n \in 1 .. Len(t), t[n].event = e
      PROVE  Coming(s \o t, e)
  <2>1. Len(s) + n \in 1 .. Len(s \o t) /\ (s \o t)[Len(s) + n].event = e
    BY <1>1, <1>3, SMTT(30)
  <2> QED BY <2>1 DEF Coming
<1> QED BY <1>2, <1>3, SMTT(30) DEF Coming

\* The last mark of a longer channel is the last one of the messages added, or
\* the last one there was if they have none.
LEMMA LastMarkGrows ==
  ASSUME NEW s \in Seq(Messages), NEW t \in Seq(Messages), NEW old, NEW new,
         LastMark(s, old), LastMark(t, new), ~Coming(t, "NewFwmark") => new = old
  PROVE  LastMark(s \o t, new)
<1>1. /\ Len(s \o t) = Len(s) + Len(t) /\ Len(s) \in Nat /\ Len(t) \in Nat
      /\ \A n \in 1 .. Len(s) : (s \o t)[n] = s[n]
      /\ \A n \in 1 .. Len(t) : (s \o t)[Len(s) + n] = t[n]
  BY ConcatProperties, SMTT(30)
<1> SUFFICES ASSUME NEW n \in 1 .. Len(s \o t), (s \o t)[n].event = "NewFwmark",
                    \A m \in 1 .. Len(s \o t) : m > n => (s \o t)[m].event # "NewFwmark"
             PROVE  (s \o t)[n].mark = new
  BY DEF LastMark
<1>2. CASE n > Len(s)
  <2> DEFINE k == n - Len(s)
  <2>1. k \in 1 .. Len(t) /\ (s \o t)[n] = t[k]
    BY <1>1, <1>2, SMTT(30)
  <2>2. ASSUME NEW m \in 1 .. Len(t), m > k
        PROVE  t[m].event # "NewFwmark"
    <3>1. Len(s) + m \in 1 .. Len(s \o t) /\ Len(s) + m > n
      BY <1>1, <1>2, <2>2
    <3> QED BY <1>1, <3>1, SMTT(30)
  <2> HIDE DEF k
  <2> QED BY <2>1, <2>2, SMTT(30) DEF LastMark
<1>3. CASE n <= Len(s)
  <2>1. n \in 1 .. Len(s) /\ (s \o t)[n] = s[n]
    BY <1>1, <1>3
  <2>2. \A m \in 1 .. Len(s) : m > n => s[m].event # "NewFwmark"
    <3> SUFFICES ASSUME NEW m \in 1 .. Len(s), m > n
                 PROVE  s[m].event # "NewFwmark"
      OBVIOUS
    <3>1. m \in 1 .. Len(s \o t)
      BY <1>1
    <3> QED BY <1>1, <3>1
  <2>3. ~Coming(t, "NewFwmark")
    <3> SUFFICES ASSUME NEW m \in 1 .. Len(t), t[m].event = "NewFwmark"
                 PROVE  FALSE
      BY DEF Coming
    <3>1. Len(s) + m \in 1 .. Len(s \o t) /\ Len(s) + m > n
      BY <1>1, <1>3
    <3> QED BY <1>1, <3>1
  <2> QED BY <2>1, <2>2, <2>3, SMTT(30) DEF LastMark
<1>4. n \in Nat /\ Len(s) \in Nat
  BY <1>1
<1> QED BY <1>2, <1>3, <1>4, SMTT(30)

LEMMA ListenInit == Init => ListenInv
<1> SUFFICES ASSUME Init
             PROVE  ListenInv
  OBVIOUS
<1>1. channel = <<>> /\ Len(channel) = 0
  BY DEF Init
<1>2. channel \in Seq(Messages) /\ LastMark(channel, fwmark)
  BY <1>1 DEF LastMark
<1> QED BY <1>2, Zenon DEF Init, ListenInv, PortIsSockets

\* The configuration service: what it changes, it sends a message for.
LEMMA SetListen ==
  ASSUME ListenInv, NEW updates \in Seq(Updates), Set(updates)
  PROVE  ListenInv'
<1> DEFINE a == Applied(updates)
           t == messages(updates)
<1>1. /\ a \in Seq(Updates)
      /\ \A n \in 1 .. Len(a) : a[n].update # "Refused" /\ a[n] \in Updates
  BY AppliedTyped
<1>2. t \in Seq(Messages) /\ Len(t) = Len(a) /\ \A n \in 1 .. Len(t) : t[n] = Message(a[n])
  BY MessagesAre
<1>3. /\ private_key' = LastValue(a, "PrivateKey", private_key)
      /\ listen_port' = LastValue(a, "ListenPort", listen_port)
      /\ fwmark' = LastValue(a, "Fwmark", fwmark)
      /\ channel' = channel \o t
      /\ udp' = udp /\ port' = port /\ failures' = failures
  BY DEF Set, socket
<1> HIDE DEF a, t
<1>4. private_key' \in BOOLEAN /\ (private_key' => private_key \/ Coming(t, "NewPrivateKey"))
  <2>1. CASE private_key' = private_key
    BY <2>1 DEF ListenInv
  <2>2. ASSUME NEW n \in 1 .. Len(a), a[n].update = "PrivateKey", private_key' = a[n].value
        PROVE  private_key' \in BOOLEAN /\ (private_key' => Coming(t, "NewPrivateKey"))
    <3>1. /\ private_key' \in BOOLEAN
          /\ private_key' => Message(a[n]).event = "NewPrivateKey"
      BY <1>1, <2>2, MessageIs, SMTT(30)
    <3> QED BY <1>2, <2>2, <3>1, SMTT(30) DEF Coming
  <2>3. \/ private_key' = private_key
        \/ \E n \in 1 .. Len(a) : /\ a[n].update = "PrivateKey" /\ private_key' = a[n].value
    <3>1. LET v == LastValue(a, "PrivateKey", private_key)
          IN  \/ v = private_key /\ \A n \in 1 .. Len(a) : a[n].update # "PrivateKey"
              \/ \E n \in 1 .. Len(a) : /\ a[n].update = "PrivateKey" /\ v = a[n].value
                                        /\ \A m \in 1 .. Len(a) : m > n => a[m].update # "PrivateKey"
      <4>1. a \in Seq(Updates)
        BY <1>1, Zenon
      <4> QED BY <4>1, LastValueIs, SMTT(30)
    <3> QED BY <1>3, <3>1, Zenon
  <2> QED BY <2>1, <2>2, <2>3, ZenonT(60)
<1>5. /\ listen_port' \in Ports \cup {NONE}
      /\ listen_port' = listen_port \/ Coming(t, "NewListenPort")
  <2>1. CASE listen_port' = listen_port
    BY <2>1, SMTT(30) DEF ListenInv
  <2>2. ASSUME NEW n \in 1 .. Len(a), a[n].update = "ListenPort", listen_port' = a[n].value
        PROVE  listen_port' \in Ports /\ Coming(t, "NewListenPort")
    <3>1. listen_port' \in Ports /\ Message(a[n]).event = "NewListenPort"
      BY <1>1, <2>2, MessageIs, SMTT(30)
    <3> QED BY <1>2, <2>2, <3>1, SMTT(30) DEF Coming
  <2>3. \/ listen_port' = listen_port
        \/ \E n \in 1 .. Len(a) : /\ a[n].update = "ListenPort" /\ listen_port' = a[n].value
    <3>1. LET v == LastValue(a, "ListenPort", listen_port)
          IN  \/ v = listen_port /\ \A n \in 1 .. Len(a) : a[n].update # "ListenPort"
              \/ \E n \in 1 .. Len(a) : /\ a[n].update = "ListenPort" /\ v = a[n].value
                                        /\ \A m \in 1 .. Len(a) : m > n => a[m].update # "ListenPort"
      <4>1. a \in Seq(Updates)
        BY <1>1, Zenon
      <4> QED BY <4>1, LastValueIs, SMTT(30)
    <3> QED BY <1>3, <3>1, Zenon
  <2> QED BY <2>1, <2>2, <2>3, ZenonT(60)
<1>6. /\ fwmark' \in Marks \cup {NONE}
      /\ fwmark' = fwmark \/ Coming(t, "NewFwmark")
      /\ ~Coming(t, "NewFwmark") => fwmark' = fwmark
      /\ LastMark(t, fwmark')
  <2>1. ASSUME fwmark' = fwmark, \A n \in 1 .. Len(a) : a[n].update # "Fwmark"
        PROVE  fwmark' \in Marks \cup {NONE} /\ LastMark(t, fwmark')
    <3>1. \A n \in 1 .. Len(t) : t[n].event # "NewFwmark"
      BY <1>1, <1>2, <2>1, MessageIs, SMTT(30)
    <3> QED BY <2>1, <3>1, SMTT(30) DEF ListenInv, LastMark
  <2>2. ASSUME NEW n \in 1 .. Len(a), a[n].update = "Fwmark", fwmark' = a[n].value,
               \A m \in 1 .. Len(a) : m > n => a[m].update # "Fwmark"
        PROVE  fwmark' \in Marks /\ Coming(t, "NewFwmark") /\ LastMark(t, fwmark')
    <3>1. \A m \in 1 .. Len(t) : t[m].event = "NewFwmark" <=> a[m].update = "Fwmark"
      BY <1>1, <1>2, MessageIs, SMTT(30)
    <3>2. fwmark' \in Marks /\ t[n].mark = fwmark' /\ n \in 1 .. Len(t)
      BY <1>1, <1>2, <2>2, MessageIs, SMTT(30)
    <3>3. ASSUME NEW k \in 1 .. Len(t), t[k].event = "NewFwmark",
                 \A m \in 1 .. Len(t) : m > k => t[m].event # "NewFwmark"
          PROVE  k = n
      <4>1. ~(k > n) /\ ~(n > k)
        BY <1>2, <2>2, <3>1, <3>3, SMTT(30)
      <4> QED BY <4>1
    <3> QED BY <2>2, <3>1, <3>2, <3>3, Zenon DEF Coming, LastMark
  <2>3. \/ fwmark' = fwmark /\ \A n \in 1 .. Len(a) : a[n].update # "Fwmark"
        \/ \E n \in 1 .. Len(a) : /\ a[n].update = "Fwmark" /\ fwmark' = a[n].value
                               /\ \A m \in 1 .. Len(a) : m > n => a[m].update # "Fwmark"
    <3>1. LET v == LastValue(a, "Fwmark", fwmark)
          IN  \/ v = fwmark /\ \A n \in 1 .. Len(a) : a[n].update # "Fwmark"
              \/ \E n \in 1 .. Len(a) : /\ a[n].update = "Fwmark" /\ v = a[n].value
                                        /\ \A m \in 1 .. Len(a) : m > n => a[m].update # "Fwmark"
      <4>1. a \in Seq(Updates)
        BY <1>1, Zenon
      <4> QED BY <4>1, LastValueIs, SMTT(30)
    <3> QED BY <1>3, <3>1, Zenon
  <2> QED BY <2>1, <2>2, <2>3, Zenon
<1>7. channel' \in Seq(Messages) /\ LastMark(channel', fwmark')
  BY <1>2, <1>3, <1>6, ConcatProperties, LastMarkGrows, SMTT(30) DEF ListenInv
<1>8. \A e : Coming(channel, e) \/ Coming(t, e) => Coming(channel', e)
  BY <1>2, <1>3, StillComing, SMTT(30) DEF ListenInv
<1> QED BY <1>3, <1>4, <1>5, <1>6, <1>7, <1>8, SMTT(30) DEF ListenInv, PortIsSockets, unwrap_or_0

\* The peer server takes a message out: all others are still on their way.
LEMMA Received ==
  ASSUME ListenInv, NEW e, Receive(e)
  PROVE  /\ channel' \in Seq(Messages) /\ Head(channel) \in Messages /\ Head(channel).event = e
         /\ LastMark(channel', fwmark)
         /\ \A f : Coming(channel, f) /\ f # e => Coming(channel', f)
         /\ e = "NewFwmark" => Coming(channel', "NewFwmark") \/ Head(channel).mark = fwmark
<1>1. /\ channel \in Seq(Messages) /\ channel # <<>> /\ channel' = Tail(channel)
      /\ Head(channel).event = e /\ LastMark(channel, fwmark)
  BY DEF ListenInv, Receive
<1>2. /\ channel' \in Seq(Messages) /\ Len(channel) \in Nat /\ Len(channel') = Len(channel) - 1
      /\ Head(channel) = channel[1] /\ 1 \in 1 .. Len(channel)
      /\ \A n \in 1 .. Len(channel') : channel'[n] = channel[n + 1]
  BY <1>1
<1>3. \A n \in 1 .. Len(channel) : n = 1 \/ (n - 1 \in 1 .. Len(channel') /\ channel'[n - 1] = channel[n])
  BY <1>2
<1>4. LastMark(channel', fwmark)
  <2> SUFFICES ASSUME NEW n \in 1 .. Len(channel'), channel'[n].event = "NewFwmark",
                      \A m \in 1 .. Len(channel') : m > n => channel'[m].event # "NewFwmark"
               PROVE  channel'[n].mark = fwmark
    BY DEF LastMark
  <2>1. n + 1 \in 1 .. Len(channel) /\ channel[n + 1] = channel'[n]
    BY <1>2
  <2>2. ASSUME NEW m \in 1 .. Len(channel), m > n + 1
        PROVE  channel[m].event # "NewFwmark"
    <3>1. m - 1 \in 1 .. Len(channel') /\ channel'[m - 1] = channel[m] /\ m - 1 > n
      BY <1>2, <1>3, <2>2, SMTT(30)
    <3> QED BY <3>1
  <2> QED BY <1>1, <2>1, <2>2, SMTT(30) DEF LastMark
<1>5. ASSUME NEW f, Coming(channel, f), f # e
      PROVE  Coming(channel', f)
  BY <1>1, <1>2, <1>3, <1>5, Zenon DEF Coming
<1>6. ASSUME e = "NewFwmark", ~Coming(channel', "NewFwmark")
      PROVE  Head(channel).mark = fwmark
  <2>1. \A m \in 1 .. Len(channel) : m > 1 => channel[m].event # "NewFwmark"
    BY <1>3, <1>6 DEF Coming
  <2> QED BY <1>1, <1>2, <1>6, <2>1, SMTT(30) DEF LastMark
<1> QED BY <1>1, <1>2, <1>4, <1>5, <1>6, SMTT(30)

\* rebind, and the arms of handle_incoming_event.
LEMMA HandledListen ==
  ASSUME ListenInv, handle_incoming_event
  PROVE  ListenInv'
<1> DEFINE p0 == unwrap_or_0(listen_port)
           m0 == unwrap_or_0(fwmark)
<1>1. p0 \in Ports /\ m0 \in Marks /\ p0 # NONE
  BY ListenerConstants DEF unwrap_or_0, ListenInv
<1>2. private_key' = private_key /\ listen_port' = listen_port /\ fwmark' = fwmark
  BY DEF handle_incoming_event, NewPrivateKey, ClearPrivateKey, NewListenPort,
         NewFwmark, info
<1>3. /\ (unwrap_or_0(listen_port))' = p0
      /\ (unwrap_or_0(fwmark))' = m0
  BY <1>2 DEF unwrap_or_0
<1> DEFINE Bound == udp' = [port |-> p0, mark |-> m0] /\ port' = p0
           Closed == udp' = NONE /\ port' = NONE
           Same == udp' = udp /\ port' = port
<1>4. rebind_ok =>
        /\ failures' = failures
        /\ \/ ~private_key /\ Closed
           \/ private_key /\ port = p0 /\ Same
           \/ private_key /\ Bound
  BY DEF rebind_ok, bind, socket
<1>5. rebind_fails => Same /\ failures' \in Nat /\ failures' # 0
  BY DEF rebind_fails, Fails, socket, ListenInv
<1> HIDE DEF p0, m0
<1>6. Bound => /\ udp' # NONE /\ udp'.port = p0 /\ udp'.mark = m0
                /\ udp' \in [port : Ports, mark : Marks]
  BY <1>1, ListenerConstants, SMTT(30)
<1>7. ASSUME Receive("NewPrivateKey"),
             \/ Closed /\ ~private_key /\ failures' = failures
             \/ Same /\ udp # NONE /\ failures' = failures
             \/ Bound /\ failures' = failures
             \/ Same /\ failures' \in Nat /\ failures' # 0
      PROVE  ListenInv'
  <2>1. /\ channel' \in Seq(Messages) /\ LastMark(channel', fwmark)
        /\ \A f : Coming(channel, f) /\ f # "NewPrivateKey" => Coming(channel', f)
    BY <1>7, Received, SMTT(30)
  <2> QED BY <1>1, <1>2, <1>3, <1>7, <1>6, <2>1, SMTT(30) DEF ListenInv, PortIsSockets, p0, m0
<1>8. ASSUME Receive("NewListenPort"),
             \/ Closed /\ ~private_key /\ failures' = failures
             \/ Same /\ port = p0 /\ failures' = failures
             \/ Bound /\ failures' = failures
             \/ Same /\ failures' \in Nat /\ failures' # 0
      PROVE  ListenInv'
  <2>1. /\ channel' \in Seq(Messages) /\ LastMark(channel', fwmark)
        /\ \A f : Coming(channel, f) /\ f # "NewListenPort" => Coming(channel', f)
    BY <1>8, Received, SMTT(30)
  <2> QED BY <1>1, <1>2, <1>3, <1>8, <1>6, <2>1, SMTT(30) DEF ListenInv, PortIsSockets, p0, m0
<1>9. CASE NewPrivateKey
  BY <1>4, <1>5, <1>7, <1>9, <1>1, SMTT(30) DEF NewPrivateKey, socket, ListenInv, PortIsSockets
<1>10. CASE NewListenPort
  BY <1>4, <1>5, <1>8, <1>10, SMTT(30) DEF NewListenPort
<1>11. CASE ClearPrivateKey
  <2>1. /\ channel' \in Seq(Messages) /\ LastMark(channel', fwmark)
        /\ \A f : Coming(channel, f) /\ f # "ClearPrivateKey" => Coming(channel', f)
    BY <1>11, Received, SMTT(30) DEF ClearPrivateKey
  <2>2. Same /\ failures' = failures
    BY <1>11, SMTT(30) DEF ClearPrivateKey, socket
  <2> QED BY <1>2, <1>3, <2>1, <2>2, SMTT(30) DEF ListenInv, PortIsSockets, p0, m0
<1>12. CASE NewFwmark
  <2>1. /\ channel' \in Seq(Messages) /\ LastMark(channel', fwmark) /\ Head(channel).mark \in Marks
        /\ \A f : Coming(channel, f) /\ f # "NewFwmark" => Coming(channel', f)
        /\ Coming(channel', "NewFwmark") \/ Head(channel).mark = fwmark
    BY <1>12, Received, SMTT(30) DEF NewFwmark, Messages
  <2>2. Head(channel).mark = fwmark => m0 = fwmark
    BY <2>1, ListenerConstants, SMTT(30) DEF m0, unwrap_or_0
  <2>3. port' = port
    BY <1>12, SMTT(30) DEF NewFwmark
  <2>4. CASE udp = NONE /\ udp' = udp /\ failures' = failures
    BY <1>2, <1>3, <2>1, <2>3, <2>4, SMTT(30) DEF ListenInv, PortIsSockets
  <2>5. CASE udp # NONE /\ udp' = [udp EXCEPT !.mark = Head(channel).mark] /\ failures' = failures
    <3>1. /\ udp' \in [port : Ports, mark : Marks] /\ udp'.port = udp.port
          /\ udp'.mark = Head(channel).mark
      BY <2>1, <2>5, SMTT(30) DEF ListenInv
    <3>2. udp' # NONE
      BY <3>1, ListenerConstants, SMTT(30)
    <3> QED BY <1>2, <1>3, <2>1, <2>2, <2>3, <2>5, <3>1, <3>2, SMTT(30) DEF ListenInv, PortIsSockets, p0, m0
  <2>6. CASE udp' = udp /\ failures' \in Nat /\ failures' # 0
    BY <1>2, <1>3, <2>1, <2>3, <2>6, SMTT(30) DEF ListenInv, PortIsSockets
  <2>7. Fails => failures' \in Nat /\ failures' # 0
    BY DEF Fails, ListenInv
  <2> QED BY <1>12, <2>4, <2>5, <2>6, <2>7, SMTT(30) DEF NewFwmark
<1> QED BY <1>9, <1>10, <1>11, <1>12, SMTT(30) DEF handle_incoming_event

LEMMA ListenStep ==
  ASSUME ListenInv, [Next]_vars
  PROVE  ListenInv'
<1>1. CASE UNCHANGED vars
  BY <1>1 DEF vars, info, socket, ListenInv, PortIsSockets, unwrap_or_0,
              LastMark, Coming
<1>2. \A updates \in BoundedSeq(Updates, MaxUpdates) : updates \in Seq(Updates)
  <2>1. MaxUpdates \in Nat
    BY ListenerConstants
  <2>2. ASSUME NEW n \in 0 .. MaxUpdates, NEW updates \in [1 .. n -> Updates]
        PROVE  updates \in Seq(Updates)
    BY <2>1, <2>2, IsASeq, SMTT(30)
  <2> QED BY <2>2 DEF BoundedSeq, SeqOf
<1> QED BY <1>1, <1>2, SetListen, HandledListen, SMTT(30) DEF Next

\* Whatever is configured, in commands that succeed or end half-way, and however
\* late the messages are handled: unless a bind or set_mark failed, the socket
\* ends up with the configured port and mark.
THEOREM SocketFollows == Spec => []SocketMatchesConfig
<1>1. ListenInv /\ [Next]_vars => ListenInv'
  BY ListenStep
<1>2. ListenInv => SocketMatchesConfig
  <2> SUFFICES ASSUME ListenInv, channel = <<>>, failures = 0, private_key
               PROVE  udp = [port |-> unwrap_or_0(listen_port), mark |-> unwrap_or_0(fwmark)]
    BY DEF SocketMatchesConfig
  <2>1. \A e : ~Coming(channel, e)
    BY DEF Coming
  <2>2. udp \in [port : Ports, mark : Marks]
    BY <2>1, SMTT(30) DEF ListenInv
  <2>3. udp # NONE
    BY <2>1 DEF ListenInv
  <2>4. udp.port = unwrap_or_0(listen_port) /\ udp.mark = unwrap_or_0(fwmark)
    BY <2>1, <2>3, SMTT(30) DEF ListenInv
  <2> QED BY <2>2, <2>4, SMTT(30)
<1> QED BY <1>1, <1>2, ListenInit, PTL DEF Spec

\* PeerServer.port is the port of the socket, also after failures.
THEOREM PortNoted == Spec => []PortIsSockets
<1>1. ListenInv /\ [Next]_vars => ListenInv'
  BY ListenStep
<1>2. ListenInv => PortIsSockets
  BY DEF ListenInv
<1> QED BY <1>1, <1>2, ListenInit, PTL DEF Spec
=============================================================================
