-------------------------- MODULE KeepaliveProofs --------------------------
(***************************************************************************)
(* Proofs about Keepalive: neither chain of timers is lost or doubled      *)
(* except by a failed send, for every timeout, set of intervals and number *)
(* of tasks.                                                               *)
(***************************************************************************)
EXTENDS Keepalive, FiniteSetTheorems, SequenceTheorems, WellFoundedInduction, TLAPS

(***************************************************************************)
(* The inductive invariant.  The messages in the channel have left the     *)
(* tasks that sent them free, so that a handler finds one for the next     *)
(* delay; a handle cancels nothing but a persistent timer; and a chain is  *)
(* either a task or a message.                                             *)
(***************************************************************************)
Live(chain) == {t \in Pending : delays[t].chain = chain /\ ~delays[t].canceled}
Queued(chain) == {n \in 1 .. Len(channel) : channel[n] = chain}

Room == Cardinality(Pending) + Len(channel) <= Cardinality(Tasks)

HandleInv == persistent_timer # NONE =>
  /\ persistent_timer \in Pending
  /\ delays[persistent_timer].chain = "persistent"

PassiveInv ==
  \/ "passive" \in failed /\ Live("passive") = {} /\ Queued("passive") = {}
  \/ /\ "passive" \notin failed
     /\ \/ Queued("passive") = {} /\ \E t \in Tasks : Live("passive") = {t}
        \/ Live("passive") = {} /\ \E n \in 1 .. Len(channel) : Queued("passive") = {n}

PersistentInv ==
  persistent_keepalive(keepalive) /\ "persistent" \notin failed =>
    Live("persistent") # {} \/ Queued("persistent") # {}

ChainInv == TypeOK /\ Room /\ HandleInv /\ PassiveInv /\ PersistentInv

-----------------------------------------------------------------------------
(* The operators of the model *)

LEMMA Least ==
  ASSUME NEW S \in SUBSET Nat, S # {}
  PROVE  \E m \in S : \A n \in S : m <= n
<1> DEFINE R == OpToRel(<, Nat)
<1>1. IsWellFoundedOn(R, Nat)
  BY NatLessThanWellFounded
<1> HIDE DEF R
<1>2. PICK m \in S : \A n \in S : ~(<<n, m>> \in R)
  BY <1>1, WFMin, Zenon
<1>3. \A n \in S : n < m => <<n, m>> \in R
  BY DEF R, OpToRel
<1>4. \A n \in S : ~(n < m)
  BY <1>2, <1>3, Zenon
<1> QED BY <1>4

\* By the smallest set without a greatest element.
LEMMA FiniteHasGreatest ==
  ASSUME NEW S \in SUBSET Nat, IsFiniteSet(S), S # {}
  PROVE  \E n \in S : \A m \in S : m <= n
<1> DEFINE Has(T) == \E n \in T : \A m \in T : m <= n
           Bad == {T \in SUBSET Nat : IsFiniteSet(T) /\ T # {} /\ ~Has(T)}
           Sizes == {Cardinality(T) : T \in Bad}
<1> SUFFICES ASSUME S \in Bad PROVE FALSE
  OBVIOUS
<1>1. Sizes \in SUBSET Nat /\ Sizes # {}
  BY FS_CardinalityType
<1>2. PICK c \in Sizes : \A n \in Sizes : c <= n
  <2> HIDE DEF Sizes
  <2> QED BY <1>1, Least
<1>3. PICK T \in Bad : c = Cardinality(T)
  BY <1>2
<1>4. PICK x : x \in T
  BY <1>3
<1> DEFINE U == T \ {x}
<1>5. IsFiniteSet(U) /\ Cardinality(U) = Cardinality(T) - 1
  BY <1>3, <1>4, FS_RemoveElement, SMTT(30)
<1>6. x \in Nat /\ T \in SUBSET Nat /\ U \in SUBSET Nat /\ T = U \cup {x}
  BY <1>3, <1>4
<1>7. CASE U = {}
  <2>1. Has(T)
    BY <1>6, <1>7
  <2> QED BY <1>3, <2>1
<1>8. CASE U # {}
  <2>1. U \notin Bad
    <3>1. Cardinality(T) \in Nat
      BY <1>3, FS_CardinalityType
    <3>2. U \in Bad => Cardinality(T) <= Cardinality(U)
      BY <1>2, <1>3, Zenon
    <3> QED BY <1>5, <3>1, <3>2
  <2>2. PICK g \in U : \A m \in U : m <= g
    BY <1>5, <1>6, <1>8, <2>1
  <2>3. Has(T)
    <3>1. g \in Nat /\ g \in T /\ x \in T
      BY <1>6, <2>2
    <3>2. CASE g <= x
      BY <1>6, <2>2, <3>1, <3>2
    <3>3. CASE x <= g
      BY <1>6, <2>2, <3>1, <3>3
    <3> QED BY <1>6, <3>1, <3>2, <3>3
  <2> QED BY <1>3, <2>3
<1> QED BY <1>7, <1>8

LEMMA MaxAgeBounds ==
  MaxAge \in Nat /\ \A k \in Intervals : k <= MaxAge
<1> DEFINE S == Intervals \cup {0}
<1>1. S \in SUBSET Nat /\ IsFiniteSet(S) /\ S # {}
  BY KeepaliveConstants, FS_AddElement
<1>2. \E n \in S : \A m \in S : m <= n
  <2> HIDE DEF S
  <2> QED BY <1>1, FiniteHasGreatest
<1>3. Greatest(S) \in S /\ \A m \in S : m <= Greatest(S)
  <2> HIDE DEF S
  <2> QED BY <1>2 DEF Greatest
<1> QED BY <1>1, <1>3 DEF MaxAge

\* A task is free while a message is handled, and when there is room for an update.
LEMMA FreeTask ==
  ASSUME TypeOK, Room,
         channel # <<>> \/ Cardinality(Pending) + Len(channel) < Cardinality(Tasks)
  PROVE  \E t \in Tasks : delays[t] = NONE
<1>1. Pending \in SUBSET Tasks /\ IsFiniteSet(Tasks)
  BY KeepaliveConstants DEF Pending
<1>2. Cardinality(Pending) \in Nat /\ Cardinality(Tasks) \in Nat
  BY <1>1, FS_Subset, FS_CardinalityType
<1>3. Len(channel) \in Nat /\ (channel # <<>> => Len(channel) > 0)
  BY DEF TypeOK
<1>4. Cardinality(Pending) < Cardinality(Tasks)
  BY <1>2, <1>3 DEF Room
<1>5. Pending # Tasks
  BY <1>2, <1>4
<1> QED BY <1>1, <1>5 DEF Pending

\* Timer::send_after takes a free task and leaves the others alone.
LEMMA Armed ==
  ASSUME NEW tasks \in [Tasks -> Delay \cup {NONE}], \E t \in Tasks : tasks[t] = NONE,
         NEW chain \in Chains, NEW delay \in 0 .. KEEPALIVE_TIMEOUT + MaxAge
  PROVE  /\ send_after(tasks, chain, delay) \in [Tasks -> Delay \cup {NONE}]
         /\ NewTask(tasks) \in Tasks /\ tasks[NewTask(tasks)] = NONE
         /\ \A t \in Tasks : t # NewTask(tasks) =>
              send_after(tasks, chain, delay)[t] = tasks[t]
         /\ send_after(tasks, chain, delay)[NewTask(tasks)] # NONE
         /\ send_after(tasks, chain, delay)[NewTask(tasks)].chain = chain
         /\ ~send_after(tasks, chain, delay)[NewTask(tasks)].canceled
<1> DEFINE n == NewTask(tasks)
           d == [chain |-> chain, left |-> delay + TIMER_SLACK, canceled |-> FALSE]
<1>1. n \in Tasks /\ tasks[n] = NONE
  BY DEF NewTask
<1>2. d \in Delay
  <2>1. MaxAge \in Nat /\ KEEPALIVE_TIMEOUT \in Nat /\ TIMER_SLACK \in Nat
    BY KeepaliveConstants, MaxAgeBounds
  <2>2. delay + TIMER_SLACK \in 0 .. KEEPALIVE_TIMEOUT + MaxAge + TIMER_SLACK
    <3> HIDE DEF d
    <3> QED BY <2>1
  <2> QED BY <2>2 DEF Delay
<1>3. d.chain = chain /\ ~d.canceled /\ d # NONE
  BY <1>2, KeepaliveConstants, Zenon
<1> HIDE DEF n, d
<1>4. send_after(tasks, chain, delay) = [tasks EXCEPT ![n] = d]
  BY DEF send_after, n, d
<1>5. [tasks EXCEPT ![n] = d] \in [Tasks -> Delay \cup {NONE}]
  BY <1>1, <1>2
<1>6. [tasks EXCEPT ![n] = d][n] = d /\ \A t \in Tasks : t # n => [tasks EXCEPT ![n] = d][t] = tasks[t]
  BY <1>1
<1> QED BY <1>1, <1>3, <1>4, <1>5, <1>6 DEF n

\* TimerHandle::cancel ends no task and touches only persistent timers.
LEMMA Cancelled ==
  ASSUME TypeOK, HandleInv
  PROVE  /\ cancel(delays, persistent_timer) \in [Tasks -> Delay \cup {NONE}]
         /\ \A t \in Tasks :
              /\ cancel(delays, persistent_timer)[t] = NONE <=> delays[t] = NONE
              /\ delays[t] # NONE =>
                   /\ cancel(delays, persistent_timer)[t].chain = delays[t].chain
                   /\ delays[t].chain = "passive" =>
                        cancel(delays, persistent_timer)[t] = delays[t]
<1> DEFINE p == persistent_timer
           d == [delays[p] EXCEPT !.canceled = TRUE]
<1>1. CASE p = NONE
  BY <1>1 DEF cancel, TypeOK
<1>2. CASE p # NONE
  <2>1. p \in Tasks /\ delays[p] \in Delay /\ delays[p].chain = "persistent"
    BY <1>2 DEF HandleInv, Pending, TypeOK
  <2>2. d \in Delay /\ d.chain = "persistent"
    BY <2>1, Zenon DEF Delay
  <2>3. d # NONE /\ delays[p] # NONE
    BY <2>1, <2>2, KeepaliveConstants, Zenon
  <2> HIDE DEF d
  <2>4. cancel(delays, p) = [delays EXCEPT ![p] = d]
    BY <1>2 DEF cancel, d
  <2>5. delays \in [Tasks -> Delay \cup {NONE}]
    BY DEF TypeOK
  <2>6. [delays EXCEPT ![p] = d] \in [Tasks -> Delay \cup {NONE}]
    BY <2>1, <2>2, <2>5
  <2>7. [delays EXCEPT ![p] = d][p] = d
        /\ \A t \in Tasks : t # p => [delays EXCEPT ![p] = d][t] = delays[t]
    BY <2>1, <2>5
  <2> HIDE DEF p
  <2>8. \A t \in Tasks :
              /\ cancel(delays, p)[t] = NONE <=> delays[t] = NONE
              /\ delays[t] # NONE =>
                   /\ cancel(delays, p)[t].chain = delays[t].chain
                   /\ delays[t].chain = "passive" => cancel(delays, p)[t] = delays[t]
    <3> SUFFICES ASSUME NEW t \in Tasks
                 PROVE  /\ cancel(delays, p)[t] = NONE <=> delays[t] = NONE
                        /\ delays[t] # NONE =>
                             /\ cancel(delays, p)[t].chain = delays[t].chain
                             /\ delays[t].chain = "passive" => cancel(delays, p)[t] = delays[t]
      OBVIOUS
    <3>1. CASE t = p
      BY <2>1, <2>2, <2>3, <2>4, <2>7, <3>1, SMTT(30)
    <3>2. CASE t # p
      BY <2>4, <2>7, <3>2
    <3> QED BY <3>1, <3>2
  <2> QED BY <2>4, <2>6, <2>8 DEF p
<1> QED BY <1>1, <1>2

\* A new task next to the ones that run.
LEMMA OneMorePending ==
  ASSUME NEW n \in Tasks, n \notin Pending, Pending' = Pending \cup {n}
  PROVE  Cardinality(Pending') = Cardinality(Pending) + 1 /\ Cardinality(Pending) \in Nat
<1>1. Pending \in SUBSET Tasks /\ IsFiniteSet(Tasks)
  BY KeepaliveConstants DEF Pending
<1> QED BY <1>1, FS_Subset, FS_AddElement, FS_CardinalityType

\* Handling a message takes the first one out and moves the others up.
LEMMA HandlingQueue ==
  ASSUME TypeOK, NEW chain \in Chains, Handling(chain), NEW other \in Chains
  PROVE  /\ channel' \in Seq(Chains) /\ Len(channel) \in Nat /\ Len(channel) > 0
         /\ Len(channel') = Len(channel) - 1
         /\ 1 \in Queued(other) <=> other = chain
         /\ \A n \in 1 .. Len(channel') : n \in Queued(other)' <=> n + 1 \in Queued(other)
<1>1. channel \in Seq(Chains) /\ channel # <<>> /\ channel' = Tail(channel)
      /\ channel[1] = chain
  BY DEF Handling, TypeOK
<1>2. Len(channel) \in Nat /\ Len(channel) > 0 /\ channel' \in Seq(Chains)
      /\ Len(channel') = Len(channel) - 1
  BY <1>1
<1>3. \A n \in 1 .. Len(channel) - 1 : channel'[n] = channel[n + 1]
  BY <1>1, <1>2
<1>4. \A n \in 1 .. Len(channel') : n \in Queued(other)' <=> n + 1 \in Queued(other)
  BY <1>2, <1>3 DEF Queued
<1> QED BY <1>1, <1>2, <1>4 DEF Queued

\* The passive chain is the message that is being handled.
LEMMA HandlingPassive ==
  ASSUME TypeOK, PassiveInv, Handling("passive")
  PROVE  /\ "passive" \notin failed /\ Live("passive") = {} /\ Queued("passive")' = {}
         /\ Queued("persistent") # {} => Queued("persistent")' # {}
<1>0. {"passive", "persistent"} = Chains
  BY DEF Chains
<1>1. 1 \in Queued("passive") /\ 1 \notin Queued("persistent")
  BY <1>0, HandlingQueue
<1>2. "passive" \notin failed /\ Live("passive") = {} /\ Queued("passive") = {1}
  BY <1>1 DEF PassiveInv
<1>3. Len(channel) \in Nat /\ Len(channel') = Len(channel) - 1
      /\ \A n \in 1 .. Len(channel') : n \in Queued("passive")' <=> n + 1 \in Queued("passive")
  BY <1>0, HandlingQueue
<1>4. Queued("passive")' = {}
  <2>1. \A n \in 1 .. Len(channel') : n + 1 \notin Queued("passive")
    BY <1>2, <1>3
  <2> QED BY <1>3, <2>1 DEF Queued
<1>5. ASSUME NEW n \in Queued("persistent") PROVE Queued("persistent")' # {}
  <2>1. n \in 1 .. Len(channel) /\ n # 1
    BY <1>1, <1>5 DEF Queued
  <2>2. n - 1 \in 1 .. Len(channel') /\ (n - 1) + 1 = n
    BY <1>3, <2>1
  <2>3. n - 1 \in Queued("persistent")' <=> (n - 1) + 1 \in Queued("persistent")
    BY <1>0, <2>2, HandlingQueue
  <2> QED BY <1>5, <2>2, <2>3
<1> QED BY <1>2, <1>4, <1>5

\* A persistent message leaves the passive chain as it is.
LEMMA HandlingPersistent ==
  ASSUME TypeOK, Handling("persistent")
  PROVE  /\ Queued("passive") = {} => Queued("passive")' = {}
         /\ \A n \in 1 .. Len(channel) : Queued("passive") = {n} =>
              \E m \in 1 .. Len(channel') : Queued("passive")' = {m}
<1>0. {"passive", "persistent"} = Chains
  BY DEF Chains
<1>1. Len(channel) \in Nat /\ Len(channel') = Len(channel) - 1 /\ 1 \notin Queued("passive")
      /\ \A n \in 1 .. Len(channel') : n \in Queued("passive")' <=> n + 1 \in Queued("passive")
  BY <1>0, HandlingQueue
<1>2. Queued("passive")' \subseteq 1 .. Len(channel')
  BY DEF Queued
<1>3. Queued("passive") = {} => Queued("passive")' = {}
  BY <1>1, <1>2
<1>4. ASSUME NEW n \in 1 .. Len(channel), Queued("passive") = {n}
      PROVE  \E m \in 1 .. Len(channel') : Queued("passive")' = {m}
  <2>1. n # 1
    BY <1>1, <1>4
  <2>2. n - 1 \in 1 .. Len(channel')
    BY <1>1, <2>1
  <2>3. \A m \in 1 .. Len(channel') : m \in Queued("passive")' <=> m = n - 1
    BY <1>1, <1>4
  <2>4. Queued("passive")' = {n - 1}
    BY <1>2, <2>2, <2>3
  <2> QED BY <2>2, <2>4
<1> QED BY <1>3, <1>4

-----------------------------------------------------------------------------
(* The steps *)

\* Nothing that leaves the timers alone disturbs the chains.
LEMMA TimersAlone ==
  ASSUME ChainInv, UNCHANGED <<timerTasks, failed, keepalive>>
  PROVE  Room' /\ HandleInv' /\ PassiveInv' /\ PersistentInv'
<1>1. UNCHANGED <<delays, channel, persistent_timer, failed, keepalive>>
  BY DEF timerTasks
<1>2. UNCHANGED Pending
  BY <1>1 DEF Pending
<1>3. \A c \in Chains : Live(c)' = Live(c) /\ Queued(c)' = Queued(c)
  BY <1>1, <1>2 DEF Live, Queued
<1>4. "passive" \in Chains /\ "persistent" \in Chains
  BY DEF Chains
<1>5. Room' /\ HandleInv'
  BY <1>1, <1>2 DEF ChainInv, Room, HandleInv
<1>6. PassiveInv'
  BY <1>1, <1>3, <1>4 DEF ChainInv, PassiveInv
<1>7. PersistentInv'
  BY <1>1, <1>3, <1>4 DEF ChainInv, PersistentInv
<1> QED BY <1>5, <1>6, <1>7

LEMMA TickChains ==
  ASSUME ChainInv, Tick
  PROVE  ChainInv'
<1>1. UNCHANGED <<keepalive, current, sent_last, keepalive_sent, persistent_timer, channel, failed>>
      /\ sent' = "none"
  BY DEF Tick
<1>2. TypeOK
  BY DEF ChainInv
<1>3. delays' \in [Tasks -> Delay \cup {NONE}]
      /\ \A t \in Tasks : /\ delays'[t] = NONE <=> delays[t] = NONE
                          /\ delays[t] # NONE => /\ delays'[t].chain = delays[t].chain
                                                 /\ delays'[t].canceled = delays[t].canceled
  <2> DEFINE D(t) == IF delays[t] = NONE \/ delays[t].left = 0 THEN delays[t]
                     ELSE [delays[t] EXCEPT !.left = @ - 1]
  <2>1. ASSUME NEW t \in Tasks
        PROVE  /\ D(t) \in Delay \cup {NONE}
               /\ D(t) = NONE <=> delays[t] = NONE
               /\ delays[t] # NONE => /\ D(t).chain = delays[t].chain
                                      /\ D(t).canceled = delays[t].canceled
    <3>1. CASE delays[t] = NONE \/ delays[t].left = 0
      BY <1>2, <3>1 DEF TypeOK
    <3>2. CASE delays[t] # NONE /\ delays[t].left # 0
      <4>1. delays[t] \in Delay
        BY <1>2, <3>2 DEF TypeOK
      <4>2. MaxAge \in Nat /\ KEEPALIVE_TIMEOUT \in Nat /\ TIMER_SLACK \in Nat
        BY KeepaliveConstants, MaxAgeBounds
      <4>3. delays[t].left - 1 \in 0 .. KEEPALIVE_TIMEOUT + MaxAge + TIMER_SLACK
        BY <3>2, <4>1, <4>2 DEF Delay
      <4>4. [delays[t] EXCEPT !.left = delays[t].left - 1] \in Delay
        BY <4>1, <4>3 DEF Delay
      <4>5. D(t) = [delays[t] EXCEPT !.left = delays[t].left - 1]
        BY <3>2
      <4>6. [delays[t] EXCEPT !.left = delays[t].left - 1].chain = delays[t].chain
            /\ [delays[t] EXCEPT !.left = delays[t].left - 1].canceled = delays[t].canceled
        BY <4>1 DEF Delay
      <4> HIDE DEF D
      <4> QED BY <3>2, <4>4, <4>5, <4>6, KeepaliveConstants, SMTT(30)
    <3> QED BY <3>1, <3>2
  <2>2. delays' = [t \in Tasks |-> D(t)]
    BY DEF Tick
  <2> HIDE DEF D
  <2> QED BY <2>1, <2>2
<1>4. Pending' = Pending
  BY <1>3 DEF Pending
<1>5. \A c \in Chains : Live(c)' = Live(c) /\ Queued(c)' = Queued(c)
  BY <1>1, <1>3, <1>4 DEF Live, Queued, Pending
<1>6. "passive" \in Chains /\ "persistent" \in Chains
  BY DEF Chains
<1>7. Room' /\ HandleInv'
  BY <1>1, <1>3, <1>4, Zenon DEF ChainInv, Room, HandleInv, Pending
<1>8. PassiveInv' /\ PersistentInv'
  BY <1>1, <1>5, <1>6 DEF ChainInv, PassiveInv, PersistentInv
<1>9. recv_age' \in 0 .. KEEPALIVE_TIMEOUT \cup {NONE} /\ traversed_age' \in 0 .. MaxAge
  BY <1>2, MaxAgeBounds, KeepaliveConstants, SMTT(30) DEF Tick, TypeOK, Older
<1>10. TypeOK'
  BY <1>1, <1>2, <1>3, <1>9, SMTT(30) DEF TypeOK
<1> QED BY <1>7, <1>8, <1>10 DEF ChainInv

\* The end of a delay frees the task; its message takes the task's place in the
\* chain, unless the timer was cancelled and the chain has gone on without it.
LEMMA EndDelayChains ==
  ASSUME ChainInv, NEW t \in Tasks, EndDelay(t)
  PROVE  ChainInv'
<1> USE DEF ChainInv
<1>1. /\ delays[t] # NONE /\ delays' = [delays EXCEPT ![t] = NONE]
      /\ channel' = IF delays[t].canceled THEN channel ELSE Append(channel, delays[t].chain)
      /\ persistent_timer' = IF persistent_timer = t THEN NONE ELSE persistent_timer
      /\ UNCHANGED <<keepalive, current, recv_age, sent_last, traversed_age, keepalive_sent, failed>>
      /\ sent' = "none"
  BY DEF EndDelay, timestamps
<1>2. delays \in [Tasks -> Delay \cup {NONE}] /\ channel \in Seq(Chains) /\ delays[t] \in Delay
  BY <1>1 DEF TypeOK
<1>3. delays[t].chain \in Chains /\ delays[t].canceled \in BOOLEAN
  BY <1>2 DEF Delay
<1>4. delays'[t] = NONE /\ \A u \in Tasks : u # t => delays'[u] = delays[u]
  BY <1>1, <1>2
<1>5. Pending' = Pending \ {t} /\ t \in Pending
  BY <1>1, <1>4 DEF Pending
<1>6. \A c \in Chains : Live(c)' = Live(c) \ {t}
  BY <1>4, <1>5, SMTT(30) DEF Live, Pending
<1>7. channel' \in Seq(Chains) /\ Len(channel) \in Nat
  BY <1>1, <1>2, <1>3, SMTT(30)
<1>8. /\ delays[t].canceled => channel' = channel
      /\ ~delays[t].canceled =>
           /\ Len(channel') = Len(channel) + 1
           /\ channel'[Len(channel) + 1] = delays[t].chain
           /\ \A n \in 1 .. Len(channel) : channel'[n] = channel[n]
  BY <1>1, <1>2, <1>3, SMTT(30)
<1>9. \A c \in Chains : Queued(c)' =
        IF ~delays[t].canceled /\ c = delays[t].chain THEN Queued(c) \cup {Len(channel) + 1}
        ELSE Queued(c)
  <2> SUFFICES ASSUME NEW c \in Chains
               PROVE  Queued(c)' = IF ~delays[t].canceled /\ c = delays[t].chain
                                   THEN Queued(c) \cup {Len(channel) + 1} ELSE Queued(c)
    OBVIOUS
  <2>1. CASE delays[t].canceled
    BY <1>8, <2>1 DEF Queued
  <2>2. CASE ~delays[t].canceled
    <3>1. 1 .. Len(channel') = (1 .. Len(channel)) \cup {Len(channel) + 1}
      BY <1>7, <1>8, <2>2
    <3> QED BY <1>7, <1>8, <2>2, <3>1 DEF Queued
  <2> QED BY <1>3, <2>1, <2>2, SMTT(30)
<1>10. Room'
  <2>1. Pending \in SUBSET Tasks /\ IsFiniteSet(Tasks)
    BY KeepaliveConstants DEF Pending
  <2>2. IsFiniteSet(Pending) /\ Cardinality(Pending) \in Nat /\ Cardinality(Tasks) \in Nat
    BY <2>1, FS_Subset, FS_CardinalityType
  <2>3. Cardinality(Pending') = Cardinality(Pending) - 1
    BY <1>5, <2>2, FS_RemoveElement, Zenon
  <2>4. Len(channel') = Len(channel) \/ Len(channel') = Len(channel) + 1
    BY <1>3, <1>8
  <2> QED BY <1>7, <2>2, <2>3, <2>4, SMTT(30) DEF Room
<1>11. HandleInv'
  BY <1>1, <1>4, <1>5 DEF HandleInv, Pending
<1>12. "passive" \in Chains /\ "persistent" \in Chains /\ "passive" # "persistent"
  BY DEF Chains
<1>13. t \in Live(delays[t].chain) <=> ~delays[t].canceled
  BY <1>5 DEF Live
<1>14. \A c \in Chains : c # delays[t].chain => t \notin Live(c)
  BY DEF Live
<1>15. PassiveInv'
  <2>1. CASE ~delays[t].canceled /\ delays[t].chain = "passive"
    <3>1. t \in Live("passive")
      BY <1>13, <2>1
    <3>2. "passive" \notin failed /\ Live("passive") = {t} /\ Queued("passive") = {}
      BY <3>1 DEF PassiveInv
    <3>3. Live("passive")' = {} /\ Queued("passive")' = {Len(channel) + 1}
      BY <1>6, <1>9, <1>12, <2>1, <3>2
    <3>4. Len(channel) + 1 \in 1 .. Len(channel')
      BY <1>7, <1>8, <2>1
    <3> QED BY <1>1, <3>2, <3>3, <3>4 DEF PassiveInv
  <2>2. CASE ~(~delays[t].canceled /\ delays[t].chain = "passive")
    <3>1. t \notin Live("passive")
      BY <1>12, <1>13, <1>14, <2>2
    <3>2. Live("passive")' = Live("passive") /\ Queued("passive")' = Queued("passive")
      BY <1>6, <1>9, <1>12, <2>2, <3>1, SMTT(30)
    <3>3. 1 .. Len(channel) \subseteq 1 .. Len(channel')
      BY <1>3, <1>7, <1>8
    <3> QED BY <1>1, <3>2, <3>3 DEF PassiveInv
  <2> QED BY <2>1, <2>2
<1>16. PersistentInv'
  <2> SUFFICES ASSUME persistent_keepalive(keepalive), "persistent" \notin failed
               PROVE  Live("persistent")' # {} \/ Queued("persistent")' # {}
    BY <1>1 DEF PersistentInv, persistent_keepalive
  <2>1. Live("persistent") # {} \/ Queued("persistent") # {}
    BY DEF PersistentInv
  <2>2. CASE Queued("persistent") # {}
    BY <1>9, <1>12, <2>2, SMTT(30)
  <2>3. CASE t \in Live("persistent")
    <3>1. ~delays[t].canceled /\ delays[t].chain = "persistent"
      BY <2>3 DEF Live
    <3> QED BY <1>9, <1>12, <3>1, SMTT(30)
  <2>4. CASE Live("persistent") # {} /\ t \notin Live("persistent")
    BY <1>6, <1>12, <2>4, SMTT(30)
  <2> QED BY <2>1, <2>2, <2>3, <2>4, SMTT(30)
<1>17. persistent_timer' \in Tasks \cup {NONE} /\ delays' \in [Tasks -> Delay \cup {NONE}]
  BY <1>1, <1>2, SMTT(30) DEF TypeOK
<1>18. TypeOK'
  BY <1>1, <1>7, <1>17, SMTT(30) DEF TypeOK
<1> QED BY <1>10, <1>11, <1>15, <1>16, <1>18, SMTT(30)

\* What a new delay adds to the chains.
LEMMA ArmedChains ==
  ASSUME TypeOK, \E t \in Tasks : delays[t] = NONE,
         NEW chain \in Chains, NEW delay \in 0 .. KEEPALIVE_TIMEOUT + MaxAge,
         delays' = send_after(delays, chain, delay)
  PROVE  /\ delays' \in [Tasks -> Delay \cup {NONE}]
         /\ NewTask(delays) \in Tasks /\ NewTask(delays) \notin Pending
         /\ \A t \in Pending : delays'[t] = delays[t]
         /\ Pending' = Pending \cup {NewTask(delays)}
         /\ delays'[NewTask(delays)].chain = chain
         /\ \A c \in Chains :
              Live(c)' = IF c = chain THEN Live(c) \cup {NewTask(delays)} ELSE Live(c)
<1> DEFINE n == NewTask(delays)
<1>1. delays \in [Tasks -> Delay \cup {NONE}]
  BY DEF TypeOK
<1>2. /\ delays' \in [Tasks -> Delay \cup {NONE}]
      /\ n \in Tasks /\ delays[n] = NONE
      /\ \A t \in Tasks : t # n => delays'[t] = delays[t]
      /\ delays'[n] # NONE /\ delays'[n].chain = chain /\ ~delays'[n].canceled
  BY <1>1, Armed
<1> HIDE DEF n
<1>3. n \notin Pending /\ Pending' = Pending \cup {n}
  BY <1>2 DEF Pending
<1>4. \A t \in Pending : delays'[t] = delays[t]
  BY <1>2 DEF Pending
<1>5. \A c \in Chains : Live(c)' = IF c = chain THEN Live(c) \cup {n} ELSE Live(c)
  BY <1>2, <1>3, <1>4 DEF Live
<1> QED BY <1>2, <1>3, <1>4, <1>5, SMTT(30) DEF n

\* The task of the new delay takes the room of the message that is handled.
LEMMA RearmRoom ==
  ASSUME ChainInv, NEW chain \in Chains, Handling(chain),
         \/ Pending' = Pending
         \/ \E n \in Tasks : n \notin Pending /\ Pending' = Pending \cup {n}
  PROVE  Room'
<1>1. Len(channel) \in Nat /\ Len(channel') = Len(channel) - 1
  BY HandlingQueue DEF ChainInv
<1>2. Pending \in SUBSET Tasks /\ IsFiniteSet(Tasks)
  BY KeepaliveConstants DEF Pending
<1>3. Cardinality(Pending) \in Nat /\ Cardinality(Tasks) \in Nat
  BY <1>2, FS_Subset, FS_CardinalityType
<1>4. Cardinality(Pending') = Cardinality(Pending) \/ Cardinality(Pending') = Cardinality(Pending) + 1
  BY OneMorePending
<1> QED BY <1>1, <1>3, <1>4, SMTT(30) DEF ChainInv, Room

\* What the chains ask of a step; the rest of TypeOK is about the timestamps.
Chained ==
  /\ delays \in [Tasks -> Delay \cup {NONE}]
  /\ persistent_timer \in Tasks \cup {NONE}
  /\ channel \in Seq(Chains)
  /\ failed \subseteq Chains
  /\ Room /\ HandleInv /\ PassiveInv /\ PersistentInv

\* Every way through the passive handler that goes on with the chain.
LEMMA PassiveRearmed ==
  ASSUME ChainInv, Handling("passive"), NEW d \in 0 .. KEEPALIVE_TIMEOUT + MaxAge,
         rearm_passive(d), UNCHANGED <<failed, keepalive>>
  PROVE  Chained'
<1> USE DEF ChainInv
<1> DEFINE n == NewTask(delays)
<1>0. "passive" \in Chains /\ "persistent" \in Chains /\ "passive" # "persistent"
  BY DEF Chains
<1>1. \E t \in Tasks : delays[t] = NONE
  BY FreeTask DEF Handling
<1>2. delays' = send_after(delays, "passive", d) /\ persistent_timer' = persistent_timer
  BY DEF rearm_passive
<1>3. /\ delays' \in [Tasks -> Delay \cup {NONE}]
      /\ n \in Tasks /\ n \notin Pending
      /\ \A t \in Pending : delays'[t] = delays[t]
      /\ Pending' = Pending \cup {n}
      /\ Live("passive")' = Live("passive") \cup {n}
      /\ Live("persistent")' = Live("persistent")
  BY <1>0, <1>1, <1>2, ArmedChains, SMTT(30)
<1> HIDE DEF n
<1>4. /\ "passive" \notin failed /\ Live("passive") = {} /\ Queued("passive")' = {}
      /\ Queued("persistent") # {} => Queued("persistent")' # {}
  BY HandlingPassive
<1>5. channel' \in Seq(Chains)
  BY <1>0, HandlingQueue
<1>6. Room'
  BY <1>0, <1>3, RearmRoom, SMTT(30)
<1>7. HandleInv'
  BY <1>2, <1>3, SMTT(30) DEF HandleInv
<1>8. PassiveInv'
  BY <1>3, <1>4 DEF PassiveInv
<1>9. PersistentInv'
  BY <1>3, <1>4 DEF PersistentInv, persistent_keepalive
<1>10. persistent_timer' \in Tasks \cup {NONE} /\ failed' \subseteq Chains
  BY <1>2 DEF TypeOK
<1> QED BY <1>3, <1>5, <1>6, <1>7, <1>8, <1>9, <1>10, SMTT(30) DEF Chained

LEMMA PassiveFailed ==
  ASSUME ChainInv, Handling("passive"), failed' = failed \cup {"passive"},
         UNCHANGED <<delays, persistent_timer, keepalive>>
  PROVE  Chained'
<1> USE DEF ChainInv
<1>0. "passive" \in Chains /\ "persistent" \in Chains /\ "passive" # "persistent"
  BY DEF Chains
<1>1. /\ "passive" \notin failed /\ Live("passive") = {} /\ Queued("passive")' = {}
      /\ Queued("persistent") # {} => Queued("persistent")' # {}
  BY HandlingPassive
<1>2. Pending' = Pending
  BY DEF Pending
<1>3. \A c \in Chains : Live(c)' = Live(c)
  BY <1>2 DEF Live
<1>4. channel' \in Seq(Chains)
  BY <1>0, HandlingQueue
<1>5. Room'
  BY <1>0, <1>2, RearmRoom
<1>6. HandleInv'
  BY <1>2 DEF HandleInv
<1>7. PassiveInv'
  BY <1>0, <1>1, <1>3 DEF PassiveInv
<1>8. PersistentInv'
  BY <1>0, <1>1, <1>3 DEF PersistentInv, persistent_keepalive
<1> QED BY <1>0, <1>4, <1>5, <1>6, <1>7, <1>8, SMTT(30) DEF Chained, TypeOK

LEMMA SendType ==
  ASSUME TypeOK, NEW what \in {"data", "keepalive"}, Send(what) \/ SendNothing
  PROVE  /\ recv_age' \in 0 .. KEEPALIVE_TIMEOUT \cup {NONE}
         /\ traversed_age' \in 0 .. MaxAge
         /\ sent_last' \in BOOLEAN
         /\ sent' \in {"none", "data", "keepalive"}
<1>1. CASE Send(what)
  BY <1>1, MaxAgeBounds DEF Send, TypeOK
<1>2. CASE SendNothing
  BY <1>2 DEF SendNothing, timestamps, TypeOK
<1> QED BY <1>1, <1>2

LEMMA PassiveHandler ==
  ASSUME ChainInv, HandlePassiveKeepAlive
  PROVE  ChainInv'
<1> USE DEF ChainInv
<1>0. MaxAge \in Nat /\ KEEPALIVE_TIMEOUT \in Nat /\ NONE \notin Nat
  BY KeepaliveConstants, MaxAgeBounds
<1>1. /\ Handling("passive") /\ UNCHANGED <<keepalive, current>>
      /\ Send("keepalive") \/ SendNothing
      /\ keepalive_sent' \in BOOLEAN
  BY Zenon DEF HandlePassiveKeepAlive, TypeOK
<1>2. Chained'
  <2>1. \/ rearm_passive(KEEPALIVE_TIMEOUT) /\ UNCHANGED failed
        \/ ReceivedLately /\ rearm_passive(KEEPALIVE_TIMEOUT - recv_age) /\ UNCHANGED failed
        \/ failed' = failed \cup {"passive"} /\ UNCHANGED <<delays, persistent_timer>>
    BY DEF HandlePassiveKeepAlive
  <2>2. CASE rearm_passive(KEEPALIVE_TIMEOUT) /\ UNCHANGED failed
    <3>1. KEEPALIVE_TIMEOUT \in 0 .. KEEPALIVE_TIMEOUT + MaxAge
      BY <1>0
    <3> QED BY <1>1, <2>2, <3>1, PassiveRearmed
  <2>3. CASE ReceivedLately /\ rearm_passive(KEEPALIVE_TIMEOUT - recv_age) /\ UNCHANGED failed
    <3>1. KEEPALIVE_TIMEOUT - recv_age \in 0 .. KEEPALIVE_TIMEOUT + MaxAge
      BY <1>0, <2>3 DEF ReceivedLately, TypeOK
    <3> QED BY <1>1, <2>3, <3>1, PassiveRearmed
  <2>4. CASE failed' = failed \cup {"passive"} /\ UNCHANGED <<delays, persistent_timer>>
    BY <1>1, <2>4, PassiveFailed, SMTT(30)
  <2> QED BY <2>1, <2>2, <2>3, <2>4
<1>3. TypeOK'
  BY <1>1, <1>2, SendType, SMTT(30) DEF TypeOK, Chained
<1> QED BY <1>2, <1>3 DEF Chained

\* Every way through the persistent handler, and the update, goes on with the
\* chain by a task that the handle names.
LEMMA PersistentRearmed ==
  ASSUME ChainInv, Handling("persistent"), NEW d \in 0 .. KEEPALIVE_TIMEOUT + MaxAge,
         rearm_persistent(delays, d), UNCHANGED <<failed, keepalive>>
  PROVE  Chained'
<1> USE DEF ChainInv
<1> DEFINE n == NewTask(delays)
<1>0. "passive" \in Chains /\ "persistent" \in Chains /\ "passive" # "persistent"
  BY DEF Chains
<1>1. \E t \in Tasks : delays[t] = NONE
  BY FreeTask DEF Handling
<1>2. delays' = send_after(delays, "persistent", d) /\ persistent_timer' = n
  BY SMTT(30) DEF rearm_persistent
<1>3. /\ delays' \in [Tasks -> Delay \cup {NONE}]
      /\ n \in Tasks /\ n \notin Pending
      /\ delays'[n].chain = "persistent"
      /\ Pending' = Pending \cup {n}
      /\ Live("passive")' = Live("passive")
      /\ Live("persistent")' = Live("persistent") \cup {n}
  BY <1>0, <1>1, <1>2, ArmedChains
<1> HIDE DEF n
<1>4. /\ Queued("passive") = {} => Queued("passive")' = {}
      /\ \A m \in 1 .. Len(channel) : Queued("passive") = {m} =>
           \E k \in 1 .. Len(channel') : Queued("passive")' = {k}
  BY HandlingPersistent
<1>5. channel' \in Seq(Chains)
  BY <1>0, HandlingQueue
<1>6. Room'
  BY <1>0, <1>3, RearmRoom, SMTT(30)
<1>7. HandleInv'
  BY <1>2, <1>3, SMTT(30) DEF HandleInv
<1>8. PassiveInv'
  BY <1>3, <1>4 DEF PassiveInv
<1>9. PersistentInv'
  BY <1>3 DEF PersistentInv
<1> QED BY <1>2, <1>3, <1>5, <1>6, <1>7, <1>8, <1>9, SMTT(30) DEF Chained, TypeOK

\* A send has failed, or no interval is configured any more.
LEMMA PersistentEnded ==
  ASSUME ChainInv, Handling("persistent"),
         UNCHANGED <<delays, persistent_timer, keepalive>>,
         \/ failed' = failed \cup {"persistent"}
         \/ failed' = failed /\ ~persistent_keepalive(keepalive)
  PROVE  Chained'
<1> USE DEF ChainInv
<1>0. "passive" \in Chains /\ "persistent" \in Chains /\ "passive" # "persistent"
  BY DEF Chains
<1>1. /\ Queued("passive") = {} => Queued("passive")' = {}
      /\ \A m \in 1 .. Len(channel) : Queued("passive") = {m} =>
           \E k \in 1 .. Len(channel') : Queued("passive")' = {k}
  BY HandlingPersistent
<1>2. Pending' = Pending
  BY DEF Pending
<1>3. \A c \in Chains : Live(c)' = Live(c)
  BY <1>2 DEF Live
<1>4. channel' \in Seq(Chains)
  BY <1>0, HandlingQueue
<1>5. Room'
  BY <1>0, <1>2, RearmRoom, SMTT(30)
<1>6. HandleInv'
  BY <1>2 DEF HandleInv
<1>7. PassiveInv'
  <2>1. "passive" \in failed' <=> "passive" \in failed
    OBVIOUS
  <2> QED BY <1>0, <1>1, <1>3, <2>1 DEF PassiveInv
<1>8. PersistentInv'
  BY DEF PersistentInv, persistent_keepalive
<1>9. failed' \subseteq Chains
  BY <1>0 DEF TypeOK
<1> QED BY <1>4, <1>5, <1>6, <1>7, <1>8, <1>9, SMTT(30) DEF Chained, TypeOK

LEMMA PersistentHandler ==
  ASSUME ChainInv, HandlePersistentKeepAlive
  PROVE  ChainInv'
<1> USE DEF ChainInv
<1>0. MaxAge \in Nat /\ KEEPALIVE_TIMEOUT \in Nat /\ NONE \notin Nat
      /\ (\A k \in Intervals : k \in Nat /\ k <= MaxAge)
  BY KeepaliveConstants, MaxAgeBounds
<1>1. /\ Handling("persistent") /\ UNCHANGED <<keepalive, current, keepalive_sent>>
      /\ Send("keepalive") \/ SendNothing
  BY DEF HandlePersistentKeepAlive
<1>2. Chained'
  <2>1. \/ /\ persistent_keepalive(keepalive) /\ traversed_age < keepalive
           /\ rearm_persistent(delays, keepalive - traversed_age) /\ UNCHANGED failed
        \/ /\ persistent_keepalive(keepalive)
           /\ rearm_persistent(delays, keepalive) /\ UNCHANGED failed
        \/ /\ failed' = failed \cup {"persistent"} \/ (failed' = failed /\ ~persistent_keepalive(keepalive))
           /\ UNCHANGED <<delays, persistent_timer>>
    BY DEF HandlePersistentKeepAlive
  <2>2. CASE /\ persistent_keepalive(keepalive) /\ traversed_age < keepalive
             /\ rearm_persistent(delays, keepalive - traversed_age) /\ UNCHANGED failed
    <3>1. keepalive \in Intervals /\ traversed_age \in 0 .. MaxAge
      BY <2>2 DEF TypeOK, persistent_keepalive
    <3>2. keepalive - traversed_age \in 0 .. KEEPALIVE_TIMEOUT + MaxAge
      BY <1>0, <2>2, <3>1
    <3> QED BY <1>1, <2>2, <3>2, PersistentRearmed
  <2>3. CASE /\ persistent_keepalive(keepalive)
             /\ rearm_persistent(delays, keepalive) /\ UNCHANGED failed
    <3>1. keepalive \in Intervals
      BY <2>3 DEF TypeOK, persistent_keepalive
    <3>2. keepalive \in 0 .. KEEPALIVE_TIMEOUT + MaxAge
      BY <1>0, <3>1
    <3> QED BY <1>1, <2>3, <3>2, PersistentRearmed
  <2>4. CASE /\ failed' = failed \cup {"persistent"} \/ (failed' = failed /\ ~persistent_keepalive(keepalive))
             /\ UNCHANGED <<delays, persistent_timer>>
    BY <1>1, <2>4, PersistentEnded, SMTT(30)
  <2> QED BY <2>1, <2>2, <2>3, <2>4
<1>3. TypeOK'
  BY <1>1, <1>2, SendType DEF TypeOK, Chained
<1> QED BY <1>2, <1>3 DEF Chained

\* The update cancels a persistent timer at most, and where it configures an
\* interval it arms the new one whether or not the keepalive goes out.
LEMMA Updated ==
  ASSUME ChainInv, NEW k \in Intervals \cup {0}, UpdateKeepalive(k)
  PROVE  ChainInv'
<1> USE DEF ChainInv
<1> DEFINE old == cancel(delays, persistent_timer)
           n == NewTask(old)
<1>0. /\ "passive" \in Chains /\ "persistent" \in Chains /\ "passive" # "persistent"
      /\ MaxAge \in Nat /\ KEEPALIVE_TIMEOUT \in Nat /\ NONE \notin Nat
      /\ (\A i \in Intervals : i \in Nat /\ i <= MaxAge)
  BY KeepaliveConstants, MaxAgeBounds DEF Chains
<1>1. /\ Cardinality(Pending) + Len(channel) < Cardinality(Tasks)
      /\ keepalive' = k /\ failed' = failed \ {"persistent"}
      /\ UNCHANGED <<current, keepalive_sent, channel>>
      /\ Send("keepalive") \/ SendNothing
  BY DEF UpdateKeepalive
<1>2. PICK free \in Tasks : delays[free] = NONE
  BY <1>1, FreeTask, SMTT(30)
<1>3. /\ old \in [Tasks -> Delay \cup {NONE}]
      /\ \A t \in Tasks :
           /\ old[t] = NONE <=> delays[t] = NONE
           /\ delays[t] # NONE =>
                /\ old[t].chain = delays[t].chain
                /\ delays[t].chain = "passive" => old[t] = delays[t]
  BY Cancelled
<1>4. IF persistent_keepalive(k)
      THEN delays' = send_after(old, "persistent", k) /\ persistent_timer' = n
      ELSE delays' = old /\ persistent_timer' = persistent_timer
  BY DEF UpdateKeepalive, rearm_persistent
<1> HIDE DEF old, n
<1>5. Queued("passive")' = Queued("passive")
  BY <1>1, SMTT(30) DEF Queued
<1>6. TypeOK /\ Len(channel) \in Nat /\ Cardinality(Pending) \in Nat /\ Cardinality(Tasks) \in Nat
  <2>1. Pending \in SUBSET Tasks /\ IsFiniteSet(Tasks)
    BY KeepaliveConstants DEF Pending
  <2> QED BY <2>1, FS_Subset, FS_CardinalityType, SMTT(30) DEF TypeOK
<1>7. CASE persistent_keepalive(k)
  <2>1. k \in 0 .. KEEPALIVE_TIMEOUT + MaxAge
    BY <1>0, <1>7 DEF persistent_keepalive
  <2>2. old[free] = NONE
    BY <1>2, <1>3, SMTT(30)
  <2>3. /\ delays' \in [Tasks -> Delay \cup {NONE}]
        /\ n \in Tasks /\ old[n] = NONE
        /\ \A t \in Tasks : t # n => delays'[t] = old[t]
        /\ delays'[n] # NONE /\ delays'[n].chain = "persistent" /\ ~delays'[n].canceled
    BY <1>0, <1>3, <1>4, <1>7, <2>1, <2>2, Armed, SMTT(30) DEF n
  <2>4. n \notin Pending /\ Pending' = Pending \cup {n}
    BY <1>3, <2>3, SMTT(30) DEF Pending
  <2>5. Live("passive")' = Live("passive")
    <3>1. \A t \in Pending : delays'[t].chain = delays[t].chain
                             /\ (delays[t].chain = "passive" => delays'[t] = delays[t])
      BY <1>3, <2>3, <2>4, SMTT(30) DEF Pending
    <3> QED BY <1>0, <2>3, <2>4, <3>1, SMTT(30) DEF Live
  <2>6. n \in Live("persistent")'
    BY <2>3, <2>4, SMTT(30) DEF Live
  <2>7. Room'
    <3>1. Cardinality(Pending') = Cardinality(Pending) + 1
      BY <2>3, <2>4, OneMorePending, SMTT(30)
    <3>2. Len(channel') = Len(channel)
      BY <1>1
    <3>3. Cardinality(Pending') + Len(channel') <= Cardinality(Tasks)
      BY <1>1, <1>6, <3>1, <3>2, SMTT(30)
    <3> QED BY <3>3, SMTT(30) DEF Room
  <2>8. HandleInv'
    BY <1>4, <1>7, <2>3, <2>4, SMTT(30) DEF HandleInv
  <2>9. PassiveInv'
    BY <1>1, <1>5, <2>5, SMTT(30) DEF PassiveInv
  <2>10. PersistentInv'
    BY <2>6 DEF PersistentInv
  <2>11. persistent_timer' \in Tasks
    BY <1>4, <1>7, <2>3, SMTT(30)
  <2>12. TypeOK'
    BY <1>1, <1>6, <2>3, <2>11, SendType, SMTT(30) DEF TypeOK
  <2> QED BY <2>7, <2>8, <2>9, <2>10, <2>12, SMTT(30)
<1>8. CASE ~persistent_keepalive(k)
  <2>1. delays' = old /\ persistent_timer' = persistent_timer
    BY <1>4, <1>8, SMTT(30)
  <2>2. Pending' = Pending
    BY <1>3, <2>1, SMTT(30) DEF Pending
  <2>3. Live("passive")' = Live("passive")
    BY <1>3, <2>1, <2>2, SMTT(30) DEF Live, Pending
  <2>4. Room'
    BY <1>1, <2>2, SMTT(30) DEF Room
  <2>5. HandleInv'
    BY <1>3, <2>1, <2>2, SMTT(30) DEF HandleInv, Pending
  <2>6. PassiveInv'
    BY <1>1, <1>5, <2>3 DEF PassiveInv
  <2>7. PersistentInv'
    BY <1>1, <1>8, SMTT(30) DEF PersistentInv, persistent_keepalive
  <2>8. TypeOK'
    BY <1>1, <1>3, <1>6, <2>1, SendType, SMTT(30) DEF TypeOK
  <2> QED BY <2>4, <2>5, <2>6, <2>7, <2>8
<1> QED BY <1>7, <1>8

LEMMA EnvironmentChains ==
  ASSUME ChainInv, Environment
  PROVE  ChainInv'
<1> USE DEF ChainInv
<1>0. 0 \in 0 .. MaxAge /\ 0 \in 0 .. KEEPALIVE_TIMEOUT
  BY KeepaliveConstants, MaxAgeBounds
<1>1. ASSUME NEW k \in Intervals \cup {0}, UpdateKeepalive(k) PROVE ChainInv'
  BY <1>1, Updated
<1> DEFINE Rest == UNCHANGED <<timerTasks, failed, keepalive>> /\ TypeOK'
<1>2. ASSUME Rest PROVE ChainInv'
  BY <1>2, TimersAlone, SMTT(30)
<1>3. CASE Egress
  <2>1. Send("data") /\ UNCHANGED <<keepalive, current, keepalive_sent, timerTasks, failed>>
    BY <1>3, SMTT(30) DEF Egress
  <2> QED BY <1>2, <2>1, SendType DEF TypeOK, timerTasks
<1>4. ASSUME NEW data \in BOOLEAN, NEW session \in {"current", "next"},
             NEW flushed \in {"none", "data"}, Ingress(data, session, flushed)
      PROVE  ChainInv'
  BY <1>0, <1>2, <1>4, Zenon DEF Ingress, TypeOK, timerTasks
<1>5. ASSUME NEW what \in {"data", "keepalive", "none"}, SessionUp(what)
      PROVE  ChainInv'
  <2>1. CASE what = "none"
    BY <1>0, <1>2, <1>5, <2>1, SMTT(30) DEF SessionUp, TypeOK, timerTasks
  <2>2. CASE what # "none"
    <3>1. Send(what) /\ UNCHANGED <<keepalive, keepalive_sent, timerTasks, failed>>
          /\ current' = "usable"
      BY <1>5, <2>2, SMTT(30) DEF SessionUp
    <3> QED BY <1>2, <2>2, <3>1, SendType DEF TypeOK, timerTasks
  <2> QED BY <2>1, <2>2, SMTT(30)
<1>6. CASE HandshakeInit
  BY <1>0, <1>2, <1>6, SMTT(30) DEF HandshakeInit, TypeOK, timerTasks
<1>7. ASSUME NEW c \in {"usable", "expired", "none"}, SessionDown(c)
      PROVE  ChainInv'
  BY <1>2, <1>7, SMTT(30) DEF SessionDown, SendNothing, timestamps, TypeOK, timerTasks
<1> QED BY <1>1, <1>3, <1>4, <1>5, <1>6, <1>7, SMTT(30) DEF Environment

LEMMA ChainStep == ChainInv /\ [Next]_vars => ChainInv'
<1> SUFFICES ASSUME ChainInv, [Next]_vars PROVE ChainInv'
  OBVIOUS
<1>1. CASE UNCHANGED vars
  <2>1. UNCHANGED <<timerTasks, failed, keepalive>>
    BY <1>1, SMTT(30) DEF vars, timerTasks
  <2>2. TypeOK'
    BY <1>1 DEF vars, ChainInv, TypeOK
  <2> QED BY <2>1, <2>2, TimersAlone, SMTT(30) DEF ChainInv
<1> QED BY <1>1, EnvironmentChains, TickChains, EndDelayChains, PassiveHandler,
           PersistentHandler, SMTT(30) DEF Next, TimerStep

\* Configuring the peer arms one task, or two if it has an interval.
LEMMA ChainInit == Init => ChainInv
<1> SUFFICES ASSUME NEW k \in Intervals \cup {NONE, 0}, InitWith("none", k, "none")
             PROVE  ChainInv
  BY DEF Init
<1> DEFINE none == [t \in Tasks |-> NONE]
           passive == send_after(none, "passive", KEEPALIVE_TIMEOUT)
           a == NewTask(none)
           b == NewTask(passive)
<1>0. /\ "passive" \in Chains /\ "persistent" \in Chains /\ "passive" # "persistent"
      /\ MaxAge \in Nat /\ KEEPALIVE_TIMEOUT \in Nat /\ NONE \notin Nat /\ NONE \notin Tasks
      /\ (\A i \in Intervals : i \in Nat /\ i <= MaxAge)
  BY KeepaliveConstants, MaxAgeBounds, SMTT(30) DEF Chains
<1>1. /\ keepalive = k /\ current = "none" /\ recv_age = NONE /\ sent_last = FALSE
      /\ traversed_age = MaxAge /\ keepalive_sent = FALSE /\ channel = <<>>
      /\ sent = "none" /\ failed = {}
      /\ IF persistent_keepalive(k)
         THEN delays = send_after(passive, "persistent", k) /\ persistent_timer = b
         ELSE delays = passive /\ persistent_timer = NONE
  BY Zenon DEF InitWith
<1>2. IsFiniteSet(Tasks) /\ Cardinality(Tasks) \in Nat /\ Cardinality(Tasks) >= 2
  BY KeepaliveConstants, FS_CardinalityType
<1>3. PICK t \in Tasks : TRUE
  BY <1>2, FS_EmptySet, SMTT(30)
<1>4. /\ passive \in [Tasks -> Delay \cup {NONE}]
      /\ a \in Tasks
      /\ \A u \in Tasks : u # a => passive[u] = NONE
      /\ passive[a] # NONE /\ passive[a].chain = "passive" /\ ~passive[a].canceled
  <2>1. none \in [Tasks -> Delay \cup {NONE}] /\ \A u \in Tasks : none[u] = NONE
    OBVIOUS
  <2>2. KEEPALIVE_TIMEOUT \in 0 .. KEEPALIVE_TIMEOUT + MaxAge
    BY <1>0
  <2> HIDE DEF none
  <2> QED BY <1>0, <1>3, <2>1, <2>2, Armed
<1> HIDE DEF none, passive, a, b
<1>5. Len(channel) = 0 /\ Queued("passive") = {}
  <2>1. Len(channel) = 0
    BY <1>1, SMTT(30)
  <2> QED BY <2>1 DEF Queued
<1>6. /\ recv_age \in 0 .. KEEPALIVE_TIMEOUT \cup {NONE} /\ traversed_age \in 0 .. MaxAge
      /\ channel \in Seq(Chains)
  BY <1>0, <1>1
<1>7. CASE ~persistent_keepalive(k)
  <2>1. delays = passive /\ persistent_timer = NONE
    BY <1>1, <1>7, SMTT(30)
  <2>2. Pending = {a} /\ Live("passive") = {a}
    BY <1>4, <2>1 DEF Pending, Live
  <2>3. Room
    <3>1. Cardinality(Pending) = 1
      BY <2>2, FS_Singleton, SMTT(30)
    <3> QED BY <1>2, <1>5, <3>1, SMTT(30) DEF Room
  <2>4. HandleInv /\ PersistentInv
    BY <1>1, <1>7, <2>1, SMTT(30) DEF HandleInv, PersistentInv
  <2>5. PassiveInv
    BY <1>1, <1>4, <1>5, <2>2, SMTT(30) DEF PassiveInv
  <2>6. TypeOK
    BY <1>1, <1>4, <1>6, <2>1, Zenon DEF TypeOK
  <2> QED BY <2>3, <2>4, <2>5, <2>6, SMTT(30) DEF ChainInv
<1>8. CASE persistent_keepalive(k)
  <2>1. delays = send_after(passive, "persistent", k) /\ persistent_timer = b
    BY <1>1, <1>8
  <2>2. \E u \in Tasks : passive[u] = NONE
    <3>1. Tasks # {a}
      BY <1>2, FS_Singleton
    <3> QED BY <1>4, <3>1
  <2>3. k \in 0 .. KEEPALIVE_TIMEOUT + MaxAge
    BY <1>0, <1>8, SMTT(30) DEF persistent_keepalive
  <2>4. /\ delays \in [Tasks -> Delay \cup {NONE}]
        /\ b \in Tasks /\ passive[b] = NONE
        /\ \A u \in Tasks : u # b => delays[u] = passive[u]
        /\ delays[b] # NONE /\ delays[b].chain = "persistent" /\ ~delays[b].canceled
    BY <1>0, <1>4, <2>1, <2>2, <2>3, Armed, SMTT(30) DEF b
  <2>5. a # b /\ Pending = {a} \cup {b}
    BY <1>4, <2>4, SMTT(30) DEF Pending
  <2>6. Live("passive") = {a} /\ b \in Live("persistent")
    BY <1>0, <1>4, <2>4, <2>5, SMTT(30) DEF Live
  <2>7. Room
    <3>1. IsFiniteSet({a}) /\ Cardinality({a}) = 1
      BY FS_Singleton, Zenon
    <3>2. Cardinality({a} \cup {b}) = Cardinality({a}) + 1
      BY <2>5, <3>1, FS_AddElement, SMTT(30)
    <3>3. Cardinality(Pending) = 2
      BY <2>5, <3>1, <3>2, SMTT(30)
    <3> QED BY <1>2, <1>5, <3>3, SMTT(30) DEF Room
  <2>8. HandleInv /\ PersistentInv
    BY <2>1, <2>4, <2>5, <2>6, SMTT(30) DEF HandleInv, PersistentInv
  <2>9. PassiveInv
    BY <1>1, <1>4, <1>5, <2>6, SMTT(30) DEF PassiveInv
  <2>10. TypeOK
    BY <1>1, <1>6, <2>1, <2>4, Zenon DEF TypeOK
  <2> QED BY <2>7, <2>8, <2>9, <2>10 DEF ChainInv
<1> QED BY <1>7, <1>8

LEMMA ChainsAlways == Spec => []ChainInv
BY ChainInit, ChainStep, PTL DEF Spec

-----------------------------------------------------------------------------
(* The theorems *)

\* No delay of the two timers is negative, and no age outgrows what the handlers
\* compare it with: the subtractions of handle_timer never underflow.
THEOREM DelaysTyped == Spec => []TypeOK
<1>1. ChainInv => TypeOK
  BY DEF ChainInv
<1> QED BY <1>1, ChainsAlways, PTL

LEMMA AliveIs ==
  ASSUME TypeOK, NEW chain \in Chains
  PROVE  /\ Alive(chain) = Cardinality(Live(chain)) + Cardinality(Queued(chain))
         /\ IsFiniteSet(Live(chain)) /\ IsFiniteSet(Queued(chain))
         /\ Cardinality(Live(chain)) \in Nat /\ Cardinality(Queued(chain)) \in Nat
<1>1. Live(chain) \in SUBSET Tasks /\ IsFiniteSet(Tasks)
  BY KeepaliveConstants DEF Live, Pending
<1>2. Len(channel) \in Nat
  BY DEF TypeOK
<1>3. Queued(chain) \in SUBSET (1 .. Len(channel)) /\ IsFiniteSet(1 .. Len(channel))
  BY <1>2, FS_Interval DEF Queued
<1>4. IsFiniteSet(Live(chain)) /\ IsFiniteSet(Queued(chain))
  BY <1>1, <1>3, FS_Subset
<1>5. Cardinality(Live(chain)) \in Nat /\ Cardinality(Queued(chain)) \in Nat
  BY <1>4, FS_CardinalityType, SMTT(30)
<1>6. Alive(chain) = Cardinality(Live(chain)) + Cardinality(Queued(chain))
  BY DEF Alive, Live, Queued
<1> QED BY <1>4, <1>5, <1>6

\* The passive timer stays one chain, whatever the timeout and however updates,
\* cancellations and late messages interleave: exactly one message is under way
\* until a send fails, and none from then on.
THEOREM PassiveIsOneChain == Spec => []OnePassiveChain
<1>1. ChainInv => OnePassiveChain
  <2> SUFFICES ASSUME ChainInv PROVE OnePassiveChain
    OBVIOUS
  <2>1. Alive("passive") = Cardinality(Live("passive")) + Cardinality(Queued("passive"))
    BY AliveIs DEF ChainInv, Chains
  <2>2. CASE "passive" \in failed
    <3>1. Live("passive") = {} /\ Queued("passive") = {}
      BY <2>2 DEF ChainInv, PassiveInv
    <3> QED BY <2>1, <2>2, <3>1, FS_EmptySet, SMTT(30) DEF OnePassiveChain
  <2>3. CASE "passive" \notin failed
    <3>1. \/ Queued("passive") = {} /\ \E t \in Tasks : Live("passive") = {t}
          \/ Live("passive") = {} /\ \E n \in 1 .. Len(channel) : Queued("passive") = {n}
      BY <2>3, SMTT(30) DEF ChainInv, PassiveInv
    <3>2. \/ Cardinality(Queued("passive")) = 0 /\ Cardinality(Live("passive")) = 1
          \/ Cardinality(Live("passive")) = 0 /\ Cardinality(Queued("passive")) = 1
      BY <3>1, FS_EmptySet, FS_Singleton, Zenon
    <3> QED BY <2>1, <2>3, <3>2, SMTT(30) DEF OnePassiveChain
  <2> QED BY <2>2, <2>3
<1> QED BY <1>1, ChainsAlways, PTL

\* A configured interval keeps its timer until a send fails: no cancellation hits
\* the timer armed after it, and no message of an older interval ends the chain.
THEOREM PersistentStaysAlive == Spec => []PersistentChainAlive
<1>1. ChainInv => PersistentChainAlive
  <2> SUFFICES ASSUME ChainInv, persistent_keepalive(keepalive), "persistent" \notin failed
               PROVE  Alive("persistent") >= 1
    BY DEF PersistentChainAlive
  <2>1. /\ Alive("persistent") = Cardinality(Live("persistent")) + Cardinality(Queued("persistent"))
        /\ IsFiniteSet(Live("persistent")) /\ IsFiniteSet(Queued("persistent"))
        /\ Cardinality(Live("persistent")) \in Nat /\ Cardinality(Queued("persistent")) \in Nat
    BY AliveIs DEF ChainInv, Chains
  <2>2. Live("persistent") # {} \/ Queued("persistent") # {}
    BY DEF ChainInv, PersistentInv
  <2>3. Cardinality(Live("persistent")) # 0 \/ Cardinality(Queued("persistent")) # 0
    BY <2>1, <2>2, FS_EmptySet
  <2> QED BY <2>1, <2>3
<1> QED BY <1>1, ChainsAlways, PTL

=============================================================================
