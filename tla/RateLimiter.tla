---------------------------- MODULE RateLimiter ----------------------------
(***************************************************************************)
(* The token bucket that limits the handshakes of an address while the     *)
(* device is under load (src/ratelimiter.rs).  Time and tokens are in the  *)
(* same unit, nanoseconds in the code; an allowed packet costs PACKET_COST.*)
(*                                                                         *)
(* `mark` and `spent` are history: the start of an arbitrary interval, and *)
(* what each address has spent since.                                      *)
(***************************************************************************)
EXTENDS Option, Integers

CONSTANTS
  Addrs,                   \* source addresses
  PACKET_COST, PACKETS_BURSTABLE,
  SECOND,                  \* the unit that Duration::subsec_nanos drops
  GC_INTERVAL,
  MaxTime                  \* bound: the last tick of the clock

MAX_TOKENS == PACKET_COST * PACKETS_BURSTABLE

ASSUME RateLimiterConstants ==
  /\ {PACKET_COST, PACKETS_BURSTABLE, SECOND, GC_INTERVAL, MaxTime} \subseteq Nat \ {0}
  /\ MAX_TOKENS <= GC_INTERVAL        \* 250 ms, 1 s

Entry == [last_time : Nat, tokens : 0 .. MAX_TOKENS]

ASSUME NoneIsNoEntry == NONE \notin Entry

VARIABLES now, table, mark, spent

limiterVars == <<now, table, mark, spent>>

LimiterInit ==
  /\ now = 0
  /\ table = [a \in Addrs |-> NONE]
  /\ mark = 0
  /\ spent = [a \in Addrs |-> 0]

\* Mutant: the bucket has no brim.
refilled_without_limit(entry) == entry.tokens + ((now - entry.last_time) % SECOND)

\* Mutant: the elapsed time is taken in a coarser unit than the tokens.
refilled_coarsely(entry) ==
  LET tokens == entry.tokens + (((now - entry.last_time) % SECOND) \div 2)
  IN  IF tokens > MAX_TOKENS THEN MAX_TOKENS ELSE tokens

refilled(entry) ==
  LET tokens == entry.tokens + ((now - entry.last_time) % SECOND)
  IN  IF tokens > MAX_TOKENS THEN MAX_TOKENS ELSE tokens

\* allow, for an address that has an entry: the entry is brought up to date
\* whatever the answer.
AllowKnown(a) ==
  LET tokens == refilled(table[a])
      cost   == IF tokens > PACKET_COST THEN PACKET_COST ELSE 0
  IN  /\ table[a] # NONE
      /\ table' = [table EXCEPT ![a] = [last_time |-> now, tokens |-> tokens - cost]]
      /\ spent' = [spent EXCEPT ![a] = @ + cost]
      /\ UNCHANGED <<now, mark>>

\* allow, for a new address.
AllowNew(a) ==
  /\ table[a] = NONE
  /\ table' = [table EXCEPT ![a] = [last_time |-> now, tokens |-> MAX_TOKENS - PACKET_COST]]
  /\ spent' = [spent EXCEPT ![a] = @ + PACKET_COST]
  /\ UNCHANGED <<now, mark>>

\* poll, when the interval timer has ticked.  Nobody polls the limiter of
\* PeerServer; what holds with the collector at any time holds without it too.
handle_gc ==
  /\ table' = [a \in Addrs |->
                 IF table[a] # NONE /\ now - table[a].last_time <= GC_INTERVAL
                 THEN table[a] ELSE NONE]
  /\ UNCHANGED <<now, mark, spent>>

LimiterTick ==
  /\ now < MaxTime
  /\ now' = now + 1
  /\ UNCHANGED <<table, mark, spent>>

\* History: begin to count again.
StartInterval ==
  /\ mark' = now
  /\ spent' = [a \in Addrs |-> 0]
  /\ UNCHANGED <<now, table>>

LimiterNext ==
  \/ LimiterTick
  \/ StartInterval
  \/ handle_gc
  \/ \E a \in Addrs : AllowKnown(a) \/ AllowNew(a)

LimiterSpec == LimiterInit /\ [][LimiterNext]_limiterVars

-----------------------------------------------------------------------------
\* Every field holds a value of its Rust type; a bucket never overflows.
LimiterTypeOK ==
  /\ now \in Nat /\ mark \in 0 .. now
  /\ table \in [Addrs -> Entry \cup {NONE}]
  /\ \A a \in Addrs : table[a] # NONE => table[a].last_time <= now
  /\ spent \in [Addrs -> Nat]

\* In no interval, wherever it begins, does allow let through more of an
\* address than the burst and one packet per PACKET_COST of its length; in
\* particular an address gains nothing from the collection of its entry.
RateBound == \A a \in Addrs : spent[a] <= MAX_TOKENS + (now - mark)

\* An address that waits for longer than PACKET_COST since it was last seen is
\* allowed a packet, wherever its bucket and the collector stand.  The wait is
\* shorter than a second: of a longer one only the part beyond it counts.
RefillWithinSecond ==
  [][\A a \in Addrs :
       /\ table[a] # NONE /\ now - table[a].last_time \in PACKET_COST + 1 .. SECOND - 1
       /\ table'[a] # NONE /\ table'[a] # table[a]
       => spent'[a] > spent[a]]_limiterVars

\* test_ratelimiter, "filling tokens for single packet": an address that waits
\* for longer than PACKET_COST is allowed a packet.
RefillAllows ==
  [][\A a \in Addrs :
       table[a] # NONE /\ now - table[a].last_time > PACKET_COST
         /\ table'[a] # NONE /\ table'[a] # table[a] => spent'[a] > spent[a]]_limiterVars
=============================================================================
