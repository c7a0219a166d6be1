------------------------------- MODULE Cookie -------------------------------
(***************************************************************************)
(* The cookie exchange (src/cookie.rs): a device that may be under load,   *)
(* with its Validator, and one of its peers, with the Generator it keeps   *)
(* for the device.  The peer sends handshake messages, initiations and     *)
(* responses; under load the device asks for a second MAC, made with a     *)
(* cookie that it sends to the address the message came from.              *)
(*                                                                         *)
(* The MACs are modelled by what they are made from: mac1 by the message,  *)
(* mac2 by the cookie, a cookie by the secret and the source address.      *)
(* Messages and secrets are compared with the last message and with the    *)
(* secret in force only, so all that is kept of one is whether it is that, *)
(* "latest", or an "earlier" one.                                          *)
(*                                                                         *)
(* The network reorders and loses datagrams, and the peer's address may    *)
(* change.  What goes wrong is bounded by MaxFaults.  At some time the     *)
(* network calms down: from then on there is time for an exchange between  *)
(* two messages of the peer.                                               *)
(***************************************************************************)
EXTENDS Option, Integers, FiniteSets

CONSTANTS
  Sources,                 \* addresses the peer may send from
  COOKIE_REFRESH_TIME, UNDER_LOAD_TIME,
  REKEY_TIMEOUT,           \* a peer sends again after this long
  MaxInFlight,             \* bound: messages and replies on their way
  MaxFaults                \* bound: losses, refusals, moves and key changes in all

Kinds == {"initiation", "response"}
Recency == {"latest", "earlier"}
CookieValue == [secret : Recency, source : Sources]

ASSUME CookieConstants ==
  /\ {COOKIE_REFRESH_TIME, UNDER_LOAD_TIME} \subseteq Nat \ {0}
  /\ {REKEY_TIMEOUT, MaxInFlight, MaxFaults} \subseteq Nat
  /\ NONE \notin CookieValue

Mac1 == [message : Recency, field : {"mac1", "noise"}]
Message == [kind : Kinds, message : Recency, mac2 : CookieValue \cup {NONE}, source : Sources]
Reply == [aad : Mac1, cookie : CookieValue]

VARIABLES
  secret_age,              \* Validator: the age of secret_time, NONE without a secret
  under_load_for,          \* what is left until under_load_until
  flood,                   \* the handshake queue is longer than UNDER_LOAD_QUEUE_SIZE
  cookie, cookie_age,      \* Generator: cookie and the age of cookie_time
  source,                  \* the peer's address
  calm,                    \* an exchange is over before the next begins
  since_sent,              \* how long ago the peer sent, once it is calm
  messages, replies,       \* in flight
  faults,
  issued                   \* history: the addresses sent a cookie of this secret

generator == <<cookie, cookie_age>>
server == <<secret_age, under_load_for, issued>>
pace == <<calm, since_sent>>
cookieVars == <<server, flood, generator, source, pace, messages, replies, faults>>

CookieInit ==
  /\ secret_age = NONE /\ under_load_for = 0 /\ flood \in BOOLEAN
  /\ cookie = NONE /\ cookie_age = NONE
  /\ source \in Sources /\ calm = FALSE /\ since_sent = 0
  /\ messages = {} /\ replies = {} /\ faults = 0
  /\ issued = {}

Fault == faults < MaxFaults /\ faults' = faults + 1

\* is_secret_valid, for the secret and for the cookie.
is_secret_valid(age) == age # NONE /\ age <= COOKIE_REFRESH_TIME

-----------------------------------------------------------------------------
(* The peer: Generator *)

build_mac2 == IF is_secret_valid(cookie_age) THEN cookie ELSE NONE

\* initiate_new_session or get_response_packet, with build_macs.
SendMessage(kind) ==
  /\ Cardinality(messages) + Cardinality(replies) < MaxInFlight
  /\ messages' = {[m EXCEPT !.message = "earlier"] : m \in messages} \cup
       {[kind |-> kind, message |-> "latest", mac2 |-> build_mac2, source |-> source]}
  /\ replies' = {[r EXCEPT !.aad.message = "earlier"] : r \in replies}
  /\ since_sent' = 0
  /\ UNCHANGED <<server, flood, generator, source, calm, faults>>

last_mac1 == [message |-> "latest", field |-> "mac1"]

\* handle_ingress_cookie_reply, consume_reply: the reply opens only with the
\* mac1 of the last message.
HandleCookieReply(r) ==
  /\ replies' = replies \ {r}
  /\ IF r.aad = last_mac1
     THEN cookie' = r.cookie /\ cookie_age' = 0
     ELSE UNCHANGED generator
  /\ UNCHANGED <<server, flood, source, pace, messages, faults>>

-----------------------------------------------------------------------------
(* The device: Validator *)

\* The bytes that Message::mac1 returns: those of an initiation belong to the
\* noise message, those of a response are its mac1.
mac1(m) == [message |-> m.message, field |-> IF m.kind = "initiation" THEN "noise" ELSE "mac1"]

\* The cookie of an address under the secret in force.
cookie_for(address) == [secret |-> "latest", source |-> address]

\* Mutant: the cookie is not tied to the address.
verify_mac2_anywhere(m) ==
  is_secret_valid(secret_age) /\ m.mac2 # NONE /\ m.mac2.secret = "latest"

verify_mac2(m) == is_secret_valid(secret_age) /\ m.mac2 = cookie_for(m.source)

under_load == flood \/ under_load_for > 0

\* under_load extends the time when the queue is long.
extend_load == under_load_for' = IF flood THEN UNDER_LOAD_TIME ELSE under_load_for

\* With a new secret, or none, every cookie there is becomes one of an earlier.
Outdated(c) == IF c = NONE THEN NONE ELSE [c EXCEPT !.secret = "earlier"]

NewSecret(in_flight, answers) ==
  /\ messages' = {[m EXCEPT !.mac2 = Outdated(@)] : m \in in_flight}
  /\ replies' = {[r EXCEPT !.cookie = Outdated(@)] : r \in replies} \cup answers
  /\ cookie' = Outdated(cookie)

Answer(m) == [aad |-> mac1(m), cookie |-> cookie_for(m.source)]

\* Mutant: a secret is drawn only when there is none.
generate_reply_once(m) ==
  \/ /\ secret_age # NONE
     /\ issued' = issued \cup {m.source}
     /\ messages' = messages \ {m} /\ replies' = replies \cup {Answer(m)}
     /\ UNCHANGED <<secret_age, cookie>>
  \/ /\ secret_age = NONE
     /\ secret_age' = 0 /\ issued' = {m.source}
     /\ NewSecret(messages \ {m}, {Answer(m)})

\* generate_reply: the secret is replaced when it is too old.
generate_reply(m) ==
  \/ /\ is_secret_valid(secret_age)
     /\ issued' = issued \cup {m.source}
     /\ messages' = messages \ {m} /\ replies' = replies \cup {Answer(m)}
     /\ UNCHANGED <<secret_age, cookie>>
  \/ /\ ~is_secret_valid(secret_age)
     /\ secret_age' = 0 /\ issued' = {m.source}
     /\ NewSecret(messages \ {m}, {Answer(m)})

\* handle_ingress_handshake_init and _resp up to the message proper.
Received(m) ==
  /\ messages' = messages \ {m}
  /\ extend_load
  /\ UNCHANGED <<secret_age, issued, flood, generator, source, pace, replies>>

Admit(m) == ~under_load /\ Received(m) /\ UNCHANGED faults

AskForCookie(m) ==
  /\ under_load /\ ~verify_mac2(m)
  /\ generate_reply(m)
  /\ extend_load
  /\ UNCHANGED <<flood, cookie_age, source, pace, faults>>

RateLimited(m) == under_load /\ verify_mac2(m) /\ Received(m) /\ Fault

AdmitVerified(m) == under_load /\ verify_mac2(m) /\ Received(m) /\ UNCHANGED faults

HandleHandshake(m) == Admit(m) \/ AskForCookie(m) \/ RateLimited(m) \/ AdmitVerified(m)

\* NewPrivateKey, when the key the peer knows is set again: another Validator,
\* which has no secret.
NewPrivateKey ==
  /\ Fault
  /\ secret_age' = NONE /\ issued' = {}
  /\ NewSecret(messages, {})
  /\ UNCHANGED <<under_load_for, flood, cookie_age, source, pace>>

-----------------------------------------------------------------------------
(* The environment *)

Lose ==
  /\ Fault
  /\ \/ \E m \in messages : messages' = messages \ {m} /\ UNCHANGED replies
     \/ \E r \in replies : replies' = replies \ {r} /\ UNCHANGED messages
  /\ UNCHANGED <<server, flood, generator, source, pace>>

Roam ==
  /\ Fault
  /\ source' \in Sources \ {source}
  /\ UNCHANGED <<server, flood, generator, pace, messages, replies>>

LoadChanges ==
  /\ flood' = ~flood
  /\ UNCHANGED <<server, generator, source, pace, messages, replies, faults>>

\* An age beyond the limit says no more than that.
Older(age) == IF age = NONE \/ age > COOKIE_REFRESH_TIME THEN age ELSE age + 1

Tick ==
  /\ secret_age' = Older(secret_age)
  /\ cookie_age' = Older(cookie_age)
  /\ under_load_for' = IF under_load_for > 0 THEN under_load_for - 1 ELSE 0
  /\ since_sent' = IF calm THEN since_sent + 1 ELSE 0
  /\ UNCHANGED <<issued, flood, cookie, source, calm, messages, replies, faults>>

Handshake ==
  \/ \E m \in messages : HandleHandshake(m)
  \/ \E r \in replies : HandleCookieReply(r)

Environment == NewPrivateKey \/ Lose \/ Roam \/ LoadChanges

\* The peer sends, and time passes, at any moment.
Restless == ~calm /\ (Tick \/ \E kind \in Kinds : SendMessage(kind))

CalmDown ==
  /\ ~calm
  /\ calm' = TRUE
  /\ UNCHANGED <<server, flood, generator, source, since_sent, messages, replies, faults>>

\* The device under load initiates, and the peer responds every REKEY_TIMEOUT,
\* which is longer than an exchange takes.
Idle == calm /\ messages = {} /\ replies = {}

Respond == Idle /\ since_sent >= REKEY_TIMEOUT /\ SendMessage("response")

CalmTick == Idle /\ since_sent < REKEY_TIMEOUT /\ Tick

CookieNext == Restless \/ CalmDown \/ Respond \/ CalmTick \/ Handshake \/ Environment

Fairness ==
  /\ WF_cookieVars(CalmDown) /\ WF_cookieVars(Respond)
  /\ WF_cookieVars(CalmTick) /\ WF_cookieVars(Handshake)

CookieSpec == CookieInit /\ [][CookieNext]_cookieVars /\ Fairness

-----------------------------------------------------------------------------
CookieTypeOK ==
  /\ {secret_age, cookie_age} \subseteq 0 .. COOKIE_REFRESH_TIME + 1 \cup {NONE}
  /\ under_load_for \in 0 .. UNDER_LOAD_TIME /\ flood \in BOOLEAN
  /\ cookie \in CookieValue \cup {NONE}
  /\ source \in Sources /\ calm \in BOOLEAN /\ since_sent \in 0 .. REKEY_TIMEOUT
  /\ messages \subseteq Message /\ replies \subseteq Reply
  /\ faults \in 0 .. MaxFaults
  /\ issued \subseteq Sources

(***************************************************************************)
(* A message admitted under load comes from an address to which a cookie   *)
(* of the secret in force has been sent: neither a cookie of an earlier    *)
(* secret nor one the peer was sent at another address will do.            *)
(***************************************************************************)
AddressProved == [][\A m \in messages : AdmitVerified(m) => m.source \in issued]_cookieVars

(***************************************************************************)
(* Liveness: whatever the load, a peer that goes on responding has a       *)
(* response admitted again and again, in spite of lost datagrams, moves,   *)
(* expired cookies and replaced secrets.                                   *)
(***************************************************************************)
AdmittedAgain == []<><<\E m \in messages : Admit(m) \/ AdmitVerified(m)>>_cookieVars

(***************************************************************************)
(* A reply that reaches the peer before it has sent anything else gives it *)
(* its cookie.  The device has verified the mac1 that it seals the reply   *)
(* with, so these must be the bytes the peer keeps as last_mac1.           *)
(***************************************************************************)
ReplyOpens ==
  [][\A r \in replies :
       HandleCookieReply(r) /\ r.aad.message = "latest" => cookie_age' = 0]_cookieVars
=============================================================================
