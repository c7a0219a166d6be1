# Specifications of wireguard-rs

TLA+ specifications of the user-space WireGuard implementation in this
repository, the TLC runs that check them on small instances, and TLAPS proofs
of the properties that matter most, for every value of the constants.
`PROJECT.json` lists the runs, the properties, the source lines behind every
definition, the findings and the hazards.

## 1. The system

A device is one process with one `tokio` reactor thread (and a watcher thread
that only reports that the configuration socket was removed). Its parts:

| part | source | state | operations |
|---|---|---|---|
| peer | `peer.rs`, `timestamp.rs` | three session slots `past`/`current`/`next`, timestamps, attempt counter, egress queue, endpoint, last TAI64N | initiate, answer, complete and confirm a handshake; encrypt and decrypt; decide whether a handshake is needed |
| peer server | `interface/peer_server.rs` | socket, `index_map`, handshake queue, timers in flight | one handler per UDP message, tunnel packet, timer message and configuration event |
| timer service | `timer.rs` | delayed messages | `send_after`, cancel |
| anti-replay window | `anti_replay.rs` | ring of bit words, largest number | `check`, `update_store`, `update` |
| rate limiter | `ratelimiter.rs` | table of token buckets | `allow`, `handle_gc` |
| configuration | `interface/config.rs` | keys, ports, `pubkey_map` | parse a command, `handle_update` |
| router | `router.rs` | prefix tables | add, remove, clear, look up |
| cookies | `cookie.rs` | validator secret, generator cookie | MACs, cookie replies |
| UDP layer | `udp/` | two sockets, one pending frame, writer task | bind, send, receive |
| interface | `interface/mod.rs`, `grim_reaper.rs`, `main.rs` | reactor, channels | start, stop |
| formats and crypto | `message.rs`, `ip_packet.rs`, `noise.rs`, `xchacha20poly1305.rs` | none | parse, encrypt |

A tunnel packet is routed to a peer, queued, and sent at once if the peer has a
usable session; else an initiation is sent and a `Rekey` message retries it. A
UDP message reaches its peer through `index_map` (responses, transport) or
`pubkey_map` (initiations). A completed handshake rotates the slots, flushes the
queue and schedules a `Wipe`. The configuration service changes the shared
state and sends events to the peer server.

What makes this hard to test: both sides may start handshakes at any time, and
messages are lost, duplicated, reordered or late; every handler may rotate
slots and remove an index; timer messages refer to sessions that may be gone; a
handler returns early (`?`) in the middle of its work; wake-ups are given once;
counters and queues have limits; keys, ports and peers change, and processes are
killed, while all of this goes on.

What correctness means: packets are dispatched to the right session; nonces are
never reused; nothing panics; retries neither stop early nor go on for ever;
old keys are wiped; queued packets leave, whole and in order; sessions are kept
alive; replays are refused and fresh packets are not; the limiter keeps its rate
and cookies prove an address; routes lead to configured peers only; the socket
is the configured one; a process stops when its socket is removed.

## 2. Modules

| module | models | shape |
|---|---|---|
| `Peer` | the methods of `peer.rs` | operators from a peer's state to the next; no variables |
| `PeerServer` | the handlers of `peer_server.rs`, with a clock | state machine, one action per handler |
| `Tunnel` | two devices and the network between them | composition: extends `PeerServer` |
| `Keepalive` | both keepalive timers, `timer.rs` | state machine, time without end |
| `Line` | two devices with passive keepalives | composition: two instances of `Keepalive` |
| `EventLoop` | `poll` of `peer_server.rs`, `recv_from` of `udp/mod.rs` | state machine |
| `Cookie` | `cookie.rs` and the load test of the peer server | state machine of a peer, a device and the network |
| `UdpChannel` | the sending side of `udp/` | state machine |
| `EgressQueue` | what sending over UDP promises | abstract specification |
| `Listener` | the socket following the configuration: `handle_update`, `rebind` | state machine |
| `Config` | keys, peers, prefixes: `handle_update` and `router.rs` | state machine |
| `ConfigParser` | the codec and `UpdateEvent::from` of `config.rs` | operators, and a reference definition |
| `Lifecycle` | `interface/mod.rs`, `grim_reaper.rs`, the configuration socket | state machine of several processes |
| `AntiReplay` | `anti_replay.rs` | state machine |
| `ReplayWindow` | what a replay window promises | abstract specification |
| `RateLimiter` | `ratelimiter.rs` | state machine with a clock |
| `Framing` | packet sizes: `ip_packet.rs`, padding and truncation | one packet from tunnel to tunnel |
| `Option` | `Option::None` | the constant `NONE` of the other modules |
| `MC*` | instances for TLC | |
| `PeerServerProofs`, `TimerProofs` | theorems about `PeerServer` | |
| `TunnelProofs` | theorems about `Tunnel`, on top of the former two | |
| `KeepaliveProofs`, `ListenerProofs` | theorems about `Keepalive`, `Listener` | |
| `SocketProofs` | theorems about `UdpChannel`, `EventLoop` and `Framing` | |
| `AdmissionProofs` | theorems about `AntiReplay`, `RateLimiter` and `Cookie` | |
| `InterfaceProofs` | theorems about `Config` and `Lifecycle` | |

Definitions whose comment begins with *Mutant* are plausible mistakes; no
specification uses them. They are there to show that each property can fail.

### Peer and PeerServer

A variable of `PeerServer` is a field of the code: `sessions`, `timers`,
`outgoing_queue` (its length), `endpoint` and `last_handshake_tai64n` of each
peer; `index_map`; `private_key` and `udp` (whether there is one); `rekeys` and
`wipes`, the timer messages that are still to come, with the tick at which they
are due. `out` is what the last step handed to the socket and the tunnel: action
properties speak of it, and `Tunnel` carries it to the other device.

A handler computes new sessions, timers and a new index map and then ends in
`commit`, or in `send_handshake_init`, which commits too. The early returns of
the code are kept: for example `drain_popped`, `drain_encrypted` and `drain_ok`
describe the loop that pops, encrypts and sends queued packets and returns from
the handler at the first failure, with the packet that failed lost.

A handler runs to its end before another starts (one reactor thread, no `await`
inside), so it is one step. Between two handlers anything may happen, and a
timer message may be handled any time after it is due: the order in which
`poll` visits its sources is not relied on.

The remote side and the network are the environment. Messages may come at any
time, in any order, any number of times or never. What noise decides is a
choice: an initiation or transport packet that is accepted, the response to the
initiation in `next`, or a response that is rejected (late, duplicate, or under
another preshared key). A message that changes nothing is not a step.

Abstractions: a noise session is its state (finished or not) and its sending
nonce; a timestamp is a tick or `NONE`, and an unset one is `FOREVER` old.
`SendKeepalive` stands for both keepalive timers and may happen at any time
(more often than in the code; `Keepalive` has the timers). Where a handler compares
two ages that fall into the same tick, either may be the greater, and the model
has both branches. A configuration
update and the event it sends are one step (`Listener` has the channel between
them). Byte counters are left out; cookies and the load test are in `Cookie`, and
`HandleIngressHandshakeInit` begins behind them.

### Tunnel

Two devices that are each other's only peer have one entry in every per-peer
variable, so the two together are `PeerServer` for two "peers", `sessions[d]`
being what device `d` holds. They share only the clock and, in `index_map`, the
assumption that a random 32-bit index is not one that either end or a datagram
in flight still remembers (`FreshIndex`). Unlike in `PeerServer`, a message is
accepted exactly when it belongs to the session it is for. The network reorders
and loses or duplicates up to `MaxFaults` datagrams; it is prompt, and timers are
handled when they are due (`PromptTick`), so that delays can be bounded. Or
nobody is at the other end (`silent`), and nothing arrives. Users of both devices
may send, and keepalives leave at any time. `waiting` is history: since when
packets wait for a handshake that their own device has started.

### Keepalive, Line

A timer is a delay task, then a message in the channel, then a handler that arms
the next delay: a *chain*. `cancel` reaches a delay and not a message that is in
the channel already. Ages are counted up to the value the code compares them
with, so that time needs no bound; of `data_sent` and `data_received` it is kept
which is the younger. `failed` records the chains that a failed send has ended.
`Line` joins two of them by two queues that may lose packets.

### EventLoop

`pc` is the source that `poll` is draining. A channel notifies the task when a
message comes after it was found empty; a socket caches its readiness and
notifies the task only if it has parked it since the last time. A handler's
work is one message less in its source. `recv_from` asks both sockets, reads one,
and an `EAGAIN` of one ends the loop although the other may hold packets. A config
message may open, replace or close both sockets (`ReplaceSockets`); what was in
the old ones is gone, and the new ones park the task when `poll` reaches them.

### Cookie

A message carries a mac1 (the bytes at the place where `cookie.rs` looks for it)
and a mac2, which is the cookie it was made with. Of secrets and messages only
"the latest" and "an earlier one" are told apart, since the code compares with
the one it holds. `NewPrivateKey` stands for the key being set again, which makes
a `Validator` without a secret. `RateLimited` is the choice of the limiter, which
is modelled by itself. The network is restless for a while, then calm
(`CalmDown`): then nothing is lost and the peer, which responds once per
`REKEY_TIMEOUT`, hears the answer before the clock goes on.

### UdpChannel, EgressQueue

`channel` is what was sent to the writer task, `wr`/`out_addr`/`flushed` are the
fields of the sink, and `kernel` is what a socket would answer (room, full,
error). `sendmsg` tries again without packet information when the source
address has gone. `EgressQueue` is a queue whose head leaves, until it fails and
loses the rest; its `queue` is the pending frame and then the channel.

### Listener

A `set` command applies its updates at once and sends a message for each; the
peer server handles them one by one, later, and reads the state as it is by
then; so `NewPrivateKey` may find that the key has been cleared. A refused update
ends a command half-way. `bind` and `set_mark` may fail; where `NewPrivateKey`
unwraps the result of `rebind`, the device panics (`panicked`) and stops.

### Config, ConfigParser

Peer objects are references, since a removed peer and a new one with the same
key are different objects. `remove_allowed_ips` removes by prefix, whoever the
prefix is routed to, as the router does. Updates that are refused are not steps.
The entries of `index_map` that `clear_peer_refs` and `RemoveAllPeers` remove are
left out: the peers of `PeerServer`, which has the map, are never removed.
A `set` command is a sequence of these updates that may stop anywhere.

`ConfigParser` has the fold of `UpdateEvent::from` over the lines of a command
and, as its reference, a reading by sections (`DecodesRight`). A line is a key
and a value, and `BAD` a value that does not parse; the text of a command is the
sequence of its lines and line breaks, since `decode` looks for two of them.

### Lifecycle

Processes that start, run and stop for one interface: the tunnel device (held by
one process), the socket file, the watcher thread (it sleeps half a second, then
watches), signals, and the order in which the parts are dropped. A process may be
killed at any point; the socket may be removed and the device deleted from
outside. That a device is deleted only while its holder is running is an
assumption about the environment.

### AntiReplay, ReplayWindow

The ring is a function from words to sets of bits, for any word size and ring
length; shifts and masks by powers of two are division and remainder.
`accepted` and `answer` record what `update` has said. `ReplayWindow` has no
ring: it accepts a number exactly when it is above the largest, or within the
window and not accepted before.

### RateLimiter

Time and tokens have one unit. `allow` is two actions, for a known and for a new
address; `handle_gc` may run at any time, and need not: the program never polls
its limiter, so there the collector never runs. The step that `subsec_nanos` makes at
a full second is kept (`% SECOND`). `mark` and `spent` are history: a new
interval may begin at any moment, so `RateBound` speaks of every interval.

### Framing

A packet is its version and size. It passes the size test, is padded, becomes a
datagram, and is cut at the length its IP header tells (16 bits in IPv6, which
does not count the header).

## 3. Runs

| run | checks | shows |
|---|---|---|
| `device` | `TypeOK`, `SessionsMapped`, `SlotsDistinct`, `CurrentIsUsable`, `NoncesNeverReused`, `RetryLostOnlyByEarlyReturn`, `WipeLostOnlyWhenDown`, `OrphanedOnlyByRejection` | one peer with key, port and endpoint changes: slots, map and nonces stay consistent; a retry, a wipe or an index is lost only in the steps that are named |
| `tunnel` | `QueueDrainsInTime`, `UnattendedOnlyBy`, `InitiationsBounded`, `RetryArmed`, `WipeArmed`, `NothingQueuedWhenReady`, `SessionsAgree` | two devices: a handshake takes as long as the faults cost in retries, packets are left without one only in four situations, retries end neither early nor late, and the ends agree on which session belongs to which |
| `keepalive` | `OnePassiveChain`, `PersistentChainAlive`, `KeptAlive`, `PassiveAnswered` | chains are neither lost nor doubled but by a failed send; silence is broken |
| `event_loop` | `NoPacketForgotten`, `BacklogHandled` | no packet is forgotten; what is queued is handled while `poll` is called |
| `cookie` | `AddressProved`, `AdmittedAgain` | an admission under load proves the address; in a calm network admissions do not end |
| `udp_channel` | `OneMessagePerDatagram`, `FailsOnlyOnRefusal`, `ImplementsEgressQueue`, `EverythingLeaves` | messages leave whole, in order, and in the end |
| `listener` | `SocketMatchesConfig`, `PortIsSockets` | the socket ends up as configured, although messages are handled in a newer state |
| `config` | `RoutesOwned`, `PeersAllowed`, `DecodedAsMeant` | commands mean what their sections say; routes lead to configured peers; the device is not its own peer and keeps its limit |
| `lifecycle` | `PathIsFree`, `SocketKept`, `RemovalStops` | starts succeed after kills, sockets survive others, removal stops |
| `admission` | `WindowExact`, `ImplementsWindow`, `RateBound`, `RefillWithinSecond` | the ring is exactly a replay window; no interval exceeds the rate; a wait below a second earns its packet |
| `egress_stuck` | `EgressStartsHandshake` | violated, see below |
| `cookie_reply` | `ReplyOpens` | violated, see below |

`admission` has `AntiReplay` and `RateLimiter`, which share nothing: one rests in
its initial state while the other runs.

`egress_stuck`: a responder holds an unconfirmed session in `next`. If its
response was lost, `needs_new_handshake` still says that a handshake is under
way, and the responder's own packets are queued with nothing to move them.
`tests/timers.sh:242` pings in this situation and expects answers.

`cookie_reply`: `Initiation::mac1` (`message.rs:48`) returns bytes 84 to 100, a part
of the noise message. The mac1 is at 116 to 132: there `peer.rs:242` writes it, and
there `peer_server.rs:191` has it verified by the `ensure!` of `cookie.rs:62`. The
cookie reply is sealed with the wrong bytes and the initiator cannot open it. For a
response the bytes are right, so a device under load that initiates lets its peers
in (`AdmittedAgain` is about responses); one that only answers does not.

`UnattendedOnlyBy` is about packets that stay in the queue while no handshake is
under way, so that nothing moves them until a user sends another. That happens
when `send_handshake_init` bails out within `REKEY_TIMEOUT` of the last
initiation; when a session is too old for packets and not yet taken to need a
handshake, because its confirmation was late; when a rejected response has emptied
`next`, as when initiations cross; and after a wipe. TLC finds each of the four
needed, and no fifth.

`RetryArmed`, `WipeArmed` and `NothingQueuedWhenReady` are about an interface
that stays up: without a socket a flush returns before the `Wipe` is scheduled,
and without a key the chain of retries ends; so it does if the nonces of the
session do not last for the queue, as then the egress handler returns before it
initiates. `RetryLostOnlyByEarlyReturn` and `WipeLostOnlyWhenDown` say that
nothing else does that.

### Further configurations

These check the same modules; the first four pass, the others show where the
code and the texts of the repository disagree.

| configuration, module | property | result |
|---|---|---|
| `MCUp`, `MCPeerServer` | `RetryArmed`, `WipeArmed`, `NothingQueuedWhenReady` | hold for one device that stays up, against a remote side that may do anything |
| `MCTwoPeers`, `MCPeerServer` | `SessionsMapped`, `SlotsDistinct` | hold for two peers in one index map |
| `MCLine`, `MCLine` | `QuietUnlessCrossed` | a line without data falls silent if the last data packets did not cross |
| `MCFraming`, `MCFraming` | `RoundTrip` | every size of 16 bits comes out as it went in |
| `MCWipe`, `MCPeerServer` | `WipeClearsIndexMap` | violated: a rejected response drops `next` without its index, which stays in `index_map` after `Sessions::wipe`, which returns indices "in order to clear out caches/maps" |
| `MCRefill`, `RateLimiter` | `RefillAllows` | violated: the refill counts only the part of a wait below a second, so after a longer wait a packet may be refused; the unit test expects a wait of `PACKET_COST` to do |
| `MCInterval`, `MCKeepalive` | `IntervalKept` | violated: the send comes before the next timer, and its `?` ends the persistent chain for good; `tests/netns.sh:327` relies on the interval |
| `MCQuiet`, `MCLine` | `LineGoesQuiet` | violated: keepalives reset `keepalive_sent` too, so after data that crossed both sides answer each other's keepalives; `tests/timers.sh:187` expects "the line stays quiet" |
| `MCNotReady`, `MCEventLoop` | `NotReadyIsSafe` | violated: `poll` handles one queued handshake and returns `NotReady`; the others wait for the next wake-up (`peer_server.rs:567` warns of this). `BacklogHandled` shows that further calls of `poll` are enough |
| `MCSegment`, `MCFraming` | `FitsSegment` | violated: the size test does not count the padding, which carries the largest packets beyond `MAX_SEGMENT_SIZE` |

Two more are visible in the modules. `decode` leaves a line break in the buffer, so
a second command on one connection begins with an empty line and the `unwrap` of
its value fails (`DecodesRight` is about one command; `wg` opens a connection for
each). And `ConfigurationService::drop` removes whatever is at the socket path: a
process whose device was deleted may remove the socket of the next one, which is
the exception in `SocketKept`.

### Bounds

* `device`: one peer and four indices: three slots and the one being chosen;
  where indices leak, a run ends when they are used up. Timeouts are 0 to 2
  ticks, in the order the code's constants have where the order matters, and the
  clock runs to 2, so every timeout can expire before, at and after every
  message. Message limits are 1 or 2, so that the rekey limit and the reject
  limit are both reached; the queue takes 1 or 2.
* `tunnel`: both ends send, three packets or keepalives, one datagram lost or
  doubled, a clock of 10: a session is made, used, grows old and is renewed or
  wiped, or three attempts go unanswered. The timeouts (`REKEY_TIMEOUT` 2,
  `STALE_SESSION_TIMEOUT` 3, `REKEY_AFTER_TIME` 5, `REKEY_AFTER_TIME_RECV` 6,
  `REJECT_AFTER_TIME` 9) keep the relations of `consts.rs`: the rekey limits are in
  order and below the reject limit, the one for receivers is the reject limit less
  the stale timeout, the reject limit is below twice `REKEY_AFTER_TIME`, and
  `REKEY_TIMEOUT` is below the stale timeout and more than a tick, so that a packet
  can come within it. Only `WIPE_AFTER_TIME`, 9 instead of three reject limits, is
  out of proportion: the wipe would be out of the clock's reach. The clock starts
  with the first packet, and which of two equal ends sends first makes no
  difference.
  Two faults, with a clock of 9, pass as well.
* `keepalive`: two intervals around the timeout, three delay tasks (two chains
  and one that was cancelled and still runs).
* `event_loop`: four packets and one message per channel: both sockets hold
  packets while the other is read, and several handshakes are queued. Since the
  packets are bounded, the loop over the UDP stream comes to its end; under a
  stream without end the code would not leave it.
* `cookie`: two addresses, two datagrams in flight, two faults; a cookie expires
  after three ticks.
* `udp_channel`: two addresses of two families, three messages: one in the sink
  and two behind it.
* `listener`: commands of up to three updates, four messages, one failure.
* `config`: three keys and objects, three prefixes, two peers at most: one key
  too many, and prefixes that pass between peers. Commands of up to five lines,
  which two sections with their flags need.
* `lifecycle`: three processes: one that stops, one that was killed and one that
  starts.
* `admission`: four words of two bits, numbers to 12: the window moves by less
  than, exactly and more than the ring, and words are used again. Two addresses,
  a burst of two packets, a second of three packets' worth, and a clock of two
  seconds.

Indices, addresses, keys, references and prefixes are interchangeable and form
symmetry sets; no run with a liveness property uses symmetry. Deadlock is checked
except where the system may stop: the runs of `PeerServer` and `Tunnel` (the
bounded clock ends, the finite index set is used up; the code draws from 2^32
indices), `event_loop` (`poll` may end with an error, and the packets are
bounded) and `listener` (a panic).

### Fairness

* `keepalive`, `MCLine`: weak fairness of the clock, of the end of a delay and of
  the handlers: time passes, `tokio` fires timers and the reactor runs the loop.
* `event_loop`: weak fairness of `poll` and of its steps, strong fairness of
  readiness events of a socket with packets (`epoll` reports them whenever it is
  asked). No source of messages is fair: without a peer there is no timer, and a
  failed send ends a peer's. So `BacklogHandled` has its premise in its statement:
  `poll` goes on being called, for whatever reason. Without it a second queued
  handshake may wait for ever.
* `udp_channel`: weak fairness of the writer task and of writability events.
  `EverythingLeaves` assumes that the sockets have room from some time on.
* `cookie`: weak fairness of the handlers, of the clock, of the peer's responses
  and of `CalmDown`: a network that is never calm may lose every message.
* `lifecycle`: weak fairness of each process's and each watcher's own steps.

The other properties are safety and assume none. In `tunnel`, "is retried", "is
wiped" and "is flushed" are safety: the message that will do it is pending, or a
bound on the clock is kept.

## 4. What is proved

Statements are about the module in the second column. Modules whose proofs share
a module have specifications with names of their own, `LoopSpec` or `CookieSpec`.

| theorem | module | statement |
|---|---|---|
| `PeerServerProofs!SessionsStayMapped` | `PeerServer` | `Spec => []SessionsMapped` |
| `PeerServerProofs!SlotsStayDistinct` | | `Spec => []SlotsDistinct` |
| `PeerServerProofs!CurrentStaysUsable` | | `Spec => []CurrentIsUsable` |
| `PeerServerProofs!TypeCorrect` | | `Spec => []TypeOK` |
| `PeerServerProofs!NonceSafety` | | `Spec => NoncesNeverReused` |
| `PeerServerProofs!NoLeaks` | | `Spec => OrphanedOnlyByRejection` |
| `TimerProofs!WipeLoss`, `RetryLoss` | `PeerServer` | `Spec => WipeLostOnlyWhenDown`, `Spec => RetryLostOnlyByEarlyReturn` |
| `TimerProofs!WipeStaysArmed`, `RetryStaysArmed` | | `UpSpec => []WipeArmed`, `UpSpec => []RetryArmed` |
| `TimerProofs!NothingLeftQueued` | | `UpSpec => []NothingQueuedWhenReady` |
| `TunnelProofs!TunnelImplementsUp` | `Tunnel` | `TunnelSpec => UpSpec` |
| `TunnelProofs!TunnelWipes`, `TunnelRetries`, `TunnelQueues` | | `TunnelSpec =>` the three invariants of `UpSpec` above |
| `TunnelProofs!TunnelSessions`, `TunnelNonces` | | `TunnelSpec => [](SessionsMapped /\ SlotsDistinct /\ CurrentIsUsable)`, `TunnelSpec => NoncesNeverReused` |
| `TunnelProofs!EndsAgree` | | `TunnelSpec => []SessionsAgree` |
| `TunnelProofs!AttemptsEnd` | | `TunnelSpec => []InitiationsBounded` |
| `KeepaliveProofs!PassiveIsOneChain` | `Keepalive` | `Spec => []OnePassiveChain` |
| `KeepaliveProofs!PersistentStaysAlive` | | `Spec => []PersistentChainAlive` |
| `SocketProofs!NeverJoined`, `FailsOnRefusal` | `UdpChannel` | `Spec => []OneMessagePerDatagram`, `Spec => FailsOnlyOnRefusal` |
| `SocketProofs!Refinement` | | `Spec => ImplementsEgressQueue` |
| `SocketProofs!NeverForgotten` | `EventLoop` | `LoopSpec => []NoPacketForgotten` |
| `SocketProofs!RoundTripHolds` | `Framing` | `FramingSpec => []RoundTrip` |
| `AdmissionProofs!WindowStaysExact`, `Refinement` | `AntiReplay` | `Spec => []WindowExact`, `Spec => ImplementsWindow` |
| `AdmissionProofs!RateBounded`, `RefillEarns` | `RateLimiter` | `LimiterSpec => []RateBound`, `LimiterSpec => RefillWithinSecond` |
| `AdmissionProofs!AdmittedFromProvedAddress` | `Cookie` | `CookieSpec => AddressProved` |
| `ListenerProofs!SocketFollows`, `PortNoted` | `Listener` | `Spec => []SocketMatchesConfig`, `Spec => []PortIsSockets` |
| `InterfaceProofs!RoutesStayOwned`, `OnlyAllowedPeers`, `TypeCorrect` | `Config` | `Spec => []RoutesOwned`, `[]PeersAllowed`, `[]TypeOK` |
| `InterfaceProofs!BindSucceeds`, `SocketStays` | `Lifecycle` | `LifecycleSpec => []PathIsFree`, `LifecycleSpec => SocketKept` |

Assumptions are the named `ASSUME`s of the modules: constants are natural
numbers, `NONE` is not one of the values it stands beside, the finite timeouts
are below `FOREVER`, the queue is not longer than a session has nonces, a bucket
fills within `GC_INTERVAL`, keys and intervals are finitely many, there are two
delay tasks at least (one for each chain), and in `Tunnel` the timestamps reach
as far as the clock. TLC evaluates them in the runs. `RoundTripHolds` has
`FramingConstants` as a hypothesis. `RefillEarns` assumes a burst of more than one
packet.

**Peer server.** Neither `SessionsMapped` nor `SlotsDistinct` is inductive: a
handler that removes the index of a dead session keeps the others mapped only
because the slots do not share it, and the slots stay distinct only because a
new index is not mapped and all old ones are. `IInv` takes both together
(`Consistent`), with the types, and with `Usable`: also a *finished* `next` has
a birthday, a remote index and an endpoint, since it may become `current`. The
proof goes by pairs of new sessions and new map: `Good(p, s, m)` says that the
pair is consistent and that the entries of other peers are kept. There is a
lemma for each way to make a good pair (replacing `next`, promoting `next`,
dropping it, wiping, using nonces), a lemma that committing a good pair keeps
`IInv` for all peers, and one lemma per handler. `UpInvariance` states the same
for `UpSpec`. The theorems hold for any number of peers in one index map.

**Nonces.** A handler may promote `next` and then encrypt on it, so the counter of
the session that becomes `current` must not have been used before:
`NextUnused`, an invariant of its own, says that `next` has sent nothing. With
`SlotsDistinct` the index tells which earlier session the current one was.

**Indices.** What a handler commits is *tidy* if the new map leads to `p` only
under the indices of the new sessions and under those that were orphans before.
All handlers but the one for a rejected response commit tidy pairs.

**Wipe.** A step is quiet (no new current session, `handshake_completed` and the
`Wipe` messages as they were), or completes a handshake, which schedules a
`Wipe` unless there is no socket, or is the `Wipe` timer. One lemma per handler
says which. `Completed` (a current session has a completion time) is the
strengthening: without it the time a `Wipe` has to be due is not a number.

**Retry.** `RetryComing` alone is not kept: a packet sets the attempts of a peer
back whose last retry has given up, and there is no message for it any more.
What saves it is that the same packet initiates, which it can because the last
initiation is `REKEY_TIMEOUT` old by then: the timer that gave up was not early.
`RetryInv` says that (`Rested`), and that an unanswered initiation has an
endpoint (`Located`). The proof found that a missing endpoint is never the
reason for a lost retry, so that the property does not name it.

**Queue.** `NothingQueuedWhenReady` is inductive with `IInv` while there is a
socket: each handler that makes a session ready also drains the queue, and a new
session has nonces for all of it. `UpInv` collects these invariants; together
they exclude the third early return, the nonces that run out.

**Tunnel.** Every step of the tunnel is shown to be a step of `UpNext`, or to
leave the devices as they are: `TunnelSpec` implements `UpSpec`, whose environment
may send anything, and what is proved of `UpSpec` holds of the two devices. For
that the datagrams in flight must be ones that `PeerServer` may receive (`Sound`): a transport packet has a
receiver because the session it was encrypted on is usable *after* the step.
For `AttemptsEnd` the invariant `Silence` bounds the initiations by the attempts
counted, for each of the two devices, and says that in silence there is no current
session, whose timer would initiate without counting.

**Agreement.** `SessionsAgree` is about the two ends together and is far from
inductive: the responder makes its session when it sends the response, the
initiator when it gets it, and any message may come twice or late. `Agreement`
adds what has to hold of messages in flight. A response agrees with the sessions
of its sender (`ResponsesAgree`); its index is that of no initiation of the same
end (`RespondersApart`), and responses do not cross (`CrossingApart`). An
initiation under one index has one timestamp (`OneTime`), and once it was
answered, its timestamp is not newer than the newest one that the other end took
(`AnsweredOnce`): a duplicate does not make a second responder session. That is
what `is_newer` is for, and the mutant that lets an equal timestamp pass breaks
the property. The rest is that an index is drawn only while nothing names it,
which the model assumes of random indices (`ChoosesFresh`). The proof first shows
that three kinds of additions keep `Agreement` (an initiation, a responder session
with its response, an initiator session), as statements about relations between
indices, and then that every handler adds one of them at most. It holds with
either or both ends sending and for any number of faults.

**Keepalive.** Until a failed send ends it, the passive chain is either one delay
or one message, never both (`PassiveInv`); a handle cancels only a persistent
delay that is still pending (`HandleInv`); and there is always a free task for
the next delay (`Room`: delays and messages together are not more than the
tasks). The persistent chain may be doubled, by a message that
was in the channel when its timer was cancelled, so only its existence is proved.

**UDP.** The buffer holds one whole message exactly while a frame is pending
(`IInv`), although `encode` appends. For the refinement every step is shown to be
a step of the queue or to leave it as it is; `FailsOnRefusal` needs that a full
socket and a lost source address never end in the answer "error".

**Event loop.** `WakeInv`: a socket with packets has an event to come or is
cached as readable. `recv_from` clears the cache of the socket it chose to read
only, and only when that one is empty; a new socket is empty.

**Cookies.** `CookieInv` follows the cookies of the secret in force: the peer's
own, those its messages in flight were made with, and those in replies in flight
are all of addresses that a reply was sent to. A new secret makes all of them
old.

**Anti-replay.** `WindowExact` is not inductive, as it says nothing about bits
outside of the window. `RingExact` describes every number whose word is in the
ring: the word that is part in and part out of the window, and the part of the
newest word that lies above the largest number, which must be empty. Arithmetic
lemmas show that two words less than a ring apart do not share a place.

**Rate limiter.** `Earned` counts what an address has spent in the interval
together with the tokens it has left; an address without an entry must have
earned a full bucket, which is where `MAX_TOKENS <= GC_INTERVAL` is needed.
`RefillEarns` follows from the types in one step of `allow`.

**Listener.** `ListenInv`: unless a bind has failed, what the socket lacks is on
its way. If it has not the configured port, a `NewListenPort` is in the channel;
the last `NewFwmark` in the channel carries the configured mark. `bind` reads the
newest state, so a message handled late does no harm. That a command's messages
are those of the updates that were applied is a fact about the last element of a
sequence, which the least-number principle gives (`Least`, from the library's theorem on well-founded
relations) where induction is not available.

**Configuration.** `RoutesOwned` is inductive with the types: a peer's routes are
all in its own list, so removing its list removes them all.

**Life cycle.** `DeviceInv`: a process that has not lost the tunnel device holds
it, so there is one such process at most; only that one may be between the
removal of a stale socket and the bind.

**Framing.** `LengthInv` gives the length at each place of the packet's way.

The inductive invariants were checked by TLC on the instances of the runs before
they were proved.

## 5. What is only model-checked

* Liveness under fairness is out of the prover's reach: `KeptAlive`,
  `PassiveAnswered`, `BacklogHandled`, `EverythingLeaves`, `AdmittedAgain`,
  `RemovalStops`.
* So is what a fold over the lines of a command computes for every command, which
  takes induction over data: `DecodedAsMeant`.
* `QueueDrainsInTime` and `UnattendedOnlyBy` are not true for all constants: they
  rest on the relations between the timeouts that are listed under *Bounds*, and on
  what a fault can delay, so the instance is what they are about.
* `QuietUnlessCrossed` is about the `Line` module, which has no theorems, and is
  liveness as well.

The type invariants of `AntiReplay`, `RateLimiter`, `UdpChannel`, `Keepalive`,
`Config` and `Lifecycle` are part of the proofs; for `Listener`, `EventLoop` and
`Cookie` the proofs contain the part they need. To check the whole, add the
module's `TypeOK` (`LoopTypeOK`, `CookieTypeOK`, `LimiterTypeOK`,
`LifecycleTypeOK`) to a configuration as an `INVARIANT`.

## 6. Running

    tlc -config MCDevice.cfg MCPeerServer      # likewise the other .cfg files
    tlapm PeerServerProofs.tla                 # likewise the other *Proofs

The configurations of `Tunnel`, `Cookie` (`MCCookie`, `MCReply`), `Lifecycle` and
`RateLimiter` (`MCRefill`) belong to those modules
themselves; `MCWipe`, `MCUp`, `MCTwoPeers` and `MCEgress` to `MCPeerServer`.

## 7. Not modelled

* Cryptography (`noise.rs`, `xchacha20poly1305.rs`): no state between calls. What
  they decide is a choice of the environment, in `Tunnel` and `Cookie` what the
  message was made from.
* The accessors of `message.rs`, which read fixed offsets (but for `mac1`, which
  is in `Cookie`), and byte counters.
* The answer to the `get` command (`to_config_string`): it formats state and
  changes none.
* The longest-prefix match: it is the work of a library; which peer a packet is
  routed to is a choice in `PeerServer`.
* `main.rs`: options, logging and the fork into the background, and the bytes of
  the tunnel streams.
* The effect of crashes on peers: nothing of a peer is persistent, so a restarted
  device is one in its initial state, and to the other end one that is silent.
