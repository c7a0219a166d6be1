------------------------------- MODULE Config -------------------------------
(***************************************************************************)
(* The configured peers and the routing table: the peer and key arms of    *)
(* handle_update (src/interface/config.rs) and src/router.rs.              *)
(*                                                                         *)
(* A peer object is reached through pubkey_map and through the router, and *)
(* lives while one of them has a reference to it; a new object takes a     *)
(* reference that is not in use.  A prefix (address and mask) is a key of  *)
(* the routing table; allowed_ips is the set of a peer's prefixes (the     *)
(* code keeps a Vec in which a prefix may occur twice).  The fields of     *)
(* PeerInfo that no route depends on (psk, endpoint, keepalive) are left   *)
(* out, and so are the sessions of a peer, with the entries of index_map   *)
(* that go with a peer that is removed.  An update that is refused changes *)
(* nothing and is not a step.                                              *)
(***************************************************************************)
EXTENDS Option, Integers, FiniteSets

CONSTANTS
  Keys,                    \* public keys
  Refs,                    \* references to Peer objects (Rc)
  Prefixes,                \* (address, mask) pairs
  MAX_PEERS_PER_DEVICE

ASSUME ConfigConstants ==
  /\ NONE \notin Keys \cup Refs
  /\ MAX_PEERS_PER_DEVICE \in Nat
  /\ IsFiniteSet(Keys)

VARIABLES
  pub_key,                 \* interface_info.pub_key
  pubkey_map,              \* state.pubkey_map: key -> peer
  allowed_ips,             \* peer.info.allowed_ips, per peer object
  router                   \* state.router: prefix -> peer

vars == <<pub_key, pubkey_map, allowed_ips, router>>

Init ==
  /\ pub_key = NONE
  /\ pubkey_map = [k \in Keys |-> NONE]
  /\ allowed_ips = [r \in Refs |-> {}]
  /\ router = [x \in Prefixes |-> NONE]

Configured == {k \in Keys : pubkey_map[k] # NONE}

Unreferenced ==
  Refs \ ({pubkey_map[k] : k \in Keys} \cup {router[x] : x \in Prefixes})

add_allowed_ips(table, ips, r) == [x \in Prefixes |-> IF x \in ips THEN r ELSE table[x]]

\* Mutant: nothing is removed.
remove_no_allowed_ips(table, ips) == table


remove_allowed_ips(table, ips) == [x \in Prefixes |-> IF x \in ips THEN NONE ELSE table[x]]

\* The peer of key k leaves pubkey_map, and clear_peer_refs its prefixes the
\* router, whoever they are routed to by now.
remove_peer(k) ==
  /\ pubkey_map' = [pubkey_map EXCEPT ![k] = NONE]
  /\ router' = remove_allowed_ips(router, allowed_ips[pubkey_map[k]])
  /\ UNCHANGED allowed_ips

-----------------------------------------------------------------------------
(* handle_update *)

\* Mutant: the device's own key is set, and no peer looked for.
set_key_only(k) == pub_key' = k /\ UNCHANGED <<pubkey_map, allowed_ips, router>>

\* UpdateEvent::PrivateKey with a key whose public half is k.
SetPrivateKey(k) ==
  /\ pub_key' = k
  /\ \/ pubkey_map[k] # NONE /\ remove_peer(k)
     \/ pubkey_map[k] = NONE /\ UNCHANGED <<pubkey_map, allowed_ips, router>>

ClearPrivateKey ==
  /\ pub_key' = NONE
  /\ UNCHANGED <<pubkey_map, allowed_ips, router>>

\* UpdateEvent::UpdatePeer, for a peer that exists: its prefixes are added to
\* the ones it has, or replace them.
UpdatePeer(k, ips, replace_allowed_ips) ==
  LET r     == pubkey_map[k]
      all   == IF replace_allowed_ips THEN ips ELSE ips \cup allowed_ips[r]
      table == IF replace_allowed_ips THEN remove_allowed_ips(router, allowed_ips[r]) ELSE router
  IN  /\ r # NONE
      /\ router' = add_allowed_ips(table, all, r)
      /\ allowed_ips' = [allowed_ips EXCEPT ![r] = all]
      /\ UNCHANGED <<pub_key, pubkey_map>>

\* Mutant: one peer more than the limit.
add_peer_over_limit(k, ips) ==
  /\ pubkey_map[k] = NONE
  /\ k # pub_key
  /\ Cardinality(Configured) <= MAX_PEERS_PER_DEVICE
  /\ \E r \in Unreferenced :
       /\ pubkey_map' = [pubkey_map EXCEPT ![k] = r]
       /\ allowed_ips' = [allowed_ips EXCEPT ![r] = ips]
       /\ router' = add_allowed_ips(router, ips, r)
  /\ UNCHANGED pub_key

\* UpdateEvent::UpdatePeer, for a new peer.
AddPeer(k, ips) ==
  /\ pubkey_map[k] = NONE
  /\ k # pub_key
  /\ Cardinality(Configured) < MAX_PEERS_PER_DEVICE
  /\ \E r \in Unreferenced :
       /\ pubkey_map' = [pubkey_map EXCEPT ![k] = r]
       /\ allowed_ips' = [allowed_ips EXCEPT ![r] = ips]
       /\ router' = add_allowed_ips(router, ips, r)
  /\ UNCHANGED pub_key

RemovePeer(k) ==
  /\ pubkey_map[k] # NONE
  /\ remove_peer(k)
  /\ UNCHANGED pub_key

RemoveAllPeers ==
  /\ pubkey_map' = [k \in Keys |-> NONE]
  /\ router' = [x \in Prefixes |-> NONE]
  /\ UNCHANGED <<pub_key, allowed_ips>>

Next ==
  \/ ClearPrivateKey
  \/ RemoveAllPeers
  \/ \E k \in Keys :
       \/ SetPrivateKey(k)
       \/ RemovePeer(k)
       \/ \E ips \in SUBSET Prefixes :
            \/ AddPeer(k, ips)
            \/ \E replace \in BOOLEAN : UpdatePeer(k, ips, replace)

Spec == Init /\ [][Next]_vars

-----------------------------------------------------------------------------
\* Every field holds a value of its Rust type.
TypeOK ==
  /\ pub_key \in Keys \cup {NONE}
  /\ pubkey_map \in [Keys -> Refs \cup {NONE}]
  /\ allowed_ips \in [Refs -> SUBSET Prefixes]
  /\ router \in [Prefixes -> Refs \cup {NONE}]

\* A prefix is never routed to a peer that has been removed or that does not
\* list it, however prefixes moved between peers before: what is routed to a
\* peer is found in its own list when it is removed.
RoutesOwned ==
  \A x \in Prefixes : router[x] # NONE =>
    /\ \E k \in Keys : pubkey_map[k] = router[x]
    /\ x \in allowed_ips[router[x]]

\* The device is never a peer of itself, and never has more peers than it may, in
\* whichever order its key and its peers are configured and removed.
PeersAllowed == pub_key \notin Configured /\ Cardinality(Configured) <= MAX_PEERS_PER_DEVICE
=============================================================================
