-------------------------- MODULE InterfaceProofs --------------------------
(***************************************************************************)
(* Proofs about the two components that configure an interface and end it: *)
(* Config and Lifecycle.  They share nothing.                              *)
(***************************************************************************)
EXTENDS Config, Lifecycle, FiniteSetTheorems, TLAPS

-----------------------------------------------------------------------------
(***************************************************************************)
(* Config's invariants, for every set of keys, prefixes and peers.  They   *)
(* are inductive together: RoutesOwned finds the routes of a peer in its   *)
(* list, which is why removing the prefixes of the list is enough.         *)
(***************************************************************************)

IInv == TypeOK /\ RoutesOwned /\ PeersAllowed

\* Nothing is configured at first.
LEMMA InitInv ==
  ASSUME Init
  PROVE  IInv
<1>1. Configured = {}
  BY DEF Init, Configured
<1>2. Cardinality(Configured) <= MAX_PEERS_PER_DEVICE
  BY <1>1, ConfigConstants, FS_EmptySet
<1> QED BY <1>1, <1>2 DEF Init, IInv, TypeOK, RoutesOwned, PeersAllowed

\* The number of peers does not grow when none is added.
LEMMA FewerPeers ==
  ASSUME PeersAllowed, \A k \in Keys : pubkey_map[k] = NONE => pubkey_map'[k] = NONE
  PROVE  Cardinality(Configured') <= MAX_PEERS_PER_DEVICE
<1>1. Configured' \subseteq Configured /\ IsFiniteSet(Configured)
  BY ConfigConstants, FS_Subset DEF Configured
<1>2. Cardinality(Configured') <= Cardinality(Configured)
  BY <1>1, FS_Subset
<1>3. Cardinality(Configured) \in Nat /\ Cardinality(Configured') \in Nat
  BY <1>1, FS_Subset, FS_CardinalityType
<1> QED BY <1>2, <1>3, ConfigConstants DEF PeersAllowed

\* A peer that leaves takes all of its routes along.
LEMMA RemoveInv ==
  ASSUME IInv, NEW k \in Keys, pubkey_map[k] # NONE, remove_peer(k),
         pub_key' \in {pub_key, k}
  PROVE  IInv'
<1> DEFINE r == pubkey_map[k]
<1>1. /\ r \in Refs /\ allowed_ips[r] \subseteq Prefixes
      /\ pubkey_map \in [Keys -> Refs \cup {NONE}] /\ router \in [Prefixes -> Refs \cup {NONE}]
  BY DEF IInv, TypeOK
<1>2. /\ pubkey_map' = [pubkey_map EXCEPT ![k] = NONE] /\ allowed_ips' = allowed_ips
      /\ router' = [x \in Prefixes |-> IF x \in allowed_ips[r] THEN NONE ELSE router[x]]
  BY DEF remove_peer, remove_allowed_ips
<1>3. TypeOK'
  BY <1>1, <1>2 DEF IInv, TypeOK
<1>4. RoutesOwned'
  <2> SUFFICES ASSUME NEW x \in Prefixes, router'[x] # NONE
               PROVE  /\ \E l \in Keys : pubkey_map'[l] = router'[x]
                      /\ x \in allowed_ips'[router'[x]]
    BY DEF RoutesOwned
  <2>1. router'[x] = router[x] /\ x \notin allowed_ips[r] /\ router[x] # NONE
    BY <1>2
  <2>2. PICK l \in Keys : pubkey_map[l] = router[x] /\ x \in allowed_ips[router[x]]
    BY <2>1 DEF IInv, RoutesOwned
  <2>3. l # k
    BY <2>1, <2>2
  <2> QED BY <1>1, <1>2, <2>1, <2>2, <2>3
<1>5. PeersAllowed'
  <2>1. Cardinality(Configured') <= MAX_PEERS_PER_DEVICE
    BY <1>1, <1>2, FewerPeers DEF IInv
  <2> QED BY <1>1, <1>2, <2>1 DEF IInv, PeersAllowed, Configured
<1> QED BY <1>3, <1>4, <1>5 DEF IInv

\* A peer takes over the prefixes it is given, and keeps or loses its others.
LEMMA UpdateInv ==
  ASSUME IInv, NEW k \in Keys, NEW ips \in SUBSET Prefixes, NEW replace \in BOOLEAN,
         UpdatePeer(k, ips, replace)
  PROVE  IInv'
<1> DEFINE r   == pubkey_map[k]
           all == IF replace THEN ips ELSE ips \cup allowed_ips[r]
<1>1. /\ r \in Refs /\ pubkey_map[k] = r /\ allowed_ips \in [Refs -> SUBSET Prefixes]
      /\ router \in [Prefixes -> Refs \cup {NONE}] /\ NONE \notin Refs
  BY ConfigConstants DEF UpdatePeer, IInv, TypeOK
<1>2. /\ pubkey_map' = pubkey_map /\ pub_key' = pub_key
      /\ allowed_ips' = [allowed_ips EXCEPT ![r] = all]
  BY DEF UpdatePeer
<1>3. router' = [x \in Prefixes |-> IF x \in all THEN r
                                    ELSE IF replace /\ x \in allowed_ips[r] THEN NONE
                                    ELSE router[x]]
  BY DEF UpdatePeer, add_allowed_ips, remove_allowed_ips
<1>4. all \subseteq Prefixes
  BY <1>1
<1>5. ~replace => allowed_ips[r] \subseteq all
  OBVIOUS
<1> HIDE DEF all, r
<1>6. TypeOK'
  BY <1>1, <1>2, <1>3, <1>4 DEF IInv, TypeOK
<1>7. RoutesOwned'
  <2> SUFFICES ASSUME NEW x \in Prefixes, router'[x] # NONE
               PROVE  /\ \E l \in Keys : pubkey_map'[l] = router'[x]
                      /\ x \in allowed_ips'[router'[x]]
    BY DEF RoutesOwned
  <2>1. CASE x \in all
    BY <1>1, <1>2, <1>3, <2>1
  <2>2. CASE x \notin all
    <3>1. router'[x] = router[x] /\ router[x] # NONE
      BY <1>3, <2>2
    <3>2. PICK l \in Keys : pubkey_map[l] = router[x] /\ x \in allowed_ips[router[x]]
      BY <3>1 DEF IInv, RoutesOwned
    <3>3. router[x] # r
      BY <1>3, <1>5, <2>2, <3>1, <3>2
    <3> QED BY <1>1, <1>2, <3>1, <3>2, <3>3
  <2> QED BY <2>1, <2>2
<1>8. PeersAllowed'
  BY <1>2 DEF IInv, PeersAllowed, Configured
<1> QED BY <1>6, <1>7, <1>8 DEF IInv

\* A new peer object has no route yet.
LEMMA AddInv ==
  ASSUME IInv, NEW k \in Keys, NEW ips \in SUBSET Prefixes, AddPeer(k, ips)
  PROVE  IInv'
<1>1. PICK r \in Unreferenced :
        /\ pubkey_map' = [pubkey_map EXCEPT ![k] = r]
        /\ allowed_ips' = [allowed_ips EXCEPT ![r] = ips]
        /\ router' = [x \in Prefixes |-> IF x \in ips THEN r ELSE router[x]]
  BY Zenon DEF AddPeer, add_allowed_ips
<1>2. /\ r \in Refs /\ pub_key' = pub_key /\ k # pub_key /\ pubkey_map[k] = NONE
      /\ pubkey_map \in [Keys -> Refs \cup {NONE}] /\ allowed_ips \in [Refs -> SUBSET Prefixes]
      /\ router \in [Prefixes -> Refs \cup {NONE}]
      /\ \A x \in Prefixes : router[x] # r
  BY <1>1 DEF AddPeer, IInv, TypeOK, Unreferenced
<1>3. TypeOK'
  BY <1>1, <1>2 DEF IInv, TypeOK
<1>4. RoutesOwned'
  <2> SUFFICES ASSUME NEW x \in Prefixes, router'[x] # NONE
               PROVE  /\ \E l \in Keys : pubkey_map'[l] = router'[x]
                      /\ x \in allowed_ips'[router'[x]]
    BY DEF RoutesOwned
  <2>1. CASE x \in ips
    BY <1>1, <1>2, <2>1
  <2>2. CASE x \notin ips
    <3>1. router'[x] = router[x] /\ router[x] # NONE /\ router[x] # r
      BY <1>1, <1>2, <2>2
    <3>2. PICK l \in Keys : pubkey_map[l] = router[x] /\ x \in allowed_ips[router[x]]
      BY <3>1 DEF IInv, RoutesOwned
    <3>3. l # k
      BY <1>2, <3>1, <3>2
    <3>4. pubkey_map'[l] = pubkey_map[l] /\ allowed_ips'[router[x]] = allowed_ips[router[x]]
      BY <1>1, <1>2, <3>1, <3>3
    <3> QED BY <3>1, <3>2, <3>4
  <2> QED BY <2>1, <2>2
<1>5. PeersAllowed'
  <2>1. Configured' = Configured \cup {k} /\ k \notin Configured /\ IsFiniteSet(Configured)
    BY <1>1, <1>2, ConfigConstants, FS_Subset DEF Configured
  <2>2. Cardinality(Configured') = Cardinality(Configured) + 1
    BY <2>1, FS_AddElement
  <2>3. Cardinality(Configured) \in Nat /\ Cardinality(Configured) < MAX_PEERS_PER_DEVICE
    BY <2>1, FS_CardinalityType DEF AddPeer
  <2>4. Cardinality(Configured') <= MAX_PEERS_PER_DEVICE
    BY <2>2, <2>3, ConfigConstants
  <2> QED BY <1>2, <2>1, <2>4 DEF IInv, PeersAllowed
<1> QED BY <1>3, <1>4, <1>5 DEF IInv

\* Every update keeps the invariant.
LEMMA StepInv ==
  ASSUME IInv, [Next]_vars
  PROVE  IInv'
<1>1. CASE UNCHANGED vars
  BY <1>1 DEF vars, IInv, TypeOK, Configured, RoutesOwned, PeersAllowed
<1>2. CASE ClearPrivateKey
  BY <1>2, ConfigConstants DEF ClearPrivateKey, IInv, TypeOK, Configured, RoutesOwned, PeersAllowed
<1>3. CASE RemoveAllPeers
  <2>1. Cardinality(Configured') <= MAX_PEERS_PER_DEVICE
    BY <1>3, FewerPeers DEF RemoveAllPeers, IInv
  <2>2. Configured' = {}
    BY <1>3 DEF RemoveAllPeers, Configured
  <2> QED BY <1>3, <2>1, <2>2, ConfigConstants
          DEF RemoveAllPeers, IInv, TypeOK, RoutesOwned, PeersAllowed
<1>4. ASSUME NEW k \in Keys, SetPrivateKey(k)
      PROVE  IInv'
  <2>1. CASE pubkey_map[k] # NONE /\ remove_peer(k)
    BY <1>4, <2>1, RemoveInv DEF SetPrivateKey
  <2>2. CASE pubkey_map[k] = NONE /\ UNCHANGED <<pubkey_map, allowed_ips, router>>
    BY <1>4, <2>2 DEF SetPrivateKey, IInv, TypeOK, Configured, RoutesOwned, PeersAllowed
  <2> QED BY <1>4, <2>1, <2>2 DEF SetPrivateKey
<1>5. ASSUME NEW k \in Keys, RemovePeer(k)
      PROVE  IInv'
  BY <1>5, RemoveInv DEF RemovePeer
<1> QED BY <1>1, <1>2, <1>3, <1>4, <1>5, AddInv, UpdateInv DEF Next

\* The inductive invariant holds of every behaviour.
THEOREM Invariance == Spec => []IInv
<1>1. Init => IInv
  BY InitInv
<1>2. IInv /\ [Next]_vars => IInv'
  BY StepInv
<1> QED BY <1>1, <1>2, PTL DEF Spec

\* No route outlives its peer, and no peer is routed a prefix it does not list.
THEOREM RoutesStayOwned == Spec => []RoutesOwned
<1>1. IInv => RoutesOwned
  BY DEF IInv
<1> QED BY <1>1, Invariance, PTL

\* The device never becomes a peer of itself, nor gets more peers than it may have.
THEOREM OnlyAllowedPeers == Spec => []PeersAllowed
<1>1. IInv => PeersAllowed
  BY DEF IInv
<1> QED BY <1>1, Invariance, PTL

\* Type correctness.
THEOREM TypeCorrect == Spec => []TypeOK
<1>1. IInv => TypeOK
  BY DEF IInv
<1> QED BY <1>1, Invariance, PTL

-----------------------------------------------------------------------------
(***************************************************************************)
(* Lifecycle.  Only the process that holds the tunnel device is starting,  *)
(* or running with its device, so nobody binds the path or removes the     *)
(* socket while it does: but for processes whose device was deleted, and   *)
(* those have bound their socket long ago.                                 *)
(***************************************************************************)

DeviceInv ==
  /\ LifecycleTypeOK
  /\ \A i \in Processes : pc[i] # "off" /\ i \notin lost => tun = i
  /\ \A i \in lost : pc[i] \in {"running", "stopping", "removing", "dropped"}
  /\ \A i \in Processes : pc[i] = "path" => file = NONE
  /\ PathIsFree

LEMMA DeviceInit == LifecycleInit => DeviceInv
BY SMTT(30) DEF LifecycleInit, DeviceInv, LifecycleTypeOK, PathIsFree

\* A process that starts holds the device, so that it is the only one to come to
\* the path; one that binds found it free, and nobody was there to take it.
LEMMA DeviceProcess ==
  ASSUME DeviceInv, NEW i \in Processes, Process(i)
  PROVE  DeviceInv'
<1> USE DEF DeviceInv, LifecycleTypeOK, PathIsFree, Goto
<1>1. CASE Connect(i)
  BY <1>1, LifecycleConstants DEF Connect
<1>2. CASE get_path(i)
  BY <1>2 DEF get_path
<1>3. CASE RemoveStale(i)
  BY <1>3, ZenonT(60) DEF RemoveStale, Unlink
<1>4. CASE Bind(i)
  <2>1. /\ pc' = [pc EXCEPT ![i] = "running"] /\ file' = i
        /\ reaper' = [reaper EXCEPT ![i] = "sleeping"]
        /\ UNCHANGED <<tun, lost, signalled>>
    BY <1>4 DEF Bind
  <2>2. pc[i] = "path" /\ i \notin lost /\ tun = i
    BY <1>4 DEF Bind
  <2>3. LifecycleTypeOK'
    BY <2>1
  <2>4. \A j \in Processes \ {i} : pc'[j] = pc[j] /\ pc[j] # "path"
    BY <2>1, <2>2
  <2>5. pc'[i] = "running"
    BY <2>1
  <2> QED BY <2>1, <2>2, <2>3, <2>4, <2>5
<1>5. CASE Watch(i)
  <2>1. reaper' \in [Processes -> {"none", "sleeping", "watching", "told", "ended"}]
    <3> HIDE DEF DeviceInv, PathIsFree, Goto
    <3> QED BY <1>5 DEF Watch, DeviceInv
  <2> QED BY <1>5, <2>1 DEF Watch
<1>10. CASE Removed(i)
  BY <1>10 DEF Removed
<1>6. CASE Stop(i)
  BY <1>6 DEF Stop
<1>7. CASE DropConfig(i)
  BY <1>7 DEF DropConfig
<1>8. CASE RemoveOwn(i)
  BY <1>8 DEF RemoveOwn, Unlink
<1>9. CASE Exit(i)
  BY <1>9 DEF Exit, Ended
<1> QED BY <1>1, <1>2, <1>3, <1>4, <1>5, <1>6, <1>7, <1>8, <1>9, <1>10 DEF Process

LEMMA DeviceOutside ==
  ASSUME DeviceInv, Outside
  PROVE  DeviceInv'
<1> USE DEF DeviceInv, LifecycleTypeOK, PathIsFree, Goto
<1>1. CASE RemoveSocket
  BY <1>1 DEF RemoveSocket, Unlink
<1>2. CASE DeleteDevice
  BY <1>2 DEF DeleteDevice
<1>3. ASSUME NEW i \in Processes, Kill(i)
      PROVE  DeviceInv'
  BY <1>3 DEF Kill, Ended
<1>4. ASSUME NEW i \in Processes, Signal(i)
      PROVE  DeviceInv'
  BY <1>4 DEF Signal
<1> QED BY <1>1, <1>2, <1>3, <1>4 DEF Outside

LEMMA DeviceStep ==
  ASSUME DeviceInv, [LifecycleNext]_lifecycleVars
  PROVE  DeviceInv'
<1>1. CASE UNCHANGED lifecycleVars
  BY <1>1 DEF lifecycleVars, DeviceInv, LifecycleTypeOK, PathIsFree
<1> QED BY <1>1, DeviceProcess, DeviceOutside DEF LifecycleNext

\* Whenever processes are started, killed, stopped or lose their device: one
\* that comes as far as binding its socket finds the path free.
THEOREM BindSucceeds == LifecycleSpec => []PathIsFree
<1>1. DeviceInv /\ [LifecycleNext]_lifecycleVars => DeviceInv'
  BY DeviceStep
<1>2. DeviceInv => PathIsFree
  BY DEF DeviceInv
<1> QED BY <1>1, <1>2, DeviceInit, PTL DEF LifecycleSpec

\* The socket of a process that runs with its device goes only when a user, or a
\* process whose device was deleted, removes it.
THEOREM SocketStays == LifecycleSpec => SocketKept
<1> DEFINE Kept == \A i \in Processes :
                     file = i /\ file' # i /\ pc[i] = "running" /\ i \notin lost =>
                       RemoveSocket \/ \E j \in lost : RemoveOwn(j)
<1>1. DeviceInv /\ [LifecycleNext]_lifecycleVars => [Kept]_lifecycleVars
  <2> SUFFICES ASSUME DeviceInv, LifecycleNext, NEW i \in Processes,
                      file = i, file' # i, pc[i] = "running", i \notin lost
               PROVE  RemoveSocket \/ \E j \in lost : RemoveOwn(j)
    OBVIOUS
  <2>1. tun = i /\ file # NONE
    BY LifecycleConstants DEF DeviceInv
  <2>2. ASSUME NEW j \in Processes, Process(j)
        PROVE  j \in lost /\ RemoveOwn(j)
    <3>1. RemoveStale(j) \/ Bind(j) \/ RemoveOwn(j)
      BY <2>2 DEF Process, Connect, get_path, Watch, Removed, Stop,
                  DropConfig, Exit, Ended
    <3>2. pc[j] \in {"stale", "path", "removing"}
      BY <3>1 DEF RemoveStale, Bind, RemoveOwn
    <3>3. j # i
      BY <3>2
    <3>4. j \in lost
      BY <2>1, <3>2, <3>3 DEF DeviceInv
    <3>5. pc[j] = "removing"
      BY <3>2, <3>4 DEF DeviceInv
    <3> QED BY <3>1, <3>4, <3>5 DEF RemoveStale, Bind
  <2>3. CASE Outside
    BY <2>3 DEF Outside, DeleteDevice, Kill, Ended, Signal
  <2> QED BY <2>2, <2>3 DEF LifecycleNext
<1>2. DeviceInv /\ [LifecycleNext]_lifecycleVars => DeviceInv'
  BY DeviceStep
<1> QED BY <1>1, <1>2, DeviceInit, PTL DEF LifecycleSpec, SocketKept
=============================================================================
