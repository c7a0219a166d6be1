------------------------------ MODULE Listener ------------------------------
(***************************************************************************)
(* How the UDP socket follows the configuration.  The configuration        *)
(* service applies the updates of a `set` to the shared state at once and  *)
(* sends the peer server a message for each (ConfigurationService::new and *)
(* handle_update, src/interface/config.rs); the peer server handles the    *)
(* messages later, one by one, and reads the state as it is by then        *)
(* (handle_incoming_event and rebind, src/interface/peer_server.rs).       *)
(*                                                                         *)
(* Of the updates only those of the interface are modelled, and one that   *)
(* is refused (the removal of a peer that does not exist, a peer too many),*)
(* which ends a command half-way.  The peers are the subject of Config.    *)
(***************************************************************************)
EXTENDS Option, Integers, SequencesExt

CONSTANTS
  Ports, Marks,            \* listen_port, fwmark; 0 is "any port", "no mark"
  MaxUpdates,              \* bound: updates in a command
  MaxMessages,             \* bound: messages in the channel
  MaxFailures              \* bound: bind or set_mark fails this often

ASSUME ListenerConstants ==
  /\ Ports \cup Marks \subseteq Nat /\ 0 \in Ports \cap Marks
  /\ NONE \notin Nat /\ NONE \notin [port : Ports, mark : Marks]
  /\ {MaxUpdates, MaxMessages, MaxFailures} \subseteq Nat

Updates ==
  [update : {"PrivateKey"}, value : BOOLEAN] \cup [update : {"ListenPort"}, value : Ports]
    \cup [update : {"Fwmark"}, value : Marks] \cup [update : {"Refused"}, value : {NONE}]

VARIABLES
  private_key,             \* interface_info: is there a key,
  listen_port, fwmark,     \*   the port and the mark, or NONE
  channel,                 \* messages to the peer server
  udp,                     \* PeerServer.udp: [port, mark], or NONE
  port,                    \* PeerServer.port
  panicked,                \* the unwrap of rebind in NewPrivateKey
  failures

info == <<private_key, listen_port, fwmark>>
socket == <<udp, port>>
vars == <<info, channel, socket, panicked, failures>>

Init ==
  /\ private_key = FALSE /\ listen_port = NONE /\ fwmark = NONE
  /\ channel = <<>>
  /\ udp = NONE /\ port = NONE
  /\ panicked = FALSE /\ failures = 0

-----------------------------------------------------------------------------
(* The configuration service *)

Message(u) ==
  CASE u.update = "PrivateKey" -> [event |-> IF u.value THEN "NewPrivateKey" ELSE "ClearPrivateKey"]
    [] u.update = "ListenPort" -> [event |-> "NewListenPort"]
    [] u.update = "Fwmark"     -> [event |-> "NewFwmark", mark |-> u.value]

\* The updates up to the first one that is refused.
Applied(updates) ==
  LET refused == SelectInSeq(updates, LAMBDA u : u.update = "Refused")
  IN  IF refused = 0 THEN updates ELSE SubSeq(updates, 1, refused - 1)

LastValue(updates, kind, otherwise) ==
  LET n == SelectLastInSeq(updates, LAMBDA u : u.update = kind)
  IN  IF n = 0 THEN otherwise ELSE updates[n].value

\* Mutant: the messages are sent at the end of a command that succeeds.
messages_at_end(updates) ==
  IF Applied(updates) = updates THEN [n \in DOMAIN updates |-> Message(updates[n])] ELSE <<>>

\* The messages of the updates that were applied.
messages(updates) == [n \in DOMAIN Applied(updates) |-> Message(Applied(updates)[n])]

Set(updates) ==
  LET applied == Applied(updates)
  IN  /\ Len(channel) + Len(applied) <= MaxMessages
      /\ private_key' = LastValue(applied, "PrivateKey", private_key)
      /\ listen_port' = LastValue(applied, "ListenPort", listen_port)
      /\ fwmark' = LastValue(applied, "Fwmark", fwmark)
      /\ channel' = channel \o messages(updates)
      /\ UNCHANGED <<socket, panicked, failures>>

-----------------------------------------------------------------------------
(* The peer server *)

unwrap_or_0(option) == IF option = NONE THEN 0 ELSE option

Receive(event) == channel # <<>> /\ Head(channel).event = event /\ channel' = Tail(channel)

bind == [port |-> unwrap_or_0(listen_port), mark |-> unwrap_or_0(fwmark)]

Fails == failures < MaxFailures /\ failures' = failures + 1

\* rebind that succeeds.
rebind_ok ==
  /\ IF ~private_key THEN udp' = NONE /\ port' = NONE
     ELSE IF port = unwrap_or_0(listen_port) THEN UNCHANGED socket
     ELSE udp' = bind /\ port' = unwrap_or_0(listen_port)
  /\ UNCHANGED failures

\* Mutant: the port is noted before the socket is there.
rebind_notes_port ==
  /\ private_key /\ port # unwrap_or_0(listen_port)
  /\ Fails
  /\ port' = unwrap_or_0(listen_port)
  /\ UNCHANGED udp

\* bind or set_mark fails: the socket that was there stays.
rebind_fails ==
  /\ private_key /\ port # unwrap_or_0(listen_port)
  /\ Fails
  /\ UNCHANGED socket

NewPrivateKey ==
  /\ Receive("NewPrivateKey")
  /\ IF ~private_key THEN udp' = NONE /\ port' = NONE /\ UNCHANGED <<panicked, failures>>
     ELSE IF udp # NONE THEN UNCHANGED <<socket, panicked, failures>>
     ELSE \/ rebind_ok /\ UNCHANGED panicked
          \/ rebind_fails /\ panicked' = TRUE
  /\ UNCHANGED info

\* ClearPrivateKey falls through to `_ => {}`.
ClearPrivateKey ==
  /\ Receive("ClearPrivateKey")
  /\ UNCHANGED <<info, socket, panicked, failures>>

NewListenPort ==
  /\ Receive("NewListenPort")
  /\ rebind_ok \/ rebind_fails
  /\ UNCHANGED <<info, panicked>>

NewFwmark ==
  /\ Receive("NewFwmark")
  /\ IF udp = NONE THEN UNCHANGED <<udp, failures>>
     ELSE \/ udp' = [udp EXCEPT !.mark = Head(channel).mark] /\ UNCHANGED failures
          \/ Fails /\ UNCHANGED udp
  /\ UNCHANGED <<info, port, panicked>>

handle_incoming_event == NewPrivateKey \/ ClearPrivateKey \/ NewListenPort \/ NewFwmark

Next ==
  /\ ~panicked
  /\ (\E updates \in BoundedSeq(Updates, MaxUpdates) : Set(updates)) \/ handle_incoming_event

Spec == Init /\ [][Next]_vars

-----------------------------------------------------------------------------
TypeOK ==
  /\ {private_key, panicked} \subseteq BOOLEAN
  /\ listen_port \in Ports \cup {NONE} /\ fwmark \in Marks \cup {NONE}
  /\ Len(channel) <= MaxMessages
  /\ udp \in [port : Ports, mark : Marks] \cup {NONE} /\ port \in Ports \cup {NONE}
  /\ failures \in 0 .. MaxFailures

(***************************************************************************)
(* Once the messages are handled, and unless a bind or set_mark failed,    *)
(* the socket of a device with a key has the configured port and mark: in  *)
(* whatever order and in however many commands they were set, also when a  *)
(* command ended half-way, and although the messages are handled in a      *)
(* state that is newer than they are.                                      *)
(***************************************************************************)
SocketMatchesConfig ==
  channel = <<>> /\ failures = 0 /\ private_key =>
    udp = [port |-> unwrap_or_0(listen_port), mark |-> unwrap_or_0(fwmark)]

(***************************************************************************)
(* PeerServer.port tells what the socket is bound to: rebind relies on it  *)
(* to leave a socket alone, also after a failure.                          *)
(***************************************************************************)
PortIsSockets == IF udp = NONE THEN port = NONE ELSE port = udp.port
=============================================================================
