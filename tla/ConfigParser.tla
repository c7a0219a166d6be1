---------------------------- MODULE ConfigParser ----------------------------
(***************************************************************************)
(* The text of a `set` command: ConfigurationCodec, which cuts it from the *)
(* bytes of a connection, and UpdateEvent::from, which turns its lines     *)
(* into updates (src/interface/config.rs).  Both are functions of what has *)
(* arrived; the updates are what Config and Listener apply.                *)
(*                                                                         *)
(* A line "key=value" is one symbol of the buffer, a line break another:   *)
(* the codec looks no closer to find the end of a command.  Several keys   *)
(* that are treated alike are one here: "port" stands for listen_port and  *)
(* fwmark, "endpoint" for the three values of a peer that the last line    *)
(* decides, "unknown" for keys that are only logged.                       *)
(***************************************************************************)
EXTENDS Integers, Sequences

LOCAL INSTANCE SequencesExt

CONSTANT
  BAD                      \* a value that does not parse

NL == [key |-> "newline", value |-> ""]
SetLine == [key |-> "set", value |-> "1"]

-----------------------------------------------------------------------------
(* UpdateEvent::from *)

\* PeerInfo::default(); an Option is the sequence of what it holds.
NoInfo == [pub_key |-> <<>>, endpoint |-> <<>>, allowed_ips |-> <<>>]

Start == [events |-> <<>>, pending_peer |-> FALSE, remove_pending_peer |-> FALSE,
          replace_allowed_ips |-> FALSE, info |-> NoInfo]

\* The event of the peer collected so far, if there is one.
flush(s) ==
  IF ~s.pending_peer THEN <<>>
  ELSE IF s.remove_pending_peer
       THEN <<[update |-> "RemovePeer", pub_key |-> s.info.pub_key]>>
       ELSE <<[update |-> "UpdatePeer", info |-> s.info, replace |-> s.replace_allowed_ips]>>

\* Mutant: a new peer takes over the flag of the one before.
public_key_keeps_flag(s, key) ==
  [s EXCEPT !.events = @ \o flush(s), !.info = [NoInfo EXCEPT !.pub_key = <<key>>],
            !.pending_peer = TRUE, !.remove_pending_peer = FALSE]

public_key(s, key) ==
  [s EXCEPT !.events = @ \o flush(s), !.info = [NoInfo EXCEPT !.pub_key = <<key>>],
            !.pending_peer = TRUE, !.remove_pending_peer = FALSE,
            !.replace_allowed_ips = FALSE]

\* One turn of the loop over the lines.
Item(s, item) ==
  CASE item.key \in {"private_key", "port"} ->
         [s EXCEPT !.events = Append(@, [update |-> item.key, value |-> item.value])]
    [] item.key = "replace_peers" ->
         [s EXCEPT !.events = Append(@, [update |-> "RemoveAllPeers"])]
    [] item.key = "public_key" -> public_key(s, item.value)
    [] item.key = "endpoint" -> [s EXCEPT !.info.endpoint = <<item.value>>]
    [] item.key = "allowed_ip" -> [s EXCEPT !.info.allowed_ips = Append(@, item.value)]
    [] item.key = "replace_allowed_ips" -> [s EXCEPT !.replace_allowed_ips = TRUE]
    [] item.key = "remove" -> [s EXCEPT !.remove_pending_peer = TRUE]
    [] OTHER -> s

from(items) == LET end == FoldLeft(Item, Start, items) IN end.events \o flush(end)

\* A value that does not parse returns from the loop with an error; the values
\* of flags and of unknown keys are not looked at.
ParsedKeys == {"private_key", "port", "public_key", "endpoint", "allowed_ip"}

Parses(items) == \A n \in DOMAIN items : items[n].key \in ParsedKeys => items[n].value # BAD

-----------------------------------------------------------------------------
(* ConfigurationCodec::decode *)

\* Where an empty line begins: utf8.split("\n\n") has a second part.
BlobEnds(buf) == {n \in 1 .. Len(buf) - 1 : buf[n] = NL /\ buf[n + 1] = NL}

\* blob.split('\n'): what lies between two line breaks, which may be nothing.
split(blob) ==
  LET next(lines, x) == IF x = NL THEN Append(lines, <<>>)
                        ELSE [lines EXCEPT ![Len(lines)] = Append(@, x)]
  IN  FoldLeft(next, << <<>> >>, blob)

\* What comes of a buffer, and what split_to(blob.len() + 1) leaves of it: the
\* second of the two line breaks.  A line without a value fails the unwrap.
decode(buf) ==
  LET end   == CHOOSE n \in BlobEnds(buf) : \A k \in BlobEnds(buf) : n <= k
      lines == split(SubSeq(buf, 1, end - 1))
      items == Tail(FlattenSeq(lines))
      rest  == SubSeq(buf, end + 1, Len(buf))
  IN  CASE BlobEnds(buf) = {} -> [status |-> "none", rest |-> buf, events |-> <<>>]
        [] BlobEnds(buf) # {} /\ (\E n \in DOMAIN lines : lines[n] = <<>>) ->
             [status |-> "panicked", rest |-> buf, events |-> <<>>]
        [] OTHER -> IF Parses(items)
                    THEN [status |-> "set", rest |-> rest, events |-> from(items)]
                    ELSE [status |-> "failed", rest |-> rest, events |-> <<>>]

-----------------------------------------------------------------------------
(***************************************************************************)
(* What a `set` means, section by section: a section begins at a           *)
(* public_key line and ends before the next one or with the command.       *)
(***************************************************************************)
Starts(items) == {n \in DOMAIN items : items[n].key = "public_key"}

Section(items, n) ==
  LET later == {k \in Starts(items) : k > n}
      end   == IF later = {} THEN Len(items)
               ELSE (CHOOSE k \in later : \A j \in later : k <= j) - 1
  IN  SubSeq(items, n, end)

Values(section, key) ==
  LET lines == SelectSeq(section, LAMBDA line : line.key = key)
  IN  [n \in DOMAIN lines |-> lines[n].value]

Mentions(section, key) == Values(section, key) # <<>>

PeerEvent(section) ==
  LET endpoints == Values(section, "endpoint")
  IN  IF Mentions(section, "remove")
      THEN [update |-> "RemovePeer", pub_key |-> <<section[1].value>>]
      ELSE [update |-> "UpdatePeer",
            info |-> [pub_key |-> <<section[1].value>>,
                      endpoint |-> IF endpoints = <<>> THEN <<>> ELSE <<Last(endpoints)>>,
                      allowed_ips |-> Values(section, "allowed_ip")],
            replace |-> Mentions(section, "replace_allowed_ips")]

\* The event that line n completes: its own, or that of the section before it.
EventsAt(items, n) ==
  LET before == {k \in Starts(items) : k < n}
  IN  CASE items[n].key \in {"private_key", "port"} ->
             <<[update |-> items[n].key, value |-> items[n].value]>>
        [] items[n].key = "replace_peers" -> <<[update |-> "RemoveAllPeers"]>>
        [] items[n].key = "public_key" /\ before # {} ->
             <<PeerEvent(Section(items, CHOOSE k \in before : \A j \in before : k >= j))>>
        [] OTHER -> <<>>

LastSection(items) ==
  IF Starts(items) = {} THEN <<>>
  ELSE <<PeerEvent(Section(items, CHOOSE n \in Starts(items) : \A k \in Starts(items) : k <= n))>>

Meaning(items) ==
  FlattenSeq([n \in DOMAIN items |-> EventsAt(items, n)]) \o LastSection(items)

-----------------------------------------------------------------------------
\* What a client writes.
Text(items) ==
  <<SetLine, NL>> \o FlattenSeq([n \in DOMAIN items |-> <<items[n], NL>>]) \o <<NL>>

\* Nothing is decoded of a command before all of it has arrived, and then what
\* it means, or nothing if a value does not parse.
DecodesRight(items) ==
  LET text == Text(items) IN
  /\ \A n \in 0 .. Len(text) - 1 : decode(SubSeq(text, 1, n)).status = "none"
  /\ decode(text).status = IF Parses(items) THEN "set" ELSE "failed"
  /\ Parses(items) => decode(text).events = Meaning(items)
=============================================================================
