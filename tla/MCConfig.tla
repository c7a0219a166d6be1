------------------------------ MODULE MCConfig ------------------------------
(***************************************************************************)
(* Config, and in front of it ConfigParser: a client writes a command line *)
(* by line, and then the device applies updates.  The commands are written *)
(* to a device as it starts, since the text does not depend on it; they    *)
(* name two peers and have lines of every kind and two bad values.         *)
(***************************************************************************)
EXTENDS Config, ConfigParser, TLC

CONSTANTS
  Lines,                   \* the lines a client writes after `set`
  MaxLines                 \* bound: lines of a command

VARIABLE written           \* the lines of the command that is being written

AtStart == pub_key = NONE /\ Configured = {} /\ \A r \in Refs : allowed_ips[r] = {}

WriteLine ==
  /\ AtStart
  /\ Len(written) < MaxLines
  /\ \E line \in Lines : written' = Append(written, line)
  /\ UNCHANGED vars

EndCommand == written # <<>> /\ written' = <<>> /\ UNCHANGED vars

Update == written = <<>> /\ Next /\ UNCHANGED written

MCInit == Init /\ written = <<>>

MCNext == WriteLine \/ EndCommand \/ Update

MCSpec == MCInit /\ [][MCNext]_<<vars, written>>

ConfigSymmetry == Permutations(Keys) \cup Permutations(Refs) \cup Permutations(Prefixes)

Line(k, v) == [key |-> k, value |-> v]

MCLines == {Line("private_key", "p"), Line("replace_peers", "true"),
            Line("public_key", "k1"), Line("public_key", "k2"),
            Line("endpoint", "e1"), Line("endpoint", BAD),
            Line("allowed_ip", "x1"), Line("replace_allowed_ips", "true"),
            Line("remove", "true"), Line("unknown", BAD)}

(***************************************************************************)
(* Whatever a client writes, the updates are those of the sections of its  *)
(* command: no line of one peer is applied to another, lines before the    *)
(* first peer and unknown ones have no effect, a command with a value that *)
(* does not parse has none at all, and nothing is decoded before all of it *)
(* has arrived.                                                            *)
(***************************************************************************)
DecodedAsMeant == DecodesRight(written)
=============================================================================
