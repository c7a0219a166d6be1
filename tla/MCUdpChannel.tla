---------------------------- MODULE MCUdpChannel ----------------------------
(***************************************************************************)
(* UdpChannel with one remote address of each family and two payloads.     *)
(***************************************************************************)
EXTENDS UdpChannel

MCEndpoints == {"e4", "e6"}
MCFamilies == {"v4", "v6"}
MCFamilyOf == [e \in MCEndpoints |-> IF e = "e4" THEN "v4" ELSE "v6"]
MCPayloads == {<<1>>, <<2>>}
=============================================================================
