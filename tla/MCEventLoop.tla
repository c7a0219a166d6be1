---------------------------- MODULE MCEventLoop ----------------------------
(***************************************************************************)
(* EventLoop with four UDP packets in all, enough for a burst that leaves  *)
(* handshake messages behind and for both sockets to be readable at once.  *)
(***************************************************************************)
EXTENDS EventLoop
=============================================================================
