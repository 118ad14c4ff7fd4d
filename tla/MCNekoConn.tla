------------------------------ MODULE MCNekoConn ----------------------------
(* NekoConn instantiated for TLC by the MCNekoConn*.cfg files. *)
EXTENDS NekoConn
=============================================================================
