---------------------------- MODULE MCNekoSession ---------------------------
(* NekoSession instantiated for TLC by MCNekoSession.cfg. *)
EXTENDS NekoSession
=============================================================================
