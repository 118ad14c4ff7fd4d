---------------------------- MODULE MCFrameCodec ----------------------------
(* FrameCodec instantiated for TLC by MCFrameCodec.cfg. *)
EXTENDS FrameCodec
=============================================================================
