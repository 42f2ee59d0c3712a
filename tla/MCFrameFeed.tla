---------------------------- MODULE MCFrameFeed ----------------------------
(* FrameFeed for TLC. *)
EXTENDS FrameFeed
=============================================================================
