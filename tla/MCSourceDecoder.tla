--------------------------- MODULE MCSourceDecoder ---------------------------
(* SourceDecoder for TLC. *)
EXTENDS SourceDecoder
=============================================================================
