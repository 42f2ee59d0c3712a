-------------------------- MODULE MCSourceRegistry --------------------------
(* SourceRegistry for TLC. *)
EXTENDS SourceRegistry
=============================================================================
