---------------------------- MODULE MCSinkEncoder ----------------------------
(* SinkEncoder for TLC. *)
EXTENDS SinkEncoder
=============================================================================
