--------------------------- MODULE MCSinkChannel ---------------------------
(* A small instance of SinkChannel for TLC; sources are interchangeable. *)
EXTENDS SinkChannel, TLC

Swapped == Permutations(Peers)
============================================================================
