----------------------------- MODULE MCServices -----------------------------
(* Services for TLC: the threads of the load callbacks are interchangeable. *)
EXTENDS Services, TLC
Interchangeable == Permutations(Loads)
=============================================================================
