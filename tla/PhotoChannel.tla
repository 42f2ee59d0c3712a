---------------------------- MODULE PhotoChannel ----------------------------
(***************************************************************************)
(* What the snapshot channel promises the source: the photos of the sink   *)
(* are handed over whole, each at most once.  Photos may be lost, and one  *)
(* that a session shut down still holds may come after later ones.         *)
(***************************************************************************)
EXTENDS Integers, Sequences

CONSTANT Sizes   \* the sizes a photo may have

VARIABLES
  photos,   \* the sizes of the photos taken so far
  posted    \* the buffers handed to the listener so far

vars == <<photos, posted>>

\* The bytes of photo n: byte p is <<n, p>>.
Content(n) == [p \in 0..(photos[n] - 1) |-> <<n, p>>]

\* The photo the first byte of a buffer belongs to.
PhotoOf(buffer) == buffer[0][1]

\* The photos handed over.
Posted == {PhotoOf(posted[i]) : i \in DOMAIN posted}

Init == photos = <<>> /\ posted = <<>>

Take == /\ \E s \in Sizes : photos' = Append(photos, s)
        /\ UNCHANGED posted

Post == /\ \E n \in DOMAIN photos : /\ n \notin Posted
                                    /\ posted' = Append(posted, Content(n))
        /\ UNCHANGED photos

Next == Take \/ Post

Spec == Init /\ [][Next]_vars
=============================================================================
