------------------------------- MODULE Base64 -------------------------------
(***************************************************************************)
(* Base64Encode and Base64Decode: camera metadata travels as text in the   *)
(* settings.  A text is a sequence of the six-bit codes of its characters, *)
(* the padding character is Pad.                                           *)
(***************************************************************************)
EXTENDS Naturals, Sequences

Pad == 64

\* What BASE_64_CHARS.find returns, as a byte, for a character it does not hold.
NotFound == 255

----------------------------------------------------------------------------
(* Three bytes are four codes.                                             *)
Codes(x, y, z) == <<x \div 4, (x % 4) * 16 + (y \div 16), (y % 16) * 4 + (z \div 64), z % 64>>
Bytes(a, b, c, d) ==
  <<(a * 4 + ((b \div 16) % 4)) % 256, ((b % 16) * 16 + ((c \div 4) % 16)) % 256, ((c % 4) * 64 + d) % 256>>

\* Which group of k the n-th element is in, and its place there.
Group(n, k) == (n + k - 1) \div k
Place(n, k) == ((n + k - 1) % k) + 1
OrElse(s, i, default) == IF i \in DOMAIN s THEN s[i] ELSE default

(* The last group of an encoding may stand for one or two bytes.           *)
EncodedGroup(b, k) ==
  LET i == 3 * k - 2
      codes == Codes(OrElse(b, i, 0), OrElse(b, i + 1, 0), OrElse(b, i + 2, 0))
      rest == Len(b) - i + 1
  IN [j \in 1..4 |-> IF j <= rest + 1 THEN codes[j] ELSE Pad]
EncodedLength(b) == 4 * Group(Len(b), 3)
Base64Encode(b) == [n \in 1..EncodedLength(b) |-> EncodedGroup(b, Group(n, 4))[Place(n, 4)]]

(* What comes before the first that is in S.                               *)
Before(list, S) ==
  SubSeq(list, 1, CHOOSE n \in 0..Len(list) : /\ \A i \in 1..n : list[i] \notin S
                                              /\ n < Len(list) => list[n + 1] \in S)

(* The decoding ends at the padding; of an incomplete group it takes one   *)
(* byte less than there are characters.                                    *)
DecodedGroup(t, k) ==
  LET i == 4 * k - 3
  IN Bytes(t[i], OrElse(t, i + 1, NotFound), OrElse(t, i + 2, NotFound), OrElse(t, i + 3, NotFound))
DecodedLength(t) == (3 * Len(t)) \div 4
DecodedGroups(t) == [n \in 1..DecodedLength(t) |-> DecodedGroup(t, Group(n, 3))[Place(n, 3)]]
Base64Decode(text) == DecodedGroups(Before(text, {Pad}))
=============================================================================
