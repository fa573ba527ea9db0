-------------------------------- MODULE Base64 --------------------------------
(***************************************************************************)
(* The encoding of a chunk of file data (source/impl/net/base64.c) and the *)
(* server's decoding of it.  A character is its place in base64_chars; the *)
(* sign "=" is PAD.                                                        *)
(***************************************************************************)
EXTENDS Integers, Sequences

PAD == 64

BASE64_SIZE(len) == ((len + 2) \div 3) * 4 + 1

\* A byte past the end of the input is taken as 0.
InputByte(input, k) == IF k <= Len(input) THEN input[k] ELSE 0

PrecedesUnshifted(i, k, len) == i < len   \* mutant: i is already past the group
\* i - k < len, where i - k is a size_t: below zero it is larger than any len.
Precedes(i, k, len) == i >= k /\ i - k < len

\* Character c of the output; the group's last input byte read is number i.
base64_char(input, c) ==
  LET g    == (c - 1) \div 4
      i    == IF 3 * g + 3 <= Len(input) THEN 3 * g + 3 ELSE Len(input)
      b(k) == InputByte(input, 3 * g + k)
  IN CASE c % 4 = 1 -> b(1) \div 4
       [] c % 4 = 2 -> (b(1) % 4) * 16 + b(2) \div 16
       [] c % 4 = 3 -> IF Precedes(i, 2, Len(input))
                       THEN (b(2) % 16) * 4 + b(3) \div 64 ELSE PAD
       [] c % 4 = 0 -> IF Precedes(i, 1, Len(input)) THEN b(3) % 64 ELSE PAD

base64_encode(input) ==
  [c \in 1..4 * ((Len(input) + 2) \div 3) |-> base64_char(input, c)]

\* One round of base64_encode's loop from the state s = [i, output] at its
\* head: up to three bytes are read and four characters written.
EncodeRound(s, input) ==
  LET n  == Len(input)
      i1 == s.i + 1
      i2 == IF i1 < n THEN i1 + 1 ELSE i1
      i3 == IF i2 < n THEN i2 + 1 ELSE i2
      byte1 == input[i1]
      byte2 == IF i1 < n THEN input[i1 + 1] ELSE 0
      byte3 == IF i2 < n THEN input[i2 + 1] ELSE 0
  IN [i |-> i3,
      output |-> s.output \o
        <<byte1 \div 4, (byte1 % 4) * 16 + (byte2 \div 16),
          IF Precedes(i3, 2, n) THEN (byte2 % 16) * 4 + (byte3 \div 64) ELSE PAD,
          IF Precedes(i3, 1, n) THEN byte3 % 64 ELSE PAD>>]

\* head[r] is the state at the loop's head after r rounds.
IsEncodeLoop(head, rounds, input) ==
  /\ head[0] = [i |-> 0, output |-> <<>>]
  /\ \A r \in 0..(rounds - 1) :
       head[r].i < Len(input) /\ head[r + 1] = EncodeRound(head[r], input)

\* What the six bits of a character stand for; "=" and what is missing are 0.
Sextet(chars, c) == IF c \in DOMAIN chars /\ chars[c] # PAD THEN chars[c] ELSE 0

\* Byte k of what the characters encode: two characters hold it.
DecodedByte(chars, k) ==
  LET g == (k - 1) \div 3
      s(c) == Sextet(chars, 4 * g + c)
  IN CASE k % 3 = 1 -> s(1) * 4 + s(2) \div 16
       [] k % 3 = 2 -> (s(2) % 16) * 16 + s(3) \div 4
       [] k % 3 = 0 -> (s(3) % 4) * 64 + s(4)

\* The first len bytes, the length that the request names beside the data.
base64_decode(chars, len) == [k \in 1..len |-> DecodedByte(chars, k)]
=============================================================================
