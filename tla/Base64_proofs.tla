----------------------------- MODULE Base64_proofs -----------------------------
(***************************************************************************)
(* Theorems about the encoding of file data: for chunks of every length    *)
(* the text fits the buffer the code allocates, and a decoder that takes   *)
(* the length from the request gets every byte back, although the padding  *)
(* is not the standard's.                                                  *)
(***************************************************************************)
EXTENDS Base64, SequenceTheorems, WellFoundedInduction, TLAPS

Bytes == 0..255

\* Number k of an input lies in group g at place r of three.
LEMMA Place ==
  ASSUME NEW k \in Nat \ {0}
  PROVE  LET g == (k - 1) \div 3
         IN /\ g \in Nat
            /\ \/ k = 3 * g + 1 /\ k % 3 = 1
               \/ k = 3 * g + 2 /\ k % 3 = 2
               \/ k = 3 * g + 3 /\ k % 3 = 0
  OBVIOUS

\* The four characters of a group that holds an input byte are in the text.
LEMMA GroupInText ==
  ASSUME NEW n \in Nat, NEW g \in Nat, 3 * g + 1 <= n, NEW j \in 1..4
  PROVE  4 * g + j \in 1..4 * ((n + 2) \div 3)
  OBVIOUS

\* Where a character stands: its group, and its place among the four.
LEMMA CharPlace ==
  ASSUME NEW g \in Nat
  PROVE  /\ (4 * g + 1 - 1) \div 4 = g /\ (4 * g + 1) % 4 = 1
         /\ (4 * g + 2 - 1) \div 4 = g /\ (4 * g + 2) % 4 = 2
         /\ (4 * g + 3 - 1) \div 4 = g /\ (4 * g + 3) % 4 = 3
         /\ (4 * g + 4 - 1) \div 4 = g /\ (4 * g + 4) % 4 = 0
  OBVIOUS

\* A byte comes back from the two sextets that it was divided over.
LEMMA ByteDivided ==
  ASSUME NEW a \in Bytes, NEW b \in Bytes, NEW d \in Bytes
  PROVE  /\ (a \div 4) * 4 + ((a % 4) * 16 + (b \div 16)) \div 16 = a
         /\ (((d % 4) * 16 + (a \div 16)) % 16) * 16 + ((a % 16) * 4 + (b \div 64)) \div 4 = a
         /\ (((b % 16) * 4 + (a \div 64)) % 4) * 64 + (a % 64) = a
<1>1. (a \div 4) * 4 + ((a % 4) * 16 + (b \div 16)) \div 16 = a
  BY DEF Bytes
<1>2. (((d % 4) * 16 + (a \div 16)) % 16) * 16 + ((a % 16) * 4 + (b \div 64)) \div 4 = a
  BY DEF Bytes
<1>3. (((b % 16) * 4 + (a \div 64)) % 4) * 64 + (a % 64) = a
  BY DEF Bytes
<1> QED BY <1>1, <1>2, <1>3

\* No sextet is taken for a padding sign.
LEMMA SextetsNotPad ==
  ASSUME NEW a \in Bytes, NEW b \in Bytes
  PROVE  /\ a \div 4 # PAD /\ a % 64 # PAD
         /\ (a % 4) * 16 + (b \div 16) # PAD
         /\ (a % 16) * 4 + (b \div 64) # PAD
  BY DEF Bytes, PAD

\* The bytes of the input, and the zeros after its end, are bytes.
LEMMA InputIsByte ==
  ASSUME NEW input \in Seq(Bytes), NEW k \in Nat \ {0}
  PROVE  InputByte(input, k) \in Bytes
<1>1. CASE k <= Len(input)
  BY <1>1 DEF InputByte
<1>2. CASE k > Len(input)
  BY <1>2 DEF InputByte, Bytes
<1> QED BY <1>1, <1>2

\* The four cases of base64_char, for a character of group g.
LEMMA CharCases ==
  ASSUME NEW input \in Seq(Bytes), NEW g \in Nat, NEW c \in Nat, (c - 1) \div 4 = g
  PROVE  LET b(k) == InputByte(input, 3 * g + k)
             i == IF 3 * g + 3 <= Len(input) THEN 3 * g + 3 ELSE Len(input)
         IN /\ c % 4 = 1 => base64_char(input, c) = b(1) \div 4
            /\ c % 4 = 2 => base64_char(input, c) = (b(1) % 4) * 16 + (b(2) \div 16)
            /\ c % 4 = 3 /\ Precedes(i, 2, Len(input)) =>
                 base64_char(input, c) = (b(2) % 16) * 4 + (b(3) \div 64)
            /\ c % 4 = 0 /\ Precedes(i, 1, Len(input)) =>
                 base64_char(input, c) = b(3) % 64
            /\ c % 4 = 3 /\ ~Precedes(i, 2, Len(input)) => base64_char(input, c) = PAD
            /\ c % 4 = 0 /\ ~Precedes(i, 1, Len(input)) => base64_char(input, c) = PAD
<1>1. CASE c % 4 = 1 BY <1>1 DEF base64_char
<1>2. CASE c % 4 = 2 BY <1>2 DEF base64_char
<1>3. CASE c % 4 = 3 BY <1>3 DEF base64_char
<1>4. CASE c % 4 = 0 BY <1>4 DEF base64_char
<1> QED BY <1>1, <1>2, <1>3, <1>4

\* The characters of a group that begins within the input.
LEMMA GroupChars ==
  ASSUME NEW input \in Seq(Bytes), NEW g \in Nat, 3 * g + 1 <= Len(input)
  PROVE  LET s(c) == Sextet(base64_encode(input), 4 * g + c)
             b(k) == InputByte(input, 3 * g + k)
         IN /\ s(1) = b(1) \div 4
            /\ s(2) = (b(1) % 4) * 16 + (b(2) \div 16)
            /\ 3 * g + 2 <= Len(input) => s(3) = (b(2) % 16) * 4 + (b(3) \div 64)
            /\ 3 * g + 3 <= Len(input) => s(4) = b(3) % 64
<1> DEFINE n == Len(input)
           b(k) == InputByte(input, 3 * g + k)
           i == IF 3 * g + 3 <= n THEN 3 * g + 3 ELSE n
<1>1. n \in Nat /\ i \in Nat
  OBVIOUS
<1>2. b(1) \in Bytes /\ b(2) \in Bytes /\ b(3) \in Bytes
  BY InputIsByte
<1>3. \A j \in 1..4 : 4 * g + j \in DOMAIN base64_encode(input)
  BY <1>1, GroupInText DEF base64_encode
<1>4. \A j \in 1..4 : base64_encode(input)[4 * g + j] = base64_char(input, 4 * g + j)
  BY <1>1, GroupInText DEF base64_encode
<1>5. base64_char(input, 4 * g + 1) = b(1) \div 4
  BY CharPlace, CharCases
<1>6. base64_char(input, 4 * g + 2) = (b(1) % 4) * 16 + (b(2) \div 16)
  BY CharPlace, CharCases
<1>7. ASSUME 3 * g + 2 <= n
      PROVE  base64_char(input, 4 * g + 3) = (b(2) % 16) * 4 + (b(3) \div 64)
  <2>1. Precedes(i, 2, n)
    BY <1>1, <1>7 DEF Precedes
  <2> QED BY <2>1, CharPlace, CharCases
<1>8. ASSUME 3 * g + 3 <= n
      PROVE  base64_char(input, 4 * g + 4) = b(3) % 64
  <2>1. Precedes(i, 1, n)
    BY <1>1, <1>8 DEF Precedes
  <2> QED BY <2>1, CharPlace, CharCases
<1>9. /\ b(1) \div 4 # PAD /\ (b(1) % 4) * 16 + (b(2) \div 16) # PAD
      /\ (b(2) % 16) * 4 + (b(3) \div 64) # PAD /\ b(3) % 64 # PAD
  BY <1>2, SextetsNotPad
<1>10. Sextet(base64_encode(input), 4 * g + 1) = b(1) \div 4
  BY <1>3, <1>4, <1>5, <1>9 DEF Sextet
<1>11. Sextet(base64_encode(input), 4 * g + 2) = (b(1) % 4) * 16 + (b(2) \div 16)
  BY <1>3, <1>4, <1>6, <1>9 DEF Sextet
<1>12. 3 * g + 2 <= n =>
         Sextet(base64_encode(input), 4 * g + 3) = (b(2) % 16) * 4 + (b(3) \div 64)
  BY <1>3, <1>4, <1>7, <1>9 DEF Sextet
<1>13. 3 * g + 3 <= n => Sextet(base64_encode(input), 4 * g + 4) = b(3) % 64
  BY <1>3, <1>4, <1>8, <1>9 DEF Sextet
<1> QED BY <1>10, <1>11, <1>12, <1>13

-----------------------------------------------------------------------------

\* A set of natural numbers that is not empty has a least element.
LEMMA LeastElement ==
  ASSUME NEW T, T \subseteq Nat, T # {}
  PROVE  \E x \in T : \A y \in T : x <= y
<1>1. PICK x \in T : \A y \in T : ~ (<<y, x>> \in OpToRel(<, Nat))
  BY NatLessThanWellFounded, WFMin
<1>2. ASSUME NEW y \in T PROVE x <= y
  <2>1. x \in Nat /\ y \in Nat /\ ~ (y < x)
    BY <1>1 DEF OpToRel
  <2> QED BY <2>1
<1> QED BY <1>2

\* The four characters of group r.
CharsOf(input, r) ==
  <<base64_char(input, 4 * r + 1), base64_char(input, 4 * r + 2),
    base64_char(input, 4 * r + 3), base64_char(input, 4 * r + 4)>>

LEMMA CharsAppended ==
  ASSUME NEW input, NEW r \in Nat
  PROVE  [c \in 1..4 * r |-> base64_char(input, c)] \o CharsOf(input, r)
           = [c \in 1..4 * (r + 1) |-> base64_char(input, c)]
<1> DEFINE before == [c \in 1..4 * r |-> base64_char(input, c)]
           after  == [c \in 1..4 * (r + 1) |-> base64_char(input, c)]
           four   == CharsOf(input, r)
<1>1. Len(before) = 4 * r /\ DOMAIN before = 1..4 * r
  OBVIOUS
<1>2. Len(four) = 4 /\ DOMAIN four = 1..4
  BY DEF CharsOf
<1>3. /\ four[1] = base64_char(input, 4 * r + 1) /\ four[2] = base64_char(input, 4 * r + 2)
      /\ four[3] = base64_char(input, 4 * r + 3) /\ four[4] = base64_char(input, 4 * r + 4)
  BY DEF CharsOf
<1>4. \A c \in 1..4 * r : before[c] = base64_char(input, c)
  OBVIOUS
<1> DEFINE S == {base64_char(input, c) : c \in 1..4 * (r + 1)}
<1>a. before \in Seq(S)
  <2>1. \A c \in 1..4 * r : before[c] \in S BY <1>4
  <2> HIDE DEF S
  <2>2. before \in [1..4 * r -> S] BY <2>1
  <2>3. 4 * r \in Nat OBVIOUS
  <2> QED BY <2>2, <2>3
<1>b. four \in Seq(S)
  <2>1. /\ base64_char(input, 4 * r + 1) \in S /\ base64_char(input, 4 * r + 2) \in S
        /\ base64_char(input, 4 * r + 3) \in S /\ base64_char(input, 4 * r + 4) \in S
    OBVIOUS
  <2> HIDE DEF S
  <2> QED BY <2>1 DEF CharsOf
<1> HIDE DEF before, four, S
<1>5. before \o four = [c \in 1..(Len(before) + Len(four)) |->
                         IF c <= Len(before) THEN before[c] ELSE four[c - Len(before)]]
  <2>1. /\ before \o four \in Seq(S)
        /\ Len(before \o four) = Len(before) + Len(four)
        /\ \A c \in 1..(Len(before) + Len(four)) :
             (before \o four)[c] = IF c <= Len(before) THEN before[c] ELSE four[c - Len(before)]
    BY <1>a, <1>b, ConcatProperties
  <2> DEFINE whole == before \o four
  <2> HIDE DEF whole
  <2>2. whole = [c \in 1..Len(whole) |-> whole[c]]
    <3>1. before \o four \in Seq(S) BY <2>1
    <3>2. whole \in Seq(S) BY <3>1 DEF whole
    <3> QED BY ONLY <3>2
  <2> QED BY <2>1, <2>2 DEF whole
<1>6. ASSUME NEW c \in 1..4 * (r + 1)
      PROVE  (IF c <= 4 * r THEN before[c] ELSE four[c - 4 * r]) = base64_char(input, c)
  <2>1. CASE c <= 4 * r BY <2>1, <1>4
  <2>2. CASE c > 4 * r
    <3>1. c = 4 * r + 1 \/ c = 4 * r + 2 \/ c = 4 * r + 3 \/ c = 4 * r + 4
      BY <2>2
    <3> QED BY <2>2, <3>1, <1>3
  <2> QED BY <2>1, <2>2
<1>7. before \o four = after
  <2> HIDE DEF after
  <2>1. before \o four = [c \in 1..4 * (r + 1) |->
                            IF c <= 4 * r THEN before[c] ELSE four[c - 4 * r]]
    BY <1>1, <1>2, <1>5
  <2> QED BY <2>1, <1>6 DEF after
<1> QED BY <1>7 DEF before, four, after

\* The loop of base64_encode after r rounds: what it has read and written.
EncodedSoFar(s, r, input) ==
  /\ s.i = IF 3 * r <= Len(input) THEN 3 * r ELSE Len(input)
  /\ s.output = [c \in 1..4 * r |-> base64_char(input, c)]

\* A round reads the group that the closed form gives to its characters.
LEMMA RoundEncodes ==
  ASSUME NEW input \in Seq(Bytes), NEW r \in Nat, NEW s,
         EncodedSoFar(s, r, input), s.i < Len(input)
  PROVE  EncodedSoFar(EncodeRound(s, input), r + 1, input)
<1> DEFINE n == Len(input)
           i1 == s.i + 1
           i2 == IF i1 < n THEN i1 + 1 ELSE i1
           i3 == IF i2 < n THEN i2 + 1 ELSE i2
           byte1 == input[i1]
           byte2 == IF i1 < n THEN input[i1 + 1] ELSE 0
           byte3 == IF i2 < n THEN input[i2 + 1] ELSE 0
           four == <<byte1 \div 4, (byte1 % 4) * 16 + (byte2 \div 16),
                     IF Precedes(i3, 2, n) THEN (byte2 % 16) * 4 + (byte3 \div 64) ELSE PAD,
                     IF Precedes(i3, 1, n) THEN byte3 % 64 ELSE PAD>>
           b(k) == InputByte(input, 3 * r + k)
<1>1. n \in Nat /\ s.i = 3 * r /\ 3 * r < n
  BY DEF EncodedSoFar
<1>2. /\ i1 = 3 * r + 1
      /\ i3 = IF 3 * r + 3 <= n THEN 3 * r + 3 ELSE n
  BY <1>1
<1>3. byte1 = b(1) /\ byte2 = b(2) /\ byte3 = b(3)
  <2>1. byte1 = b(1) BY <1>1 DEF InputByte
  <2>2. byte2 = b(2) BY <1>1 DEF InputByte
  <2>3. byte3 = b(3) BY <1>1 DEF InputByte
  <2> QED BY <2>1, <2>2, <2>3
<1>4. four = CharsOf(input, r)
  <2> HIDE DEF i3, byte1, byte2, byte3, b
  <2> DEFINE third  == IF Precedes(i3, 2, n) THEN (byte2 % 16) * 4 + (byte3 \div 64) ELSE PAD
             fourth == IF Precedes(i3, 1, n) THEN byte3 % 64 ELSE PAD
  <2>1. byte1 \div 4 = base64_char(input, 4 * r + 1)
    BY <1>3, CharPlace, CharCases DEF b
  <2>2. (byte1 % 4) * 16 + (byte2 \div 16) = base64_char(input, 4 * r + 2)
    BY <1>3, CharPlace, CharCases DEF b
  <2>3. third = base64_char(input, 4 * r + 3)
    <3>1. CASE Precedes(i3, 2, n) BY <3>1, <1>2, <1>3, CharPlace, CharCases DEF b
    <3>2. CASE ~Precedes(i3, 2, n)
      <4>1. /\ 4 * r + 3 \in Nat /\ (4 * r + 3 - 1) \div 4 = r /\ (4 * r + 3) % 4 = 3
        BY CharPlace
      <4>2. base64_char(input, 4 * r + 3) = PAD
        BY <3>2, <4>1, <1>2, CharCases
      <4> QED BY <3>2, <4>2
    <3> QED BY <3>1, <3>2
  <2>4. fourth = base64_char(input, 4 * r + 4)
    <3>1. CASE Precedes(i3, 1, n) BY <3>1, <1>2, <1>3, CharPlace, CharCases DEF b
    <3>2. CASE ~Precedes(i3, 1, n) BY <3>2, <1>2, <1>3, CharPlace, CharCases DEF b
    <3> QED BY <3>1, <3>2
  <2> HIDE DEF third, fourth
  <2>5. <<byte1 \div 4, (byte1 % 4) * 16 + (byte2 \div 16), third, fourth>>
          = CharsOf(input, r)
    BY <2>1, <2>2, <2>3, <2>4 DEF CharsOf
  <2> QED BY <2>5 DEF third, fourth
<1>5. EncodeRound(s, input) = [i |-> i3, output |-> s.output \o four]
  BY DEF EncodeRound
<1>6. s.output \o four = [c \in 1..4 * (r + 1) |-> base64_char(input, c)]
  <2> HIDE DEF four
  <2>1. s.output = [c \in 1..4 * r |-> base64_char(input, c)]
    BY DEF EncodedSoFar
  <2> QED BY <2>1, <1>4, CharsAppended
<1>7. i3 = IF 3 * (r + 1) <= n THEN 3 * (r + 1) ELSE n
  BY <1>1, <1>2
<1> HIDE DEF i3, four, n
<1>8. /\ EncodeRound(s, input).i = i3 /\ EncodeRound(s, input).output = s.output \o four
  BY <1>5
<1>9. EncodeRound(s, input).i = IF 3 * (r + 1) <= Len(input) THEN 3 * (r + 1) ELSE Len(input)
  BY <1>7, <1>8 DEF n
<1> QED BY <1>6, <1>8, <1>9 DEF EncodedSoFar

\* After any number of rounds base64_encode has written, with the zero byte
\* that is to follow, no more than the BASE64_SIZE(len) bytes its caller has
\* allocated (vtfs_net_storage_write), though it checks no place in the loop;
\* and when it leaves the loop it has written what base64_encode says.
THEOREM EncodedFits ==
  ASSUME NEW input \in Seq(Bytes), NEW rounds \in Nat, NEW head,
         IsEncodeLoop(head, rounds, input)
  PROVE  \A r \in 0..rounds :
           /\ Len(head[r].output) + 1 <= BASE64_SIZE(Len(input))
           /\ head[r].i >= Len(input) => head[r].output = base64_encode(input)
<1> DEFINE n == Len(input)
           Wrong == {r \in 0..rounds : ~ EncodedSoFar(head[r], r, input)}
<1>1. n \in Nat
  OBVIOUS
<1>2. EncodedSoFar(head[0], 0, input)
  <2>1. <<>> = [c \in 1..4 * 0 |-> base64_char(input, c)] OBVIOUS
  <2> QED BY <1>1, <2>1 DEF IsEncodeLoop, EncodedSoFar
<1>3. Wrong = {}
  <2> SUFFICES ASSUME Wrong # {} PROVE FALSE
    OBVIOUS
  <2>1. PICK r \in Wrong : \A y \in Wrong : r <= y
    <3>1. Wrong \subseteq Nat OBVIOUS
    <3> HIDE DEF Wrong
    <3> QED BY <3>1, LeastElement
  <2>2. r - 1 \in 0..(rounds - 1) /\ r - 1 \in 0..rounds /\ r - 1 \notin Wrong
    BY <1>2, <2>1
  <2>3. EncodedSoFar(head[r - 1], r - 1, input)
    BY <2>2
  <2>4. head[r - 1].i < n /\ head[r] = EncodeRound(head[r - 1], input)
    BY <2>2 DEF IsEncodeLoop
  <2>5. EncodedSoFar(head[r], r, input)
    BY <2>2, <2>3, <2>4, RoundEncodes
  <2> QED BY <2>1, <2>5
<1>4. ASSUME NEW r \in 0..rounds
      PROVE  /\ Len(head[r].output) + 1 <= BASE64_SIZE(n)
             /\ head[r].i >= n => head[r].output = base64_encode(input)
  <2>1. EncodedSoFar(head[r], r, input)
    BY <1>3
  <2>2. 3 * r <= n + 2
    <3>1. CASE r = 0 BY <3>1, <1>1
    <3>2. CASE r # 0
      <4>1. r - 1 \in 0..(rounds - 1) /\ r - 1 \in 0..rounds
        BY <3>2
      <4>2. head[r - 1].i < n
        BY <4>1 DEF IsEncodeLoop
      <4>3. EncodedSoFar(head[r - 1], r - 1, input)
        BY <4>1, <1>3
      <4> QED BY <4>1, <4>2, <4>3, <1>1 DEF EncodedSoFar
    <3> QED BY <3>1, <3>2
  <2>3. Len(head[r].output) = 4 * r
    BY <2>1 DEF EncodedSoFar
  <2>4. 4 * r + 1 <= BASE64_SIZE(n)
    BY <2>2, <1>1 DEF BASE64_SIZE
  <2>5. ASSUME head[r].i >= n PROVE head[r].output = base64_encode(input)
    <3>1. 3 * r >= n
      BY <2>1, <2>5, <1>1 DEF EncodedSoFar
    <3>2. r = (n + 2) \div 3
      BY <2>2, <3>1, <1>1
    <3> QED BY <2>1, <3>2 DEF EncodedSoFar, base64_encode
  <2> QED BY <2>3, <2>4, <2>5
<1> QED BY <1>4

\* A decoder that takes the length from the request gets every byte back:
\* the padding tests of base64_encode go wrong after the last byte only.
THEOREM RoundTrip ==
  ASSUME NEW input \in Seq(Bytes)
  PROVE  base64_decode(base64_encode(input), Len(input)) = input
<1> DEFINE n == Len(input)
           chars == base64_encode(input)
<1>1. n \in Nat /\ input = [k \in 1..n |-> input[k]]
  OBVIOUS
<1>2. ASSUME NEW k \in 1..n
      PROVE  DecodedByte(chars, k) = input[k]
  <2> DEFINE g == (k - 1) \div 3
             s(c) == Sextet(chars, 4 * g + c)
             b(j) == InputByte(input, 3 * g + j)
  <2>1. g \in Nat /\ 3 * g + 1 <= n /\ k \in Nat \ {0}
    BY <1>1, Place
  <2>2. b(1) \in Bytes /\ b(2) \in Bytes /\ b(3) \in Bytes
    BY <2>1, InputIsByte
  <2>3. /\ s(1) = b(1) \div 4
        /\ s(2) = (b(1) % 4) * 16 + (b(2) \div 16)
        /\ 3 * g + 2 <= n => s(3) = (b(2) % 16) * 4 + (b(3) \div 64)
        /\ 3 * g + 3 <= n => s(4) = b(3) % 64
    BY <2>1, GroupChars
  <2>4. InputByte(input, k) = input[k]
    BY <1>1 DEF InputByte
  <2>5. CASE k = 3 * g + 1 /\ k % 3 = 1
    <3>1. DecodedByte(chars, k) = s(1) * 4 + (s(2) \div 16)
      BY <2>5 DEF DecodedByte
    <3> QED BY <3>1, <2>2, <2>3, <2>4, <2>5, ByteDivided
  <2>6. CASE k = 3 * g + 2 /\ k % 3 = 2
    <3>1. DecodedByte(chars, k) = (s(2) % 16) * 16 + (s(3) \div 4)
      BY <2>6 DEF DecodedByte
    <3> QED BY <3>1, <2>2, <2>3, <2>4, <2>6, ByteDivided
  <2>7. CASE k = 3 * g + 3 /\ k % 3 = 0
    <3>1. DecodedByte(chars, k) = (s(3) % 4) * 64 + s(4)
      BY <2>7 DEF DecodedByte
    <3> QED BY <3>1, <2>2, <2>3, <2>4, <2>7, ByteDivided
  <2> QED BY <2>1, <2>5, <2>6, <2>7, Place
<1> QED BY <1>1, <1>2 DEF base64_decode
=============================================================================
