------------------------------ MODULE Http_proofs ------------------------------
(***************************************************************************)
(* Theorems about parse_http_response: whatever lengths the other side     *)
(* names, what is copied lies within what came and fits the caller's       *)
(* buffer, through int and size_t and the wrapping of both.                *)
(***************************************************************************)
EXTENDS Http, TLAPS

Int32 == (-INT_MAX - 1)..INT_MAX
Parsed(answer) == /\ answer.status \in Int /\ answer.value \in Int
                  /\ answer.length \in Int32 /\ answer.received \in 0..INT_MAX

ErrorResult == {-5, -6, -7, -ENOSPC}

\* A negative length is caught by the last comparison only: as a size_t, less
\* eight or wrapped around, it is more than any buffer the callers have.
LEMMA NegativeTooLong ==
  ASSUME NEW length \in Int32, length < 0, NEW size \in Nat, size + 8 <= INT_MAX
  PROVE  SizeT(LessEight(length)) > size
<1>1. INT_MAX \in Nat /\ SIZE_MAX \in Nat /\ 2 * INT_MAX < SIZE_MAX
  BY WidthAssumption
<1>2. CASE length - 8 < -INT_MAX - 1
  <2>1. LessEight(length) = length - 8 + 2 * (INT_MAX + 1)
    BY <1>2 DEF LessEight
  <2>2. LessEight(length) >= INT_MAX - 7
    BY <1>1, <2>1 DEF Int32
  <2> QED BY <1>1, <2>1, <2>2 DEF SizeT, Int32
<1>3. CASE ~(length - 8 < -INT_MAX - 1)
  <2>1. LessEight(length) = length - 8
    BY <1>3 DEF LessEight
  <2>2. SizeT(length - 8) = length - 8 + SIZE_MAX + 1
    BY DEF SizeT, Int32
  <2> QED BY <1>1, <1>3, <2>1, <2>2 DEF Int32
<1> QED BY <1>2, <1>3

\* parse_http_response returns none of its errors only for a 200 whose length
\* covers the return value, lies within the bytes received, and leaves no more
\* than the caller's buffer takes: its two memcpy (http.c:133, 136) stay inside.
THEOREM ParseInBounds ==
  ASSUME NEW answer, Parsed(answer), NEW size \in Nat, size + 8 <= INT_MAX,
         parse_http_response(answer, size) \notin ErrorResult
  PROVE  /\ answer.status = 200
         /\ 8 <= answer.length /\ answer.length <= answer.received
         /\ answer.length - 8 <= size
         /\ parse_http_response(answer, size) = answer.value
<1> DEFINE length == answer.length
<1>1. /\ answer.status = 200
      /\ length <= answer.received
      /\ ~(SizeT(length) < 8)
      /\ ~(SizeT(LessEight(length)) > size)
      /\ parse_http_response(answer, size) = answer.value
  BY DEF parse_http_response, ErrorResult, Parsed, Int32
<1>2. length \in Int32
  BY DEF Parsed
<1>3. INT_MAX \in Nat /\ SIZE_MAX \in Nat /\ 2 * INT_MAX < SIZE_MAX
  BY WidthAssumption
<1>4. length >= 0
  BY <1>1, <1>2, <1>3, NegativeTooLong DEF Int32
<1>5. length >= 8
  BY <1>1, <1>2, <1>3, <1>4 DEF SizeT, Int32
<1>6. LessEight(length) = length - 8 /\ SizeT(length - 8) = length - 8
  BY <1>2, <1>3, <1>5 DEF LessEight, SizeT, Int32
<1> QED BY <1>1, <1>2, <1>3, <1>5, <1>6 DEF Int32
=============================================================================
