--------------------------------- MODULE Http ---------------------------------
(***************************************************************************)
(* The HTTP client (source/http.c): one connection, one request and one    *)
(* answer per call.  A call fails at any of its steps: before anything is  *)
(* sent, while the answer is awaited, or over the answer's text.  What it  *)
(* returns does not tell whether the server has done what was asked.       *)
(*                                                                         *)
(* receive_all waits without a timeout, so a call is over only when the    *)
(* server answers, closes or breaks the connection.  A request whose call  *)
(* has been given up may still reach the server.                           *)
(***************************************************************************)
EXTENDS Errno, Sequences

CONSTANTS
  NONE,      \* no request
  INT_MAX,   \* greatest int
  SIZE_MAX,  \* greatest size_t
  SendError, \* how a call may fail before its request is sent
  RecvError  \* how it may fail while the answer is awaited

ASSUME WidthAssumption == INT_MAX \in Nat /\ SIZE_MAX \in Nat /\ 2 * INT_MAX < SIZE_MAX
ASSUME ErrorAssumption == SendError \subseteq {-1, -2, -ENOMEM, -3} /\ RecvError \subseteq {-ENOMEM, -4}

VARIABLES
  call,   \* the call under way: idle, sent, answered, or done with its result
  late    \* a request given up after it was sent, still on its way, or NONE

IdleCall == [st |-> "idle"]

\* The fields an answer may carry, as the handlers' zeroed buffer has them.
NoFields == [ino |-> 0, type |-> "DIR", written |-> 0, bytes |-> <<>>]

Done(result, fields) == call' = [st |-> "done", result |-> result, fields |-> fields]

-----------------------------------------------------------------------------

\* An int converted to size_t, and back (length -= sizeof(int64_t)).
SizeT(n) == IF n < 0 THEN n + SIZE_MAX + 1 ELSE n
LessEight(n) == IF n - 8 < -INT_MAX - 1 THEN n - 8 + 2 * (INT_MAX + 1) ELSE n - 8

ParseSigned(answer, size) ==   \* mutant: lengths are compared as signed
  IF answer.status # 200 THEN -5
  ELSE IF answer.length = -1 \/ answer.length > answer.received THEN -6
  ELSE IF answer.length - 8 > size THEN -ENOSPC
  ELSE answer.value
\* length is the header Content-Length or -1, received the bytes that came
\* after the headers, size the caller's buffer.
parse_http_response(answer, size) ==
  IF answer.status # 200 THEN -5
  ELSE IF answer.length = -1 \/ answer.length > answer.received THEN -6
  ELSE IF SizeT(answer.length) < 8 THEN -7
  ELSE IF SizeT(LessEight(answer.length)) > size THEN -ENOSPC
  ELSE answer.value

\* vtfs_http_call up to kernel_sendmsg: the socket, the connection, the
\* request's text, sending it.
vtfs_http_call(req, size) ==
  \/ \E error \in SendError : Done(error, NoFields)
  \/ call' = [st |-> "sent", req |-> req, size |-> size]

\* receive_all has read to the end of the connection.
Receive ==
  /\ call.st = "answered"
  /\ Done(parse_http_response(call.answer, call.size), call.answer.fields)
  /\ UNCHANGED late

\* No memory for the response, or kernel_recvmsg failed: the answer is lost,
\* or the request is, unless it arrives later.  One such request is enough.
GiveUp ==
  /\ \E error \in RecvError : Done(error, NoFields)
  /\ \/ call.st = "answered" /\ UNCHANGED late
     \/ call.st = "sent" /\ UNCHANGED late
     \/ call.st = "sent" /\ late = NONE /\ late' = call.req
=============================================================================
