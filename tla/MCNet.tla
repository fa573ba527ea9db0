--------------------------------- MODULE MCNet ---------------------------------
(***************************************************************************)
(* Instances of the net storage and its handlers for TLC.                  *)
(***************************************************************************)
EXTENDS NetVtfs, TLC

OneIno  == 1001..1001
TwoInos == 1001..1002

\* A whole group of three and one of one or two; bytes whose six-bit parts all differ.
MCBytes == <<97, 255, 130, 61, 200>>

Symmetry == Permutations(Name)

NoConnection  == {-2}
AllSendErrors == {-1, -2, -3, -ENOMEM}
AllRecvErrors == {-4, -ENOMEM}

NoData     == {NONE}
\* An options string, and one longer than a token may be.
SomeData   == {"REMOTE", "REMOTEREMOTE"}

Garble(status, length, received) ==
  [status |-> status, length |-> length, received |-> received, value |-> 0,
   fields |-> NoFields]
\* An answer of a negative length; one that is cut, an error page, one without
\* Content-Length, one too short, one too long for the buffer.
OneGarbled == {Garble(200, -9, 38)}
AllGarbled == OneGarbled \cup {Garble(200, 38, 20), Garble(500, 38, 38),
                               Garble(200, -1, 38), Garble(200, 4, 38),
                               Garble(200, 5000, 5000)}
=============================================================================
