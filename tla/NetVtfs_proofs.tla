----------------------------- MODULE NetVtfs_proofs -----------------------------
(***************************************************************************)
(* Theorems about the handlers over the net storage, for every set of      *)
(* names and inode numbers, every chunk size, every error code and garbled *)
(* answer, and any number of changes by other clients: the dentry cache is *)
(* wrong of names in doubt only, a handler that returns 0 has had its way, *)
(* the bytes that a write has counted are in their places, and the file's  *)
(* position lies within it.                                                *)
(***************************************************************************)
EXTENDS NetVtfs, Http_proofs, Base64_proofs, SequenceTheorems

-----------------------------------------------------------------------------
(* Constants, answers and encoded chunks. *)

\* No name of the file system is the key of a handler that has none.
LEMMA KeyFacts ==
  /\ NO_KEY \notin Key
  /\ \A k \in Key : k = <<k[1], k[2]>>
  /\ NEG.i_ino \notin Ino /\ VTFS_ROOT_INO \notin Ino /\ Ino \subseteq Nat
<1>1. 0 \notin Ino \cup {VTFS_ROOT_INO} /\ VTFS_ROOT_INO \notin Ino /\ Ino \subseteq Nat
  BY InoAssumption, WidthAssumption DEF VTFS_ROOT_INO
<1>2. NO_KEY \notin Key
  BY <1>1, Zenon DEF NO_KEY, Key
<1>3. \A k \in Key : k = <<k[1], k[2]>>
  BY DEF Key
<1> QED BY <1>1, <1>2, <1>3 DEF NEG

\* Neither a failure of the client nor an error code of the server is 0, and
\* an answer that is garbled has a result other than 0.
LEMMA ErrorsAreErrors == \A error \in SendError \cup RecvError : error # 0
  BY ErrorAssumption DEF ENOMEM

LEMMA SizeFacts == \A size \in BufferSize : size \in Nat /\ size + 8 <= INT_MAX
<1>1. ReadLen \subseteq Nat
  BY ONLY NetVtfsAssumption DEF NetVtfsAssumption
<1>2. \A size \in BufferSize : size \in Nat
  BY <1>1 DEF BufferSize, RESPONSE_SIZE
<1> QED BY <1>2, BufferAssumption

LEMMA RefusedIsError ==
  ASSUME NEW code, code # 0, NEW size
  PROVE  parse_http_response(Whole(code, NoFields), size) # 0
  BY DEF parse_http_response, Whole, ENOSPC

LEMMA GarbledIsError ==
  ASSUME NEW answer \in Garbled, NEW size \in BufferSize
  PROVE  parse_http_response(answer, size) # 0
<1> SUFFICES ASSUME parse_http_response(answer, size) = 0 PROVE FALSE
  OBVIOUS
<1>1. Parsed(answer)
  BY GarbledAssumption DEF Parsed, Int32
<1>2. parse_http_response(answer, size) \notin ErrorResult
  BY DEF ErrorResult, ENOSPC
<1>3. size \in Nat /\ size + 8 <= INT_MAX
  BY SizeFacts
<1>4. /\ answer.status = 200 /\ 8 <= answer.length
      /\ answer.length <= answer.received /\ answer.length - 8 <= size
  BY <1>1, <1>2, <1>3, ParseInBounds
<1>5. answer.length \in 8..(size + 8)
  BY <1>1, <1>3, <1>4 DEF Parsed, Int32
<1> QED BY <1>4, <1>5, GarbledAssumption

\* The elements of a sequence from place m + 1 to place n.
LEMMA PartOf ==
  ASSUME NEW S, NEW s \in Seq(S), NEW m \in 0..Len(s), NEW n \in m..Len(s)
  PROVE  /\ SubSeq(s, m + 1, n) \in Seq(S) /\ Len(SubSeq(s, m + 1, n)) = n - m
         /\ \A i \in 1..(n - m) : SubSeq(s, m + 1, n)[i] = s[m + i]
<1>1. PICK l \in Int : l = m + 1
  OBVIOUS
<1>2. n \in Int /\ l = m + 1 /\ m \in Nat /\ m <= n
  BY <1>1
<1>3. \A i \in l..n : s[i] \in S
  BY <1>1
<1>4. /\ SubSeq(s, l, n) \in Seq(S)
      /\ Len(SubSeq(s, l, n)) = IF l <= n THEN n - l + 1 ELSE 0
      /\ \A i \in 1..(n - l + 1) : SubSeq(s, l, n)[i] = s[l + i - 1]
  BY ONLY <1>1, <1>2, <1>3, SubSeqProperties
<1>5. Len(SubSeq(s, l, n)) = n - m
  BY <1>2, <1>4
<1>6. ASSUME NEW i \in 1..(n - m) PROVE SubSeq(s, l, n)[i] = s[m + i]
  <2>1. i \in 1..(n - l + 1) /\ l + i - 1 = m + i
    BY <1>2
  <2> QED BY <1>4, <2>1
<1> QED BY <1>1, <1>4, <1>5, <1>6

\* What the loop of vtfs_net_storage_write sends next lies in the buffer.
LEMMA ChunkFacts ==
  ASSUME op.buf \in Seq(0..255), op.total \in 0..Len(op.buf)
  PROVE  /\ NextChunk \in Seq(Bytes)
         /\ Len(NextChunk) \in 0..(Len(op.buf) - op.total)
         /\ \A b \in 1..Len(NextChunk) : NextChunk[b] = op.buf[op.total + b]
<1>1. PICK buf : buf = op.buf /\ buf \in Seq(Bytes)
  BY DEF Bytes
<1>2. PICK total \in 0..Len(buf) : total = op.total
  BY <1>1
<1>3. PICK last : last = Min2(total + MAX_CHUNK_SIZE, Len(buf))
  OBVIOUS
<1>4. last \in total..Len(buf)
  BY <1>2, <1>3, ChunkAssumption DEF Min2
<1>5. NextChunk = SubSeq(buf, total + 1, last)
  BY <1>1, <1>2, <1>3 DEF NextChunk
<1>6. /\ NextChunk \in Seq(Bytes) /\ Len(NextChunk) = last - total
      /\ \A i \in 1..(last - total) : NextChunk[i] = buf[total + i]
  BY <1>1, <1>2, <1>4, <1>5, PartOf
<1>7. last - total \in 0..(Len(buf) - total)
  BY <1>2, <1>4
<1> QED BY <1>1, <1>2, <1>6, <1>7

\* The text of a chunk is made of sextets, and what is decoded of it of bytes.
LEMMA EncodedText ==
  ASSUME NEW c \in Seq(Bytes)
  PROVE  base64_encode(c) \in Seq(Nat)
<1>1. ASSUME NEW j \in 1..4 * ((Len(c) + 2) \div 3)
      PROVE  base64_char(c, j) \in Nat
  <2> DEFINE g == (j - 1) \div 4
  <2>1. g \in Nat /\ j \in Nat /\ 3 * g + 1 \in Nat \ {0} /\ 3 * g + 2 \in Nat \ {0}
        /\ 3 * g + 3 \in Nat \ {0} /\ j % 4 \in 0..3
    OBVIOUS
  <2>2. PICK x \in Bytes, y \in Bytes, z \in Bytes :
          /\ x = InputByte(c, 3 * g + 1) /\ y = InputByte(c, 3 * g + 2)
          /\ z = InputByte(c, 3 * g + 3)
    BY <2>1, InputIsByte
  <2>3. /\ x \div 4 \in Nat /\ z % 64 \in Nat
        /\ (x % 4) * 16 + y \div 16 \in Nat /\ (y % 16) * 4 + z \div 64 \in Nat
    BY DEF Bytes
  <2>4. base64_char(c, j) \in {x \div 4, PAD, z % 64,
          (x % 4) * 16 + y \div 16, (y % 16) * 4 + z \div 64}
    BY <2>1, <2>2 DEF base64_char
  <2> QED BY <2>3, <2>4 DEF PAD
<1>2. 4 * ((Len(c) + 2) \div 3) \in Nat
  OBVIOUS
<1> QED BY <1>1, <1>2 DEF base64_encode

LEMMA DecodedText ==
  ASSUME NEW chars \in Seq(Nat), NEW n \in Nat
  PROVE  base64_decode(chars, n) \in Seq(Nat) /\ Len(base64_decode(chars, n)) = n
<1>1. \A c : Sextet(chars, c) \in Nat
  BY DEF Sextet
<1>2. ASSUME NEW k \in 1..n
      PROVE  DecodedByte(chars, k) \in Nat
  <2> DEFINE g == (k - 1) \div 3
             s(c) == Sextet(chars, 4 * g + c)
  <2>1. PICK w \in Nat, x \in Nat, y \in Nat, z \in Nat :
          w = s(1) /\ x = s(2) /\ y = s(3) /\ z = s(4)
    BY <1>1
  <2>2. /\ w * 4 + x \div 16 \in Nat /\ (x % 16) * 16 + y \div 4 \in Nat
        /\ (y % 4) * 64 + z \in Nat
    OBVIOUS
  <2>3. DecodedByte(chars, k) \in {w * 4 + x \div 16,
          (x % 16) * 16 + y \div 4, (y % 4) * 64 + z}
    <3>1. k % 3 \in 0..2
      OBVIOUS
    <3> QED BY <2>1, <3>1 DEF DecodedByte
  <2> QED BY <2>2, <2>3
<1> QED BY <1>2 DEF base64_decode

\* A short write has stored the first bytes of the chunk.
LEMMA DecodedPrefix ==
  ASSUME NEW c \in Seq(Bytes), NEW n \in 0..Len(c)
  PROVE  \A k \in 1..n : base64_decode(base64_encode(c), n)[k] = c[k]
<1> SUFFICES ASSUME NEW k \in 1..n
             PROVE  base64_decode(base64_encode(c), n)[k] = c[k]
  OBVIOUS
<1>1. base64_decode(base64_encode(c), n)[k] = DecodedByte(base64_encode(c), k)
  BY DEF base64_decode
<1>2. k \in 1..Len(c)
  OBVIOUS
<1>3. base64_decode(base64_encode(c), Len(c))[k] = DecodedByte(base64_encode(c), k)
  BY <1>2 DEF base64_decode
<1> QED BY <1>1, <1>3, RoundTrip

-----------------------------------------------------------------------------
(* What the server does keeps its tree sound. *)

LEMMA MountKeeps ==
  ASSUME ServerSound, Server!Mount
  PROVE  ServerSound'
BY DEF ServerSound, Server!Mount, Server!Unmounted, Server!With, Server!Empty

LEMMA AddKeeps ==
  ASSUME ServerSound, NEW d, NEW name, NEW type, Server!Add(d, name, type),
         LOFF_MAX \in Nat
  PROVE  ServerSound'
<1>1. PICK i \in Ino :
        /\ entry' = Server!With(entry, <<d, name>>, i)
        /\ kind' = Server!With(kind, i, type)
        /\ content' = IF type = "FILE" THEN Server!With(content, i, <<>>) ELSE content
  BY Zenon DEF Server!Add
<1>2. \A k \in DOMAIN entry' : entry'[k] \in Ino
  BY <1>1 DEF ServerSound, Server!With
<1>3. \A j \in DOMAIN kind' : kind'[j] = "FILE" => j \in Ino /\ j \in DOMAIN content'
  <2>1. CASE type = "FILE"
    BY <1>1, <2>1 DEF ServerSound, Server!With
  <2>2. CASE type # "FILE"
    BY <1>1, <2>2 DEF ServerSound, Server!With
  <2> QED BY <2>1, <2>2
<1>4. \A j \in DOMAIN content' : content'[j] \in Seq(Nat) /\ Len(content'[j]) <= LOFF_MAX
  <2>1. <<>> \in Seq(Nat) /\ Len(<<>>) <= LOFF_MAX
    OBVIOUS
  <2>2. CASE type = "FILE"
    BY <1>1, <2>1, <2>2 DEF ServerSound, Server!With
  <2>3. CASE type # "FILE"
    BY <1>1, <2>3 DEF ServerSound
  <2> QED BY <2>2, <2>3
<1> QED BY <1>2, <1>3, <1>4 DEF ServerSound

LEMMA LinkKeeps ==
  ASSUME ServerSound, NEW i, NEW d, NEW name, Server!Link(i, d, name)
  PROVE  ServerSound'
BY DEF ServerSound, Server!Link, Server!With, Server!IsFile

LEMMA RemoveKeeps ==
  ASSUME ServerSound, NEW d, NEW name, Server!Remove(d, name)
  PROVE  ServerSound'
<1>1. PICK gone :
        /\ entry' = Server!Without(entry, {<<d, name>>})
        /\ kind' = Server!Without(kind, gone)
        /\ content' = Server!Without(content, gone)
  BY Zenon DEF Server!Remove
<1> QED BY <1>1 DEF ServerSound, Server!Without

LEMMA WriteKeeps ==
  ASSUME ServerSound, NEW i, NEW off \in Nat, NEW buf \in Seq(Nat),
         off + Len(buf) <= LOFF_MAX, LOFF_MAX \in Nat, Server!Write(i, off, buf)
  PROVE  ServerSound'
<1> DEFINE old == content[i]
           end == off + Len(buf)
           m == IF end > Len(old) THEN end ELSE Len(old)
           new == [k \in 1..m |->
                     CASE k > off /\ k <= end -> buf[k - off]
                       [] k <= Len(old) /\ ~(k > off /\ k <= end) -> old[k]
                       [] OTHER -> 0]
<1>1. i \in DOMAIN content /\ old \in Seq(Nat) /\ Len(old) <= LOFF_MAX
  BY DEF ServerSound, Server!Write, Server!IsFile
<1>2. content' = [content EXCEPT ![i] = new] /\ entry' = entry /\ kind' = kind
  BY DEF Server!Write
<1>3. m \in Nat /\ m <= LOFF_MAX /\ Len(old) \in Nat /\ Len(buf) \in Nat
  BY <1>1
<1>4. ASSUME NEW k \in 1..m PROVE new[k] \in Nat
  <2>1. CASE k > off /\ k <= end
    <3>1. k - off \in 1..Len(buf)
      BY <1>3, <2>1
    <3> QED BY <2>1, <3>1
  <2>2. CASE k <= Len(old) /\ ~(k > off /\ k <= end)
    <3>1. k \in 1..Len(old)
      BY <1>3, <2>2
    <3> QED BY <1>1, <2>2, <3>1
  <2>3. CASE ~(k > off /\ k <= end) /\ ~(k <= Len(old) /\ ~(k > off /\ k <= end))
    BY <2>3
  <2> QED BY <2>1, <2>2, <2>3
<1>5. DOMAIN new = 1..m
  OBVIOUS
<1>6. new \in Seq(Nat) /\ Len(new) = m
  <2> HIDE DEF m
  <2>1. new \in [1..m -> Nat]
    BY <1>4
  <2> HIDE DEF new
  <2> QED BY <1>3, <1>5, <2>1
<1> HIDE DEF new, m
<1> QED BY <1>1, <1>2, <1>3, <1>6 DEF ServerSound

\* A request that is performed, in time or late.
LEMMA PerformKeeps ==
  ASSUME ServerSound, LOFF_MAX \in Nat, NEW req, NEW n \in Amounts(req), Performs(req, n),
         req.method = "write" => /\ req.offset \in Nat /\ req.len \in Nat
                                 /\ req.offset + req.len <= LOFF_MAX
                                 /\ req.data \in Seq(Nat)
  PROVE  ServerSound'
<1>1. UNCHANGED tree => ServerSound'
  BY DEF tree, ServerSound
<1>2. CASE req.method = "init"
  BY <1>2, MountKeeps DEF Performs
<1>3. CASE req.method = "create_file"
  BY <1>3, AddKeeps DEF Performs
<1>4. CASE req.method = "mkdir"
  BY <1>4, AddKeeps DEF Performs
<1>5. CASE req.method = "link"
  BY <1>5, LinkKeeps DEF Performs
<1>6. CASE req.method \in {"unlink", "rmdir"}
  BY <1>6, RemoveKeeps DEF Performs
<1>7. CASE req.method = "write" /\ n # 0
  <2>1. n \in Nat /\ n <= req.len
    BY <1>7 DEF Amounts
  <2>2. base64_decode(req.data, n) \in Seq(Nat) /\ Len(base64_decode(req.data, n)) = n
    BY <1>7, <2>1, DecodedText
  <2>3. Server!Write(req.ino, req.offset, base64_decode(req.data, n))
    BY <1>7 DEF Performs
  <2>4. req.offset + n <= LOFF_MAX
    BY <1>7, <2>1
  <2>5. PICK buf \in Seq(Nat) : buf = base64_decode(req.data, n) /\ Len(buf) = n
    BY <2>2
  <2> QED BY <1>7, <2>3, <2>4, <2>5, WriteKeeps
<1>8. CASE \/ req.method = "write" /\ n = 0
           \/ req.method \notin {"init", "create_file", "mkdir", "link", "unlink",
                                 "rmdir", "write"}
  BY <1>1, <1>8 DEF Performs
<1> QED BY <1>2, <1>3, <1>4, <1>5, <1>6, <1>7, <1>8

-----------------------------------------------------------------------------
(* What a step leaves alone. *)

\* What NameHolds says of a name, taken apart.
LEMMA HoldsFacts ==
  /\ \A k : HasEntry(k) => NameHolds(k) = <<entry[k], EntryType(k)>>
  /\ \A k : ~HasEntry(k) => NameHolds(k) = <<>>
  /\ \A k, a, b : NameHolds(k) = <<a, b>> =>
       HasEntry(k) /\ entry[k] = a /\ EntryType(k) = b
  /\ \A k : NameHolds(k) = <<>> => ~HasEntry(k)
<1>1. \A a, b : <<a, b>> # <<>>
  OBVIOUS
<1>2. \A a, b, c, d : <<a, b>> = <<c, d>> => a = c /\ b = d
  OBVIOUS
<1> QED BY <1>1, <1>2, Zenon DEF NameHolds

LEMMA TreeUnchanged ==
  ASSUME UNCHANGED tree
  PROVE  /\ \A k : NameHolds(k)' = NameHolds(k)
         /\ ServerSound => ServerSound'
         /\ Server!Mounted' <=> Server!Mounted
<1>1. UNCHANGED <<entry, kind, content, used>>
  BY DEF tree
<1>2. \A k : NameHolds(k)' = NameHolds(k)
  BY <1>1 DEF NameHolds, HasEntry, EntryType
<1>3. ServerSound => ServerSound'
  BY <1>1 DEF ServerSound
<1>4. Server!Mounted' <=> Server!Mounted
  BY <1>1 DEF Server!Mounted
<1> QED BY <1>2, <1>3, <1>4

LEMMA StoredKept ==
  ASSUME UNCHANGED tree, op'.ino = op.ino, op'.buf = op.buf, op'.start = op.start
  PROVE  \A n : Stored(n)' <=> Stored(n)
BY DEF Stored, tree, Server!IsFile

\* A handler that is at work, or refused: what the kernel holds is as it was.
LEMMA AtWork ==
  ASSUME NetInv, UNCHANGED <<dcache, file, doubt, late>>, UNCHANGED tree,
         HandlerSound', CallSound', NameLearned', BytesWritten',
         op'.st = "busy" \/ op'.ret # 0
  PROVE  NetInv'
<1>1. ServerSound' /\ \A k : NameHolds(k)' = NameHolds(k)
  BY TreeUnchanged DEF NetInv
<1>2. LateSound' /\ CacheSound'
  BY DEF NetInv, LateSound, CacheSound, OpenFile
<1>3. CoherentOutsideDoubt'
  BY <1>1 DEF NetInv, CoherentOutsideDoubt
<1>4. SuccessIsDone'
  BY DEF SuccessIsDone
<1> QED BY <1>1, <1>2, <1>3, <1>4 DEF NetInv

\* No handler is at work: nothing is said of it and its call.
LEMMA AtRest ==
  ASSUME NetInv, op' = Idle, call' = IdleCall, UNCHANGED late, UNCHANGED tree,
         CacheSound', CoherentOutsideDoubt'
  PROVE  NetInv'
<1>1. HandlerSound' /\ CallSound' /\ NameLearned' /\ BytesWritten' /\ SuccessIsDone'
  BY DEF Idle, IdleCall, HandlerSound, CallSound, NameLearned, BytesWritten, SuccessIsDone
<1>2. ServerSound' /\ LateSound'
  BY TreeUnchanged DEF NetInv, LateSound
<1> QED BY <1>1, <1>2 DEF NetInv

LEMMA IdleHasNoCall == NetInv /\ op = Idle => call = IdleCall
BY DEF NetInv, HandlerSound, Idle

\* A request that fails before it is sent, or the one that is sent.
LEMMA AskSound ==
  ASSUME NEW req, NEW size \in BufferSize, vtfs_http_call(req, size), Asked(req)'
  PROVE  CallSound' /\ call'.st \in {"sent", "done"}
<1>1. CASE \E error \in SendError : Done(error, NoFields)
  <2>1. call'.st = "done" /\ call'.result # 0
    BY <1>1, ErrorsAreErrors DEF Done
  <2> QED BY <2>1 DEF CallSound
<1>2. CASE call' = [st |-> "sent", req |-> req, size |-> size]
  <2>1. call'.st = "sent" /\ call'.req = req /\ call'.size = size
    BY <1>2
  <2> QED BY <2>1 DEF CallSound, Asked
<1> QED BY <1>1, <1>2 DEF vtfs_http_call

LEMMA FailedSound ==
  ASSUME NEW result, result # 0, NEW fields, Done(result, fields)
  PROVE  CallSound' /\ call'.st = "done"
BY DEF Done, CallSound

-----------------------------------------------------------------------------
(* A handler returns. *)

SameButTotal(p) ==
  /\ IsHandler(p) /\ p.st = op.st /\ p.h = op.h /\ p.at = op.at /\ p.k = op.k
  /\ p.ino = op.ino /\ p.inode = op.inode /\ p.buf = op.buf /\ p.start = op.start

\* The dentry that a returning handler leaves of its name is right where the
\* handler can be sure of it; the others it leaves as they are.
LEMMA Returned ==
  ASSUME NetInv, op.st = "busy", NEW p, SameButTotal(p), NEW ret, ReturnFrom(p, ret),
         UNCHANGED late, UNCHANGED tree, CacheSound', BytesWritten',
         p.h \in FileHandlers => OpenFile' /\ p.total \in Nat,
         ret = 0 /\ ~disturbed => Achieved',
         \A k \in DOMAIN dcache' :
           \/ /\ k \in DOMAIN dcache /\ dcache'[k] = dcache[k]
              /\ k = op.k => ret # 0 \/ disturbed
           \/ k = op.k /\ (Sure => NameHolds(k) = DentrySays(dcache'[k]))
  PROVE  NetInv'
<1>1. /\ IsHandler(op') /\ op'.h = op.h /\ op'.at = op.at /\ op'.k = op.k
      /\ op'.inode = op.inode /\ op'.start = op.start /\ op'.total = p.total
      /\ op'.st = "returned" /\ op'.ret = ret
  BY DEF ReturnFrom, SameButTotal, IsHandler
<1>2. /\ call' = IdleCall /\ call'.st = "idle" /\ disturbed' = disturbed
      /\ doubt' = IF ret = 0 /\ ~disturbed THEN doubt \ {op.k} ELSE doubt
  BY DEF ReturnFrom, IdleCall
<1>3. ServerSound' /\ LateSound' /\ \A k : NameHolds(k)' = NameHolds(k)
  BY TreeUnchanged DEF NetInv, LateSound
<1>4. HandlerSound'
  <2>1. /\ <<op.h, op.at>> \in Calls
        /\ IF op.h \in FileHandlers \cup {"mount", "iterate"} THEN op.k = NO_KEY
           ELSE op.k \in Key
        /\ op.h \in FileHandlers => op.start \in 0..LOFF_MAX
        /\ op.h = "link" /\ op.at # "count_found" =>
             op.inode.i_ino \in Ino /\ op.inode.type = "FILE"
    BY DEF NetInv, HandlerSound
  <2> QED BY <1>1, <1>2, <2>1 DEF HandlerSound, SameButTotal
<1>5. CallSound' /\ NameLearned'
  BY <1>1, <1>2 DEF CallSound, NameLearned
<1>6. CoherentOutsideDoubt'
  <2>1. ASSUME NEW k \in DOMAIN dcache', k \notin doubt'
        PROVE  NameHolds(k) = DentrySays(dcache'[k])
    <3>1. CASE k \in DOMAIN dcache /\ dcache'[k] = dcache[k] /\ k \notin doubt
      BY <3>1 DEF NetInv, CoherentOutsideDoubt
    <3>2. CASE k \in doubt
      <4>1. k = op.k /\ ret = 0 /\ ~disturbed
        BY <1>2, <2>1, <3>2
      <4> QED BY <4>1 DEF Sure
    <3>3. CASE k = op.k /\ k \notin doubt /\ (Sure => NameHolds(k) = DentrySays(dcache'[k]))
      BY <3>3 DEF Sure
    <3> QED BY <3>1, <3>2, <3>3
  <2>2. \A inode : DentrySays(inode)' = DentrySays(inode)
    BY DEF DentrySays
  <2>3. \A k \in DOMAIN dcache' \ doubt' : NameHolds(k)' = DentrySays(dcache'[k])
    BY <1>3, <2>1
  <2> QED BY <2>3 DEF CoherentOutsideDoubt, DentrySays
<1>7. SuccessIsDone'
  BY <1>1, <1>2 DEF SuccessIsDone
<1> QED BY <1>3, <1>4, <1>5, <1>6, <1>7 DEF NetInv

-----------------------------------------------------------------------------
(* Between two handlers. *)

LEMMA DcacheUnchanged ==
  ASSUME NetInv, UNCHANGED tree, DOMAIN dcache' \subseteq DOMAIN dcache,
         \A k \in DOMAIN dcache' : dcache'[k] = dcache[k],
         \A k \in DOMAIN dcache' : k \in doubt => k \in doubt'
  PROVE  CoherentOutsideDoubt'
<1>1. \A k : NameHolds(k)' = NameHolds(k)
  BY TreeUnchanged
<1>2. \A k \in DOMAIN dcache' \ doubt' : NameHolds(k)' = DentrySays(dcache'[k])
  BY <1>1 DEF NetInv, CoherentOutsideDoubt
<1> QED BY <1>2 DEF CoherentOutsideDoubt, DentrySays

LEMMA LeaveKeeps == NetInv /\ Leave => NetInv'
<1> SUFFICES ASSUME NetInv, Leave PROVE NetInv'
  OBVIOUS
<1>1. call' = IdleCall /\ op' = Idle /\ UNCHANGED late /\ UNCHANGED tree
  BY DEF Leave, NetInv, HandlerSound
<1>2. CacheSound'
  BY DEF Leave, NetInv, CacheSound, OpenFile
<1>3. CoherentOutsideDoubt'
  BY DcacheUnchanged DEF Leave
<1> QED BY <1>1, <1>2, <1>3, AtRest

LEMMA KillKeeps == NetInv /\ vtfs_kill_sb => NetInv'
<1> SUFFICES ASSUME NetInv, vtfs_kill_sb PROVE NetInv'
  OBVIOUS
<1>1. call' = IdleCall /\ op' = Idle /\ UNCHANGED late /\ UNCHANGED tree
  BY IdleHasNoCall DEF vtfs_kill_sb
<1>2. CacheSound' /\ CoherentOutsideDoubt'
  BY DEF vtfs_kill_sb, CacheSound, CoherentOutsideDoubt, Empty
<1> QED BY <1>1, <1>2, AtRest

LEMMA ShrinkKeeps == ASSUME NEW k, NetInv, shrink(k) PROVE NetInv'
<1>1. call' = IdleCall /\ op' = Idle /\ UNCHANGED late /\ UNCHANGED tree
  BY IdleHasNoCall DEF shrink
<1>2. CacheSound'
  BY DEF shrink, NetInv, CacheSound, OpenFile, Kept
<1>3. CoherentOutsideDoubt'
  BY DcacheUnchanged DEF shrink, Kept
<1> QED BY <1>1, <1>2, <1>3, AtRest

LEMMA OpenKeeps == ASSUME NEW k, NetInv, vtfs_open(k) PROVE NetInv'
<1>1. call' = IdleCall /\ op' = Idle /\ UNCHANGED late /\ UNCHANGED tree
  BY IdleHasNoCall DEF vtfs_open
<1>2. 0 \in 0..LOFF_MAX
  BY NetVtfsAssumption
<1>3. CacheSound'
  BY <1>2 DEF vtfs_open, NetInv, CacheSound, OpenFile
<1>4. CoherentOutsideDoubt'
  BY DcacheUnchanged DEF vtfs_open
<1> QED BY <1>1, <1>3, <1>4, AtRest

LEMMA CloseKeeps == NetInv /\ close => NetInv'
<1> SUFFICES ASSUME NetInv, close PROVE NetInv'
  OBVIOUS
<1>1. call' = IdleCall /\ op' = Idle /\ UNCHANGED late /\ UNCHANGED tree
  BY IdleHasNoCall DEF close
<1>2. CacheSound'
  BY DEF close, NetInv, CacheSound
<1>3. CoherentOutsideDoubt'
  BY DcacheUnchanged DEF close
<1> QED BY <1>1, <1>2, <1>3, AtRest

-----------------------------------------------------------------------------
(* A handler begins. *)

LEMMA Begun ==
  ASSUME NetInv, NEW p, IsHandler(p), op' = p, disturbed' = FALSE,
         p.st = "busy" \/ (p.st = "returned" /\ p.ret # 0 /\ call' = IdleCall),
         UNCHANGED <<late, dcache, file, doubt>>, UNCHANGED tree,
         CallSound', call'.st \in {"idle", "sent", "done"},
         <<p.h, p.at>> \in Calls, p.at \notin CountCalls,
         IF p.h \in FileHandlers \cup {"mount", "iterate"} THEN p.k = NO_KEY
         ELSE p.k \in Key,
         p.h \in FileHandlers => OpenFile /\ p.start \in 0..LOFF_MAX /\ p.total \in Nat,
         p.h = "link" => p.inode.i_ino \in Ino /\ p.inode.type = "FILE",
         p.h = "write" => BytesWritten'
  PROVE  NetInv'
<1>1. HandlerSound'
  BY DEF HandlerSound, OpenFile
<1>2. NameLearned' /\ BytesWritten'
  BY DEF NameLearned, BytesWritten, CountCalls
<1> QED BY <1>1, <1>2, AtWork

LEMMA LookupKeeps == ASSUME NEW k \in Key, NetInv, vtfs_lookup(k) PROVE NetInv'
<1>1. PICK p : p = [Handler("lookup", k) EXCEPT !.at = "lookup"]
  OBVIOUS
<1>2. /\ IsHandler(p) /\ p.st = "busy" /\ p.h = "lookup" /\ p.at = "lookup" /\ p.k = k
      /\ op' = p
  BY <1>1 DEF IsHandler, Handler, vtfs_lookup, Begin
<1>3. PICK req : req = [method |-> "lookup", parent |-> k[1], name |-> k[2]]
  OBVIOUS
<1>4. vtfs_http_call(req, RESPONSE_SIZE)
  BY <1>3 DEF vtfs_lookup, lookup, AskOf
<1>5. Asked(req)'
  BY <1>2, <1>3 DEF Asked, CountCalls, NameCalls
<1>6. CallSound' /\ call'.st \in {"sent", "done"}
  BY <1>4, <1>5, AskSound DEF BufferSize
<1> QED BY <1>2, <1>6, Begun DEF vtfs_lookup, Begin, Calls, CountCalls, FileHandlers

\* The request of a handler that changes names is the one it is to make.
LEMMA NameAsked ==
  ASSUME NEW h \in {"create", "mkdir", "link", "unlink", "rmdir"}, NEW k, NEW target_ino,
         Request(h, k, target_ino), op'.at = Method(h), op'.k = k,
         h = "link" => op'.inode.i_ino = target_ino
  PROVE  CallSound' /\ call'.st \in {"sent", "done"}
<1>1. RESPONSE_SIZE \in BufferSize
  BY DEF BufferSize
<1>2. CASE h = "link"
  <2>1. PICK req : req = [method |-> "link", target_ino |-> target_ino,
                          parent |-> k[1], name |-> k[2]]
    OBVIOUS
  <2>2. vtfs_http_call(req, RESPONSE_SIZE)
    BY <1>2, <2>1 DEF Request, link
  <2>3. Asked(req)'
    BY <1>2, <2>1 DEF Asked, Method, CountCalls, NameCalls
  <2> QED BY <1>1, <2>2, <2>3, AskSound
<1>3. CASE h # "link"
  <2>1. PICK req : req = [method |-> Method(h), parent |-> k[1], name |-> k[2]]
    OBVIOUS
  <2>2. vtfs_http_call(req, RESPONSE_SIZE)
    BY <1>3, <2>1 DEF Request, Method, create_file, create_dir, unlink, rmdir, AskOf
  <2>3. Asked(req)'
    BY <1>3, <2>1 DEF Asked, Method, CountCalls, NameCalls
  <2> QED BY <1>1, <2>2, <2>3, AskSound
<1> QED BY <1>2, <1>3

LEMMA BeginNewKeeps ==
  ASSUME NEW h \in {"create", "mkdir", "link"}, NEW k \in Key, NEW old, NetInv,
         BeginNew(h, k, old),
         h = "link" => Positive(old) /\ dcache[old].type = "FILE"
  PROVE  NetInv'
<1>1. PICK inode : inode = IF h = "link" THEN dcache[old] ELSE NEG
  OBVIOUS
<1>2. h = "link" => inode.i_ino \in Ino /\ inode.type = "FILE"
  BY <1>1 DEF NetInv, CacheSound, Positive
<1>3. PICK handler : handler = [Handler(h, k) EXCEPT !.inode = inode]
  OBVIOUS
<1>4. \/ Begin(handler, "lookup") /\ lookup(k[1], k[2])
      \/ Begin(handler, Method(h)) /\ Request(h, k, inode.i_ino)
  BY <1>1, <1>3 DEF BeginNew
<1>5. PICK at \in {"lookup", Method(h)} :
        /\ Begin(handler, at)
        /\ \/ at = "lookup" /\ lookup(k[1], k[2])
           \/ at = Method(h) /\ Request(h, k, inode.i_ino)
  BY <1>4
<1>6. PICK p : p = [handler EXCEPT !.at = at]
  OBVIOUS
<1>7. /\ IsHandler(p) /\ p.st = "busy" /\ p.h = h /\ p.at = at /\ p.k = k
      /\ p.inode = inode /\ op' = p
  BY <1>3, <1>5, <1>6 DEF IsHandler, Handler, Begin
<1>8. CallSound' /\ call'.st \in {"sent", "done"}
  <2>1. CASE at = "lookup" /\ lookup(k[1], k[2])
    <3>1. PICK req : req = [method |-> "lookup", parent |-> k[1], name |-> k[2]]
      OBVIOUS
    <3>2. vtfs_http_call(req, RESPONSE_SIZE)
      BY <2>1, <3>1 DEF lookup, AskOf
    <3>3. Asked(req)'
      BY <1>7, <2>1, <3>1 DEF Asked, CountCalls, NameCalls
    <3> QED BY <3>2, <3>3, AskSound DEF BufferSize
  <2>2. CASE at = Method(h) /\ Request(h, k, inode.i_ino)
    BY <1>7, <2>2, NameAsked
  <2> QED BY <1>5, <2>1, <2>2
<1>9. <<p.h, p.at>> \in Calls /\ p.at \notin CountCalls
  BY <1>5, <1>7 DEF Calls, CountCalls, Method
<1>10. /\ p.h \notin FileHandlers \cup {"mount", "iterate"} /\ p.k \in Key
       /\ p.h = "link" => p.inode.i_ino \in Ino /\ p.inode.type = "FILE"
  BY <1>2, <1>7 DEF FileHandlers
<1>11. disturbed' = FALSE /\ UNCHANGED <<late, dcache, file, doubt>> /\ UNCHANGED tree
  BY <1>5 DEF Begin
<1>12. p.h # "write" /\ call'.st \in {"idle", "sent", "done"}
  BY <1>7, <1>8
<1> QED BY <1>7, <1>8, <1>9, <1>10, <1>11, <1>12, Begun

LEMMA NewKeeps ==
  ASSUME NEW k \in Key, NEW old, NetInv,
         vtfs_create(k) \/ vtfs_mkdir(k) \/ vtfs_link(old, k)
  PROVE  NetInv'
<1>1. CASE vtfs_create(k)
  BY <1>1, BeginNewKeeps DEF vtfs_create
<1>2. CASE vtfs_mkdir(k)
  BY <1>2, BeginNewKeeps DEF vtfs_mkdir
<1>3. CASE vtfs_link(old, k)
  BY <1>3, BeginNewKeeps DEF vtfs_link
<1> QED BY <1>1, <1>2, <1>3

LEMMA BeginRemoveKeeps ==
  ASSUME NEW k \in Key, NetInv, vtfs_unlink(k) \/ vtfs_rmdir(k)
  PROVE  NetInv'
<1>1. PICK h \in {"unlink", "rmdir"} : Begin(Handler(h, k), h) /\ Request(h, k, 0)
  BY DEF vtfs_unlink, vtfs_rmdir
<1>2. PICK p : p = [Handler(h, k) EXCEPT !.at = h]
  OBVIOUS
<1>3. /\ IsHandler(p) /\ p.st = "busy" /\ p.h = h /\ p.at = h /\ p.k = k /\ op' = p
  BY <1>1, <1>2 DEF IsHandler, Handler, Begin
<1>4. op'.at = Method(h) /\ op'.k = k /\ h # "link"
  BY <1>3 DEF Method
<1>5. CallSound' /\ call'.st \in {"idle", "sent", "done"}
  <2>1. CallSound' /\ call'.st \in {"sent", "done"}
    BY <1>1, <1>4, NameAsked
  <2> QED BY <2>1
<1>6. /\ <<p.h, p.at>> \in Calls /\ p.at \notin CountCalls /\ p.h # "link" /\ p.h # "write"
      /\ p.h \notin FileHandlers \cup {"mount", "iterate"} /\ p.k \in Key
  BY <1>3 DEF Calls, CountCalls, FileHandlers
<1>7. disturbed' = FALSE /\ UNCHANGED <<late, dcache, file, doubt>> /\ UNCHANGED tree
  BY <1>1 DEF Begin
<1> QED BY <1>3, <1>5, <1>6, <1>7, Begun

LEMMA IterateKeeps == ASSUME NEW d, NEW offset, NetInv, vtfs_iterate(d, offset) PROVE NetInv'
<1>1. PICK p : p = [Handler("iterate", NO_KEY) EXCEPT !.at = "iterate_dir"]
  OBVIOUS
<1>2. /\ IsHandler(p) /\ p.st = "busy" /\ p.h = "iterate" /\ p.at = "iterate_dir"
      /\ p.k = NO_KEY /\ op' = p
  BY <1>1 DEF IsHandler, Handler, vtfs_iterate, Begin
<1>3. PICK req : req = [method |-> "iterate_dir", dir_ino |-> d, offset |-> offset]
  OBVIOUS
<1>4. vtfs_http_call(req, RESPONSE_SIZE)
  BY <1>3 DEF vtfs_iterate, iterate_dir
<1>5. Asked(req)'
  BY <1>2, <1>3 DEF Asked, CountCalls, NameCalls
<1>6. CallSound' /\ call'.st \in {"sent", "done"}
  BY <1>4, <1>5, AskSound DEF BufferSize
<1> QED BY <1>2, <1>6, Begun DEF vtfs_iterate, Begin, Calls, CountCalls, FileHandlers

LEMMA MountKeepsInv == ASSUME NEW data, NetInv, vtfs_mount(data) PROVE NetInv'
<1>1. PICK p : p = [Handler("mount", NO_KEY) EXCEPT !.at = "init", !.buf = TokenOf(data)]
  OBVIOUS
<1>2. /\ IsHandler(p) /\ p.st = "busy" /\ p.h = "mount" /\ p.at = "init"
      /\ p.k = NO_KEY /\ op' = p
  BY <1>1 DEF IsHandler, Handler, vtfs_mount
<1>3. CallSound' /\ call'.st \in {"idle", "sent", "done"}
  <2>1. CASE init
    <3>1. PICK req : req = [method |-> "init"]
      OBVIOUS
    <3>2. vtfs_http_call(req, RESPONSE_SIZE)
      BY <2>1, <3>1 DEF init, Ask
    <3>3. Asked(req)'
      BY <1>2, <3>1 DEF Asked, CountCalls, NameCalls
    <3>4. CallSound' /\ call'.st \in {"sent", "done"}
      BY <3>2, <3>3, AskSound DEF BufferSize
    <3> QED BY <3>4
  <2>2. CASE Done(-ENOMEM, NoFields) \/ Done(-EINVAL, NoFields)
    <3>1. -ENOMEM # 0 /\ -EINVAL # 0
      BY DEF ENOMEM, EINVAL
    <3> QED BY <2>2, <3>1, FailedSound
  <2> QED BY <2>1, <2>2 DEF vtfs_mount
<1> QED BY <1>2, <1>3, Begun DEF vtfs_mount, Calls, CountCalls, FileHandlers

LEMMA ReadKeeps == ASSUME NEW len \in ReadLen, NetInv, vtfs_read(len) PROVE NetInv'
<1>1. PICK p : p = [[FileHandler("read") EXCEPT !.total = len] EXCEPT !.at = "read"]
  OBVIOUS
<1>2. /\ IsHandler(p) /\ p.st = "busy" /\ p.h = "read" /\ p.at = "read"
      /\ p.k = NO_KEY /\ p.start = file.f_pos /\ p.total = len /\ op' = p
      /\ p.ino = file.i_ino
  BY <1>1 DEF IsHandler, Handler, FileHandler, vtfs_read, Begin
<1>3. len \in Nat /\ OpenFile /\ file.f_pos \in 0..LOFF_MAX
  BY NetVtfsAssumption DEF vtfs_read, NetInv, CacheSound, OpenFile
<1>4. CallSound' /\ call'.st \in {"idle", "sent", "done"}
  <2>1. PICK req : req = [method |-> "read", ino |-> file.i_ino, len |-> len,
                          offset |-> file.f_pos]
    OBVIOUS
  <2>2. CASE vtfs_http_call(req, len + RESPONSE_SIZE)
    <3>1. Asked(req)'
      BY <1>2, <2>1 DEF Asked, CountCalls, NameCalls
    <3>2. len + RESPONSE_SIZE \in BufferSize
      BY DEF BufferSize
    <3>3. CallSound' /\ call'.st \in {"sent", "done"}
      BY <2>2, <3>1, <3>2, AskSound
    <3> QED BY <3>3
  <2>3. CASE Done(-ENOMEM, NoFields)
    <3>1. -ENOMEM # 0
      BY DEF ENOMEM
    <3> QED BY <2>3, <3>1, FailedSound
  <2> QED BY <2>1, <2>2, <2>3 DEF vtfs_read, read
<1> QED BY <1>2, <1>3, <1>4, Begun DEF vtfs_read, Begin, Calls, CountCalls, FileHandlers

\* A write begins with an empty count, and its end, when it goes on, within
\* what a loff_t holds; one that is refused keeps no buffer.
LEMMA WriteBeginKeeps == ASSUME NEW len \in WriteLen, NetInv, vtfs_write(len) PROVE NetInv'
<1>1. PICK err : err = vtfs_validate_io_params(file.f_pos, len)
  OBVIOUS
<1>2. /\ OpenFile /\ file.f_pos \in 0..LOFF_MAX
      /\ LOFF_MAX \in Nat /\ len \in 1..Len(UserBytes) /\ UserBytes \in Seq(0..255)
  BY NetVtfsAssumption DEF vtfs_write, NetInv, CacheSound, OpenFile
<1>3. SubSeq(UserBytes, 1, len) \in Seq(0..255) /\ Len(SubSeq(UserBytes, 1, len)) = len
  <2>1. 0 \in 0..Len(UserBytes) /\ len \in 0..Len(UserBytes) /\ len - 0 = len /\ 0 + 1 = 1
    BY <1>2
  <2> QED BY <1>2, <2>1, PartOf
<1>4. PICK p :
        /\ IsHandler(p) /\ op' = p /\ p.h = "write" /\ p.at = "chunk" /\ p.k = NO_KEY
        /\ p.start = file.f_pos /\ p.total = 0
        /\ \/ p.st = "busy" /\ p.buf = SubSeq(UserBytes, 1, len) /\ err = 0
           \/ p.st = "returned" /\ p.buf = <<>> /\ p.ret = -err /\ err # 0
  <2>1. CASE /\ err # 0
             /\ Begin([FileHandler("write") EXCEPT !.st = "returned", !.ret = -err], "chunk")
    <3>1. PICK p : p = [[FileHandler("write") EXCEPT !.st = "returned", !.ret = -err]
                          EXCEPT !.at = "chunk"]
      OBVIOUS
    <3>2. /\ IsHandler(p) /\ p.h = "write" /\ p.at = "chunk" /\ p.k = NO_KEY
          /\ p.start = file.f_pos /\ p.total = 0 /\ p.st = "returned"
          /\ p.buf = <<>> /\ p.ret = -err
      BY <3>1 DEF IsHandler, Handler, FileHandler
    <3> QED BY <2>1, <3>1, <3>2 DEF Begin
  <2>2. CASE /\ err = 0
             /\ Begin([FileHandler("write") EXCEPT !.buf = SubSeq(UserBytes, 1, len)], "chunk")
    <3>1. PICK p : p = [[FileHandler("write") EXCEPT !.buf = SubSeq(UserBytes, 1, len)]
                          EXCEPT !.at = "chunk"]
      OBVIOUS
    <3>2. /\ IsHandler(p) /\ p.h = "write" /\ p.at = "chunk" /\ p.k = NO_KEY
          /\ p.start = file.f_pos /\ p.total = 0 /\ p.st = "busy"
          /\ p.buf = SubSeq(UserBytes, 1, len)
      BY <3>1 DEF IsHandler, Handler, FileHandler
    <3> QED BY <2>2, <3>1, <3>2 DEF Begin
  <2> QED BY <1>1, <2>1, <2>2 DEF vtfs_write
<1>5. /\ op = Idle /\ disturbed' = FALSE
      /\ UNCHANGED <<late, dcache, file, doubt>> /\ UNCHANGED tree
  BY DEF vtfs_write, Begin
<1>6. call' = IdleCall /\ CallSound' /\ call'.st = "idle"
  <2>1. call' = IdleCall
    BY <1>5, IdleHasNoCall DEF vtfs_write
  <2> QED BY <2>1 DEF CallSound, IdleCall
<1>7. err = 0 => file.f_pos + len <= LOFF_MAX
  BY <1>1, <1>2 DEF vtfs_validate_io_params, EFBIG
<1>8. p.buf \in Seq(0..255) /\ p.start + Len(p.buf) <= LOFF_MAX
  <2>1. CASE p.buf = <<>>
    BY <1>2, <1>4, <2>1
  <2>2. CASE p.buf = SubSeq(UserBytes, 1, len) /\ err = 0
    BY <1>2, <1>3, <1>4, <1>7, <2>2
  <2> QED BY <1>4, <2>1, <2>2
<1>9. BytesWritten'
  <2>1. p.total \in 0..Len(p.buf) /\ file.f_pos \in p.start..(p.start + p.total)
    BY <1>2, <1>4, <1>8
  <2>2. Stored(op.total)'
    <3>1. op'.total = 0
      BY <1>4
    <3> QED BY <3>1 DEF Stored
  <2> QED BY <1>4, <1>5, <1>8, <2>1, <2>2 DEF BytesWritten
<1>10. /\ <<p.h, p.at>> \in Calls /\ p.at \notin CountCalls /\ p.h # "link"
       /\ p.h \in FileHandlers /\ p.start \in 0..LOFF_MAX /\ p.total \in Nat
  BY <1>2, <1>4 DEF Calls, CountCalls, FileHandlers
<1>11. p.st = "busy" \/ (p.st = "returned" /\ p.ret # 0 /\ call' = IdleCall)
  <2>1. err # 0 => -err # 0
    BY <1>1 DEF vtfs_validate_io_params, EFBIG
  <2> QED BY <1>4, <1>6, <2>1
<1> QED BY <1>2, <1>4, <1>5, <1>6, <1>9, <1>10, <1>11, Begun

-----------------------------------------------------------------------------
(* A handler goes on. *)

NameHandlers == {"lookup", "create", "mkdir", "link", "unlink", "rmdir"}

LEMMA GoesOn ==
  ASSUME NetInv, op.st = "busy", UNCHANGED <<late, dcache, file, doubt>>, UNCHANGED tree,
         IsHandler(op'), op'.st = "busy", op'.h = op.h, op'.k = op.k, op'.start = op.start,
         <<op'.h, op'.at>> \in Calls, op'.h \in FileHandlers => op'.total \in Nat,
         op'.h = "link" /\ op'.at # "count_found" =>
           op'.inode.i_ino \in Ino /\ op'.inode.type = "FILE",
         CallSound', call'.st \in {"idle", "sent", "done"}, NameLearned', BytesWritten'
  PROVE  NetInv'
<1>1. /\ IF op.h \in FileHandlers \cup {"mount", "iterate"} THEN op.k = NO_KEY
         ELSE op.k \in Key
      /\ op.h \in FileHandlers => OpenFile /\ op.start \in 0..LOFF_MAX
  BY DEF NetInv, HandlerSound
<1>2. HandlerSound'
  BY <1>1 DEF HandlerSound, OpenFile
<1> QED BY <1>2, AtWork

\* What the handlers' places say of the handler, its key and its call.
LEMMA WaitingFacts ==
  ASSUME NetInv, op.st = "busy"
  PROVE  /\ IsHandler(op) /\ <<op.h, op.at>> \in Calls
         /\ op.h \in NameHandlers => op.k \in Key
         /\ op.h \notin NameHandlers => op.k = NO_KEY /\ NO_KEY \notin DOMAIN dcache
         /\ op.h \in FileHandlers => OpenFile /\ op.start \in 0..LOFF_MAX /\ op.total \in Nat
         /\ op.h = "link" /\ op.at # "count_found" =>
              op.inode.i_ino \in Ino /\ op.inode.type = "FILE"
         /\ call.st = "done" /\ call.result = 0 => Success(call.fields)
         /\ SameButTotal(op)
<1>1. /\ IsHandler(op) /\ <<op.h, op.at>> \in Calls
      /\ IF op.h \in FileHandlers \cup {"mount", "iterate"} THEN op.k = NO_KEY
         ELSE op.k \in Key
      /\ op.h \in FileHandlers => OpenFile /\ op.start \in 0..LOFF_MAX /\ op.total \in Nat
      /\ op.h = "link" /\ op.at # "count_found" =>
           op.inode.i_ino \in Ino /\ op.inode.type = "FILE"
  BY DEF NetInv, HandlerSound
<1>2. op.h \in NameHandlers \cup FileHandlers \cup {"mount", "iterate"}
  BY <1>1 DEF Calls, NameHandlers, FileHandlers
<1>3. NO_KEY \notin DOMAIN dcache
  BY KeyFacts DEF NetInv, CacheSound
<1>4. call.st = "done" /\ call.result = 0 => Success(call.fields)
  BY DEF NetInv, CallSound
<1> QED BY <1>1, <1>2, <1>3, <1>4 DEF SameButTotal, NameHandlers, FileHandlers

LEMMA AchievedKept ==
  ASSUME Achieved, UNCHANGED tree, UNCHANGED sb,
         op'.h = op.h, op'.k = op.k, op'.inode = op.inode
  PROVE  Achieved'
BY DEF Achieved, HasEntry, EntryType, tree, Server!Mounted

\* The handler returns and leaves the dentry cache as it was.
LEMMA PlainReturned ==
  ASSUME NetInv, op.st = "busy", op.h # "write", NEW ret, Return(ret),
         UNCHANGED <<late, sb, dcache>>, UNCHANGED tree,
         op.h \in FileHandlers => OpenFile', op.h \notin FileHandlers => UNCHANGED file,
         ret # 0 \/ op.k \notin DOMAIN dcache,
         ret = 0 /\ ~disturbed => Achieved
  PROVE  NetInv'
<1>1. SameButTotal(op) /\ (op.h \in FileHandlers => op.total \in Nat) /\ ReturnFrom(op, ret)
  BY WaitingFacts DEF Return
<1>2. /\ op'.h = op.h /\ op'.k = op.k /\ op'.inode = op.inode
  BY <1>1 DEF ReturnFrom, SameButTotal, IsHandler
<1>3. doubt' \subseteq doubt
  BY <1>1 DEF ReturnFrom
<1>4. CacheSound'
  BY <1>3 DEF NetInv, CacheSound, OpenFile
<1>5. BytesWritten'
  BY <1>2 DEF BytesWritten
<1>6. ret = 0 /\ ~disturbed => Achieved'
  BY <1>2, AchievedKept
<1>7. \A k \in DOMAIN dcache' :
        /\ k \in DOMAIN dcache /\ dcache'[k] = dcache[k]
        /\ k = op.k => ret # 0 \/ disturbed
  OBVIOUS
<1> QED BY <1>1, <1>4, <1>5, <1>6, <1>7, Returned

\* The handler returns, and its name's dentry holds the inode that the server
\* has named.
LEMMA HashReturned ==
  ASSUME NetInv, op.st = "busy", op.h \in NameHandlers, NEW ret, Return(ret),
         NEW inode, inode.i_ino \in Ino, Says(inode), dcache' = Hashed(op.k, inode),
         UNCHANGED <<late, sb, file>>, UNCHANGED tree,
         ret = 0 /\ ~disturbed => Achieved
  PROVE  NetInv'
<1>1. SameButTotal(op) /\ ReturnFrom(op, ret) /\ op.k \in Key /\ op.h \notin FileHandlers
  BY WaitingFacts DEF Return, NameHandlers, FileHandlers
<1>2. /\ op'.h = op.h /\ op'.k = op.k /\ op'.inode = op.inode
  BY <1>1 DEF ReturnFrom, SameButTotal, IsHandler
<1>3. doubt' \subseteq doubt
  BY <1>1 DEF ReturnFrom
<1>4. inode # NEG
  BY KeyFacts
<1>5. CacheSound'
  BY <1>1, <1>3 DEF NetInv, CacheSound, OpenFile, Hashed
<1>6. BytesWritten'
  BY <1>1, <1>2 DEF BytesWritten, FileHandlers
<1>7. ret = 0 /\ ~disturbed => Achieved'
  BY <1>2, AchievedKept
<1>8. ASSUME NEW k \in DOMAIN dcache'
      PROVE  \/ /\ k \in DOMAIN dcache /\ dcache'[k] = dcache[k]
                /\ k = op.k => ret # 0 \/ disturbed
             \/ k = op.k /\ (Sure => NameHolds(k) = DentrySays(dcache'[k]))
  <2>1. CASE k # op.k
    BY <2>1 DEF Hashed
  <2>2. CASE k = op.k
    <3>1. dcache'[k] = inode
      BY <2>2 DEF Hashed
    <3> QED BY <1>4, <2>2, <3>1 DEF Says, DentrySays
  <2> QED BY <2>1, <2>2
<1> QED BY <1>1, <1>5, <1>6, <1>7, <1>8, Returned

\* The next call of the handler is count_links.
LEMMA CountAsked ==
  ASSUME NEW ino, count_links(ino), op'.at \in CountCalls
  PROVE  CallSound' /\ call'.st \in {"idle", "sent", "done"}
<1>1. PICK req : req = [method |-> "count_links", ino |-> ino]
  OBVIOUS
<1>2. vtfs_http_call(req, 256)
  BY <1>1 DEF count_links
<1>3. Asked(req)'
  BY <1>1 DEF Asked, CountCalls, NameCalls
<1>4. CallSound' /\ call'.st \in {"sent", "done"}
  BY <1>2, <1>3, AskSound DEF BufferSize
<1> QED BY <1>4

LEMMA LookedKeeps == NetInv /\ Looked => NetInv'
<1> SUFFICES ASSUME NetInv, Looked PROVE NetInv'
  OBVIOUS
<1>1. /\ op.st = "busy" /\ op.at = "lookup" /\ call.st = "done"
      /\ UNCHANGED <<late, sb, file>> /\ UNCHANGED tree
  BY DEF Looked, Waiting, Rest, tree
<1>2. op.h \in {"lookup", "create", "mkdir", "link"} /\ op.h \in NameHandlers
  BY <1>1, WaitingFacts DEF Calls, NameHandlers
<1>3. PICK inode : inode = vtfs_get_inode(call.fields)
  OBVIOUS
<1>4. lookup_result(call.result) = 0 => inode.i_ino \in Ino /\ Says(inode)
  <2>1. lookup_result(call.result) = 0 => call.result = 0
    BY DEF lookup_result, ENOENT
  <2>2. call.result = 0 => Success(call.fields)
    BY <1>1, WaitingFacts
  <2> QED BY <1>1, <1>3, <2>1, <2>2 DEF Success, vtfs_get_inode
<1>5. CASE /\ lookup_result(call.result) = 0 /\ call.fields.type = "FILE"
           /\ count_links(call.fields.ino)
           /\ op' = [op EXCEPT !.at = "count_found", !.inode = vtfs_get_inode(call.fields)]
           /\ UNCHANGED <<disturbed, doubt, dcache>>
  <2>1. /\ IsHandler(op') /\ op'.st = "busy" /\ op'.h = op.h /\ op'.k = op.k
        /\ op'.start = op.start /\ op'.at = "count_found" /\ op'.inode = inode
    BY <1>1, <1>3, <1>5, WaitingFacts DEF IsHandler
  <2>2. CallSound' /\ call'.st \in {"idle", "sent", "done"}
    BY <1>5, <2>1, CountAsked DEF CountCalls
  <2>3. NameLearned'
    <3>1. \A k : NameHolds(k)' = NameHolds(k)
      BY <1>1, TreeUnchanged
    <3>2. Says(inode)'
      BY <1>4, <1>5, <2>1, <3>1 DEF Says, Sure
    <3> QED BY <1>4, <1>5, <2>1, <3>2 DEF NameLearned, Says
  <2>4. BytesWritten' /\ <<op'.h, op'.at>> \in Calls /\ op'.h \notin FileHandlers
    BY <1>2, <2>1 DEF BytesWritten, Calls, FileHandlers
  <2> QED BY <1>1, <1>5, <2>1, <2>2, <2>3, <2>4, GoesOn
<1>6. CASE /\ lookup_result(call.result) = 0 /\ call.fields.type = "DIR"
           /\ dcache' = Hashed(op.k, vtfs_get_inode(call.fields))
           /\ Return(IF op.h = "lookup" THEN 0 ELSE -EEXIST)
  <2>1. PICK ret : ret = IF op.h = "lookup" THEN 0 ELSE -EEXIST
    OBVIOUS
  <2>2. ret = 0 => Achieved
    BY <2>1 DEF Achieved, EEXIST
  <2>3. Return(ret) /\ dcache' = Hashed(op.k, inode)
    BY <1>3, <1>6, <2>1
  <2> QED BY <1>1, <1>2, <1>4, <1>6, <2>2, <2>3, HashReturned
<1>7. CASE op.h = "lookup" /\ Return(-ENOENT) /\ UNCHANGED dcache
  <2>1. PICK ret : ret = -ENOENT /\ ret # 0
    BY DEF ENOENT
  <2>2. op.h # "write" /\ op.h \notin FileHandlers
    BY <1>7 DEF FileHandlers
  <2> QED BY <1>1, <1>7, <2>1, <2>2, PlainReturned
<1>8. CASE /\ op.h # "lookup" /\ Then(Method(op.h))
           /\ Request(op.h, op.k, op.inode.i_ino) /\ UNCHANGED dcache
  <2>1. /\ IsHandler(op') /\ op'.st = "busy" /\ op'.h = op.h /\ op'.k = op.k
        /\ op'.start = op.start /\ op'.at = Method(op.h) /\ op'.inode = op.inode
    BY <1>1, <1>8, WaitingFacts DEF IsHandler, Then
  <2>2. CallSound' /\ call'.st \in {"sent", "done"}
    BY <1>2, <1>8, <2>1, NameAsked
  <2>3. /\ NameLearned' /\ BytesWritten' /\ <<op'.h, op'.at>> \in Calls
        /\ op'.h \notin FileHandlers
    BY <1>2, <1>8, <2>1
    DEF NameLearned, BytesWritten, Calls, FileHandlers, CountCalls, Method
  <2>4. op.h = "link" => op.inode.i_ino \in Ino /\ op.inode.type = "FILE"
    BY <1>1, WaitingFacts
  <2>5. UNCHANGED doubt /\ call'.st \in {"idle", "sent", "done"}
    BY <1>8, <2>2 DEF Then
  <2> QED BY <1>1, <1>8, <2>1, <2>2, <2>3, <2>4, <2>5, GoesOn
<1> QED BY <1>5, <1>6, <1>7, <1>8 DEF Looked

LEMMA CreatedKeeps == NetInv /\ Created => NetInv'
<1> SUFFICES ASSUME NetInv, Created PROVE NetInv'
  OBVIOUS
<1>1. /\ op.st = "busy" /\ call.st = "done" /\ op.at \in {"create_file", "mkdir"}
      /\ UNCHANGED <<late, sb, file>> /\ UNCHANGED tree
  BY DEF Created, Waiting, Rest, tree
<1>2. /\ op.at = "create_file" => op.h = "create"
      /\ op.at = "mkdir" => op.h = "mkdir"
      /\ op.h \in NameHandlers /\ op.h \notin FileHandlers /\ op.h # "write"
  BY <1>1, WaitingFacts DEF Calls, NameHandlers, FileHandlers
<1>3. PICK inode : inode = vtfs_get_inode(call.fields)
  OBVIOUS
<1>4. call.result = 0 =>
        /\ inode.i_ino \in Ino /\ Says(inode)
        /\ inode.type = IF op.at = "create_file" THEN "FILE" ELSE "DIR"
  <2>1. call.result = 0 => Success(call.fields)
    BY <1>1, WaitingFacts
  <2> QED BY <1>1, <1>3, <2>1 DEF Success, vtfs_get_inode
<1>5. CASE call.result # 0 /\ Return(call.result) /\ UNCHANGED dcache
  BY <1>1, <1>2, <1>5, PlainReturned
<1>6. CASE Return(-ENOMEM) /\ UNCHANGED dcache
  <2>1. PICK ret : ret = -ENOMEM /\ ret # 0
    BY DEF ENOMEM
  <2> QED BY <1>1, <1>2, <1>6, <2>1, PlainReturned
<1>7. CASE /\ call.result = 0 /\ op.at = "mkdir"
           /\ dcache' = Hashed(op.k, vtfs_get_inode(call.fields))
           /\ Return(0)
  <2>1. Says(inode) /\ inode.type = "DIR" /\ inode.i_ino \in Ino
    BY <1>4, <1>7
  <2>2. ~disturbed => Achieved
    BY <1>2, <1>7, <2>1, HoldsFacts DEF Says, Sure, Achieved
  <2>3. dcache' = Hashed(op.k, inode)
    BY <1>3, <1>7
  <2> QED BY <1>1, <1>2, <1>7, <2>1, <2>2, <2>3, HashReturned
<1>8. CASE /\ call.result = 0 /\ op.at = "create_file"
           /\ count_links(call.fields.ino)
           /\ op' = [op EXCEPT !.at = "count_made", !.inode = vtfs_get_inode(call.fields)]
           /\ UNCHANGED <<disturbed, doubt, dcache>>
  <2>1. /\ IsHandler(op') /\ op'.st = "busy" /\ op'.h = op.h /\ op'.k = op.k
        /\ op'.start = op.start /\ op'.at = "count_made" /\ op'.inode = inode
    BY <1>1, <1>3, <1>8, WaitingFacts DEF IsHandler
  <2>2. CallSound' /\ call'.st \in {"idle", "sent", "done"}
    BY <1>8, <2>1, CountAsked DEF CountCalls
  <2>3. NameLearned'
    <3>1. \A k : NameHolds(k)' = NameHolds(k)
      BY <1>1, TreeUnchanged
    <3>2. Says(inode)'
      BY <1>4, <1>8, <2>1, <3>1 DEF Says, Sure
    <3> QED BY <1>4, <1>8, <2>1, <3>2 DEF NameLearned, Says
  <2>4. BytesWritten' /\ <<op'.h, op'.at>> \in Calls /\ op'.h \notin FileHandlers
        /\ op'.h # "link"
    BY <1>2, <1>8, <2>1 DEF BytesWritten, Calls, FileHandlers
  <2> QED BY <1>1, <1>8, <2>1, <2>2, <2>3, <2>4, GoesOn
<1> QED BY <1>5, <1>6, <1>7, <1>8 DEF Created

LEMMA LinkedKeeps == NetInv /\ Linked => NetInv'
<1> SUFFICES ASSUME NetInv, Linked PROVE NetInv'
  OBVIOUS
<1>1. /\ op.st = "busy" /\ call.st = "done" /\ op.at = "link"
      /\ UNCHANGED <<late, sb, file, dcache>> /\ UNCHANGED tree
  BY DEF Linked, Waiting, Rest, tree
<1>2. op.h = "link" /\ op.h \notin FileHandlers /\ op.h # "write"
  BY <1>1, WaitingFacts DEF Calls, FileHandlers
<1>3. CASE call.result # 0 /\ Return(call.result)
  BY <1>1, <1>2, <1>3, PlainReturned
<1>4. CASE call.result = 0 /\ count_links(op.inode.i_ino) /\ Then("count_linked")
  <2>1. /\ IsHandler(op') /\ op'.st = "busy" /\ op'.h = op.h /\ op'.k = op.k
        /\ op'.start = op.start /\ op'.at = "count_linked" /\ op'.inode = op.inode
        /\ UNCHANGED <<doubt, disturbed>>
    BY <1>1, <1>4, WaitingFacts DEF IsHandler, Then
  <2>2. CallSound' /\ call'.st \in {"idle", "sent", "done"}
    BY <1>4, <2>1, CountAsked DEF CountCalls
  <2>3. PICK inode : inode = op.inode
    OBVIOUS
  <2>4. NameLearned'
    <3>1. \A k : NameHolds(k)' = NameHolds(k)
      BY <1>1, TreeUnchanged
    <3>2. Says(inode)
      BY <1>1, <1>4, <2>3, WaitingFacts DEF Success
    <3>3. Says(inode)'
      BY <2>1, <3>1, <3>2 DEF Says, Sure
    <3> QED BY <2>1, <2>3, <3>3 DEF NameLearned, Says
  <2>5. BytesWritten' /\ <<op'.h, op'.at>> \in Calls /\ op'.h \notin FileHandlers
    BY <1>2, <2>1 DEF BytesWritten, Calls, FileHandlers
  <2>6. op'.inode.i_ino \in Ino /\ op'.inode.type = "FILE"
    BY <1>1, <1>2, <2>1, WaitingFacts
  <2> QED BY <1>1, <2>1, <2>2, <2>4, <2>5, <2>6, GoesOn
<1> QED BY <1>3, <1>4 DEF Linked

LEMMA LinksCountedKeeps == NetInv /\ LinksCounted => NetInv'
<1> SUFFICES ASSUME NetInv, LinksCounted PROVE NetInv'
  OBVIOUS
<1>1. /\ op.st = "busy" /\ op.at \in CountCalls
      /\ UNCHANGED <<late, sb, file>> /\ UNCHANGED tree
  BY DEF LinksCounted, Waiting, Rest, tree, CountCalls
<1>2. PICK inode : inode = op.inode
  OBVIOUS
<1>3. Says(inode) /\ (op.at \in {"count_found", "count_made"} => inode.i_ino \in Ino)
      /\ (op.at = "count_made" => inode.type = "FILE")
  BY <1>1, <1>2 DEF NetInv, NameLearned
<1>4. /\ op.h \in NameHandlers /\ op.h \notin FileHandlers /\ op.h # "write"
      /\ op.at = "count_made" => op.h = "create"
      /\ op.at = "count_linked" => op.h = "link"
      /\ op.at = "count_found" => op.h \in {"lookup", "create", "mkdir", "link"}
  BY <1>1, WaitingFacts DEF Calls, NameHandlers, FileHandlers, CountCalls
<1>5. CASE /\ op.at = "count_found" /\ dcache' = Hashed(op.k, op.inode)
           /\ Return(IF op.h = "lookup" THEN 0 ELSE -EEXIST)
  <2>1. PICK ret : ret = IF op.h = "lookup" THEN 0 ELSE -EEXIST
    OBVIOUS
  <2>2. ret = 0 => Achieved
    BY <2>1 DEF Achieved, EEXIST
  <2>3. Return(ret) /\ dcache' = Hashed(op.k, inode) /\ inode.i_ino \in Ino
    BY <1>2, <1>3, <1>5, <2>1
  <2> QED BY <1>1, <1>3, <1>4, <2>2, <2>3, HashReturned
<1>6. CASE op.at = "count_made" /\ dcache' = Hashed(op.k, op.inode) /\ Return(0)
  <2>1. Says(inode) /\ inode.type = "FILE" /\ inode.i_ino \in Ino
    BY <1>3, <1>6
  <2>2. ~disturbed => Achieved
    BY <1>4, <1>6, <2>1, HoldsFacts DEF Says, Sure, Achieved
  <2> QED BY <1>1, <1>2, <1>4, <1>6, <2>1, <2>2, HashReturned
<1>7. CASE /\ op.at = "count_linked" /\ Return(0)
           /\ dcache' = IF op.k \in DOMAIN dcache THEN Hashed(op.k, op.inode) ELSE dcache
  <2>1. inode.i_ino \in Ino
    BY <1>1, <1>2, <1>4, <1>7, WaitingFacts
  <2>2. ~disturbed => Achieved
    BY <1>2, <1>3, <1>4, <1>7, HoldsFacts DEF Says, Sure, Achieved
  <2>3. CASE op.k \in DOMAIN dcache
    BY <1>1, <1>2, <1>3, <1>4, <1>7, <2>1, <2>2, <2>3, HashReturned
  <2>4. CASE op.k \notin DOMAIN dcache
    <3>1. UNCHANGED dcache /\ Return(0)
      BY <1>7, <2>4
    <3> QED BY <1>1, <1>4, <2>2, <2>4, <3>1, PlainReturned
  <2> QED BY <2>3, <2>4
<1> QED BY <1>5, <1>6, <1>7 DEF LinksCounted, Waiting

LEMMA RemovedKeeps == NetInv /\ Removed => NetInv'
<1> SUFFICES ASSUME NetInv, Removed PROVE NetInv'
  OBVIOUS
<1>1. /\ op.st = "busy" /\ call.st = "done" /\ op.at \in {"unlink", "rmdir"}
      /\ UNCHANGED <<late, sb>> /\ UNCHANGED tree /\ Return(call.result)
  BY DEF Removed, Waiting, Rest, tree
<1>2. op.h \in {"unlink", "rmdir"} /\ op.h \notin FileHandlers /\ op.h # "write"
      /\ op.h \in NameHandlers
  BY <1>1, WaitingFacts DEF Calls, FileHandlers, NameHandlers
<1>3. CASE call.result # 0 /\ UNCHANGED <<dcache, file>>
  BY <1>1, <1>2, <1>3, PlainReturned
<1>4. CASE call.result = 0 /\ d_delete(op.k)
  <2>1. Sure => NameHolds(op.k) = <<>>
    BY <1>1, <1>4, WaitingFacts DEF Success
  <2>2. SameButTotal(op) /\ ReturnFrom(op, 0)
    BY <1>1, <1>4, WaitingFacts DEF Return
  <2>3. op'.h = op.h /\ op'.k = op.k /\ doubt' \subseteq doubt
    BY <2>2 DEF ReturnFrom, SameButTotal, IsHandler
  <2>4. BytesWritten'
    BY <1>2, <2>3 DEF BytesWritten
  <2>5. ~disturbed => Achieved'
    <3>1. ~disturbed => ~HasEntry(op.k)
      BY <2>1, HoldsFacts DEF Sure
    <3> QED BY <1>1, <1>2, <2>3, <3>1 DEF Achieved, HasEntry, tree
  <2>6. CacheSound' /\ \A k \in DOMAIN dcache' :
          \/ k # op.k /\ k \in DOMAIN dcache /\ dcache'[k] = dcache[k]
          \/ k = op.k /\ dcache'[k] = NEG
    <3>1. CASE /\ file # NONE /\ file.key = op.k
               /\ dcache' = Kept(DOMAIN dcache \ {op.k}) /\ file' = [file EXCEPT !.key = NO_KEY]
      BY <2>3, <3>1 DEF NetInv, CacheSound, OpenFile, Kept
    <3>2. CASE /\ dcache' = [c \in DOMAIN dcache \ Below(op.k) |->
                               IF c = op.k THEN NEG ELSE dcache[c]]
               /\ UNCHANGED file
      BY <2>3, <3>2 DEF NetInv, CacheSound, OpenFile
    <3> QED BY <1>4, <3>1, <3>2 DEF d_delete
  <2>7. \A k \in DOMAIN dcache' :
          \/ /\ k \in DOMAIN dcache /\ dcache'[k] = dcache[k]
             /\ k = op.k => FALSE
          \/ k = op.k /\ (Sure => NameHolds(k) = DentrySays(dcache'[k]))
    BY <2>1, <2>6 DEF DentrySays
  <2> QED BY <1>1, <1>2, <2>2, <2>4, <2>5, <2>6, <2>7, Returned
<1> QED BY <1>1, <1>3, <1>4 DEF Removed

LEMMA IteratedKeeps == NetInv /\ Iterated => NetInv'
<1> SUFFICES ASSUME NetInv, Iterated PROVE NetInv'
  OBVIOUS
<1>1. /\ op.st = "busy" /\ op.at = "iterate_dir"
      /\ UNCHANGED <<late, sb, dcache, file>> /\ UNCHANGED tree
  BY DEF Iterated, Waiting, Rest, tree
<1>2. op.h = "iterate"
  BY <1>1, WaitingFacts DEF Calls
<1>3. PICK p : /\ p = [op EXCEPT !.total = IF lookup_result(call.result) = 0 THEN 1 ELSE 0]
               /\ ReturnFrom(p, 0)
  BY DEF Iterated
<1>4. SameButTotal(p)
  BY <1>1, <1>3, WaitingFacts DEF SameButTotal, IsHandler
<1>5. op'.h = "iterate" /\ doubt' \subseteq doubt
  BY <1>2, <1>3, <1>4 DEF ReturnFrom, SameButTotal, IsHandler
<1>6. CacheSound' /\ BytesWritten' /\ Achieved'
  BY <1>1, <1>5 DEF NetInv, CacheSound, OpenFile, BytesWritten, Achieved
<1>7. p.h \notin FileHandlers
  BY <1>2, <1>4 DEF FileHandlers, SameButTotal
<1>8. \A k \in DOMAIN dcache' : k \in DOMAIN dcache /\ dcache'[k] = dcache[k] /\ k # op.k
  BY <1>1, <1>2, WaitingFacts DEF NameHandlers
<1> QED BY <1>1, <1>3, <1>4, <1>6, <1>7, <1>8, Returned

LEMMA FillSuperKeeps == NetInv /\ vtfs_fill_super => NetInv'
<1> SUFFICES ASSUME NetInv, vtfs_fill_super PROVE NetInv'
  OBVIOUS
<1>1. /\ op.st = "busy" /\ call.st = "done" /\ op.at \in {"init", "get_root"}
      /\ UNCHANGED <<late, dcache, file>> /\ UNCHANGED tree
  BY DEF vtfs_fill_super, Waiting
<1>2. op.h = "mount" /\ op.h \notin FileHandlers /\ op.h # "write" /\ op.h \notin NameHandlers
  BY <1>1, WaitingFacts DEF Calls, FileHandlers, NameHandlers
<1>3. ASSUME NEW ret, ret # 0, Return(ret), UNCHANGED sb
      PROVE  NetInv'
  BY <1>1, <1>2, <1>3, PlainReturned
<1>4. CASE op.at = "init" /\ get_root /\ Then("get_root")
  <2>1. /\ IsHandler(op') /\ op'.st = "busy" /\ op'.h = op.h /\ op'.k = op.k
        /\ op'.start = op.start /\ op'.at = "get_root" /\ UNCHANGED <<doubt, disturbed>>
    BY <1>1, <1>4, WaitingFacts DEF IsHandler, Then
  <2>2. PICK req : req = [method |-> "get_root"]
    OBVIOUS
  <2>3. vtfs_http_call(req, RESPONSE_SIZE)
    BY <1>4, <2>2 DEF get_root, Ask
  <2>4. Asked(req)'
    BY <2>1, <2>2 DEF Asked, CountCalls, NameCalls
  <2>5. CallSound' /\ call'.st \in {"sent", "done"}
    BY <2>3, <2>4, AskSound DEF BufferSize
  <2>6. /\ NameLearned' /\ BytesWritten' /\ <<op'.h, op'.at>> \in Calls
        /\ call'.st \in {"idle", "sent", "done"}
    BY <1>2, <2>1, <2>5 DEF NameLearned, BytesWritten, Calls, CountCalls
  <2> QED BY <1>1, <1>2, <2>1, <2>5, <2>6, GoesOn
<1>5. CASE /\ op.at = "get_root" /\ call.result = 0 /\ Return(0)
           /\ sb' = [token |-> op.buf, root |-> call.fields.ino]
  <2>1. call.fields.ino = VTFS_ROOT_INO /\ (~disturbed => Server!Mounted)
    BY <1>1, <1>5, WaitingFacts DEF Success
  <2>2. SameButTotal(op) /\ ReturnFrom(op, 0)
    BY <1>1, <1>5, WaitingFacts DEF Return
  <2>3. op'.h = "mount" /\ doubt' \subseteq doubt
    BY <1>2, <2>2 DEF ReturnFrom, SameButTotal, IsHandler
  <2>4. CacheSound' /\ BytesWritten'
    BY <1>1, <2>3 DEF NetInv, CacheSound, OpenFile, BytesWritten
  <2>5. ~disturbed => Achieved'
    <3>1. Server!Mounted' <=> Server!Mounted
      BY <1>1, TreeUnchanged
    <3> QED BY <1>5, <2>1, <2>3, <3>1 DEF Achieved
  <2>6. \A k \in DOMAIN dcache' : k \in DOMAIN dcache /\ dcache'[k] = dcache[k] /\ k # op.k
    BY <1>1, <1>2, WaitingFacts
  <2> QED BY <1>1, <1>2, <2>2, <2>4, <2>5, <2>6, Returned
<1>6. -ENOMEM # 0 /\ \A result : init_result(result) # 0 => result # 0
  BY DEF ENOMEM, init_result, EEXIST
<1> QED BY <1>3, <1>4, <1>5, <1>6 DEF vtfs_fill_super, Waiting

LEMMA ReadDoneKeeps == NetInv /\ ReadDone => NetInv'
<1> SUFFICES ASSUME NetInv, ReadDone PROVE NetInv'
  OBVIOUS
<1>1. /\ op.st = "busy" /\ call.st = "done" /\ op.at = "read"
      /\ UNCHANGED <<late, sb, dcache>> /\ UNCHANGED tree
  BY DEF ReadDone, Waiting, Rest, tree
<1>2. op.h = "read" /\ op.h \in FileHandlers /\ op.h \notin NameHandlers
  BY <1>1, WaitingFacts DEF Calls, FileHandlers, NameHandlers
<1>3. /\ OpenFile /\ op.start \in 0..LOFF_MAX /\ op.total \in Nat
      /\ op.k \notin DOMAIN dcache /\ Achieved
  BY <1>1, <1>2, WaitingFacts DEF Achieved
<1>4. ASSUME NEW ret, Return(ret), UNCHANGED file
      PROVE  NetInv'
  <2>1. OpenFile'
    BY <1>3, <1>4 DEF OpenFile
  <2> QED BY <1>1, <1>2, <1>3, <1>4, <2>1, PlainReturned
<1>5. CASE LET copied == Min2(Len(call.fields.bytes), op.total) IN
             call.result = 0 /\ MoveTo(op.start + copied) /\ Return(copied)
  <2>1. PICK copied : /\ copied = Min2(Len(call.fields.bytes), op.total)
                      /\ MoveTo(op.start + copied) /\ Return(copied)
    BY <1>5
  <2>2. /\ call.fields.bytes \in Seq(Nat)
        /\ Len(call.fields.bytes) = 0 \/ op.start + Len(call.fields.bytes) <= LOFF_MAX
    BY <1>1, <1>5, WaitingFacts DEF Success
  <2>3. op.start + copied \in 0..LOFF_MAX
    <3>1. PICK n \in Nat : n = Len(call.fields.bytes)
      BY <2>2
    <3>2. n = 0 \/ op.start + n <= LOFF_MAX
      BY <2>2, <3>1
    <3>3. copied \in Nat /\ copied <= n
      BY <1>3, <2>1, <3>1 DEF Min2
    <3> QED BY <1>3, <3>2, <3>3, NetVtfsAssumption
  <2>4. OpenFile'
    BY <1>3, <2>1, <2>3 DEF OpenFile, MoveTo
  <2> QED BY <1>1, <1>2, <1>3, <2>1, <2>4, PlainReturned
<1> QED BY <1>4, <1>5 DEF ReadDone

-----------------------------------------------------------------------------
(* The write loop. *)

\* The count goes on to total, as far as the bytes are known to be stored.
LEMMA BytesKept ==
  ASSUME NetInv, op.st = "busy", op.h = "write", UNCHANGED tree,
         disturbed' = disturbed, op'.h = op.h, op'.start = op.start, op'.buf = op.buf,
         op'.ino = op.ino, NEW total \in 0..Len(op.buf), op'.total = total,
         ~disturbed => Stored(total), file'.f_pos \in op.start..(op.start + total)
  PROVE  BytesWritten'
<1>1. \A n : Stored(n)' <=> Stored(n)
  BY StoredKept
<1>2. op.buf \in Seq(0..255) /\ op.start + Len(op.buf) <= LOFF_MAX
  BY DEF NetInv, BytesWritten
<1>3. ~disturbed' => Stored(total)'
  BY <1>1
<1>4. ~disturbed' => Stored(op.total)'
  BY <1>3 DEF Stored
<1> QED BY <1>2, <1>4 DEF BytesWritten

LEMMA WriteFacts ==
  ASSUME NetInv, op.st = "busy", op.h = "write"
  PROVE  /\ op.buf \in Seq(0..255) /\ Len(op.buf) \in Nat /\ op.start + Len(op.buf) <= LOFF_MAX
         /\ op.total \in 0..Len(op.buf) /\ op.start \in 0..LOFF_MAX /\ LOFF_MAX \in Nat
         /\ file.f_pos \in op.start..(op.start + op.total)
         /\ ~disturbed => Stored(op.total)
         /\ OpenFile /\ op.k \notin DOMAIN dcache /\ op.h \in FileHandlers
         /\ call.st = "done" /\ call.result = 0 /\ op.at = "write" =>
              /\ op.total + call.fields.written \in op.total..Len(op.buf)
              /\ ~disturbed => Stored(op.total + call.fields.written)
<1>1. /\ op.buf \in Seq(0..255) /\ op.start + Len(op.buf) <= LOFF_MAX
      /\ op.total \in 0..Len(op.buf) /\ file.f_pos \in op.start..(op.start + op.total)
      /\ ~disturbed => Stored(op.total)
  BY DEF NetInv, BytesWritten
<1>2. OpenFile /\ op.start \in 0..LOFF_MAX /\ op.k \notin DOMAIN dcache /\ op.h \in FileHandlers
  BY WaitingFacts DEF FileHandlers, NameHandlers
<1>3. Len(op.buf) \in Nat /\ LOFF_MAX \in Nat
  BY <1>1, NetVtfsAssumption
<1>4. ASSUME call.st = "done", call.result = 0, op.at = "write"
      PROVE  /\ op.total + call.fields.written \in op.total..Len(op.buf)
             /\ ~disturbed => Stored(op.total + call.fields.written)
  <2>1. /\ call.fields.written \in 0..Len(NextChunk)
        /\ ~disturbed => Stored(op.total + call.fields.written)
    BY <1>4, WaitingFacts DEF Success
  <2>2. Len(NextChunk) \in 0..(Len(op.buf) - op.total)
    BY <1>1, ChunkFacts
  <2> QED BY <1>1, <1>3, <2>1, <2>2
<1> QED BY <1>1, <1>2, <1>3, <1>4

LEMMA WriteReturned ==
  ASSUME NetInv, op.st = "busy", op.h = "write", NEW total \in op.total..Len(op.buf),
         NEW p, p = [op EXCEPT !.total = total], NEW ret, ReturnFrom(p, ret),
         UNCHANGED <<late, dcache>>, UNCHANGED tree, ~disturbed => Stored(total),
         UNCHANGED file \/ MoveTo(op.start + total)
  PROVE  NetInv'
<1>1. SameButTotal(p) /\ p.total = total
  BY WaitingFacts DEF SameButTotal, IsHandler
<1>2. /\ op'.h = op.h /\ op'.start = op.start /\ op'.buf = op.buf /\ op'.ino = op.ino
      /\ op'.total = total /\ doubt' \subseteq doubt /\ disturbed' = disturbed
  BY <1>1 DEF ReturnFrom, SameButTotal, IsHandler
<1>3. total \in 0..Len(op.buf)
  BY WriteFacts
<1>4. /\ file'.f_pos \in op.start..(op.start + total) /\ file'.f_pos \in 0..LOFF_MAX
      /\ OpenFile'
  <2>1. CASE UNCHANGED file
    BY <1>3, <2>1, WriteFacts DEF OpenFile
  <2>2. CASE MoveTo(op.start + total)
    <3>1. op.start + total \in 0..LOFF_MAX /\ op.start + total \in op.start..(op.start + total)
      BY <1>3, WriteFacts
    <3>2. OpenFile
      BY WriteFacts
    <3> QED BY <2>2, <3>1, <3>2 DEF OpenFile, MoveTo
  <2> QED BY <2>1, <2>2
<1>5. BytesWritten'
  BY <1>2, <1>3, <1>4, BytesKept
<1>6. CacheSound' /\ Achieved'
  BY <1>2, <1>4 DEF NetInv, CacheSound, Achieved
<1>7. \A k \in DOMAIN dcache' : k \in DOMAIN dcache /\ dcache'[k] = dcache[k] /\ k # op.k
  BY WriteFacts
<1>8. p.total \in Nat
  BY <1>1, <1>3
<1> QED BY <1>1, <1>4, <1>5, <1>6, <1>7, <1>8, Returned

LEMMA WriteChunkKeeps == NetInv /\ WriteChunk => NetInv'
<1> SUFFICES ASSUME NetInv, WriteChunk PROVE NetInv'
  OBVIOUS
<1>1. /\ op.st = "busy" /\ op.at = "chunk" /\ UNCHANGED <<late, sb, dcache, file>>
      /\ UNCHANGED tree
  BY DEF WriteChunk, Rest, tree
<1>2. op.h = "write"
  BY <1>1, WaitingFacts DEF Calls
<1>3. op.total \in op.total..Len(op.buf) /\ op = [op EXCEPT !.total = op.total]
  BY <1>1, <1>2, WriteFacts, WaitingFacts DEF IsHandler
<1>4. ASSUME NEW ret, Return(ret)
      PROVE  NetInv'
  <2>1. ReturnFrom(op, ret) /\ (~disturbed => Stored(op.total))
    BY <1>1, <1>2, <1>4, WriteFacts DEF Return
  <2>2. PICK total \in op.total..Len(op.buf) : total = op.total
    BY <1>3
  <2> QED BY <1>1, <1>2, <1>3, <2>1, <2>2, WriteReturned
<1>5. CASE write_chunk(op.ino, NextChunk, op.start + op.total) /\ Then("write")
  <2>1. /\ IsHandler(op') /\ op'.st = "busy" /\ op'.h = op.h /\ op'.k = op.k
        /\ op'.start = op.start /\ op'.at = "write" /\ op'.buf = op.buf /\ op'.ino = op.ino
        /\ op'.total = op.total /\ UNCHANGED <<doubt, disturbed>>
    BY <1>1, <1>5, WaitingFacts DEF IsHandler, Then
  <2>2. NextChunk' = NextChunk
    BY <2>1 DEF NextChunk
  <2>3. PICK req : req = [method |-> "write", ino |-> op.ino, len |-> Len(NextChunk),
                          offset |-> op.start + op.total, data |-> base64_encode(NextChunk)]
    OBVIOUS
  <2>4. vtfs_http_call(req, 256)
    BY <1>5, <2>3 DEF write_chunk
  <2>5. Asked(req)'
    <3>1. /\ req.method = "write" /\ req.ino = op.ino /\ req.len = Len(NextChunk)
          /\ req.offset = op.start + op.total /\ req.data = base64_encode(NextChunk)
      BY <2>3
    <3> QED BY <2>1, <2>2, <3>1 DEF Asked, CountCalls, NameCalls
  <2>6. CallSound' /\ call'.st \in {"sent", "done"}
    BY <2>4, <2>5, AskSound DEF BufferSize
  <2>7. BytesWritten'
    BY <1>1, <1>2, <2>1, WriteFacts, BytesKept
  <2>8. /\ NameLearned' /\ <<op'.h, op'.at>> \in Calls /\ op'.total \in Nat
        /\ call'.st \in {"idle", "sent", "done"} /\ op'.h # "link"
    BY <1>1, <1>2, <2>1, <2>6, WriteFacts DEF NameLearned, Calls, CountCalls
  <2> QED BY <1>1, <2>1, <2>6, <2>7, <2>8, GoesOn
<1> QED BY <1>4, <1>5 DEF WriteChunk

LEMMA WriteOnKeeps == NetInv /\ WriteOn => NetInv'
<1> SUFFICES ASSUME NetInv, WriteOn PROVE NetInv'
  OBVIOUS
<1>1. /\ op.st = "busy" /\ op.at = "write" /\ call.st = "done" /\ call.result = 0
      /\ UNCHANGED <<late, sb, dcache>> /\ UNCHANGED tree
  BY DEF WriteOn, Waiting, Rest, tree
<1>2. op.h = "write"
  BY <1>1, WaitingFacts DEF Calls
<1>3. PICK total \in op.total..Len(op.buf) :
        total = op.total + call.fields.written /\ (~disturbed => Stored(total))
  BY <1>1, <1>2, WriteFacts
<1>4. CASE MoveTo(op.start + total) /\ ReturnFrom([op EXCEPT !.total = total], total)
  <2>1. PICK p : p = [op EXCEPT !.total = total] /\ ReturnFrom(p, total)
    BY <1>4
  <2> QED BY <1>1, <1>2, <1>3, <1>4, <2>1, WriteReturned
<1>5. CASE /\ op' = [op EXCEPT !.at = "chunk", !.total = total]
           /\ call' = IdleCall /\ UNCHANGED <<file, disturbed, doubt>>
  <2>1. /\ IsHandler(op') /\ op'.st = "busy" /\ op'.h = op.h /\ op'.k = op.k
        /\ op'.start = op.start /\ op'.at = "chunk" /\ op'.buf = op.buf /\ op'.ino = op.ino
        /\ op'.total = total
    BY <1>1, <1>5, WaitingFacts DEF IsHandler
  <2>2. total \in 0..Len(op.buf) /\ file'.f_pos \in op.start..(op.start + total)
    BY <1>1, <1>2, <1>5, WriteFacts
  <2>3. BytesWritten'
    BY <1>1, <1>2, <1>3, <1>5, <2>1, <2>2, BytesKept
  <2>4. CallSound' /\ call'.st = "idle"
    BY <1>5 DEF CallSound, IdleCall
  <2>5. /\ NameLearned' /\ <<op'.h, op'.at>> \in Calls /\ op'.total \in Nat
        /\ call'.st \in {"idle", "sent", "done"} /\ op'.h # "link"
    BY <1>2, <2>1, <2>2, <2>4 DEF NameLearned, Calls, CountCalls
  <2> QED BY <1>1, <1>5, <2>1, <2>3, <2>4, <2>5, GoesOn
<1> QED BY <1>3, <1>4, <1>5 DEF WriteOn

LEMMA WriteFailedKeeps == NetInv /\ WriteFailed => NetInv'
<1> SUFFICES ASSUME NetInv, WriteFailed PROVE NetInv'
  OBVIOUS
<1>1. /\ op.st = "busy" /\ op.at = "write" /\ UNCHANGED <<late, sb, dcache>>
      /\ UNCHANGED tree
  BY DEF WriteFailed, Waiting, Rest, tree
<1>2. op.h = "write"
  BY <1>1, WaitingFacts DEF Calls
<1>3. PICK total \in op.total..Len(op.buf) : total = op.total
  BY <1>1, <1>2, WriteFacts
<1>4. PICK p : p = [op EXCEPT !.total = total] /\ p = op
  BY <1>1, <1>3, WaitingFacts DEF IsHandler
<1>5. ~disturbed => Stored(total)
  BY <1>1, <1>2, <1>3, WriteFacts
<1>6. PICK ret : ReturnFrom(p, ret) /\ (UNCHANGED file \/ MoveTo(op.start + total))
  BY <1>3, <1>4 DEF WriteFailed, Return
<1> QED BY <1>1, <1>2, <1>3, <1>4, <1>5, <1>6, WriteReturned

-----------------------------------------------------------------------------
(* Answers, and everyone else. *)

LEMMA CallNeedsHandler == NetInv /\ call.st # "idle" => op.st = "busy"
BY DEF NetInv, HandlerSound, IdleCall

LEMMA HandlerKept ==
  ASSUME NetInv, op.st = "busy", UNCHANGED <<op, file>>,
         call'.st \in {"idle", "sent", "answered", "done"}
  PROVE  HandlerSound'
BY DEF NetInv, HandlerSound, OpenFile, IsHandler

\* A call that is broken off or whose answer is read: nothing else changes.
LEMMA Untouched ==
  ASSUME NetInv, UNCHANGED <<op, sb, dcache, file, doubt>>, disturbed' <=> disturbed,
         UNCHANGED tree, HandlerSound', CallSound', LateSound'
  PROVE  NetInv'
<1>1. ServerSound' /\ \A k : NameHolds(k)' = NameHolds(k)
  BY TreeUnchanged DEF NetInv
<1>2. CacheSound'
  BY DEF NetInv, CacheSound, OpenFile
<1>3. CoherentOutsideDoubt'
  <2>1. \A k \in DOMAIN dcache' \ doubt' : NameHolds(k)' = DentrySays(dcache'[k])
    BY <1>1 DEF NetInv, CoherentOutsideDoubt
  <2> QED BY <2>1 DEF CoherentOutsideDoubt, DentrySays
<1>4. SuccessIsDone'
  <2>1. ASSUME SuccessIsDone PROVE SuccessIsDone'
    <3>1. Achieved => Achieved'
      BY AchievedKept
    <3> QED BY <2>1, <3>1 DEF SuccessIsDone
  <2> QED BY <2>1 DEF NetInv
<1>5. NameLearned'
  <2>1. PICK inode, k : inode = op.inode /\ k = op.k
    OBVIOUS
  <2>2. Says(op.inode)' <=> Says(op.inode)
    BY <1>1, <2>1 DEF Says, Sure
  <2> QED BY <2>2 DEF NetInv, NameLearned
<1>6. BytesWritten'
  <2>1. \A n : Stored(n)' <=> Stored(n)
    BY StoredKept
  <2>2. Stored(op.total)' <=> Stored(op.total)
    BY <2>1 DEF Stored
  <2> QED BY <2>2 DEF NetInv, BytesWritten
<1> QED BY <1>1, <1>2, <1>3, <1>4, <1>5, <1>6 DEF NetInv

LEMMA SuccessKept ==
  ASSUME NEW fields, Success(fields), UNCHANGED <<op, doubt>>, disturbed' <=> disturbed,
         UNCHANGED tree
  PROVE  Success(fields)'
<1>1. PICK k, inode, start : k = op.k /\ inode = op.inode /\ start = op.start
  OBVIOUS
<1>2. /\ \A c : NameHolds(c)' = NameHolds(c)
      /\ Server!Mounted' <=> Server!Mounted
  BY TreeUnchanged
<1>3. \A c : Says(c)' <=> Says(c)
  BY <1>1, <1>2 DEF Says, Sure
<1>4. Stored(op.total + fields.written)' <=> Stored(op.total + fields.written)
  BY StoredKept DEF Stored
<1>5. (Sure => NameHolds(op.k) = <<>>)' <=> (Sure => NameHolds(op.k) = <<>>)
  BY <1>2 DEF Sure
<1>6. NextChunk' = NextChunk
  BY DEF NextChunk
<1>7. Says(op.inode)' <=> Says(op.inode)
  BY <1>2 DEF Says, Sure
<1> QED BY <1>2, <1>3, <1>4, <1>5, <1>6, <1>7 DEF Success, Says, vtfs_get_inode

LEMMA AnsweredKeeps == NetInv /\ Answered => NetInv'
<1> SUFFICES ASSUME NetInv, Answered PROVE NetInv'
  OBVIOUS
<1>1. /\ call.st = "answered" /\ UNCHANGED <<op, sb, dcache, file, doubt, disturbed, late>>
      /\ UNCHANGED tree /\ op.st = "busy"
  BY CallNeedsHandler DEF Answered, Receive
<1>2. PICK result, fields : /\ result = parse_http_response(call.answer, call.size)
                            /\ fields = call.answer.fields
  OBVIOUS
<1>3. call' = [st |-> "done", result |-> result, fields |-> fields]
  BY <1>2 DEF Answered, Receive, Done
<1>4. result = 0 => Success(fields)
  BY <1>1, <1>2 DEF NetInv, CallSound
<1>5. result = 0 => Success(fields)'
  BY <1>1, <1>4, SuccessKept
<1>6. CallSound' /\ LateSound'
  <2>1. call'.st = "done" /\ call'.result = result /\ call'.fields = fields
    BY <1>3
  <2>2. result = 0 => Success(call.fields)'
    BY <1>5, <2>1 DEF Success, Says, vtfs_get_inode, Stored
  <2> QED BY <1>1, <2>1, <2>2 DEF CallSound, NetInv, LateSound
<1>7. HandlerSound'
  BY <1>1, <1>3, HandlerKept
<1> QED BY <1>1, <1>6, <1>7, Untouched

\* The write request under way asks for bytes of the user, within the bound.
LEMMA RequestFacts ==
  ASSUME NetInv, call.st = "sent"
  PROVE  /\ op.st = "busy" /\ Asked(call.req) /\ call.size \in BufferSize
         /\ call.req.method = "write" =>
              /\ op.h = "write" /\ op.at = "write"
              /\ call.req.ino = op.ino /\ call.req.offset = op.start + op.total
              /\ call.req.offset \in Nat /\ call.req.len \in Nat
              /\ call.req.len = Len(NextChunk) /\ NextChunk \in Seq(Bytes)
              /\ call.req.offset + call.req.len <= LOFF_MAX
              /\ call.req.data = base64_encode(NextChunk) /\ call.req.data \in Seq(Nat)
<1>1. op.st = "busy" /\ Asked(call.req) /\ call.size \in BufferSize
  BY CallNeedsHandler DEF NetInv, CallSound
<1>2. ASSUME call.req.method = "write"
      PROVE  op.at = "write" /\ op.h = "write"
  <2>1. op.at = "write"
    BY <1>1, <1>2 DEF Asked, CountCalls
  <2> QED BY <1>1, <2>1, WaitingFacts DEF Calls
<1>3. ASSUME call.req.method = "write"
      PROVE  /\ call.req.ino = op.ino /\ call.req.offset = op.start + op.total
             /\ call.req.len = Len(NextChunk) /\ call.req.data = base64_encode(NextChunk)
  BY <1>1, <1>2, <1>3 DEF Asked
<1>4. ASSUME call.req.method = "write"
      PROVE  /\ op.start \in Nat /\ op.total \in Nat /\ op.start + Len(op.buf) <= LOFF_MAX
             /\ NextChunk \in Seq(Bytes) /\ Len(NextChunk) \in 0..(Len(op.buf) - op.total)
             /\ Len(op.buf) \in Nat /\ LOFF_MAX \in Nat
  BY <1>1, <1>2, <1>4, WriteFacts, ChunkFacts
<1>5. call.req.method = "write" => base64_encode(NextChunk) \in Seq(Nat)
  BY <1>4, EncodedText
<1> QED BY <1>1, <1>2, <1>3, <1>4, <1>5

LEMMA BrokenKeeps == NetInv /\ Broken => NetInv'
<1> SUFFICES ASSUME NetInv, Broken PROVE NetInv'
  OBVIOUS
<1>1. UNCHANGED <<op, sb, dcache, file, doubt, disturbed>> /\ UNCHANGED tree
  BY DEF Broken
<1>2. op.st = "busy"
  BY CallNeedsHandler DEF Broken, GiveUp
<1>3. CallSound' /\ call'.st = "done"
  <2>1. PICK error \in RecvError : Done(error, NoFields)
    BY DEF Broken, GiveUp
  <2> QED BY <2>1, ErrorsAreErrors, FailedSound
<1>4. LateSound'
  <2>1. CASE UNCHANGED late
    BY <2>1 DEF NetInv, LateSound
  <2>2. CASE call.st = "sent" /\ late' = call.req
    BY <2>2, RequestFacts DEF LateSound
  <2> QED BY <2>1, <2>2 DEF Broken, GiveUp
<1>5. HandlerSound'
  BY <1>1, <1>2, <1>3, HandlerKept
<1> QED BY <1>1, <1>3, <1>4, <1>5, Untouched

\* The call under way stays what it was as long as its success still means
\* the same.
LEMMA CallKept ==
  ASSUME NetInv, UNCHANGED <<call, op>>,
         \A fields : op.st = "busy" /\ Success(fields) => Success(fields)'
  PROVE  CallSound'
<1>1. ASSUME call.st = "answered", parse_http_response(call.answer, call.size) = 0
      PROVE  Success(call.answer.fields)'
  <2>1. PICK fields : fields = call.answer.fields
    OBVIOUS
  <2>2. Success(fields)'
    BY <1>1, <2>1, CallNeedsHandler DEF NetInv, CallSound
  <2> QED BY <2>1, <2>2 DEF Success, Says, vtfs_get_inode, Stored
<1>2. ASSUME call.st = "done", call.result = 0
      PROVE  Success(call.fields)'
  <2>1. PICK fields : fields = call.fields
    OBVIOUS
  <2>2. Success(fields)'
    BY <1>2, <2>1, CallNeedsHandler DEF NetInv, CallSound
  <2> QED BY <2>1, <2>2 DEF Success, Says, vtfs_get_inode, Stored
<1>3. call.st = "sent" => Asked(call.req)' /\ call.size \in BufferSize
  BY DEF NetInv, CallSound, Asked, NextChunk
<1>4. parse_http_response(call.answer, call.size)' = parse_http_response(call.answer, call.size)
  BY DEF parse_http_response
<1> QED BY <1>1, <1>2, <1>3, <1>4 DEF CallSound

\* Names that change come into doubt.
LEMMA NamesMeddled ==
  ASSUME NetInv, UNCHANGED <<dcache, file, op>>, doubt' = doubt \cup Changed
  PROVE  CacheSound' /\ CoherentOutsideDoubt'
<1>1. ASSUME op # Idle, op.k # NO_KEY PROVE op.k \in Key
  BY <1>1 DEF NetInv, HandlerSound
<1>2. Changed \subseteq Key
  BY <1>1 DEF Changed, NetInv, CacheSound
<1>3. CacheSound'
  BY <1>2 DEF NetInv, CacheSound, OpenFile
<1>4. \A k \in DOMAIN dcache \ doubt' : NameHolds(k)' = NameHolds(k)
  BY DEF Changed
<1>5. \A k \in DOMAIN dcache' \ doubt' : NameHolds(k)' = DentrySays(dcache'[k])
  BY <1>4 DEF NetInv, CoherentOutsideDoubt
<1> QED BY <1>3, <1>5 DEF CoherentOutsideDoubt, DentrySays

\* Someone else changes the tree while the handler is at work.
LEMMA Meddled ==
  ASSUME NetInv, ServerSound', LateSound', UNCHANGED <<call, sb, dcache, file, op>>,
         doubt' = doubt \cup Changed, op # Idle => disturbed'
  PROVE  NetInv'
<1>1. CacheSound' /\ CoherentOutsideDoubt'
  BY NamesMeddled
<1>2. CASE op = Idle
  <2>1. op' = Idle /\ call' = IdleCall
    BY <1>2, IdleHasNoCall
  <2>2. HandlerSound' /\ CallSound' /\ NameLearned' /\ BytesWritten' /\ SuccessIsDone'
    BY <2>1
    DEF Idle, IdleCall, HandlerSound, CallSound, NameLearned, BytesWritten, SuccessIsDone
  <2> QED BY <1>1, <2>2 DEF NetInv
<1>3. CASE op # Idle
  <2>1. disturbed'
    BY <1>3
  <2>2. HandlerSound'
    BY DEF NetInv, HandlerSound, OpenFile, IsHandler
  <2>3. SuccessIsDone' /\ BytesWritten'
    BY <2>1 DEF SuccessIsDone, NetInv, BytesWritten
  <2>4. ASSUME op.st = "busy", op.h \in NameHandlers, Sure'
        PROVE  Sure /\ NameHolds(op.k)' = NameHolds(op.k)
    <3>1. op.k \notin doubt'
      BY <2>1, <2>4 DEF Sure
    <3>2. op.k # NO_KEY
      BY <2>4, WaitingFacts, KeyFacts
    <3>3. PICK k : k = op.k
      OBVIOUS
    <3>4. NameHolds(k)' = NameHolds(k)
      BY <1>3, <3>1, <3>2, <3>3 DEF Changed
    <3> QED BY <3>1, <3>3, <3>4 DEF Sure
  <2>5. ASSUME op.st = "busy", op.h \in NameHandlers, NEW inode, Says(inode)
        PROVE  Says(inode)'
    BY <2>4, <2>5 DEF Says
  <2>6. NameLearned'
    <3>1. op.st = "busy" /\ op.at \in CountCalls => op.h \in NameHandlers
      BY WaitingFacts DEF CountCalls, Calls, NameHandlers
    <3>2. PICK inode : inode = op.inode
      OBVIOUS
    <3>3. op.st = "busy" /\ op.at \in CountCalls => Says(op.inode)'
      BY <2>5, <3>1, <3>2 DEF NetInv, NameLearned, Says
    <3> QED BY <3>3 DEF NetInv, NameLearned
  <2>7. ASSUME op.st = "busy", NEW fields, Success(fields)
        PROVE  Success(fields)'
    <3>1. op.at \in NameCalls => op.h \in NameHandlers
      BY <2>7, WaitingFacts DEF NameCalls, Calls, NameHandlers
    <3>2. op.at \in {"lookup", "create_file", "mkdir"} => Says(vtfs_get_inode(fields))'
      BY <2>5, <2>7, <3>1 DEF Success, NameCalls
    <3>3. op.at = "link" => Says(op.inode)'
      <4>1. PICK inode : inode = op.inode
        OBVIOUS
      <4> QED BY <2>5, <2>7, <3>1, <4>1 DEF Success, NameCalls, Says
    <3>4. op.at \in {"unlink", "rmdir"} => (Sure => NameHolds(op.k) = <<>>)'
      BY <2>4, <2>7, <3>1 DEF Success, NameCalls
    <3>5. NextChunk' = NextChunk
      BY DEF NextChunk
    <3> QED BY <2>1, <2>7, <3>2, <3>3, <3>4, <3>5 DEF Success
  <2>8. CallSound'
    BY <2>7, CallKept
  <2> QED BY <1>1, <2>2, <2>3, <2>6, <2>8 DEF NetInv
<1> QED BY <1>2, <1>3

LEMMA RemoteKeeps == NetInv /\ Remote => NetInv'
<1> SUFFICES ASSUME NetInv, Remote PROVE NetInv'
  OBVIOUS
<1>1. ServerSound /\ LOFF_MAX \in Nat
  BY NetVtfsAssumption DEF NetInv
<1>2. ServerSound'
  BY <1>1, AddKeeps, RemoveKeeps, LinkKeeps DEF Remote
<1>3. LateSound' /\ UNCHANGED <<call, sb, dcache, file, op>> /\ doubt' = doubt \cup Changed
  BY DEF NetInv, LateSound, Remote
<1>4. op # Idle => disturbed'
  BY Zenon DEF Remote
<1> QED BY <1>2, <1>3, <1>4, Meddled

LEMMA ServeLateKeeps == NetInv /\ NetServeLate => NetInv'
<1> SUFFICES ASSUME NetInv, NetServeLate PROVE NetInv'
  OBVIOUS
<1>1. /\ late # NONE /\ late' = NONE /\ UNCHANGED <<call, sb, dcache, file, op>>
      /\ doubt' = doubt \cup Changed
  BY DEF NetServeLate, ServeLate
<1>2. LateSound'
  BY <1>1 DEF LateSound
<1>3. ServerSound'
  <2>1. CASE UNCHANGED tree
    BY <2>1, TreeUnchanged DEF NetInv
  <2>2. ASSUME NEW n \in Amounts(late), Performs(late, n) PROVE ServerSound'
    <3>1. ServerSound /\ LOFF_MAX \in Nat
      BY NetVtfsAssumption DEF NetInv
    <3>2. late.method = "write" => /\ late.offset \in Nat /\ late.len \in Nat
                                   /\ late.offset + late.len <= LOFF_MAX
                                   /\ late.data \in Seq(Nat)
      BY <1>1 DEF NetInv, LateSound
    <3>3. PICK req : req = late
      OBVIOUS
    <3> QED BY <2>2, <3>1, <3>2, <3>3, PerformKeeps
  <2> QED BY <2>1, <2>2 DEF NetServeLate, ServeLate
<1>4. CASE op # Idle /\ UNCHANGED tree
  <2>1. Changed = {}
    BY <1>4, TreeUnchanged DEF Changed
  <2>2. doubt' = doubt
    BY <1>1, <2>1
  <2>3. disturbed' <=> disturbed
    BY <1>4, Zenon DEF NetServeLate
  <2>4. CallSound' /\ HandlerSound'
    <3>1. HandlerSound'
      BY <1>1 DEF NetInv, HandlerSound, OpenFile, IsHandler
    <3>2. \A fields : Success(fields) => Success(fields)'
      BY <1>1, <1>4, <2>2, <2>3, SuccessKept
    <3> QED BY <1>1, <3>1, <3>2, CallKept
  <2> QED BY <1>1, <1>2, <1>4, <2>2, <2>3, <2>4, Untouched
<1>5. CASE op = Idle \/ tree' # tree
  <2>1. op # Idle => disturbed'
    BY <1>5, Zenon DEF NetServeLate
  <2> QED BY <1>1, <1>2, <1>3, <2>1, Meddled
<1> QED BY <1>4, <1>5

-----------------------------------------------------------------------------
(* The server performs the handler's request. *)

\* Bytes that a write appends to those already counted.
LEMMA StoredMore ==
  ASSUME NetInv, op.st = "busy", op.h = "write", NEW n \in 1..Len(NextChunk),
         Server!Write(op.ino, op.start + op.total,
                      base64_decode(base64_encode(NextChunk), n)),
         UNCHANGED op, Stored(op.total)
  PROVE  Stored(op.total + n)' /\ Stored(op.total)'
<1>1. PICK ino, start, total, buf : /\ ino = op.ino /\ start = op.start
                                    /\ total = op.total /\ buf = op.buf
  OBVIOUS
<1>2. /\ start \in Nat /\ total \in Nat /\ Len(buf) \in Nat /\ NextChunk \in Seq(Bytes)
      /\ Len(NextChunk) \in 0..(Len(buf) - total)
      /\ \A b \in 1..Len(NextChunk) : NextChunk[b] = buf[total + b]
  BY <1>1, WriteFacts, ChunkFacts
<1>3. n \in Nat /\ n >= 1 /\ total + n <= Len(buf) /\ n \in 0..Len(NextChunk)
  BY <1>2
<1>4. PICK bytes : bytes = base64_decode(base64_encode(NextChunk), n)
  OBVIOUS
<1>5. Len(bytes) = n /\ \A b \in 1..n : bytes[b] = buf[total + b]
  <2>1. base64_encode(NextChunk) \in Seq(Nat)
    BY <1>2, EncodedText
  <2>2. Len(bytes) = n
    BY <1>3, <1>4, <2>1, DecodedText
  <2>3. \A b \in 1..n : bytes[b] = NextChunk[b]
    BY <1>2, <1>3, <1>4, DecodedPrefix
  <2>4. \A b \in 1..n : b \in 1..Len(NextChunk)
    BY <1>2, <1>3
  <2> QED BY <1>2, <2>2, <2>3, <2>4
<1>6. PICK old : old = content[ino]
  OBVIOUS
<1>7. ino \in DOMAIN content /\ old \in Seq(Nat) /\ Len(old) \in Nat /\ Server!IsFile(ino)
  BY <1>1, <1>6 DEF NetInv, ServerSound, Server!Write, Server!IsFile
<1>8. PICK off : off = start + total /\ off \in Nat
  BY <1>2
<1>9. PICK m : m = IF off + n > Len(old) THEN off + n ELSE Len(old)
  OBVIOUS
<1>10. PICK new : new = [k \in 1..m |->
                           CASE k > off /\ k <= off + n -> bytes[k - off]
                             [] k <= Len(old) /\ ~(k > off /\ k <= off + n) -> old[k]
                             [] OTHER -> 0]
  OBVIOUS
<1>11. content' = [content EXCEPT ![ino] = new] /\ kind' = kind
  BY <1>1, <1>4, <1>5, <1>6, <1>8, <1>9, <1>10 DEF Server!Write
<1>12. content'[ino] = new /\ Server!IsFile(ino)'
  BY <1>7, <1>11 DEF Server!IsFile
<1>13. m \in Nat /\ off + n <= m /\ Len(new) = m
  <2>1. m \in Nat /\ off + n <= m
    BY <1>3, <1>7, <1>8, <1>9
  <2> QED BY <1>10, <2>1
<1>14. ASSUME NEW b \in 1..(total + n)
       PROVE  b <= Len(buf) /\ start + b <= m /\ new[start + b] = buf[b]
  <2>1. b <= Len(buf) /\ start + b <= m /\ start + b \in 1..m /\ b \in Nat /\ b >= 1
    BY <1>2, <1>3, <1>8, <1>13
  <2>2. CASE b > total
    <3>1. start + b > off /\ start + b <= off + n /\ start + b - off \in 1..n
          /\ total + (start + b - off) = b
      BY <1>2, <1>3, <1>8, <2>1, <2>2
    <3>2. PICK k \in 1..m : k = start + b
      BY <2>1
    <3>3. k > off /\ k <= off + n
      BY <3>1, <3>2
    <3>4. new[k] = bytes[k - off]
      BY ONLY <1>10, <3>3
    <3>5. PICK j \in 1..n : j = k - off /\ total + j = b
      <4>1. k - off = start + b - off
        BY <1>2, <1>8, <1>13, <2>1, <3>2
      <4>2. k - off \in 1..n /\ total + (k - off) = b
        BY ONLY <3>1, <4>1
      <4> QED BY ONLY <4>2
    <3>6. bytes[j] = buf[b]
      <4>1. bytes[j] = buf[total + j]
        BY ONLY <1>5
      <4> QED BY ONLY <3>5, <4>1
    <3>7. new[start + b] = buf[b]
      BY ONLY <3>2, <3>4, <3>5, <3>6
    <3> QED BY <2>1, <3>7
  <2>3. CASE b <= total
    <3>1. b \in 1..total
      BY <1>2, <2>1, <2>3
    <3>2. start + b <= Len(old) /\ old[start + b] = buf[b]
      BY <1>1, <1>6, <3>1 DEF Stored
    <3>3. ~(start + b > off)
      BY <1>2, <1>8, <2>1, <2>3
    <3> QED BY <1>10, <2>1, <3>2, <3>3
  <2> QED BY <1>2, <2>1, <2>2, <2>3
<1>15. \A b \in 1..(total + n) :
         /\ Server!IsFile(ino)' /\ b <= Len(buf)
         /\ start + b <= Len(content'[ino]) /\ content'[ino][start + b] = buf[b]
  BY <1>12, <1>13, <1>14
<1>16. \A b \in 1..total : b \in 1..(total + n)
  BY <1>2, <1>3
<1> QED BY <1>1, <1>15, <1>16 DEF Stored, Server!IsFile

\* What the server holds under the handler's name when it has done as asked.
LEMMA ServedNames ==
  ASSUME NetInv, call.st = "sent", NEW n \in Amounts(call.req), Performs(call.req, n),
         UNCHANGED op
  PROVE  LET k == op.k IN
    /\ op.at = "lookup" =>
         /\ HasEntry(k) /\ entry'[k] \in Ino
         /\ NameHolds(k)' = <<entry'[k], kind'[entry'[k]]>>
    /\ op.at \in {"create_file", "mkdir"} =>
         /\ entry'[k] \in Ino /\ NameHolds(k)' = <<entry'[k], kind'[entry'[k]]>>
         /\ kind'[entry'[k]] = IF op.at = "mkdir" THEN "DIR" ELSE "FILE"
    /\ op.at = "link" => NameHolds(k)' = <<op.inode.i_ino, op.inode.type>>
    /\ op.at \in {"unlink", "rmdir"} => NameHolds(k)' = <<>>
    /\ op.at \in NameCalls => <<call.req.parent, call.req.name>> = k
<1>1. PICK req, k : req = call.req /\ k = op.k
  OBVIOUS
<1>2. op.st = "busy" /\ Asked(req)
  BY <1>1, RequestFacts
<1>3. op.at \in NameCalls => k \in Key /\ req.parent = k[1] /\ req.name = k[2]
  BY <1>1, <1>2, WaitingFacts DEF NameCalls, Calls, NameHandlers, Asked
<1>4. op.at \in NameCalls => req.method = op.at /\ <<req.parent, req.name>> = k
  BY <1>2, <1>3, KeyFacts DEF Asked, NameCalls, CountCalls
<1>5. ASSUME op.at = "lookup"
      PROVE  /\ HasEntry(k) /\ entry'[k] \in Ino
             /\ NameHolds(k)' = <<entry'[k], kind'[entry'[k]]>>
  <2>1. HasEntry(k) /\ UNCHANGED tree
    BY <1>1, <1>4, <1>5 DEF Performs, NameCalls
  <2> QED BY <2>1 DEF NetInv, ServerSound, HasEntry, NameHolds, EntryType, tree
<1>6. ASSUME op.at \in {"create_file", "mkdir"}
      PROVE  /\ entry'[k] \in Ino /\ NameHolds(k)' = <<entry'[k], kind'[entry'[k]]>>
             /\ kind'[entry'[k]] = IF op.at = "mkdir" THEN "DIR" ELSE "FILE"
  <2>1. PICK type : type = IF op.at = "mkdir" THEN "DIR" ELSE "FILE"
    OBVIOUS
  <2>2. Server!Add(req.parent, req.name, type)
    BY <1>1, <1>4, <1>6, <2>1 DEF Performs, NameCalls
  <2>3. PICK i \in Ino : entry' = Server!With(entry, k, i) /\ kind' = Server!With(kind, i, type)
    BY <1>4, <1>6, <2>2 DEF Server!Add, NameCalls
  <2>4. k \in DOMAIN entry' /\ entry'[k] = i /\ kind'[i] = type
    BY <2>3 DEF Server!With
  <2> QED BY <2>1, <2>4 DEF NameHolds, HasEntry, EntryType
<1>7. ASSUME op.at = "link"
      PROVE  NameHolds(k)' = <<op.inode.i_ino, op.inode.type>>
  <2>1. req.target_ino = op.inode.i_ino /\ op.inode.type = "FILE"
    <3>1. op.h = "link"
      BY <1>2, <1>7, WaitingFacts DEF Calls
    <3> QED BY <1>2, <1>7, <3>1, WaitingFacts DEF Asked
  <2>2. Server!Link(req.target_ino, req.parent, req.name)
    BY <1>1, <1>4, <1>7 DEF Performs, NameCalls
  <2>3. /\ entry' = Server!With(entry, k, op.inode.i_ino) /\ kind' = kind
        /\ kind[op.inode.i_ino] = "FILE"
    BY <1>4, <1>7, <2>1, <2>2 DEF Server!Link, Server!IsFile, NameCalls
  <2>4. k \in DOMAIN entry' /\ entry'[k] = op.inode.i_ino
    BY <2>3 DEF Server!With
  <2> QED BY <2>1, <2>3, <2>4 DEF NameHolds, HasEntry, EntryType
<1>8. ASSUME op.at \in {"unlink", "rmdir"}
      PROVE  NameHolds(k)' = <<>>
  <2>1. Server!Remove(req.parent, req.name)
    BY <1>1, <1>4, <1>8 DEF Performs, NameCalls
  <2>2. entry' = Server!Without(entry, {k})
    BY <1>4, <1>8, <2>1 DEF Server!Remove, NameCalls
  <2>3. k \notin DOMAIN entry'
    BY <2>2 DEF Server!Without
  <2> QED BY <2>3 DEF NameHolds, HasEntry
<1>9. \A c : c = k => NameHolds(c)' = NameHolds(op.k)'
  BY <1>1 DEF NameHolds, HasEntry, EntryType
<1> QED BY <1>1, <1>4, <1>5, <1>6, <1>7, <1>8, <1>9

\* An answer to a request that was performed tells the truth.
LEMMA ServedSuccess ==
  ASSUME NetInv, call.st = "sent", NEW n \in Amounts(call.req), Performs(call.req, n),
         UNCHANGED <<op, disturbed>>, NEW fields, fields = FieldsOf(call.req, n)
  PROVE  Success(fields)'
<1>1. PICK req, k : req = call.req /\ k = op.k
  OBVIOUS
<1>2. op.st = "busy" /\ Asked(req)
  BY <1>1, RequestFacts
<1>3. req.method = IF op.at \in CountCalls THEN "count_links" ELSE op.at
  BY <1>2 DEF Asked
<1>4. /\ \A ino : parse_node_meta(ino).ino = ino /\ parse_node_meta(ino).type = kind'[ino]
  BY DEF parse_node_meta, NoFields
<1>5. ASSUME op.at \in {"lookup", "create_file", "mkdir"}
      PROVE  /\ fields.ino \in Ino /\ Says(vtfs_get_inode(fields))'
             /\ op.at = "create_file" => fields.type = "FILE"
             /\ op.at = "mkdir" => fields.type = "DIR"
  <2>1. fields = parse_node_meta(entry'[<<req.parent, req.name>>])
    BY <1>1, <1>3, <1>5 DEF FieldsOf, CountCalls
  <2>2. /\ <<req.parent, req.name>> = k /\ entry'[k] \in Ino
        /\ NameHolds(op.k)' = <<entry'[k], kind'[entry'[k]]>>
        /\ op.at = "create_file" => kind'[entry'[k]] = "FILE"
        /\ op.at = "mkdir" => kind'[entry'[k]] = "DIR"
    <3>1. NameHolds(op.k)' = NameHolds(k)'
      BY <1>1 DEF NameHolds, HasEntry, EntryType
    <3> QED BY <1>1, <1>5, <3>1, ServedNames DEF NameCalls
  <2>3. fields.ino = entry'[k] /\ fields.type = kind'[entry'[k]]
    BY <1>4, <2>1, <2>2
  <2> QED BY <2>2, <2>3 DEF Says, vtfs_get_inode
<1>6. op.at = "link" => Says(op.inode)'
  <2>1. op.at = "link" => NameHolds(op.k)' = <<op.inode.i_ino, op.inode.type>>
    BY ServedNames DEF NameHolds, HasEntry, EntryType
  <2> QED BY <2>1 DEF Says
<1>7. op.at \in {"unlink", "rmdir"} => NameHolds(op.k)' = <<>>
  BY ServedNames DEF NameHolds, HasEntry, EntryType
<1>8. ASSUME op.at = "get_root"
      PROVE  fields.ino = VTFS_ROOT_INO /\ Server!Mounted'
  <2>1. fields = parse_node_meta(VTFS_ROOT_INO) /\ Server!Mounted /\ UNCHANGED tree
    BY <1>1, <1>3, <1>8 DEF FieldsOf, Performs, CountCalls
  <2> QED BY <1>4, <2>1, TreeUnchanged
<1>9. ASSUME op.at = "read"
      PROVE  /\ fields.bytes \in Seq(Nat)
             /\ Len(fields.bytes) = 0 \/ op.start + Len(fields.bytes) <= LOFF_MAX
  <2>1. req.method = "read" /\ req.offset = op.start /\ req.len = op.total
    BY <1>2, <1>3, <1>9 DEF Asked, CountCalls
  <2>2. op.h \in FileHandlers
    BY <1>2, <1>9, WaitingFacts DEF Calls, FileHandlers
  <2>3. PICK start, len : /\ start = op.start /\ len = op.total
                          /\ start \in Nat /\ len \in Nat
    BY <1>2, <2>2, WaitingFacts
  <2>4. Server!IsFile(req.ino)
    BY <1>1, <2>1 DEF Performs
  <2>5. PICK bytes \in Seq(Nat) : bytes = content[req.ino] /\ Len(bytes) <= LOFF_MAX
    BY <2>4 DEF NetInv, ServerSound, Server!IsFile
  <2>6. PICK last : last = Min2(start + len, Len(bytes))
    OBVIOUS
  <2>7. fields.bytes = SubSeq(bytes, start + 1, last)
    BY <1>1, <2>1, <2>3, <2>5, <2>6 DEF FieldsOf, NoFields
  <2>8. CASE start <= Len(bytes)
    <3>1. start \in 0..Len(bytes) /\ last \in start..Len(bytes)
      BY <2>3, <2>6, <2>8 DEF Min2
    <3>2. fields.bytes \in Seq(Nat) /\ Len(fields.bytes) = last - start
      BY <2>7, <3>1, PartOf
    <3>3. start + (last - start) <= LOFF_MAX
      BY <2>5, <3>1, NetVtfsAssumption
    <3> QED BY <2>3, <3>2, <3>3
  <2>9. CASE start > Len(bytes)
    <3>1. last \in Int /\ start + 1 \in Int /\ last < start + 1
      BY <2>3, <2>5, <2>6, <2>9 DEF Min2
    <3>2. fields.bytes = <<>>
      BY <2>7, <3>1, SubSeqEmpty
    <3> QED BY <3>2
  <2> QED BY <2>3, <2>5, <2>8, <2>9
<1>10. ASSUME op.at = "write"
       PROVE  /\ fields.written \in 0..Len(NextChunk)
              /\ ~disturbed => Stored(op.total + fields.written)'
  <2>1. /\ op.h = "write" /\ req.ino = op.ino /\ req.offset = op.start + op.total
        /\ req.len = Len(NextChunk) /\ req.data = base64_encode(NextChunk)
        /\ NextChunk \in Seq(Bytes) /\ req.method = "write"
    BY <1>1, <1>3, <1>10, RequestFacts DEF CountCalls
  <2>2. n \in 0..Len(NextChunk) /\ fields.written = n
    BY <1>1, <2>1 DEF Amounts, FieldsOf, NoFields
  <2>3. ASSUME ~disturbed, n = 0
        PROVE  Stored(op.total + n)'
    <3>1. UNCHANGED tree
      BY <1>1, <2>1, <2>3 DEF Performs
    <3>2. Stored(op.total) /\ op.total + n = op.total
      BY <1>2, <2>1, <2>3, WriteFacts
    <3>3. \A c : Stored(c)' <=> Stored(c)
      BY <3>1, StoredKept
    <3>4. PICK c : c = op.total
      OBVIOUS
    <3>5. Stored(c)'
      BY <3>2, <3>3, <3>4
    <3> QED BY <3>2, <3>4, <3>5 DEF Stored
  <2>4. ASSUME ~disturbed, n # 0
        PROVE  Stored(op.total + n)'
    <3>1. Server!Write(op.ino, op.start + op.total,
                       base64_decode(base64_encode(NextChunk), n))
      BY <1>1, <2>1, <2>4 DEF Performs
    <3>2. n \in 1..Len(NextChunk) /\ Stored(op.total)
      BY <1>2, <2>1, <2>2, <2>4, WriteFacts
    <3> QED BY <1>2, <2>1, <3>1, <3>2, StoredMore
  <2>5. ~disturbed => Stored(op.total + n)'
    BY <2>3, <2>4
  <2> QED BY <2>2, <2>5 DEF Stored
<1>11. NextChunk' = NextChunk
  BY DEF NextChunk
<1> QED BY <1>5, <1>6, <1>7, <1>8, <1>9, <1>10, <1>11 DEF Success

\* What a handler has counted, its own requests leave in place.
LEMMA ServedBytes ==
  ASSUME NetInv, call.st = "sent", NEW n \in Amounts(call.req), Performs(call.req, n),
         UNCHANGED <<op, file, disturbed>>
  PROVE  BytesWritten'
<1>1. op.st = "busy" /\ Asked(call.req)
  BY RequestFacts
<1>2. ASSUME op.h = "write", ~disturbed
      PROVE  Stored(op.total)'
  <2>1. Stored(op.total)
    BY <1>1, <1>2, WriteFacts
  <2>2. CASE UNCHANGED tree
    <3>1. \A c : Stored(c)' <=> Stored(c)
      BY <2>2, StoredKept
    <3>2. PICK c : c = op.total
      OBVIOUS
    <3> QED BY <2>1, <3>1, <3>2 DEF Stored
  <2>3. CASE op.at = "write" /\ n # 0
    <3>1. /\ call.req.method = "write" /\ call.req.ino = op.ino
          /\ call.req.offset = op.start + op.total /\ call.req.len = Len(NextChunk)
          /\ call.req.data = base64_encode(NextChunk) /\ NextChunk \in Seq(Bytes)
      BY <1>1, <2>3, RequestFacts DEF Asked, CountCalls
    <3>2. Server!Write(op.ino, op.start + op.total,
                       base64_decode(base64_encode(NextChunk), n))
      BY <2>3, <3>1 DEF Performs
    <3>3. n \in 1..Len(NextChunk)
      BY <2>3, <3>1 DEF Amounts
    <3> QED BY <1>1, <1>2, <2>1, <3>2, <3>3, StoredMore
  <2>4. op.at \in {"chunk", "write"}
    BY <1>1, <1>2, WaitingFacts DEF Calls
  <2>5. op.at = "chunk" \/ n = 0 => UNCHANGED tree
    <3>1. call.req.method = op.at
      BY <1>1, <2>4 DEF Asked, CountCalls
    <3> QED BY <2>4, <3>1 DEF Performs
  <2> QED BY <2>2, <2>3, <2>4, <2>5
<1> QED BY <1>2 DEF NetInv, BytesWritten

LEMMA NetServeKeeps == NetInv /\ NetServe => NetInv'
<1> SUFFICES ASSUME NetInv, NetServe PROVE NetInv'
  OBVIOUS
<1>1. /\ call.st = "sent" /\ UNCHANGED <<late, sb, dcache, file, op, disturbed>>
      /\ doubt' = doubt \cup Changed
  BY DEF NetServe, Serve
<1>2. op.st = "busy" /\ Asked(call.req) /\ call.size \in BufferSize
  BY <1>1, RequestFacts
<1>3. CacheSound' /\ CoherentOutsideDoubt'
  BY <1>1, NamesMeddled
<1>4. LateSound' /\ SuccessIsDone'
  BY <1>1, <1>2 DEF NetInv, LateSound, SuccessIsDone
<1>5. HandlerSound'
  <2>1. call'.st = "answered"
    BY DEF NetServe, Serve, Answer
  <2> QED BY <1>1, <1>2, <2>1, HandlerKept
<1>6. ASSUME UNCHANGED tree
      PROVE  ServerSound' /\ NameLearned' /\ BytesWritten'
  <2>1. /\ ServerSound' /\ \A k : NameHolds(k)' = NameHolds(k)
    BY <1>6, TreeUnchanged DEF NetInv
  <2>2. doubt' = doubt
    BY <1>1, <2>1 DEF Changed
  <2>3. Says(op.inode)' <=> Says(op.inode)
    <3>1. PICK k, inode : k = op.k /\ inode = op.inode
      OBVIOUS
    <3> QED BY <1>1, <2>1, <2>2, <3>1 DEF Says, Sure
  <2>4. Stored(op.total)' <=> Stored(op.total)
    <3>1. \A c : Stored(c)' <=> Stored(c)
      BY <1>1, <1>6, StoredKept
    <3> QED BY <1>1, <3>1 DEF Stored
  <2> QED BY <1>1, <2>1, <2>3, <2>4 DEF NetInv, NameLearned, BytesWritten
<1>7. ASSUME NEW n \in Amounts(call.req), Performs(call.req, n)
      PROVE  ServerSound' /\ NameLearned' /\ BytesWritten'
  <2>1. ServerSound'
    <3>1. ServerSound /\ LOFF_MAX \in Nat
      BY NetVtfsAssumption DEF NetInv
    <3>2. PICK req : req = call.req
      OBVIOUS
    <3>3. req.method = "write" => /\ req.offset \in Nat /\ req.len \in Nat
                                  /\ req.offset + req.len <= LOFF_MAX
                                  /\ req.data \in Seq(Nat)
      BY <1>1, <3>2, RequestFacts
    <3> QED BY <1>7, <3>1, <3>2, <3>3, PerformKeeps
  <2>2. BytesWritten'
    BY <1>1, <1>7, ServedBytes
  <2>3. NameLearned'
    <3>1. CASE op.at \in CountCalls
      <4>1. call.req.method = "count_links"
        BY <1>2, <3>1 DEF Asked
      <4>2. UNCHANGED tree
        BY <1>7, <4>1 DEF Performs
      <4> QED BY <1>6, <4>2
    <3>2. CASE op.at \notin CountCalls
      BY <1>1, <3>2 DEF NameLearned, CountCalls
    <3> QED BY <3>1, <3>2
  <2> QED BY <2>1, <2>2, <2>3
<1>8. ServerSound' /\ NameLearned' /\ BytesWritten'
  BY <1>6, <1>7 DEF NetServe, Serve
<1>9. CallSound'
  <2>1. ASSUME NEW answer, Answer(answer),
               parse_http_response(answer, call.size) = 0 => Success(answer.fields)'
        PROVE  CallSound'
    <3>1. call'.st = "answered" /\ call'.answer = answer /\ call'.size = call.size
      BY <2>1 DEF Answer
    <3>2. PICK fields, size : fields = answer.fields /\ size = call.size
      OBVIOUS
    <3>3. parse_http_response(call.answer, call.size)' = parse_http_response(answer, size)
      BY <3>1, <3>2 DEF parse_http_response
    <3>4. Success(answer.fields)' => Success(call.answer.fields)'
      BY <3>1 DEF Success, Says, vtfs_get_inode, Stored
    <3> QED BY <2>1, <3>1, <3>2, <3>3, <3>4 DEF CallSound
  <2>2. ASSUME NEW answer \in Garbled, Answer(answer)
        PROVE  CallSound'
    BY <1>2, <2>1, <2>2, GarbledIsError
  <2>3. ASSUME NEW code \in Refusals(call.req), Answer(Whole(code, NoFields))
        PROVE  CallSound'
    <3>1. code # 0
      BY RefusalAssumption DEF Refusals, EEXIST
    <3>2. PICK answer : answer = Whole(code, NoFields)
      OBVIOUS
    <3>3. parse_http_response(answer, call.size) # 0
      BY <3>1, <3>2, RefusedIsError
    <3> QED BY <2>1, <2>3, <3>2, <3>3
  <2>4. ASSUME NEW n \in Amounts(call.req), Performs(call.req, n),
               Answer(Whole(0, FieldsOf(call.req, n)))
        PROVE  CallSound'
    <3>1. PICK fields : fields = FieldsOf(call.req, n)
      OBVIOUS
    <3>2. Success(fields)'
      BY <1>1, <2>4, <3>1, ServedSuccess
    <3>3. PICK answer : answer = Whole(0, fields)
      OBVIOUS
    <3>4. answer.fields = fields
      BY <3>3 DEF Whole
    <3>5. Success(answer.fields)'
      BY <3>2, <3>4
    <3> QED BY <2>1, <2>4, <3>1, <3>3, <3>5
  <2> QED BY <2>2, <2>3, <2>4 DEF NetServe, Serve
<1> QED BY <1>3, <1>4, <1>5, <1>8, <1>9 DEF NetInv

-----------------------------------------------------------------------------
(* The invariant. *)

LEMMA NetInvInit == NetInit => NetInv
<1> SUFFICES ASSUME NetInit PROVE NetInv
  OBVIOUS
<1>1. ServerSound
  BY DEF NetInit, ServerSound, Server!Init, Server!Unmounted, Server!Empty
<1>2. LateSound /\ CacheSound /\ CoherentOutsideDoubt
  BY DEF NetInit, LateSound, CacheSound, CoherentOutsideDoubt, Empty
<1>3. HandlerSound /\ CallSound /\ NameLearned /\ BytesWritten /\ SuccessIsDone
  BY DEF NetInit, Idle, IdleCall, HandlerSound, CallSound, NameLearned, BytesWritten,
         SuccessIsDone
<1> QED BY <1>1, <1>2, <1>3 DEF NetInv

\* Every step of a handler, the server, the network or another client, whatever
\* of it fails, keeps the invariant.
LEMMA NetInvStep == NetInv /\ [NetNext]_net_vars => NetInv'
<1> SUFFICES ASSUME NetInv, [NetNext]_net_vars PROVE NetInv'
  OBVIOUS
<1>1. CASE Continue
  <2>1. CASE vtfs_fill_super
    BY <2>1, FillSuperKeeps
  <2>2. CASE Looked
    BY <2>2, LookedKeeps
  <2>3. CASE Created
    BY <2>3, CreatedKeeps
  <2>4. CASE Linked
    BY <2>4, LinkedKeeps
  <2>5. CASE LinksCounted
    BY <2>5, LinksCountedKeeps
  <2>6. CASE Removed
    BY <2>6, RemovedKeeps
  <2>7. CASE Iterated
    BY <2>7, IteratedKeeps
  <2>8. CASE ReadDone
    BY <2>8, ReadDoneKeeps
  <2>9. CASE WriteChunk
    BY <2>9, WriteChunkKeeps
  <2>10. CASE WriteOn
    BY <2>10, WriteOnKeeps
  <2>11. CASE WriteFailed
    BY <2>11, WriteFailedKeeps
  <2>12. CASE Answered
    BY <2>12, AnsweredKeeps
  <2> QED BY <1>1, <2>1, <2>2, <2>3, <2>4, <2>5, <2>6, <2>7, <2>8, <2>9, <2>10, <2>11, <2>12
      DEF Continue
<1>2. CASE NetServe
  BY <1>2, NetServeKeeps
<1>3. CASE Broken
  BY <1>3, BrokenKeeps
<1>4. CASE NetServeLate
  BY <1>4, ServeLateKeeps
<1>5. CASE Remote
  BY <1>5, RemoteKeeps
<1>6. CASE Leave
  BY <1>6, LeaveKeeps
<1>7. CASE \E data \in Data : vtfs_mount(data)
  BY <1>7, MountKeepsInv
<1>8. CASE vtfs_kill_sb
  BY <1>8, KillKeeps
<1>9. ASSUME NEW k \in Key,
             \/ vtfs_lookup(k) \/ vtfs_create(k) \/ vtfs_mkdir(k) \/ vtfs_unlink(k)
             \/ vtfs_rmdir(k) \/ shrink(k) \/ vtfs_open(k)
             \/ \E old \in DOMAIN dcache : vtfs_link(old, k)
      PROVE  NetInv'
  <2>1. CASE vtfs_lookup(k)
    BY <2>1, LookupKeeps
  <2>2. CASE vtfs_create(k) \/ vtfs_mkdir(k) \/ \E old \in DOMAIN dcache : vtfs_link(old, k)
    BY <2>2, NewKeeps
  <2>3. CASE vtfs_unlink(k) \/ vtfs_rmdir(k)
    BY <2>3, BeginRemoveKeeps
  <2>4. CASE shrink(k)
    BY <2>4, ShrinkKeeps
  <2>5. CASE vtfs_open(k)
    BY <2>5, OpenKeeps
  <2> QED BY <1>9, <2>1, <2>2, <2>3, <2>4, <2>5
<1>10. CASE \E d \in Ino \cup {VTFS_ROOT_INO}, offset \in ListOffset : vtfs_iterate(d, offset)
  BY <1>10, IterateKeeps
<1>11. CASE close
  BY <1>11, CloseKeeps
<1>12. CASE \E len \in ReadLen : vtfs_read(len)
  BY <1>12, ReadKeeps
<1>13. CASE \E len \in WriteLen : vtfs_write(len)
  BY <1>13, WriteBeginKeeps
<1>14. CASE UNCHANGED net_vars
  <2>1. /\ UNCHANGED <<op, sb, dcache, file, doubt, disturbed, call, late>>
        /\ UNCHANGED tree
    BY <1>14 DEF net_vars, tree
  <2>2. HandlerSound' /\ LateSound'
    BY <2>1 DEF NetInv, HandlerSound, OpenFile, IsHandler, LateSound
  <2>3. CallSound'
    BY <2>1, SuccessKept, CallKept
  <2> QED BY <2>1, <2>2, <2>3, Untouched
<1> QED BY <1>1, <1>2, <1>3, <1>4, <1>5, <1>6, <1>7, <1>8, <1>9, <1>10, <1>11, <1>12, <1>13,
           <1>14 DEF NetNext

-----------------------------------------------------------------------------
(* The position of the open file. *)

\* What the server does gives out numbers and makes files longer or removes
\* them: of a number given out before, no place comes to lie past the end.
Grows ==
  /\ used \subseteq used' /\ DOMAIN content' \subseteq used'
  /\ \A k \in DOMAIN entry' : entry'[k] \in used'
  /\ \A i \in used, pos \in Nat : Within(i, pos) => Within(i, pos)'

LEMMA SameGrows == ASSUME UNCHANGED tree, NumbersUsed PROVE Grows
BY DEF tree, NumbersUsed, Grows, Within

LEMMA MountGrows == ASSUME NumbersUsed, Server!Mount PROVE Grows
BY DEF Server!Mount, NumbersUsed, Grows, Within

LEMMA AddGrows ==
  ASSUME NumbersUsed, NEW d, NEW name, NEW type, Server!Add(d, name, type)
  PROVE  Grows
<1>1. PICK i \in Ino \ used :
        /\ entry' = Server!With(entry, <<d, name>>, i)
        /\ content' = IF type = "FILE" THEN Server!With(content, i, <<>>) ELSE content
        /\ used' = used \cup {i}
  BY Zenon DEF Server!Add
<1>2. \A k \in DOMAIN entry' : entry'[k] \in used'
  BY <1>1 DEF NumbersUsed, Server!With
<1>3. ASSUME NEW j \in used, NEW pos \in Nat, Within(j, pos)
      PROVE  Within(j, pos)'
  <2>1. j # i
    BY <1>1
  <2>2. CASE type = "FILE"
    BY <1>1, <1>3, <2>1, <2>2 DEF Within, Server!With
  <2>3. CASE type # "FILE"
    BY <1>1, <1>3, <2>3 DEF Within
  <2> QED BY <2>2, <2>3
<1>4. DOMAIN content' \subseteq used'
  BY <1>1 DEF NumbersUsed, Server!With
<1> QED BY <1>1, <1>2, <1>3, <1>4 DEF Grows

LEMMA LinkGrows ==
  ASSUME NumbersUsed, ServerSound, NEW i, NEW d, NEW name, Server!Link(i, d, name)
  PROVE  Grows
<1>1. i \in used /\ UNCHANGED <<content, used>> /\ entry' = Server!With(entry, <<d, name>>, i)
  BY DEF NumbersUsed, ServerSound, Server!Link, Server!IsFile
<1> QED BY <1>1 DEF NumbersUsed, Server!With, Grows, Within

LEMMA RemoveGrows ==
  ASSUME NumbersUsed, NEW d, NEW name, Server!Remove(d, name)
  PROVE  Grows
<1>1. PICK gone :
        /\ entry' = Server!Without(entry, {<<d, name>>})
        /\ content' = Server!Without(content, gone) /\ used' = used
  BY Zenon DEF Server!Remove
<1> QED BY <1>1 DEF NumbersUsed, Server!Without, Grows, Within

LEMMA WriteGrows ==
  ASSUME NumbersUsed, ServerSound, LOFF_MAX \in Nat,
         NEW i, NEW off \in Nat, NEW buf \in Seq(Nat), off + Len(buf) <= LOFF_MAX,
         Server!Write(i, off, buf)
  PROVE  Grows /\ Within(i, off + Len(buf))'
<1> DEFINE old == content[i]
           end == off + Len(buf)
           m == IF end > Len(old) THEN end ELSE Len(old)
           new == [k \in 1..m |->
                     CASE k > off /\ k <= end -> buf[k - off]
                       [] k <= Len(old) /\ ~(k > off /\ k <= end) -> old[k]
                       [] OTHER -> 0]
<1>1. content' = [content EXCEPT ![i] = new] /\ entry' = entry /\ used' = used
  BY DEF Server!Write
<1>2. i \in DOMAIN content /\ old \in Seq(Nat)
  BY DEF ServerSound, Server!Write, Server!IsFile
<1>3. m \in Nat /\ Len(old) <= m /\ end <= m /\ Len(old) \in Nat /\ DOMAIN new = 1..m
  BY <1>2
<1> HIDE DEF m, new
<1>4. DOMAIN content' = DOMAIN content /\ content'[i] = new
      /\ \A j : j # i => content'[j] = content[j]
  BY <1>1, <1>2
<1>5. new \in Seq(Nat)
  BY <1>2, <1>4, WriteKeeps DEF ServerSound
<1>6. Len(new) = m
  BY <1>3, <1>5
<1>7. ASSUME NEW j \in used, NEW pos \in Nat, Within(j, pos)
      PROVE  Within(j, pos)'
  BY <1>2, <1>3, <1>4, <1>6, <1>7 DEF Within
<1>8. Within(i, end)'
  BY <1>3, <1>4, <1>6 DEF Within
<1> QED BY <1>1, <1>4, <1>7, <1>8 DEF Grows, NumbersUsed

LEMMA PerformGrows ==
  ASSUME NumbersUsed, ServerSound, LOFF_MAX \in Nat,
         NEW req, NEW n \in Amounts(req), Performs(req, n),
         req.method = "write" => /\ req.offset \in Nat /\ req.len \in Nat
                                 /\ req.offset + req.len <= LOFF_MAX
                                 /\ req.data \in Seq(Nat)
  PROVE  /\ Grows
         /\ req.method = "write" /\ n # 0 => Within(req.ino, req.offset + n)'
<1>1. UNCHANGED tree => Grows
  BY SameGrows
<1>2. CASE req.method = "init"
  BY <1>2, MountGrows DEF Performs
<1>3. CASE req.method \in {"create_file", "mkdir"}
  BY <1>3, AddGrows DEF Performs
<1>4. CASE req.method = "link"
  BY <1>4, LinkGrows DEF Performs
<1>5. CASE req.method \in {"unlink", "rmdir"}
  BY <1>5, RemoveGrows DEF Performs
<1>6. CASE req.method = "write" /\ n # 0
  <2>1. n \in Nat /\ n <= req.len
    BY <1>6 DEF Amounts
  <2>2. base64_decode(req.data, n) \in Seq(Nat) /\ Len(base64_decode(req.data, n)) = n
    BY <1>6, <2>1, DecodedText
  <2>3. Server!Write(req.ino, req.offset, base64_decode(req.data, n))
    BY <1>6 DEF Performs
  <2>4. req.offset + n <= LOFF_MAX
    BY <1>6, <2>1
  <2>5. PICK buf \in Seq(Nat) : buf = base64_decode(req.data, n) /\ Len(buf) = n
    BY <2>2
  <2>6. PICK i \in {req.ino}, off \in Nat : i = req.ino /\ off = req.offset
    BY <1>6
  <2>7. Grows /\ Within(i, off + n)'
    BY <2>3, <2>4, <2>5, <2>6, WriteGrows
  <2> QED BY <2>7, <2>6 DEF Within
<1>7. CASE \/ req.method = "write" /\ n = 0
           \/ req.method \notin {"init", "create_file", "mkdir", "link", "unlink",
                                 "rmdir", "write"}
  BY <1>1, <1>7 DEF Performs
<1> QED BY <1>2, <1>3, <1>4, <1>5, <1>6, <1>7

LEMMA PlaceKept ==
  ASSUME Grows, UNCHANGED op, op.ino \in used
  PROVE  \A pos \in Nat : Within(op.ino, pos) => Within(op.ino, pos)'
<1>1. PICK i \in used : i = op.ino
  OBVIOUS
<1> QED BY <1>1 DEF Grows, Within

\* The handlers that move a position, and their numbers.
LEMMA FileFacts ==
  ASSUME NetInv, PosInv, op.st = "busy", op.h \in FileHandlers
  PROVE  /\ op.start \in Nat /\ op.total \in Nat /\ op.ino \in used
         /\ Moving /\ OpenFile
BY WaitingFacts DEF PosInv, Moving, NumbersUsed

\* What was told stays told while others are at work.
LEMMA ToldKept ==
  ASSUME NetInv, PosInv, op.st = "busy", Grows, UNCHANGED op,
         NEW fields, Success(fields), Told(fields)
  PROVE  Told(fields)'
<1>1. op.at \in {"read", "write"} => op.h \in FileHandlers
  BY WaitingFacts DEF Calls, FileHandlers
<1>2. ASSUME op.at = "read" PROVE Within(op.ino, op.start + Len(fields.bytes))'
  <2>1. PICK pos \in Nat : pos = op.start + Len(fields.bytes)
    BY <1>1, <1>2, FileFacts DEF Success
  <2>2. Within(op.ino, pos)'
    BY <1>1, <1>2, <2>1, FileFacts, PlaceKept DEF Told
  <2> QED BY <2>1, <2>2 DEF Within
<1>3. ASSUME op.at = "write" PROVE Within(op.ino, op.start + op.total + fields.written)'
  <2>1. PICK pos \in Nat : pos = op.start + op.total + fields.written
    BY <1>1, <1>3, FileFacts DEF Success
  <2>2. Within(op.ino, pos)'
    BY <1>1, <1>3, <2>1, FileFacts, PlaceKept DEF Told
  <2> QED BY <2>1, <2>2 DEF Within
<1> QED BY <1>2, <1>3 DEF Told, Grows

\* Others are at work: the handler and the kernel's caches stand still.
LEMMA PosStays ==
  ASSUME NetInv, PosInv, Grows, UNCHANGED <<dcache, file, op>>, CallTold'
  PROVE  PosInv'
<1>1. NumbersUsed'
  BY DEF PosInv, NumbersUsed, Grows
<1>2. PositionInFile'
  <2>1. ASSUME file # NONE PROVE Within(file.i_ino, file.f_pos)'
    <3>1. PICK i \in used, pos \in Nat : i = file.i_ino /\ pos = file.f_pos
      BY <2>1 DEF PosInv, NumbersUsed, NetInv, CacheSound, OpenFile
    <3>2. Within(i, pos)'
      BY <2>1, <3>1 DEF PosInv, PositionInFile, Grows
    <3> QED BY <3>1, <3>2 DEF Within
  <2> QED BY <2>1 DEF PositionInFile
<1>3. ASSUME op.st = "busy", op.h \in FileHandlers PROVE Moving'
  <2>1. PICK start \in Nat, total \in Nat : start = op.start /\ total = op.total
    BY <1>3, FileFacts
  <2>2. /\ Within(op.ino, start)'
        /\ op.h = "write" => Within(op.ino, start + total)'
    BY <1>3, <2>1, FileFacts, PlaceKept DEF Moving
  <2>3. file # NONE /\ op.ino = file.i_ino
    BY <1>3 DEF PosInv, Moving
  <2> QED BY <2>1, <2>2, <2>3 DEF Moving, Within
<1> QED BY <1>1, <1>2, <1>3 DEF PosInv

\* The call under way is as it was.
LEMMA CallToldKept ==
  ASSUME NetInv, PosInv, Grows, UNCHANGED <<call, op>>
  PROVE  CallTold'
<1>1. ASSUME call.st = "answered", parse_http_response(call.answer, call.size) = 0
      PROVE  Told(call.answer.fields)'
  <2>1. PICK fields : fields = call.answer.fields
    OBVIOUS
  <2>2. Told(fields)'
    BY <1>1, <2>1, CallNeedsHandler, ToldKept DEF NetInv, CallSound, PosInv, CallTold
  <2> QED BY <2>1, <2>2 DEF Told, Within
<1>2. ASSUME call.st = "done", call.result = 0
      PROVE  Told(call.fields)'
  <2>1. PICK fields : fields = call.fields
    OBVIOUS
  <2>2. Told(fields)'
    BY <1>2, <2>1, CallNeedsHandler, ToldKept DEF NetInv, CallSound, PosInv, CallTold
  <2> QED BY <2>1, <2>2 DEF Told, Within
<1>3. parse_http_response(call.answer, call.size)' = parse_http_response(call.answer, call.size)
  BY DEF parse_http_response
<1> QED BY <1>1, <1>2, <1>3 DEF CallTold

LEMMA RemotePos == ASSUME NetInv, PosInv, Remote PROVE PosInv'
<1>1. NumbersUsed /\ ServerSound
  BY DEF NetInv, PosInv
<1>2. Grows
  BY <1>1, AddGrows, LinkGrows, RemoveGrows DEF Remote
<1>3. UNCHANGED <<call, dcache, file, op>>
  BY DEF Remote
<1> QED BY <1>2, <1>3, PosStays, CallToldKept

LEMMA ServeLatePos == ASSUME NetInv, PosInv, NetServeLate PROVE PosInv'
<1>1. NumbersUsed /\ ServerSound /\ LateSound /\ LOFF_MAX \in Nat
  BY NetVtfsAssumption DEF NetInv, PosInv
<1>2. Grows
  <2>1. CASE UNCHANGED tree
    BY <1>1, <2>1, SameGrows
  <2>2. ASSUME NEW n \in Amounts(late), Performs(late, n), late # NONE
        PROVE  Grows
    <3>1. PICK req : req = late
      OBVIOUS
    <3>2. req.method = "write" => /\ req.offset \in Nat /\ req.len \in Nat
                                  /\ req.offset + req.len <= LOFF_MAX
                                  /\ req.data \in Seq(Nat)
      BY <1>1, <2>2, <3>1 DEF LateSound
    <3> QED BY <1>1, <2>2, <3>1, <3>2, PerformGrows
  <2> QED BY <2>1, <2>2 DEF NetServeLate, ServeLate
<1>3. UNCHANGED <<call, dcache, file, op>>
  BY DEF NetServeLate
<1> QED BY <1>2, <1>3, PosStays, CallToldKept

LEMMA AnsweredPos == ASSUME NetInv, PosInv, Answered PROVE PosInv'
<1>1. /\ call.st = "answered" /\ UNCHANGED <<dcache, file, op>> /\ UNCHANGED tree
      /\ op.st = "busy"
  BY CallNeedsHandler DEF Answered, Receive
<1>2. Grows
  BY <1>1, SameGrows DEF PosInv
<1>3. PICK result, fields : /\ result = parse_http_response(call.answer, call.size)
                            /\ fields = call.answer.fields
  OBVIOUS
<1>4. call' = [st |-> "done", result |-> result, fields |-> fields]
  BY <1>3 DEF Answered, Receive, Done
<1>5. result = 0 => Told(fields)'
  BY <1>1, <1>2, <1>3, ToldKept DEF NetInv, CallSound, PosInv, CallTold
<1>6. CallTold'
  <2>1. call'.st = "done" /\ call'.result = result /\ call'.fields = fields
    BY <1>4
  <2> QED BY <1>5, <2>1 DEF CallTold, Told, Within
<1> QED BY <1>1, <1>2, <1>6, PosStays

\* A call that has failed has told nothing.
LEMMA FailedPos ==
  ASSUME NEW result, result # 0, NEW fields, Done(result, fields)
  PROVE  CallTold'
BY DEF Done, CallTold

LEMMA BrokenPos == ASSUME NetInv, PosInv, Broken PROVE PosInv'
<1>1. UNCHANGED <<dcache, file, op>> /\ Grows
  BY SameGrows DEF Broken, PosInv
<1>2. PICK error \in RecvError : Done(error, NoFields)
  BY DEF Broken, GiveUp
<1> QED BY <1>1, <1>2, ErrorsAreErrors, FailedPos, PosStays

\* The server's answer: the number it has given out, the bytes it has read
\* in the file, or the end of what it has written.
LEMMA ServedTold ==
  ASSUME NetInv, PosInv, call.st = "sent", NEW req, req = call.req,
         NEW n \in Amounts(req), Performs(req, n), Grows, UNCHANGED op,
         req.method = "write" /\ n # 0 => Within(req.ino, req.offset + n)',
         NEW fields, fields = FieldsOf(req, n)
  PROVE  Told(fields)'
<1>1. req = call.req
  OBVIOUS
<1>2. op.st = "busy" /\ Asked(req)
  BY <1>1, RequestFacts
<1>3. req.method = IF op.at \in CountCalls THEN "count_links" ELSE op.at
  BY <1>2 DEF Asked
<1>4. ASSUME op.at \in {"lookup", "create_file", "mkdir"}
      PROVE  fields.ino \in used'
  <2>1. PICK k \in {op.k} : fields = parse_node_meta(entry'[<<req.parent, req.name>>])
    BY <1>1, <1>3, <1>4 DEF FieldsOf, CountCalls
  <2>2. <<req.parent, req.name>> \in DOMAIN entry'
    <3>1. req.method = op.at
      BY <1>3, <1>4 DEF CountCalls
    <3> QED BY <1>1, <1>4, <3>1 DEF Performs, Server!Add, Server!With, HasEntry, tree
  <2> QED BY <2>1, <2>2 DEF parse_node_meta, NoFields, Grows
<1>5. ASSUME op.at \in {"read", "write"}
      PROVE  /\ op.h \in FileHandlers /\ req.method = op.at
             /\ op.start \in Nat /\ op.total \in Nat
  <2>1. op.h \in FileHandlers /\ req.method = op.at
    BY <1>2, <1>3, <1>5, WaitingFacts DEF Calls, FileHandlers, CountCalls
  <2> QED BY <1>2, <2>1, FileFacts
<1>6. ASSUME op.at = "read" PROVE Within(op.ino, op.start + Len(fields.bytes))'
  <2>1. /\ req.ino = op.ino /\ req.offset = op.start /\ req.len = op.total
        /\ UNCHANGED tree /\ Server!IsFile(req.ino)
    BY <1>1, <1>2, <1>5, <1>6 DEF Asked, Performs
  <2>2. PICK bytes \in Seq(Nat) : bytes = content[req.ino]
    BY <2>1 DEF NetInv, ServerSound, Server!IsFile
  <2>3. PICK start \in Nat, len \in Nat : start = op.start /\ len = op.total
    BY <1>5, <1>6
  <2>4. PICK last : last = Min2(start + len, Len(bytes))
    OBVIOUS
  <2>5. fields.bytes = SubSeq(bytes, start + 1, last)
    BY <1>1, <1>5, <1>6, <2>1, <2>2, <2>3, <2>4 DEF FieldsOf, NoFields
  <2>6. start <= Len(bytes)
    <3>1. Moving /\ req.ino \in DOMAIN content
      BY <1>2, <1>5, <1>6, <2>1, FileFacts DEF NetInv, ServerSound, Server!IsFile
    <3> QED BY <2>1, <2>2, <2>3, <3>1 DEF Moving, Within
  <2>7. start \in 0..Len(bytes) /\ last \in start..Len(bytes)
    BY <2>3, <2>4, <2>6 DEF Min2
  <2>8. Len(fields.bytes) = last - start
    BY <2>5, <2>7, PartOf
  <2>9. start + (last - start) <= Len(bytes)
    BY <2>7
  <2> QED BY <2>1, <2>2, <2>3, <2>8, <2>9 DEF Within, tree
<1>7. ASSUME op.at = "write" PROVE Within(op.ino, op.start + op.total + fields.written)'
  <2>1. /\ req.ino = op.ino /\ req.offset = op.start + op.total /\ n \in Nat
        /\ fields.written = n
    BY <1>1, <1>2, <1>5, <1>7, RequestFacts DEF Asked, Amounts, FieldsOf, NoFields
  <2>2. CASE n # 0
    BY <1>1, <1>5, <1>7, <2>1, <2>2 DEF Within
  <2>3. CASE n = 0
    <3>1. PICK pos \in Nat : pos = op.start + op.total
      BY <1>5, <1>7
    <3>2. op.h = "write"
      BY <1>2, <1>7, WaitingFacts DEF Calls
    <3>3. Within(op.ino, pos)'
      BY <1>2, <1>5, <1>7, <3>1, <3>2, FileFacts, PlaceKept DEF Moving
    <3> QED BY <2>1, <2>3, <3>1, <3>3 DEF Within
  <2> QED BY <2>2, <2>3
<1> QED BY <1>4, <1>6, <1>7 DEF Told

LEMMA NetServePos == ASSUME NetInv, PosInv, NetServe PROVE PosInv'
<1>1. call.st = "sent" /\ UNCHANGED <<dcache, file, op>>
  BY DEF NetServe, Serve
<1>2. NumbersUsed /\ ServerSound /\ LOFF_MAX \in Nat
  BY NetVtfsAssumption DEF NetInv, PosInv
<1>3. ASSUME NEW req, req = call.req, NEW n \in Amounts(req), Performs(req, n)
      PROVE  /\ Grows
             /\ req.method = "write" /\ n # 0 => Within(req.ino, req.offset + n)'
  <2>1. req.method = "write" => /\ req.offset \in Nat /\ req.len \in Nat
                                /\ req.offset + req.len <= LOFF_MAX
                                /\ req.data \in Seq(Nat)
    BY <1>1, <1>3, RequestFacts
  <2> QED BY <1>2, <1>3, <2>1, PerformGrows
<1>4. Grows
  BY <1>2, <1>3, SameGrows DEF NetServe, Serve
<1>5. ASSUME NEW answer, Answer(answer),
             parse_http_response(answer, call.size) = 0 => Told(answer.fields)'
      PROVE  CallTold'
  <2>1. call'.st = "answered" /\ call'.answer = answer /\ call'.size = call.size
    BY <1>5 DEF Answer
  <2>2. PICK size : size = call.size
    OBVIOUS
  <2>3. parse_http_response(call.answer, call.size)' = parse_http_response(answer, size)
    BY <2>1, <2>2 DEF parse_http_response
  <2> QED BY <1>5, <2>1, <2>2, <2>3 DEF CallTold, Told, Within
<1>6. ASSUME NEW answer \in Garbled, Answer(answer)
      PROVE  CallTold'
  BY <1>1, <1>5, <1>6, GarbledIsError, RequestFacts
<1>7. ASSUME NEW code \in Refusals(call.req), Answer(Whole(code, NoFields))
      PROVE  CallTold'
  <2>1. code # 0
    BY RefusalAssumption DEF Refusals, EEXIST
  <2>2. PICK answer : answer = Whole(code, NoFields)
    OBVIOUS
  <2>3. parse_http_response(answer, call.size) # 0
    BY <2>1, <2>2, RefusedIsError
  <2> QED BY <1>5, <1>7, <2>2, <2>3
<1>8. ASSUME NEW n \in Amounts(call.req), Performs(call.req, n),
             Answer(Whole(0, FieldsOf(call.req, n)))
      PROVE  CallTold'
  <2>1. PICK fields : fields = FieldsOf(call.req, n)
    OBVIOUS
  <2>2. Told(fields)'
    BY <1>1, <1>3, <1>8, <2>1, ServedTold
  <2>3. PICK answer : answer = Whole(0, fields)
    OBVIOUS
  <2>4. answer.fields = fields
    BY <2>3 DEF Whole
  <2>5. Told(answer.fields)'
    BY <2>2, <2>4
  <2> QED BY <1>5, <1>8, <2>1, <2>3, <2>5
<1>9. CallTold'
  BY <1>6, <1>7, <1>8 DEF NetServe, Serve
<1> QED BY <1>1, <1>4, <1>9, PosStays

\* A call that has just been made, or has failed at once, has told nothing.
LEMMA AskTold == \A req, size : vtfs_http_call(req, size) => CallTold'
<1> SUFFICES ASSUME NEW req, NEW size, vtfs_http_call(req, size) PROVE CallTold'
  OBVIOUS
<1>1. CASE \E error \in SendError : Done(error, NoFields)
  BY <1>1, ErrorsAreErrors, FailedPos
<1>2. CASE call' = [st |-> "sent", req |-> req, size |-> size]
  <2>1. call'.st = "sent"
    BY <1>2
  <2> QED BY <2>1 DEF CallTold
<1> QED BY <1>1, <1>2 DEF vtfs_http_call

LEMMA RequestTold ==
  ASSUME NEW h \in {"create", "mkdir", "link", "unlink", "rmdir"}, NEW k, NEW target,
         Request(h, k, target)
  PROVE  CallTold'
BY AskTold DEF Request, create_file, create_dir, link, unlink, rmdir, AskOf

\* Between its calls a handler moves nothing.
LEMMA PosGoes ==
  ASSUME PosInv, UNCHANGED <<dcache, file>>, UNCHANGED tree, CallTold', op'.st = "busy",
         op'.h = "link" \/ op'.at \in CountCalls => op'.inode.i_ino \in used,
         op'.h \in FileHandlers =>
           /\ file # NONE /\ op'.ino = file.i_ino /\ Within(file.i_ino, op'.start)
           /\ op'.h = "write" => Within(file.i_ino, op'.start + op'.total)
  PROVE  PosInv'
<1>1. UNCHANGED <<entry, content, used>>
  BY DEF tree
<1>2. NumbersUsed' /\ PositionInFile'
  BY <1>1 DEF PosInv, NumbersUsed, PositionInFile, Within
<1>3. op'.h \in FileHandlers => Moving'
  BY <1>1 DEF Moving, Within
<1> QED BY <1>2, <1>3 DEF PosInv

LEMMA PosGoesOn ==
  ASSUME PosInv, UNCHANGED <<dcache, file>>, UNCHANGED tree, CallTold',
         op.st = "busy", op'.st = "busy",
         op'.h = op.h, op'.ino = op.ino, op'.start = op.start, op'.total = op.total,
         op'.h = "link" \/ op'.at \in CountCalls => op'.inode.i_ino \in used
  PROVE  PosInv'
BY PosGoes DEF PosInv, Moving

\* When no handler is at work, or one has returned.
LEMMA PosRests ==
  ASSUME PosInv, UNCHANGED tree, call' = IdleCall, op'.st # "busy",
         \A k \in DOMAIN dcache' : dcache'[k] # NEG => dcache'[k].i_ino \in used,
         file' # NONE => file'.i_ino \in used /\ Within(file'.i_ino, file'.f_pos)
  PROVE  PosInv'
<1>1. UNCHANGED <<entry, content, used>>
  BY DEF tree
<1>2. NumbersUsed' /\ PositionInFile'
  BY <1>1 DEF PosInv, NumbersUsed, PositionInFile, Within
<1>3. CallTold'
  BY DEF CallTold, IdleCall
<1> QED BY <1>2, <1>3 DEF PosInv

LEMMA PosReturns ==
  ASSUME NetInv, PosInv, op.st = "busy", NEW p, IsHandler(p), NEW ret, ReturnFrom(p, ret),
         UNCHANGED tree,
         \A k \in DOMAIN dcache' : dcache'[k] # NEG => dcache'[k].i_ino \in used,
         file' # NONE => file'.i_ino \in used /\ Within(file'.i_ino, file'.f_pos)
  PROVE  PosInv'
<1>1. op'.st = "returned" /\ call' = IdleCall
  BY DEF ReturnFrom, IsHandler
<1> QED BY <1>1, PosRests

\* A handler returns, and the caches are as they were but for its own name.
LEMMA PosReturnsPlain ==
  ASSUME NetInv, PosInv, op.st = "busy", NEW ret, Return(ret), UNCHANGED tree,
         UNCHANGED file,
         \/ UNCHANGED dcache
         \/ \E inode : inode.i_ino \in used /\ dcache' = Hashed(op.k, inode)
  PROVE  PosInv'
<1>1. IsHandler(op) /\ ReturnFrom(op, ret)
  BY WaitingFacts DEF Return
<1>2. \A k \in DOMAIN dcache' : dcache'[k] # NEG => dcache'[k].i_ino \in used
  BY DEF Hashed, PosInv, NumbersUsed
<1>3. file' # NONE => file'.i_ino \in used /\ Within(file'.i_ino, file'.f_pos)
  BY DEF PosInv, NumbersUsed, PositionInFile
<1> QED BY <1>1, <1>2, <1>3, PosReturns

\* A handler that moves no position begins.
LEMMA PosBegins ==
  ASSUME PosInv, NEW p, IsHandler(p), p.st = "busy", p.h \notin FileHandlers, NEW at,
         at \notin CountCalls, op' = [p EXCEPT !.at = at],
         UNCHANGED <<dcache, file>>, UNCHANGED tree, CallTold',
         p.h = "link" => p.inode.i_ino \in used
  PROVE  PosInv'
<1>1. op'.st = "busy" /\ op'.h = p.h /\ op'.at = at /\ op'.inode = p.inode
  BY DEF IsHandler
<1> QED BY <1>1, PosGoes

LEMMA MountPos == ASSUME PosInv, NEW data, vtfs_mount(data) PROVE PosInv'
<1>1. PICK p : p = [Handler("mount", NO_KEY) EXCEPT !.buf = TokenOf(data)]
  OBVIOUS
<1>2. /\ IsHandler(p) /\ p.st = "busy" /\ p.h = "mount"
      /\ op' = [p EXCEPT !.at = "init"]
  BY <1>1 DEF IsHandler, Handler, vtfs_mount
<1>3. -ENOMEM # 0 /\ -EINVAL # 0
  BY DEF ENOMEM, EINVAL
<1>4. CallTold'
  BY <1>3, FailedPos, AskTold DEF vtfs_mount, init, Ask
<1>5. UNCHANGED <<dcache, file>> /\ UNCHANGED tree
  BY DEF vtfs_mount
<1> QED BY <1>2, <1>4, <1>5, PosBegins DEF CountCalls, FileHandlers

LEMMA LookupPos == ASSUME PosInv, NEW k, vtfs_lookup(k) PROVE PosInv'
<1>1. PICK p : p = Handler("lookup", k)
  OBVIOUS
<1>2. /\ IsHandler(p) /\ p.st = "busy" /\ p.h = "lookup"
      /\ op' = [p EXCEPT !.at = "lookup"]
  BY <1>1 DEF IsHandler, Handler, vtfs_lookup, Begin
<1>3. CallTold' /\ UNCHANGED <<dcache, file>> /\ UNCHANGED tree
  BY AskTold DEF vtfs_lookup, lookup, AskOf, Begin
<1> QED BY <1>2, <1>3, PosBegins DEF CountCalls, FileHandlers

LEMMA BeginNewPos ==
  ASSUME PosInv, NEW h \in {"create", "mkdir", "link"}, NEW k, NEW old,
         BeginNew(h, k, old), h = "link" => Positive(old)
  PROVE  PosInv'
<1>1. PICK inode : inode = IF h = "link" THEN dcache[old] ELSE NEG
  OBVIOUS
<1>2. h = "link" => inode.i_ino \in used
  BY <1>1 DEF PosInv, NumbersUsed, Positive
<1>3. PICK p : p = [Handler(h, k) EXCEPT !.inode = inode]
  OBVIOUS
<1>4. IsHandler(p) /\ p.st = "busy" /\ p.h = h /\ p.inode = inode
  BY <1>3 DEF IsHandler, Handler
<1>5. \/ Begin(p, "lookup") /\ lookup(k[1], k[2])
      \/ Begin(p, Method(h)) /\ Request(h, k, inode.i_ino)
  BY <1>1, <1>3 DEF BeginNew
<1>6. PICK at \in {"lookup", Method(h)} : Begin(p, at)
  BY <1>5
<1>7. CallTold'
  BY <1>5, AskTold, RequestTold DEF lookup, AskOf
<1>8. at \notin CountCalls /\ h \notin FileHandlers
  BY <1>6 DEF CountCalls, Method, FileHandlers
<1>9. op' = [p EXCEPT !.at = at] /\ UNCHANGED <<dcache, file>> /\ UNCHANGED tree
  BY <1>6 DEF Begin
<1> QED BY <1>2, <1>4, <1>7, <1>8, <1>9, PosBegins

LEMMA BeginRemovePos ==
  ASSUME PosInv, NEW k, vtfs_unlink(k) \/ vtfs_rmdir(k)
  PROVE  PosInv'
<1>1. PICK h \in {"unlink", "rmdir"} : Begin(Handler(h, k), h) /\ Request(h, k, 0)
  BY DEF vtfs_unlink, vtfs_rmdir
<1>2. PICK p : p = Handler(h, k)
  OBVIOUS
<1>3. /\ IsHandler(p) /\ p.st = "busy" /\ p.h = h /\ op' = [p EXCEPT !.at = h]
  BY <1>1, <1>2 DEF IsHandler, Handler, Begin
<1>4. CallTold'
  BY <1>1, RequestTold
<1>5. UNCHANGED <<dcache, file>> /\ UNCHANGED tree
  BY <1>1 DEF Begin
<1> QED BY <1>3, <1>4, <1>5, PosBegins DEF CountCalls, FileHandlers

LEMMA IteratePos == ASSUME PosInv, NEW d, NEW offset, vtfs_iterate(d, offset) PROVE PosInv'
<1>1. PICK p : p = Handler("iterate", NO_KEY)
  OBVIOUS
<1>2. /\ IsHandler(p) /\ p.st = "busy" /\ p.h = "iterate"
      /\ op' = [p EXCEPT !.at = "iterate_dir"]
  BY <1>1 DEF IsHandler, Handler, vtfs_iterate, Begin
<1>3. CallTold' /\ UNCHANGED <<dcache, file>> /\ UNCHANGED tree
  BY AskTold DEF vtfs_iterate, iterate_dir, Begin
<1> QED BY <1>2, <1>3, PosBegins DEF CountCalls, FileHandlers

\* A file handler begins where the open file stands.
LEMMA FileBegins ==
  ASSUME NetInv, PosInv, NEW p, IsHandler(p), p.st = "busy", p.h \in FileHandlers,
         p.at \notin CountCalls, p.ino = file.i_ino, p.start = file.f_pos,
         p.h = "write" => p.total = 0, op' = p, file # NONE,
         UNCHANGED <<dcache, file>>, UNCHANGED tree, CallTold'
  PROVE  PosInv'
<1>1. Within(file.i_ino, file.f_pos) /\ file.f_pos \in Nat
  BY NetVtfsAssumption DEF PosInv, PositionInFile, NetInv, CacheSound, OpenFile
<1>2. p.h = "write" => Within(file.i_ino, p.start + p.total)
  BY <1>1 DEF Within
<1>3. p.h # "link"
  BY DEF FileHandlers
<1> QED BY <1>1, <1>2, <1>3, PosGoes

LEMMA ReadPos == ASSUME NetInv, PosInv, NEW len, vtfs_read(len) PROVE PosInv'
<1>1. PICK p : p = [[FileHandler("read") EXCEPT !.total = len] EXCEPT !.at = "read"]
  OBVIOUS
<1>2. /\ IsHandler(p) /\ p.st = "busy" /\ p.h = "read" /\ p.at = "read"
      /\ p.ino = file.i_ino /\ p.start = file.f_pos /\ op' = p
  BY <1>1 DEF IsHandler, Handler, FileHandler, vtfs_read, Begin
<1>3. CallTold'
  <2>1. -ENOMEM # 0
    BY DEF ENOMEM
  <2> QED BY <2>1, FailedPos, AskTold DEF vtfs_read, read
<1>4. file # NONE /\ UNCHANGED <<dcache, file>> /\ UNCHANGED tree
  BY DEF vtfs_read, Begin
<1> QED BY <1>2, <1>3, <1>4, FileBegins DEF CountCalls, FileHandlers

LEMMA WriteBeginPos == ASSUME NetInv, PosInv, NEW len, vtfs_write(len) PROVE PosInv'
<1>1. file # NONE /\ UNCHANGED <<dcache, file>> /\ UNCHANGED tree /\ call' = IdleCall
  BY IdleHasNoCall DEF vtfs_write, Begin
<1>2. ASSUME NEW ret, Begin([FileHandler("write") EXCEPT !.st = "returned", !.ret = ret],
                            "chunk")
      PROVE  PosInv'
  <2>1. op'.st = "returned"
    BY <1>2 DEF Begin, FileHandler, Handler
  <2> QED BY <1>1, <2>1, PosRests DEF PosInv, NumbersUsed, PositionInFile
<1>3. ASSUME NEW buf, Begin([FileHandler("write") EXCEPT !.buf = buf], "chunk")
      PROVE  PosInv'
  <2>1. PICK p : p = [[FileHandler("write") EXCEPT !.buf = buf] EXCEPT !.at = "chunk"]
    OBVIOUS
  <2>2. /\ IsHandler(p) /\ p.st = "busy" /\ p.h = "write" /\ p.at = "chunk" /\ p.total = 0
        /\ p.ino = file.i_ino /\ p.start = file.f_pos /\ op' = p
    BY <1>3, <2>1 DEF IsHandler, Handler, FileHandler, Begin
  <2>3. CallTold'
    BY <1>1 DEF CallTold, IdleCall
  <2> QED BY <1>1, <2>2, <2>3, FileBegins DEF CountCalls, FileHandlers
<1> QED BY <1>2, <1>3 DEF vtfs_write

\* What a call that has ended well has told.
LEMMA DoneTold ==
  ASSUME NetInv, PosInv, call.st = "done", call.result = 0
  PROVE  Told(call.fields) /\ Success(call.fields)
BY DEF PosInv, CallTold, NetInv, CallSound

LEMMA FillSuperPos == ASSUME NetInv, PosInv, vtfs_fill_super PROVE PosInv'
<1>1. /\ op.st = "busy" /\ op.at \in {"init", "get_root"}
      /\ UNCHANGED <<dcache, file>> /\ UNCHANGED tree
  BY DEF vtfs_fill_super, Waiting
<1>2. op.h = "mount" /\ IsHandler(op)
  BY <1>1, WaitingFacts DEF Calls
<1>3. ASSUME NEW ret, Return(ret) PROVE PosInv'
  BY <1>1, <1>3, PosReturnsPlain
<1>4. ASSUME get_root, Then("get_root") PROVE PosInv'
  <2>1. CallTold'
    BY <1>4, AskTold DEF get_root, Ask
  <2>2. /\ op'.st = "busy" /\ op'.h = op.h /\ op'.ino = op.ino /\ op'.start = op.start
        /\ op'.total = op.total /\ op'.at = "get_root"
    BY <1>1, <1>2, <1>4 DEF Then, IsHandler
  <2> QED BY <1>1, <1>2, <2>1, <2>2, PosGoesOn DEF CountCalls
<1> QED BY <1>3, <1>4 DEF vtfs_fill_super

\* A node that has been looked up or made is counted, or shown at once.
LEMMA CountsPos ==
  ASSUME NetInv, PosInv, op.st = "busy", UNCHANGED <<dcache, file>>, UNCHANGED tree,
         NEW inode, inode.i_ino \in used, NEW ino, count_links(ino),
         NEW at, op' = [op EXCEPT !.at = at, !.inode = inode]
  PROVE  PosInv'
<1>1. CallTold'
  BY AskTold DEF count_links
<1>2. /\ op'.st = "busy" /\ op'.h = op.h /\ op'.ino = op.ino /\ op'.start = op.start
      /\ op'.total = op.total /\ op'.inode = inode
  BY WaitingFacts DEF IsHandler
<1> QED BY <1>1, <1>2, PosGoesOn

LEMMA LookedPos == ASSUME NetInv, PosInv, Looked PROVE PosInv'
<1>1. /\ op.st = "busy" /\ op.at = "lookup" /\ call.st = "done"
      /\ UNCHANGED file /\ UNCHANGED tree
  BY DEF Looked, Waiting, Rest, tree
<1>2. ASSUME lookup_result(call.result) = 0
      PROVE  vtfs_get_inode(call.fields).i_ino \in used
  <2>1. call.result = 0
    BY <1>2 DEF lookup_result, ENOENT
  <2> QED BY <1>1, <2>1, DoneTold DEF Told, vtfs_get_inode
<1>3. CASE /\ lookup_result(call.result) = 0 /\ call.fields.type = "FILE"
           /\ count_links(call.fields.ino)
           /\ op' = [op EXCEPT !.at = "count_found", !.inode = vtfs_get_inode(call.fields)]
           /\ UNCHANGED <<disturbed, doubt, dcache>>
  BY <1>1, <1>2, <1>3, CountsPos
<1>4. CASE /\ lookup_result(call.result) = 0 /\ call.fields.type = "DIR"
           /\ dcache' = Hashed(op.k, vtfs_get_inode(call.fields))
           /\ Return(IF op.h = "lookup" THEN 0 ELSE -EEXIST)
  BY <1>1, <1>2, <1>4, PosReturnsPlain
<1>5. CASE op.h = "lookup" /\ Return(-ENOENT) /\ UNCHANGED dcache
  BY <1>1, <1>5, PosReturnsPlain
<1>6. CASE /\ op.h # "lookup" /\ Then(Method(op.h))
           /\ Request(op.h, op.k, op.inode.i_ino) /\ UNCHANGED dcache
  <2>1. op.h \in {"create", "mkdir", "link"} /\ IsHandler(op)
    BY <1>1, <1>6, WaitingFacts DEF Calls
  <2>2. CallTold'
    BY <1>6, <2>1, RequestTold
  <2>3. /\ op'.st = "busy" /\ op'.h = op.h /\ op'.ino = op.ino /\ op'.start = op.start
        /\ op'.total = op.total /\ op'.inode = op.inode /\ op'.at = Method(op.h)
    BY <1>1, <1>6, <2>1 DEF Then, IsHandler
  <2>4. op.h = "link" => op.inode.i_ino \in used
    BY <1>1 DEF PosInv, NumbersUsed
  <2>5. op'.at \notin CountCalls
    BY <2>1, <2>3 DEF Method, CountCalls
  <2> QED BY <1>1, <1>6, <2>2, <2>3, <2>4, <2>5, PosGoesOn
<1> QED BY <1>3, <1>4, <1>5, <1>6 DEF Looked

LEMMA CreatedPos == ASSUME NetInv, PosInv, Created PROVE PosInv'
<1>1. /\ op.st = "busy" /\ op.at \in {"create_file", "mkdir"} /\ call.st = "done"
      /\ UNCHANGED file /\ UNCHANGED tree
  BY DEF Created, Waiting, Rest, tree
<1>2. ASSUME call.result = 0
      PROVE  vtfs_get_inode(call.fields).i_ino \in used
  BY <1>1, <1>2, DoneTold DEF Told, vtfs_get_inode
<1>3. ASSUME NEW ret, Return(ret), UNCHANGED dcache PROVE PosInv'
  BY <1>1, <1>3, PosReturnsPlain
<1>4. CASE /\ call.result = 0 /\ op.at = "mkdir"
           /\ dcache' = Hashed(op.k, vtfs_get_inode(call.fields))
           /\ Return(0)
  BY <1>1, <1>2, <1>4, PosReturnsPlain
<1>5. CASE /\ call.result = 0 /\ op.at = "create_file"
           /\ count_links(call.fields.ino)
           /\ op' = [op EXCEPT !.at = "count_made", !.inode = vtfs_get_inode(call.fields)]
           /\ UNCHANGED <<disturbed, doubt, dcache>>
  BY <1>1, <1>2, <1>5, CountsPos
<1> QED BY <1>3, <1>4, <1>5 DEF Created

LEMMA LinkedPos == ASSUME NetInv, PosInv, Linked PROVE PosInv'
<1>1. /\ op.st = "busy" /\ op.at = "link"
      /\ UNCHANGED <<dcache, file>> /\ UNCHANGED tree
  BY DEF Linked, Waiting, Rest, tree
<1>2. ASSUME NEW ret, Return(ret) PROVE PosInv'
  BY <1>1, <1>2, PosReturnsPlain
<1>3. CASE count_links(op.inode.i_ino) /\ Then("count_linked")
  <2>1. op.h = "link" /\ IsHandler(op)
    BY <1>1, WaitingFacts DEF Calls
  <2>2. op.inode.i_ino \in used
    BY <1>1, <2>1 DEF PosInv, NumbersUsed
  <2>3. op' = [op EXCEPT !.at = "count_linked", !.inode = op.inode]
    BY <1>3, <2>1 DEF Then, IsHandler
  <2> QED BY <1>1, <1>3, <2>2, <2>3, CountsPos
<1> QED BY <1>2, <1>3 DEF Linked

LEMMA LinksCountedPos == ASSUME NetInv, PosInv, LinksCounted PROVE PosInv'
<1>1. /\ op.st = "busy" /\ op.at \in CountCalls /\ UNCHANGED file /\ UNCHANGED tree
  BY DEF LinksCounted, Waiting, Rest, tree, CountCalls
<1>2. op.inode.i_ino \in used
  BY <1>1 DEF PosInv, NumbersUsed
<1>3. UNCHANGED dcache \/ dcache' = Hashed(op.k, op.inode)
  BY DEF LinksCounted
<1>4. PICK ret : Return(ret)
  BY DEF LinksCounted
<1> QED BY <1>1, <1>2, <1>3, <1>4, PosReturnsPlain

LEMMA RemovedPos == ASSUME NetInv, PosInv, Removed PROVE PosInv'
<1>1. op.st = "busy" /\ UNCHANGED tree /\ Return(call.result)
  BY DEF Removed, Waiting, Rest, tree
<1>2. \A k \in DOMAIN dcache' : dcache'[k] # NEG => dcache'[k].i_ino \in used
  BY DEF Removed, d_delete, Kept, PosInv, NumbersUsed
<1>3. file' # NONE => file'.i_ino \in used /\ Within(file'.i_ino, file'.f_pos)
  <2>1. UNCHANGED file \/ (file # NONE /\ file' = [file EXCEPT !.key = NO_KEY])
    BY DEF Removed, d_delete
  <2>2. ASSUME file # NONE, file' = [file EXCEPT !.key = NO_KEY]
        PROVE  file'.i_ino = file.i_ino /\ file'.f_pos = file.f_pos
    BY <2>2 DEF NetInv, CacheSound, OpenFile
  <2> QED BY <2>1, <2>2 DEF PosInv, NumbersUsed, PositionInFile
<1>4. IsHandler(op) /\ ReturnFrom(op, call.result)
  BY <1>1, WaitingFacts DEF Return
<1> QED BY <1>1, <1>2, <1>3, <1>4, PosReturns

LEMMA IteratedPos == ASSUME NetInv, PosInv, Iterated PROVE PosInv'
<1>1. /\ op.st = "busy" /\ UNCHANGED <<dcache, file>> /\ UNCHANGED tree
  BY DEF Iterated, Waiting, Rest, tree
<1>2. PICK total : ReturnFrom([op EXCEPT !.total = total], 0)
  BY DEF Iterated
<1>3. PICK p : p = [op EXCEPT !.total = total]
  OBVIOUS
<1>4. IsHandler(p) /\ ReturnFrom(p, 0)
  BY <1>1, <1>2, <1>3, WaitingFacts DEF IsHandler
<1> QED BY <1>1, <1>4, PosReturns DEF PosInv, NumbersUsed, PositionInFile

\* A file handler returns, having moved the position to a place in the file.
LEMMA PosMoved ==
  ASSUME NetInv, PosInv, op.st = "busy", op.h \in FileHandlers,
         NEW total, NEW ret, ReturnFrom([op EXCEPT !.total = total], ret),
         UNCHANGED dcache, UNCHANGED tree,
         NEW pos, MoveTo(pos), Within(op.ino, pos)
  PROVE  PosInv'
<1>1. PICK p : p = [op EXCEPT !.total = total]
  OBVIOUS
<1>2. IsHandler(p) /\ ReturnFrom(p, ret)
  BY <1>1, WaitingFacts DEF IsHandler
<1>3. file # NONE /\ op.ino = file.i_ino /\ op.ino \in used /\ OpenFile
  BY FileFacts DEF Moving
<1>4. file'.i_ino = file.i_ino /\ file'.f_pos = pos
  BY <1>3 DEF MoveTo, OpenFile
<1> QED BY <1>2, <1>3, <1>4, PosReturns DEF PosInv, NumbersUsed

LEMMA ReadDonePos == ASSUME NetInv, PosInv, ReadDone PROVE PosInv'
<1>1. /\ op.st = "busy" /\ op.at = "read" /\ call.st = "done"
      /\ UNCHANGED dcache /\ UNCHANGED tree
  BY DEF ReadDone, Waiting, Rest, tree
<1>2. op.h \in FileHandlers /\ IsHandler(op)
  BY <1>1, WaitingFacts DEF Calls, FileHandlers
<1>3. ASSUME NEW ret, Return(ret), UNCHANGED file PROVE PosInv'
  BY <1>1, <1>3, PosReturnsPlain
<1>4. ASSUME NEW copied, copied = Min2(Len(call.fields.bytes), op.total),
             call.result = 0, MoveTo(op.start + copied), Return(copied)
      PROVE  PosInv'
  <2>1. PICK start \in Nat, total \in Nat : start = op.start /\ total = op.total
    BY <1>1, <1>2, FileFacts
  <2>2. call.fields.bytes \in Seq(Nat)
    BY <1>1, <1>4, DoneTold DEF Success
  <2>3. PICK len \in Nat : len = Len(call.fields.bytes)
    BY <2>2
  <2>4. Within(op.ino, start + len)
    BY <1>1, <1>4, <2>1, <2>3, DoneTold DEF Told
  <2>5. copied \in 0..len
    BY <1>4, <2>1, <2>3 DEF Min2
  <2>6. Within(op.ino, start + copied)
    <3>1. ASSUME op.ino \in DOMAIN content
          PROVE  start + copied <= Len(content[op.ino])
      <4>1. Len(content[op.ino]) \in Nat /\ start + len <= Len(content[op.ino])
        BY <2>4, <3>1 DEF Within, NetInv, ServerSound
      <4> QED BY <2>1, <2>5, <4>1
    <3> QED BY <3>1 DEF Within
  <2>7. ReturnFrom([op EXCEPT !.total = total], copied)
    <3>1. op = [op EXCEPT !.total = op.total]
      BY <1>2 DEF IsHandler
    <3> QED BY <1>4, <2>1, <3>1 DEF Return
  <2>8. PICK pos : pos = start + copied
    OBVIOUS
  <2> QED BY <1>1, <1>2, <1>4, <2>1, <2>6, <2>7, <2>8, PosMoved
<1> QED BY <1>3, <1>4 DEF ReadDone

LEMMA WriteChunkPos == ASSUME NetInv, PosInv, WriteChunk PROVE PosInv'
<1>1. /\ op.st = "busy" /\ op.at = "chunk"
      /\ UNCHANGED <<dcache, file>> /\ UNCHANGED tree
  BY DEF WriteChunk, Rest, tree
<1>2. op.h = "write" /\ IsHandler(op)
  BY <1>1, WaitingFacts DEF Calls
<1>3. ASSUME NEW ret, Return(ret) PROVE PosInv'
  BY <1>1, <1>3, PosReturnsPlain
<1>4. CASE write_chunk(op.ino, NextChunk, op.start + op.total) /\ Then("write")
  <2>1. CallTold'
    BY <1>4, AskTold DEF write_chunk
  <2>2. /\ op'.st = "busy" /\ op'.h = op.h /\ op'.ino = op.ino /\ op'.start = op.start
        /\ op'.total = op.total /\ op'.at = "write"
    BY <1>1, <1>2, <1>4 DEF Then, IsHandler
  <2> QED BY <1>1, <1>2, <2>1, <2>2, PosGoesOn DEF CountCalls
<1> QED BY <1>3, <1>4 DEF WriteChunk

LEMMA WriteOnPos == ASSUME NetInv, PosInv, WriteOn PROVE PosInv'
<1>1. /\ op.st = "busy" /\ op.at = "write" /\ call.st = "done" /\ call.result = 0
      /\ UNCHANGED dcache /\ UNCHANGED tree
  BY DEF WriteOn, Waiting, Rest, tree
<1>2. op.h = "write" /\ op.h \in FileHandlers /\ IsHandler(op)
  BY <1>1, WaitingFacts DEF Calls, FileHandlers
<1>3. PICK total \in Nat : total = op.total + call.fields.written
  BY <1>1, <1>2, WriteFacts
<1>4. Within(op.ino, op.start + total)
  <2>1. /\ op.start \in Nat /\ op.total \in Nat /\ call.fields.written \in Int
    BY <1>1, <1>2, FileFacts, DoneTold, WriteFacts, ChunkFacts DEF Success
  <2>2. op.start + op.total + call.fields.written = op.start + total
    BY <1>3, <2>1
  <2> QED BY <1>1, <2>2, DoneTold DEF Told
<1>5. CASE MoveTo(op.start + total) /\ ReturnFrom([op EXCEPT !.total = total], total)
  <2>1. PICK pos : pos = op.start + total
    OBVIOUS
  <2> QED BY <1>1, <1>2, <1>4, <1>5, <2>1, PosMoved
<1>6. CASE /\ op' = [op EXCEPT !.at = "chunk", !.total = total]
           /\ call' = IdleCall /\ UNCHANGED <<file, disturbed, doubt>>
  <2>1. /\ op'.st = "busy" /\ op'.h = op.h /\ op'.ino = op.ino /\ op'.start = op.start
        /\ op'.total = total /\ op'.at = "chunk"
    BY <1>1, <1>2, <1>6 DEF IsHandler
  <2>2. CallTold'
    BY <1>6 DEF CallTold, IdleCall
  <2>3. file # NONE /\ op.ino = file.i_ino /\ Within(file.i_ino, op.start)
    BY <1>1, <1>2, FileFacts DEF Moving
  <2>4. op'.h # "link" /\ op'.at \notin CountCalls
    BY <1>2, <2>1 DEF CountCalls
  <2>5. Within(file.i_ino, op'.start + op'.total)
    BY <1>4, <2>1, <2>3
  <2> QED BY <1>1, <1>6, <2>1, <2>2, <2>3, <2>4, <2>5, PosGoes
<1> QED BY <1>3, <1>5, <1>6 DEF WriteOn

LEMMA WriteFailedPos == ASSUME NetInv, PosInv, WriteFailed PROVE PosInv'
<1>1. /\ op.st = "busy" /\ op.at = "write" /\ UNCHANGED dcache /\ UNCHANGED tree
  BY DEF WriteFailed, Waiting, Rest, tree
<1>2. op.h = "write" /\ op.h \in FileHandlers /\ IsHandler(op)
  BY <1>1, WaitingFacts DEF Calls, FileHandlers
<1>3. CASE MoveTo(op.start + op.total) /\ Return(op.total)
  <2>1. Within(op.ino, op.start + op.total)
    BY <1>1, <1>2, FileFacts DEF Moving
  <2>2. PICK pos, total : pos = op.start + op.total /\ total = op.total
    OBVIOUS
  <2>3. op = [op EXCEPT !.total = total]
    BY <1>2, <2>2 DEF IsHandler
  <2>4. ReturnFrom([op EXCEPT !.total = total], total)
    BY <1>3, <2>2, <2>3 DEF Return
  <2> QED BY <1>1, <1>2, <1>3, <2>1, <2>2, <2>4, PosMoved
<1>4. ASSUME NEW ret, Return(ret), UNCHANGED file PROVE PosInv'
  BY <1>1, <1>4, PosReturnsPlain
<1> QED BY <1>3, <1>4 DEF WriteFailed

\* Between handlers.
LEMMA RestPos ==
  ASSUME NetInv, PosInv, NEW k,
         Leave \/ vtfs_kill_sb \/ close \/ shrink(k) \/ vtfs_open(k)
  PROVE  PosInv'
<1>1. CASE Leave
  <2>1. call' = IdleCall /\ op'.st # "busy"
    BY <1>1 DEF Leave, Idle, NetInv, HandlerSound
  <2> QED BY <1>1, <2>1, PosRests DEF Leave, PosInv, NumbersUsed, PositionInFile
<1>2. CASE vtfs_kill_sb
  <2>1. call' = IdleCall /\ op'.st # "busy" /\ DOMAIN dcache' = {} /\ file' = NONE
    BY <1>2, IdleHasNoCall DEF vtfs_kill_sb, Idle, Empty
  <2> QED BY <1>2, <2>1, PosRests DEF vtfs_kill_sb
<1>3. CASE close
  <2>1. call' = IdleCall /\ op'.st # "busy" /\ file' = NONE
    BY <1>3, IdleHasNoCall DEF close, Idle
  <2> QED BY <1>3, <2>1, PosRests DEF close, PosInv, NumbersUsed
<1>4. CASE shrink(k)
  <2>1. call' = IdleCall /\ op'.st # "busy"
    BY <1>4, IdleHasNoCall DEF shrink, Idle
  <2> QED BY <1>4, <2>1, PosRests DEF shrink, Kept, PosInv, NumbersUsed, PositionInFile
<1>5. CASE vtfs_open(k)
  <2>1. call' = IdleCall /\ op'.st # "busy"
    BY <1>5, IdleHasNoCall DEF vtfs_open, Idle
  <2>2. file'.i_ino = dcache[k].i_ino /\ file'.f_pos = 0 /\ dcache[k].i_ino \in used
    BY <1>5 DEF vtfs_open, Positive, PosInv, NumbersUsed
  <2>3. Within(file'.i_ino, file'.f_pos)
    BY <2>2 DEF Within, NetInv, ServerSound
  <2> QED BY <1>5, <2>1, <2>2, <2>3, PosRests DEF vtfs_open, PosInv, NumbersUsed
<1> QED BY <1>1, <1>2, <1>3, <1>4, <1>5

LEMMA PosInvInit == NetInit => PosInv
BY DEF NetInit, Server!Init, Server!Unmounted, Server!Empty, Idle, IdleCall, Empty,
       PosInv, NumbersUsed, CallTold, PositionInFile

LEMMA PosInvStep == NetInv /\ PosInv /\ [NetNext]_net_vars => PosInv'
<1> SUFFICES ASSUME NetInv, PosInv, [NetNext]_net_vars PROVE PosInv'
  OBVIOUS
<1>1. CASE Continue
  <2>1. CASE vtfs_fill_super \/ Looked \/ Created \/ Linked
    BY <2>1, FillSuperPos, LookedPos, CreatedPos, LinkedPos
  <2>2. CASE LinksCounted \/ Removed \/ Iterated \/ ReadDone
    BY <2>2, LinksCountedPos, RemovedPos, IteratedPos, ReadDonePos
  <2>3. CASE WriteChunk \/ WriteOn \/ WriteFailed \/ Answered
    BY <2>3, WriteChunkPos, WriteOnPos, WriteFailedPos, AnsweredPos
  <2> QED BY <1>1, <2>1, <2>2, <2>3 DEF Continue
<1>2. CASE NetServe \/ Broken \/ NetServeLate \/ Remote
  BY <1>2, NetServePos, BrokenPos, ServeLatePos, RemotePos
<1>3. CASE Leave \/ vtfs_kill_sb \/ close
  BY <1>3, RestPos
<1>4. CASE \E data \in Data : vtfs_mount(data)
  BY <1>4, MountPos
<1>5. ASSUME NEW k \in Key,
             \/ vtfs_lookup(k) \/ vtfs_create(k) \/ vtfs_mkdir(k) \/ vtfs_unlink(k)
             \/ vtfs_rmdir(k) \/ shrink(k) \/ vtfs_open(k)
             \/ \E old \in DOMAIN dcache : vtfs_link(old, k)
      PROVE  PosInv'
  <2>1. CASE vtfs_lookup(k)
    BY <2>1, LookupPos
  <2>2. ASSUME NEW old, vtfs_create(k) \/ vtfs_mkdir(k) \/ vtfs_link(old, k)
        PROVE  PosInv'
    <3>1. CASE vtfs_create(k)
      BY <3>1, BeginNewPos DEF vtfs_create
    <3>2. CASE vtfs_mkdir(k)
      BY <3>2, BeginNewPos DEF vtfs_mkdir
    <3>3. CASE vtfs_link(old, k)
      BY <3>3, BeginNewPos DEF vtfs_link
    <3> QED BY <2>2, <3>1, <3>2, <3>3
  <2>3. CASE vtfs_unlink(k) \/ vtfs_rmdir(k)
    BY <2>3, BeginRemovePos
  <2>4. CASE shrink(k) \/ vtfs_open(k)
    BY <2>4, RestPos
  <2> QED BY <1>5, <2>1, <2>2, <2>3, <2>4
<1>6. CASE \E d \in Ino \cup {VTFS_ROOT_INO}, offset \in ListOffset : vtfs_iterate(d, offset)
  BY <1>6, IteratePos
<1>7. CASE \E len \in ReadLen : vtfs_read(len)
  BY <1>7, ReadPos
<1>8. CASE \E len \in WriteLen : vtfs_write(len)
  BY <1>8, WriteBeginPos
<1>9. CASE UNCHANGED net_vars
  <2>1. UNCHANGED <<dcache, file, op, call>> /\ UNCHANGED tree
    BY <1>9 DEF net_vars, tree
  <2>2. Grows
    BY <2>1, SameGrows DEF PosInv
  <2> QED BY <2>1, <2>2, PosStays, CallToldKept
<1> QED BY <1>1, <1>2, <1>3, <1>4, <1>5, <1>6, <1>7, <1>8, <1>9 DEF NetNext

-----------------------------------------------------------------------------
(* The theorems. *)

\* The tree, the caches, the handler at work, its request and what it has
\* learned fit each other in every state, whatever fails and whoever else
\* changes the server's tree.
THEOREM NetInvariance == NetSafety => []NetInv
<1>1. NetInit => NetInv
  BY NetInvInit
<1>2. NetInv /\ [NetNext]_net_vars => NetInv'
  BY NetInvStep
<1> QED BY <1>1, <1>2, PTL DEF NetSafety

\* The dentry cache names inodes that can exist, and every position lies in
\* what a loff_t holds: vtfs_write refuses the writes that would pass it.
THEOREM NetTypeCorrect == NetSafety => []NetTypeOK
<1>1. NetInv => NetTypeOK
  BY DEF NetInv, CacheSound, OpenFile, HandlerSound, NetTypeOK, NEG
<1> QED BY <1>1, NetInvariance, PTL

\* An answer that is lost, garbled, an error or late never makes the dentry
\* cache wrong of a name that is not in doubt (vtfs_lookup to vtfs_rmdir).
THEOREM CoherenceOutsideDoubt == NetSafety => []CoherentOutsideDoubt
<1>1. NetInv => CoherentOutsideDoubt
  BY DEF NetInv
<1> QED BY <1>1, NetInvariance, PTL

\* A handler that returns 0 undisturbed has had its way at the server
\* (vtfs_create, vtfs_mkdir, vtfs_link, vtfs_unlink, vtfs_rmdir, vtfs_mount).
THEOREM SuccessesAreDone == NetSafety => []SuccessIsDone
<1>1. NetInv => SuccessIsDone
  BY DEF NetInv
<1> QED BY <1>1, NetInvariance, PTL

\* What vtfs_net_storage_write has counted is in the file, byte by byte in its
\* place, through chunks of any size, their encoding, short writes and
\* failures, and the file position does not pass it.
THEOREM BytesCounted == NetSafety => []CountedBytesStored
<1>1. NetInv => CountedBytesStored
  BY DEF NetInv, HandlerSound, BytesWritten, CountedBytesStored
<1> QED BY <1>1, NetInvariance, PTL

\* The position of the open file, moved by reads of what there was and by
\* writes of any number of chunks, short or failed on the way, never passes
\* the end of the file, whoever else makes, links or removes names and whenever
\* a request given up arrives (vtfs_read, vtfs_write, vtfs_net_storage_write).
THEOREM PositionsInFile == NetSafety => []PositionInFile
<1>1. NetInit => PosInv
  BY PosInvInit
<1>2. NetInv /\ NetInv' /\ PosInv /\ [NetNext]_net_vars => PosInv'
  BY PosInvStep
<1>3. PosInv => PositionInFile
  BY DEF PosInv
<1>4. NetSafety => []PosInv
  BY <1>1, <1>2, NetInvariance, PTL DEF NetSafety
<1> QED BY <1>3, <1>4, PTL

=============================================================================
