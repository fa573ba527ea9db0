------------------------------ MODULE NetStorage ------------------------------
(***************************************************************************)
(* The net storage (source/impl/net/vtfs_net_impl.c): each operation of    *)
(* struct vtfs_storage_ops is a request to a server that holds the tree.   *)
(* The server is external: it promises FsSpec, performs a request or       *)
(* refuses it with an error code, and may write less than it was asked to. *)
(* An operation is here the request it makes and what it makes of the      *)
(* result; NetVtfs has the steps between.  Modes and parent numbers, which *)
(* nothing reads back, are left out.                                       *)
(***************************************************************************)
EXTENDS Http, Base64, FiniteSets

CONSTANTS
  Name,            \* names the processes and the other clients use
  Ino,             \* inode numbers that the server may give out
  MAX_CHUNK_SIZE,  \* bytes that one write request carries (4096 in the code)
  RefusalCode,     \* error codes that the server answers
  Garbled          \* answers that are not what the server meant

VARIABLES entry, kind, content, used   \* the server's, as in FsSpec

VTFS_ROOT_INO == 1000

Server == INSTANCE FsSpec WITH Root <- VTFS_ROOT_INO, Offset <- {}, Buffer <- {}

tree == <<entry, kind, content, used>>

\* vtfs_get_inode takes the number as an int, so one above it would name
\* another file in every later request.
ASSUME InoAssumption    == Ino \subseteq (VTFS_ROOT_INO + 1)..INT_MAX
ASSUME ChunkAssumption  == MAX_CHUNK_SIZE \in Nat \ {0}
ASSUME RefusalAssumption == RefusalCode \subseteq Nat \ {0}

-----------------------------------------------------------------------------
(* Requests. *)

RESPONSE_SIZE == 1024

Ask(method)                 == vtfs_http_call([method |-> method], RESPONSE_SIZE)
AskOf(method, parent, name) ==
  vtfs_http_call([method |-> method, parent |-> parent, name |-> name], RESPONSE_SIZE)

init     == Ask("init")
get_root == Ask("get_root")
lookup(parent, name)      == AskOf("lookup", parent, name)
create_file(parent, name) == AskOf("create_file", parent, name)
create_dir(parent, name)  == AskOf("mkdir", parent, name)
unlink(parent, name)      == AskOf("unlink", parent, name)
rmdir(parent, name)       == AskOf("rmdir", parent, name)
iterate_dir(dir_ino, offset) ==
  vtfs_http_call([method |-> "iterate_dir", dir_ino |-> dir_ino, offset |-> offset],
                 RESPONSE_SIZE)
link(target_ino, parent, name) ==
  vtfs_http_call([method |-> "link", target_ino |-> target_ino, parent |-> parent,
                  name |-> name], RESPONSE_SIZE)
count_links(ino) == vtfs_http_call([method |-> "count_links", ino |-> ino], 256)

\* The response buffer is as long as what is read.
read(ino, len, offset) ==
  \/ Done(-ENOMEM, NoFields)
  \/ vtfs_http_call([method |-> "read", ino |-> ino, len |-> len, offset |-> offset],
                    len + RESPONSE_SIZE)

write_chunk(ino, chunk, offset) ==
  vtfs_http_call([method |-> "write", ino |-> ino, len |-> Len(chunk),
                  offset |-> offset, data |-> base64_encode(chunk)], 256)

\* What the operations return for a result of vtfs_http_call: 0, what the
\* client could not do (below zero), or the server's error code.
init_result(result)   == IF result = EEXIST THEN 0 ELSE result
\* vtfs_net_storage_lookup and vtfs_net_storage_iterate_dir.
lookup_result(result) == IF result = ENOENT THEN -ENOENT ELSE result

-----------------------------------------------------------------------------
(* The server. *)

HasEntry(k)  == k \in DOMAIN entry
EntryType(k) == kind[entry[k]]

\* The server does what is asked, n bytes of it if it is a write.
Performs(req, n) ==
  CASE req.method = "init"        -> Server!Mount
    [] req.method = "get_root"    -> Server!Mounted /\ UNCHANGED tree
    [] req.method = "lookup"      -> HasEntry(<<req.parent, req.name>>) /\ UNCHANGED tree
    [] req.method = "create_file" -> Server!Add(req.parent, req.name, "FILE")
    [] req.method = "mkdir"       -> Server!Add(req.parent, req.name, "DIR")
    [] req.method = "link"        -> Server!Link(req.target_ino, req.parent, req.name)
    [] req.method = "unlink" -> /\ HasEntry(<<req.parent, req.name>>)
                                /\ EntryType(<<req.parent, req.name>>) = "FILE"
                                /\ Server!Remove(req.parent, req.name)
    [] req.method = "rmdir"  -> /\ HasEntry(<<req.parent, req.name>>)
                                /\ EntryType(<<req.parent, req.name>>) = "DIR"
                                /\ Server!Remove(req.parent, req.name)
    [] req.method = "write"  ->
         /\ Server!IsFile(req.ino)
         /\ IF n = 0 THEN UNCHANGED tree
            ELSE Server!Write(req.ino, req.offset, base64_decode(req.data, n))
    [] req.method = "iterate_dir" ->
         Cardinality(Server!Children(req.dir_ino)) > req.offset /\ UNCHANGED tree
    [] OTHER -> Server!IsFile(req.ino) /\ UNCHANGED tree

\* The lengths of a write the server may choose.
Amounts(req) == IF req.method = "write" THEN 0..req.len ELSE {0}

Min2(a, b) == IF a < b THEN a ELSE b

\* What the client reads out of an answer about a node.
parse_node_meta(ino) == [NoFields EXCEPT !.ino = ino, !.type = kind'[ino]]

\* What the server answers then: a node, the bytes, the count written.
FieldsOf(req, n) ==
  CASE req.method \in {"lookup", "create_file", "mkdir"} ->
         parse_node_meta(entry'[<<req.parent, req.name>>])
    [] req.method = "get_root" -> parse_node_meta(VTFS_ROOT_INO)
    [] req.method = "write"    -> [NoFields EXCEPT !.written = n]
    [] req.method = "read"     ->
         [NoFields EXCEPT !.bytes = SubSeq(content[req.ino], req.offset + 1,
                                Min2(req.offset + req.len, Len(content[req.ino])))]
    [] OTHER -> NoFields

\* The error codes of a request that is not performed.
Refusals(req) ==
  RefusalCode \cup (IF req.method = "init" /\ Server!Mounted THEN {EEXIST} ELSE {})

\* A whole answer: its length is that of any answer that fits.
Whole(value, fields) ==
  [status |-> 200, length |-> 38, received |-> 38, value |-> value, fields |-> fields]

Answer(answer) ==
  call' = [st |-> "answered", size |-> call.size, answer |-> answer]

\* The request is performed or refused; its answer arrives whole or garbled.
Serve ==
  /\ call.st = "sent"
  /\ \/ \E n \in Amounts(call.req) :
          /\ Performs(call.req, n)
          /\ \/ Answer(Whole(0, FieldsOf(call.req, n)))
             \/ \E answer \in Garbled : Answer(answer)
     \/ /\ UNCHANGED tree
        /\ \/ \E code \in Refusals(call.req) : Answer(Whole(code, NoFields))
           \/ \E answer \in Garbled : Answer(answer)

\* The request that was given up arrives after all; or it never will.
ServeLate ==
  /\ late # NONE /\ late' = NONE
  /\ \/ \E n \in Amounts(late) : Performs(late, n)
     \/ UNCHANGED tree
=============================================================================
