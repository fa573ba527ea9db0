-------------------------------- MODULE NetVtfs --------------------------------
(***************************************************************************)
(* Mounting, and the handlers of source/vtfs.c over the net storage.  A    *)
(* handler is several steps here: it makes one or more HTTP calls, and     *)
(* while it waits other clients of the server, and requests that this one  *)
(* has given up, change the tree that the kernel's dentries describe.      *)
(*                                                                         *)
(* Handlers of this client run one at a time, as under one directory's     *)
(* lock; other processes are Remote's.  The VFS's part is as in Vtfs.      *)
(* Sizes and link counts of inodes are left out: count_links is asked, its *)
(* answer not kept.  doubt and disturbed only watch.                       *)
(***************************************************************************)
EXTENDS NetStorage

CONSTANTS
  Data,           \* the data argument of mount: NONE, or an options string
  MAX_TOKEN_LEN,
  UserBytes,      \* the bytes that users write, from the first on
  WriteLen,       \* the lengths of their writes, and of reads
  ReadLen,
  ListOffset,     \* places in a directory that a listing has come to
  LateMethod,     \* requests that may arrive late
  LOFF_MAX,       \* greatest loff_t
  MaxOutside      \* bound: changes by other clients and requests arriving late

ASSUME NetVtfsAssumption ==
  /\ LOFF_MAX \in Nat /\ MaxOutside \in Nat
  /\ WriteLen \subseteq 1..Len(UserBytes) /\ \A len \in WriteLen : len <= LOFF_MAX
  /\ ListOffset \subseteq Nat /\ ReadLen \subseteq Nat /\ UserBytes \in Seq(0..255)

\* The buffers that the operations give for a response; the VFS keeps a read
\* below INT_MAX by a page (MAX_RW_COUNT).
BufferSize == {256, RESPONSE_SIZE} \cup {len + RESPONSE_SIZE : len \in ReadLen}
ASSUME BufferAssumption == \A size \in BufferSize : size + 8 <= INT_MAX

\* Garbled is what has not the form of an answer that fits the buffer.  A body
\* that has the form but is shorter than the fields asked for is left out: the
\* client accepts it unchecked (vtfs_net_impl.c:92, 133, 249).
ASSUME GarbledAssumption == \A answer \in Garbled :
  /\ answer.status \in Int /\ answer.value \in Int /\ answer.received \in 0..INT_MAX
  /\ answer.length \in (-INT_MAX - 1)..INT_MAX
  /\ ~ \E size \in BufferSize : /\ answer.status = 200 /\ answer.length \in 8..(size + 8)
                                /\ answer.length <= answer.received

VARIABLES
  sb,         \* the super block: its token and the root's number; or NONE
  dcache,     \* hashed dentries: from <<directory, name>> to an inode or NEG
  file,       \* the file that is open: i_ino, its dentry's key, f_pos; or NONE
  op,         \* the handler that runs: which, for what, how far
  doubt,      \* names that the server changed without the handler's success
  disturbed,  \* someone else changed the tree since the handler began
  outside     \* changes by other clients and late requests so far

client   == <<sb, dcache, file>>
watch    == <<doubt, disturbed, outside>>
net_vars == <<call, late, entry, kind, content, used, sb, dcache, file, op,
              doubt, disturbed, outside>>

NEG    == [i_ino |-> 0, type |-> "NEG"]
NO_KEY == <<0, "">>
Key    == (Ino \cup {VTFS_ROOT_INO}) \X Name
Idle   == [st |-> "idle"]
Empty  == [k \in {} |-> NEG]

vtfs_get_inode(fields) == [i_ino |-> fields.ino, type |-> fields.type]

Positive(k) == k \in DOMAIN dcache /\ dcache[k] # NEG
HasDir(d) == d = sb.root \/ \E k \in DOMAIN dcache :
               dcache[k].i_ino = d /\ dcache[k].type = "DIR"
Kept(S) == [k \in S |-> dcache[k]]
Hashed(k, inode) == [c \in DOMAIN dcache \cup {k} |-> IF c = k THEN inode ELSE dcache[c]]

-----------------------------------------------------------------------------
(* A handler and its calls. *)

Handler(h, k) ==
  [st |-> "busy", h |-> h, at |-> "begin", k |-> k, ino |-> 0,
   inode |-> NEG, buf |-> <<>>, start |-> 0, total |-> 0, ret |-> 0]

\* The handler begins, and at once makes the first call, named at.
Begin(handler, at) ==
  /\ op = Idle /\ sb # NONE
  /\ op' = [handler EXCEPT !.at = at]
  /\ disturbed' = FALSE
  /\ UNCHANGED <<late, sb, dcache, file, doubt, outside>> /\ UNCHANGED tree

\* A call has ended, and the handler makes the next one, named at.
Then(at) == op' = [op EXCEPT !.at = at] /\ UNCHANGED <<disturbed, doubt>>

Waiting(at) == op.st = "busy" /\ op.at = at /\ call.st = "done"

\* The handler returns.  When it succeeds undisturbed, what the kernel holds
\* of the name is the server's again.
ReturnFrom(handler, ret) ==
  /\ op' = [handler EXCEPT !.st = "returned", !.ret = ret]
  /\ call' = IdleCall
  /\ doubt' = IF ret = 0 /\ ~disturbed THEN doubt \ {op.k} ELSE doubt
  /\ UNCHANGED disturbed
Return(ret) == ReturnFrom(op, ret)

\* The process that called takes what the handler returned.
Leave ==
  /\ op.st = "returned" /\ op' = Idle /\ disturbed' = FALSE
  /\ doubt' = doubt \cap DOMAIN dcache
  /\ UNCHANGED <<call, late, sb, dcache, file, outside>> /\ UNCHANGED tree

-----------------------------------------------------------------------------
(* Mounting: vtfs_mount, vtfs_fill_super, vtfs_kill_sb. *)

TokenOf(data) == IF data = NONE THEN "REMOUNT" ELSE data

\* vtfs_mount hands on data and not the token that the user named.
vtfs_mount(data) ==
  /\ op = Idle /\ sb = NONE
  /\ op' = [Handler("mount", NO_KEY) EXCEPT
              !.at = "init", !.buf = TokenOf(data)]
  /\ \/ Done(-ENOMEM, NoFields)
     \/ Len(TokenOf(data)) >= MAX_TOKEN_LEN /\ Done(-EINVAL, NoFields)
     \/ Len(TokenOf(data)) < MAX_TOKEN_LEN /\ init
  /\ disturbed' = FALSE
  /\ UNCHANGED <<late, sb, dcache, file, doubt, outside>> /\ UNCHANGED tree

\* vtfs_fill_super after init, and after get_root; a failure shuts down.
vtfs_fill_super ==
  /\ \/ /\ Waiting("init")
        /\ \/ init_result(call.result) # 0 /\ Return(init_result(call.result))
           \/ init_result(call.result) = 0 /\ get_root /\ Then("get_root")
        /\ UNCHANGED sb
     \/ /\ Waiting("get_root")
        /\ \/ call.result # 0 /\ Return(call.result) /\ UNCHANGED sb
           \/ call.result = 0 /\ Return(-ENOMEM) /\ UNCHANGED sb
           \/ /\ call.result = 0 /\ Return(0)
              /\ sb' = [token |-> op.buf, root |-> call.fields.ino]
  /\ UNCHANGED <<late, dcache, file, outside>> /\ UNCHANGED tree

vtfs_kill_sb ==
  /\ op = Idle /\ sb # NONE /\ file = NONE
  /\ sb' = NONE /\ dcache' = Empty /\ doubt' = {}
  /\ UNCHANGED <<call, late, file, op, disturbed, outside>> /\ UNCHANGED tree
-----------------------------------------------------------------------------
(* Names. *)

\* What stays the same while a handler runs and its calls are answered.
Rest == <<late, sb, outside, entry, kind, content, used>>

vtfs_lookup(k) ==
  /\ Begin(Handler("lookup", k), "lookup")
  /\ HasDir(k[1]) /\ k \notin DOMAIN dcache
  /\ lookup(k[1], k[2])

\* The request of vtfs_create, vtfs_mkdir, vtfs_link, vtfs_unlink, vtfs_rmdir.
Method(h) == CASE h = "create" -> "create_file" [] OTHER -> h
Request(h, k, target_ino) ==
  CASE h = "create" -> create_file(k[1], k[2])
    [] h = "mkdir"  -> create_dir(k[1], k[2])
    [] h = "link"   -> link(target_ino, k[1], k[2])
    [] h = "unlink" -> unlink(k[1], k[2])
    [] h = "rmdir"  -> rmdir(k[1], k[2])

\* The VFS looks the name up before it has it made, unless it knows it is not
\* there; old is the name that a link is made from.
BeginNew(h, k, old) ==
  LET inode == IF h = "link" THEN dcache[old] ELSE NEG
      handler == [Handler(h, k) EXCEPT !.inode = inode]
  IN /\ HasDir(k[1])
     /\ \/ k \notin DOMAIN dcache /\ Begin(handler, "lookup") /\ lookup(k[1], k[2])
        \/ /\ k \in DOMAIN dcache /\ dcache[k] = NEG
           /\ Begin(handler, Method(h)) /\ Request(h, k, inode.i_ino)

vtfs_create(k) == sb # NONE /\ BeginNew("create", k, NO_KEY)
vtfs_mkdir(k)  == sb # NONE /\ BeginNew("mkdir", k, NO_KEY)
vtfs_link(old, k) ==
  /\ sb # NONE /\ Positive(old) /\ dcache[old].type = "FILE"
  /\ BeginNew("link", k, old)

\* The end of vtfs_lookup: an error, or no memory for the inode, looks like a
\* name that does not exist, and the creation that waits for it goes on.
Looked ==
  /\ Waiting("lookup")
  /\ \/ /\ lookup_result(call.result) = 0 /\ call.fields.type = "FILE"
        /\ count_links(call.fields.ino)
        /\ op' = [op EXCEPT !.at = "count_found", !.inode = vtfs_get_inode(call.fields)]
        /\ UNCHANGED <<disturbed, doubt, dcache>>
     \/ /\ lookup_result(call.result) = 0 /\ call.fields.type = "DIR"
        /\ dcache' = Hashed(op.k, vtfs_get_inode(call.fields))
        /\ Return(IF op.h = "lookup" THEN 0 ELSE -EEXIST)
     \/ op.h = "lookup" /\ Return(-ENOENT) /\ UNCHANGED dcache
     \/ /\ op.h # "lookup" /\ Then(Method(op.h))
        /\ Request(op.h, op.k, op.inode.i_ino) /\ UNCHANGED dcache
  /\ UNCHANGED file /\ UNCHANGED Rest

\* vtfs_create and vtfs_mkdir once the storage has answered.
Created ==
  /\ Waiting("create_file") \/ Waiting("mkdir")
  /\ \/ call.result # 0 /\ Return(call.result) /\ UNCHANGED dcache
     \/ call.result = 0 /\ Return(-ENOMEM) /\ UNCHANGED dcache
     \/ /\ call.result = 0 /\ op.at = "mkdir"
        /\ dcache' = Hashed(op.k, vtfs_get_inode(call.fields))
        /\ Return(0)
     \/ /\ call.result = 0 /\ op.at = "create_file"
        /\ count_links(call.fields.ino)
        /\ op' = [op EXCEPT !.at = "count_made", !.inode = vtfs_get_inode(call.fields)]
        /\ UNCHANGED <<disturbed, doubt, dcache>>
  /\ UNCHANGED file /\ UNCHANGED Rest

Linked ==
  /\ Waiting("link")
  /\ \/ call.result # 0 /\ Return(call.result)
     \/ call.result = 0 /\ count_links(op.inode.i_ino) /\ Then("count_linked")
  /\ UNCHANGED <<dcache, file>> /\ UNCHANGED Rest

\* The links are counted or not (an error counts 0): d_add, or d_instantiate,
\* which shows the name only if its dentry is hashed.
LinksCounted ==
  /\ \/ /\ Waiting("count_found")
        /\ dcache' = Hashed(op.k, op.inode)
        /\ Return(IF op.h = "lookup" THEN 0 ELSE -EEXIST)
     \/ Waiting("count_made") /\ dcache' = Hashed(op.k, op.inode) /\ Return(0)
     \/ /\ Waiting("count_linked")
        /\ dcache' = IF op.k \in DOMAIN dcache THEN Hashed(op.k, op.inode) ELSE dcache
        /\ Return(0)
  /\ UNCHANGED file /\ UNCHANGED Rest

vtfs_unlink(k) ==
  /\ Begin(Handler("unlink", k), "unlink")
  /\ Positive(k) /\ dcache[k].type = "FILE"
  /\ Request("unlink", k, 0)

vtfs_rmdir(k) ==
  /\ Begin(Handler("rmdir", k), "rmdir")
  /\ Positive(k) /\ dcache[k].type = "DIR"
  /\ Request("rmdir", k, 0)

\* The dentries below a removed directory go, but for that of an open file.
Below(k) == {c \in DOMAIN dcache : c[1] = dcache[k].i_ino /\ dcache[k].type = "DIR"
                                   /\ ~(file # NONE /\ file.key = c)}

d_delete(k) ==
  IF file # NONE /\ file.key = k
  THEN dcache' = Kept(DOMAIN dcache \ {k}) /\ file' = [file EXCEPT !.key = NO_KEY]
  ELSE dcache' = [c \in DOMAIN dcache \ Below(k) |-> IF c = k THEN NEG ELSE dcache[c]]
       /\ UNCHANGED file

RemovedAnyhow ==   \* mutant: what the storage returned is not consulted
  /\ Waiting("unlink") \/ Waiting("rmdir")
  /\ Return(call.result) /\ d_delete(op.k)
  /\ UNCHANGED Rest
Removed ==
  /\ Waiting("unlink") \/ Waiting("rmdir")
  /\ Return(call.result)
  /\ \/ call.result # 0 /\ UNCHANGED <<dcache, file>>
     \/ call.result = 0 /\ d_delete(op.k)
  /\ UNCHANGED Rest

\* vtfs_iterate over entry number offset: an error ends the listing like its
\* end does; total is 1 if an entry was emitted.
vtfs_iterate(d, offset) ==
  /\ Begin(Handler("iterate", NO_KEY), "iterate_dir")
  /\ HasDir(d) /\ iterate_dir(d, offset)
Iterated ==
  /\ Waiting("iterate_dir")
  /\ ReturnFrom([op EXCEPT !.total = IF lookup_result(call.result) = 0 THEN 1 ELSE 0], 0)
  /\ UNCHANGED <<dcache, file>> /\ UNCHANGED Rest

\* Memory pressure takes a dentry that no file and no cached child uses.
shrink(k) ==
  /\ op = Idle /\ k \in DOMAIN dcache
  /\ ~(file # NONE /\ file.key = k)
  /\ Positive(k) => \A c \in DOMAIN dcache : c[1] # dcache[k].i_ino
  /\ dcache' = Kept(DOMAIN dcache \ {k}) /\ doubt' = doubt \ {k}
  /\ UNCHANGED <<call, late, sb, file, op, disturbed, outside>> /\ UNCHANGED tree

-----------------------------------------------------------------------------
(* Files. *)

vtfs_open(k) ==
  /\ op = Idle /\ file = NONE /\ Positive(k) /\ dcache[k].type = "FILE"
  /\ file' = [i_ino |-> dcache[k].i_ino, key |-> k, f_pos |-> 0]
  /\ UNCHANGED <<call, late, sb, dcache, op, doubt, disturbed, outside>> /\ UNCHANGED tree

close ==
  /\ op = Idle /\ file # NONE /\ file' = NONE
  /\ UNCHANGED <<call, late, sb, dcache, op, doubt, disturbed, outside>> /\ UNCHANGED tree

FileHandler(h) ==
  [Handler(h, NO_KEY) EXCEPT !.ino = file.i_ino, !.start = file.f_pos]

MoveTo(pos) == file' = [file EXCEPT !.f_pos = pos]

vtfs_read(len) ==
  /\ file # NONE
  /\ Begin([FileHandler("read") EXCEPT !.total = len], "read")
  /\ read(file.i_ino, len, file.f_pos)

ReadMovesByLen ==   \* mutant: the position moves by what was asked for
  /\ Waiting("read")
  /\ \/ call.result # 0 /\ Return(call.result) /\ UNCHANGED file
     \/ call.result = 0 /\ MoveTo(op.start + op.total) /\ Return(Len(call.fields.bytes))
  /\ UNCHANGED dcache /\ UNCHANGED Rest
ReadDone ==
  /\ Waiting("read")
  /\ \/ call.result # 0 /\ Return(call.result) /\ UNCHANGED file
     \/ call.result = 0 /\ Return(-EFAULT) /\ UNCHANGED file
     \/ LET copied == Min2(Len(call.fields.bytes), op.total) IN
        call.result = 0 /\ MoveTo(op.start + copied) /\ Return(copied)
  /\ UNCHANGED dcache /\ UNCHANGED Rest

\* A sum of two loff_t's that does not fit wraps below zero.
vtfs_validate_io_params(offset, len) == IF offset + len > LOFF_MAX THEN EFBIG ELSE 0

WriteUnvalidated(len) ==   \* mutant: the end of the write is not checked
  /\ file # NONE
  /\ Begin([FileHandler("write") EXCEPT !.buf = SubSeq(UserBytes, 1, len)], "chunk")
  /\ UNCHANGED call
vtfs_write(len) ==
  /\ file # NONE
  /\ LET err == vtfs_validate_io_params(file.f_pos, len) IN
     \/ /\ err # 0
        /\ Begin([FileHandler("write") EXCEPT !.st = "returned", !.ret = -err], "chunk")
     \/ /\ err = 0
        /\ Begin([FileHandler("write") EXCEPT !.buf = SubSeq(UserBytes, 1, len)], "chunk")
  /\ UNCHANGED call

NextChunk ==
  SubSeq(op.buf, op.total + 1, Min2(op.total + MAX_CHUNK_SIZE, Len(op.buf)))

\* The loop's body up to the call.  A failed allocation or copy returns what
\* was written so far, and leaves *offset where it was.
WriteChunk ==
  /\ op.st = "busy" /\ op.at = "chunk"
  /\ \/ \E errno \in {ENOMEM, EFAULT} : Return(IF op.total > 0 THEN op.total ELSE -errno)
     \/ write_chunk(op.ino, NextChunk, op.start + op.total) /\ Then("write")
  /\ UNCHANGED <<dcache, file>> /\ UNCHANGED Rest

WriteAgain ==   \* mutant: a short write does not end the loop
  /\ Waiting("write") /\ call.result = 0
  /\ LET total == op.total + call.fields.written IN
     \/ total = Len(op.buf) /\ MoveTo(op.start + total)
        /\ ReturnFrom([op EXCEPT !.total = total], total)
     \/ /\ total < Len(op.buf)
        /\ op' = [op EXCEPT !.at = "chunk", !.total = total]
        /\ call' = IdleCall /\ UNCHANGED <<file, disturbed, doubt>>
  /\ UNCHANGED dcache /\ UNCHANGED Rest
\* A whole chunk is followed by the next; a short one ends the loop.
WriteOn ==
  /\ Waiting("write") /\ call.result = 0
  /\ LET total == op.total + call.fields.written
         last  == call.fields.written < Len(NextChunk) \/ total = Len(op.buf)
     IN \/ last /\ MoveTo(op.start + total) /\ ReturnFrom([op EXCEPT !.total = total], total)
        \/ /\ ~last
           /\ op' = [op EXCEPT !.at = "chunk", !.total = total]
           /\ call' = IdleCall /\ UNCHANGED <<file, disturbed, doubt>>
  /\ UNCHANGED dcache /\ UNCHANGED Rest

\* The call failed: what was written so far counts; if that is nothing, the
\* result of the call is returned, be it an error code of the server.
WriteFailed ==
  /\ Waiting("write") /\ call.result # 0
  /\ \/ op.total > 0 /\ MoveTo(op.start + op.total) /\ Return(op.total)
     \/ op.total = 0 /\ Return(call.result) /\ UNCHANGED file
  /\ UNCHANGED dcache /\ UNCHANGED Rest

-----------------------------------------------------------------------------
(* Everyone else. *)

NameHolds(k) == IF HasEntry(k) THEN <<entry[k], EntryType(k)>> ELSE <<>>
\* Only names that the kernel holds, or is about to, are of interest.
Changed ==
  {k \in DOMAIN dcache \cup (IF op = Idle \/ op.k = NO_KEY THEN {} ELSE {op.k}) :
     NameHolds(k) # NameHolds(k)'}

\* Another client changes the tree.
Remote ==
  /\ sb # NONE /\ outside < MaxOutside /\ outside' = outside + 1
  /\ \E d \in Ino \cup {VTFS_ROOT_INO}, name \in Name :
       \/ Server!Add(d, name, "FILE") \/ Server!Remove(d, name)
       \/ \E i \in Ino : Server!Link(i, d, name)
  /\ doubt' = doubt \cup Changed
  /\ disturbed' = (op # Idle)
  /\ UNCHANGED <<call, late, sb, dcache, file, op>>

NetServe ==
  /\ Serve
  /\ doubt' = doubt \cup Changed
  /\ UNCHANGED <<late, sb, dcache, file, op, disturbed, outside>>

NetServeLate ==
  /\ ServeLate
  /\ doubt' = doubt \cup Changed
  /\ disturbed' = (disturbed \/ (op # Idle /\ tree' # tree))
  /\ UNCHANGED <<call, sb, dcache, file, op, outside>>

Answered ==
  Receive /\ UNCHANGED <<sb, dcache, file, op, doubt, disturbed, outside>> /\ UNCHANGED tree

\* A late request that only reads would change nothing.
Broken ==
  /\ GiveUp
  /\ outside' = IF late' = late THEN outside ELSE outside + 1
  /\ outside' <= MaxOutside
  /\ late' # late => late'.method \in LateMethod
  /\ UNCHANGED <<sb, dcache, file, op, doubt, disturbed>>
  /\ UNCHANGED tree

-----------------------------------------------------------------------------

NetInit ==
  /\ Server!Init
  /\ call = IdleCall /\ late = NONE
  /\ sb = NONE /\ dcache = Empty /\ file = NONE /\ op = Idle
  /\ doubt = {} /\ disturbed = FALSE /\ outside = 0

\* What goes on once a handler has begun: the kernel runs it to its end.
Continue ==
  \/ vtfs_fill_super \/ Looked \/ Created \/ Linked \/ LinksCounted \/ Removed
  \/ Iterated \/ ReadDone \/ WriteChunk \/ WriteOn \/ WriteFailed \/ Answered

NetNext ==
  \/ Continue \/ NetServe \/ Broken \/ NetServeLate \/ Remote \/ Leave
  \/ \E data \in Data : vtfs_mount(data)
  \/ vtfs_kill_sb
  \/ \E k \in Key :
       \/ vtfs_lookup(k) \/ vtfs_create(k) \/ vtfs_mkdir(k) \/ vtfs_unlink(k)
       \/ vtfs_rmdir(k) \/ shrink(k) \/ vtfs_open(k)
       \/ \E old \in DOMAIN dcache : vtfs_link(old, k)
  \/ \E d \in Ino \cup {VTFS_ROOT_INO}, offset \in ListOffset : vtfs_iterate(d, offset)
  \/ close
  \/ \E len \in ReadLen : vtfs_read(len)
  \/ \E len \in WriteLen : vtfs_write(len)

NetSafety == NetInit /\ [][NetNext]_net_vars

\* The kernel goes on with a handler that can go on; the server answers, or
\* closes, every connection it has accepted.
NetSpec == NetSafety /\ WF_net_vars(Continue) /\ WF_net_vars(NetServe)

-----------------------------------------------------------------------------
(* Properties. *)

\* The caches are well formed; no position of a file goes past what a loff_t
\* holds (vtfs_write).
NetTypeOK ==
  /\ \A k \in DOMAIN dcache : k \in Key /\ dcache[k].i_ino \in Ino \cup {0}
  /\ file # NONE => file.f_pos \in 0..LOFF_MAX
  /\ doubt \subseteq Key
  /\ call.st \in {"idle", "sent", "answered", "done"}
  /\ op.st \in {"idle", "busy", "returned"}
  /\ op.st # "busy" => call = IdleCall

\* The position of the open file, moved by reads, by writes of several chunks
\* and by writes that end half way, never goes past what the server has of
\* the file, as long as the server has it: no write leaves a hole.
Within(ino, pos) == ino \in DOMAIN content => pos <= Len(content[ino])
PositionInFile == file # NONE => Within(file.i_ino, file.f_pos)

DentrySays(inode) == IF inode = NEG THEN <<>> ELSE <<inode.i_ino, inode.type>>

\* Whatever the handlers remember of a name is what the server holds, except
\* for the names that another client changed, that a request given up changed
\* late, or that a call changed and then failed: an answer that is lost,
\* garbled or an error never puts a wrong name into the dentry cache.
CoherentOutsideDoubt ==
  \A k \in DOMAIN dcache \ doubt : NameHolds(k) = DentrySays(dcache[k])

Achieved ==
  CASE op.h = "create" -> HasEntry(op.k) /\ EntryType(op.k) = "FILE"
    [] op.h = "mkdir"  -> HasEntry(op.k) /\ EntryType(op.k) = "DIR"
    [] op.h = "link"   -> HasEntry(op.k) /\ entry[op.k] = op.inode.i_ino
    [] op.h \in {"unlink", "rmdir"} -> ~HasEntry(op.k)
    [] op.h = "mount"  -> Server!Mounted /\ sb.root = VTFS_ROOT_INO
    [] OTHER -> TRUE

\* When a handler that changes names returns 0, the server has done what was
\* asked, unless someone else has changed the tree since: no error, garbled
\* or cut answer passes for a success (vtfs_create to vtfs_mount).
SuccessIsDone == op.st = "returned" /\ op.ret = 0 /\ ~disturbed => Achieved

\* The bytes that vtfs_net_storage_write has counted are in the file, in
\* their places, through all its chunks, short writes and failures; and the
\* file's position never passes them.
Stored(n) ==
  \A b \in 1..n : /\ Server!IsFile(op.ino) /\ b <= Len(op.buf)
                  /\ op.start + b <= Len(content[op.ino])
                  /\ content[op.ino][op.start + b] = op.buf[b]
CountedBytesStored ==
  op # Idle /\ op.h = "write" /\ ~disturbed =>
    Stored(op.total) /\ file.f_pos \in op.start..(op.start + op.total)

\* Every handler returns, however many calls it makes and whatever becomes
\* of them; receive_all has no timeout, so this needs the server's fairness.
CallsEnd == op.st = "busy" ~> op.st = "returned"

\* Violated.  What a write has acknowledged is in the file (demo.sh, the
\* comparison after dd): a positive result is a count of stored bytes.
AckedBytesStored ==
  op.st = "returned" /\ op.h = "write" /\ ~disturbed => Stored(op.ret)

-----------------------------------------------------------------------------
(* The inductive invariant. *)

\* The server's tree: entries lead to files and directories it has made.
ServerSound ==
  /\ \A k \in DOMAIN entry : entry[k] \in Ino
  /\ \A i \in DOMAIN kind : kind[i] = "FILE" => i \in Ino /\ i \in DOMAIN content
  /\ \A i \in DOMAIN content : content[i] \in Seq(Nat) /\ Len(content[i]) <= LOFF_MAX

\* A request given up was one of ours: a write stays within the bound.
LateSound == late # NONE /\ late.method = "write" =>
  /\ late.offset \in Nat /\ late.len \in Nat /\ late.offset + late.len <= LOFF_MAX
  /\ late.data \in Seq(Nat)

OpenFile ==
  /\ file = [i_ino |-> file.i_ino, key |-> file.key, f_pos |-> file.f_pos]
  /\ file.f_pos \in 0..LOFF_MAX

CacheSound ==
  /\ \A k \in DOMAIN dcache : k \in Key /\ (dcache[k] = NEG \/ dcache[k].i_ino \in Ino)
  /\ doubt \subseteq Key
  /\ file # NONE => OpenFile

\* Which calls a handler makes; "chunk" is the body of the write loop.
FileHandlers == {"read", "write"}
Calls ==
  ({"lookup", "create", "mkdir", "link"} \X {"lookup", "count_found"}) \cup
  {<<"create", "create_file">>, <<"create", "count_made">>, <<"mkdir", "mkdir">>,
   <<"link", "link">>, <<"link", "count_linked">>, <<"unlink", "unlink">>,
   <<"rmdir", "rmdir">>, <<"mount", "init">>, <<"mount", "get_root">>,
   <<"iterate", "iterate_dir">>, <<"read", "read">>, <<"write", "chunk">>,
   <<"write", "write">>}

IsHandler(p) ==
  p = [st |-> p.st, h |-> p.h, at |-> p.at, k |-> p.k, ino |-> p.ino, inode |-> p.inode,
       buf |-> p.buf, start |-> p.start, total |-> p.total, ret |-> p.ret]

HandlerSound ==
  /\ call.st \in {"idle", "sent", "answered", "done"}
  /\ op.st \in {"idle", "busy", "returned"}
  /\ op.st # "busy" => call = IdleCall
  /\ op.st = "idle" => op = Idle
  /\ op.st # "idle" =>
       /\ IsHandler(op) /\ <<op.h, op.at>> \in Calls
       /\ IF op.h \in FileHandlers \cup {"mount", "iterate"} THEN op.k = NO_KEY
          ELSE op.k \in Key
       /\ op.h \in FileHandlers =>
            OpenFile /\ op.start \in 0..LOFF_MAX /\ op.total \in Nat
       /\ op.h = "link" /\ op.at # "count_found" =>
            op.inode.i_ino \in Ino /\ op.inode.type = "FILE"

\* The request under way is the handler's.
NameCalls  == {"lookup", "create_file", "mkdir", "link", "unlink", "rmdir"}
CountCalls == {"count_found", "count_made", "count_linked"}
Asked(req) ==
  /\ req.method = IF op.at \in CountCalls THEN "count_links" ELSE op.at
  /\ op.at \in NameCalls => req.parent = op.k[1] /\ req.name = op.k[2]
  /\ op.at = "link" => req.target_ino = op.inode.i_ino
  /\ op.at = "read" => req.ino = op.ino /\ req.offset = op.start /\ req.len = op.total
  /\ op.at = "write" =>
       /\ req.ino = op.ino /\ req.offset = op.start + op.total
       /\ req.len = Len(NextChunk) /\ req.data = base64_encode(NextChunk)

\* While nobody else interferes, or as long as the name is not in doubt, the
\* server holds the inode under the handler's name.
Sure == ~disturbed \/ op.k \notin doubt
Says(inode) == Sure => NameHolds(op.k) = <<inode.i_ino, inode.type>>

\* What the handler may take from a call that has succeeded.
Success(fields) ==
  /\ op.at \in {"lookup", "create_file", "mkdir"} =>
       fields.ino \in Ino /\ Says(vtfs_get_inode(fields))
  /\ op.at = "create_file" => fields.type = "FILE"
  /\ op.at = "mkdir" => fields.type = "DIR"
  /\ op.at = "link" => Says(op.inode)
  /\ op.at \in {"unlink", "rmdir"} => (Sure => NameHolds(op.k) = <<>>)
  /\ op.at = "get_root" => fields.ino = VTFS_ROOT_INO /\ (~disturbed => Server!Mounted)
  /\ op.at = "read" =>
       /\ fields.bytes \in Seq(Nat)
       /\ Len(fields.bytes) = 0 \/ op.start + Len(fields.bytes) <= LOFF_MAX
  /\ op.at = "write" =>
       /\ fields.written \in 0..Len(NextChunk)
       /\ ~disturbed => Stored(op.total + fields.written)

CallSound ==
  /\ call.st = "sent" => call.size \in BufferSize /\ Asked(call.req)
  /\ call.st = "answered" /\ parse_http_response(call.answer, call.size) = 0 =>
       Success(call.answer.fields)
  /\ call.st = "done" /\ call.result = 0 => Success(call.fields)

\* What the handler has learned from its earlier calls.
NameLearned == op.st = "busy" =>
  /\ op.at \in {"count_found", "count_made"} => op.inode.i_ino \in Ino
  /\ op.at = "count_made" => op.inode.type = "FILE"
  /\ op.at \in CountCalls => Says(op.inode)

BytesWritten == op.st # "idle" /\ op.h = "write" =>
  /\ op.buf \in Seq(0..255) /\ op.start + Len(op.buf) <= LOFF_MAX
  /\ op.total \in 0..Len(op.buf)
  /\ file.f_pos \in op.start..(op.start + op.total)
  /\ ~disturbed => Stored(op.total)

NetInv ==
  /\ ServerSound /\ LateSound /\ CacheSound /\ HandlerSound /\ CallSound
  /\ NameLearned /\ BytesWritten /\ CoherentOutsideDoubt /\ SuccessIsDone

\* What PositionInFile rests on besides: what the kernel and a handler remember
\* is of numbers that the server has given out and gives to no other file.
NumbersUsed ==
  /\ \A k \in DOMAIN entry : entry[k] \in used
  /\ DOMAIN content \subseteq used
  /\ \A k \in DOMAIN dcache : dcache[k] # NEG => dcache[k].i_ino \in used
  /\ file # NONE => file.i_ino \in used
  /\ op.st = "busy" /\ (op.h = "link" \/ op.at \in CountCalls) => op.inode.i_ino \in used

\* A file handler moves the file that is open, from where it stands.
Moving ==
  /\ file # NONE /\ op.ino = file.i_ino /\ Within(op.ino, op.start)
  /\ op.h = "write" => Within(op.ino, op.start + op.total)

\* What a successful call tells is a number given out, or lies in the file.
Told(fields) ==
  /\ op.at \in {"lookup", "create_file", "mkdir"} => fields.ino \in used
  /\ op.at = "read" => Within(op.ino, op.start + Len(fields.bytes))
  /\ op.at = "write" => Within(op.ino, op.start + op.total + fields.written)

CallTold ==
  /\ call.st = "answered" /\ parse_http_response(call.answer, call.size) = 0 =>
       Told(call.answer.fields)
  /\ call.st = "done" /\ call.result = 0 => Told(call.fields)

PosInv ==
  /\ NumbersUsed /\ CallTold /\ PositionInFile
  /\ op.st = "busy" /\ op.h \in FileHandlers => Moving
=============================================================================
