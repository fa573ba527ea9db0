------------------------------ MODULE RamStorage ------------------------------
(***************************************************************************)
(* The RAM storage (source/impl/ram/vtfs_ram_impl.c): one linked list of   *)
(* nodes for the whole file system, each naming a payload that hard links  *)
(* share and that a reference count keeps.  Every operation of struct      *)
(* vtfs_storage_ops is one action here (or an operator, if it only reads): *)
(* the calls run one at a time.                                            *)
(*                                                                         *)
(* A payload is known by its meta.ino, which identifies it: next_ino only  *)
(* grows.  meta.mode and meta.parent_ino, which nothing reads back, are    *)
(* left out.  Each kmalloc may fail.                                       *)
(***************************************************************************)
EXTENDS Errno, FiniteSets, SequencesExt

CONSTANTS
  Name,          \* names a caller may use in a directory
  Ino,           \* inode numbers next_ino may hand out; bounds the creations
  Offset,        \* file offsets a caller may write at
  Buffer,        \* user buffers a caller may write: sequences of bytes
  LOFF_MAX,      \* greatest loff_t
  MIN_CAPACITY,  \* least capacity of a data buffer (1024 in the code)
  CopyFaults     \* whether copy_from_user may fault part of the way

VTFS_ROOT_INO == 1000

ASSUME InoAssumption  == Ino \subseteq {i \in Nat : i > VTFS_ROOT_INO}
ASSUME NameAssumption == "" \notin Name
ASSUME SizeAssumption == LOFF_MAX \in Nat /\ MIN_CAPACITY \in Nat \ {0}
\* Offsets are loff_t's; the VFS caps the length of a write at MAX_RW_COUNT.
ASSUME IoAssumption   == /\ Offset \subseteq 0..LOFF_MAX
                         /\ Buffer \subseteq Seq(Nat)
                         /\ \A buf \in Buffer : Len(buf) <= LOFF_MAX
                         /\ CopyFaults \in BOOLEAN

VARIABLES
  mounted,   \* sb->s_fs_info # NULL
  nodes,     \* the list from nodes_head: its nodes in order
  payloads,  \* the payloads in memory, by meta.ino
  next_ino,
  ret        \* what the last call returned

storage == <<mounted, nodes, payloads, next_ino>>
vars    == <<mounted, nodes, payloads, next_ino, ret>>

-----------------------------------------------------------------------------
(* Walking the list. *)

\* find_node_by_ino, find_payload_by_ino: some node holds the payload.
Reaches(ino) == \E i \in DOMAIN nodes : nodes[i].payload = ino
IsDir(ino)   == Reaches(ino) /\ payloads[ino].type = "DIR"

IsChild(i, parent, name) == nodes[i].parent_ino = parent /\ nodes[i].name = name
HasChild(parent, name)   == \E i \in DOMAIN nodes : IsChild(i, parent, name)
\* find_child stops at the first match.
FindChild(k, parent, name) ==
  IsChild(k, parent, name) /\ \A i \in 1..(k-1) : ~IsChild(i, parent, name)

\* count_links_to_ino
CountLinks(ino) == IF Reaches(ino) THEN payloads[ino].ref_count ELSE 0

\* Mutant: counts the other directories' nodes too.
EntryAtCountsAll(i, dir, offset) == nodes[i].parent_ino = dir /\ i - 1 = offset

\* iterate_dir counts a directory's nodes up to *offset; the node that follows
\* so many others is the entry, and past the end there is none (-ENOENT).
EntryAt(i, dir, offset) ==
  /\ nodes[i].parent_ino = dir
  /\ Cardinality({j \in 1..(i - 1) : nodes[j].parent_ino = dir}) = offset

-----------------------------------------------------------------------------
(* Payloads and their reference counts. *)

NewPayload(type) ==
  [type |-> type, size |-> 0, capacity |-> 0, data |-> <<>>,
   ref_count |-> 1]

\* A payload p with ref_count 1 among those in memory.
alloc_payload(ps, p, type) ==
  [q \in DOMAIN ps \cup {p} |-> IF q = p THEN NewPayload(type) ELSE ps[q]]

payload_get(ps, p) == [ps EXCEPT ![p].ref_count = @ + 1]

payload_put(ps, p) ==
  IF ps[p].ref_count = 1 THEN [q \in DOMAIN ps \ {p} |-> ps[q]]
                         ELSE [ps EXCEPT ![p].ref_count = @ - 1]

\* How many nodes of the list point to the payload.
Links(p) == {i \in DOMAIN nodes : nodes[i].payload = p}

\* free_all_nodes: one payload_put for every node of the list.
free_all_nodes ==
  [p \in {q \in DOMAIN payloads : payloads[q].ref_count # Cardinality(Links(q))}
     |-> [payloads[p] EXCEPT !.ref_count = @ - Cardinality(Links(p))]]

-----------------------------------------------------------------------------
(* Operations. *)

Fail(errno) == ret' = -errno /\ UNCHANGED storage

NewNode(parent, name, p) == [name |-> name, parent_ino |-> parent, payload |-> p]

InitCountsFromRoot ==   \* mutant: the root's number is handed out again
  /\ ~mounted
  /\ mounted' = TRUE
  /\ nodes' = <<NewNode(0, "", VTFS_ROOT_INO)>>
  /\ payloads' = alloc_payload(payloads, VTFS_ROOT_INO, "DIR")
  /\ next_ino' = VTFS_ROOT_INO
  /\ ret' = 0
\* vtfs_ram_storage_init, from vtfs_fill_super.  The payload is the last thing
\* it allocates; what a failure frees was not yet reachable from s_fs_info.
init ==
  /\ ~mounted
  /\ \/ Fail(ENOMEM)
     \/ /\ mounted' = TRUE
        /\ nodes' = <<NewNode(0, "", VTFS_ROOT_INO)>>
        /\ payloads' = alloc_payload(payloads, VTFS_ROOT_INO, "DIR")
        /\ next_ino' = VTFS_ROOT_INO + 1
        /\ ret' = 0

shutdown ==
  /\ mounted' = FALSE
  /\ payloads' = free_all_nodes
  /\ nodes' = <<>>
  /\ next_ino' = VTFS_ROOT_INO + 1
  /\ ret' = 0

CreateErrorNoExist(parent, name) == IF IsDir(parent) THEN 0 ELSE ENOTDIR  \* mutant
CreateErrorNoParent(parent, name) ==                                      \* mutant
  IF HasChild(parent, name) THEN EEXIST ELSE 0
CreateError(parent, name) ==
  IF HasChild(parent, name) THEN EEXIST
  ELSE IF ~IsDir(parent) THEN ENOTDIR ELSE 0

UNNUMBERED == 0   \* the meta.ino of a payload as kzalloc leaves it

LeakyAddNode(parent, name, type) ==   \* mutant: no payload_put without a node
  /\ CreateError(parent, name) = 0 /\ next_ino \in Ino
  /\ \/ /\ payloads' = alloc_payload(payloads, UNNUMBERED, type)
        /\ ret' = -ENOMEM /\ UNCHANGED <<mounted, nodes, next_ino>>
     \/ /\ payloads' = alloc_payload(payloads, next_ino, type)
        /\ next_ino' = next_ino + 1
        /\ nodes' = Cons(NewNode(parent, name, next_ino), nodes)
        /\ ret' = 0 /\ UNCHANGED mounted
\* What vtfs_ram_storage_create_file and vtfs_ram_storage_mkdir both do.
\* Either allocation may fail; without a node the payload is put again.
AddNode(parent, name, type) ==
  \/ CreateError(parent, name) # 0 /\ Fail(CreateError(parent, name))
  \/ CreateError(parent, name) = 0 /\ Fail(ENOMEM)
  \/ /\ CreateError(parent, name) = 0
     /\ payloads' = payload_put(alloc_payload(payloads, UNNUMBERED, type), UNNUMBERED)
     /\ ret' = -ENOMEM
     /\ UNCHANGED <<mounted, nodes, next_ino>>
  \/ /\ CreateError(parent, name) = 0
     /\ next_ino \in Ino
     /\ payloads' = alloc_payload(payloads, next_ino, type)
     /\ nodes' = Cons(NewNode(parent, name, next_ino), nodes)
     /\ next_ino' = next_ino + 1
     /\ ret' = 0
     /\ UNCHANGED mounted

create_file(parent, name) == AddNode(parent, name, "FILE")
mkdir(parent, name)       == AddNode(parent, name, "DIR")

\* Unlinking node k of the list and dropping its hold on the payload.
RemoveNode(k) ==
  /\ nodes' = RemoveAt(nodes, k)
  /\ payloads' = payload_put(payloads, nodes[k].payload)
  /\ ret' = 0
  /\ UNCHANGED <<mounted, next_ino>>

UnlinkFreesPayload(parent, name) ==   \* mutant: the count is not consulted
  \E k \in DOMAIN nodes :
    /\ FindChild(k, parent, name)
    /\ payloads[nodes[k].payload].type = "FILE"
    /\ nodes' = RemoveAt(nodes, k)
    /\ payloads' = [q \in DOMAIN payloads \ {nodes[k].payload} |-> payloads[q]]
    /\ ret' = 0 /\ UNCHANGED <<mounted, next_ino>>
unlink(parent, name) ==
  \/ ~HasChild(parent, name) /\ Fail(ENOENT)
  \/ \E k \in DOMAIN nodes :
       /\ FindChild(k, parent, name)
       /\ \/ payloads[nodes[k].payload].type # "FILE" /\ Fail(EPERM)
          \/ payloads[nodes[k].payload].type = "FILE" /\ RemoveNode(k)

IsEmptyAlways(dir) == TRUE   \* mutant
IsEmptyDir(dir) == \A i \in DOMAIN nodes : nodes[i].parent_ino # dir

rmdir(parent, name) ==
  \/ ~HasChild(parent, name) /\ Fail(ENOENT)
  \/ \E k \in DOMAIN nodes :
       LET dir == nodes[k].payload IN
       /\ FindChild(k, parent, name)
       /\ \/ payloads[dir].type # "DIR" /\ Fail(ENOTDIR)
          \/ payloads[dir].type = "DIR" /\ ~IsEmptyDir(dir) /\ Fail(ENOTEMPTY)
          \/ payloads[dir].type = "DIR" /\ IsEmptyDir(dir) /\ RemoveNode(k)

LinkError(target, parent, name) ==
  IF ~Reaches(target) THEN ENOENT
  ELSE IF payloads[target].type # "FILE" THEN EPERM
  ELSE IF ~IsDir(parent) THEN ENOTDIR
  ELSE IF HasChild(parent, name) THEN EEXIST ELSE 0

LinkGetsFirst(target, parent, name) ==   \* mutant: payload_get before alloc_node
  /\ LinkError(target, parent, name) = 0
  /\ payloads' = payload_get(payloads, target)
  /\ \/ ret' = -ENOMEM /\ UNCHANGED <<mounted, nodes, next_ino>>
     \/ /\ nodes' = Cons(NewNode(parent, name, target), nodes)
        /\ ret' = 0 /\ UNCHANGED <<mounted, next_ino>>
link(target, parent, name) ==
  \/ LinkError(target, parent, name) # 0 /\ Fail(LinkError(target, parent, name))
  \/ LinkError(target, parent, name) = 0 /\ Fail(ENOMEM)
  \/ /\ LinkError(target, parent, name) = 0
     /\ nodes' = Cons(NewNode(parent, name, target), nodes)
     /\ payloads' = payload_get(payloads, target)
     /\ ret' = 0
     /\ UNCHANGED <<mounted, next_ino>>

-----------------------------------------------------------------------------
(* Reading and writing. *)

\* offset + len as a loff_t: the VFS caps len, so the sum wraps at most once.
NewSize(offset, len) ==
  IF offset + len > LOFF_MAX THEN offset + len - 2 * (LOFF_MAX + 1) ELSE offset + len

vtfs_validate_io_params(offset, len) ==
  IF offset < 0 THEN EINVAL
  ELSE IF NewSize(offset, len) < 0 THEN EFBIG ELSE 0

\* What vtfs_ram_storage_read copies to the user; <<>> at or past the end.
ReadBytes(ino, offset, len) ==
  LET p == payloads[ino] IN
  [k \in 1..(IF offset + len <= p.size THEN len
             ELSE IF offset < p.size THEN p.size - offset ELSE 0)
     |-> p.data[offset + k]]

\* vtfs_ram_storage_read asks for no new size: the sum is not checked.
ReadError(ino, offset) ==
  IF ~Reaches(ino) THEN ENOENT
  ELSE IF payloads[ino].type # "FILE" THEN EISDIR
  ELSE IF offset < 0 THEN EINVAL ELSE 0

WriteError(ino, offset, len) ==
  IF ~Reaches(ino) THEN ENOENT
  ELSE IF payloads[ino].type # "FILE" THEN EISDIR
  ELSE vtfs_validate_io_params(offset, len)

NewCapacity(size) == IF 2 * size < MIN_CAPACITY THEN MIN_CAPACITY ELSE 2 * size

Resized(p, size, fill) ==
  [p EXCEPT !.capacity = NewCapacity(size),
            !.data = [b \in 1..NewCapacity(size) |->
                        IF b <= p.capacity THEN p.data[b] ELSE fill]]
GrownNoMemset(p, size) == IF size > p.capacity THEN Resized(p, size, 1) ELSE p  \* mutant
GrownOffByOne(p, size) == IF size > p.capacity + 1 THEN Resized(p, size, 0) ELSE p  \* mutant
\* The buffer after krealloc and memset: it grows only when it is too small.
Grown(p, size) == IF size > p.capacity THEN Resized(p, size, 0) ELSE p

\* p.data with n bytes of buf copied to offset and, up to len, zeros: a
\* copy_from_user that faults clears the part it could not copy.
Overlay(p, offset, buf, n) ==
  [b \in DOMAIN p.data |->
     IF b <= offset \/ b > offset + Len(buf) THEN p.data[b]
     ELSE IF b <= offset + n THEN buf[b - offset] ELSE 0]

\* The whole copy succeeds: the size follows the end of the write.
Store(ino, offset, buf) ==
  LET size == NewSize(offset, Len(buf))
      p    == Grown(payloads[ino], size)
  IN payloads' = [payloads EXCEPT ![ino] =
                    [p EXCEPT !.data = Overlay(p, offset, buf, Len(buf)),
                              !.size = IF size > @ THEN size ELSE @]]

write(ino, offset, buf) ==
  LET err  == WriteError(ino, offset, Len(buf))
      size == NewSize(offset, Len(buf))
  IN \/ err # 0 /\ Fail(err)
     \/ err = 0 /\ size > payloads[ino].capacity /\ Fail(ENOMEM)
     \/ /\ err = 0 /\ CopyFaults
        /\ \E n \in 0..(Len(buf) - 1) :
             LET p == Grown(payloads[ino], size) IN
             payloads' = [payloads EXCEPT ![ino] =
                            [p EXCEPT !.data = Overlay(p, offset, buf, n)]]
        /\ ret' = -EFAULT
        /\ UNCHANGED <<mounted, nodes, next_ino>>
     \/ /\ err = 0
        /\ Store(ino, offset, buf)
        /\ ret' = Len(buf)
        /\ UNCHANGED <<mounted, nodes, next_ino>>

-----------------------------------------------------------------------------
(* The storage on its own: any caller of the interface, one call at a time. *)

AnyIno == Ino \cup {VTFS_ROOT_INO}

Init ==
  /\ mounted = FALSE
  /\ nodes = <<>>
  /\ payloads = [p \in {} |-> NewPayload("FILE")]
  /\ next_ino = VTFS_ROOT_INO + 1
  /\ ret = 0

Operation ==
  \/ shutdown
  \/ \E parent \in AnyIno, name \in Name :
       \/ create_file(parent, name)
       \/ mkdir(parent, name)
       \/ unlink(parent, name)
       \/ rmdir(parent, name)
       \/ \E target \in AnyIno : link(target, parent, name)
  \/ \E ino \in AnyIno, offset \in Offset, buf \in Buffer : write(ino, offset, buf)

Next == init \/ (mounted /\ Operation)

Spec == Init /\ [][Next]_vars

-----------------------------------------------------------------------------
(* Properties. *)

Node    == [name : Name \cup {""}, parent_ino : Nat, payload : Nat]
Payload == [type : {"DIR", "FILE"}, size : Nat, capacity : Nat, data : Seq(Nat),
            ref_count : Nat]

\* The types; next_ino never falls back to the root's number.
TypeOK ==
  /\ mounted \in BOOLEAN
  /\ nodes \in Seq(Node)
  /\ payloads \in [DOMAIN payloads -> Payload]
  /\ DOMAIN payloads \subseteq AnyIno
  /\ next_ino \in Nat /\ next_ino > VTFS_ROOT_INO
  /\ ret \in Int

\* No two nodes of a directory bear the same name: lookup and unlink, which
\* take the first match, then speak of the same file.
UniqueNames ==
  \A i, j \in DOMAIN nodes :
    nodes[i].parent_ino = nodes[j].parent_ino /\ nodes[i].name = nodes[j].name => i = j

\* A payload's reference count is the number of nodes that point to it, and
\* every payload in memory has one: none is freed under a node that still
\* names it (create, link, unlink, rmdir in any order), none leaks when an
\* allocation fails or the file system is unmounted.
RefCountExact ==
  /\ DOMAIN payloads = {nodes[i].payload : i \in DOMAIN nodes}
  /\ \A p \in DOMAIN payloads : payloads[p].ref_count = Cardinality(Links(p))

\* Every node but the root's lies in a directory that exists: rmdir never
\* leaves entries behind that no path reaches.
NoOrphans ==
  \A i \in DOMAIN nodes :
    \/ nodes[i].parent_ino = 0 /\ nodes[i].payload = VTFS_ROOT_INO
    \/ /\ nodes[i].parent_ino \in DOMAIN payloads
       /\ payloads[nodes[i].parent_ino].type = "DIR"

\* A file's size never exceeds the buffer that krealloc gave, whose length
\* capacity keeps: vtfs_ram_storage_read copies only bytes of it, after any
\* sequence of writes, failed allocations and faulted copies.
SizeWithinCapacity ==
  \A p \in DOMAIN payloads :
    /\ payloads[p].size <= payloads[p].capacity
    /\ payloads[p].capacity = Len(payloads[p].data)

\* The inductive invariant: with an inode number not yet given out, and no
\* node left behind by the unmount, the others are preserved by every step.
IInv ==
  /\ TypeOK /\ UniqueNames /\ RefCountExact /\ NoOrphans /\ SizeWithinCapacity
  /\ \A p \in DOMAIN payloads : p < next_ino
  /\ ~mounted => nodes = <<>>

\* All of the storage but the bytes of its files.
Outline ==
  <<mounted, nodes, next_ino,
    [p \in DOMAIN payloads |-> <<payloads[p].type, payloads[p].size, payloads[p].ref_count>>]>>

\* An operation that fails leaves the storage as it was, although create_file
\* and mkdir have a payload to take back when there is no memory for a node,
\* and a write may have a larger buffer: only one whose user buffer faults
\* half way has changed bytes, and then neither a size nor anything else.
FailureChangesNothing ==
  [][ret' < 0 => IF ret' = -EFAULT THEN UNCHANGED Outline ELSE UNCHANGED storage]_vars
=============================================================================
