--------------------------- MODULE RamImplementsFs ---------------------------
(***************************************************************************)
(* The RAM storage implements FsSpec: the list is read as the map from     *)
(* names to inode numbers, a payload's buffer up to its size as the file's *)
(* content, and everything below next_ino as used.                         *)
(***************************************************************************)
EXTENDS RamStorage

EntryKeys ==
  {<<nodes[i].parent_ino, nodes[i].name>> :
     i \in {j \in DOMAIN nodes : nodes[j].parent_ino # 0}}

\* What lookup finds under a name: the first node of the list that matches.
EntryMap ==
  [k \in EntryKeys |->
     nodes[CHOOSE i \in DOMAIN nodes : FindChild(i, k[1], k[2])].payload]

KindMap == [p \in DOMAIN payloads |-> payloads[p].type]

\* The bytes that reads return, from offset 0 to the end of the file.
ContentMap ==
  [p \in {q \in DOMAIN payloads : payloads[q].type = "FILE"} |->
     ReadBytes(p, 0, payloads[p].size)]

Fs == INSTANCE FsSpec WITH
        Root    <- VTFS_ROOT_INO,
        entry   <- EntryMap,
        kind    <- KindMap,
        content <- ContentMap,
        used    <- {i \in Ino : i < next_ino}

\* Every call of the storage is one step of the tree of named files, or leaves
\* it as it is: the shared payloads, the reference counts and the buffers that
\* grow by doubling never show through the interface.
ImplementsFs == Fs!Spec

-----------------------------------------------------------------------------
(* What makes every step map to a step. *)

\* The root is there while the file system is mounted, and no entry names it.
RootInPlace ==
  /\ mounted => /\ VTFS_ROOT_INO \in DOMAIN payloads
                /\ payloads[VTFS_ROOT_INO].type = "DIR"
  /\ \A i \in DOMAIN nodes :
       nodes[i].payload = VTFS_ROOT_INO => nodes[i].parent_ino = 0

\* Between two mounts no inode number counts as used.
Fresh == ~mounted => next_ino = VTFS_ROOT_INO + 1

\* A buffer holds zeros past the end of its file, so that a write beyond the
\* end leaves a hole that reads as zeros (krealloc and memset in
\* vtfs_ram_storage_write; a copy that faults may leave bytes there).
ZerosPastEnd ==
  \A p \in DOMAIN payloads : \A b \in DOMAIN payloads[p].data :
    b > payloads[p].size => payloads[p].data[b] = 0

FsInv == IInv /\ RootInPlace /\ Fresh /\ ZerosPastEnd
=============================================================================
