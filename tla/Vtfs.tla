--------------------------------- MODULE Vtfs ---------------------------------
(***************************************************************************)
(* The handlers of source/vtfs.c between the kernel's VFS and the RAM      *)
(* storage, and the caches the VFS keeps around them: the dentry cache,    *)
(* the in-memory inodes, the open files.  The storage knows names and      *)
(* inode numbers; the kernel holds copies of both that the handlers must   *)
(* keep true.                                                              *)
(*                                                                         *)
(* A handler is one action: the VFS holds the directory's i_rwsem around   *)
(* those that change it, and calls into the storage run one at a time, as  *)
(* in RamStorage.  What the VFS does around a handler is external and      *)
(* taken from what the handlers rely on:                                   *)
(*  - a name is looked up before it is created, linked or removed;         *)
(*  - d_add hashes a dentry (one that an unlink left hashed stays so),      *)
(*    d_instantiate does not: a dentry that is not hashed goes with its    *)
(*    last user and the next walk looks up again;                          *)
(*  - d_delete leaves a negative dentry, or drops one that is still open;  *)
(*  - new_inode'd inodes are not hashed and go with their last user.       *)
(* ret is what the storage returned; mounting is outside this module.      *)
(***************************************************************************)
EXTENDS RamImplementsFs

CONSTANTS
  Fd,               \* files a process may have open
  InodeId,          \* struct inodes that can be in memory at once
  ReadLen,          \* lengths of reads
  SeekTo,           \* offsets given to llseek
  TruncSizes,       \* sizes given to truncate; 0 is open with O_TRUNC
  InodeAllocFails   \* whether new_inode may fail

ASSUME VtfsAssumption == InodeId \subseteq Nat \ {0} /\ InodeAllocFails \in BOOLEAN
\* What fits a loff_t.
ASSUME LoffAssumption ==
  /\ SeekTo \subseteq (-LOFF_MAX - 1)..LOFF_MAX /\ TruncSizes \subseteq 0..LOFF_MAX
  /\ ReadLen \subseteq Nat

VARIABLES
  dcache,  \* hashed dentries: from <<i_ino of the directory, name>> to an inode or NEG
  icache,  \* inodes in memory: i_ino, type of i_mode, i_size, i_nlink
  file     \* open files: inode, key of the dentry (NO_KEY once dropped), f_pos

caches    == <<dcache, icache, file>>
vtfs_vars == <<mounted, nodes, payloads, next_ino, ret, dcache, icache, file>>

NEG    == 0
NO_KEY == <<0, "">>
Key    == AnyIno \X Name

-----------------------------------------------------------------------------
(* The VFS. *)

Put(f, x, v) == [y \in DOMAIN f \cup {x} |-> IF y = x THEN v ELSE f[y]]

Positive(k) == k \in DOMAIN dcache /\ dcache[k] # NEG
Inode(k)    == icache[dcache[k]]

\* The directory has been reached: its dentry is cached, and pinned below.
HasDir(d) == d = VTFS_ROOT_INO \/ \E k \in DOMAIN dcache :
               Positive(k) /\ Inode(k).i_ino = d /\ Inode(k).type = "DIR"

HasEntry(k) == HasChild(k[1], k[2])
\* The inode number that the storage's lookup finds under the name.
Entry(k) == nodes[CHOOSE i \in DOMAIN nodes : FindChild(i, k[1], k[2])].payload

\* The name is looked up and not found (vtfs_lookup swallows its errors: a
\* name whose inode could not be allocated is not found either).
Missing(k) ==
  /\ HasDir(k[1])
  /\ \/ k \in DOMAIN dcache /\ dcache[k] = NEG
     \/ k \notin DOMAIN dcache /\ (InodeAllocFails \/ ~HasEntry(k))

\* The caches become ic, dc, fl; iput frees the inodes nothing refers to.
Caches(ic, dc, fl) ==
  LET used == {dc[k] : k \in DOMAIN dc} \cup {fl[fd].inode : fd \in DOMAIN fl}
  IN /\ icache' = Restrict(ic, DOMAIN ic \cap used)
     /\ dcache' = dc
     /\ file' = fl

d_add(k, inode) ==
  \E id \in InodeId \ DOMAIN icache :
    /\ \A other \in InodeId \ DOMAIN icache : id <= other
    /\ Caches(Put(icache, id, inode), Put(dcache, k, id), file)

\* The dentry is open through some file: it leaves the cache; else it stays
\* as the knowledge that the name is gone.
d_delete(k, ic, dc) ==
  IF \E fd \in DOMAIN file : file[fd].key = k
  THEN Caches(ic, Restrict(dc, DOMAIN dc \ {k}),
              [fd \in DOMAIN file |->
                 IF file[fd].key = k THEN [file[fd] EXCEPT !.key = NO_KEY] ELSE file[fd]])
  ELSE Caches(ic, [dc EXCEPT ![k] = NEG], file)

\* Memory pressure: a dentry goes that no file and no cached child uses.
shrink(k) ==
  /\ k \in DOMAIN dcache
  /\ \A fd \in DOMAIN file : file[fd].key # k
  /\ Positive(k) => \A c \in DOMAIN dcache : c[1] # Inode(k).i_ino
  /\ Caches(icache, Restrict(dcache, DOMAIN dcache \ {k}), file)
  /\ UNCHANGED vars

\* simple_setattr, for want of a setattr in vtfs_inode_ops.
truncate(id, size) ==
  /\ icache' = [icache EXCEPT ![id].i_size = size]
  /\ UNCHANGED vars /\ UNCHANGED <<dcache, file>>

open(fd, k) ==
  /\ fd \notin DOMAIN file
  /\ Positive(k) /\ Inode(k).type = "FILE"
  /\ file' = Put(file, fd, [inode |-> dcache[k], key |-> k, f_pos |-> 0])
  /\ UNCHANGED vars /\ UNCHANGED <<dcache, icache>>

close(fd) ==
  /\ Caches(icache, dcache, Restrict(file, DOMAIN file \ {fd}))
  /\ UNCHANGED vars

-----------------------------------------------------------------------------
(* Inode operations. *)

vtfs_get_inode(ino, type, size, nlink) ==
  [i_ino |-> ino, type |-> type, i_size |-> size, i_nlink |-> nlink]

\* Every lookup that finds the name makes an inode of its own.
vtfs_lookup(k) ==
  /\ HasDir(k[1]) /\ k \notin DOMAIN dcache /\ HasEntry(k)
  /\ LET p == payloads[Entry(k)] IN
     d_add(k, vtfs_get_inode(Entry(k), p.type, p.size,
                             IF p.type = "DIR" THEN 2 ELSE CountLinks(Entry(k))))
  /\ UNCHANGED vars

\* The end of vtfs_create and vtfs_mkdir: the entry is there, its inode may not be.
Instantiate(k, type) ==
  \/ \E ino \in {next_ino} :
       /\ ret' = 0
       /\ d_add(k, vtfs_get_inode(ino, type, 0, IF type = "DIR" THEN 2 ELSE CountLinks(ino)'))
  \/ (ret' # 0 \/ InodeAllocFails) /\ UNCHANGED caches

vtfs_create(k) == Missing(k) /\ create_file(k[1], k[2]) /\ Instantiate(k, "FILE")
vtfs_mkdir(k)  == Missing(k) /\ mkdir(k[1], k[2]) /\ Instantiate(k, "DIR")

vtfs_unlink(k) ==
  /\ Positive(k) /\ Inode(k).type = "FILE"
  /\ unlink(k[1], k[2])
  /\ \/ ret' # 0 /\ UNCHANGED caches
     \/ ret' = 0 /\ d_delete(k, [icache EXCEPT ![dcache[k]].i_nlink = @ - 1], dcache)

\* The VFS drops the dentries below a directory it has removed.
vtfs_rmdir(k) ==
  /\ Positive(k) /\ Inode(k).type = "DIR"
  /\ rmdir(k[1], k[2])
  /\ \/ ret' # 0 /\ UNCHANGED caches
     \/ /\ ret' = 0
        /\ d_delete(k, icache,
                    Restrict(dcache, {c \in DOMAIN dcache : c[1] # Inode(k).i_ino}))

\* The VFS refuses a source whose i_nlink is 0.
CanLink(old, k) ==
  Positive(old) /\ Inode(old).type = "FILE" /\ Inode(old).i_nlink > 0 /\ Missing(k)

\* d_instantiate shows the inode under the new name only if that dentry was
\* hashed, as an unlink leaves it.
d_instantiate(k, id) == [c \in DOMAIN dcache |-> IF c = k THEN id ELSE dcache[c]]

LinkInstantiatesFirst(old, k) ==   \* mutant: ret is not consulted
  /\ CanLink(old, k)
  /\ link(Inode(old).i_ino, k[1], k[2])
  /\ Caches(icache, d_instantiate(k, dcache[old]), file)
LinkKeepsNlink(old, k) ==          \* mutant: set_nlink is forgotten
  /\ CanLink(old, k)
  /\ link(Inode(old).i_ino, k[1], k[2])
  /\ \/ ret' # 0 /\ UNCHANGED caches
     \/ ret' = 0 /\ Caches(icache, d_instantiate(k, dcache[old]), file)
vtfs_link(old, k) ==
  /\ CanLink(old, k)
  /\ \E ino \in {Inode(old).i_ino} :
       /\ link(ino, k[1], k[2])
       /\ \/ ret' # 0 /\ UNCHANGED caches
          \/ /\ ret' = 0
             /\ Caches([icache EXCEPT ![dcache[old]].i_nlink = CountLinks(ino)'],
                       d_instantiate(k, dcache[old]), file)

-----------------------------------------------------------------------------
(* File operations. *)

vtfs_read(fd, len) ==
  LET f   == file[fd]
      ino == icache[f.inode].i_ino
      err == ReadError(ino, f.f_pos)
  IN /\ UNCHANGED <<mounted, nodes, payloads, next_ino, dcache, icache>>
     /\ \/ err # 0 /\ ret' = -err /\ UNCHANGED file
        \/ /\ err = 0 /\ CopyFaults /\ ReadBytes(ino, f.f_pos, len) # <<>>
           /\ ret' = -EFAULT /\ UNCHANGED file
        \/ /\ err = 0
           /\ ret' = Len(ReadBytes(ino, f.f_pos, len))
           /\ file' = [file EXCEPT ![fd].f_pos = @ + ret']

vtfs_update_inode_size(id, size) ==
  icache' = [icache EXCEPT ![id].i_size = IF size > @ THEN size ELSE @]

WriteSizesFirst(fd, buf) ==   \* mutant: the inode's size follows a failed write
  LET f == file[fd] IN
  /\ vtfs_validate_io_params(f.f_pos, Len(buf)) = 0
  /\ write(icache[f.inode].i_ino, f.f_pos, buf)
  /\ vtfs_update_inode_size(f.inode, f.f_pos + Len(buf))
  /\ file' = [file EXCEPT ![fd].f_pos = @ + Len(buf)]
  /\ UNCHANGED dcache
vtfs_write(fd, buf) ==
  LET f   == file[fd]
      err == vtfs_validate_io_params(f.f_pos, Len(buf))
  IN \/ err # 0 /\ Fail(err) /\ UNCHANGED caches
     \/ /\ err = 0
        /\ write(icache[f.inode].i_ino, f.f_pos, buf)
        /\ \/ ret' <= 0 /\ UNCHANGED caches
           \/ /\ ret' > 0
              /\ file' = [file EXCEPT ![fd].f_pos = @ + ret']
              /\ vtfs_update_inode_size(f.inode, f.f_pos + ret')
              /\ UNCHANGED dcache

Whence == {"SEEK_SET", "SEEK_CUR", "SEEK_END"}
NewPos(fd, offset, whence) ==
  NewSize(CASE whence = "SEEK_SET" -> 0
            [] whence = "SEEK_CUR" -> file[fd].f_pos
            [] whence = "SEEK_END" -> icache[file[fd].inode].i_size, offset)

SeekAnywhere(fd, offset, whence) ==   \* mutant: no check of the new position
  /\ file' = [file EXCEPT ![fd].f_pos = NewPos(fd, offset, whence)]
  /\ UNCHANGED vars /\ UNCHANGED <<dcache, icache>>
vtfs_llseek(fd, offset, whence) ==
  /\ NewPos(fd, offset, whence) >= 0
  /\ file' = [file EXCEPT ![fd].f_pos = NewPos(fd, offset, whence)]
  /\ UNCHANGED vars /\ UNCHANGED <<dcache, icache>>

-----------------------------------------------------------------------------

\* Mounted, the root directory the only thing there is.
VtfsInit ==
  /\ mounted = TRUE
  /\ nodes = <<NewNode(0, "", VTFS_ROOT_INO)>>
  /\ payloads = [p \in {VTFS_ROOT_INO} |-> NewPayload("DIR")]
  /\ next_ino = VTFS_ROOT_INO + 1
  /\ ret = 0
  /\ dcache = <<>> /\ icache = <<>> /\ file = <<>>

VtfsNext ==
  \/ \E k \in Key :
       \/ vtfs_lookup(k) \/ vtfs_create(k) \/ vtfs_mkdir(k)
       \/ vtfs_unlink(k) \/ vtfs_rmdir(k) \/ shrink(k)
       \/ \E old \in DOMAIN dcache : vtfs_link(old, k)
       \/ \E fd \in Fd : open(fd, k)
  \/ \E id \in DOMAIN icache, size \in TruncSizes :
       icache[id].type = "FILE" /\ truncate(id, size)
  \/ \E fd \in DOMAIN file :
       \/ close(fd)
       \/ \E len \in ReadLen : vtfs_read(fd, len)
       \/ \E buf \in Buffer : vtfs_write(fd, buf)
       \/ \E offset \in SeekTo, whence \in Whence : vtfs_llseek(fd, offset, whence)

VtfsSpec == VtfsInit /\ [][VtfsNext]_vtfs_vars

-----------------------------------------------------------------------------
(* Properties. *)

\* The caches are well formed; no file position is ever negative or past
\* what loff_t holds (vtfs_llseek, vtfs_write).
VtfsTypeOK ==
  /\ \A k \in DOMAIN dcache : k \in Key /\ dcache[k] \in DOMAIN icache \cup {NEG}
  /\ \A fd \in DOMAIN file : /\ file[fd].inode \in DOMAIN icache
                             /\ file[fd].f_pos \in 0..LOFF_MAX
  /\ \A id \in DOMAIN icache : icache[id].i_size \in 0..LOFF_MAX

\* What the kernel remembers of a name is what the storage says: the same
\* inode number and type, and no file where the dentry is negative.
DcacheCoherent ==
  \A k \in DOMAIN dcache :
    IF dcache[k] = NEG THEN ~HasEntry(k)
    ELSE /\ HasEntry(k) /\ Entry(k) = Inode(k).i_ino
         /\ payloads[Entry(k)].type = Inode(k).type

\* A file's inode counts at least the cached names that lead to it, so
\* drop_nlink in vtfs_unlink never goes below zero, though aliases of the
\* inode keep the count of the day they were looked up.
NlinkCoversDentries ==
  \A id \in DOMAIN icache :
    icache[id].type = "FILE" =>
      icache[id].i_nlink >= Cardinality({k \in DOMAIN dcache : dcache[k] = id})

\* No inode, however stale, claims more bytes than the storage holds, so a
\* seek to its end and the size that stat shows stay within the file: after
\* failed writes, faulted copies, unlinks of open files and O_TRUNC.
SizeNotBeyondFile ==
  \A id \in DOMAIN icache :
    icache[id].type = "FILE" /\ Reaches(icache[id].i_ino) =>
      icache[id].i_size <= payloads[icache[id].i_ino].size

\* What the storage refuses a process that comes through the VFS has a cause:
\* want of memory, a directory not empty, an offset too big, a faulting buffer,
\* a name that new_inode's failure has hidden, a file unlinked while open.  The
\* VFS's own checks rule out the rest as long as the caches are right: ENOTDIR,
\* EPERM, EISDIR, EINVAL, and ENOENT for a name.  (ret' # ret tells a refusal
\* from a step that does not call the storage.)
RefusedOnlyForCause ==
  [][ret' < 0 /\ ret' # ret =>
       \/ ret' \in {-ENOMEM, -ENOTEMPTY, -EFBIG, -EFAULT}
       \/ ret' = -EEXIST /\ InodeAllocFails
       \/ /\ ret' = -ENOENT
          /\ \E fd \in DOMAIN file : ~Reaches(icache[file[fd].inode].i_ino)]_vtfs_vars

\* To a process the storage is FsSpec's tree of named files, whatever the
\* handlers make of the arguments they were given.
HandlersImplementFs == Fs!TreeSpec

\* Violated.  All names of a file lead to one struct inode (README, part 9).
OneInodePerFile ==
  \A j, k \in DOMAIN dcache :
    Positive(j) /\ Positive(k) /\ Inode(j).i_ino = Inode(k).i_ino => dcache[j] = dcache[k]

\* Violated.  What the shell's > leaves in a file is what it then writes
\* (README, part 8): once truncated, a file reads as empty.
TruncatedIsEmpty ==
  [][\A id \in DOMAIN icache :
       Reaches(icache[id].i_ino) /\ truncate(id, 0) =>
         ReadBytes(icache[id].i_ino, 0, LOFF_MAX) = <<>>]_vtfs_vars
-----------------------------------------------------------------------------
(* The inductive invariant, of the caches ic, dc, fl over the storage's    *)
(* list ns, payloads ps and next_ino ni.                                   *)

CachedInode ==
  [i_ino : AnyIno, type : {"DIR", "FILE"}, i_size : 0..LOFF_MAX, i_nlink : Int]
OpenFile == [inode : InodeId, key : Key \cup {NO_KEY}, f_pos : 0..LOFF_MAX]

Tables(ic, dc, fl) ==
  /\ DOMAIN ic \subseteq InodeId /\ ic \in [DOMAIN ic -> CachedInode]
  /\ DOMAIN dc \subseteq Key /\ dc \in [DOMAIN dc -> DOMAIN ic \cup {NEG}]
  /\ IsFiniteSet(DOMAIN dc)
  /\ fl \in [DOMAIN fl -> OpenFile] /\ \A fd \in DOMAIN fl : fl[fd].inode \in DOMAIN ic

Bears(node, k)     == node.parent_ino = k[1] /\ node.name = k[2]
LeadsTo(ns, k, p)  == \E i \in DOMAIN ns : Bears(ns[i], k) /\ ns[i].payload = p
DentriesOf(dc, id) == {k \in DOMAIN dc : dc[k] = id}

PositiveTrue(ic, dc, ns, ps) ==
  \A k \in DOMAIN dc :
    dc[k] # NEG => /\ LeadsTo(ns, k, ic[dc[k]].i_ino)
                   /\ ps[ic[dc[k]].i_ino].type = ic[dc[k]].type
\* Once new_inode has failed a name may exist under a negative dentry.
NegativeTrue(dc, ns) ==
  InodeAllocFails \/ \A k \in DOMAIN dc :
                       dc[k] = NEG => \A i \in DOMAIN ns : ~Bears(ns[i], k)
LinksCovered(ic, dc) ==
  \A id \in DOMAIN ic :
    ic[id].type = "FILE" => ic[id].i_nlink >= Cardinality(DentriesOf(dc, id))
\* An inode whose file is gone is never taken for a later file's; its size
\* is within the file's, unless truncate(2) may have made it greater.
SizesTrue(ic, ps, ni) ==
  \A id \in DOMAIN ic :
    /\ ic[id].i_ino < ni
    /\ TruncSizes \subseteq {0} /\ ic[id].type = "FILE" /\ ic[id].i_ino \in DOMAIN ps =>
         ic[id].i_size <= ps[ic[id].i_ino].size

CachesSound(ic, dc, fl, ns, ps, ni) ==
  /\ Tables(ic, dc, fl) /\ PositiveTrue(ic, dc, ns, ps) /\ NegativeTrue(dc, ns)
  /\ LinksCovered(ic, dc) /\ SizesTrue(ic, ps, ni)

\* The storage is as it is on its own, and the caches are right about it.
VfsInv ==
  /\ IInv /\ mounted = TRUE
  /\ \A p \in DOMAIN payloads : payloads[p].size <= LOFF_MAX
  /\ CachesSound(icache, dcache, file, nodes, payloads, next_ino)

\* The number of an open file's inode is never a directory's, even when the
\* file is gone.
OpenAreFiles ==
  \A fd \in DOMAIN file :
    LET ino == icache[file[fd].inode].i_ino IN
    ino \in DOMAIN payloads => payloads[ino].type = "FILE"

CauseInv == VfsInv /\ RootInPlace /\ OpenAreFiles
=============================================================================
