# vtfs in TLA+

Models, model checks and proofs for `vtfs`, the Linux kernel module of this
repository: a file system whose handlers (`source/vtfs.c`) call a storage
through a table of functions (`source/vtfs_interface.h`). The storage is either
a list in memory (`source/impl/ram`) or a server behind HTTP
(`source/impl/net`, `source/http.c`).

Contents: [inventory](#inventory), [modules](#modules-and-how-they-correspond-to-the-code),
[runs](#runs-and-what-they-show), [bounds](#bounds), [fairness](#fairness),
[proofs](#proofs), [disagreements](#disagreements-with-the-documentation),
[what is not modelled](#what-is-not-modelled).

## Inventory

| component | state | operations | called by |
|---|---|---|---|
| RAM storage `impl/ram/vtfs_ram_impl.c` | `nodes_head`, one list of all nodes of the file system; payloads (meta, data, capacity, ref_count) shared by hard links; `next_ino` | init, shutdown, get_root, lookup, iterate_dir, create_file, unlink, mkdir, rmdir, read, write, link, count_links | the handlers, through `storage_ops` |
| VFS handlers `vtfs.c` | none of their own; the kernel's dentries, inodes and open files, which they fill and change | lookup, create, unlink, mkdir, rmdir, link, iterate, read, write, llseek | the kernel's VFS |
| Directory listing `vtfs_iterate` + `iterate_dir` | `f_pos` of the open directory, a count | one entry for each getdents | the VFS, between calls that change the directory |
| Net storage `impl/net/vtfs_net_impl.c` | the token; everything else is at the server | the same table; `write` in chunks of 4 KB | the handlers |
| HTTP client `http.c` | one socket for each call | fill_request, receive_all, parse_http_response, encode | the net storage |
| base64, decoding `impl/net/base64.c`, `decode.c` | none | base64_encode, parse_node_meta, parse_dirent | the net storage |
| Mount `vtfs_fill_super`, `vtfs_kill_sb` | the super block and its root dentry | mount, unmount | the VFS |
| Module `vtfs_init`, `vtfs_exit` | `storage_ops` | load, unload | the kernel |

What makes each of them right, and what is hard in it:

- **RAM storage.** It is a tree of unique names; a payload lives exactly as long
  as a node points to it; a failing call changes nothing; the buffer holds every
  byte of the file and zeros where nothing was written. Hard: hard links in any
  order with unlinks and failing allocations; the arithmetic of growing
  buffers; and two calls at once, since the storage has no lock and the VFS
  locks one directory at a time (reads and writes not at all).
- **VFS handlers.** The kernel remembers names, numbers, types, sizes and link
  counts, and only the handlers can keep those true. Hard: each lookup makes an
  inode of its own, so a file has several; dentries stay after an unlink, go
  under memory pressure and come back; a call may fail after the storage has
  done its part.
- **Listing.** Every entry once. Hard: the place in the directory is a number,
  the list is changed at its head and in its middle meanwhile.
- **Net storage and HTTP.** Positive error codes, lost answers, chunks that
  fail half way, a server that stalls, lengths that come from the other side.
- **Mount.** Each error path frees what was made before it, once.

## Modules and how they correspond to the code

- `Errno`: error numbers; functions of the code return them negated, and so does `ret`.
- `FsSpec`: what a storage promises, without lists, counts and buffers: a map
  from ⟨directory, name⟩ to inode numbers, the kind of each inode number, the
  bytes of each file. A file exists as long as a name does. `TreeSpec` is its
  part between mounting and unmounting, one `Change` after another.
- `RamStorage`: the RAM storage. `nodes` is the list from `nodes_head` in its
  order (new nodes at the head, as `alloc_node` puts them), `payloads` the
  payloads in memory keyed by `meta.ino`, which identifies a payload because
  `next_ino` only grows while mounted. One action for each operation that
  changes state, named as in the code without its `vtfs_ram_storage_` prefix;
  each has a disjunct for every early return in the order of the code's checks,
  and `Fail(errno)` is a return before anything was changed. `create_file` and `mkdir` share
  `AddNode` since their bodies differ in the type alone; where `alloc_node` fails, it
  makes the payload (not numbered yet) and takes it back with `payload_put`, as the
  code does. In `init` the payload is the last thing allocated. Lookup, read,
  iterate_dir and count_links change nothing and are operators. Left out:
  `meta.mode` and `meta.parent_ino`, which nothing reads back in the storage,
  and the truncation of names to `NAME_MAX`, which the VFS enforces before.
  `data` is the whole buffer of `capacity` bytes, so that what `memset` zeroes
  and what a faulting `copy_from_user` clears are visible. `NewSize` wraps as
  the kernel's build (`-fno-strict-overflow`) makes signed addition wrap.
- `RamImplementsFs`: the refinement mapping. The first node that matches a name
  gives the entry, the buffer up to `meta.size` the bytes.
- `Vtfs`: the handlers over `RamStorage` (extended through `RamImplementsFs`, so that they too can
  be compared with `FsSpec`) and three variables for the kernel:
  `dcache` (hashed dentries, positive or negative), `icache` (inodes in memory;
  an inode goes with its last user because `new_inode` does not hash it) and
  `file` (open files with their position). Handlers keep their names. The
  actions `shrink`, `truncate`, `open`, `close` and the operators `d_add`,
  `d_delete`, `d_instantiate`, `Missing`, `HasDir`, `Caches` are the kernel's and marked
  external: they say what the handlers rely on. Two details of it decide much:
  `vtfs_lookup` does not `d_add` a name it has not found, so the dentry that a
  creation gets is hashed only if an unlink left it; and `d_instantiate`, which
  `vtfs_link` uses, hashes nothing. `d_add` of a dentry that is still hashed
  hashes it twice in the kernel; the model's cache is a function and does not
  show that (see the hazards).
- `Readdir`: one process lists the root directory while others change it, over
  `RamStorage`. `vtfs_iterate` emits at most one entry for a getdents call and
  returns nothing at the end. `seen`, `stable`, `repeats`, `inserted` and
  `removed` are history for the properties.
- `RamRace`: several processes inside the RAM storage at once. `RamStorage`,
  `Vtfs` and `Readdir` run its calls one at a time, which is what the VFS
  ensures for the changes of one directory and an assumption for the rest.
  `RamRace` drops it: `create_file`, `unlink` and `lookup` are taken apart into
  the reads and writes of `nodes_head`, `next` and `next_ino`, and the only lock
  is the directory's `i_rwsem`, shared by lookups and held alone by changes
  (`MayLock`). The node that `alloc_node` publishes has no name yet (`st = "new"`); a
  walk that matches one by the memory's old contents, or looks into its
  payload, may crash, and one that touches a freed node does: `ub` then ends what is said.
  What is filled in at a node (`Fill`) is one step, because the only readers
  that could see it half done compare the parent first and hold another
  directory's lock; those that look at the payload of every node
  (`find_node_by_ino`) meet the node as new. An address is not given out
  again, so a pointer kept too long is told from a right one. `mkdir` and
  `rmdir` are `create_file` and `unlink` as far as the list is concerned; `link` is
  like `create_file` without the number.
- `Base64`: `base64_encode` character by character, with the comparisons of
  `size_t` that decide the padding, and the server's decoder, which takes the
  length from the request.
- `Http`: a call of `vtfs_http_call`: it fails before the request is sent,
  or waits (`receive_all` has no timeout) until the server answers, closes or
  breaks the connection; `parse_http_response` on the status and the lengths
  with `int` and `size_t` as wide as `INT_MAX` and `SIZE_MAX` say. A request
  that was given up may reach the server later (`late`).
- `NetStorage`: each operation of `vtfs_net_impl.c` as the request it sends and
  what it makes of the result, and the server. The server is not in the
  repository: it keeps a `FsSpec` and performs or refuses each request, and
  may write less than it was asked to; its definitions are marked external.
- `NetVtfs`: mounting, and the handlers of `vtfs.c` over the net storage. A handler
  is several steps here, one for each answer it waits for: `vtfs_lookup` and
  `vtfs_create` ask `count_links` after the first answer (`Looked`, `Created`,
  `LinksCounted`), `vtfs_net_storage_write` sends chunk after chunk
  (`WriteChunk`, `WriteOn`, `WriteFailed`), `vtfs_fill_super` asks `init` and
  `get_root`. While a handler waits, other clients and late requests change the
  server's tree. `dcache` is as in `Vtfs`; sizes and link counts of inodes are
  left out, since `Vtfs` is about those. `doubt` holds the names that the
  server changed without a handler of this client succeeding, until one
  succeeds undisturbed; `disturbed` says that someone else changed the tree
  since the handler began. Both only serve the properties. Handlers of this client run one at a time, as
  under one directory's lock; `Remote` stands for everyone else.
- `MCRamStorage`, `MCVtfs`, `MCReaddir`, `MCRamRace`, `MCNet`: instances for TLC.
- `RamStorage_proofs`, `RamImplementsFs_proofs`, `Vtfs_proofs`, `RamRace_proofs`,
  `Readdir_proofs`, `Http_proofs`, `Base64_proofs`, `NetVtfs_proofs`: theorems, each module about the
  one it is named after. The inductive invariants (`IInv`, `FsInv`, `VfsInv`, `CauseInv`, `RaceInv`, `TwoInv`, `ScanInv`, `NetInv`, `PosInv`) are in the
  modules they are about, so that TLC can check them too.

Definitions commented "mutant" are faulty variants of the definition after
them. They are used in no specification: each shows that some property below
fails when the code is wrong in that way.

## Runs and what they show

| run | configuration | checks |
|---|---|---|
| ram_names | `MCRamNames.cfg` | `TypeOK`, `UniqueNames`, `RefCountExact`, `NoOrphans`, their strengthening `IInv`, `FailureChangesNothing`, and that the storage implements `FsSpec` (`ImplementsFs`), over all trees |
| ram_data | `MCRamData.cfg` | `SizeWithinCapacity` and `ImplementsFs` over all contents: gaps read as zero, a shorter write keeps the tail, a write over `LOFF_MAX` is refused; `FsInv`, of which the new part is that a buffer past the file's size is zero |
| vtfs_names | `MCVtfsNames.cfg` | `DcacheCoherent`: what the kernel remembers of a name is what the storage says; `NlinkCoversDentries`: `drop_nlink` never underflows although aliases have old counts; `RefusedOnlyForCause`: what the storage may refuse a process |
| vtfs_data | `MCVtfsData.cfg` | `VtfsTypeOK` (file positions included), `SizeNotBeyondFile`: no inode claims more bytes than the storage holds; `RefusedOnlyForCause`; `HandlersImplementFs`: the handlers change the storage as `FsSpec`'s tree may change |
| vtfs_one_inode | `MCVtfsOneInode.cfg` | violated: `OneInodePerFile` |
| vtfs_truncate | `MCVtfsTruncate.cfg` | violated: `TruncatedIsEmpty` |
| readdir | `MCReaddir.cfg` | `MissesBoundedByRemovals`, `RepeatsBoundedByInserts`: what a listing may miss and repeat; `ScanInv`, their strengthening; `ScanEnds`: it ends |
| readdir_missed | `MCReaddirMissed.cfg` | violated: `EveryEntryListed` |
| race | `MCRamRace.cfg` | `UniqueInTwoDirectories`, `NotFoundInTwoDirectories`: what the directories' locks still ensure in two directories although the list has none; `IntactUnlessRaced`: which three writes damage it |
| net_names | `MCNetNames.cfg` | `CoherentOutsideDoubt`: no failed connection and no answer of a right server, lost, garbled or refused, puts a wrong name into the dentry cache; `SuccessIsDone`: a handler that returns 0 has done at the server what was asked; `NetInv`, which the proof of both rests on |
| net_data | `MCNetData.cfg` | `NetTypeOK` (positions within `loff_t` included), `CountedBytesStored`: what the write loop counts is in its place in the file, through chunks, short writes and failures; `PositionInFile`: the position of the open file never passes its end; `CoherentOutsideDoubt` and `SuccessIsDone` under every kind of failure and with late requests; `CallsEnd`: every handler returns |
| net_errno | `MCNetErrno.cfg` | violated: `AckedBytesStored` |

`NlinkCoversDentries` deserves a word. Because each lookup makes its own inode,
an unlink through one name lowers only one alias's count. The others are too
high and never too low for the names that lead to them, which is what the
kernel needs of `drop_nlink`. `SizeNotBeyondFile` is the like of it for sizes:
a stale `i_size` is too small, never too large, because the storage's size only
grows. Neither says the aliases are right, and `OneInodePerFile` shows that
they are several.

`RefusedOnlyForCause` is what right caches are good for. The storage has a check
for every wrong argument (`-ENOTDIR`, `-EPERM`, `-EISDIR`, `-EINVAL`, `-EEXIST`,
`-ENOENT`), and a process that comes through the VFS should never meet one of
them, because the VFS has asked the same of its caches before. The property names
the exceptions: a file unlinked while it is open has no payload, so reads and
writes return `-ENOENT`; and a name that exists under a negative dentry, after
`new_inode` has failed (`vtfs.c:241`), gives `-EEXIST` to who creates it. Any other
refusal would be a cache that is wrong, a dentry that outlived its entry, or a
position that `llseek` should have refused. `vtfs_read` and `vtfs_write` make the storage's
own checks (`ReadError`, `WriteError`) in the code's order, so each of these codes is
one they could return.

`FailureChangesNothing` is about what has to be undone or not yet done when a call
fails: a payload made before the node that would hold it (`AddNode`), a buffer grown
before the copy that faults (`write`). After a fault only bytes may differ, not the
`Outline` of the storage: its list, and each payload's type, size and count.

`HandlersImplementFs` is not a consequence of `ImplementsFs` at once: the storage is
called at positions and lengths that the handlers compute, not from a fixed set, and
the constant `Offset` of `FsSpec` has to cover them.

`IntactUnlessRaced` is the precise extent of the missing lock. The list loses a
name, keeps a freed node or has two files of one number only when `nodes_head`
is overwritten with a node whose `next` is not the head any more
(`Publish`), when a node is unlinked from a predecessor that has itself left
the list or whose `next` has changed (`Relink`), or when `next_ino` is read
twice before it is written (`Bump`). The second case shows that
compare-and-swap in place of the stores would not be enough: a predecessor that has
left the list still points to the node.

The first two properties say what holds even then, and only for two
directories. With two, at most two calls change the list at once, one in each
directory; a stale write may lose names, but no name comes twice and none is
hidden from a walk that looks for it. With three it may: a creation in the first publishes its node, and one in the third takes
that node for its `next`; an unlink in the second, which had read the head before, overwrites
`nodes_head`, and the new name is lost; the first directory creates it again and
does not find it; then the third publishes its node, with the lost one behind it, and the first
publishes before that: the name is in the list twice. The proof attempt for any number of
directories found this, and TLC confirms it with three processes.

`CoherentOutsideDoubt` is `DcacheCoherent` for a server that others use and a
network that fails. It cannot hold of every name, for nothing revalidates a
dentry; the property says that `doubt` is all there is: names that others
changed, that a late request changed, or that a call changed and then failed.
`CountedBytesStored` also ties the file position to the count: it is never
beyond what is stored, though after a failed allocation in the middle of a write it is behind
(`vtfs_net_impl.c:516`), so that the caller's next write repeats the place.
`PositionInFile` relates the position to the server's file: neither a read that comes back
short nor a write that ends half way moves it past what the file has, so no write leaves a hole.
It needs that the server never shortens a file and gives no number twice; other clients of the
model make, link and remove names and do not truncate.

Deadlock is checked in every run but `race`, where each process has a bounded
number of operations. No run constrains states; bounds are the
constants.

## Bounds

- `Ino` bounds how many files and directories are ever made, `Name` the names
  in a directory. Three inode numbers and two names give nested directories,
  hard links across directories, and names made again after removal; that is
  every shape on which `find_child`, `count_links` and the emptiness check of
  `rmdir` can differ. When `Ino` is used up, creations only fail.
- `LOFF_MAX = 4`, `MIN_CAPACITY = 2`, buffers of 0 to 2 bytes in `ram_data`:
  a first allocation at the least capacity, one or two doublings, writes inside
  the size, between size and capacity, past the capacity, and over the end of
  `loff_t`. `vtfs_data` has `LOFF_MAX = 3`, and all bytes are 0
  there: its invariants see lengths only, and what `HandlersImplementFs` adds to
  `ImplementsFs` is which calls are made (`ram_data` is about the bytes). A
  copy that faults therefore leaves nothing behind in `vtfs_data`; with other bytes it would, which is why
  the theorem has `~CopyFaults` for its hypothesis. `Offset` is every position.
- `InodeId` bounds the inodes in memory: five in `vtfs_names`, as many as four
  dentries and one open file can use.
- `CopyFaults` and `InodeAllocFails` switch failures on. `vtfs_names` has no
  failing `new_inode`: when one fails after an unlink of the same name, a
  negative dentry stays over a name that exists, which `DcacheCoherent` would
  report and nothing in the code repairs (listed as a hazard).
- `MaxChanges = 2` changes of the directory during one listing, with three
  names: a removal before, at and after the place of the scan, an insertion,
  and one of each.
- `race`: two processes, two operations each, the root and one directory in
  it, a file in each, two names. Two walkers are enough for each of the three
  writes to be undone; the second operation of a process meets what the first ones
  left. The initial lists are all orders that creations can make: an entry's
  node before its directory's, the root's last. `Addrs` has an address for every
  creation.
- `net_names`: two inode numbers, two names, one change by another client (`MaxOutside`; a second
  one would do to a second name what the first does to one), a connection that fails
  at any of the calls a handler makes, one garbled answer (of a length that is negative and wraps),
  to a request that was performed or was not, one refusal code. To a handler over names every other failure after
  sending is like it: a negative result, and the server has done what was asked or has not. A late
  request does to the tree what a change by `Remote` does. `net_data` has the other failures and late
  requests of all methods, with one name, and checks the two properties of names again.
- `net_data`: chunks of 3 bytes and writes of 4 and 5, so that a write is one whole
  chunk and a rest of 1 or 2 bytes, the two cases of the padding; all
  error returns of `vtfs_http_call`, six garbled answers (an error page, cut, no
  length, too short, too long, negative), a position that reaches `LOFF_MAX = 5`,
  where `vtfs_write` refuses with `-EFBIG` what would pass it. It mounts with an options string,
  `net_names` without.
  `INT_MAX` and `SIZE_MAX` are 100000 and 1000000 there: greater than all
  lengths that are not negative, with the order the code relies on; the
  theorem about `parse_http_response` is for all values.
- Names are interchangeable, hence symmetry, except in `net_data`, which has one, and in `readdir` and
  `vtfs_truncate`, which check temporal formulas that symmetry or the formula's
  form would not allow.

## Fairness

`ReaddirSpec` and `NetSpec` have fairness. In `ReaddirSpec`: weak fairness of `vtfs_iterate`, since a
process that lists a directory (`ls`, `readdir(3)`) repeats getdents until it
returns nothing, and no lock is held between the calls. `ScanEnds` then depends
on `f_pos` moving on at each call and on the others adding only finitely many
entries during a scan (`MaxChanges`): a process that creates files for ever at
the pace of the listing does keep it from ending, in the model as in the code.
No fairness is assumed of the changes.

`NetSpec` has weak fairness of `Continue`, the steps of a handler that can go on
(the kernel runs it; no lock is taken between them), and of `NetServe`: the
server answers every request that reached it, well or badly. Without the second
nothing ends, since `receive_all` waits without a timeout; a broken connection
may end a call too (`Broken`), and is not assumed to. `CallsEnd` then says that no answer,
short write or error makes the write loop go round for ever.

## Proofs

Everything below is proved for all values of the constants that satisfy the
named assumptions: any set of names, inode numbers, offsets and buffers, any number
of processes, inodes and open files. Nothing is assumed finite but the entries that
`RamRace` begins with.
Assumed are:

- `RamStorage`: inode numbers for creations are naturals above `VTFS_ROOT_INO`;
  no name is empty, the root's being so; `LOFF_MAX` is a natural and
  `MIN_CAPACITY` a positive one; offsets are those of `loff_t`, buffers are sequences
  of naturals (bytes) no longer than `LOFF_MAX`, as the VFS caps a write at
  `MAX_RW_COUNT` (`IoAssumption`);
- `Vtfs`: inodes are addresses other than 0, what seeks and truncations are given fits a `loff_t`;
- `RamRace`: addresses are naturals other than `NULL`; the directories, the root among them, are
  there from the start and have numbers below those of new files; the entries to begin with are finitely many;
- `Http`: `SIZE_MAX` is more than twice `INT_MAX`; a failed call has one of the
  codes of `http.c`;
- `NetStorage`, `NetVtfs`: inode numbers fit an `int`, since `vtfs_get_inode`
  takes one; a server refuses with a positive code; the buffers for responses
  stay below `INT_MAX` (`MAX_RW_COUNT` again); a garbled answer is one that has not the form of an answer
  that fits a buffer (`GarbledAssumption`). This leaves out answers with status, length and a
  return value of 0 but a body shorter than the fields asked for: the client does not check
  that (`vtfs_net_impl.c:92`, `133`, `249`), takes the zeros of its buffer for the rest, and
  nothing below holds of them. A right server sends none.

### The RAM storage: `RamStorage_proofs`

`Invariance` is `Spec => []IInv`, from `IInvInit` and `IInvStep`; from it follow
`TypeCorrect`, `NamesUnique`, `CountsExact`, `NothingOrphaned`,
`ReadsWithinBuffer`. `FailuresChangeNothing`, the action property, needs `IInv` too: taking back the
payload that `alloc_node` has failed to get a node for gives the old payloads only because its
count is 1 and its number no other's (`RefCountExact` and the bounds of the numbers), and where a copy
faults the size written is the old one. It includes the copies that fault; the run has none
(`CopyFaults = FALSE`), since `ImplementsFs` does not hold with them.

The five invariants are not inductive by themselves. Creating a payload at
`next_ino` keeps `RefCountExact` only if no payload has that number, so `IInv`
adds that all are below `next_ino`; `init` replaces the list, so it adds that an
unmounted storage has none. `NoOrphans` needs `RefCountExact` at `rmdir`: the
payload goes when its last node does, and a node of another name for the same
directory would keep it, so the emptiness check has to be shown enough in both
cases. `RefCountExact` is about a cardinality: the lemmas `ConsCount`,
`RemoveAtCount` and `SetCount` say what inserting at the head and removing
position k do to the set of positions that hold a payload, and `PutCounts` and
`GetCounts` what the counts then are. `ConsUnique`, `AddKeeps`, `LinkKeeps`,
`RemoveKeeps` treat the list, `GrownSound`, `OverlaySound`, `WriteKeeps` the
buffers; `IInvStep` has one step for each operation.

### The refinement: `RamImplementsFs_proofs`

`Refinement` is `Spec => ImplementsFs` where no copy from the user faults.
`Entries` and `Payloads` restate the mapping as facts about the list and the
payloads (`EntryMapFacts`, `PayloadMapFacts`); `EntryAdded`, `EntryRemoved`,
`WriteBytes` say how each change of the list, and of a buffer, moves the mapped state, and a lemma
for each operation (`AddImplements`, `RemovalImplements`, ...) finds the step of `FsSpec`.
`IInv` is not enough: `FsInv` adds that the root is there while mounted and no
entry names it (`RootInPlace`: else a removal could take it), that an unmounted
storage numbers from the start again (`Fresh`), and that a buffer is zero past
the size (`ZerosPastEnd`), without which a write beyond the end would not leave the
hole of zeros that `FsSpec` promises. This last is what `GrownNoMemset` breaks.

The hypothesis `~CopyFaults` is the code's: when `copy_from_user` faults after the
buffer has grown, the bytes that came stay in the buffer past `meta.size`, and a later write beyond them
shows them where `FsSpec` has zeros. The other theorems do without it.

### The handlers over it: `Vtfs_proofs`

`VfsInvariance` is `VtfsSpec => []VfsInv`; `StorageUnderVfs`, `VtfsTypeCorrect`,
`DcacheCorrect`, `NlinkCorrect` and `SizesCorrect` follow. `VfsInv` is `IInv`
with `CachesSound`, which relates the dentry cache, the inodes and the open
files to the list: a positive dentry's name leads to its inode's payload, of the same
type (`PositiveTrue`); a negative one's name is not in the list
(`NegativeTrue`); no inode has more dentries than links (`LinksCovered`); an inode's number is
below `next_ino`, so that an inode whose file is gone is never taken for a later file's, and its size is
within the file's (`SizesTrue`). A handler is a sequence of small changes: there
is a lemma for each change of the caches (`HashKeeps`, `NegativeKeeps`,
`ForgetKeeps`, `DropLinkKeeps`, `AliasKeeps`, `IputKeeps`, ...), one for each of the
storage (`StorageMoves` and below), and one for each handler, which puts them in the
code's order.

Two theorems have a hypothesis. `DcacheCorrect` needs `~InodeAllocFails`: when
`new_inode` fails after an unlink of the same name, a negative dentry stays over a
name that exists. `SizesCorrect` needs `TruncSizes \subseteq {0}`: truncating to a
greater size raises `i_size` alone, since there is no `setattr`. `NlinkCorrect`
needs neither.

`RefusalsHaveCause` is `VtfsSpec => RefusedOnlyForCause`, without a hypothesis. `VfsInv` says
that a positive dentry's name is in the list, so no lookup of a child can fail, but not enough about the other
checks of the storage, and `CauseInv` adds two facts (`CauseInvariance`):

- the root is there (`RootInPlace`): it has no dentry in the cache, so nothing in
  `CachesSound` speaks of it, and each call in the root directory looks its number up;
- the number of an open file's inode is never a directory's (`OpenAreFiles`), else
  a read could return `-EISDIR` (`vtfs_ram_impl.c:401`). While a dentry holds the inode, `PositiveTrue`
  says so; but an open file outlives its dentry and its payload. What keeps it true
  then is that numbers are not given out again: a payload that stays keeps its type and one that
  appears is numbered `next_ino` or above (`KindsStay`), and the numbers of open inodes, which are below that, do
  not change (`NumbersStay`); `OpenKept` puts the two together.

`WithCause` is the conclusion of the property. There is a lemma for each handler (`CreateCause`,
`UnlinkCause`, `RmdirCause`, ...), which goes through the storage's checks in the
code's order and shows which of them cannot fail: a directory reached is in the list (`DirThere`),
a name that is missing in the cache is free unless `InodeAllocFails` (`MissingFree`), a positive one is found with its type
(`PositiveFound`).

`HandlersImplement` is `VtfsSpec => HandlersImplementFs`. `OperationImplements` (in
`RamImplementsFs_proofs`) is the step of `Refinement` for one call of a mounted storage; what is left is that a
handler makes one such call or none (`HandlersCall`), at a position between 0
and `LOFF_MAX`. Besides `~CopyFaults`, as for `Refinement`, it has the
hypothesis `0..LOFF_MAX \subseteq Offset`: `Offset` are the offsets at which `FsSpec` lets a file be written,
and a seek can reach every position.

### Races inside it: `RamRace_proofs`

`RaceIntact` is `RaceSpec => []IntactUnlessRaced`, for any number of processes.
What a walk meets is the least set closed under `next` (`From`), so no induction along the list is
needed: `FromMeets` shows that a node is met by showing it in every closed set.
`RaceInv` says that, until a stale write has happened, the list is straight (no two
of its nodes have one `next`, none leads back to the first), that the named nodes are the
known ones and in the list, and where each call is (`MidCall`): a walk that
looks for a name that exists still has the name's node before it, a creation past its walk
has a name that nobody else has. `BypassStraight`, `BeheadStraight` and
`PrependStraight` say what the three writes of the list do to it when they are
not stale; `FromFollows` and `NoLoop` that a walk standing on a node that is taken out still
comes to the rest. `RaceInvInit` needs a counting argument (`FirstFinite`), since the
initial list is a chain through all its nodes. TLC has checked `RaceInv` on the
configuration of `race`; it is not in that run's list because of the time it takes, and says nothing
more of the code than `IntactUnlessRaced`.

`UniqueTwo` and `NotFoundTwo` are the same of `UniqueInTwoDirectories` and
`NotFoundInTwoDirectories`, where writes may be stale: nodes may be lost from
the list, appear in it again, and freed ones may stay. They follow from `TwoInvariance`,
`RaceSpec => []TwoInv`. What it says is about the nodes that live (`Live`: not freed and not about to be):

- `NothingComesBack`: what a call would make `nodes_head` lead to when it writes it (`Held`)
  has, of *another* directory, no entry that the list has not. A removal in
  the other directory takes its node out of all walks at once (`FromRelinked`, `TakenOutSets`), not out
  of the list alone, even when its predecessor has left the list;
- `Fits`: of its *own* directory, a call that would write `nodes_head` loses
  nothing (the head has no more of those entries than what it would write),
  since it has the directory alone; a walk still has before it the node that bears its name, if the
  list has one (`WalkGuarded`); the name of a creation past its walk is nowhere `Within`
  the list or what a late write would make of it;
- `NamedOnce` and `Fits` speak of `Within` and not of the list, since a stale
  write may put back what the list has lost;
- `Aged`: each `next` is an older node, also after stale writes: without it
  `prev` might come after `cur` in the list, and taking `cur` out would lose what is between.

Where a stale write of one directory's call meets an entry of a directory that is
neither its own nor the one that lost the entry, `NothingComesBack` fails. With two directories there
is no third (`TwoDirs`, used in `TakenOutKeeps` and `PublishGuarded`): with three a name that was lost and
created again comes back, and the property is false. TLC agreed on
`TwoInv` in the configuration of `race` (464718 states) before it was proved; it takes longer
than that run should.

### The listing: `Readdir_proofs`

`ScanInvariance` is `ReaddirSpec => []ScanInv`; `MissesBounded` and `RepeatsBounded` follow. Both
properties speak of the history alone and are not inductive: a removal shows its
effect on the listing many calls later. `ScanInv` says what is owed at each
moment: the lasting entries already gone past unseen (`PassedOver`) are no more than the
removals, and the entries repeated, together with those emitted that are still
to come (`ToRepeat`), no more than the insertions.

The place of an entry in the listing is the number of entries ahead of it in
the list (`Rank`), so nothing is proved by induction: `RankApart` says that no two
entries have one place, `RankReached` that each place below the number of entries is
taken, by comparing the two cardinalities. `ConsRanks` and `RemoveRanks` say how an insertion
at the head and a removal move the places: by one, the same way, and only behind the spot
that changed, hence at most one entry crosses the scan's place each time (`ChangeScan`). `EmitScan` is
a getdents call that returns an entry; at one that returns nothing all places lie behind
(`EndScan`), and what was missed is among what was passed over.

### The wire: `Http_proofs`, `Base64_proofs`

`ParseInBounds`: for every answer and every buffer a little
below `INT_MAX`, a result of `parse_http_response` other than its errors means
that the length covers the return value, lies within the bytes received and fits the
buffer. The lemma it needs is that a negative length, which passes the first
two checks, is stopped by the last one, after wrapping (`NegativeTooLong`).

`Base64_proofs` proves for inputs of every length that the text of
`base64_encode` stays within the buffer of `BASE64_SIZE` bytes all through the loop (`EncodedFits`)
and that a decoder that takes the length from the request gets the input back
(`RoundTrip`). The padding tests (`base64.c:24`, `30`) do not give standard
base64: `i - 1 < input_len` always holds, so one byte becomes `xx=A` and not
`xx==`; the proof shows that the sextets which hold the input's bits
(`GroupChars`) are right nevertheless.

`EncodedFits` is about the loop and not a formula: `EncodeRound` is what one round does to
`i` and to the output, `IsEncodeLoop` a run of rounds each begun with `i < input_len`. After `r` rounds
`i` is the lesser of `3r` and `input_len` and the output is the first `4r` characters of `base64_encode`;
this is shown without induction over data, by the least round that would break it.

### The handlers over the net storage: `NetVtfs_proofs`

`NetInvariance` is `NetSafety => []NetInv`, hence it holds of `NetSpec`, which adds fairness alone;
`NetTypeCorrect`, `CoherenceOutsideDoubt`, `SuccessesAreDone` and `BytesCounted`
follow, and `PositionsInFile` with it. A handler is spread over several steps here, with the server and other
clients between them, so the invariant has to say what is true while it waits:

- the request under way is the one this handler made at this point (`Asked`,
  `Calls`): a late request of an earlier handler is never taken for it;
- an answer that parses as 0 says what the server holds (`Success`), and what
  the handler learned from it before asking for the link count is still so
  (`NameLearned`), as long as nobody else has changed the tree or the name is not in doubt (`Sure`);
- each byte counted is in its place in the file and the position is not past them (`BytesWritten`).

That a garbled answer never parses as 0 is `ParseInBounds` (`GarbledIsError`);
that the bytes the server stores are the chunk's first ones, however few it
took, is `RoundTrip` (`DecodedPrefix`). `StoredMore` adds a chunk to those that are stored;
`Meddled` is what other clients and late requests may do to a waiting handler: whatever they touch is
in doubt. `NetInvStep` has one lemma for each action.

`PositionsInFile` needs a second invariant over it, `PosInv`. The position is compared with a file
that others may remove and a handler asked about several steps ago, so `PosInv` says that each
number the kernel or a handler holds has been given out (`NumbersUsed`: the server gives it to no
other file), that a file handler moves the open file from where it stands (`Moving`), and that what a
successful call told lies in the file (`Told`). `Grows` is what any change at the server keeps of
that: whatever lay in a file that is still there lies in it; `PerformGrows` shows it of every request.

### Model-checked only

Every invariant and every action property of the runs that pass is a theorem. What is left:

- `ScanEnds` and `CallsEnd` are liveness, which TLAPS does not prove, nor `ENABLED`.
- The four violated properties, which are false.

## Disagreements with the documentation

- Part 9 of the README asks that names refer to one and the same inode
  (`README.md:476`). Each lookup makes a new one (`vtfs.c:159`). Run
  vtfs_one_inode.
- Part 8 shows `echo "test" > file1` replacing the content (`README.md:464-470`).
  There is no `setattr`, truncation stays in the kernel's inode, and the old
  tail is read again (`vtfs.c:23`, `vtfs_ram_impl.c:469`). Run vtfs_truncate.
- Part 3 says that `dir_emit` is called for every object (`README.md:279`).
  One that was there throughout is missed when another is removed before it
  (`vtfs_ram_impl.c:213`), as with `rm -r` of a directory larger than what the
  caller reads at once. Run readdir_missed.
- A positive result of `vtfs_http_call` is an error code (`README.md:525`).
  `vtfs_net_storage_write` returns it (`vtfs_net_impl.c:582`), and `write(2)` takes it for a
  number of bytes; `demo.sh:28` expects what was written to be read back. Run
  net_errno.

## What is not modelled

- Text: the splitting of header lines and the escaping of arguments in
  `http.c`, and `parse_dirent`, which copies fields at fixed places for one
  `dir_emit`. `parse_node_meta` is modelled by the fields the handlers use.
- What the kernel frees: the second `iput` after `d_make_root` has failed
  (`vtfs.c:124`), and the dentries and inodes that outlive the storage because
  `vtfs_kill_sb` calls neither `kill_anon_super` nor `generic_shutdown_super`. Both
  end in undefined behaviour of the kernel.
- Reads and writes of one file at once in the RAM storage (`krealloc` under a
  copy, the payload freed under a read): the same, with no value to reason about.
- `O_APPEND`, `pread`, `pwrite`: no model has them. mmap has no handler.
- An HTTP server that lies: a `written` beyond the chunk (`vtfs_net_impl.c:600`), an inode
  number above `INT_MAX` (`vtfs.c:134`), a body shorter than the fields asked for under a return
  value of 0 (`vtfs_net_impl.c:92`, `133`, `249`).
- Loading the module is a straight line. Permissions and modes: no handler
  reads them, the VFS does. Scripts and tests drive the module from outside.
