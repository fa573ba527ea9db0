-------------------------------- MODULE Readdir --------------------------------
(***************************************************************************)
(* Listing a directory while other processes change it.  vtfs_iterate      *)
(* emits one entry for each getdents call and keeps its place as a count   *)
(* in f_pos; the storage finds entry number n by walking the list from its *)
(* head, where new nodes are put.  The VFS serialises each call with the   *)
(* changes of the directory, not the scan.                                 *)
(*                                                                         *)
(* The last four variables record the scan's history for the properties.   *)
(***************************************************************************)
EXTENDS RamStorage

CONSTANT MaxChanges   \* changes of the directory during a scan; a bound for TLC

VARIABLES
  f_pos,     \* of the open directory
  scanning,  \* between opendir and the getdents that returns nothing
  seen,      \* the entries emitted
  stable,    \* the entries in the directory ever since opendir
  repeats,   \* entries emitted that had been emitted before
  inserted,  \* entries added to the directory since opendir
  removed    \* entries removed from it since opendir

dir_vars == <<mounted, nodes, payloads, next_ino, ret,
              f_pos, scanning, seen, stable, repeats, inserted, removed>>

Dir == VTFS_ROOT_INO

\* What the directory listed holds.
EntriesOf(list) == {list[i] : i \in {j \in DOMAIN list : list[j].parent_ino = Dir}}
Entries == EntriesOf(nodes)

\* The history starts over, with these entries present.
History(entries) ==
  seen' = {} /\ stable' = entries /\ repeats' = 0 /\ inserted' = 0 /\ removed' = 0

opendir ==
  /\ ~scanning
  /\ f_pos' = 0 /\ scanning' = TRUE
  /\ History(Entries)
  /\ UNCHANGED vars

\* iterate_dir: the entry that *offset counts to, or -ENOENT if none is there.
iterate_dir(offset) == {nodes[i] : i \in {j \in DOMAIN nodes : EntryAt(j, Dir, offset)}}

OffsetUnshifted == f_pos                                   \* mutant
OffsetLags      == IF f_pos = 2 THEN 0 ELSE f_pos - 3      \* mutant
\* Positions 0 and 1 are "." and "..".
storage_offset  == f_pos - 2

PosKept == f_pos       \* mutant
NextPos == f_pos + 1

\* One getdents call: "." and ".." first, then the storage's entries.
vtfs_iterate ==
  /\ scanning
  /\ \/ f_pos < 2 /\ f_pos' = NextPos /\ UNCHANGED <<scanning, seen, repeats>>
     \/ \E entry \in iterate_dir(storage_offset) :
          /\ f_pos >= 2 /\ f_pos' = NextPos
          /\ seen' = seen \cup {entry}
          /\ repeats' = IF entry \in seen THEN repeats + 1 ELSE repeats
          /\ UNCHANGED scanning
     \/ /\ f_pos >= 2 /\ iterate_dir(storage_offset) = {}
        /\ scanning' = FALSE
        /\ UNCHANGED <<f_pos, seen, repeats>>
  /\ UNCHANGED vars /\ UNCHANGED <<stable, inserted, removed>>

\* Another process's call; those that fail change nothing.
ChangeOf(parent, name) ==
  \/ create_file(parent, name) \/ mkdir(parent, name)
  \/ unlink(parent, name)      \/ rmdir(parent, name)
  \/ \E target \in AnyIno : link(target, parent, name)

Change ==
  /\ \E parent \in AnyIno, name \in Name : ChangeOf(parent, name)
  /\ ret' = 0
  /\ LET after == EntriesOf(nodes')
     IN \/ /\ scanning
           /\ inserted' = inserted + Cardinality(after \ Entries)
           /\ removed' = removed + Cardinality(Entries \ after)
           /\ inserted' + removed' <= MaxChanges
           /\ stable' = stable \cap after
           /\ UNCHANGED <<seen, repeats>>
        \/ ~scanning /\ History({})
  /\ UNCHANGED <<f_pos, scanning>>

ReaddirInit ==
  /\ mounted = TRUE
  /\ nodes = <<NewNode(0, "", VTFS_ROOT_INO)>>
  /\ payloads = [p \in {VTFS_ROOT_INO} |-> NewPayload("DIR")]
  /\ next_ino = VTFS_ROOT_INO + 1
  /\ ret = 0
  /\ f_pos = 0 /\ scanning = FALSE
  /\ seen = {} /\ stable = {} /\ repeats = 0 /\ inserted = 0 /\ removed = 0

ReaddirNext == opendir \/ vtfs_iterate \/ Change

\* A process that lists a directory calls getdents until nothing is returned.
ReaddirSpec ==
  ReaddirInit /\ [][ReaddirNext]_dir_vars /\ WF_dir_vars(vtfs_iterate)

-----------------------------------------------------------------------------
(* Properties. *)

Missed == {e \in stable : e \notin seen}

\* A scan that ends has missed an entry that was there all the time only if
\* an entry was removed meanwhile, and at most one for each: inserting at the
\* head of the list never hides an entry.
MissesBoundedByRemovals ==
  ~scanning => Cardinality(Missed) <= removed

\* An entry is emitted again only if one was inserted, once for each.
RepeatsBoundedByInserts == repeats <= inserted

\* Every scan ends, however other processes change the directory as long as
\* they do so only so many times: each getdents moves f_pos on, or ends it.
ScanEnds == scanning ~> ~scanning

\* Violated.  dir_emit is called for every object of the directory (README,
\* part 3): no entry that was there all the time is missed.
EveryEntryListed == ~scanning => Missed = {}

-----------------------------------------------------------------------------
(* Why the bounds hold.                                                    *)

\* The entries that a walk from nodes_head meets before e, and how many.
Ahead(list, e) ==
  {list[j] : j \in {i \in DOMAIN list :
     list[i].parent_ino = Dir /\ \E k \in DOMAIN list : i < k /\ list[k] = e}}
Rank(list, e) == Cardinality(Ahead(list, e))

\* What the next getdents counts to; the entries that the scan has gone past
\* and not emitted; and those it has emitted and will come to again.
Place      == IF f_pos <= 2 THEN 0 ELSE f_pos - 2
PassedOver == {e \in stable \ seen : Rank(nodes, e) < Place}
ToRepeat   == {e \in Entries \cap seen : Rank(nodes, e) >= Place}

ScanInv ==
  /\ IInv /\ mounted = TRUE
  /\ f_pos \in Nat /\ scanning \in BOOLEAN
  /\ repeats \in Nat /\ inserted \in Nat /\ removed \in Nat
  /\ stable \subseteq Entries
  /\ f_pos <= 2 => seen = {}
  /\ scanning => /\ Cardinality(PassedOver) <= removed
                 /\ repeats + Cardinality(ToRepeat) <= inserted
  /\ MissesBoundedByRemovals /\ RepeatsBoundedByInserts
=============================================================================
