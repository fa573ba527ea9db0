-------------------------------- MODULE FsSpec --------------------------------
(***************************************************************************)
(* What a storage behind struct vtfs_storage_ops promises: a tree of named *)
(* entries, each naming a file or a directory, and for each file its bytes.*)
(* There are no lists, no reference counts and no buffers here; a file     *)
(* exists exactly as long as some entry names it.                          *)
(***************************************************************************)
EXTENDS Integers, Sequences, FiniteSets

CONSTANTS Name, Ino, Root, Offset, Buffer

VARIABLES
  entry,    \* function from <<directory, name>> to an inode number
  kind,     \* function from the inode numbers that exist to "DIR" or "FILE"
  content,  \* function from the files that exist to their sequence of bytes
  used      \* inode numbers handed out since the file system was mounted

vars == <<entry, kind, content, used>>

Empty == [i \in {} |-> 0]
Without(f, S) == [x \in DOMAIN f \ S |-> f[x]]
With(f, x, v) == [y \in DOMAIN f \cup {x} |-> IF y = x THEN v ELSE f[y]]

IsDir(d)  == d \in DOMAIN kind /\ kind[d] = "DIR"
IsFile(i) == i \in DOMAIN kind /\ kind[i] = "FILE"
Children(d) == {k \in DOMAIN entry : k[1] = d}

Unmounted == entry = Empty /\ kind = Empty /\ content = Empty /\ used = {}
Mounted   == Root \in DOMAIN kind

Mount ==
  /\ Unmounted
  /\ kind' = With(Empty, Root, "DIR")
  /\ UNCHANGED <<entry, content, used>>

Unmount == Mounted /\ Unmounted'

\* A new empty file or directory with an inode number never used before.
Add(d, name, type) ==
  /\ IsDir(d) /\ <<d, name>> \notin DOMAIN entry
  /\ \E i \in Ino \ used :
       /\ entry' = With(entry, <<d, name>>, i)
       /\ kind' = With(kind, i, type)
       /\ content' = IF type = "FILE" THEN With(content, i, <<>>) ELSE content
       /\ used' = used \cup {i}

Link(i, d, name) ==
  /\ IsFile(i) /\ IsDir(d) /\ <<d, name>> \notin DOMAIN entry
  /\ entry' = With(entry, <<d, name>>, i)
  /\ UNCHANGED <<kind, content, used>>

\* Removing a name: what no entry names any more is gone.
Remove(d, name) ==
  LET i    == entry[<<d, name>>]
      gone == IF \E k \in DOMAIN entry \ {<<d, name>>} : entry[k] = i THEN {} ELSE {i}
  IN /\ <<d, name>> \in DOMAIN entry
     /\ kind[i] = "FILE" \/ Children(i) = {}
     /\ entry' = Without(entry, {<<d, name>>})
     /\ kind' = Without(kind, gone)
     /\ content' = Without(content, gone)
     /\ UNCHANGED used

\* The bytes of buf at offset off; bytes never written read as zero.
Write(i, off, buf) ==
  LET old == content[i]
      end == off + Len(buf)
  IN /\ IsFile(i)
     /\ content' = [content EXCEPT ![i] =
          [k \in 1..(IF end > Len(old) THEN end ELSE Len(old)) |->
             CASE k > off /\ k <= end -> buf[k - off]
               [] k <= Len(old) /\ ~(k > off /\ k <= end) -> old[k]
               [] OTHER -> 0]]
     /\ UNCHANGED <<entry, kind, used>>

Init == Unmounted

Change ==
  \/ \E d \in Ino \cup {Root}, name \in Name :
       \/ \E type \in {"DIR", "FILE"} : Add(d, name, type)
       \/ \E i \in Ino : Link(i, d, name)
       \/ Remove(d, name)
  \/ \E i \in Ino, off \in Offset, buf \in Buffer : Write(i, off, buf)

Next == Mount \/ Unmount \/ Change

Spec == Init /\ [][Next]_vars

\* While it is mounted: the root to begin with, then one change after another.
NewTree ==
  /\ entry = Empty /\ kind = With(Empty, Root, "DIR") /\ content = Empty /\ used = {}

TreeSpec == NewTree /\ [][Change]_vars
=============================================================================
