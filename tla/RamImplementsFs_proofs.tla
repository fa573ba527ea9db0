------------------------ MODULE RamImplementsFs_proofs ------------------------
(***************************************************************************)
(* The RAM storage implements FsSpec, for every set of names, inode        *)
(* numbers, offsets and buffers: the storage as loaded maps to a file      *)
(* system not mounted, and every call to one step of FsSpec or to none.    *)
(***************************************************************************)
EXTENDS RamImplementsFs, RamStorage_proofs

-----------------------------------------------------------------------------
(* The refinement mapping, as facts about the list and the payloads.       *)

\* The directory and name of a node.
KeyOf(n) == <<n.parent_ino, n.name>>

\* e is the map from names to inode numbers that the list ns makes.
Entries(e, ns) ==
  /\ e = [k \in DOMAIN e |-> e[k]]
  /\ \A i \in DOMAIN ns : ns[i].parent_ino # 0 =>
       KeyOf(ns[i]) \in DOMAIN e /\ e[KeyOf(ns[i])] = ns[i].payload
  /\ \A k \in DOMAIN e : \E i \in DOMAIN ns : ns[i].parent_ino # 0 /\ k = KeyOf(ns[i])

\* The bytes of a file, without the rest of its buffer.
BytesOf(r) == [k \in 1..r.size |-> r.data[k]]

\* d and c are the types and the contents of the payloads ps.
Payloads(d, c, ps) ==
  /\ d = [p \in DOMAIN ps |-> ps[p].type]
  /\ c = [p \in {q \in DOMAIN ps : ps[q].type = "FILE"} |-> BytesOf(ps[p])]

\* What lookup finds is the one node that bears the name.
LEMMA EntryMapFacts == IInv => Entries(EntryMap, nodes)
<1> SUFFICES ASSUME IInv
             PROVE  Entries(EntryMap, nodes)
  OBVIOUS
<1>1. /\ EntryMap = [k \in DOMAIN EntryMap |-> EntryMap[k]]
      /\ DOMAIN EntryMap = EntryKeys
  BY DEF EntryMap
<1>2. \A k \in EntryKeys : \E i \in DOMAIN nodes :
        nodes[i].parent_ino # 0 /\ k = <<nodes[i].parent_ino, nodes[i].name>>
  BY DEF EntryKeys
<1>3. ASSUME NEW i \in DOMAIN nodes, nodes[i].parent_ino # 0
      PROVE  /\ <<nodes[i].parent_ino, nodes[i].name>> \in EntryKeys
             /\ EntryMap[<<nodes[i].parent_ino, nodes[i].name>>] = nodes[i].payload
  <2> DEFINE d == nodes[i].parent_ino
             n == nodes[i].name
             c == CHOOSE j \in DOMAIN nodes : FindChild(j, d, n)
  <2>1. <<d, n>> \in EntryKeys
    BY <1>3 DEF EntryKeys
  <2>2. \A j \in DOMAIN nodes : IsChild(j, d, n) => j = i
    BY <1>3 DEF IInv, UniqueNames, IsChild
  <2>3. i \in Nat /\ 1..(i - 1) \subseteq DOMAIN nodes /\ i \notin 1..(i - 1)
    BY <1>3 DEF IInv, TypeOK
  <2>4. FindChild(i, d, n)
    BY <2>2, <2>3 DEF FindChild, IsChild
  <2>5. c \in DOMAIN nodes /\ FindChild(c, d, n)
    BY <2>4
  <2>6. c = i
    BY <2>2, <2>5 DEF FindChild
  <2>7. EntryMap[<<d, n>>] = nodes[c].payload
    BY <2>1 DEF EntryMap
  <2> QED
    BY <2>1, <2>6, <2>7
<1> QED
  BY <1>1, <1>2, <1>3 DEF Entries, KeyOf

\* Reading a whole file gives its bytes.
LEMMA PayloadMapFacts == IInv => Payloads(KindMap, ContentMap, payloads)
<1> SUFFICES ASSUME IInv
             PROVE  Payloads(KindMap, ContentMap, payloads)
  OBVIOUS
<1>1. ASSUME NEW p \in DOMAIN payloads
      PROVE  ReadBytes(p, 0, payloads[p].size) = BytesOf(payloads[p])
  <2>1. payloads[p].size \in Nat
    BY DEF IInv, TypeOK, Payload
  <2> DEFINE n == payloads[p].size
  <2>2. (IF 0 + n <= n THEN n ELSE IF 0 < n THEN n - 0 ELSE 0) = n
    BY <2>1
  <2>3. \A k \in 1..n : 0 + k = k
    BY <2>1
  <2> QED
    BY <2>2, <2>3 DEF ReadBytes, BytesOf
<1> QED
  BY <1>1 DEF Payloads, KindMap, ContentMap

-----------------------------------------------------------------------------
(* What a change of the list does to the map of names.                     *)

\* A node put at the head adds its name.
LEMMA EntryAdded ==
  ASSUME NEW e, NEW f, NEW n \in Node, n.parent_ino # 0, nodes \in Seq(Node),
         Entries(e, nodes), Entries(f, nodes'), nodes' = Cons(n, nodes)
  PROVE  f = Fs!With(e, KeyOf(n), n.payload)
<1> DEFINE g == [y \in DOMAIN e \cup {KeyOf(n)} |-> IF y = KeyOf(n) THEN n.payload ELSE e[y]]
<1>1. /\ 1 \in DOMAIN nodes' /\ nodes'[1] = n
      /\ \A i \in DOMAIN nodes : i + 1 \in DOMAIN nodes' /\ nodes'[i + 1] = nodes[i]
      /\ \A i \in DOMAIN nodes' : i = 1 \/ \E j \in DOMAIN nodes : nodes'[i] = nodes[j]
  BY ConsList
<1>2. KeyOf(n) \in DOMAIN f /\ f[KeyOf(n)] = n.payload
  BY <1>1 DEF Entries
<1>3. ASSUME NEW y \in DOMAIN e, y # KeyOf(n)
      PROVE  y \in DOMAIN f /\ f[y] = e[y]
  <2>1. PICK i \in DOMAIN nodes : nodes[i].parent_ino # 0 /\ y = KeyOf(nodes[i])
    BY DEF Entries
  <2>2. e[y] = nodes[i].payload
    BY <2>1 DEF Entries
  <2>3. i + 1 \in DOMAIN nodes' /\ nodes'[i + 1] = nodes[i]
    BY <1>1
  <2> QED
    BY <2>1, <2>2, <2>3 DEF Entries
<1>4. ASSUME NEW y \in DOMAIN f, y # KeyOf(n)
      PROVE  y \in DOMAIN e
  <2>1. PICK i \in DOMAIN nodes' : nodes'[i].parent_ino # 0 /\ y = KeyOf(nodes'[i])
    BY DEF Entries
  <2>2. PICK j \in DOMAIN nodes : nodes'[i] = nodes[j]
    BY <1>1, <1>4, <2>1
  <2> QED
    BY <2>1, <2>2 DEF Entries
<1>5. DOMAIN f = DOMAIN g /\ \A y \in DOMAIN f : f[y] = g[y]
  BY <1>2, <1>3, <1>4
<1>6. f = [y \in DOMAIN f |-> f[y]]
  BY DEF Entries
<1>7. f = g
  BY <1>5, <1>6
<1> QED
  BY <1>7 DEF Fs!With

\* A node taken out takes its name away, and no other.
LEMMA EntryRemoved ==
  ASSUME NEW e, NEW f, NEW k \in DOMAIN nodes, nodes[k].parent_ino # 0,
         nodes \in Seq(Node), UniqueNames, Entries(e, nodes), Entries(f, nodes'),
         nodes' = RemoveAt(nodes, k)
  PROVE  f = Fs!Without(e, {KeyOf(nodes[k])})
<1> DEFINE g == [y \in DOMAIN e \ {KeyOf(nodes[k])} |-> e[y]]
<1>1. /\ \A i \in DOMAIN nodes \ {k} : \E j \in DOMAIN nodes' : nodes'[j] = nodes[i]
      /\ \A i \in DOMAIN nodes' : \E j \in DOMAIN nodes \ {k} : nodes'[i] = nodes[j]
  BY RemoveList
<1>2. \A i \in DOMAIN nodes \ {k} : KeyOf(nodes[i]) # KeyOf(nodes[k])
  BY DEF UniqueNames, KeyOf
<1>3. ASSUME NEW y \in DOMAIN e, y # KeyOf(nodes[k])
      PROVE  y \in DOMAIN f /\ f[y] = e[y]
  <2>1. PICK i \in DOMAIN nodes : nodes[i].parent_ino # 0 /\ y = KeyOf(nodes[i])
    BY DEF Entries
  <2>2. e[y] = nodes[i].payload
    BY <2>1 DEF Entries
  <2>3. PICK j \in DOMAIN nodes' : nodes'[j] = nodes[i]
    BY <1>1, <1>3, <2>1
  <2> QED
    BY <2>1, <2>2, <2>3 DEF Entries
<1>4. ASSUME NEW y \in DOMAIN f
      PROVE  y \in DOMAIN e /\ y # KeyOf(nodes[k])
  <2>1. PICK i \in DOMAIN nodes' : nodes'[i].parent_ino # 0 /\ y = KeyOf(nodes'[i])
    BY DEF Entries
  <2>2. PICK j \in DOMAIN nodes \ {k} : nodes'[i] = nodes[j]
    BY <1>1
  <2> QED
    BY <1>2, <2>1, <2>2 DEF Entries
<1>5. DOMAIN f = DOMAIN g /\ \A y \in DOMAIN f : f[y] = g[y]
  BY <1>3, <1>4
<1>6. f = [y \in DOMAIN f |-> f[y]]
  BY DEF Entries
<1>7. f = g
  BY <1>5, <1>6
<1> QED
  BY <1>7 DEF Fs!Without

\* The same list, the same names.
LEMMA EntrySame ==
  ASSUME NEW e, NEW f, NEW ns, Entries(e, ns), Entries(f, ns)
  PROVE  f = e
<1>1. DOMAIN e = DOMAIN f /\ \A k \in DOMAIN e : f[k] = e[k]
  BY DEF Entries
<1> QED
  BY <1>1 DEF Entries

\* The same payloads, the same files.
LEMMA PayloadSame ==
  ASSUME NEW d, NEW c, NEW d1, NEW c1, NEW ps, Payloads(d, c, ps), Payloads(d1, c1, ps)
  PROVE  d1 = d /\ c1 = c
BY DEF Payloads

\* The mapping after a step is the one of the new list and payloads.
LEMMA MapsAfter ==
  IInv' => Entries(EntryMap', nodes') /\ Payloads(KindMap', ContentMap', payloads')
<1>1. IInv' => Entries(EntryMap, nodes)'
  BY EntryMapFacts, PTL
<1>2. IInv' => Payloads(KindMap, ContentMap, payloads)'
  BY PayloadMapFacts, PTL
<1> QED
  BY <1>1, <1>2

-----------------------------------------------------------------------------
(* The operations.                                                         *)

\* A call that changes nothing, or returns an error early.
LEMMA FailImplements ==
  ASSUME IInv, IInv', UNCHANGED storage
  PROVE  UNCHANGED Fs!vars
<1>1. UNCHANGED <<nodes, payloads, next_ino>>
  BY DEF storage
<1>2. EntryMap' = EntryMap
  BY <1>1, EntryMapFacts, MapsAfter, EntrySame
<1>3. KindMap' = KindMap /\ ContentMap' = ContentMap
  BY <1>1, PayloadMapFacts, MapsAfter, PayloadSame
<1> QED
  BY <1>1, <1>2, <1>3 DEF Fs!vars

\* Before a mount and after an unmount there is nothing.
LEMMA NothingThere == IInv /\ ~mounted /\ Fresh => Fs!Unmounted
<1> SUFFICES ASSUME IInv, ~mounted, Fresh
             PROVE  Fs!Unmounted
  OBVIOUS
<1>1. nodes = <<>> /\ DOMAIN payloads = {}
  BY DEF IInv, RefCountExact
<1>2. EntryMap = Fs!Empty
  <2>1. DOMAIN EntryMap = {} /\ EntryMap = [k \in DOMAIN EntryMap |-> EntryMap[k]]
    BY <1>1, EntryMapFacts DEF Entries
  <2> QED
    BY <2>1 DEF Fs!Empty
<1>3. KindMap = Fs!Empty /\ ContentMap = Fs!Empty
  BY <1>1, PayloadMapFacts DEF Payloads, Fs!Empty
<1>4. {i \in Ino : i < next_ino} = {}
  <2>1. next_ino = VTFS_ROOT_INO + 1
    BY Zenon DEF Fresh
  <2>2. \A i \in Ino : ~(i < next_ino)
    BY <2>1, InoAssumption DEF VTFS_ROOT_INO
  <2> QED
    BY ONLY <2>2
<1> QED
  BY <1>2, <1>3, <1>4 DEF Fs!Unmounted

\* vtfs_ram_storage_init makes the root, or fails.
LEMMA InitImplements ==
  ASSUME FsInv, IInv', init
  PROVE  Fs!Mount \/ UNCHANGED Fs!vars
<1>1. CASE Fail(ENOMEM)
  BY <1>1, FailImplements DEF FsInv, Fail
<1>2. CASE /\ nodes' = <<NewNode(0, "", VTFS_ROOT_INO)>>
           /\ payloads' = [p \in DOMAIN payloads \cup {VTFS_ROOT_INO} |->
                IF p = VTFS_ROOT_INO THEN NewPayload("DIR") ELSE payloads[p]]
           /\ next_ino' = VTFS_ROOT_INO + 1
  <2>1. ~mounted /\ nodes = <<>> /\ next_ino = VTFS_ROOT_INO + 1
    BY Zenon DEF FsInv, IInv, Fresh, init
  <2>2. DOMAIN payloads = {}
    BY <2>1 DEF FsInv, IInv, RefCountExact
  <2>3. Fs!Unmounted
    BY <2>1, NothingThere DEF FsInv
  <2>4. KindMap' = Fs!With(Fs!Empty, VTFS_ROOT_INO, "DIR") /\ ContentMap' = Fs!Empty
    <3>1. /\ DOMAIN payloads' = {VTFS_ROOT_INO}
          /\ payloads'[VTFS_ROOT_INO].type = "DIR"
      BY <1>2, <2>2 DEF NewPayload
    <3>2. KindMap' = [p \in {VTFS_ROOT_INO} |-> "DIR"] /\ DOMAIN ContentMap' = {}
      BY <3>1, MapsAfter DEF Payloads
    <3> QED
      BY <3>1, <3>2, MapsAfter DEF Payloads, Fs!With, Fs!Empty
  <2>5. EntryMap' = Fs!Empty
    <3>1. PICK root : root = NewNode(0, "", VTFS_ROOT_INO)
      OBVIOUS
    <3>2. \A i \in DOMAIN nodes' : nodes'[i].parent_ino = 0
      <4>1. root.parent_ino = 0 /\ nodes' = <<root>>
        BY <1>2, <3>1 DEF NewNode
      <4>2. \A i \in DOMAIN <<root>> : <<root>>[i] = root
        OBVIOUS
      <4> QED
        BY <4>1, <4>2
    <3>3. DOMAIN EntryMap' = {}
      BY <3>2, MapsAfter DEF Entries
    <3> QED
      BY <3>3, MapsAfter DEF Entries, Fs!Empty
  <2> QED
    BY <1>2, <2>1, <2>3, <2>4, <2>5 DEF Fs!Mount, Fs!Unmounted
<1> QED
  BY <1>1, <1>2, Zenon DEF init, alloc_payload

\* vtfs_ram_storage_shutdown leaves nothing behind.
LEMMA ShutdownImplements ==
  ASSUME FsInv, IInv', mounted, shutdown
  PROVE  Fs!Unmount
<1>1. ~mounted' /\ Fresh'
  BY Zenon DEF shutdown, Fresh
<1>2. Fs!Unmounted'
  BY <1>1, NothingThere, PTL
<1>3. Fs!Mounted
  <2>1. VTFS_ROOT_INO \in DOMAIN payloads
    BY Zenon DEF FsInv, RootInPlace
  <2> QED
    BY <2>1, PayloadMapFacts DEF FsInv, Payloads, Fs!Mounted
<1> QED
  BY <1>2, <1>3 DEF Fs!Unmount

\* A directory of the storage is one of the file system; so is a file.
LEMMA KindFacts ==
  ASSUME IInv
  PROVE  /\ \A i : Reaches(i) <=> i \in DOMAIN payloads
         /\ \A i : IsDir(i) => Fs!IsDir(i)
         /\ \A i : i \in DOMAIN payloads /\ payloads[i].type = "FILE" => Fs!IsFile(i)
<1>1. \A i : Reaches(i) <=> i \in DOMAIN payloads
  BY DEF IInv, RefCountExact, Reaches
<1>2. DOMAIN KindMap = DOMAIN payloads /\ \A i \in DOMAIN payloads : KindMap[i] = payloads[i].type
  BY PayloadMapFacts DEF Payloads
<1> QED
  BY <1>1, <1>2 DEF IsDir, Fs!IsDir, Fs!IsFile

\* A name that find_child does not find is not in the map.
LEMMA NameFree ==
  ASSUME IInv, NEW d, NEW name, ~HasChild(d, name)
  PROVE  <<d, name>> \notin DOMAIN EntryMap
<1>1. ASSUME <<d, name>> \in DOMAIN EntryMap
      PROVE  FALSE
  <2>1. PICK i \in DOMAIN nodes : <<d, name>> = KeyOf(nodes[i])
    BY <1>1, EntryMapFacts DEF Entries
  <2> QED
    BY <2>1 DEF KeyOf, HasChild, IsChild
<1> QED
  BY <1>1

\* create_file and mkdir add a name, or do nothing.
LEMMA AddImplements ==
  ASSUME FsInv, IInv', NEW parent \in AnyIno, NEW name \in Name,
         NEW type \in {"DIR", "FILE"}, AddNode(parent, name, type)
  PROVE  Fs!Add(parent, name, type) \/ UNCHANGED Fs!vars
<1>1. CASE UNCHANGED storage
  BY <1>1, FailImplements DEF FsInv
<1>2. CASE /\ CreateError(parent, name) = 0
           /\ next_ino \in Ino
           /\ payloads' = alloc_payload(payloads, next_ino, type)
           /\ nodes' = Cons(NewNode(parent, name, next_ino), nodes)
           /\ next_ino' = next_ino + 1
  <2> DEFINE n == NewNode(parent, name, next_ino)
  <2>1. IInv /\ TypeOK /\ nodes \in Seq(Node) /\ next_ino \in Nat
    BY DEF FsInv, IInv, TypeOK
  <2>2. ~HasChild(parent, name) /\ IsDir(parent)
    BY <1>2 DEF CreateError, EEXIST, ENOTDIR
  <2>3. parent \in Nat /\ parent # 0
    BY InoAssumption DEF AnyIno, VTFS_ROOT_INO
  <2>4. n \in Node /\ n.parent_ino # 0 /\ KeyOf(n) = <<parent, name>> /\ n.payload = next_ino
    BY <2>1, <2>3 DEF NewNode, Node, KeyOf
  <2> HIDE DEF n
  <2>5. EntryMap' = Fs!With(EntryMap, <<parent, name>>, next_ino)
    <3>1. nodes' = Cons(n, nodes)
      BY <1>2 DEF n
    <3>2. EntryMap' = Fs!With(EntryMap, KeyOf(n), n.payload)
      BY <2>1, <2>4, <3>1, EntryMapFacts, MapsAfter, EntryAdded
    <3> QED
      BY <2>4, <3>2
  <2>6. next_ino \notin DOMAIN payloads
    BY <2>1 DEF IInv
  <2>7. /\ DOMAIN payloads' = DOMAIN payloads \cup {next_ino}
        /\ payloads'[next_ino].type = type /\ payloads'[next_ino].size = 0
        /\ \A p \in DOMAIN payloads : payloads'[p] = payloads[p]
    BY <1>2, <2>6 DEF alloc_payload, NewPayload
  <2>8. KindMap' = Fs!With(KindMap, next_ino, type)
    BY <2>1, <2>6, <2>7, PayloadMapFacts, MapsAfter DEF Payloads, Fs!With
  <2>9. ContentMap' = IF type = "FILE" THEN Fs!With(ContentMap, next_ino, <<>>) ELSE ContentMap
    <3>1. BytesOf(payloads'[next_ino]) = <<>>
      BY <2>7 DEF BytesOf
    <3>2. \A p \in DOMAIN payloads : BytesOf(payloads'[p]) = BytesOf(payloads[p])
      BY <2>7
    <3>3. CASE type = "FILE"
      <4>1. ContentMap' = Fs!With(ContentMap, next_ino, <<>>)
        BY <2>1, <2>6, <2>7, <3>1, <3>2, <3>3, PayloadMapFacts, MapsAfter DEF Payloads, Fs!With
      <4> QED
        BY <3>3, <4>1
    <3>4. CASE type # "FILE"
      <4>1. ContentMap' = ContentMap
        BY <2>1, <2>6, <2>7, <3>2, <3>4, PayloadMapFacts, MapsAfter DEF Payloads
      <4> QED
        BY <3>4, <4>1
    <3> QED
      BY <3>3, <3>4
  <2>10. next_ino \in Ino \ {i \in Ino : i < next_ino}
    BY <1>2, <2>1
  <2>11. {i \in Ino : i < next_ino'} = {i \in Ino : i < next_ino} \cup {next_ino}
    <3>1. \A i \in Ino : i \in Nat
      BY InoAssumption
    <3>2. \A i \in Ino : i < next_ino + 1 <=> i < next_ino \/ i = next_ino
      BY <2>1, <3>1
    <3> QED
      BY <1>2, <3>2
  <2>12. Fs!IsDir(parent) /\ <<parent, name>> \notin DOMAIN EntryMap
    BY <2>1, <2>2, KindFacts, NameFree
  <2> QED
    BY <2>5, <2>8, <2>9, <2>10, <2>11, <2>12 DEF Fs!Add
<1> QED
  BY <1>1, <1>2, AddNodeCases DEF FsInv, IInv, Fail

\* link adds a name to a file, or does nothing.
LEMMA LinkImplements ==
  ASSUME FsInv, IInv', NEW target, NEW parent \in AnyIno, NEW name \in Name,
         link(target, parent, name)
  PROVE  Fs!Link(target, parent, name) \/ UNCHANGED Fs!vars
<1>1. CASE UNCHANGED storage
  BY <1>1, FailImplements DEF FsInv
<1>2. CASE /\ LinkError(target, parent, name) = 0
           /\ nodes' = Cons(NewNode(parent, name, target), nodes)
           /\ payloads' = payload_get(payloads, target)
           /\ UNCHANGED <<mounted, next_ino>>
  <2> DEFINE n == NewNode(parent, name, target)
  <2>1. IInv /\ nodes \in Seq(Node) /\ payloads \in [DOMAIN payloads -> Payload]
    BY DEF FsInv, IInv, TypeOK
  <2>2. /\ Reaches(target) /\ payloads[target].type = "FILE"
        /\ ~HasChild(parent, name) /\ IsDir(parent)
    BY <1>2 DEF LinkError, ENOENT, EPERM, EEXIST, ENOTDIR
  <2>3. target \in DOMAIN payloads /\ target \in Nat
    BY <2>1, <2>2, InoAssumption, KindFacts DEF IInv, TypeOK, AnyIno, VTFS_ROOT_INO
  <2>4. parent \in Nat /\ parent # 0
    BY InoAssumption DEF AnyIno, VTFS_ROOT_INO
  <2>5. n \in Node /\ n.parent_ino # 0 /\ KeyOf(n) = <<parent, name>> /\ n.payload = target
    BY <2>3, <2>4 DEF NewNode, Node, KeyOf
  <2> HIDE DEF n
  <2>6. EntryMap' = Fs!With(EntryMap, <<parent, name>>, target)
    <3>1. nodes' = Cons(n, nodes)
      BY <1>2 DEF n
    <3>2. EntryMap' = Fs!With(EntryMap, KeyOf(n), n.payload)
      BY <2>1, <2>5, <3>1, EntryMapFacts, MapsAfter, EntryAdded
    <3> QED
      BY <2>5, <3>2
  <2>7. /\ DOMAIN payloads' = DOMAIN payloads
        /\ \A p \in DOMAIN payloads : SameFile(payloads'[p], payloads[p])
    BY <1>2, <2>1, <2>3, GetCounts
  <2>8. KindMap' = KindMap /\ ContentMap' = ContentMap
    <3>1. \A p \in DOMAIN payloads :
            payloads'[p].type = payloads[p].type /\ BytesOf(payloads'[p]) = BytesOf(payloads[p])
      BY <2>7 DEF SameFile, BytesOf
    <3> QED
      BY <2>1, <2>7, <3>1, PayloadMapFacts, MapsAfter DEF Payloads
  <2>9. Fs!IsDir(parent) /\ Fs!IsFile(target) /\ <<parent, name>> \notin DOMAIN EntryMap
    BY <2>1, <2>2, <2>3, KindFacts, NameFree
  <2> QED
    BY <1>2, <2>6, <2>8, <2>9 DEF Fs!Link
<1> QED
  BY <1>1, <1>2 DEF link, Fail

\* Taking a node out is the removal of its name; the payload goes when
\* ref_count says that no other node has it, and then no other name does.
LEMMA RemoveImplements ==
  ASSUME FsInv, IInv', NEW k \in DOMAIN nodes, RemoveNode(k), nodes[k].parent_ino # 0,
         payloads[nodes[k].payload].type = "FILE" \/ IsEmptyDir(nodes[k].payload)
  PROVE  Fs!Remove(nodes[k].parent_ino, nodes[k].name)
<1> DEFINE p    == nodes[k].payload
           key  == KeyOf(nodes[k])
           gone == IF \E j \in DOMAIN EntryMap \ {key} : EntryMap[j] = p THEN {} ELSE {p}
<1>1. /\ IInv /\ nodes \in Seq(Node) /\ payloads \in [DOMAIN payloads -> Payload]
      /\ UniqueNames /\ RootInPlace
  BY Zenon DEF FsInv, IInv, TypeOK
<1>2. key \in DOMAIN EntryMap /\ EntryMap[key] = p
  BY <1>1, EntryMapFacts DEF Entries
<1>3. EntryMap' = Fs!Without(EntryMap, {key})
  BY <1>1, EntryMapFacts, MapsAfter, EntryRemoved DEF RemoveNode
<1>4. p \in DOMAIN payloads /\ payloads[p].ref_count = Cardinality(LinksOf(nodes, p))
  BY <1>1 DEF IInv, RefCountExact, Links, LinksOf
<1>5. k \in LinksOf(nodes, p) /\ IsFiniteSet(LinksOf(nodes, p))
  BY <1>1, LinksFinite DEF LinksOf
<1>6. p # VTFS_ROOT_INO
  BY <1>1 DEF RootInPlace
<1>7. (\E j \in DOMAIN EntryMap \ {key} : EntryMap[j] = p) <=> payloads[p].ref_count # 1
  <2>1. ASSUME NEW j \in DOMAIN EntryMap, j # key, EntryMap[j] = p
        PROVE  payloads[p].ref_count # 1
    <3>1. PICK i \in DOMAIN nodes : nodes[i].parent_ino # 0 /\ j = KeyOf(nodes[i])
      BY <1>1, EntryMapFacts DEF Entries
    <3>2. i \in LinksOf(nodes, p) /\ i # k
      BY <1>1, <2>1, <3>1, EntryMapFacts DEF Entries, LinksOf
    <3>3. ASSUME Cardinality(LinksOf(nodes, p)) = 1 PROVE FALSE
      BY <1>5, <3>2, <3>3, FS_Singleton
    <3> QED
      BY <1>4, <3>3
  <2>2. ASSUME payloads[p].ref_count # 1
        PROVE  \E j \in DOMAIN EntryMap \ {key} : EntryMap[j] = p
    <3>1. LinksOf(nodes, p) # {k}
      BY <1>4, <2>2, FS_Singleton
    <3>2. PICK i \in DOMAIN nodes : nodes[i].payload = p /\ i # k
      BY <1>5, <3>1 DEF LinksOf
    <3>3. nodes[i].parent_ino # 0
      <4>1. 0 \notin DOMAIN payloads
        BY <1>1, InoAssumption DEF IInv, TypeOK, AnyIno, VTFS_ROOT_INO
      <4> QED
        BY <1>1, <1>6, <3>2, <4>1 DEF IInv, NoOrphans
    <3>4. KeyOf(nodes[i]) # key
      BY <1>1, <3>2 DEF UniqueNames, KeyOf
    <3> QED
      BY <1>1, <3>2, <3>3, <3>4, EntryMapFacts DEF Entries
  <2> QED
    BY <2>1, <2>2
<1>8. gone = IF payloads[p].ref_count = 1 THEN {p} ELSE {}
  BY <1>7
<1>9. /\ DOMAIN payloads' = DOMAIN payloads \ gone
      /\ \A q \in DOMAIN payloads' : SameFile(payloads'[q], payloads[q])
  <2>1. payloads[p].ref_count # 0
    BY <1>4, <1>5, FS_EmptySet
  <2>2. payloads' = payload_put(payloads, p)
    BY DEF RemoveNode
  <2>3. /\ payloads' \in [Kept(payloads, p) -> Payload]
        /\ \A q \in Kept(payloads, p) : SameFile(payloads'[q], payloads[q])
    BY <1>1, <1>4, <2>1, <2>2, PutCounts
  <2>4. Kept(payloads, p) = DOMAIN payloads \ gone
    BY <1>8 DEF Kept
  <2> QED
    BY <2>3, <2>4
<1>10. KindMap' = Fs!Without(KindMap, gone) /\ ContentMap' = Fs!Without(ContentMap, gone)
  <2>1. \A q \in DOMAIN payloads' :
          payloads'[q].type = payloads[q].type /\ BytesOf(payloads'[q]) = BytesOf(payloads[q])
    BY <1>9 DEF SameFile, BytesOf
  <2> HIDE DEF gone
  <2> QED
    BY <1>1, <1>9, <2>1, PayloadMapFacts, MapsAfter DEF Payloads, Fs!Without
<1>11. KindMap[p] = "FILE" \/ Fs!Children(p) = {}
  <2>1. CASE payloads[p].type = "FILE"
    BY <1>1, <1>4, <2>1, PayloadMapFacts DEF Payloads
  <2>2. CASE IsEmptyDir(p)
    <3>1. ASSUME NEW j \in DOMAIN EntryMap PROVE j[1] # p
      <4>1. PICK i \in DOMAIN nodes : j = KeyOf(nodes[i])
        BY <1>1, EntryMapFacts DEF Entries
      <4> QED
        BY <2>2, <4>1 DEF IsEmptyDir, KeyOf
    <3> QED
      BY <3>1 DEF Fs!Children
  <2> QED
    BY <2>1, <2>2
<1>12. key = <<nodes[k].parent_ino, nodes[k].name>> /\ UNCHANGED next_ino
  BY DEF KeyOf, RemoveNode
<1> HIDE DEF key, p
<1> QED
  BY <1>2, <1>3, <1>10, <1>11, <1>12 DEF Fs!Remove

\* unlink and rmdir remove a name, or do nothing.
LEMMA RemovalImplements ==
  ASSUME FsInv, IInv', NEW parent \in AnyIno, NEW name \in Name,
         unlink(parent, name) \/ rmdir(parent, name)
  PROVE  Fs!Remove(parent, name) \/ UNCHANGED Fs!vars
<1>1. CASE UNCHANGED storage
  BY <1>1, FailImplements DEF FsInv
<1>2. ASSUME NEW k \in DOMAIN nodes, FindChild(k, parent, name), RemoveNode(k),
             payloads[nodes[k].payload].type = "FILE" \/ IsEmptyDir(nodes[k].payload)
      PROVE  Fs!Remove(parent, name)
  <2>1. nodes[k].parent_ino = parent /\ nodes[k].name = name
    BY <1>2 DEF FindChild, IsChild
  <2>2. parent # 0
    BY InoAssumption DEF AnyIno, VTFS_ROOT_INO
  <2> QED
    BY <1>2, <2>1, <2>2, RemoveImplements
<1> QED
  BY <1>1, <1>2 DEF unlink, rmdir, Fail

-----------------------------------------------------------------------------
(* Writing.                                                                *)

\* A buffer that holds zeros past the end of its file.
ZeroTail(r) == \A b \in DOMAIN r.data : b > r.size => r.data[b] = 0

\* The payload after the whole of buf was copied to offset.
Written(p, offset, buf) ==
  [Grown(p, offset + Len(buf)) EXCEPT
     !.data = Overlay(Grown(p, offset + Len(buf)), offset, buf, Len(buf)),
     !.size = IF offset + Len(buf) > @ THEN offset + Len(buf) ELSE @]

\* The bytes that FsSpec gives a file of the bytes old.
Replaced(old, offset, buf) ==
  [k \in 1..(IF offset + Len(buf) > Len(old) THEN offset + Len(buf) ELSE Len(old)) |->
     CASE k > offset /\ k <= offset + Len(buf) -> buf[k - offset]
       [] k <= Len(old) /\ ~(k > offset /\ k <= offset + Len(buf)) -> old[k]
       [] OTHER -> 0]

\* The two agree, and past the end of the file there are zeros again.
LEMMA WriteBytes ==
  ASSUME NEW p, Sound(p), ZeroTail(p), NEW offset \in Nat, NEW buf \in Seq(Nat)
  PROVE  /\ Written(p, offset, buf).type = p.type /\ ZeroTail(Written(p, offset, buf))
         /\ BytesOf(Written(p, offset, buf)) = Replaced(BytesOf(p), offset, buf)
<1> DEFINE end == offset + Len(buf)
           g   == Grown(p, end)
           r   == Written(p, offset, buf)
<1>0. r = [g EXCEPT !.data = Overlay(g, offset, buf, Len(buf)),
                    !.size = IF end > @ THEN end ELSE @]
  BY DEF Written
<1> HIDE DEF r, g
<1>1. /\ p.size \in Nat /\ p.capacity \in Nat /\ p.data \in Seq(Nat) /\ Len(p.data) = p.capacity
      /\ p.size <= p.capacity /\ end \in Nat /\ Len(buf) \in Nat /\ p \in Payload
  BY DEF Sound, Payload
<1>2. /\ g \in Payload /\ g.capacity \in Nat /\ end <= g.capacity /\ g.size = p.size
      /\ g.type = p.type /\ DOMAIN g.data = 1..g.capacity /\ p.capacity <= g.capacity
      /\ \A b \in 1..g.capacity : g.data[b] = IF b <= p.capacity THEN p.data[b] ELSE 0
  <2>1. Sound(g) /\ g.capacity >= end /\ g.type = p.type
    BY <1>1, GrownSound DEF g
  <2>2. g \in Payload /\ g.capacity \in Nat /\ DOMAIN g.data = 1..g.capacity
    BY <2>1 DEF Sound, Payload
  <2>3. CASE end > p.capacity
    <3>1. g = Resized(p, end, 0)
      BY <2>3 DEF Grown, g
    <3>2. /\ g.size = p.size /\ g.capacity = NewCapacity(end)
          /\ g.data = [b \in 1..NewCapacity(end) |-> IF b <= p.capacity THEN p.data[b] ELSE 0]
      BY <1>1, <3>1 DEF Resized, Payload
    <3> QED
      BY <1>1, <2>1, <2>2, <2>3, <3>2
  <2>4. CASE ~(end > p.capacity)
    <3>1. g = p
      BY <2>4 DEF Grown, g
    <3> QED
      BY <1>1, <2>1, <2>2, <2>4, <3>1
  <2> QED
    BY <2>3, <2>4
<1> DEFINE bytes == Overlay(g, offset, buf, Len(buf))
           size  == IF end > p.size THEN end ELSE p.size
<1>3. r.size = size /\ r.data = bytes /\ r.type = p.type
  <2> HIDE DEF bytes
  <2>1. r = [g EXCEPT !.data = bytes, !.size = size]
    BY <1>0, <1>2 DEF Payload, bytes
  <2> HIDE DEF size
  <2> QED
    BY <1>2, <2>1 DEF Payload
<1>4. /\ DOMAIN bytes = 1..g.capacity
      /\ \A b \in 1..g.capacity :
           bytes[b] = IF b <= offset \/ b > end THEN g.data[b] ELSE buf[b - offset]
  BY <1>1, <1>2 DEF Overlay
<1> HIDE DEF bytes
<1>5. ZeroTail(r)
  <2>1. ASSUME NEW b \in 1..g.capacity, b > size
        PROVE  bytes[b] = 0
    <3>1. b > end /\ b > p.size
      BY <1>1, <2>1
    <3>2. b <= p.capacity => p.data[b] = 0
      BY <1>1, <3>1, <2>1 DEF ZeroTail
    <3> QED
      BY <1>2, <1>4, <2>1, <3>1, <3>2
  <2> QED
    BY <1>3, <1>4, <2>1 DEF ZeroTail
<1> DEFINE old == BytesOf(p)
           Meant(k) == CASE k > offset /\ k <= end -> buf[k - offset]
                        [] k <= Len(old) /\ ~(k > offset /\ k <= end) -> old[k]
                        [] OTHER -> 0
<1>6. Len(old) = p.size /\ \A k \in 1..p.size : old[k] = p.data[k]
  BY <1>1 DEF BytesOf
<1> HIDE DEF old
<1>7. ASSUME NEW k \in 1..size
      PROVE  bytes[k] = Meant(k)
  <2>1. k \in 1..g.capacity /\ size \in Nat
    BY <1>1, <1>2
  <2>2. CASE k > offset /\ k <= end
    BY <1>4, <2>1, <2>2
  <2>3. CASE ~(k > offset /\ k <= end) /\ k <= p.size
    BY <1>1, <1>2, <1>4, <1>6, <2>1, <2>3
  <2>4. CASE ~(k > offset /\ k <= end) /\ ~(k <= p.size)
    <3>1. k <= p.capacity => p.data[k] = 0
      BY <1>1, <2>1, <2>4 DEF ZeroTail
    <3> QED
      BY <1>1, <1>2, <1>4, <1>6, <2>1, <2>4, <3>1
  <2> QED
    BY <2>2, <2>3, <2>4
<1> HIDE DEF Meant
<1>8. BytesOf(r) = [k \in 1..size |-> Meant(k)]
  BY <1>3, <1>7 DEF BytesOf
<1> QED
  BY <1>3, <1>5, <1>6, <1>8 DEF Meant, old, r, Replaced

\* write puts the bytes at their place, or does nothing; without faults.
LEMMA WriteImplements ==
  ASSUME FsInv, IInv', ~CopyFaults, NEW ino, NEW offset \in Offset, NEW buf \in Buffer,
         write(ino, offset, buf)
  PROVE  /\ Fs!Write(ino, offset, buf) \/ UNCHANGED Fs!vars
         /\ ZerosPastEnd' /\ (RootInPlace => RootInPlace')
<1>1. /\ IInv /\ payloads \in [DOMAIN payloads -> Payload]
      /\ \A q \in DOMAIN payloads : Sound(payloads[q]) /\ ZeroTail(payloads[q])
  BY Zenon DEF FsInv, IInv, TypeOK, SizeWithinCapacity, ZerosPastEnd, Sound, ZeroTail
<1>2. CASE UNCHANGED storage
  <2>1. UNCHANGED Fs!vars
    BY <1>1, <1>2, FailImplements
  <2>2. ZerosPastEnd' /\ (RootInPlace => RootInPlace')
    BY <1>2 DEF FsInv, storage, ZerosPastEnd, RootInPlace
  <2> QED
    BY <2>1, <2>2
<1>3. CASE /\ WriteError(ino, offset, Len(buf)) = 0
           /\ Store(ino, offset, buf)
           /\ UNCHANGED <<mounted, nodes, next_ino>>
  <2>1. /\ Reaches(ino) /\ payloads[ino].type = "FILE"
        /\ vtfs_validate_io_params(offset, Len(buf)) = 0
    BY <1>3 DEF WriteError, ENOENT, EISDIR
  <2>2. /\ offset \in Nat /\ buf \in Seq(Nat) /\ Len(buf) \in Nat /\ LOFF_MAX \in Nat
        /\ offset <= LOFF_MAX /\ Len(buf) <= LOFF_MAX
    BY IoAssumption, SizeAssumption
  <2>3. NewSize(offset, Len(buf)) = offset + Len(buf)
    <3>1. ~(NewSize(offset, Len(buf)) < 0)
      BY <2>1 DEF vtfs_validate_io_params, EINVAL, EFBIG
    <3> QED
      BY <2>2, <3>1 DEF NewSize
  <2>4. ino \in DOMAIN payloads
    BY <1>1, <2>1, KindFacts
  <2> DEFINE r   == Written(payloads[ino], offset, buf)
             old == BytesOf(payloads[ino])
             new == Replaced(old, offset, buf)
  <2>5. payloads' = [payloads EXCEPT ![ino] = r]
    BY <1>3, <2>3 DEF Store, Written
  <2>6. r.type = payloads[ino].type /\ ZeroTail(r) /\ BytesOf(r) = new
    BY <1>1, <2>2, <2>4, WriteBytes
  <2> HIDE DEF r, new
  <2>7. /\ DOMAIN payloads' = DOMAIN payloads /\ payloads'[ino] = r
        /\ \A q \in DOMAIN payloads : q # ino => payloads'[q] = payloads[q]
        /\ \A q \in DOMAIN payloads : payloads'[q].type = payloads[q].type
    BY <1>1, <2>4, <2>5, <2>6
  <2>8. EntryMap' = EntryMap
    BY <1>1, <1>3, EntryMapFacts, MapsAfter, EntrySame
  <2>9. KindMap' = KindMap
    BY <1>1, <2>7, PayloadMapFacts, MapsAfter DEF Payloads
  <2>10. ContentMap' = [ContentMap EXCEPT ![ino] = new]
    BY <1>1, <2>1, <2>4, <2>6, <2>7, PayloadMapFacts, MapsAfter DEF Payloads
  <2>11. ContentMap[ino] = old /\ Fs!IsFile(ino)
    BY <1>1, <2>1, <2>4, PayloadMapFacts, KindFacts DEF Payloads
  <2>12. Fs!Write(ino, offset, buf)
    <3> HIDE DEF old
    <3> QED
      BY <1>3, <2>8, <2>9, <2>10, <2>11 DEF Fs!Write, Replaced, new
  <2>13. ZerosPastEnd'
    <3>1. \A q \in DOMAIN payloads' : ZeroTail(payloads'[q])
      BY <1>1, <2>6, <2>7
    <3> QED
      BY <3>1 DEF ZerosPastEnd, ZeroTail
  <2>14. RootInPlace => RootInPlace'
    BY <1>3, <2>7 DEF RootInPlace
  <2> QED
    BY <2>12, <2>13, <2>14
<1> QED
  BY <1>2, <1>3, Zenon DEF write, Fail

-----------------------------------------------------------------------------
(* The invariant that the mapping needs.                                   *)

\* Nothing that the other parts are about has changed.
LEMMA FailKeepsRest ==
  ASSUME FsInv, UNCHANGED storage
  PROVE  RootInPlace' /\ Fresh' /\ ZerosPastEnd'
BY DEF FsInv, storage, RootInPlace, Fresh, ZerosPastEnd

\* A new payload is empty, and so is its buffer.
LEMMA NewTail ==
  ASSUME NEW type
  PROVE  ZeroTail(NewPayload(type)) /\ NewPayload(type).type = type
BY DEF ZeroTail, NewPayload

\* The mount makes the root, and nothing else.
LEMMA InitKeepsRest ==
  ASSUME FsInv, init
  PROVE  RootInPlace' /\ Fresh' /\ ZerosPastEnd'
<1>1. CASE Fail(ENOMEM)
  BY <1>1, FailKeepsRest DEF Fail
<1>2. CASE /\ mounted' = TRUE
           /\ nodes' = <<NewNode(0, "", VTFS_ROOT_INO)>>
           /\ payloads' = [p \in DOMAIN payloads \cup {VTFS_ROOT_INO} |->
                IF p = VTFS_ROOT_INO THEN NewPayload("DIR") ELSE payloads[p]]
           /\ next_ino' = VTFS_ROOT_INO + 1
  <2>1. nodes = <<>>
    BY Zenon DEF FsInv, IInv, init
  <2>2. DOMAIN payloads = {}
    BY <2>1 DEF FsInv, IInv, RefCountExact
  <2>3. DOMAIN payloads' = {VTFS_ROOT_INO} /\ payloads'[VTFS_ROOT_INO] = NewPayload("DIR")
    BY <1>2, <2>2
  <2>4. ZerosPastEnd' /\ payloads'[VTFS_ROOT_INO].type = "DIR"
    BY <2>3, NewTail DEF ZerosPastEnd, ZeroTail
  <2>5. \A i \in DOMAIN nodes' : nodes'[i].parent_ino = 0
    <3>1. PICK root : root = NewNode(0, "", VTFS_ROOT_INO)
      OBVIOUS
    <3>2. root.parent_ino = 0 /\ nodes' = <<root>>
      BY <1>2, <3>1 DEF NewNode
    <3>3. \A i \in DOMAIN <<root>> : <<root>>[i] = root
      OBVIOUS
    <3> QED
      BY <3>2, <3>3
  <2>6. Fresh'
    BY <1>2, Zenon DEF Fresh
  <2> QED
    BY <2>3, <2>4, <2>5, <2>6 DEF RootInPlace
<1> QED
  BY <1>1, <1>2, Zenon DEF init, alloc_payload

\* create_file and mkdir: a new number is none of the root's.
LEMMA AddKeepsRest ==
  ASSUME FsInv, mounted, NEW parent \in AnyIno, NEW name \in Name,
         NEW type \in {"DIR", "FILE"}, AddNode(parent, name, type)
  PROVE  RootInPlace' /\ Fresh' /\ ZerosPastEnd'
<1>1. CASE UNCHANGED storage
  BY <1>1, FailKeepsRest
<1>2. CASE /\ next_ino \in Ino
           /\ payloads' = alloc_payload(payloads, next_ino, type)
           /\ nodes' = Cons(NewNode(parent, name, next_ino), nodes)
           /\ UNCHANGED mounted
  <2> DEFINE n == NewNode(parent, name, next_ino)
  <2>1. /\ nodes \in Seq(Node) /\ next_ino \in Nat /\ next_ino > VTFS_ROOT_INO
        /\ next_ino \notin DOMAIN payloads
    BY DEF FsInv, IInv, TypeOK
  <2>2. parent \in Nat
    BY InoAssumption DEF AnyIno, VTFS_ROOT_INO
  <2>3. n \in Node /\ n.payload = next_ino
    BY <2>1, <2>2 DEF NewNode, Node
  <2>4. /\ DOMAIN payloads' = DOMAIN payloads \cup {next_ino}
        /\ payloads'[next_ino] = NewPayload(type)
        /\ \A p \in DOMAIN payloads : payloads'[p] = payloads[p]
    BY <1>2, <2>1 DEF alloc_payload
  <2>5. ZerosPastEnd'
    <3>1. \A p \in DOMAIN payloads' : ZeroTail(payloads'[p])
      BY <2>4, NewTail DEF FsInv, ZerosPastEnd, ZeroTail
    <3> QED
      BY <3>1 DEF ZerosPastEnd, ZeroTail
  <2> HIDE DEF n
  <2>6. \A i \in DOMAIN nodes' : i = 1 \/ \E j \in DOMAIN nodes : nodes'[i] = nodes[j]
    BY <1>2, <2>1, <2>3, ConsList DEF n
  <2>7. nodes'[1] = n
    BY <1>2, <2>1, <2>3, ConsList DEF n
  <2>8. n.payload # VTFS_ROOT_INO
    BY <2>1, <2>3 DEF VTFS_ROOT_INO
  <2>9. /\ VTFS_ROOT_INO \in DOMAIN payloads /\ payloads[VTFS_ROOT_INO].type = "DIR"
        /\ \A i \in DOMAIN nodes :
             nodes[i].payload = VTFS_ROOT_INO => nodes[i].parent_ino = 0
    BY Zenon DEF FsInv, RootInPlace
  <2>10. RootInPlace'
    BY <2>4, <2>6, <2>7, <2>8, <2>9 DEF RootInPlace
  <2>11. Fresh'
    BY <1>2, Zenon DEF Fresh
  <2> QED
    BY <2>5, <2>10, <2>11
<1> QED
  BY <1>1, <1>2, AddNodeCases DEF FsInv, IInv, Fail

\* link: the root is no file.
LEMMA LinkKeepsRest ==
  ASSUME FsInv, mounted, NEW target, NEW parent \in AnyIno, NEW name \in Name,
         link(target, parent, name)
  PROVE  RootInPlace' /\ Fresh' /\ ZerosPastEnd'
<1>1. CASE UNCHANGED storage
  BY <1>1, FailKeepsRest
<1>2. CASE /\ LinkError(target, parent, name) = 0
           /\ nodes' = Cons(NewNode(parent, name, target), nodes)
           /\ payloads' = payload_get(payloads, target)
           /\ UNCHANGED <<mounted, next_ino>>
  <2> DEFINE n == NewNode(parent, name, target)
  <2>1. IInv /\ nodes \in Seq(Node) /\ payloads \in [DOMAIN payloads -> Payload]
    BY DEF FsInv, IInv, TypeOK
  <2>2. Reaches(target) /\ payloads[target].type = "FILE"
    BY <1>2 DEF LinkError, ENOENT, EPERM
  <2>3. target \in DOMAIN payloads /\ target \in Nat /\ parent \in Nat
    BY <2>1, <2>2, InoAssumption, KindFacts DEF IInv, TypeOK, AnyIno, VTFS_ROOT_INO
  <2>4. n \in Node /\ n.payload = target
    BY <2>3 DEF NewNode, Node
  <2>5. /\ DOMAIN payloads' = DOMAIN payloads
        /\ \A p \in DOMAIN payloads : SameFile(payloads'[p], payloads[p])
    BY <1>2, <2>1, <2>3, GetCounts
  <2>6. ZerosPastEnd'
    BY <2>5 DEF FsInv, ZerosPastEnd, SameFile
  <2>7. /\ VTFS_ROOT_INO \in DOMAIN payloads /\ payloads[VTFS_ROOT_INO].type = "DIR"
        /\ \A i \in DOMAIN nodes :
             nodes[i].payload = VTFS_ROOT_INO => nodes[i].parent_ino = 0
    BY Zenon DEF FsInv, RootInPlace
  <2>8. target # VTFS_ROOT_INO /\ payloads'[VTFS_ROOT_INO].type = "DIR"
    BY <2>2, <2>5, <2>7 DEF SameFile
  <2> HIDE DEF n
  <2>9. /\ nodes'[1] = n
        /\ \A i \in DOMAIN nodes' : i = 1 \/ \E j \in DOMAIN nodes : nodes'[i] = nodes[j]
    BY <1>2, <2>1, <2>4, ConsList DEF n
  <2>10. RootInPlace'
    BY <2>4, <2>5, <2>7, <2>8, <2>9 DEF RootInPlace
  <2>11. Fresh'
    BY <1>2, Zenon DEF FsInv, Fresh
  <2> QED
    BY <2>6, <2>10, <2>11
<1> QED
  BY <1>1, <1>2 DEF link, Fail

\* unlink and rmdir: the root has no name to remove it by.
LEMMA RemovalKeepsRest ==
  ASSUME FsInv, mounted, NEW parent \in AnyIno, NEW name \in Name,
         unlink(parent, name) \/ rmdir(parent, name)
  PROVE  RootInPlace' /\ Fresh' /\ ZerosPastEnd'
<1>1. CASE UNCHANGED storage
  BY <1>1, FailKeepsRest
<1>2. ASSUME NEW k \in DOMAIN nodes, FindChild(k, parent, name), RemoveNode(k)
      PROVE  RootInPlace' /\ Fresh' /\ ZerosPastEnd'
  <2> DEFINE p == nodes[k].payload
  <2>1. nodes[k].parent_ino # 0
    BY <1>2, InoAssumption DEF FindChild, IsChild, AnyIno, VTFS_ROOT_INO
  <2>2. nodes \in Seq(Node) /\ payloads \in [DOMAIN payloads -> Payload] /\ p \in DOMAIN payloads
    BY DEF FsInv, IInv, TypeOK, RefCountExact
  <2>3. /\ VTFS_ROOT_INO \in DOMAIN payloads /\ payloads[VTFS_ROOT_INO].type = "DIR"
        /\ \A i \in DOMAIN nodes :
             nodes[i].payload = VTFS_ROOT_INO => nodes[i].parent_ino = 0
    BY Zenon DEF FsInv, RootInPlace
  <2>4. p # VTFS_ROOT_INO
    BY <2>1, <2>3
  <2>5. payloads[p].ref_count # 0
    <3>1. k \in LinksOf(nodes, p) /\ IsFiniteSet(LinksOf(nodes, p))
      BY <2>2, LinksFinite DEF LinksOf
    <3>2. payloads[p].ref_count = Cardinality(LinksOf(nodes, p))
      BY <2>2 DEF FsInv, IInv, RefCountExact, Links, LinksOf
    <3> QED
      BY <3>1, <3>2, FS_EmptySet
  <2>6. /\ DOMAIN payloads' = Kept(payloads, p)
        /\ \A q \in Kept(payloads, p) : SameFile(payloads'[q], payloads[q])
    <3>1. payloads' = payload_put(payloads, p)
      BY <1>2 DEF RemoveNode
    <3> QED
      BY <2>2, <2>5, <3>1, PutCounts
  <2>7. Kept(payloads, p) \subseteq DOMAIN payloads /\ VTFS_ROOT_INO \in Kept(payloads, p)
    BY <2>3, <2>4 DEF Kept
  <2>8. ZerosPastEnd'
    BY <2>6, <2>7 DEF FsInv, ZerosPastEnd, SameFile
  <2>9. \A i \in DOMAIN nodes' : \E j \in DOMAIN nodes : nodes'[i] = nodes[j]
    BY <1>2, <2>2, RemoveList DEF RemoveNode
  <2>10. payloads'[VTFS_ROOT_INO].type = "DIR"
    BY <2>3, <2>6, <2>7 DEF SameFile
  <2>11. RootInPlace'
    BY <2>3, <2>6, <2>7, <2>9, <2>10 DEF RootInPlace
  <2>12. Fresh'
    BY <1>2, Zenon DEF FsInv, Fresh, RemoveNode
  <2> QED
    BY <2>8, <2>11, <2>12
<1> QED
  BY <1>1, <1>2 DEF unlink, rmdir, Fail

-----------------------------------------------------------------------------
(* The theorems.                                                           *)

\* A file of the mapping is not the root.
LEMMA FileInIno ==
  ASSUME FsInv, mounted, NEW i \in AnyIno, Fs!IsFile(i)
  PROVE  i \in Ino
<1>1. VTFS_ROOT_INO \in DOMAIN payloads /\ payloads[VTFS_ROOT_INO].type = "DIR"
  BY Zenon DEF FsInv, RootInPlace
<1>2. KindMap[VTFS_ROOT_INO] # "FILE"
  BY <1>1, PayloadMapFacts DEF FsInv, Payloads
<1> QED
  BY <1>2 DEF AnyIno, Fs!IsFile

\* Every call keeps the invariant and is a step of FsSpec, or none.
THEOREM FsInvStep == ASSUME ~CopyFaults
                     PROVE  FsInv /\ [Next]_vars => FsInv' /\ [Fs!Next]_(Fs!vars)
<1> SUFFICES ASSUME FsInv, [Next]_vars
             PROVE  /\ RootInPlace' /\ Fresh' /\ ZerosPastEnd'
                    /\ Fs!Next \/ UNCHANGED Fs!vars
  BY IInvStep DEF FsInv
<1>1. IInv'
  BY IInvStep DEF FsInv
<1>2. CASE init
  BY <1>1, <1>2, InitKeepsRest, InitImplements DEF Fs!Next
<1>3. CASE mounted /\ shutdown
  <2>1. Fs!Unmount
    BY <1>1, <1>3, ShutdownImplements
  <2>2. nodes' = <<>> /\ Fresh'
    BY <1>3, Zenon DEF shutdown, Fresh
  <2>3. DOMAIN payloads' = {} /\ ~mounted'
    <3>1. ~mounted'
      BY <1>3, Zenon DEF shutdown
    <3>2. DOMAIN payloads' = {}
      BY <1>1, <2>2 DEF IInv, RefCountExact
    <3> QED
      BY <3>1, <3>2
  <2>4. RootInPlace' /\ ZerosPastEnd'
    BY <2>2, <2>3 DEF RootInPlace, ZerosPastEnd
  <2> QED
    BY <2>1, <2>2, <2>4 DEF Fs!Next
<1>4. ASSUME mounted, NEW parent \in AnyIno, NEW name \in Name, NEW type \in {"DIR", "FILE"},
             AddNode(parent, name, type)
      PROVE  RootInPlace' /\ Fresh' /\ ZerosPastEnd' /\ (Fs!Next \/ UNCHANGED Fs!vars)
  <2>1. Fs!Add(parent, name, type) \/ UNCHANGED Fs!vars
    BY <1>1, <1>4, AddImplements
  <2> QED
    BY <1>4, <2>1, AddKeepsRest DEF Fs!Next, Fs!Change, AnyIno
<1>5. ASSUME mounted, NEW parent \in AnyIno, NEW name \in Name, NEW target \in AnyIno,
             link(target, parent, name)
      PROVE  RootInPlace' /\ Fresh' /\ ZerosPastEnd' /\ (Fs!Next \/ UNCHANGED Fs!vars)
  <2>1. Fs!Link(target, parent, name) \/ UNCHANGED Fs!vars
    BY <1>1, <1>5, LinkImplements
  <2>2. Fs!Link(target, parent, name) => target \in Ino
    BY <1>5, FileInIno DEF Fs!Link
  <2> QED
    BY <1>5, <2>1, <2>2, LinkKeepsRest DEF Fs!Next, Fs!Change, AnyIno
<1>6. ASSUME mounted, NEW parent \in AnyIno, NEW name \in Name,
             unlink(parent, name) \/ rmdir(parent, name)
      PROVE  RootInPlace' /\ Fresh' /\ ZerosPastEnd' /\ (Fs!Next \/ UNCHANGED Fs!vars)
  <2>1. Fs!Remove(parent, name) \/ UNCHANGED Fs!vars
    BY <1>1, <1>6, RemovalImplements
  <2> QED
    BY <1>6, <2>1, RemovalKeepsRest DEF Fs!Next, Fs!Change, AnyIno
<1>7. ASSUME mounted, NEW ino \in AnyIno, NEW offset \in Offset, NEW buf \in Buffer,
             write(ino, offset, buf)
      PROVE  RootInPlace' /\ Fresh' /\ ZerosPastEnd' /\ (Fs!Next \/ UNCHANGED Fs!vars)
  <2>1. /\ Fs!Write(ino, offset, buf) \/ UNCHANGED Fs!vars
        /\ ZerosPastEnd' /\ RootInPlace'
    BY <1>1, <1>7, WriteImplements, Zenon DEF FsInv
  <2>2. Fs!Write(ino, offset, buf) => ino \in Ino
    BY <1>7, FileInIno DEF Fs!Write
  <2>3. mounted' = mounted
    BY <1>7, Zenon DEF write, Fail, storage
  <2>4. Fresh'
    BY <1>7, <2>3, Zenon DEF Fresh
  <2> QED
    BY <2>1, <2>2, <2>4 DEF Fs!Next, Fs!Change
<1>8. CASE UNCHANGED vars
  <2>1. UNCHANGED storage
    BY <1>8 DEF vars, storage
  <2> QED
    BY <1>1, <2>1, FailKeepsRest, FailImplements DEF FsInv
<1> QED
  BY <1>2, <1>3, <1>4, <1>5, <1>6, <1>7, <1>8, Zenon DEF Next, Operation, create_file, mkdir

\* A call that does not unmount changes the tree, or leaves it as it is.
LEMMA OperationImplements ==
  ASSUME ~CopyFaults, FsInv, mounted, mounted', Operation
  PROVE  FsInv' /\ (Fs!Change \/ UNCHANGED Fs!vars)
<1>1. FsInv' /\ (Fs!Next \/ UNCHANGED Fs!vars)
  <2>1. Next
    BY Zenon DEF Next
  <2> QED
    BY <2>1, FsInvStep
<1>2. Fs!Unmounted => DOMAIN KindMap = {}
  BY DEF Fs!Unmounted, Fs!Empty
<1>3. ~Fs!Unmounted
  <2>1. VTFS_ROOT_INO \in DOMAIN payloads
    BY Zenon DEF FsInv, RootInPlace
  <2>2. DOMAIN KindMap = DOMAIN payloads
    BY DEF KindMap
  <2> QED
    BY <1>2, <2>1, <2>2
<1>4. ~Fs!Unmounted'
  <2>1. VTFS_ROOT_INO \in DOMAIN payloads'
    BY <1>1, Zenon DEF FsInv, RootInPlace
  <2>2. DOMAIN KindMap' = DOMAIN payloads'
    BY DEF KindMap
  <2>3. Fs!Unmounted' => DOMAIN KindMap' = {}
    BY DEF Fs!Unmounted, Fs!Empty
  <2> QED
    BY <2>1, <2>2, <2>3
<1> QED
  BY <1>1, <1>3, <1>4, Zenon DEF Fs!Next, Fs!Mount, Fs!Unmount

\* The storage as loaded is a file system that is not mounted.
THEOREM FsInvInit == Init => FsInv /\ Fs!Init
<1> SUFFICES ASSUME Init
             PROVE  FsInv /\ Fs!Init
  OBVIOUS
<1>1. IInv
  BY IInvInit
<1>2. ~mounted /\ nodes = <<>> /\ next_ino = VTFS_ROOT_INO + 1 /\ DOMAIN payloads = {}
  BY DEF Init
<1>3. RootInPlace /\ Fresh /\ ZerosPastEnd
  BY <1>2 DEF RootInPlace, Fresh, ZerosPastEnd
<1>4. Fs!Unmounted
  BY <1>1, <1>2, <1>3, NothingThere
<1> QED
  BY <1>1, <1>3, <1>4 DEF FsInv, Fs!Init

\* The root stays, numbers start again with each mount, and beyond the end of
\* a file its buffer holds zeros.
THEOREM FsInvariance == ASSUME ~CopyFaults PROVE Spec => []FsInv
BY FsInvInit, FsInvStep, PTL DEF Spec

\* The list, the shared payloads and the doubling buffers are a tree of named
\* files and nothing else, as long as no copy from the user faults midway.
THEOREM Refinement == ASSUME ~CopyFaults PROVE Spec => ImplementsFs
<1>1. Init => Fs!Init
  BY FsInvInit
<1>2. FsInv /\ [Next]_vars => [Fs!Next]_(Fs!vars)
  BY FsInvStep
<1> QED
  BY <1>1, <1>2, FsInvariance, PTL DEF Spec, ImplementsFs, Fs!Spec
=============================================================================
