--------------------------- MODULE RamStorage_proofs ---------------------------
(***************************************************************************)
(* What the RAM storage guarantees for every set of names, inode numbers,  *)
(* offsets and buffers, proved by induction on its steps.                  *)
(***************************************************************************)
EXTENDS RamStorage, FiniteSetTheorems, SequenceTheorems, TLAPS

-----------------------------------------------------------------------------
(* The two ways the list changes: Cons in alloc_node, RemoveAt in unlink   *)
(* and rmdir.                                                              *)

\* A node put at the head moves every other node one place down.
LEMMA ConsNodes ==
  ASSUME NEW S, NEW e \in S, NEW s \in Seq(S)
  PROVE  /\ Cons(e, s) \in Seq(S)
         /\ DOMAIN Cons(e, s) = 1..(Len(s) + 1)
         /\ Cons(e, s)[1] = e
         /\ \A i \in 1..Len(s) : Cons(e, s)[i + 1] = s[i]
BY DEF Cons

\* Removing node k moves every node behind it one place up.
LEMMA RemoveAtNodes ==
  ASSUME NEW S, NEW s \in Seq(S), NEW k \in 1..Len(s)
  PROVE  /\ RemoveAt(s, k) \in Seq(S)
         /\ DOMAIN RemoveAt(s, k) = 1..(Len(s) - 1)
         /\ \A i \in 1..(Len(s) - 1) :
              RemoveAt(s, k)[i] = IF i < k THEN s[i] ELSE s[i + 1]
<1> DEFINE a == SubSeq(s, 1, k - 1)
           b == SubSeq(s, k + 1, Len(s))
<1>1. a \in Seq(S) /\ Len(a) = k - 1 /\ \A i \in 1..(k - 1) : a[i] = s[i]
  OBVIOUS
<1>2. b \in Seq(S) /\ Len(b) = Len(s) - k /\ \A i \in 1..(Len(s) - k) : b[i] = s[i + k]
  OBVIOUS
<1>3. RemoveAt(s, k) = a \o b
  BY DEF RemoveAt
<1> HIDE DEF a, b
<1>4. /\ a \o b \in Seq(S)
      /\ Len(a \o b) = Len(a) + Len(b)
      /\ \A i \in 1..(Len(a) + Len(b)) :
           (a \o b)[i] = IF i <= Len(a) THEN a[i] ELSE b[i - Len(a)]
  <2>1. a \in Seq(S) /\ b \in Seq(S)
    BY <1>1, <1>2
  <2> QED
    BY <2>1, ConcatProperties
<1>5. ASSUME NEW i \in 1..(Len(s) - 1)
      PROVE  (a \o b)[i] = IF i < k THEN s[i] ELSE s[i + 1]
  BY <1>1, <1>2, <1>4
<1>6. Len(a \o b) = Len(s) - 1
  BY <1>1, <1>2, <1>4
<1> QED
  BY <1>3, <1>4, <1>5, <1>6

-----------------------------------------------------------------------------
(* How many nodes point to a payload, before and after such a change.      *)

LinksOf(s, p) == {i \in DOMAIN s : s[i].payload = p}

\* The nodes that point to a payload are finitely many.
LEMMA LinksFinite ==
  ASSUME NEW S, NEW s \in Seq(S), NEW p
  PROVE  /\ LinksOf(s, p) \subseteq 1..Len(s)
         /\ IsFiniteSet(LinksOf(s, p))
         /\ Cardinality(LinksOf(s, p)) \in Nat
<1>1. IsFiniteSet(1..Len(s))
  BY FS_Interval
<1>2. LinksOf(s, p) \in SUBSET (1..Len(s))
  BY DEF LinksOf
<1> QED
  BY <1>1, <1>2, FS_Subset, FS_CardinalityType

\* A new node counts for the payload it points to and for no other.
LEMMA ConsCount ==
  ASSUME NEW S, NEW e \in S, NEW s \in Seq(S), NEW p
  PROVE  Cardinality(LinksOf(Cons(e, s), p)) =
           Cardinality(LinksOf(s, p)) + (IF e.payload = p THEN 1 ELSE 0)
<1> DEFINE L == LinksOf(s, p)
           T == {i + 1 : i \in L}
           f == [i \in L |-> i + 1]
<1>1. IsFiniteSet(L) /\ L \subseteq 1..Len(s) /\ Cardinality(L) \in Nat
  BY LinksFinite
<1>2. f \in Bijection(L, T)
  BY <1>1 DEF Bijection, Injection, Surjection, IsInjective
<1>3. IsFiniteSet(T) /\ Cardinality(T) = Cardinality(L)
  BY <1>1, <1>2, FS_Bijection DEF ExistsBijection
<1>4. LinksOf(Cons(e, s), p) = IF e.payload = p THEN T \cup {1} ELSE T
  <2>1. ASSUME NEW i \in 1..(Len(s) + 1), i # 1
        PROVE  Cons(e, s)[i] = s[i - 1] /\ i - 1 \in 1..Len(s) /\ (i \in T <=> i - 1 \in L)
    <3>1. i - 1 \in 1..Len(s) /\ (i - 1) + 1 = i
      BY <2>1
    <3>2. Cons(e, s)[i] = s[i - 1]
      <4>1. \A j \in 1..Len(s) : Cons(e, s)[j + 1] = s[j]
        BY ConsNodes
      <4> QED
        BY <3>1, <4>1
    <3>3. i \in T <=> i - 1 \in L
      BY <1>1, <3>1
    <3> QED
      BY <3>1, <3>2, <3>3
  <2>2. 1 \notin T /\ T \subseteq 1..(Len(s) + 1)
    BY <1>1
  <2>3. DOMAIN s = 1..Len(s)
    OBVIOUS
  <2>4. DOMAIN Cons(e, s) = 1..(Len(s) + 1) /\ Cons(e, s)[1] = e
    BY ConsNodes
  <2>5. ASSUME NEW i
        PROVE  i \in LinksOf(Cons(e, s), p) <=> i \in IF e.payload = p THEN T \cup {1} ELSE T
    <3>1. CASE i \in 1..(Len(s) + 1) /\ i # 1
      BY <3>1, <2>1, <2>3, <2>4 DEF LinksOf
    <3>2. CASE i = 1
      BY <3>2, <2>2, <2>4 DEF LinksOf
    <3>3. CASE i \notin 1..(Len(s) + 1)
      BY <3>3, <2>2, <2>4 DEF LinksOf
    <3> QED
      BY <3>1, <3>2, <3>3
  <2> QED
    BY <2>5
<1>5. 1 \notin T
  BY <1>1
<1>6. Cardinality(T \cup {1}) = Cardinality(T) + 1
  BY <1>3, <1>5, FS_AddElement
<1> QED
  BY <1>1, <1>3, <1>4, <1>6

\* A node removed counts no longer for the payload it pointed to.
LEMMA RemoveAtCount ==
  ASSUME NEW S, NEW s \in Seq(S), NEW k \in 1..Len(s), NEW p
  PROVE  Cardinality(LinksOf(RemoveAt(s, k), p)) =
           Cardinality(LinksOf(s, p)) - (IF s[k].payload = p THEN 1 ELSE 0)
<1> DEFINE L == LinksOf(s, p)
           T == LinksOf(RemoveAt(s, k), p)
           f == [i \in L \ {k} |-> IF i < k THEN i ELSE i - 1]
<1>1. IsFiniteSet(L) /\ L \subseteq 1..Len(s) /\ Cardinality(L) \in Nat
  BY LinksFinite
<1>2. /\ DOMAIN RemoveAt(s, k) = 1..(Len(s) - 1)
      /\ \A i \in 1..(Len(s) - 1) :
           RemoveAt(s, k)[i] = IF i < k THEN s[i] ELSE s[i + 1]
  BY RemoveAtNodes
<1>3. f \in Bijection(L \ {k}, T)
  <2>1. ASSUME NEW i \in L \ {k} PROVE f[i] \in T
    BY <1>1, <1>2 DEF LinksOf
  <2>2. ASSUME NEW i \in L \ {k}, NEW j \in L \ {k}, f[i] = f[j] PROVE i = j
    BY <1>1, <2>2
  <2>3. ASSUME NEW t \in T PROVE \E i \in L \ {k} : f[i] = t
    <3>1. t \in 1..(Len(s) - 1)
      BY <1>2 DEF LinksOf
    <3>2. CASE t < k
      <4>1. t \in L \ {k}
        BY <1>2, <3>1, <3>2 DEF LinksOf
      <4> QED
        BY <4>1, <3>2
    <3>3. CASE ~(t < k)
      <4>1. t + 1 \in L \ {k}
        BY <1>2, <3>1, <3>3 DEF LinksOf
      <4> QED
        BY <4>1, <3>1, <3>3
    <3> QED
      BY <3>2, <3>3
  <2> QED
    BY <2>1, <2>2, <2>3 DEF Bijection, Injection, Surjection, IsInjective
<1>4. IsFiniteSet(L \ {k}) /\ Cardinality(T) = Cardinality(L \ {k})
  BY <1>1, <1>3, FS_RemoveElement, FS_Bijection DEF ExistsBijection
<1>5. k \in L <=> s[k].payload = p
  BY DEF LinksOf
<1> QED
  BY <1>1, <1>4, <1>5, FS_RemoveElement

-----------------------------------------------------------------------------
(* What payload_get and payload_put do to the payloads.                    *)

\* Two payloads that differ in nothing but the count.
SameFile(r, q) == /\ r.type = q.type /\ r.size = q.size
                  /\ r.capacity = q.capacity /\ r.data = q.data

\* Setting the count touches no other field.
LEMMA SetCount ==
  ASSUME NEW r \in Payload, NEW n \in Nat
  PROVE  /\ [r EXCEPT !.ref_count = n] \in Payload
         /\ SameFile([r EXCEPT !.ref_count = n], r)
         /\ [r EXCEPT !.ref_count = n].ref_count = n
BY DEF Payload, SameFile

\* payload_get adds one to one count.
LEMMA GetCounts ==
  ASSUME NEW D, NEW ps \in [D -> Payload], NEW p \in D
  PROVE  /\ payload_get(ps, p) \in [D -> Payload]
         /\ \A q \in D :
              /\ SameFile(payload_get(ps, p)[q], ps[q])
              /\ payload_get(ps, p)[q].ref_count = ps[q].ref_count + (IF q = p THEN 1 ELSE 0)
<1> DEFINE new == [ps[p] EXCEPT !.ref_count = ps[p].ref_count + 1]
<1>1. \A q \in D : ps[q] \in Payload /\ ps[q].ref_count \in Nat
  BY DEF Payload
<1>2. new \in Payload /\ SameFile(new, ps[p]) /\ new.ref_count = ps[p].ref_count + 1
  BY <1>1, SetCount
<1>3. payload_get(ps, p) = [ps EXCEPT ![p] = new]
  BY DEF payload_get
<1> HIDE DEF new
<1> QED
  BY <1>1, <1>2, <1>3 DEF SameFile

\* The payloads still there after a payload_put.
Kept(ps, p) == IF ps[p].ref_count = 1 THEN DOMAIN ps \ {p} ELSE DOMAIN ps

\* payload_put takes one from one count, or frees the payload at its last.
LEMMA PutCounts ==
  ASSUME NEW ps, ps \in [DOMAIN ps -> Payload], NEW p \in DOMAIN ps, ps[p].ref_count # 0
  PROVE  /\ payload_put(ps, p) \in [Kept(ps, p) -> Payload]
         /\ \A q \in Kept(ps, p) :
              /\ SameFile(payload_put(ps, p)[q], ps[q])
              /\ payload_put(ps, p)[q].ref_count = ps[q].ref_count - (IF q = p THEN 1 ELSE 0)
<1>1. \A q \in DOMAIN ps : ps[q] \in Payload /\ ps[q].ref_count \in Nat
  BY DEF Payload
<1>2. CASE ps[p].ref_count = 1
  <2>1. payload_put(ps, p) = [q \in DOMAIN ps \ {p} |-> ps[q]]
    BY <1>2 DEF payload_put
  <2> QED
    BY <1>1, <1>2, <2>1 DEF SameFile, Kept
<1>3. CASE ps[p].ref_count # 1
  <2> DEFINE new == [ps[p] EXCEPT !.ref_count = ps[p].ref_count - 1]
  <2>1. ps[p].ref_count - 1 \in Nat
    BY <1>1
  <2>2. new \in Payload /\ SameFile(new, ps[p]) /\ new.ref_count = ps[p].ref_count - 1
    BY <1>1, <2>1, SetCount
  <2>3. payload_put(ps, p) = [ps EXCEPT ![p] = new]
    BY <1>3 DEF payload_put
  <2> HIDE DEF new
  <2> QED
    BY <1>1, <1>3, <2>2, <2>3 DEF SameFile, Kept
<1> QED
  BY <1>2, <1>3

-----------------------------------------------------------------------------
(* The effects of the operations, one lemma each.                          *)

\* A call that fails leaves the invariant as it was.
LEMMA FailKeeps ==
  ASSUME IInv, ret' \in Int, UNCHANGED storage
  PROVE  IInv'
BY DEF IInv, TypeOK, UniqueNames, RefCountExact, NoOrphans, SizeWithinCapacity,
       Links, storage

\* vtfs_ram_storage_init builds a list of one node, the root's.
LEMMA InitKeeps ==
  ASSUME IInv, init
  PROVE  IInv'
<1>1. CASE Fail(ENOMEM)
  <2>1. ret' \in Int
    BY <1>1 DEF Fail, ENOMEM
  <2> QED
    BY <1>1, <2>1, FailKeeps DEF Fail
<1>2. CASE ~Fail(ENOMEM)
  <2> DEFINE root == NewNode(0, "", VTFS_ROOT_INO)
  <2>1. nodes = <<>> /\ DOMAIN payloads = {}
    <3>1. DOMAIN payloads = {nodes[i].payload : i \in DOMAIN nodes}
      BY DEF IInv, RefCountExact
    <3>2. nodes = <<>>
      BY DEF IInv, init
    <3> QED
      BY <3>1, <3>2
  <2>2. /\ mounted' = TRUE /\ nodes' = <<root>>
        /\ payloads' = [p \in {VTFS_ROOT_INO} |-> NewPayload("DIR")]
        /\ next_ino' = VTFS_ROOT_INO + 1 /\ ret' = 0
    BY <1>2, <2>1 DEF init, alloc_payload
  <2>3. root \in Node /\ root.parent_ino = 0 /\ root.payload = VTFS_ROOT_INO
    BY DEF NewNode, Node, VTFS_ROOT_INO
  <2>4. NewPayload("DIR") \in Payload
    BY DEF NewPayload, Payload
  <2> HIDE DEF root
  <2>5. nodes' \in Seq(Node) /\ DOMAIN nodes' = {1} /\ nodes'[1] = root
    BY <2>2, <2>3
  <2>6. TypeOK'
    BY <2>2, <2>4, <2>5 DEF TypeOK, AnyIno, VTFS_ROOT_INO
  <2>7. UniqueNames'
    BY <2>5 DEF UniqueNames
  <2>8. RefCountExact'
    <3>1. Links(VTFS_ROOT_INO)' = {1}
      BY <2>3, <2>5 DEF Links
    <3>2. Cardinality(Links(VTFS_ROOT_INO)') = 1
      BY <3>1, FS_Singleton
    <3> QED
      BY <2>2, <2>3, <2>5, <3>2 DEF RefCountExact, NewPayload
  <2>9. NoOrphans'
    BY <2>3, <2>5 DEF NoOrphans
  <2>10. SizeWithinCapacity'
    BY <2>2 DEF SizeWithinCapacity, NewPayload
  <2> QED
    BY <2>2, <2>6, <2>7, <2>8, <2>9, <2>10 DEF IInv, VTFS_ROOT_INO
<1> QED
  BY <1>1, <1>2

\* vtfs_ram_storage_shutdown frees every payload: the counts are exact.
LEMMA ShutdownKeeps ==
  ASSUME IInv, shutdown
  PROVE  IInv'
<1>1. DOMAIN payloads' = {} /\ nodes' = <<>> /\ mounted' = FALSE
  BY DEF IInv, shutdown, free_all_nodes, RefCountExact
<1>2. payloads' \in [{} -> Payload]
  <2>1. payloads' = [p \in DOMAIN payloads' |->
          [payloads[p] EXCEPT !.ref_count = @ - Cardinality(Links(p))]]
    BY Zenon DEF shutdown, free_all_nodes
  <2> QED
    BY <1>1, <2>1
<1>3. TypeOK'
  <2>1. payloads' \in [DOMAIN payloads' -> Payload] /\ DOMAIN payloads' \subseteq AnyIno
    BY <1>1, <1>2
  <2>2. next_ino' = VTFS_ROOT_INO + 1 /\ ret' = 0
    BY DEF shutdown
  <2>3. nodes' \in Seq(Node)
    <3>1. nodes' = <<>>
      BY <1>1
    <3> QED
      BY <3>1
  <2>4. next_ino' \in Nat /\ next_ino' > VTFS_ROOT_INO /\ ret' \in Int
    BY <2>2 DEF VTFS_ROOT_INO
  <2>5. mounted' \in BOOLEAN
    BY Zenon DEF shutdown
  <2> QED
    BY <2>1, <2>3, <2>4, <2>5 DEF TypeOK
<1>4. UniqueNames' /\ NoOrphans' /\ SizeWithinCapacity'
  BY <1>1 DEF UniqueNames, NoOrphans, SizeWithinCapacity
<1>5. RefCountExact'
  BY <1>1 DEF RefCountExact
<1> QED
  BY <1>1, <1>3, <1>4, <1>5 DEF IInv

\* What alloc_node does to the list, read from either side.
LEMMA ConsList ==
  ASSUME NEW e \in Node, nodes \in Seq(Node), nodes' = Cons(e, nodes)
  PROVE  /\ nodes' \in Seq(Node)
         /\ DOMAIN nodes' = 1..(Len(nodes) + 1)
         /\ 1 \in DOMAIN nodes' /\ nodes'[1] = e
         /\ \A i \in DOMAIN nodes :
              i \in Int /\ i + 1 \in DOMAIN nodes' /\ nodes'[i + 1] = nodes[i]
         /\ \A i \in DOMAIN nodes' :
              i \in Int /\ (i = 1 \/ (i - 1 \in DOMAIN nodes /\ nodes'[i] = nodes[i - 1]))
<1>1. /\ Cons(e, nodes) \in Seq(Node)
      /\ DOMAIN Cons(e, nodes) = 1..(Len(nodes) + 1)
      /\ Cons(e, nodes)[1] = e
      /\ \A i \in 1..Len(nodes) : Cons(e, nodes)[i + 1] = nodes[i]
  <2>1. \A s \in Seq(Node) :
          /\ Cons(e, s) \in Seq(Node)
          /\ DOMAIN Cons(e, s) = 1..(Len(s) + 1)
          /\ Cons(e, s)[1] = e
          /\ \A i \in 1..Len(s) : Cons(e, s)[i + 1] = s[i]
    BY ConsNodes
  <2> QED
    BY <2>1
<1>2. Len(nodes) \in Nat /\ DOMAIN nodes = 1..Len(nodes)
  OBVIOUS
<1>3. /\ nodes' \in Seq(Node)
      /\ DOMAIN nodes' = 1..(Len(nodes) + 1)
      /\ nodes'[1] = e
      /\ \A i \in 1..Len(nodes) : nodes'[i + 1] = nodes[i]
  BY <1>1
<1>4. ASSUME NEW i \in DOMAIN nodes', i # 1
      PROVE  i - 1 \in DOMAIN nodes /\ nodes'[i] = nodes[i - 1]
  <2>1. i - 1 \in 1..Len(nodes) /\ (i - 1) + 1 = i
    BY <1>2, <1>3, <1>4
  <2> QED
    BY <1>2, <1>3, <2>1
<1> QED
  BY <1>2, <1>3, <1>4

\* A new name in the list is still the only one of its directory.
LEMMA ConsUnique ==
  ASSUME NEW parent, NEW name, NEW p,
         nodes \in Seq(Node), UniqueNames, ~HasChild(parent, name),
         NewNode(parent, name, p) \in Node,
         nodes' = Cons(NewNode(parent, name, p), nodes)
  PROVE  UniqueNames'
<1> DEFINE e == NewNode(parent, name, p)
<1>1. e.parent_ino = parent /\ e.name = name
  BY DEF NewNode
<1>2. \A i \in DOMAIN nodes : ~(nodes[i].parent_ino = parent /\ nodes[i].name = name)
  BY DEF HasChild, IsChild
<1> HIDE DEF e
<1>3. /\ 1 \in DOMAIN nodes' /\ nodes'[1] = e
      /\ \A i \in DOMAIN nodes' :
           i \in Int /\ (i = 1 \/ (i - 1 \in DOMAIN nodes /\ nodes'[i] = nodes[i - 1]))
  BY ConsList DEF e
<1>5. ASSUME NEW i \in DOMAIN nodes', NEW j \in DOMAIN nodes',
             nodes'[i].parent_ino = nodes'[j].parent_ino, nodes'[i].name = nodes'[j].name
      PROVE  i = j
  <2>1. CASE i = 1 /\ j # 1
    BY <1>1, <1>2, <1>3, <1>5, <2>1
  <2>2. CASE i # 1 /\ j = 1
    BY <1>1, <1>2, <1>3, <1>5, <2>2
  <2>3. CASE i # 1 /\ j # 1
    <3>1. i - 1 = j - 1
      BY <1>3, <1>5, <2>3 DEF UniqueNames
    <3> QED
      BY <1>3, <3>1
  <2> QED
    BY <2>1, <2>2, <2>3
<1> QED
  BY <1>5 DEF UniqueNames

\* The payload that there is no node for is freed again, and no other: none
\* of those in memory has the number it has not got.
LEMMA UndoneIsNothing ==
  ASSUME NEW ps, ps = [q \in DOMAIN ps |-> ps[q]], UNNUMBERED \notin DOMAIN ps, NEW type
  PROVE  payload_put(alloc_payload(ps, UNNUMBERED, type), UNNUMBERED) = ps
<1> DEFINE more == alloc_payload(ps, UNNUMBERED, type)
<1>1. /\ DOMAIN more = DOMAIN ps \cup {UNNUMBERED}
      /\ more[UNNUMBERED] = NewPayload(type)
      /\ \A q \in DOMAIN ps : more[q] = ps[q]
  BY DEF alloc_payload
<1>2. more[UNNUMBERED].ref_count = 1
  BY <1>1 DEF NewPayload
<1> HIDE DEF more
<1>3. payload_put(more, UNNUMBERED) = [q \in DOMAIN more \ {UNNUMBERED} |-> more[q]]
  BY <1>2 DEF payload_put
<1>4. DOMAIN more \ {UNNUMBERED} = DOMAIN ps
  BY <1>1
<1>5. [q \in DOMAIN more \ {UNNUMBERED} |-> more[q]] = [q \in DOMAIN ps |-> ps[q]]
  BY <1>1, <1>4
<1> QED
  BY <1>3, <1>5 DEF more

\* create_file and mkdir fail without a trace or add a node.
LEMMA AddNodeCases ==
  ASSUME TypeOK, NEW parent, NEW name, NEW type, AddNode(parent, name, type)
  PROVE  \/ CreateError(parent, name) # 0 /\ Fail(CreateError(parent, name))
         \/ CreateError(parent, name) = 0 /\ Fail(ENOMEM)
         \/ /\ CreateError(parent, name) = 0
            /\ next_ino \in Ino
            /\ payloads' = alloc_payload(payloads, next_ino, type)
            /\ nodes' = Cons(NewNode(parent, name, next_ino), nodes)
            /\ next_ino' = next_ino + 1
            /\ ret' = 0
            /\ UNCHANGED mounted
<1>1. UNNUMBERED \notin DOMAIN payloads
  BY InoAssumption DEF TypeOK, AnyIno, UNNUMBERED, VTFS_ROOT_INO
<1>2. payloads = [q \in DOMAIN payloads |-> payloads[q]]
  BY DEF TypeOK
<1>3. payload_put(alloc_payload(payloads, UNNUMBERED, type), UNNUMBERED) = payloads
  BY <1>1, <1>2, UndoneIsNothing
<1>4. CASE /\ CreateError(parent, name) = 0
           /\ payloads' = payload_put(alloc_payload(payloads, UNNUMBERED, type), UNNUMBERED)
           /\ ret' = -ENOMEM
           /\ UNCHANGED <<mounted, nodes, next_ino>>
  <2>1. Fail(ENOMEM)
    BY <1>3, <1>4 DEF Fail, storage
  <2> QED
    BY <1>4, <2>1
<1> QED
  BY <1>4, Zenon DEF AddNode

\* create_file and mkdir: a new payload that the new node alone points to.
LEMMA AddKeeps ==
  ASSUME IInv, mounted, NEW parent \in AnyIno, NEW name \in Name,
         NEW type \in {"DIR", "FILE"}, AddNode(parent, name, type)
  PROVE  IInv'
<1>1. CASE CreateError(parent, name) # 0 /\ Fail(CreateError(parent, name))
  <2>1. ret' \in Int
    BY <1>1 DEF Fail, CreateError, EEXIST, ENOTDIR
  <2> QED
    BY <1>1, <2>1, FailKeeps DEF Fail
<1>2. CASE Fail(ENOMEM)
  <2>1. ret' \in Int
    BY <1>2 DEF Fail, ENOMEM
  <2> QED
    BY <1>2, <2>1, FailKeeps DEF Fail
<1>3. CASE /\ CreateError(parent, name) = 0
           /\ next_ino \in Ino
           /\ payloads' = alloc_payload(payloads, next_ino, type)
           /\ nodes' = Cons(NewNode(parent, name, next_ino), nodes)
           /\ next_ino' = next_ino + 1
           /\ ret' = 0
           /\ UNCHANGED mounted
  <2> DEFINE e == NewNode(parent, name, next_ino)
  <2>1. TypeOK /\ nodes \in Seq(Node) /\ next_ino \in Nat /\ next_ino > VTFS_ROOT_INO
    BY DEF IInv, TypeOK
  <2>2. ~HasChild(parent, name) /\ IsDir(parent)
    BY <1>3 DEF CreateError, EEXIST, ENOTDIR
  <2>3. parent \in Nat
    BY InoAssumption DEF AnyIno, VTFS_ROOT_INO
  <2>4. e \in Node /\ e.parent_ino = parent /\ e.payload = next_ino
    BY <2>1, <2>3 DEF NewNode, Node
  <2>5. NewPayload(type) \in Payload
    BY DEF NewPayload, Payload
  <2>6. next_ino \notin DOMAIN payloads
    BY <2>1 DEF IInv
  <2>7. /\ DOMAIN payloads' = DOMAIN payloads \cup {next_ino}
        /\ payloads'[next_ino] = NewPayload(type)
        /\ \A p \in DOMAIN payloads : payloads'[p] = payloads[p]
    BY <1>3, <2>6 DEF alloc_payload
  <2> HIDE DEF e
  <2>8. nodes' = Cons(e, nodes)
    BY <1>3 DEF e
  <2>9. /\ nodes' \in Seq(Node)
        /\ 1 \in DOMAIN nodes' /\ nodes'[1] = e
        /\ \A i \in DOMAIN nodes :
             i \in Int /\ i + 1 \in DOMAIN nodes' /\ nodes'[i + 1] = nodes[i]
        /\ \A i \in DOMAIN nodes' :
             i \in Int /\ (i = 1 \/ (i - 1 \in DOMAIN nodes /\ nodes'[i] = nodes[i - 1]))
    BY <2>1, <2>4, <2>8, ConsList
  <2>10. TypeOK'
    <3>1. payloads' \in [DOMAIN payloads' -> Payload]
      BY <1>3, <2>1, <2>5, <2>7 DEF TypeOK, alloc_payload
    <3>2. DOMAIN payloads' \subseteq AnyIno
      BY <1>3, <2>1, <2>7 DEF TypeOK, AnyIno
    <3>3. mounted' \in BOOLEAN
      BY <1>3, <2>1, Zenon DEF TypeOK
    <3>4. next_ino' \in Nat /\ next_ino' > VTFS_ROOT_INO /\ ret' \in Int
      BY <1>3, <2>1 DEF VTFS_ROOT_INO
    <3> QED
      BY <2>9, <3>1, <3>2, <3>3, <3>4 DEF TypeOK
  <2>11. UniqueNames'
    BY <1>3, <2>1, <2>2, <2>4, ConsUnique DEF IInv, e
  <2>12. RefCountExact'
    <3>1. DOMAIN payloads = {nodes[i].payload : i \in DOMAIN nodes}
      BY DEF IInv, RefCountExact
    <3>2. \A p \in DOMAIN payloads : payloads[p].ref_count = Cardinality(LinksOf(nodes, p))
      BY DEF IInv, RefCountExact, Links, LinksOf
    <3>3. ASSUME NEW p
          PROVE  /\ Cardinality(LinksOf(nodes', p)) =
                      Cardinality(LinksOf(nodes, p)) + (IF e.payload = p THEN 1 ELSE 0)
                 /\ Cardinality(LinksOf(nodes, p)) \in Nat
      BY <2>1, <2>4, <2>8, ConsCount, LinksFinite
    <3>4. Cardinality(LinksOf(nodes, next_ino)) = 0
      <4>1. LinksOf(nodes, next_ino) = {}
        BY <2>6, <3>1 DEF LinksOf
      <4> QED
        BY <4>1, FS_EmptySet
    <3>5. \A p \in DOMAIN payloads' :
            payloads'[p].ref_count = Cardinality(LinksOf(nodes', p))
      <4>1. payloads'[next_ino].ref_count = Cardinality(LinksOf(nodes', next_ino))
        BY <2>4, <2>7, <3>3, <3>4 DEF NewPayload
      <4>2. ASSUME NEW p \in DOMAIN payloads
            PROVE  payloads'[p].ref_count = Cardinality(LinksOf(nodes', p))
        BY <2>4, <2>6, <2>7, <3>2, <3>3
      <4> QED
        BY <2>7, <4>1, <4>2
    <3>6. DOMAIN payloads' = {nodes'[i].payload : i \in DOMAIN nodes'}
      <4>1. ASSUME NEW p \in DOMAIN payloads'
            PROVE  \E i \in DOMAIN nodes' : p = nodes'[i].payload
        <5>1. CASE p = next_ino
          BY <2>4, <2>9, <5>1
        <5>2. CASE p \in DOMAIN payloads
          <6>1. PICK i \in DOMAIN nodes : p = nodes[i].payload
            BY <3>1, <5>2
          <6>2. i + 1 \in DOMAIN nodes' /\ nodes'[i + 1] = nodes[i]
            BY <2>9
          <6> QED
            BY <6>1, <6>2
        <5> QED
          BY <2>7, <5>1, <5>2
      <4>2. ASSUME NEW i \in DOMAIN nodes'
            PROVE  nodes'[i].payload \in DOMAIN payloads'
        BY <2>4, <2>7, <2>9, <3>1
      <4> QED
        BY <4>1, <4>2
    <3> QED
      BY <3>5, <3>6 DEF RefCountExact, Links, LinksOf
  <2>13. NoOrphans'
    <3>1. parent \in DOMAIN payloads /\ payloads[parent].type = "DIR"
      <4>1. DOMAIN payloads = {nodes[i].payload : i \in DOMAIN nodes}
        BY DEF IInv, RefCountExact
      <4> QED
        BY <2>2, <4>1 DEF IsDir, Reaches
    <3>2. ASSUME NEW i \in DOMAIN nodes'
          PROVE  \/ nodes'[i].parent_ino = 0 /\ nodes'[i].payload = VTFS_ROOT_INO
                 \/ /\ nodes'[i].parent_ino \in DOMAIN payloads'
                    /\ payloads'[nodes'[i].parent_ino].type = "DIR"
      <4>1. CASE i = 1
        BY <2>4, <2>7, <2>9, <3>1, <4>1
      <4>2. CASE i # 1
        <5>1. i - 1 \in DOMAIN nodes /\ nodes'[i] = nodes[i - 1]
          BY <2>9, <4>2
        <5> QED
          BY <2>7, <5>1 DEF IInv, NoOrphans
      <4> QED
        BY <4>1, <4>2
    <3> QED
      BY <3>2 DEF NoOrphans
  <2>14. SizeWithinCapacity'
    BY <2>7 DEF IInv, SizeWithinCapacity, NewPayload
  <2>15. \A p \in DOMAIN payloads' : p < next_ino'
    BY <1>3, <2>1, <2>7, InoAssumption DEF IInv, TypeOK, AnyIno, VTFS_ROOT_INO
  <2> QED
    BY <1>3, <2>10, <2>11, <2>12, <2>13, <2>14, <2>15 DEF IInv
<1> QED
  BY <1>1, <1>2, <1>3, AddNodeCases DEF IInv

\* link: one more node and one more reference for a payload that exists.
LEMMA LinkKeeps ==
  ASSUME IInv, mounted, NEW target, NEW parent \in AnyIno,
         NEW name \in Name, link(target, parent, name)
  PROVE  IInv'
<1>1. CASE LinkError(target, parent, name) # 0 /\ Fail(LinkError(target, parent, name))
  <2>1. ret' \in Int
    BY <1>1 DEF Fail, LinkError, ENOENT, EPERM, EEXIST, ENOTDIR
  <2> QED
    BY <1>1, <2>1, FailKeeps DEF Fail
<1>2. CASE Fail(ENOMEM)
  <2>1. ret' \in Int
    BY <1>2 DEF Fail, ENOMEM
  <2> QED
    BY <1>2, <2>1, FailKeeps DEF Fail
<1>3. CASE /\ LinkError(target, parent, name) = 0
           /\ nodes' = Cons(NewNode(parent, name, target), nodes)
           /\ payloads' = payload_get(payloads, target)
           /\ ret' = 0
           /\ UNCHANGED <<mounted, next_ino>>
  <2> DEFINE e == NewNode(parent, name, target)
  <2>1. TypeOK /\ nodes \in Seq(Node) /\ payloads \in [DOMAIN payloads -> Payload]
    BY DEF IInv, TypeOK
  <2>2. ~HasChild(parent, name) /\ IsDir(parent) /\ Reaches(target)
    BY <1>3 DEF LinkError, ENOENT, EPERM, EEXIST, ENOTDIR
  <2>3. parent \in Nat /\ target \in Nat
    <3>1. parent \in Nat
      BY InoAssumption DEF AnyIno, VTFS_ROOT_INO
    <3>2. PICK i \in DOMAIN nodes : nodes[i].payload = target
      BY <2>2 DEF Reaches
    <3>3. nodes[i] \in Node
      BY <2>1
    <3> QED
      BY <3>1, <3>2, <3>3 DEF Node
  <2>4. e \in Node /\ e.parent_ino = parent /\ e.payload = target
    BY <2>3 DEF NewNode, Node
  <2>5. DOMAIN payloads = {nodes[i].payload : i \in DOMAIN nodes}
    BY DEF IInv, RefCountExact
  <2>6. target \in DOMAIN payloads
    BY <2>2, <2>5 DEF Reaches
  <2>7. /\ payloads' \in [DOMAIN payloads -> Payload]
        /\ DOMAIN payloads' = DOMAIN payloads
        /\ \A p \in DOMAIN payloads :
             /\ SameFile(payloads'[p], payloads[p])
             /\ payloads'[p].ref_count = payloads[p].ref_count + (IF p = target THEN 1 ELSE 0)
    <3> DEFINE ps == payload_get(payloads, target)
    <3>1. /\ ps \in [DOMAIN payloads -> Payload]
          /\ \A p \in DOMAIN payloads :
               /\ SameFile(ps[p], payloads[p])
               /\ ps[p].ref_count = payloads[p].ref_count + (IF p = target THEN 1 ELSE 0)
      BY <2>1, <2>6, GetCounts
    <3> HIDE DEF ps
    <3>2. payloads' = ps
      BY <1>3 DEF ps
    <3> QED
      BY <3>1, <3>2
  <2> HIDE DEF e
  <2>8. nodes' = Cons(e, nodes)
    BY <1>3 DEF e
  <2>9. /\ nodes' \in Seq(Node)
        /\ 1 \in DOMAIN nodes' /\ nodes'[1] = e
        /\ \A i \in DOMAIN nodes :
             i \in Int /\ i + 1 \in DOMAIN nodes' /\ nodes'[i + 1] = nodes[i]
        /\ \A i \in DOMAIN nodes' :
             i \in Int /\ (i = 1 \/ (i - 1 \in DOMAIN nodes /\ nodes'[i] = nodes[i - 1]))
    BY <2>1, <2>4, <2>8, ConsList
  <2>10. TypeOK'
    <3>1. mounted' \in BOOLEAN
      BY <1>3, <2>1, Zenon DEF TypeOK
    <3> QED
      BY <1>3, <2>1, <2>7, <2>9, <3>1 DEF TypeOK
  <2>11. UniqueNames'
    BY <1>3, <2>1, <2>2, <2>4, ConsUnique DEF IInv, e
  <2>12. RefCountExact'
    <3>1. \A p \in DOMAIN payloads : payloads[p].ref_count = Cardinality(LinksOf(nodes, p))
      BY DEF IInv, RefCountExact, Links, LinksOf
    <3>2. ASSUME NEW p
          PROVE  /\ Cardinality(LinksOf(nodes', p)) =
                      Cardinality(LinksOf(nodes, p)) + (IF e.payload = p THEN 1 ELSE 0)
                 /\ Cardinality(LinksOf(nodes, p)) \in Nat
      BY <2>1, <2>4, <2>8, ConsCount, LinksFinite
    <3>3. \A p \in DOMAIN payloads' :
            payloads'[p].ref_count = Cardinality(LinksOf(nodes', p))
      BY <2>4, <2>7, <3>1, <3>2
    <3>4. DOMAIN payloads' = {nodes'[i].payload : i \in DOMAIN nodes'}
      <4>1. ASSUME NEW p \in DOMAIN payloads'
            PROVE  \E i \in DOMAIN nodes' : p = nodes'[i].payload
        <5>1. PICK i \in DOMAIN nodes : p = nodes[i].payload
          BY <2>5, <2>7
        <5>2. i + 1 \in DOMAIN nodes' /\ nodes'[i + 1] = nodes[i]
          BY <2>9
        <5> QED
          BY <5>1, <5>2
      <4>2. ASSUME NEW i \in DOMAIN nodes'
            PROVE  nodes'[i].payload \in DOMAIN payloads'
        <5>1. CASE i = 1
          BY <2>4, <2>6, <2>7, <2>9, <5>1
        <5>2. CASE i # 1
          <6>1. i - 1 \in DOMAIN nodes /\ nodes'[i] = nodes[i - 1]
            BY <2>9, <5>2
          <6> QED
            BY <2>5, <2>7, <6>1
        <5> QED
          BY <5>1, <5>2
      <4> QED
        BY <4>1, <4>2
    <3> QED
      BY <3>3, <3>4 DEF RefCountExact, Links, LinksOf
  <2>13. NoOrphans'
    <3>1. parent \in DOMAIN payloads /\ payloads[parent].type = "DIR"
      BY <2>2, <2>5 DEF IsDir, Reaches
    <3>2. ASSUME NEW i \in DOMAIN nodes'
          PROVE  \/ nodes'[i].parent_ino = 0 /\ nodes'[i].payload = VTFS_ROOT_INO
                 \/ /\ nodes'[i].parent_ino \in DOMAIN payloads'
                    /\ payloads'[nodes'[i].parent_ino].type = "DIR"
      <4>1. CASE i = 1
        BY <2>4, <2>7, <2>9, <3>1, <4>1 DEF SameFile
      <4>2. CASE i # 1
        <5>1. i - 1 \in DOMAIN nodes /\ nodes'[i] = nodes[i - 1]
          BY <2>9, <4>2
        <5> QED
          BY <2>7, <5>1 DEF IInv, NoOrphans, SameFile
      <4> QED
        BY <4>1, <4>2
    <3> QED
      BY <3>2 DEF NoOrphans
  <2>14. SizeWithinCapacity'
    BY <2>7 DEF IInv, SizeWithinCapacity, SameFile
  <2> QED
    BY <1>3, <2>7, <2>10, <2>11, <2>12, <2>13, <2>14 DEF IInv
<1> QED
  BY <1>1, <1>2, <1>3 DEF link

\* What removing node k does to the list, read from either side.
LEMMA RemoveList ==
  ASSUME NEW k \in DOMAIN nodes, nodes \in Seq(Node), nodes' = RemoveAt(nodes, k)
  PROVE  /\ nodes' \in Seq(Node)
         /\ \A i \in DOMAIN nodes \ {k} :
              \E j \in DOMAIN nodes' : nodes'[j] = nodes[i]
         /\ \A i \in DOMAIN nodes' :
              /\ i \in Int /\ (IF i < k THEN i ELSE i + 1) \in DOMAIN nodes \ {k}
              /\ nodes'[i] = nodes[IF i < k THEN i ELSE i + 1]
<1>1. k \in 1..Len(nodes) /\ Len(nodes) \in Nat /\ DOMAIN nodes = 1..Len(nodes)
  OBVIOUS
<1>2. /\ RemoveAt(nodes, k) \in Seq(Node)
      /\ DOMAIN RemoveAt(nodes, k) = 1..(Len(nodes) - 1)
      /\ \A i \in 1..(Len(nodes) - 1) :
           RemoveAt(nodes, k)[i] = IF i < k THEN nodes[i] ELSE nodes[i + 1]
  <2>1. \A s \in Seq(Node) : \A m \in 1..Len(s) :
          /\ RemoveAt(s, m) \in Seq(Node)
          /\ DOMAIN RemoveAt(s, m) = 1..(Len(s) - 1)
          /\ \A i \in 1..(Len(s) - 1) :
               RemoveAt(s, m)[i] = IF i < m THEN s[i] ELSE s[i + 1]
    BY RemoveAtNodes
  <2> QED
    BY <1>1, <2>1
<1>3. /\ nodes' \in Seq(Node)
      /\ DOMAIN nodes' = 1..(Len(nodes) - 1)
      /\ \A i \in 1..(Len(nodes) - 1) :
           nodes'[i] = IF i < k THEN nodes[i] ELSE nodes[i + 1]
  BY <1>2
<1>4. ASSUME NEW i \in DOMAIN nodes \ {k}
      PROVE  \E j \in DOMAIN nodes' : nodes'[j] = nodes[i]
  <2>1. CASE i < k
    BY <1>1, <1>3, <2>1
  <2>2. CASE i > k
    <3>1. i - 1 \in 1..(Len(nodes) - 1) /\ ~(i - 1 < k) /\ (i - 1) + 1 = i
      BY <1>1, <2>2
    <3> QED
      BY <1>3, <3>1
  <2> QED
    BY <1>1, <2>1, <2>2
<1> QED
  BY <1>1, <1>3, <1>4

\* unlink and rmdir: one node and one reference less.  Nothing lies in what
\* goes: a file has no entries, and rmdir has found the directory empty.
LEMMA RemoveKeeps ==
  ASSUME IInv, NEW k \in DOMAIN nodes, RemoveNode(k),
         payloads[nodes[k].payload].type = "FILE" \/ IsEmptyDir(nodes[k].payload)
  PROVE  IInv'
<1> DEFINE p0 == nodes[k].payload
           E  == Kept(payloads, p0)
           ps == payload_put(payloads, p0)
<1>1. TypeOK /\ nodes \in Seq(Node) /\ payloads \in [DOMAIN payloads -> Payload]
  BY DEF IInv, TypeOK
<1>2. DOMAIN payloads = {nodes[i].payload : i \in DOMAIN nodes}
  BY DEF IInv, RefCountExact
<1>3. \A p \in DOMAIN payloads : payloads[p].ref_count = Cardinality(LinksOf(nodes, p))
  BY DEF IInv, RefCountExact, Links, LinksOf
<1>4. k \in 1..Len(nodes)
  BY <1>1
<1>5. p0 \in DOMAIN payloads
  BY <1>2
<1>6. ASSUME NEW p
      PROVE  /\ Cardinality(LinksOf(RemoveAt(nodes, k), p)) =
                  Cardinality(LinksOf(nodes, p)) - (IF p0 = p THEN 1 ELSE 0)
             /\ Cardinality(LinksOf(nodes, p)) \in Nat
             /\ Cardinality(LinksOf(RemoveAt(nodes, k), p)) \in Nat
  <2>1. RemoveAt(nodes, k) \in Seq(Node)
    BY <1>1, <1>4, RemoveAtNodes
  <2> QED
    BY <1>1, <1>4, <2>1, RemoveAtCount, LinksFinite
<1>7. payloads[p0].ref_count # 0
  BY <1>3, <1>5, <1>6
<1>8. /\ ps \in [E -> Payload]
      /\ \A q \in E : /\ SameFile(ps[q], payloads[q])
                      /\ ps[q].ref_count = payloads[q].ref_count - (IF q = p0 THEN 1 ELSE 0)
  BY <1>1, <1>5, <1>7, PutCounts
<1>9. payloads' = ps /\ nodes' = RemoveAt(nodes, k)
  BY DEF RemoveNode
<1> HIDE DEF ps
<1>10. /\ DOMAIN payloads' = E /\ E \subseteq DOMAIN payloads
       /\ payloads' \in [E -> Payload]
       /\ \A q \in E : /\ SameFile(payloads'[q], payloads[q])
                       /\ payloads'[q].ref_count =
                            payloads[q].ref_count - (IF q = p0 THEN 1 ELSE 0)
  BY <1>8, <1>9 DEF Kept
<1>11. \A q \in DOMAIN payloads : q \in E <=> Cardinality(LinksOf(nodes', q)) # 0
  <2>1. ASSUME NEW q \in DOMAIN payloads
        PROVE  q \in E <=> Cardinality(LinksOf(nodes', q)) # 0
    <3>1. Cardinality(LinksOf(nodes, q)) # 0
      <4>1. LinksOf(nodes, q) # {}
        BY <1>2 DEF LinksOf
      <4>2. IsFiniteSet(LinksOf(nodes, q))
        BY <1>1, LinksFinite
      <4> QED
        BY <4>1, <4>2, FS_EmptySet
    <3> QED
      BY <1>3, <1>6, <1>9, <3>1 DEF Kept
  <2> QED
    BY <2>1
<1>12. /\ nodes' \in Seq(Node)
       /\ \A i \in DOMAIN nodes \ {k} : \E j \in DOMAIN nodes' : nodes'[j] = nodes[i]
       /\ \A i \in DOMAIN nodes' :
            /\ i \in Int /\ (IF i < k THEN i ELSE i + 1) \in DOMAIN nodes \ {k}
            /\ nodes'[i] = nodes[IF i < k THEN i ELSE i + 1]
  BY <1>1, <1>9, RemoveList
<1> HIDE DEF E
<1>13. TypeOK'
  <2>1. mounted' \in BOOLEAN
    BY <1>1, Zenon DEF TypeOK, RemoveNode
  <2>2. DOMAIN payloads' \subseteq AnyIno
    BY <1>1, <1>10 DEF TypeOK
  <2>3. next_ino' = next_ino /\ ret' = 0
    BY DEF RemoveNode
  <2> QED
    BY <1>1, <1>10, <1>12, <2>1, <2>2, <2>3 DEF TypeOK
<1>14. UniqueNames'
  <2>1. ASSUME NEW i \in DOMAIN nodes', NEW j \in DOMAIN nodes',
               nodes'[i].parent_ino = nodes'[j].parent_ino, nodes'[i].name = nodes'[j].name
        PROVE  i = j
    <3> DEFINE u == IF i < k THEN i ELSE i + 1
               v == IF j < k THEN j ELSE j + 1
    <3>1. u \in DOMAIN nodes /\ v \in DOMAIN nodes /\ nodes'[i] = nodes[u] /\ nodes'[j] = nodes[v]
      BY <1>12
    <3>2. u = v
      BY <2>1, <3>1 DEF IInv, UniqueNames
    <3> QED
      BY <1>4, <1>12, <3>2
  <2> QED
    BY <2>1 DEF UniqueNames
<1>15. RefCountExact'
  <2>1. \A p \in DOMAIN payloads' :
          payloads'[p].ref_count = Cardinality(LinksOf(nodes', p))
    BY <1>3, <1>6, <1>9, <1>10
  <2>2. DOMAIN payloads' = {nodes'[i].payload : i \in DOMAIN nodes'}
    <3>1. ASSUME NEW p \in DOMAIN payloads'
          PROVE  \E i \in DOMAIN nodes' : p = nodes'[i].payload
      <4>1. LinksOf(nodes', p) # {}
        BY <1>10, <1>11, FS_EmptySet
      <4> QED
        BY <4>1 DEF LinksOf
    <3>2. ASSUME NEW i \in DOMAIN nodes'
          PROVE  nodes'[i].payload \in DOMAIN payloads'
      <4> DEFINE q == nodes'[i].payload
      <4>1. q \in DOMAIN payloads
        BY <1>2, <1>12
      <4>2. LinksOf(nodes', q) # {} /\ IsFiniteSet(LinksOf(nodes', q))
        BY <1>12, LinksFinite DEF LinksOf
      <4>3. Cardinality(LinksOf(nodes', q)) # 0
        BY <4>2, FS_EmptySet
      <4> QED
        BY <1>10, <1>11, <4>1, <4>3
    <3> QED
      BY <3>1, <3>2
  <2> QED
    BY <2>1, <2>2 DEF RefCountExact, Links, LinksOf
<1>16. NoOrphans'
  <2>1. ASSUME NEW i \in DOMAIN nodes'
        PROVE  \/ nodes'[i].parent_ino = 0 /\ nodes'[i].payload = VTFS_ROOT_INO
               \/ /\ nodes'[i].parent_ino \in DOMAIN payloads'
                  /\ payloads'[nodes'[i].parent_ino].type = "DIR"
    <3> DEFINE u == IF i < k THEN i ELSE i + 1
    <3>1. u \in DOMAIN nodes /\ nodes'[i] = nodes[u]
      BY <1>12
    <3> HIDE DEF u
    <3>2. CASE nodes[u].parent_ino = 0 /\ nodes[u].payload = VTFS_ROOT_INO
      BY <3>1, <3>2
    <3>3. CASE /\ nodes[u].parent_ino \in DOMAIN payloads
               /\ payloads[nodes[u].parent_ino].type = "DIR"
      <4>1. nodes[u].parent_ino # p0
        BY <3>1, <3>3 DEF IsEmptyDir
      <4>2. nodes[u].parent_ino \in E
        BY <3>3, <4>1 DEF E, Kept
      <4> QED
        BY <1>10, <3>1, <3>3, <4>2 DEF SameFile
    <3> QED
      BY <3>1, <3>2, <3>3 DEF IInv, NoOrphans
  <2> QED
    BY <2>1 DEF NoOrphans
<1>17. SizeWithinCapacity'
  BY <1>10 DEF IInv, SizeWithinCapacity, SameFile
<1>18. \A p \in DOMAIN payloads' : p < next_ino'
  BY <1>10 DEF IInv, RemoveNode
<1>19. ~mounted' => nodes' = <<>>
  <2>1. mounted
    BY <1>4 DEF IInv
  <2> QED
    BY <2>1 DEF RemoveNode
<1> QED
  BY <1>13, <1>14, <1>15, <1>16, <1>17, <1>18, <1>19 DEF IInv

-----------------------------------------------------------------------------
(* Writing.                                                                *)

\* A buffer as long as capacity says, the size within it.
Sound(p) == p \in Payload /\ p.size <= p.capacity /\ p.capacity = Len(p.data)

\* Changing only the size, the capacity and the bytes of one file.
LEMMA StoreKeeps ==
  ASSUME IInv, NEW ino \in DOMAIN payloads, NEW r, Sound(r),
         r.type = payloads[ino].type, r.ref_count = payloads[ino].ref_count,
         payloads' = [payloads EXCEPT ![ino] = r], ret' \in Int,
         UNCHANGED <<mounted, nodes, next_ino>>
  PROVE  IInv'
<1>1. TypeOK /\ payloads \in [DOMAIN payloads -> Payload]
  BY DEF IInv, TypeOK
<1>2. /\ payloads' \in [DOMAIN payloads -> Payload]
      /\ DOMAIN payloads' = DOMAIN payloads
      /\ \A q \in DOMAIN payloads :
           /\ payloads'[q].type = payloads[q].type
           /\ payloads'[q].ref_count = payloads[q].ref_count
           /\ payloads'[q] = IF q = ino THEN r ELSE payloads[q]
  BY <1>1 DEF Sound
<1>3. TypeOK'
  <2>1. mounted' \in BOOLEAN
    BY <1>1, Zenon DEF TypeOK
  <2> QED
    BY <1>1, <1>2, <2>1 DEF TypeOK
<1>4. UniqueNames' /\ NoOrphans'
  BY <1>2 DEF IInv, UniqueNames, NoOrphans
<1>5. RefCountExact'
  <2>1. \A p \in DOMAIN payloads : payloads[p].ref_count = Cardinality(LinksOf(nodes, p))
    BY DEF IInv, RefCountExact, Links, LinksOf
  <2>2. \A p \in DOMAIN payloads' : payloads'[p].ref_count = Cardinality(LinksOf(nodes', p))
    BY <1>2, <2>1
  <2>3. DOMAIN payloads' = {nodes'[i].payload : i \in DOMAIN nodes'}
    BY <1>2 DEF IInv, RefCountExact
  <2> QED
    BY <2>2, <2>3 DEF RefCountExact, Links, LinksOf
<1>6. SizeWithinCapacity'
  BY <1>2 DEF IInv, SizeWithinCapacity, Sound
<1> QED
  BY <1>2, <1>3, <1>4, <1>5, <1>6 DEF IInv

\* A buffer that must grow grows to hold the write, and keeps its bytes.
LEMMA GrownSound ==
  ASSUME NEW p, Sound(p), NEW size \in Nat
  PROVE  /\ Sound(Grown(p, size))
         /\ Grown(p, size).capacity >= size
         /\ Grown(p, size).type = p.type /\ Grown(p, size).ref_count = p.ref_count
<1> DEFINE cap  == NewCapacity(size)
           data == [b \in 1..cap |-> IF b <= p.capacity THEN p.data[b] ELSE 0]
<1>1. cap \in Nat /\ cap >= size
  BY SizeAssumption DEF NewCapacity
<1>2. p.size \in Nat /\ p.capacity \in Nat /\ p.data \in Seq(Nat) /\ p.type \in {"DIR", "FILE"}
      /\ p.ref_count \in Nat
  BY DEF Sound, Payload
<1>3. data \in Seq(Nat) /\ Len(data) = cap
  <2>1. \A b \in 1..cap : (IF b <= p.capacity THEN p.data[b] ELSE 0) \in Nat
    BY <1>1, <1>2 DEF Sound
  <2>2. data \in [1..cap -> Nat]
    BY <2>1
  <2> QED
    BY <1>1, <2>2
<1>4. CASE size > p.capacity
  <2>1. Grown(p, size) = [p EXCEPT !.capacity = cap, !.data = data]
    BY <1>4 DEF Grown, Resized
  <2> HIDE DEF cap, data
  <2>2. /\ [p EXCEPT !.capacity = cap, !.data = data] \in Payload
        /\ [p EXCEPT !.capacity = cap, !.data = data].size = p.size
        /\ [p EXCEPT !.capacity = cap, !.data = data].type = p.type
        /\ [p EXCEPT !.capacity = cap, !.data = data].ref_count = p.ref_count
        /\ [p EXCEPT !.capacity = cap, !.data = data].capacity = cap
        /\ [p EXCEPT !.capacity = cap, !.data = data].data = data
    BY <1>1, <1>3 DEF Sound, Payload
  <2> QED
    BY <1>1, <1>2, <1>3, <1>4, <2>1, <2>2 DEF Sound
<1>5. CASE ~(size > p.capacity)
  BY <1>2, <1>5 DEF Grown
<1> QED
  BY <1>4, <1>5

\* Copying into the buffer changes bytes, never its length.
LEMMA OverlaySound ==
  ASSUME NEW p, Sound(p), NEW offset \in Nat, NEW buf \in Seq(Nat), NEW n \in 0..Len(buf)
  PROVE  Overlay(p, offset, buf, n) \in Seq(Nat) /\ Len(Overlay(p, offset, buf, n)) = p.capacity
<1> DEFINE Byte(b) == IF b <= offset \/ b > offset + Len(buf) THEN p.data[b]
                      ELSE IF b <= offset + n THEN buf[b - offset] ELSE 0
<1>1. p.data \in Seq(Nat) /\ DOMAIN p.data = 1..p.capacity /\ p.capacity \in Nat
  BY DEF Sound, Payload
<1>2. ASSUME NEW b \in 1..p.capacity PROVE Byte(b) \in Nat
  <2>1. CASE b <= offset \/ b > offset + Len(buf)
    BY <1>1, <2>1
  <2>2. CASE ~(b <= offset \/ b > offset + Len(buf))
    BY <2>2
  <2> QED
    BY <2>1, <2>2
<1>3. Overlay(p, offset, buf, n) = [b \in 1..p.capacity |-> Byte(b)]
  BY <1>1 DEF Overlay
<1> HIDE DEF Byte
<1>4. \A n1 \in Nat : \A f \in [1..n1 -> Nat] : f \in Seq(Nat) /\ Len(f) = n1
  OBVIOUS
<1>5. Overlay(p, offset, buf, n) \in [1..p.capacity -> Nat]
  BY <1>2, <1>3
<1> QED
  BY <1>1, <1>4, <1>5

\* A write that fails early changes nothing; one that goes on grows the
\* buffer first, so that size and bytes stay within it.
LEMMA WriteKeeps ==
  ASSUME IInv, NEW ino, NEW offset \in Nat, NEW buf \in Seq(Nat),
         write(ino, offset, buf)
  PROVE  IInv'
<1> DEFINE err  == WriteError(ino, offset, Len(buf))
           size == NewSize(offset, Len(buf))
           p    == Grown(payloads[ino], size)
<1>1. offset \in Nat /\ buf \in Seq(Nat) /\ Len(buf) \in Nat
  OBVIOUS
<1>2. size \in Int
  BY <1>1, SizeAssumption DEF NewSize
<1>3. CASE err # 0 /\ Fail(err)
  <2>1. ret' \in Int
    BY <1>3 DEF Fail, WriteError, vtfs_validate_io_params, ENOENT, EISDIR, EINVAL, EFBIG
  <2> QED
    BY <1>3, <2>1, FailKeeps DEF Fail
<1>4. CASE Fail(ENOMEM)
  <2>1. ret' \in Int
    BY <1>4 DEF Fail, ENOMEM
  <2> QED
    BY <1>4, <2>1, FailKeeps DEF Fail
<1>5. ASSUME err = 0
      PROVE  /\ ino \in DOMAIN payloads /\ size \in Nat
             /\ Sound(p) /\ p.capacity >= size
             /\ p.type = payloads[ino].type /\ p.ref_count = payloads[ino].ref_count
  <2>1. Reaches(ino) /\ ~(size < 0)
    BY <1>1, <1>5 DEF WriteError, vtfs_validate_io_params, ENOENT, EISDIR, EINVAL, EFBIG
  <2>2. DOMAIN payloads = {nodes[i].payload : i \in DOMAIN nodes}
    BY DEF IInv, RefCountExact
  <2>3. ino \in DOMAIN payloads /\ size \in Nat
    BY <1>2, <2>1, <2>2 DEF Reaches
  <2>4. Sound(payloads[ino])
    BY <2>3 DEF Sound, IInv, TypeOK, SizeWithinCapacity
  <2> QED
    BY <2>3, <2>4, GrownSound
<1> HIDE DEF err, size, p
<1>6. ASSUME err = 0, NEW n \in 0..Len(buf), NEW newSize \in Nat, newSize <= p.capacity,
             payloads' = [payloads EXCEPT ![ino] =
               [p EXCEPT !.data = Overlay(p, offset, buf, n), !.size = newSize]],
             ret' \in Int, UNCHANGED <<mounted, nodes, next_ino>>
      PROVE  IInv'
  <2> DEFINE bytes == Overlay(p, offset, buf, n)
             r     == [p EXCEPT !.data = bytes, !.size = newSize]
  <2>1. bytes \in Seq(Nat) /\ Len(bytes) = p.capacity
    BY <1>1, <1>5, <1>6, OverlaySound
  <2> HIDE DEF bytes
  <2>2. /\ r \in Payload /\ r.size = newSize /\ r.data = bytes
        /\ r.capacity = p.capacity /\ r.type = p.type /\ r.ref_count = p.ref_count
    BY <1>5, <1>6, <2>1 DEF Sound, Payload
  <2>3. payloads' = [payloads EXCEPT ![ino] = r]
    BY <1>6 DEF bytes
  <2> HIDE DEF r
  <2>4. Sound(r) /\ r.type = payloads[ino].type /\ r.ref_count = payloads[ino].ref_count
    BY <1>5, <1>6, <2>1, <2>2 DEF Sound
  <2> QED
    BY <1>5, <1>6, <2>3, <2>4, StoreKeeps
<1>7. CASE /\ err = 0 /\ CopyFaults
           /\ \E n \in 0..(Len(buf) - 1) :
                payloads' = [payloads EXCEPT ![ino] =
                               [p EXCEPT !.data = Overlay(p, offset, buf, n)]]
           /\ ret' = -EFAULT
           /\ UNCHANGED <<mounted, nodes, next_ino>>
  <2>1. PICK n \in 0..(Len(buf) - 1) :
          payloads' = [payloads EXCEPT ![ino] = [p EXCEPT !.data = Overlay(p, offset, buf, n)]]
    BY <1>7
  <2>2. p \in Payload /\ p.size \in Nat /\ p.size <= p.capacity
    BY <1>5, <1>7 DEF Sound, Payload
  <2>3. [p EXCEPT !.data = Overlay(p, offset, buf, n)] =
          [p EXCEPT !.data = Overlay(p, offset, buf, n), !.size = p.size]
    BY <2>2 DEF Payload
  <2>4. ret' \in Int /\ n \in 0..Len(buf)
    BY <1>1, <1>7 DEF EFAULT
  <2> QED
    BY <1>6, <1>7, <2>1, <2>2, <2>3, <2>4
<1>8. CASE /\ err = 0
           /\ Store(ino, offset, buf)
           /\ ret' = Len(buf)
           /\ UNCHANGED <<mounted, nodes, next_ino>>
  <2> DEFINE newSize == IF size > p.size THEN size ELSE p.size
  <2>1. newSize \in Nat /\ newSize <= p.capacity
    BY <1>5, <1>8 DEF Sound, Payload
  <2>2. payloads' = [payloads EXCEPT ![ino] =
          [p EXCEPT !.data = Overlay(p, offset, buf, Len(buf)), !.size = newSize]]
    BY <1>8 DEF Store, p, size
  <2>3. Len(buf) \in 0..Len(buf) /\ ret' \in Int
    BY <1>1, <1>8
  <2> HIDE DEF newSize
  <2> QED
    BY <1>6, <1>8, <2>1, <2>2, <2>3
<1> QED
  BY <1>3, <1>4, <1>7, <1>8 DEF write, err, size, p

-----------------------------------------------------------------------------
(* The theorems.                                                           *)

\* unlink and rmdir, whatever they find.
LEMMA RemovalKeeps ==
  ASSUME IInv, NEW parent \in AnyIno, NEW name \in Name,
         unlink(parent, name) \/ rmdir(parent, name)
  PROVE  IInv'
<1>1. CASE Fail(ENOENT) \/ Fail(EPERM) \/ Fail(ENOTDIR) \/ Fail(ENOTEMPTY)
  <2>1. ret' \in Int /\ UNCHANGED storage
    BY <1>1 DEF Fail, ENOENT, EPERM, ENOTDIR, ENOTEMPTY
  <2> QED
    BY <2>1, FailKeeps
<1>2. ASSUME NEW k \in DOMAIN nodes, RemoveNode(k),
             payloads[nodes[k].payload].type = "FILE" \/ IsEmptyDir(nodes[k].payload)
      PROVE  IInv'
  BY <1>2, RemoveKeeps
<1> QED
  BY <1>1, <1>2 DEF unlink, rmdir

\* Every operation keeps the inductive invariant.
THEOREM IInvStep == IInv /\ [Next]_vars => IInv'
<1> SUFFICES ASSUME IInv, [Next]_vars
             PROVE  IInv'
  OBVIOUS
<1>1. CASE init
  BY <1>1, InitKeeps
<1>2. CASE shutdown
  BY <1>2, ShutdownKeeps
<1>3. ASSUME mounted, NEW parent \in AnyIno, NEW name \in Name,
             create_file(parent, name) \/ mkdir(parent, name)
      PROVE  IInv'
  BY <1>3, AddKeeps DEF create_file, mkdir
<1>4. ASSUME NEW parent \in AnyIno, NEW name \in Name,
             unlink(parent, name) \/ rmdir(parent, name)
      PROVE  IInv'
  BY <1>4, RemovalKeeps
<1>5. ASSUME mounted, NEW target \in AnyIno, NEW parent \in AnyIno, NEW name \in Name,
             link(target, parent, name)
      PROVE  IInv'
  BY <1>5, LinkKeeps
<1>6. ASSUME NEW ino \in AnyIno, NEW offset \in Offset, NEW buf \in Buffer,
             write(ino, offset, buf)
      PROVE  IInv'
  BY <1>6, WriteKeeps, IoAssumption
<1>7. CASE UNCHANGED vars
  <2>1. UNCHANGED storage /\ ret' = ret
    BY <1>7 DEF vars, storage
  <2>2. ret \in Int
    BY DEF IInv, TypeOK
  <2> QED
    BY <2>1, <2>2, FailKeeps
<1> QED
  BY <1>1, <1>2, <1>3, <1>4, <1>5, <1>6, <1>7 DEF Next, Operation

\* The module is loaded with nothing mounted: the list and the memory are empty.
THEOREM IInvInit == Init => IInv
<1> SUFFICES ASSUME Init
             PROVE  IInv
  OBVIOUS
<1>1. nodes = <<>> /\ DOMAIN payloads = {} /\ next_ino = VTFS_ROOT_INO + 1 /\ ret = 0
  BY DEF Init
<1>2. payloads \in [DOMAIN payloads -> Payload]
  BY DEF Init
<1>3. mounted \in BOOLEAN
  BY Zenon DEF Init
<1>4. TypeOK
  BY <1>1, <1>2, <1>3 DEF TypeOK, VTFS_ROOT_INO
<1>5. UniqueNames /\ NoOrphans /\ SizeWithinCapacity
  BY <1>1 DEF UniqueNames, NoOrphans, SizeWithinCapacity
<1>6. RefCountExact
  BY <1>1 DEF RefCountExact
<1> QED
  BY <1>1, <1>4, <1>5, <1>6 DEF IInv

\* Together: the inductive invariant holds in every state of the storage,
\* whatever calls are made, in any order, with any allocation failing.
THEOREM Invariance == Spec => []IInv
BY IInvInit, IInvStep, PTL DEF Spec

\* Every state is well typed.
THEOREM TypeCorrect == Spec => []TypeOK
<1>1. IInv => TypeOK
  BY DEF IInv
<1> QED
  BY <1>1, Invariance, PTL

\* A directory never holds a name twice, so that lookup and unlink, which both
\* take the first match of the list, always mean the same node.
THEOREM NamesUnique == Spec => []UniqueNames
<1>1. IInv => UniqueNames
  BY DEF IInv
<1> QED
  BY <1>1, Invariance, PTL

\* payload_get and payload_put keep ref_count at the number of nodes that
\* point to the payload: no payload is freed early, none leaks.
THEOREM CountsExact == Spec => []RefCountExact
<1>1. IInv => RefCountExact
  BY DEF IInv
<1> QED
  BY <1>1, Invariance, PTL

\* rmdir's scan for children suffices: no entry outlives its directory.
THEOREM NothingOrphaned == Spec => []NoOrphans
<1>1. IInv => NoOrphans
  BY DEF IInv
<1> QED
  BY <1>1, Invariance, PTL

\* No read can reach past the buffer that vtfs_ram_storage_write allocated.
THEOREM ReadsWithinBuffer == Spec => []SizeWithinCapacity
<1>1. IInv => SizeWithinCapacity
  BY DEF IInv
<1> QED
  BY <1>1, Invariance, PTL

\* A failing write, though its buffer may have grown and its bytes changed
\* up to the fault, has changed no size, type or count.
LEMMA FaultKeepsOutline ==
  ASSUME IInv, NEW ino, NEW offset, NEW buf \in Buffer, write(ino, offset, buf), ret' < 0
  PROVE  IF ret' = -EFAULT THEN UNCHANGED Outline ELSE UNCHANGED storage
<1>1. Len(buf) \in Nat
  BY IoAssumption
<1>2. CASE UNCHANGED storage
  BY <1>2 DEF storage, Outline
<1>3. CASE \E n \in 0..(Len(buf) - 1) :
             LET p == Grown(payloads[ino], NewSize(offset, Len(buf))) IN
             /\ WriteError(ino, offset, Len(buf)) = 0
             /\ payloads' = [payloads EXCEPT ![ino] =
                               [p EXCEPT !.data = Overlay(p, offset, buf, n)]]
             /\ ret' = -EFAULT /\ UNCHANGED <<mounted, nodes, next_ino>>
  <2> DEFINE p == Grown(payloads[ino], NewSize(offset, Len(buf)))
  <2>1. PICK n \in 0..(Len(buf) - 1) :
          payloads' = [payloads EXCEPT ![ino] = [p EXCEPT !.data = Overlay(p, offset, buf, n)]]
    BY <1>3
  <2> DEFINE q == [p EXCEPT !.data = Overlay(p, offset, buf, n)]
  <2>2. payloads \in [DOMAIN payloads -> Payload]
    BY DEF IInv, TypeOK
  <2>3. /\ DOMAIN payloads' = DOMAIN payloads
        /\ \A i \in DOMAIN payloads : payloads'[i] = IF i = ino THEN q ELSE payloads[i]
    BY <2>1, <2>2
  <2>4. ino \in DOMAIN payloads =>
          /\ q.type = payloads[ino].type /\ q.size = payloads[ino].size
          /\ q.ref_count = payloads[ino].ref_count
    <3>1. ASSUME ino \in DOMAIN payloads PROVE payloads[ino] \in Payload
      BY <2>2, <3>1
    <3> QED
      BY <3>1 DEF Grown, Resized, Payload
  <2> HIDE DEF q
  <2>5. \A i \in DOMAIN payloads :
          <<payloads'[i].type, payloads'[i].size, payloads'[i].ref_count>>
            = <<payloads[i].type, payloads[i].size, payloads[i].ref_count>>
    BY <2>3, <2>4
  <2>6. UNCHANGED Outline
    BY <1>3, <2>3, <2>5 DEF Outline
  <2> QED
    BY <1>3, <2>6
<1>4. CASE ret' = Len(buf)
  BY <1>1, <1>4
<1> QED
  BY <1>2, <1>3, <1>4 DEF write, Fail

\* A call that fails leaves the storage as it was: the payload allocated for
\* a node that there is no memory for is taken back, and only a copy from the
\* user that faults half way leaves a trace, in the bytes of the file.
THEOREM FailuresChangeNothing == Spec => FailureChangesNothing
<1> DEFINE A == ret' < 0 => IF ret' = -EFAULT THEN UNCHANGED Outline ELSE UNCHANGED storage
<1>1. ASSUME UNCHANGED storage PROVE A
  BY <1>1 DEF storage, Outline
<1>2. ASSUME init PROVE A
  <2>1. UNCHANGED storage \/ ret' = 0
    BY <1>2, Zenon DEF init, Fail
  <2> HIDE DEF A
  <2>2. ret' = 0 => A
    BY DEF A
  <2> QED
    BY <1>1, <2>1, <2>2
<1>3. ASSUME shutdown PROVE A
  BY <1>3 DEF shutdown
<1>4. ASSUME IInv, NEW parent, NEW name,
             create_file(parent, name) \/ mkdir(parent, name)
      PROVE  A
  <2>1. PICK type : AddNode(parent, name, type)
    BY <1>4 DEF create_file, mkdir
  <2>2. UNCHANGED storage \/ ret' = 0
    BY <1>4, <2>1, AddNodeCases DEF Fail, IInv
  <2>3. ret' = 0 => A
    OBVIOUS
  <2> HIDE DEF A
  <2> QED
    BY <1>1, <2>2, <2>3
<1>5. ASSUME NEW parent, NEW name, unlink(parent, name) \/ rmdir(parent, name)
      PROVE  A
  <2>1. UNCHANGED storage \/ ret' = 0
    BY <1>5 DEF unlink, rmdir, RemoveNode, Fail
  <2>2. ret' = 0 => A
    OBVIOUS
  <2> HIDE DEF A
  <2> QED
    BY <1>1, <2>1, <2>2
<1>6. ASSUME NEW target, NEW parent, NEW name, link(target, parent, name)
      PROVE  A
  <2>1. UNCHANGED storage \/ ret' = 0
    BY <1>6 DEF link, Fail
  <2>2. ret' = 0 => A
    OBVIOUS
  <2> HIDE DEF A
  <2> QED
    BY <1>1, <2>1, <2>2
<1>7. ASSUME IInv, NEW ino, NEW offset, NEW buf \in Buffer, write(ino, offset, buf)
      PROVE  A
  BY <1>7, FaultKeepsOutline
<1>8. ASSUME UNCHANGED vars PROVE A
  BY <1>1, <1>8 DEF vars, storage
<1> HIDE DEF A
<1>9. IInv /\ [Next]_vars => [A]_vars
  BY <1>2, <1>3, <1>4, <1>5, <1>6, <1>7, <1>8 DEF Next, Operation
<1> QED
  BY <1>9, Invariance, PTL DEF Spec, FailureChangesNothing, A
=============================================================================
