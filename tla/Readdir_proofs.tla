---------------------------- MODULE Readdir_proofs ----------------------------
(***************************************************************************)
(* What a listing misses and repeats, for any number of entries, changes   *)
(* and getdents calls.  An entry's place in the listing is the number of   *)
(* entries ahead of it in the list; lemmas say how an insertion at the     *)
(* head and a removal anywhere move the places of the others.              *)
(***************************************************************************)
EXTENDS Readdir, RamStorage_proofs

-----------------------------------------------------------------------------
(* Places in a listing.                                                    *)

\* No entry of the directory is in the list twice.
Distinct(ns) ==
  \A i, j \in DOMAIN ns : ns[i].parent_ino = Dir /\ ns[i] = ns[j] => i = j

LEMMA EntriesDistinct == IInv => Distinct(nodes)
BY DEF IInv, UniqueNames, Distinct

LEMMA EntriesFinite ==
  ASSUME NEW ns \in Seq(Node)
  PROVE  /\ IsFiniteSet(EntriesOf(ns)) /\ Cardinality(EntriesOf(ns)) \in Nat
         /\ \A e : /\ Ahead(ns, e) \subseteq EntriesOf(ns)
                   /\ IsFiniteSet(Ahead(ns, e)) /\ Rank(ns, e) \in Nat
<1> DEFINE D == {j \in DOMAIN ns : ns[j].parent_ino = Dir}
           f == [j \in D |-> ns[j]]
<1>1. IsFiniteSet(D)
  <2>1. IsFiniteSet(1..Len(ns)) /\ D \in SUBSET (1..Len(ns))
    BY FS_Interval
  <2> QED BY <2>1, FS_Subset
<1>2. f \in Surjection(D, EntriesOf(ns))
  BY DEF Surjection, EntriesOf
<1>3. IsFiniteSet(EntriesOf(ns))
  BY <1>1, <1>2, FS_Surjection
<1>4. \A e : Ahead(ns, e) \in SUBSET EntriesOf(ns)
  BY DEF Ahead, EntriesOf
<1>5. \A e : IsFiniteSet(Ahead(ns, e))
  BY <1>3, <1>4, FS_Subset
<1> QED BY <1>3, <1>4, <1>5, FS_CardinalityType DEF Rank

\* iterate_dir's count at node i is the place of its entry.
LEMMA RankCounts ==
  ASSUME NEW ns \in Seq(Node), Distinct(ns), NEW i \in DOMAIN ns
  PROVE  Cardinality({j \in 1..(i - 1) : ns[j].parent_ino = Dir}) = Rank(ns, ns[i])
         \/ ns[i].parent_ino # Dir
<1> SUFFICES ASSUME ns[i].parent_ino = Dir
             PROVE  Cardinality({j \in 1..(i - 1) : ns[j].parent_ino = Dir}) = Rank(ns, ns[i])
  OBVIOUS
<1> DEFINE D == {j \in 1..(i - 1) : ns[j].parent_ino = Dir}
           f == [j \in D |-> ns[j]]
<1>1. i \in 1..Len(ns) /\ D \subseteq DOMAIN ns /\ \A j \in D : j < i
  OBVIOUS
<1>2. IsFiniteSet(D)
  <2>1. i - 1 \in Int /\ D \in SUBSET (1..(i - 1))
    BY <1>1
  <2>2. IsFiniteSet(1..(i - 1))
    BY <2>1, FS_Interval
  <2> QED BY <2>1, <2>2, FS_Subset
<1>3. \A j \in DOMAIN ns : ns[j].parent_ino = Dir /\ j < i => j \in D
  BY <1>1
<1>4. Ahead(ns, ns[i]) = {ns[j] : j \in D}
  <2>1. \A k \in DOMAIN ns : ns[k] = ns[i] => k = i
    BY DEF Distinct
  <2> QED BY <1>1, <1>3, <2>1 DEF Ahead
<1>5. f \in Bijection(D, Ahead(ns, ns[i]))
  <2>1. \A j, k \in D : ns[j] = ns[k] => j = k
    BY <1>1 DEF Distinct
  <2> HIDE DEF D
  <2> QED BY <1>4, <2>1 DEF Bijection, Injection, Surjection, IsInjective
<1>6. Cardinality(Ahead(ns, ns[i])) = Cardinality(D)
  BY <1>2, <1>5, FS_Bijection DEF ExistsBijection
<1> QED BY <1>6 DEF Rank

\* Of two entries, the places differ, and both are below the number of entries.
LEMMA RankOrder ==
  ASSUME NEW ns \in Seq(Node), Distinct(ns), NEW i \in DOMAIN ns, NEW k \in DOMAIN ns,
         i < k, ns[i].parent_ino = Dir, ns[k].parent_ino = Dir
  PROVE  Rank(ns, ns[i]) < Rank(ns, ns[k])
<1> DEFINE A == Ahead(ns, ns[i])
           B == Ahead(ns, ns[k])
<1>1. IsFiniteSet(A) /\ IsFiniteSet(B) /\ Cardinality(A) \in Nat /\ Cardinality(B) \in Nat
  BY EntriesFinite DEF Rank
<1>2. \A j \in DOMAIN ns : ns[j] = ns[i] => j = i
  BY DEF Distinct
<1>3. ns[i] \notin A
  BY <1>2 DEF Ahead
<1>4. A \cup {ns[i]} \in SUBSET B
  BY <1>2 DEF Ahead
<1>5. Cardinality(A \cup {ns[i]}) = Cardinality(A) + 1
  BY <1>1, <1>3, FS_AddElement
<1>6. Cardinality(A \cup {ns[i]}) <= Cardinality(B)
  BY <1>1, <1>4, FS_Subset
<1> HIDE DEF A, B
<1>7. Cardinality(A) < Cardinality(B)
  BY <1>1, <1>5, <1>6
<1> QED BY <1>7 DEF A, B, Rank

LEMMA RankApart ==
  ASSUME NEW ns \in Seq(Node), Distinct(ns), NEW e \in EntriesOf(ns), NEW f \in EntriesOf(ns),
         Rank(ns, e) = Rank(ns, f)
  PROVE  e = f
<1>1. PICK i, k \in DOMAIN ns : /\ e = ns[i] /\ f = ns[k]
                                /\ ns[i].parent_ino = Dir /\ ns[k].parent_ino = Dir
  BY DEF EntriesOf
<1>2. i \in Nat /\ k \in Nat /\ Rank(ns, e) \in Nat /\ Rank(ns, f) \in Nat
  BY EntriesFinite
<1>3. ~(i < k) /\ ~(k < i)
  BY <1>1, <1>2, RankOrder
<1> QED BY <1>1, <1>2, <1>3

LEMMA RankBelow ==
  ASSUME NEW ns \in Seq(Node), Distinct(ns), NEW e \in EntriesOf(ns)
  PROVE  Rank(ns, e) < Cardinality(EntriesOf(ns))
<1> DEFINE A == Ahead(ns, e)
<1>1. PICK i \in DOMAIN ns : e = ns[i] /\ ns[i].parent_ino = Dir
  BY DEF EntriesOf
<1>2. IsFiniteSet(EntriesOf(ns)) /\ A \in SUBSET EntriesOf(ns) /\ Cardinality(A) \in Nat
      /\ Cardinality(EntriesOf(ns)) \in Nat
  BY EntriesFinite DEF Rank
<1>3. e \notin A
  <2>1. \A j \in DOMAIN ns : ns[j] = ns[i] => j = i
    BY <1>1 DEF Distinct
  <2> QED BY <1>1, <2>1 DEF Ahead
<1>4. Cardinality(A) <= Cardinality(EntriesOf(ns)) /\ Cardinality(A) # Cardinality(EntriesOf(ns))
  BY <1>2, <1>3, FS_Subset
<1> HIDE DEF A
<1>5. Cardinality(A) < Cardinality(EntriesOf(ns))
  BY <1>2, <1>4
<1> QED BY <1>5 DEF A, Rank

\* The places are all the numbers below that: while some entry is further on,
\* the storage finds one at *offset.
LEMMA RankReached ==
  ASSUME NEW ns \in Seq(Node), Distinct(ns), NEW n \in Nat, n < Cardinality(EntriesOf(ns))
  PROVE  \E e \in EntriesOf(ns) : Rank(ns, e) = n
<1> DEFINE E == EntriesOf(ns)
           N == Cardinality(E)
           T == 0..(N - 1)
           f == [e \in E |-> Rank(ns, e)]
<1>1. IsFiniteSet(E) /\ N \in Nat /\ n \in T
  BY EntriesFinite
<1>2. \A e \in E : Rank(ns, e) \in T
  BY <1>1, EntriesFinite, RankBelow
<1>3. \A e, g \in E : Rank(ns, e) = Rank(ns, g) => e = g
  BY RankApart
<1>4. IsFiniteSet(T) /\ Cardinality(T) = N
  BY <1>1, FS_Interval
<1> HIDE DEF E, N, T
<1>5. f \in Injection(E, T)
  BY <1>2, <1>3 DEF Injection, IsInjective
<1>6. f \in Surjection(E, T)
  BY <1>1, <1>4, <1>5, FS_Injection DEF N
<1>7. \E e \in E : f[e] = n
  BY <1>1, <1>6 DEF Surjection
<1> QED BY <1>7 DEF E

-----------------------------------------------------------------------------
(* Changes of the list.                                                    *)

\* A node put at the head is no entry or the first one.
LEMMA ConsRanks ==
  ASSUME nodes \in Seq(Node), NEW n \in Node, nodes' = Cons(n, nodes), Distinct(nodes'),
         n.parent_ino = Dir
  PROVE  /\ Entries' = Entries \cup {n} /\ n \notin Entries
         /\ Rank(nodes', n) = 0
         /\ \A e \in Entries : Rank(nodes', e) = Rank(nodes, e) + 1
<1>1. /\ nodes' \in Seq(Node) /\ 1 \in DOMAIN nodes' /\ nodes'[1] = n
      /\ \A i \in DOMAIN nodes :
           i \in Int /\ i >= 1 /\ i + 1 \in DOMAIN nodes' /\ nodes'[i + 1] = nodes[i]
      /\ \A i \in DOMAIN nodes' :
           i \in Int /\ i >= 1 /\ (i = 1 \/ (i - 1 \in DOMAIN nodes /\ nodes'[i] = nodes[i - 1]))
  BY ConsList
<1>2. \A i \in DOMAIN nodes' : nodes'[i] = n => i = 1
  BY <1>1 DEF Distinct
<1>3. Entries' = Entries \cup {n}
  <2>1. \A i \in DOMAIN nodes' : nodes'[i] = n \/ \E j \in DOMAIN nodes : nodes'[i] = nodes[j]
    BY <1>1
  <2>2. \A j \in DOMAIN nodes : \E i \in DOMAIN nodes' : nodes'[i] = nodes[j]
    BY <1>1
  <2>3. \E i \in DOMAIN nodes' : nodes'[i] = n
    BY <1>1
  <2>4. \A e : e \in Entries' <=> e.parent_ino = Dir /\ \E i \in DOMAIN nodes' : nodes'[i] = e
    BY DEF Entries, EntriesOf
  <2>5. \A e : e \in Entries <=> e.parent_ino = Dir /\ \E i \in DOMAIN nodes : nodes[i] = e
    BY DEF Entries, EntriesOf
  <2>6. \A e : e \in Entries' <=> e \in Entries \/ e = n
    BY <2>1, <2>2, <2>3, <2>4, <2>5
  <2> QED BY <2>6
<1>4. n \notin Entries
  BY <1>1, <1>2 DEF Entries, EntriesOf
<1>5. Ahead(nodes', n) = {}
  BY <1>1, <1>2 DEF Ahead
<1>6. ASSUME NEW e \in Entries
      PROVE  Rank(nodes', e) = Rank(nodes, e) + 1
  <2>1. Ahead(nodes', e) \subseteq Ahead(nodes, e) \cup {n}
    <3> SUFFICES ASSUME NEW j \in DOMAIN nodes', NEW k \in DOMAIN nodes', j < k, nodes'[k] = e,
                        nodes'[j].parent_ino = Dir
                 PROVE  nodes'[j] \in Ahead(nodes, e) \cup {n}
      BY DEF Ahead
    <3>1. CASE j = 1
      BY <1>1, <3>1
    <3>2. CASE j # 1
      <4>1. k # 1
        BY <1>1
      <4>2. /\ j - 1 \in DOMAIN nodes /\ nodes'[j] = nodes[j - 1]
            /\ k - 1 \in DOMAIN nodes /\ nodes'[k] = nodes[k - 1]
        BY <1>1, <3>2, <4>1
      <4>3. j - 1 < k - 1
        BY <1>1
      <4> QED BY <4>2, <4>3 DEF Ahead
    <3> QED BY <3>1, <3>2
  <2>2. Ahead(nodes, e) \subseteq Ahead(nodes', e)
    <3> SUFFICES ASSUME NEW j \in DOMAIN nodes, NEW k \in DOMAIN nodes, j < k, nodes[k] = e,
                        nodes[j].parent_ino = Dir
                 PROVE  nodes[j] \in Ahead(nodes', e)
      BY DEF Ahead
    <3>1. /\ j + 1 \in DOMAIN nodes' /\ nodes'[j + 1] = nodes[j]
          /\ k + 1 \in DOMAIN nodes' /\ nodes'[k + 1] = nodes[k] /\ j + 1 < k + 1
      BY <1>1
    <3> QED BY <3>1 DEF Ahead
  <2>3. n \in Ahead(nodes', e)
    <3>1. PICK k \in DOMAIN nodes : nodes[k] = e
      BY DEF Entries, EntriesOf
    <3>2. k + 1 \in DOMAIN nodes' /\ nodes'[k + 1] = e /\ 1 < k + 1
      BY <1>1, <3>1
    <3> QED BY <1>1, <3>2 DEF Ahead
  <2>4. Ahead(nodes', e) = Ahead(nodes, e) \cup {n}
    BY <2>1, <2>2, <2>3
  <2>5. n \notin Ahead(nodes, e) /\ IsFiniteSet(Ahead(nodes, e))
    BY <1>4, EntriesFinite DEF Entries
  <2> QED BY <2>4, <2>5, FS_AddElement DEF Rank
<1>7. Rank(nodes', n) = 0
  BY <1>5, FS_EmptySet DEF Rank
<1> QED BY <1>3, <1>4, <1>6, <1>7

LEMMA ConsElsewhere ==
  ASSUME nodes \in Seq(Node), NEW n \in Node, nodes' = Cons(n, nodes), n.parent_ino # Dir
  PROVE  /\ Entries' = Entries
         /\ \A e \in Entries : Rank(nodes', e) = Rank(nodes, e)
<1>1. /\ nodes' \in Seq(Node) /\ 1 \in DOMAIN nodes' /\ nodes'[1] = n
      /\ \A i \in DOMAIN nodes :
           i \in Int /\ i >= 1 /\ i + 1 \in DOMAIN nodes' /\ nodes'[i + 1] = nodes[i]
      /\ \A i \in DOMAIN nodes' :
           i \in Int /\ i >= 1 /\ (i = 1 \/ (i - 1 \in DOMAIN nodes /\ nodes'[i] = nodes[i - 1]))
  BY ConsList
<1>2. Entries' = Entries
  BY <1>1 DEF Entries, EntriesOf
<1>3. ASSUME NEW e \in Entries
      PROVE  Ahead(nodes', e) = Ahead(nodes, e)
  <2>0. e # n
    BY DEF Entries, EntriesOf
  <2>1. ASSUME NEW j \in DOMAIN nodes', NEW k \in DOMAIN nodes', j < k, nodes'[k] = e,
               nodes'[j].parent_ino = Dir
        PROVE  nodes'[j] \in Ahead(nodes, e)
    <3>1. j # 1 /\ k # 1
      BY <1>1, <2>0, <2>1
    <3>2. /\ j - 1 \in DOMAIN nodes /\ nodes'[j] = nodes[j - 1]
          /\ k - 1 \in DOMAIN nodes /\ nodes'[k] = nodes[k - 1] /\ j - 1 < k - 1
      BY <1>1, <2>1, <3>1
    <3> QED BY <2>1, <3>2 DEF Ahead
  <2>2. ASSUME NEW j \in DOMAIN nodes, NEW k \in DOMAIN nodes, j < k, nodes[k] = e,
               nodes[j].parent_ino = Dir
        PROVE  nodes[j] \in Ahead(nodes', e)
    <3>1. /\ j + 1 \in DOMAIN nodes' /\ nodes'[j + 1] = nodes[j]
          /\ k + 1 \in DOMAIN nodes' /\ nodes'[k + 1] = nodes[k] /\ j + 1 < k + 1
      BY <1>1, <2>2
    <3> QED BY <2>2, <3>1 DEF Ahead
  <2>3. Ahead(nodes', e) \subseteq Ahead(nodes, e)
    BY <2>1 DEF Ahead
  <2>4. Ahead(nodes, e) \subseteq Ahead(nodes', e)
    BY <2>2 DEF Ahead
  <2> QED BY <2>3, <2>4
<1> QED BY <1>2, <1>3 DEF Rank

\* Taking an entry out moves those behind it one place forward.
LEMMA RemoveRanks ==
  ASSUME nodes \in Seq(Node), Distinct(nodes), NEW h \in DOMAIN nodes,
         nodes' = RemoveAt(nodes, h)
  PROVE  /\ Entries' = Entries \ {nodes[h]}
         /\ \A e \in Entries' : /\ Rank(nodes', e) <= Rank(nodes, e)
                                /\ Rank(nodes, e) <= Rank(nodes', e) + 1
                                /\ nodes[h] \notin Entries => Rank(nodes', e) = Rank(nodes, e)
<1> DEFINE r == nodes[h]
           old(i) == IF i < h THEN i ELSE i + 1
           new(i) == IF i < h THEN i ELSE i - 1
<1>1. h \in 1..Len(nodes) /\ Len(nodes) \in Nat /\ DOMAIN nodes = 1..Len(nodes)
  OBVIOUS
<1>2. /\ nodes' \in Seq(Node) /\ DOMAIN nodes' = 1..(Len(nodes) - 1)
      /\ \A i \in 1..(Len(nodes) - 1) : nodes'[i] = IF i < h THEN nodes[i] ELSE nodes[i + 1]
  BY <1>1, RemoveAtNodes
<1>3. \A i \in DOMAIN nodes' : old(i) \in DOMAIN nodes /\ old(i) # h /\ nodes'[i] = nodes[old(i)]
  BY <1>1, <1>2
<1>4. \A i \in DOMAIN nodes : i # h => new(i) \in DOMAIN nodes' /\ nodes'[new(i)] = nodes[i]
  BY <1>1, <1>2
<1>5. \A i, j \in DOMAIN nodes' : i < j => old(i) < old(j)
  BY <1>1, <1>2
<1>6. \A i, j \in DOMAIN nodes : i < j /\ i # h /\ j # h => new(i) < new(j)
  BY <1>1
<1> HIDE DEF old, new
<1>7. \A i \in DOMAIN nodes : i # h /\ nodes[i].parent_ino = Dir => nodes[i] # r
  BY DEF Distinct
<1>8. Entries' = Entries \ {r}
  BY <1>3, <1>4, <1>7 DEF Entries, EntriesOf
<1>9. ASSUME NEW e \in Entries'
      PROVE  Ahead(nodes', e) = Ahead(nodes, e) \ {r}
  <2>1. e # r
    BY <1>8
  <2>2. ASSUME NEW j \in DOMAIN nodes', NEW k \in DOMAIN nodes', j < k, nodes'[k] = e,
               nodes'[j].parent_ino = Dir
        PROVE  nodes'[j] \in Ahead(nodes, e) \ {r}
    <3>1. /\ old(j) \in DOMAIN nodes /\ old(k) \in DOMAIN nodes /\ old(j) < old(k)
          /\ nodes'[j] = nodes[old(j)] /\ nodes'[k] = nodes[old(k)] /\ old(j) # h
      BY <1>3, <1>5, <2>2
    <3> QED BY <1>7, <2>2, <3>1 DEF Ahead
  <2>3. ASSUME NEW j \in DOMAIN nodes, NEW k \in DOMAIN nodes, j < k, nodes[k] = e,
               nodes[j].parent_ino = Dir, nodes[j] # r
        PROVE  nodes[j] \in Ahead(nodes', e)
    <3>1. j # h /\ k # h
      BY <2>1, <2>3
    <3>2. /\ new(j) \in DOMAIN nodes' /\ new(k) \in DOMAIN nodes' /\ new(j) < new(k)
          /\ nodes'[new(j)] = nodes[j] /\ nodes'[new(k)] = nodes[k]
      BY <1>4, <1>6, <2>3, <3>1
    <3> QED BY <2>3, <3>2 DEF Ahead
  <2>4. Ahead(nodes', e) \subseteq Ahead(nodes, e) \ {r}
    BY <2>2 DEF Ahead
  <2>5. Ahead(nodes, e) \ {r} \subseteq Ahead(nodes', e)
    BY <2>3 DEF Ahead
  <2> QED BY <2>4, <2>5
<1>10. ASSUME NEW e \in Entries'
       PROVE  /\ Rank(nodes', e) <= Rank(nodes, e) /\ Rank(nodes, e) <= Rank(nodes', e) + 1
              /\ r \notin Entries => Rank(nodes', e) = Rank(nodes, e)
  <2>1. /\ IsFiniteSet(Ahead(nodes, e)) /\ Rank(nodes, e) \in Nat
        /\ Ahead(nodes, e) \subseteq Entries
    BY EntriesFinite DEF Entries
  <2>2. Rank(nodes', e) = IF r \in Ahead(nodes, e) THEN Rank(nodes, e) - 1 ELSE Rank(nodes, e)
    BY <1>9, <2>1, FS_RemoveElement DEF Rank
  <2> QED BY <2>1, <2>2
<1> QED BY <1>8, <1>10

\* Another process's call that succeeds puts a node at the head of the list or
\* takes one out.
LEMMA ChangeShapes ==
  ASSUME IInv, mounted = TRUE, NEW parent \in AnyIno, NEW name \in Name,
         ChangeOf(parent, name)
  PROVE  /\ IInv' /\ mounted' = TRUE
         /\ \/ UNCHANGED nodes
            \/ \E n \in Node : nodes' = Cons(n, nodes)
            \/ \E h \in DOMAIN nodes : nodes' = RemoveAt(nodes, h)
<1>1. IInv'
  <2>1. Next
    BY DEF ChangeOf, Next, Operation
  <2> QED BY <2>1, IInvStep
<1>2. nodes' \in Seq(Node)
  BY <1>1 DEF IInv, TypeOK
<1>3. ASSUME NEW n, nodes' = Cons(n, nodes) PROVE n \in Node
  <2>1. nodes' = <<n>> \o nodes /\ nodes \in Seq(Node)
    BY <1>3 DEF Cons, IInv, TypeOK
  <2>2. 1 \in DOMAIN nodes' /\ nodes'[1] = n
    BY <2>1
  <2> QED BY <1>2, <2>2
<1>4. CASE UNCHANGED storage
  BY <1>1, <1>4 DEF storage
<1>5. CASE \E type \in {"DIR", "FILE"} : AddNode(parent, name, type)
  <2>1. PICK type \in {"DIR", "FILE"} : AddNode(parent, name, type)
    BY <1>5
  <2>2. \/ UNCHANGED storage
        \/ /\ nodes' = Cons(NewNode(parent, name, next_ino), nodes)
           /\ UNCHANGED mounted
    BY <2>1, AddNodeCases DEF IInv, Fail
  <2>3. ASSUME nodes' = Cons(NewNode(parent, name, next_ino), nodes), UNCHANGED mounted
        PROVE  mounted' = TRUE /\ \E n \in Node : nodes' = Cons(n, nodes)
    BY <1>3, <2>3
  <2> QED BY <1>1, <1>4, <2>2, <2>3
<1>6. CASE unlink(parent, name) \/ rmdir(parent, name)
  BY <1>1, <1>6 DEF unlink, rmdir, RemoveNode, Fail, storage
<1>7. CASE \E target \in AnyIno : link(target, parent, name)
  BY <1>1, <1>3, <1>7 DEF link, Fail, storage
<1> QED BY <1>5, <1>6, <1>7 DEF ChangeOf, create_file, mkdir

-----------------------------------------------------------------------------
(* Steps of a scan.                                                        *)

LEMMA OneMore ==
  ASSUME NEW T, IsFiniteSet(T), NEW X, \A x, y \in X : x = y, NEW R \in SUBSET (T \cup X)
  PROVE  Cardinality(R) <= Cardinality(T) + 1 /\ Cardinality(T) \in Nat /\ Cardinality(R) \in Nat
<1>1. Cardinality(T) \in Nat
  BY FS_CardinalityType
<1>2. CASE X = {}
  BY <1>1, <1>2, FS_Subset, FS_CardinalityType
<1>3. CASE X # {}
  <2>1. PICK x \in X : X = {x}
    BY <1>3
  <2>2. IsFiniteSet(T \cup {x}) /\ Cardinality(T \cup {x}) <= Cardinality(T) + 1
    <3>1. /\ IsFiniteSet(T \cup {x})
          /\ Cardinality(T \cup {x}) = IF x \in T THEN Cardinality(T) ELSE Cardinality(T) + 1
      BY FS_AddElement
    <3> QED BY <1>1, <3>1
  <2>3. Cardinality(R) <= Cardinality(T \cup {x}) /\ Cardinality(R) \in Nat
        /\ Cardinality(T \cup {x}) \in Nat
    BY <2>1, <2>2, FS_Subset, FS_CardinalityType
  <2> QED BY <1>1, <2>2, <2>3
<1> QED BY <1>2, <1>3

LEMMA Fewer ==
  ASSUME NEW T, IsFiniteSet(T), NEW R \in SUBSET T
  PROVE  Cardinality(R) <= Cardinality(T) /\ Cardinality(T) \in Nat /\ Cardinality(R) \in Nat
BY FS_Subset, FS_CardinalityType

LEMMA ScanFacts ==
  ASSUME ScanInv
  PROVE  /\ nodes \in Seq(Node) /\ Distinct(nodes)
         /\ f_pos \in Nat /\ Place \in Nat /\ (Place = 0 => seen = {})
         /\ repeats \in Nat /\ inserted \in Nat /\ removed \in Nat
         /\ IsFiniteSet(Entries) /\ \A e : Rank(nodes, e) \in Nat
         /\ stable \subseteq Entries /\ IsFiniteSet(PassedOver) /\ IsFiniteSet(ToRepeat)
         /\ \A n : \A e, f \in Entries : Rank(nodes, e) = n /\ Rank(nodes, f) = n => e = f
<1>1. nodes \in Seq(Node) /\ Distinct(nodes)
  BY EntriesDistinct DEF ScanInv, IInv, TypeOK
<1>2. IsFiniteSet(Entries) /\ \A e : Rank(nodes, e) \in Nat
  BY <1>1, EntriesFinite DEF Entries
<1>3. PassedOver \in SUBSET Entries /\ ToRepeat \in SUBSET Entries
  BY DEF ScanInv, PassedOver, ToRepeat
<1>4. IsFiniteSet(PassedOver) /\ IsFiniteSet(ToRepeat)
  BY <1>2, <1>3, FS_Subset
<1>5. f_pos \in Nat /\ Place \in Nat /\ (Place = 0 => seen = {})
  BY DEF ScanInv, Place
<1>6. \A e, f \in Entries : Rank(nodes, e) = Rank(nodes, f) => e = f
  BY <1>1, RankApart DEF Entries
<1> QED BY <1>1, <1>2, <1>4, <1>5, <1>6 DEF ScanInv

\* The counts of a scan while others change the list.
LEMMA ChangeScan ==
  ASSUME ScanInv, scanning,
         UNCHANGED <<f_pos, scanning, seen, repeats>>,
         nodes' \in Seq(Node), Distinct(nodes'), stable' = stable \cap Entries',
         inserted' = inserted + Cardinality(Entries' \ Entries),
         removed' = removed + Cardinality(Entries \ Entries'),
         \/ UNCHANGED nodes
         \/ \E n \in Node : nodes' = Cons(n, nodes)
         \/ \E h \in DOMAIN nodes : nodes' = RemoveAt(nodes, h)
  PROVE  /\ inserted' \in Nat /\ removed' \in Nat
         /\ Cardinality(PassedOver') <= removed'
         /\ repeats + Cardinality(ToRepeat') <= inserted'
<1>1. /\ nodes \in Seq(Node) /\ Distinct(nodes) /\ Place \in Nat /\ (Place = 0 => seen = {})
      /\ repeats \in Nat /\ inserted \in Nat /\ removed \in Nat
      /\ \A e : Rank(nodes, e) \in Nat /\ Rank(nodes', e) \in Nat
      /\ stable \subseteq Entries /\ IsFiniteSet(PassedOver) /\ IsFiniteSet(ToRepeat)
      /\ \A n : \A e, f \in Entries : Rank(nodes, e) = n /\ Rank(nodes, f) = n => e = f
  BY ScanFacts, EntriesFinite
<1>2. Cardinality(PassedOver) <= removed /\ repeats + Cardinality(ToRepeat) <= inserted
  BY DEF ScanInv
<1>3. /\ PassedOver' = {e \in stable' \ seen : Rank(nodes', e) < Place}
      /\ ToRepeat' = {e \in Entries' \cap seen : Rank(nodes', e) >= Place}
  BY DEF PassedOver, ToRepeat, Place
<1>4. Cardinality({}) = 0
  BY FS_EmptySet
<1>5. CASE Entries' = Entries /\ \A e \in Entries : Rank(nodes', e) = Rank(nodes, e)
  <2>1. inserted' = inserted /\ removed' = removed
    <3>1. Entries' \ Entries = {} /\ Entries \ Entries' = {}
      BY <1>5
    <3>2. Cardinality(Entries' \ Entries) = 0 /\ Cardinality(Entries \ Entries') = 0
      BY <3>1, <1>4
    <3>3. /\ inserted' = inserted + Cardinality(Entries' \ Entries)
          /\ removed' = removed + Cardinality(Entries \ Entries')
      OBVIOUS
    <3> QED BY <1>1, <3>2, <3>3
  <2>2. PassedOver' \in SUBSET PassedOver /\ ToRepeat' \in SUBSET ToRepeat
    BY <1>1, <1>3, <1>5 DEF PassedOver, ToRepeat
  <2>3. /\ Cardinality(PassedOver') <= Cardinality(PassedOver)
        /\ Cardinality(ToRepeat') <= Cardinality(ToRepeat)
        /\ Cardinality(PassedOver) \in Nat /\ Cardinality(ToRepeat) \in Nat
        /\ Cardinality(PassedOver') \in Nat /\ Cardinality(ToRepeat') \in Nat
    BY <1>1, <2>2, Fewer
  <2> QED BY <1>1, <1>2, <2>1, <2>3
<1>6. ASSUME NEW n \in Node, nodes' = Cons(n, nodes), n.parent_ino = Dir
      PROVE  /\ inserted' \in Nat /\ removed' \in Nat
             /\ Cardinality(PassedOver') <= removed'
             /\ repeats + Cardinality(ToRepeat') <= inserted'
  <2>1. /\ Entries' = Entries \cup {n} /\ n \notin Entries /\ Rank(nodes', n) = 0
        /\ \A e \in Entries : Rank(nodes', e) = Rank(nodes, e) + 1
    BY <1>1, <1>6, ConsRanks
  <2>2. inserted' = inserted + 1 /\ removed' = removed
    <3>1. Entries' \ Entries = {n} /\ Entries \ Entries' = {}
      BY <2>1
    <3>2. Cardinality(Entries' \ Entries) = 1 /\ Cardinality(Entries \ Entries') = 0
      BY <3>1, <1>4, FS_Singleton
    <3>3. /\ inserted' = inserted + Cardinality(Entries' \ Entries)
          /\ removed' = removed + Cardinality(Entries \ Entries')
      OBVIOUS
    <3> QED BY <1>1, <3>2, <3>3
  <2> DEFINE X == {e \in Entries : Rank(nodes, e) = Place - 1}
  <2>3. PassedOver' \in SUBSET PassedOver
    BY <1>1, <1>3, <2>1 DEF PassedOver
  <2>4. ToRepeat' \in SUBSET (ToRepeat \cup X)
    <3> SUFFICES ASSUME NEW e \in ToRepeat' PROVE e \in ToRepeat \cup X
      OBVIOUS
    <3>1. e \in Entries' /\ e \in seen /\ Rank(nodes', e) >= Place
      BY <1>3
    <3>2. e # n
      BY <1>1, <2>1, <3>1
    <3>3. e \in Entries /\ Rank(nodes, e) + 1 >= Place
      BY <2>1, <3>1, <3>2
    <3>4. Rank(nodes, e) >= Place \/ Rank(nodes, e) = Place - 1
      BY <1>1, <3>3
    <3> QED BY <3>1, <3>3, <3>4 DEF ToRepeat
  <2>5. \A x, y \in X : x = y
    BY <1>1
  <2> HIDE DEF X
  <2>6. /\ Cardinality(PassedOver') <= Cardinality(PassedOver)
        /\ Cardinality(PassedOver) \in Nat /\ Cardinality(PassedOver') \in Nat
    BY <1>1, <2>3, Fewer
  <2>7. /\ Cardinality(ToRepeat') <= Cardinality(ToRepeat) + 1
        /\ Cardinality(ToRepeat) \in Nat /\ Cardinality(ToRepeat') \in Nat
    BY <1>1, <2>4, <2>5, OneMore
  <2> QED BY <1>1, <1>2, <2>2, <2>6, <2>7
<1>7. ASSUME NEW h \in DOMAIN nodes, nodes' = RemoveAt(nodes, h), nodes[h] \in Entries
      PROVE  /\ inserted' \in Nat /\ removed' \in Nat
             /\ Cardinality(PassedOver') <= removed'
             /\ repeats + Cardinality(ToRepeat') <= inserted'
  <2>1. /\ Entries' = Entries \ {nodes[h]}
        /\ \A e \in Entries' : /\ Rank(nodes', e) <= Rank(nodes, e)
                               /\ Rank(nodes, e) <= Rank(nodes', e) + 1
    BY <1>1, <1>7, RemoveRanks
  <2>2. inserted' = inserted /\ removed' = removed + 1
    <3>1. Entries' \ Entries = {} /\ Entries \ Entries' = {nodes[h]}
      BY <1>7, <2>1
    <3>2. Cardinality(Entries' \ Entries) = 0 /\ Cardinality(Entries \ Entries') = 1
      BY <3>1, <1>4, FS_Singleton
    <3>3. /\ inserted' = inserted + Cardinality(Entries' \ Entries)
          /\ removed' = removed + Cardinality(Entries \ Entries')
      OBVIOUS
    <3> QED BY <1>1, <3>2, <3>3
  <2> DEFINE X == {e \in Entries : Rank(nodes, e) = Place}
  <2>3. PassedOver' \in SUBSET (PassedOver \cup X)
    <3> SUFFICES ASSUME NEW e \in PassedOver' PROVE e \in PassedOver \cup X
      OBVIOUS
    <3>1. e \in Entries' /\ e \in stable /\ e \notin seen /\ Rank(nodes', e) < Place
      BY <1>3
    <3>2. e \in Entries /\ Rank(nodes, e) <= Rank(nodes', e) + 1
      BY <2>1, <3>1
    <3>3. Rank(nodes, e) < Place \/ Rank(nodes, e) = Place
      BY <1>1, <3>1, <3>2
    <3> QED BY <3>1, <3>2, <3>3 DEF PassedOver
  <2>4. ToRepeat' \in SUBSET ToRepeat
    <3> SUFFICES ASSUME NEW e \in ToRepeat' PROVE e \in ToRepeat
      OBVIOUS
    <3>1. e \in Entries' /\ e \in seen /\ Rank(nodes', e) >= Place
      BY <1>3
    <3>2. e \in Entries /\ Rank(nodes, e) >= Place
      BY <1>1, <2>1, <3>1
    <3> QED BY <3>1, <3>2 DEF ToRepeat
  <2>5. \A x, y \in X : x = y
    BY <1>1
  <2> HIDE DEF X
  <2>6. /\ Cardinality(ToRepeat') <= Cardinality(ToRepeat)
        /\ Cardinality(ToRepeat) \in Nat /\ Cardinality(ToRepeat') \in Nat
    BY <1>1, <2>4, Fewer
  <2>7. /\ Cardinality(PassedOver') <= Cardinality(PassedOver) + 1
        /\ Cardinality(PassedOver) \in Nat /\ Cardinality(PassedOver') \in Nat
    BY <1>1, <2>3, <2>5, OneMore
  <2> QED BY <1>1, <1>2, <2>2, <2>6, <2>7
<1>8. ASSUME NEW n \in Node, nodes' = Cons(n, nodes), n.parent_ino # Dir
      PROVE  Entries' = Entries /\ \A e \in Entries : Rank(nodes', e) = Rank(nodes, e)
  BY <1>1, <1>8, ConsElsewhere
<1>9. ASSUME NEW h \in DOMAIN nodes, nodes' = RemoveAt(nodes, h), nodes[h] \notin Entries
      PROVE  Entries' = Entries /\ \A e \in Entries : Rank(nodes', e) = Rank(nodes, e)
  <2>1. /\ Entries' = Entries \ {nodes[h]}
        /\ \A e \in Entries' : Rank(nodes', e) = Rank(nodes, e)
    BY <1>1, <1>9, RemoveRanks
  <2> QED BY <1>9, <2>1
<1>10. UNCHANGED nodes => Entries' = Entries /\ \A e \in Entries : Rank(nodes', e) = Rank(nodes, e)
  BY DEF Entries
<1> QED BY <1>5, <1>6, <1>7, <1>8, <1>9, <1>10

LEMMA ChangeKeeps == ScanInv /\ Change => ScanInv'
<1> SUFFICES ASSUME ScanInv, Change PROVE ScanInv'
  OBVIOUS
<1>1. PICK parent \in AnyIno, name \in Name : ChangeOf(parent, name)
  BY DEF Change
<1>2. /\ IInv' /\ mounted' = TRUE
      /\ \/ UNCHANGED nodes
         \/ \E n \in Node : nodes' = Cons(n, nodes)
         \/ \E h \in DOMAIN nodes : nodes' = RemoveAt(nodes, h)
  BY <1>1, ChangeShapes DEF ScanInv
<1>3. UNCHANGED <<f_pos, scanning>>
  BY DEF Change
<1>4. nodes' \in Seq(Node) /\ Distinct(nodes')
  BY <1>2 DEF IInv, TypeOK, UniqueNames, Distinct
<1>5. CASE ~scanning
  <2>1. History({}) \/ scanning
    BY DEF Change
  <2>2. seen' = {} /\ stable' = {} /\ repeats' = 0 /\ inserted' = 0 /\ removed' = 0
    BY <1>5, <2>1 DEF History
  <2>3. Missed' = {} /\ Cardinality({}) = 0
    BY <2>2, FS_EmptySet DEF Missed
  <2> QED BY <1>2, <1>3, <1>5, <2>2, <2>3
        DEF ScanInv, MissesBoundedByRemovals, RepeatsBoundedByInserts
<1>6. CASE scanning
  <2>1. /\ UNCHANGED <<seen, repeats>> /\ stable' = stable \cap Entries'
        /\ inserted' = inserted + Cardinality(Entries' \ Entries)
        /\ removed' = removed + Cardinality(Entries \ Entries')
    BY <1>6 DEF Change, Entries
  <2>2. /\ inserted' \in Nat /\ removed' \in Nat
        /\ Cardinality(PassedOver') <= removed'
        /\ repeats + Cardinality(ToRepeat') <= inserted'
    BY <1>2, <1>3, <1>4, <1>6, <2>1, ChangeScan
  <2>3. repeats \in Nat /\ Cardinality(ToRepeat') \in Nat
    <3>1. IsFiniteSet(Entries') /\ ToRepeat' \in SUBSET Entries'
      BY <1>4, EntriesFinite DEF Entries, ToRepeat
    <3> QED BY <3>1, Fewer DEF ScanInv
  <2>4. repeats <= inserted'
    BY <2>2, <2>3
  <2> QED BY <1>2, <1>3, <1>6, <2>1, <2>2, <2>4
        DEF ScanInv, MissesBoundedByRemovals, RepeatsBoundedByInserts
<1> QED BY <1>5, <1>6

LEMMA OpendirKeeps == ScanInv /\ opendir => ScanInv'
<1> SUFFICES ASSUME ScanInv, opendir PROVE ScanInv'
  OBVIOUS
<1>1. UNCHANGED vars /\ f_pos' = 0 /\ scanning' = TRUE
  BY DEF opendir
<1>2. seen' = {} /\ stable' = Entries /\ repeats' = 0 /\ inserted' = 0 /\ removed' = 0
  BY DEF opendir, History
<1>3. IInv' /\ mounted' = TRUE /\ nodes' = nodes
  BY <1>1, IInvStep DEF ScanInv, vars
<1>4. Entries' = Entries /\ \A e : Rank(nodes', e) \in Nat
  BY <1>3, ScanFacts DEF Entries
<1>5. PassedOver' = {} /\ ToRepeat' = {} /\ Cardinality({}) = 0
  BY <1>1, <1>2, <1>4, FS_EmptySet DEF PassedOver, ToRepeat, Place
<1> QED BY <1>1, <1>2, <1>3, <1>4, <1>5
      DEF ScanInv, MissesBoundedByRemovals, RepeatsBoundedByInserts

\* What iterate_dir returns is the entry at that place, if the listing goes
\* so far.
LEMMA IterateFinds ==
  ASSUME ScanInv, f_pos >= 2
  PROVE  /\ storage_offset = Place
         /\ \A e : e \in iterate_dir(storage_offset) <=> e \in Entries /\ Rank(nodes, e) = Place
<1>1. nodes \in Seq(Node) /\ Distinct(nodes) /\ f_pos \in Nat
  BY ScanFacts
<1>2. storage_offset = Place
  BY <1>1 DEF storage_offset, Place
<1>3. ASSUME NEW i \in DOMAIN nodes
      PROVE  EntryAt(i, Dir, Place) <=> nodes[i].parent_ino = Dir /\ Rank(nodes, nodes[i]) = Place
  BY <1>1, RankCounts DEF EntryAt
<1> QED BY <1>2, <1>3 DEF iterate_dir, Entries, EntriesOf

LEMMA EmitScan ==
  ASSUME ScanInv, scanning, f_pos >= 2, NEW entry \in iterate_dir(storage_offset),
         f_pos' = NextPos, seen' = seen \cup {entry},
         repeats' = IF entry \in seen THEN repeats + 1 ELSE repeats,
         UNCHANGED <<nodes, stable, inserted, removed>>
  PROVE  /\ Cardinality(PassedOver') <= removed
         /\ repeats' \in Nat /\ repeats' + Cardinality(ToRepeat') <= inserted
         /\ repeats' <= inserted
<1>1. /\ nodes \in Seq(Node) /\ Distinct(nodes) /\ Place \in Nat /\ f_pos \in Nat
      /\ repeats \in Nat /\ inserted \in Nat /\ removed \in Nat
      /\ \A e : Rank(nodes, e) \in Nat
      /\ stable \subseteq Entries /\ IsFiniteSet(PassedOver) /\ IsFiniteSet(ToRepeat)
      /\ \A n : \A e, f \in Entries : Rank(nodes, e) = n /\ Rank(nodes, f) = n => e = f
  BY ScanFacts
<1>2. entry \in Entries /\ Rank(nodes, entry) = Place
  BY IterateFinds
<1>3. Place' = Place + 1
  BY <1>1 DEF Place, NextPos
<1>4. /\ PassedOver' = {e \in stable \ seen' : Rank(nodes, e) < Place + 1}
      /\ ToRepeat' = {e \in Entries \cap seen' : Rank(nodes, e) >= Place + 1}
  BY <1>3 DEF PassedOver, ToRepeat, Entries
<1>5. PassedOver' \in SUBSET PassedOver
  <2> SUFFICES ASSUME NEW e \in PassedOver' PROVE e \in PassedOver
    OBVIOUS
  <2>1. e \in stable /\ e \in Entries /\ e \notin seen /\ e # entry /\ Rank(nodes, e) < Place + 1
    BY <1>1, <1>4
  <2>2. Rank(nodes, e) # Place
    BY <1>1, <1>2, <2>1
  <2>3. Rank(nodes, e) < Place
    BY <1>1, <2>1, <2>2
  <2> QED BY <2>1, <2>3 DEF PassedOver
<1>6. ToRepeat' \in SUBSET (ToRepeat \ {entry})
  <2> SUFFICES ASSUME NEW e \in ToRepeat' PROVE e \in ToRepeat \ {entry}
    OBVIOUS
  <2>1. e \in Entries /\ e \in seen' /\ Rank(nodes, e) >= Place + 1
    BY <1>4
  <2>2. e # entry /\ Rank(nodes, e) >= Place
    BY <1>1, <1>2, <2>1
  <2> QED BY <2>1, <2>2 DEF ToRepeat
<1>7. Cardinality(PassedOver) <= removed /\ repeats + Cardinality(ToRepeat) <= inserted
  BY DEF ScanInv
<1>8. /\ Cardinality(PassedOver') <= Cardinality(PassedOver)
      /\ Cardinality(PassedOver) \in Nat /\ Cardinality(PassedOver') \in Nat
  BY <1>1, <1>5, Fewer
<1>9. /\ IsFiniteSet(ToRepeat \ {entry}) /\ Cardinality(ToRepeat) \in Nat
      /\ Cardinality(ToRepeat \ {entry}) =
           IF entry \in ToRepeat THEN Cardinality(ToRepeat) - 1 ELSE Cardinality(ToRepeat)
  BY <1>1, FS_RemoveElement, FS_CardinalityType
<1>10. Cardinality(ToRepeat') <= Cardinality(ToRepeat \ {entry}) /\ Cardinality(ToRepeat') \in Nat
       /\ Cardinality(ToRepeat \ {entry}) \in Nat
  BY <1>6, <1>9, Fewer
<1>11. CASE entry \in seen
  <2>1. entry \in ToRepeat
    BY <1>1, <1>2, <1>11 DEF ToRepeat
  <2>2. repeats' = repeats + 1
    BY <1>11
  <2> QED BY <1>1, <1>7, <1>8, <1>9, <1>10, <2>1, <2>2
<1>12. CASE entry \notin seen
  <2>1. entry \notin ToRepeat /\ repeats' = repeats
    BY <1>12 DEF ToRepeat
  <2> QED BY <1>1, <1>7, <1>8, <1>9, <1>10, <2>1
<1> QED BY <1>11, <1>12

LEMMA EndScan ==
  ASSUME ScanInv, scanning, f_pos >= 2, iterate_dir(storage_offset) = {}
  PROVE  Cardinality(Missed) <= removed
<1>1. /\ nodes \in Seq(Node) /\ Distinct(nodes) /\ Place \in Nat /\ removed \in Nat
      /\ stable \subseteq Entries /\ IsFiniteSet(PassedOver) /\ \A e : Rank(nodes, e) \in Nat
  BY ScanFacts
<1>2. \A e \in Entries : Rank(nodes, e) # Place
  BY IterateFinds
<1>3. Cardinality(Entries) \in Nat
  BY <1>1, EntriesFinite DEF Entries
<1>4. ~(Place < Cardinality(Entries))
  BY <1>1, <1>2, RankReached DEF Entries
<1>5. \A e \in Entries : Rank(nodes, e) < Cardinality(Entries)
  BY <1>1, RankBelow DEF Entries
<1>6. \A e \in Entries : Rank(nodes, e) < Place
  BY <1>1, <1>3, <1>4, <1>5
<1>7. Missed \in SUBSET PassedOver
  BY <1>1, <1>6 DEF Missed, PassedOver
<1>8. /\ Cardinality(Missed) <= Cardinality(PassedOver)
      /\ Cardinality(Missed) \in Nat /\ Cardinality(PassedOver) \in Nat
  BY <1>1, <1>7, Fewer
<1>9. Cardinality(PassedOver) <= removed
  BY DEF ScanInv
<1> QED BY <1>1, <1>8, <1>9

LEMMA IterateKeeps == ScanInv /\ vtfs_iterate => ScanInv'
<1> SUFFICES ASSUME ScanInv, vtfs_iterate PROVE ScanInv'
  OBVIOUS
<1>1. scanning /\ scanning = TRUE /\ UNCHANGED vars /\ UNCHANGED <<stable, inserted, removed>>
  BY DEF vtfs_iterate, ScanInv
<1>2. IInv' /\ mounted' = TRUE /\ nodes' = nodes /\ Entries' = Entries
  BY <1>1, IInvStep DEF ScanInv, vars, Entries
<1>3. /\ f_pos \in Nat /\ stable' \subseteq Entries'
      /\ repeats \in Nat /\ inserted' \in Nat /\ removed' \in Nat
  BY <1>1, <1>2 DEF ScanInv
<1>4. CASE f_pos < 2 /\ f_pos' = NextPos /\ UNCHANGED <<scanning, seen, repeats>>
  <2>1. f_pos' \in Nat /\ f_pos' <= 2 /\ f_pos <= 2
    BY <1>3, <1>4 DEF NextPos
  <2>2. Place' = Place
    BY <2>1 DEF Place
  <2>3. PassedOver' = PassedOver /\ ToRepeat' = ToRepeat
    BY <1>1, <1>2, <1>4, <2>2 DEF PassedOver, ToRepeat
  <2> QED BY <1>1, <1>2, <1>3, <1>4, <2>1, <2>3
        DEF ScanInv, MissesBoundedByRemovals, RepeatsBoundedByInserts
<1>5. ASSUME NEW entry \in iterate_dir(storage_offset), f_pos >= 2, f_pos' = NextPos,
             seen' = seen \cup {entry},
             repeats' = IF entry \in seen THEN repeats + 1 ELSE repeats, UNCHANGED scanning
      PROVE  ScanInv'
  <2>1. /\ Cardinality(PassedOver') <= removed
        /\ repeats' \in Nat /\ repeats' + Cardinality(ToRepeat') <= inserted
        /\ repeats' <= inserted
    BY <1>1, <1>2, <1>5, EmitScan
  <2>2. f_pos' \in Nat /\ ~(f_pos' <= 2)
    BY <1>3, <1>5 DEF NextPos
  <2> QED BY <1>1, <1>2, <1>3, <1>5, <2>1, <2>2
        DEF ScanInv, MissesBoundedByRemovals, RepeatsBoundedByInserts
<1>6. CASE /\ f_pos >= 2 /\ iterate_dir(storage_offset) = {}
           /\ scanning' = FALSE /\ UNCHANGED <<f_pos, seen, repeats>>
  <2>1. Cardinality(Missed) <= removed
    BY <1>1, <1>6, EndScan
  <2>2. Missed' = Missed
    BY <1>1, <1>6 DEF Missed
  <2> QED BY <1>1, <1>2, <1>3, <1>6, <2>1, <2>2
        DEF ScanInv, MissesBoundedByRemovals, RepeatsBoundedByInserts
<1> QED BY <1>4, <1>5, <1>6 DEF vtfs_iterate

-----------------------------------------------------------------------------
(* The theorems.                                                           *)

\* A mounted storage with its root, and no scan.
THEOREM ScanInvInit == ReaddirInit => ScanInv
<1> SUFFICES ASSUME ReaddirInit
             PROVE  ScanInv
  OBVIOUS
<1> DEFINE root == NewNode(0, "", VTFS_ROOT_INO)
<1>1. /\ nodes = <<root>> /\ payloads = [p \in {VTFS_ROOT_INO} |-> NewPayload("DIR")]
      /\ next_ino = VTFS_ROOT_INO + 1 /\ ret = 0 /\ mounted = TRUE
  BY DEF ReaddirInit
<1>2. root \in Node /\ root.payload = VTFS_ROOT_INO /\ root.parent_ino = 0
  BY DEF NewNode, Node, VTFS_ROOT_INO
<1> HIDE DEF root
<1>3. nodes \in Seq(Node) /\ DOMAIN nodes = {1} /\ nodes[1] = root
  BY <1>1, <1>2
<1>4. /\ DOMAIN payloads = {VTFS_ROOT_INO} /\ payloads[VTFS_ROOT_INO] = NewPayload("DIR")
      /\ payloads \in [DOMAIN payloads -> Payload]
  BY <1>1 DEF NewPayload, Payload
<1>5. TypeOK
  <2>1. mounted \in BOOLEAN
    BY <1>1, Zenon
  <2>2. ret \in Int /\ next_ino \in Nat /\ next_ino > VTFS_ROOT_INO
    BY <1>1 DEF VTFS_ROOT_INO
  <2>3. DOMAIN payloads \subseteq AnyIno
    BY <1>4 DEF AnyIno
  <2> QED
    BY <1>3, <1>4, <2>1, <2>2, <2>3 DEF TypeOK
<1>6. UniqueNames /\ NoOrphans
  BY <1>2, <1>3 DEF UniqueNames, NoOrphans
<1>7. RefCountExact
  <2>1. Links(VTFS_ROOT_INO) = {1}
    BY <1>2, <1>3 DEF Links
  <2>2. Cardinality(Links(VTFS_ROOT_INO)) = 1
    BY <2>1, FS_Singleton
  <2> QED
    BY <1>2, <1>3, <1>4, <2>2 DEF RefCountExact, NewPayload
<1>8. SizeWithinCapacity /\ (\A p \in DOMAIN payloads : p < next_ino)
  BY <1>1, <1>4 DEF SizeWithinCapacity, NewPayload, VTFS_ROOT_INO
<1>9. IInv
  BY <1>1, <1>5, <1>6, <1>7, <1>8 DEF IInv
<1>10. /\ f_pos = 0 /\ scanning = FALSE /\ seen = {} /\ stable = {}
       /\ repeats = 0 /\ inserted = 0 /\ removed = 0
  BY DEF ReaddirInit
<1>11. Missed = {} /\ Cardinality({}) = 0
  BY <1>10, FS_EmptySet DEF Missed
<1>12. scanning \in BOOLEAN /\ ~scanning
  BY <1>10, Zenon
<1>13. f_pos \in Nat /\ repeats \in Nat /\ inserted \in Nat /\ removed \in Nat
  BY <1>10
<1>14. Cardinality(Missed) <= removed /\ repeats <= inserted
  BY <1>10, <1>11
<1> QED
  BY <1>1, <1>9, <1>10, <1>12, <1>13, <1>14, Zenon DEF ScanInv, MissesBoundedByRemovals, RepeatsBoundedByInserts

\* Every getdents call, opendir and change by another process keeps the counts.
THEOREM ScanInvStep == ScanInv /\ [ReaddirNext]_dir_vars => ScanInv'
<1> SUFFICES ASSUME ScanInv, [ReaddirNext]_dir_vars
             PROVE  ScanInv'
  OBVIOUS
<1>1. CASE UNCHANGED dir_vars
  <2>1. UNCHANGED vars
    BY <1>1 DEF dir_vars, vars
  <2>2. IInv'
    BY <2>1, IInvStep DEF ScanInv
  <2> QED
    BY <1>1, <2>2 DEF dir_vars, ScanInv, PassedOver, ToRepeat, Place, Entries, Missed,
                      MissesBoundedByRemovals, RepeatsBoundedByInserts
<1> QED
  BY <1>1, OpendirKeeps, IterateKeeps, ChangeKeeps DEF ReaddirNext

\* At every moment of a scan, the entries gone past unseen are paid for by
\* removals, and those repeated or to be repeated by insertions.
THEOREM ScanInvariance == ReaddirSpec => []ScanInv
BY ScanInvInit, ScanInvStep, PTL DEF ReaddirSpec

\* However many calls of vtfs_iterate a listing takes and whatever happens
\* between them, it misses at most one lasting entry for each removal: no
\* insertion hides one.
THEOREM MissesBounded == ReaddirSpec => []MissesBoundedByRemovals
<1>1. ScanInv => MissesBoundedByRemovals
  BY DEF ScanInv
<1> QED
  BY <1>1, ScanInvariance, PTL

\* And vtfs_iterate emits an entry again at most once for each insertion.
THEOREM RepeatsBounded == ReaddirSpec => []RepeatsBoundedByInserts
<1>1. ScanInv => RepeatsBoundedByInserts
  BY DEF ScanInv
<1> QED
  BY <1>1, ScanInvariance, PTL
=============================================================================
