------------------------------ MODULE Vtfs_proofs ------------------------------
(***************************************************************************)
(* What the handlers keep true of the kernel's caches, for every set of    *)
(* names, inodes and open files.  A handler is a sequence of small changes *)
(* of the caches and of the storage; a lemma for each says that the caches *)
(* stay right about the storage.  From that follow two things a process    *)
(* sees: what the handlers do to the storage are changes of FsSpec's tree, *)
(* and what the storage refuses them has a cause.                          *)
(***************************************************************************)
EXTENDS Vtfs, RamImplementsFs_proofs

-----------------------------------------------------------------------------
(* Changes of the caches.                                                  *)

\* A function with one more argument, or another value there.
LEMMA PutValues ==
  ASSUME NEW f, NEW x, NEW v
  PROVE  /\ DOMAIN Put(f, x, v) = DOMAIN f \cup {x}
         /\ Put(f, x, v)[x] = v
         /\ \A y \in DOMAIN f \ {x} : Put(f, x, v)[y] = f[y]
         /\ Put(f, x, v) = [y \in DOMAIN Put(f, x, v) |-> Put(f, x, v)[y]]
BY DEF Put

\* iput: what no dentry and no open file refers to goes.
LEMMA IputKeeps ==
  ASSUME NEW ic, NEW dc, NEW fl, NEW ns, NEW ps, NEW ni,
         CachesSound(ic, dc, fl, ns, ps, ni),
         NEW used, used = {dc[k] : k \in DOMAIN dc} \cup {fl[fd].inode : fd \in DOMAIN fl}
  PROVE  CachesSound(Restrict(ic, DOMAIN ic \cap used), dc, fl, ns, ps, ni)
<1> DEFINE i2 == Restrict(ic, DOMAIN ic \cap used)
<1>1. DOMAIN i2 = DOMAIN ic \cap used /\ \A id \in DOMAIN i2 : i2[id] = ic[id]
  BY DEF Restrict
<1>2. i2 = [id \in DOMAIN i2 |-> i2[id]]
  BY DEF Restrict
<1> HIDE DEF i2
<1>3. /\ Tables(ic, dc, fl) /\ PositiveTrue(ic, dc, ns, ps) /\ NegativeTrue(dc, ns)
      /\ LinksCovered(ic, dc) /\ SizesTrue(ic, ps, ni)
  BY DEF CachesSound
<1>4. Tables(i2, dc, fl)
  BY <1>1, <1>2, <1>3 DEF Tables
<1>5. \A k \in DOMAIN dc : dc[k] # NEG => dc[k] \in DOMAIN i2
  BY <1>1, <1>3 DEF Tables
<1>6. PositiveTrue(i2, dc, ns, ps)
  BY <1>1, <1>3, <1>5 DEF PositiveTrue
<1>7. LinksCovered(i2, dc) /\ SizesTrue(i2, ps, ni)
  BY <1>1, <1>3 DEF LinksCovered, SizesTrue
<1> QED
  BY <1>3, <1>4, <1>6, <1>7 DEF CachesSound, i2

\* The open files change: each is still open on an inode in memory.
LEMMA FilesKeep ==
  ASSUME NEW ic, NEW dc, NEW fl, NEW ns, NEW ps, NEW ni,
         CachesSound(ic, dc, fl, ns, ps, ni),
         NEW f2, f2 \in [DOMAIN f2 -> OpenFile],
         \A fd \in DOMAIN f2 : f2[fd].inode \in DOMAIN ic
  PROVE  CachesSound(ic, dc, f2, ns, ps, ni)
BY DEF CachesSound, Tables

\* Fewer dentries are hashed.
LEMMA ForgetKeeps ==
  ASSUME NEW ic, NEW dc, NEW fl, NEW ns, NEW ps, NEW ni,
         CachesSound(ic, dc, fl, ns, ps, ni), NEW D, D \subseteq DOMAIN dc
  PROVE  CachesSound(ic, Restrict(dc, D), fl, ns, ps, ni)
<1> DEFINE d2 == Restrict(dc, D)
<1>1. DOMAIN d2 = D /\ d2 = [k \in D |-> d2[k]] /\ \A k \in D : d2[k] = dc[k]
  BY DEF Restrict
<1> HIDE DEF d2
<1>2. /\ Tables(ic, dc, fl) /\ PositiveTrue(ic, dc, ns, ps) /\ NegativeTrue(dc, ns)
      /\ LinksCovered(ic, dc) /\ SizesTrue(ic, ps, ni)
  BY DEF CachesSound
<1>3. IsFiniteSet(DOMAIN dc) /\ IsFiniteSet(D)
  BY <1>2, FS_Subset DEF Tables
<1>4. Tables(ic, d2, fl)
  <2>1. d2 \in [DOMAIN d2 -> DOMAIN ic \cup {NEG}] /\ DOMAIN d2 \subseteq Key
    BY <1>1, <1>2 DEF Tables
  <2> QED
    BY <1>1, <1>2, <1>3, <2>1 DEF Tables
<1>5. PositiveTrue(ic, d2, ns, ps) /\ NegativeTrue(d2, ns)
  BY <1>1, <1>2 DEF PositiveTrue, NegativeTrue
<1>6. LinksCovered(ic, d2)
  <2> SUFFICES ASSUME NEW id \in DOMAIN ic, ic[id].type = "FILE"
               PROVE  ic[id].i_nlink >= Cardinality(DentriesOf(d2, id))
    BY DEF LinksCovered
  <2>1. DentriesOf(d2, id) \subseteq DentriesOf(dc, id) /\ DentriesOf(dc, id) \subseteq DOMAIN dc
    BY <1>1 DEF DentriesOf
  <2>2. IsFiniteSet(DentriesOf(dc, id))
    BY <1>3, <2>1, FS_Subset
  <2>3. /\ Cardinality(DentriesOf(d2, id)) <= Cardinality(DentriesOf(dc, id))
        /\ Cardinality(DentriesOf(d2, id)) \in Nat /\ Cardinality(DentriesOf(dc, id)) \in Nat
    BY <2>1, <2>2, FS_Subset, FS_CardinalityType
  <2>4. ic[id].i_nlink >= Cardinality(DentriesOf(dc, id)) /\ ic[id].i_nlink \in Int
    BY <1>2 DEF LinksCovered, Tables, CachedInode
  <2> QED
    BY <2>3, <2>4
<1> QED
  BY <1>2, <1>4, <1>5, <1>6 DEF CachesSound, d2

\* A dentry that is not hashed comes to say that the name is not there.
LEMMA NegativeKeeps ==
  ASSUME NEW ic, NEW dc, NEW fl, NEW ns, NEW ps, NEW ni,
         CachesSound(ic, dc, fl, ns, ps, ni),
         NEW k \in Key, k \notin DOMAIN dc,
         \A i \in DOMAIN ns : ~Bears(ns[i], k)
  PROVE  CachesSound(ic, Put(dc, k, NEG), fl, ns, ps, ni)
<1> DEFINE d2 == Put(dc, k, NEG)
<1>1. /\ DOMAIN d2 = DOMAIN dc \cup {k} /\ d2[k] = NEG
      /\ \A y \in DOMAIN dc : d2[y] = dc[y]
      /\ d2 = [y \in DOMAIN d2 |-> d2[y]]
  BY DEF Put
<1> HIDE DEF d2
<1>2. /\ Tables(ic, dc, fl) /\ PositiveTrue(ic, dc, ns, ps) /\ NegativeTrue(dc, ns)
      /\ LinksCovered(ic, dc) /\ SizesTrue(ic, ps, ni)
  BY DEF CachesSound
<1>3. IsFiniteSet(DOMAIN d2)
  BY <1>1, <1>2, FS_AddElement DEF Tables
<1>4. Tables(ic, d2, fl)
  <2>1. d2 \in [DOMAIN d2 -> DOMAIN ic \cup {NEG}] /\ DOMAIN d2 \subseteq Key
    BY <1>1, <1>2 DEF Tables
  <2> QED
    BY <1>2, <1>3, <2>1 DEF Tables
<1>5. PositiveTrue(ic, d2, ns, ps) /\ NegativeTrue(d2, ns)
  BY <1>1, <1>2 DEF PositiveTrue, NegativeTrue
<1>6. LinksCovered(ic, d2)
  <2>1. \A id \in DOMAIN ic : id # NEG
    BY <1>2, VtfsAssumption DEF Tables, NEG
  <2>2. \A id \in DOMAIN ic : DentriesOf(d2, id) = DentriesOf(dc, id)
    BY <1>1, <2>1 DEF DentriesOf
  <2> QED
    BY <1>2, <2>2 DEF LinksCovered
<1> QED
  BY <1>2, <1>4, <1>5, <1>6 DEF CachesSound, d2

\* The table of inodes with one of them changed.
LEMMA InodeSet ==
  ASSUME NEW ic, ic \in [DOMAIN ic -> CachedInode], NEW id \in DOMAIN ic,
         NEW r \in CachedInode
  PROVE  /\ [ic EXCEPT ![id] = r] \in [DOMAIN ic -> CachedInode]
         /\ DOMAIN [ic EXCEPT ![id] = r] = DOMAIN ic
         /\ [ic EXCEPT ![id] = r][id] = r
         /\ \A other \in DOMAIN ic \ {id} : [ic EXCEPT ![id] = r][other] = ic[other]
OBVIOUS

\* drop_nlink on the inode of a dentry that leaves the cache.
LEMMA DropLinkKeeps ==
  ASSUME NEW ic, NEW dc, NEW fl, NEW ns, NEW ps, NEW ni,
         CachesSound(ic, dc, fl, ns, ps, ni),
         NEW k \in DOMAIN dc, dc[k] # NEG
  PROVE  CachesSound([ic EXCEPT ![dc[k]].i_nlink = @ - 1],
                     Restrict(dc, DOMAIN dc \ {k}), fl, ns, ps, ni)
<1> DEFINE id == dc[k]
           r  == [ic[id] EXCEPT !.i_nlink = ic[id].i_nlink - 1]
           i2 == [ic EXCEPT ![id] = r]
           d2 == Restrict(dc, DOMAIN dc \ {k})
<1>1. Tables(ic, dc, fl) /\ LinksCovered(ic, dc)
  BY DEF CachesSound
<1>2. /\ id \in DOMAIN ic /\ ic \in [DOMAIN ic -> CachedInode]
      /\ ic[id] \in CachedInode /\ ic[id].i_nlink \in Int /\ ic[id].i_nlink - 1 \in Int
  BY <1>1 DEF Tables, CachedInode
<1>4. /\ r \in CachedInode /\ r.i_ino = ic[id].i_ino /\ r.type = ic[id].type
      /\ r.i_size = ic[id].i_size /\ r.i_nlink = ic[id].i_nlink - 1
      /\ [ic EXCEPT ![id].i_nlink = ic[id].i_nlink - 1] = i2
  BY <1>2 DEF CachedInode
<1>5. [ic EXCEPT ![dc[k]].i_nlink = @ - 1] = i2
  BY <1>4
<1>6. CachesSound(ic, d2, fl, ns, ps, ni)
  BY ForgetKeeps
<1>7. DOMAIN d2 = DOMAIN dc \ {k} /\ \A y \in DOMAIN d2 : d2[y] = dc[y]
  BY DEF Restrict
<1> HIDE DEF r, d2
<1>8. /\ i2 \in [DOMAIN ic -> CachedInode] /\ DOMAIN i2 = DOMAIN ic /\ i2[id] = r
      /\ \A other \in DOMAIN ic \ {id} : i2[other] = ic[other]
  BY <1>2, <1>4, InodeSet
<1> HIDE DEF i2, id
<1>9. /\ Tables(ic, d2, fl) /\ PositiveTrue(ic, d2, ns, ps) /\ NegativeTrue(d2, ns)
      /\ LinksCovered(ic, d2) /\ SizesTrue(ic, ps, ni)
  BY <1>6 DEF CachesSound
<1>10. Tables(i2, d2, fl)
  BY <1>8, <1>9 DEF Tables
<1>11. \A other \in DOMAIN ic : /\ i2[other].i_ino = ic[other].i_ino
                                /\ i2[other].type = ic[other].type
                                /\ i2[other].i_size = ic[other].i_size
  BY <1>4, <1>8
<1>12. PositiveTrue(i2, d2, ns, ps)
  BY <1>9, <1>11 DEF PositiveTrue, Tables
<1>13. SizesTrue(i2, ps, ni)
  BY <1>8, <1>9, <1>11 DEF SizesTrue
<1>14. LinksCovered(i2, d2)
  <2>1. ASSUME ic[id].type = "FILE"
        PROVE  r.i_nlink >= Cardinality(DentriesOf(d2, id))
    <3>1. DentriesOf(d2, id) = DentriesOf(dc, id) \ {k} /\ k \in DentriesOf(dc, id)
      BY <1>7 DEF DentriesOf, id
    <3>2. IsFiniteSet(DentriesOf(dc, id))
      BY <1>1, FS_Subset DEF Tables, DentriesOf
    <3>3. /\ Cardinality(DentriesOf(d2, id)) = Cardinality(DentriesOf(dc, id)) - 1
          /\ Cardinality(DentriesOf(dc, id)) \in Nat
      BY <3>1, <3>2, FS_RemoveElement, FS_CardinalityType
    <3>4. ic[id].i_nlink >= Cardinality(DentriesOf(dc, id))
      BY <1>1, <1>2, <2>1 DEF LinksCovered
    <3> QED
      BY <1>2, <1>4, <3>3, <3>4
  <2> QED
    BY <1>4, <1>8, <1>9, <2>1 DEF LinksCovered
<1> QED
  BY <1>5, <1>9, <1>10, <1>12, <1>13, <1>14 DEF CachesSound, d2

\* The size of an inode is set, within its file's if sizes are to be right.
LEMMA SizeKeeps ==
  ASSUME NEW ic, NEW dc, NEW fl, NEW ns, NEW ps, NEW ni,
         CachesSound(ic, dc, fl, ns, ps, ni),
         NEW id \in DOMAIN ic, NEW size \in 0..LOFF_MAX,
         TruncSizes \subseteq {0} /\ ic[id].type = "FILE" /\ ic[id].i_ino \in DOMAIN ps =>
           size <= ps[ic[id].i_ino].size
  PROVE  CachesSound([ic EXCEPT ![id].i_size = size], dc, fl, ns, ps, ni)
<1> DEFINE r  == [ic[id] EXCEPT !.i_size = size]
           i2 == [ic EXCEPT ![id] = r]
<1>1. /\ Tables(ic, dc, fl) /\ PositiveTrue(ic, dc, ns, ps) /\ NegativeTrue(dc, ns)
      /\ LinksCovered(ic, dc) /\ SizesTrue(ic, ps, ni)
  BY DEF CachesSound
<1>2. ic \in [DOMAIN ic -> CachedInode] /\ ic[id] \in CachedInode
  BY <1>1 DEF Tables
<1>3. /\ r \in CachedInode /\ r.i_ino = ic[id].i_ino /\ r.type = ic[id].type
      /\ r.i_size = size /\ r.i_nlink = ic[id].i_nlink
      /\ [ic EXCEPT ![id].i_size = size] = i2
  BY <1>2 DEF CachedInode
<1> HIDE DEF r
<1>4. /\ i2 \in [DOMAIN ic -> CachedInode] /\ DOMAIN i2 = DOMAIN ic /\ i2[id] = r
      /\ \A other \in DOMAIN ic \ {id} : i2[other] = ic[other]
  BY <1>2, <1>3, InodeSet
<1> HIDE DEF i2
<1>5. Tables(i2, dc, fl)
  BY <1>1, <1>4 DEF Tables
<1>6. PositiveTrue(i2, dc, ns, ps)
  BY <1>1, <1>3, <1>4 DEF PositiveTrue, Tables
<1>7. LinksCovered(i2, dc)
  BY <1>1, <1>3, <1>4 DEF LinksCovered
<1>8. SizesTrue(i2, ps, ni)
  BY <1>1, <1>3, <1>4 DEF SizesTrue
<1> QED
  BY <1>1, <1>3, <1>5, <1>6, <1>7, <1>8 DEF CachesSound

\* d_add: a new inode under a name that is not hashed.
LEMMA HashKeeps ==
  ASSUME NEW ic, NEW dc, NEW fl, NEW ns, NEW ps, NEW ni,
         CachesSound(ic, dc, fl, ns, ps, ni),
         NEW k \in Key, k \notin DOMAIN dc,
         NEW id \in InodeId, id \notin DOMAIN ic, NEW inode \in CachedInode,
         LeadsTo(ns, k, inode.i_ino), ps[inode.i_ino].type = inode.type,
         inode.i_ino < ni,
         inode.type = "FILE" => inode.i_nlink >= 1 /\ inode.i_size <= ps[inode.i_ino].size
  PROVE  CachesSound(Put(ic, id, inode), Put(dc, k, id), fl, ns, ps, ni)
<1> DEFINE i2 == Put(ic, id, inode)
           d2 == Put(dc, k, id)
<1>1. /\ DOMAIN i2 = DOMAIN ic \cup {id} /\ i2[id] = inode
      /\ \A other \in DOMAIN ic : i2[other] = ic[other]
      /\ i2 = [other \in DOMAIN i2 |-> i2[other]]
  BY DEF Put
<1>2. /\ DOMAIN d2 = DOMAIN dc \cup {k} /\ d2[k] = id
      /\ \A y \in DOMAIN dc : d2[y] = dc[y]
      /\ d2 = [y \in DOMAIN d2 |-> d2[y]]
  BY DEF Put
<1> HIDE DEF i2, d2
<1>3. /\ Tables(ic, dc, fl) /\ PositiveTrue(ic, dc, ns, ps) /\ NegativeTrue(dc, ns)
      /\ LinksCovered(ic, dc) /\ SizesTrue(ic, ps, ni)
  BY DEF CachesSound
<1>4. id # NEG /\ \A y \in DOMAIN dc : dc[y] # id
  BY <1>3, VtfsAssumption DEF Tables, NEG
<1>5. Tables(i2, d2, fl)
  <2>1. DOMAIN i2 \subseteq InodeId /\ i2 \in [DOMAIN i2 -> CachedInode]
    BY <1>1, <1>3 DEF Tables
  <2>2. DOMAIN d2 \subseteq Key /\ d2 \in [DOMAIN d2 -> DOMAIN i2 \cup {NEG}]
    BY <1>1, <1>2, <1>3 DEF Tables
  <2>3. IsFiniteSet(DOMAIN d2)
    BY <1>2, <1>3, FS_AddElement DEF Tables
  <2> QED
    BY <1>1, <1>3, <2>1, <2>2, <2>3 DEF Tables
<1>6. PositiveTrue(i2, d2, ns, ps)
  <2> SUFFICES ASSUME NEW y \in DOMAIN d2, d2[y] # NEG
               PROVE  /\ LeadsTo(ns, y, i2[d2[y]].i_ino)
                      /\ ps[i2[d2[y]].i_ino].type = i2[d2[y]].type
    BY DEF PositiveTrue
  <2>1. CASE y = k
    BY <1>1, <1>2, <2>1
  <2>2. CASE y \in DOMAIN dc
    BY <1>1, <1>2, <1>3, <2>2 DEF PositiveTrue, Tables
  <2> QED
    BY <1>2, <2>1, <2>2
<1>7. NegativeTrue(d2, ns)
  BY <1>2, <1>3, <1>4 DEF NegativeTrue
<1>8. LinksCovered(i2, d2)
  <2>1. DentriesOf(d2, id) = {k}
    BY <1>2, <1>4 DEF DentriesOf
  <2>2. Cardinality(DentriesOf(d2, id)) = 1
    BY <2>1, FS_Singleton
  <2>3. \A other \in DOMAIN ic : DentriesOf(d2, other) = DentriesOf(dc, other)
    BY <1>2 DEF DentriesOf
  <2> QED
    BY <1>1, <1>3, <2>2, <2>3 DEF LinksCovered
<1>9. SizesTrue(i2, ps, ni)
  BY <1>1, <1>3 DEF SizesTrue
<1> QED
  BY <1>5, <1>6, <1>7, <1>8, <1>9 DEF CachesSound, i2, d2

\* set_nlink after link, with the dentries that then show the inode.
LEMMA SetLinksKeeps ==
  ASSUME NEW ic, NEW dc, NEW fl, NEW ns, NEW ps, NEW ni,
         CachesSound(ic, dc, fl, ns, ps, ni),
         NEW id \in DOMAIN ic, NEW n \in Int, n >= Cardinality(DentriesOf(dc, id))
  PROVE  CachesSound([ic EXCEPT ![id].i_nlink = n], dc, fl, ns, ps, ni)
<1> DEFINE r  == [ic[id] EXCEPT !.i_nlink = n]
           i2 == [ic EXCEPT ![id] = r]
<1>1. /\ Tables(ic, dc, fl) /\ PositiveTrue(ic, dc, ns, ps) /\ NegativeTrue(dc, ns)
      /\ LinksCovered(ic, dc) /\ SizesTrue(ic, ps, ni)
  BY DEF CachesSound
<1>2. ic \in [DOMAIN ic -> CachedInode] /\ ic[id] \in CachedInode
  BY <1>1 DEF Tables
<1>3. /\ r \in CachedInode /\ r.i_ino = ic[id].i_ino /\ r.type = ic[id].type
      /\ r.i_size = ic[id].i_size /\ r.i_nlink = n
      /\ [ic EXCEPT ![id].i_nlink = n] = i2
  BY <1>2 DEF CachedInode
<1> HIDE DEF r
<1>4. /\ i2 \in [DOMAIN ic -> CachedInode] /\ DOMAIN i2 = DOMAIN ic /\ i2[id] = r
      /\ \A other \in DOMAIN ic \ {id} : i2[other] = ic[other]
  BY <1>2, <1>3, InodeSet
<1> HIDE DEF i2
<1>5. Tables(i2, dc, fl)
  BY <1>1, <1>4 DEF Tables
<1>6. PositiveTrue(i2, dc, ns, ps)
  BY <1>1, <1>3, <1>4 DEF PositiveTrue, Tables
<1>7. LinksCovered(i2, dc)
  BY <1>1, <1>3, <1>4 DEF LinksCovered
<1>8. SizesTrue(i2, ps, ni)
  BY <1>1, <1>3, <1>4 DEF SizesTrue
<1> QED
  BY <1>1, <1>3, <1>5, <1>6, <1>7, <1>8 DEF CachesSound

\* vtfs_link: the inode appears under one more name, and its links are counted.
LEMMA AliasKeeps ==
  ASSUME NEW ic, NEW dc, NEW fl, NEW ns, NEW ps, NEW ni,
         CachesSound(ic, dc, fl, ns, ps, ni),
         NEW k \in Key, k \notin DOMAIN dc, NEW id \in DOMAIN ic, NEW n \in Int,
         LeadsTo(ns, k, ic[id].i_ino), ps[ic[id].i_ino].type = ic[id].type,
         n >= Cardinality(DentriesOf(Put(dc, k, id), id))
  PROVE  CachesSound([ic EXCEPT ![id].i_nlink = n], Put(dc, k, id), fl, ns, ps, ni)
<1> DEFINE r  == [ic[id] EXCEPT !.i_nlink = n]
           i2 == [ic EXCEPT ![id] = r]
           d2 == Put(dc, k, id)
<1>1. /\ Tables(ic, dc, fl) /\ PositiveTrue(ic, dc, ns, ps) /\ NegativeTrue(dc, ns)
      /\ LinksCovered(ic, dc) /\ SizesTrue(ic, ps, ni)
  BY DEF CachesSound
<1>2. ic \in [DOMAIN ic -> CachedInode] /\ ic[id] \in CachedInode
  BY <1>1 DEF Tables
<1>3. /\ r \in CachedInode /\ r.i_ino = ic[id].i_ino /\ r.type = ic[id].type
      /\ r.i_size = ic[id].i_size /\ r.i_nlink = n
      /\ [ic EXCEPT ![id].i_nlink = n] = i2
  BY <1>2 DEF CachedInode
<1>4. /\ DOMAIN d2 = DOMAIN dc \cup {k} /\ d2[k] = id
      /\ \A y \in DOMAIN dc : d2[y] = dc[y]
      /\ d2 = [y \in DOMAIN d2 |-> d2[y]]
  BY DEF Put
<1> HIDE DEF r
<1>5. /\ i2 \in [DOMAIN ic -> CachedInode] /\ DOMAIN i2 = DOMAIN ic /\ i2[id] = r
      /\ \A other \in DOMAIN ic \ {id} : i2[other] = ic[other]
  BY <1>2, <1>3, InodeSet
<1>6. n >= Cardinality(DentriesOf(d2, id))
  OBVIOUS
<1> HIDE DEF i2, d2
<1>7. id # NEG
  BY <1>1, VtfsAssumption DEF Tables, NEG
<1>8. Tables(i2, d2, fl)
  <2>1. DOMAIN d2 \subseteq Key /\ d2 \in [DOMAIN d2 -> DOMAIN i2 \cup {NEG}]
    BY <1>1, <1>4, <1>5 DEF Tables
  <2>2. IsFiniteSet(DOMAIN d2)
    BY <1>1, <1>4, FS_AddElement DEF Tables
  <2> QED
    BY <1>1, <1>5, <2>1, <2>2 DEF Tables
<1>9. \A other \in DOMAIN ic : /\ i2[other].i_ino = ic[other].i_ino
                               /\ i2[other].type = ic[other].type
                               /\ i2[other].i_size = ic[other].i_size
  BY <1>3, <1>5
<1>10. PositiveTrue(i2, d2, ns, ps)
  <2> SUFFICES ASSUME NEW y \in DOMAIN d2, d2[y] # NEG
               PROVE  /\ LeadsTo(ns, y, i2[d2[y]].i_ino)
                      /\ ps[i2[d2[y]].i_ino].type = i2[d2[y]].type
    BY DEF PositiveTrue
  <2>1. CASE y = k
    BY <1>4, <1>9, <2>1
  <2>2. CASE y \in DOMAIN dc
    BY <1>1, <1>4, <1>9, <2>2 DEF PositiveTrue, Tables
  <2> QED
    BY <1>4, <2>1, <2>2
<1>11. NegativeTrue(d2, ns)
  BY <1>1, <1>4, <1>7 DEF NegativeTrue
<1>12. LinksCovered(i2, d2)
  <2>1. \A other \in DOMAIN ic \ {id} : DentriesOf(d2, other) = DentriesOf(dc, other)
    BY <1>4 DEF DentriesOf
  <2> QED
    BY <1>1, <1>3, <1>5, <1>6, <2>1 DEF LinksCovered
<1>13. SizesTrue(i2, ps, ni)
  BY <1>1, <1>5, <1>9 DEF SizesTrue
<1> QED
  BY <1>3, <1>8, <1>10, <1>11, <1>12, <1>13 DEF CachesSound, d2

\* No more dentries than nodes lead to a payload, since a node bears one name.
LEMMA DentriesFewer ==
  ASSUME NEW ns, ns \in Seq(Node), NEW p, NEW D, D \subseteq Key,
         \A k \in D : LeadsTo(ns, k, p)
  PROVE  IsFiniteSet(D) /\ Cardinality(D) <= Cardinality(LinksOf(ns, p))
<1> DEFINE place(k) == CHOOSE i \in DOMAIN ns : Bears(ns[i], k) /\ ns[i].payload = p
           f == [k \in D |-> place(k)]
<1>1. \A k \in D : place(k) \in DOMAIN ns /\ Bears(ns[place(k)], k) /\ ns[place(k)].payload = p
  BY DEF LeadsTo
<1>2. \A k \in D : k = <<k[1], k[2]>>
  BY DEF Key
<1> HIDE DEF place
<1>3. \A j, k \in D : f[j] = f[k] => j = k
  BY <1>1, <1>2 DEF Bears
<1>4. f \in [D -> LinksOf(ns, p)]
  BY <1>1 DEF LinksOf
<1>5. f \in Injection(D, LinksOf(ns, p))
  BY <1>3, <1>4 DEF Injection, IsInjective
<1>6. IsFiniteSet(LinksOf(ns, p))
  BY LinksFinite
<1> QED
  BY <1>5, <1>6, FS_Injection

-----------------------------------------------------------------------------
(* Changes of the storage under caches that stay.                          *)

NoDangling(ns, ps) == \A i \in DOMAIN ns : ns[i].payload \in DOMAIN ps

\* Payloads keep their types and do not shrink; new ones have new numbers.
Succeeds(ps, ni, p2, ni2) ==
  /\ ps \in [DOMAIN ps -> Payload] /\ p2 \in [DOMAIN p2 -> Payload]
  /\ ni \in Nat /\ ni2 \in Nat /\ ni <= ni2
  /\ \A p \in DOMAIN p2 :
       IF p \in DOMAIN ps THEN p2[p].type = ps[p].type /\ ps[p].size <= p2[p].size
                          ELSE p >= ni

\* The caches stay right when the names they speak of stay as they were.
LEMMA StorageMoves ==
  ASSUME NEW ic, NEW dc, NEW fl, NEW ns, NEW ps, NEW ni, NEW n2, NEW p2, NEW ni2,
         CachesSound(ic, dc, fl, ns, ps, ni), Succeeds(ps, ni, p2, ni2),
         NoDangling(ns, ps), NoDangling(n2, p2),
         \A k \in DOMAIN dc : \A p : LeadsTo(ns, k, p) => LeadsTo(n2, k, p),
         InodeAllocFails \/
           \A k \in DOMAIN dc :
             (\A i \in DOMAIN ns : ~Bears(ns[i], k)) => \A i \in DOMAIN n2 : ~Bears(n2[i], k)
  PROVE  CachesSound(ic, dc, fl, n2, p2, ni2)
<1>1. /\ Tables(ic, dc, fl) /\ PositiveTrue(ic, dc, ns, ps) /\ NegativeTrue(dc, ns)
      /\ LinksCovered(ic, dc) /\ SizesTrue(ic, ps, ni)
  BY DEF CachesSound
<1>2. PositiveTrue(ic, dc, n2, p2)
  <2> SUFFICES ASSUME NEW k \in DOMAIN dc, dc[k] # NEG
               PROVE  /\ LeadsTo(n2, k, ic[dc[k]].i_ino)
                      /\ p2[ic[dc[k]].i_ino].type = ic[dc[k]].type
    BY DEF PositiveTrue
  <2> DEFINE p == ic[dc[k]].i_ino
  <2>1. LeadsTo(ns, k, p) /\ LeadsTo(n2, k, p) /\ ps[p].type = ic[dc[k]].type
    BY <1>1 DEF PositiveTrue
  <2>2. p \in DOMAIN ps /\ p \in DOMAIN p2
    BY <2>1 DEF LeadsTo, NoDangling
  <2> QED
    BY <2>1, <2>2 DEF Succeeds
<1>3. NegativeTrue(dc, n2)
  BY <1>1 DEF NegativeTrue
<1>4. SizesTrue(ic, p2, ni2)
  <2> SUFFICES ASSUME NEW id \in DOMAIN ic
               PROVE  /\ ic[id].i_ino < ni2
                      /\ /\ TruncSizes \subseteq {0} /\ ic[id].type = "FILE"
                         /\ ic[id].i_ino \in DOMAIN p2
                         => ic[id].i_size <= p2[ic[id].i_ino].size
    BY DEF SizesTrue
  <2>1. ic[id] \in CachedInode /\ ic[id].i_ino \in Nat /\ ic[id].i_size \in Int
    BY <1>1, InoAssumption DEF Tables, CachedInode, AnyIno, VTFS_ROOT_INO
  <2>2. ic[id].i_ino < ni
    BY <1>1 DEF SizesTrue
  <2>3. ic[id].i_ino < ni2
    BY <2>1, <2>2 DEF Succeeds
  <2>4. ASSUME TruncSizes \subseteq {0}, ic[id].type = "FILE", ic[id].i_ino \in DOMAIN p2
        PROVE  ic[id].i_size <= p2[ic[id].i_ino].size
    <3> DEFINE p == ic[id].i_ino
    <3>1. p \in DOMAIN ps /\ ps[p].size <= p2[p].size
      BY <2>1, <2>2, <2>4 DEF Succeeds
    <3>2. ic[id].i_size <= ps[p].size
      BY <1>1, <2>4, <3>1 DEF SizesTrue
    <3>3. ps[p].size \in Nat /\ p2[p].size \in Nat
      BY <2>4, <3>1 DEF Succeeds, Payload
    <3> QED
      BY <2>1, <3>1, <3>2, <3>3
  <2> QED
    BY <2>3, <2>4
<1> QED
  BY <1>1, <1>2, <1>3, <1>4 DEF CachesSound

\* After Cons the names are the old ones and the new node's.
LEMMA LeadsAfterCons ==
  ASSUME NEW e \in Node, nodes \in Seq(Node), nodes' = Cons(e, nodes)
  PROVE  /\ \A k, p : LeadsTo(nodes, k, p) => LeadsTo(nodes', k, p)
         /\ \A k : Bears(e, k) => LeadsTo(nodes', k, e.payload)
         /\ \A k : (\A i \in DOMAIN nodes : ~Bears(nodes[i], k)) /\ ~Bears(e, k)
                     => \A i \in DOMAIN nodes' : ~Bears(nodes'[i], k)
<1>1. /\ 1 \in DOMAIN nodes' /\ nodes'[1] = e
      /\ \A i \in DOMAIN nodes : i + 1 \in DOMAIN nodes' /\ nodes'[i + 1] = nodes[i]
      /\ \A i \in DOMAIN nodes' : i = 1 \/ (i - 1 \in DOMAIN nodes /\ nodes'[i] = nodes[i - 1])
  BY ConsList
<1> QED
  BY <1>1 DEF LeadsTo

\* After RemoveAt they are those of the other nodes.
LEMMA LeadsAfterRemove ==
  ASSUME NEW j \in DOMAIN nodes, nodes \in Seq(Node), UniqueNames,
         nodes' = RemoveAt(nodes, j), NEW k0 \in Key, Bears(nodes[j], k0)
  PROVE  /\ \A k \in Key : \A p : k # k0 /\ LeadsTo(nodes, k, p) => LeadsTo(nodes', k, p)
         /\ \A k : (\A i \in DOMAIN nodes : ~Bears(nodes[i], k))
                     => \A i \in DOMAIN nodes' : ~Bears(nodes'[i], k)
         /\ \A i \in DOMAIN nodes' : ~Bears(nodes'[i], k0)
<1>1. /\ \A i \in DOMAIN nodes \ {j} : \E h \in DOMAIN nodes' : nodes'[h] = nodes[i]
      /\ \A i \in DOMAIN nodes' : \E h \in DOMAIN nodes \ {j} : nodes'[i] = nodes[h]
  BY RemoveList
<1>2. \A k \in Key : Bears(nodes[j], k) => k = k0
  <2>1. \A k \in Key : k = <<k[1], k[2]>>
    BY DEF Key
  <2> QED
    BY <2>1 DEF Bears
<1>3. \A i \in DOMAIN nodes : Bears(nodes[i], k0) => i = j
  BY DEF Bears, UniqueNames
<1>4. \A i \in DOMAIN nodes' : ~Bears(nodes'[i], k0)
  BY <1>1, <1>3
<1>5. ASSUME NEW k \in Key, NEW p, k # k0, LeadsTo(nodes, k, p)
      PROVE  LeadsTo(nodes', k, p)
  BY <1>1, <1>2, <1>5 DEF LeadsTo
<1> QED
  BY <1>1, <1>4, <1>5

-----------------------------------------------------------------------------
(* Each handler keeps the invariant.                                       *)

\* What the storage's invariant says of a payload that a node points to.
LEMMA StorageFacts ==
  ASSUME IInv
  PROVE  /\ nodes \in Seq(Node) /\ UniqueNames /\ NoDangling(nodes, payloads)
         /\ payloads \in [DOMAIN payloads -> Payload] /\ DOMAIN payloads \subseteq AnyIno
         /\ next_ino \in Nat /\ \A p \in DOMAIN payloads : p < next_ino
         /\ \A p : Reaches(p) <=> p \in DOMAIN payloads
         /\ \A p \in DOMAIN payloads :
              /\ payloads[p].ref_count = Cardinality(LinksOf(nodes, p))
              /\ CountLinks(p) = payloads[p].ref_count
BY DEF IInv, TypeOK, RefCountExact, NoDangling, Reaches, CountLinks, Links, LinksOf

\* The lookup of a name finds the one node that bears it.
LEMMA EntryLeads ==
  ASSUME IInv, NEW k
  PROVE  /\ HasEntry(k) => LeadsTo(nodes, k, Entry(k))
         /\ \A p : LeadsTo(nodes, k, p) => HasEntry(k) /\ Entry(k) = p
         /\ HasEntry(k) <=> \E i \in DOMAIN nodes : Bears(nodes[i], k)
<1>1. \A i \in DOMAIN nodes : IsChild(i, k[1], k[2]) <=> Bears(nodes[i], k)
  BY DEF IsChild, Bears
<1>2. \A i, j \in DOMAIN nodes : Bears(nodes[i], k) /\ Bears(nodes[j], k) => i = j
  BY DEF IInv, UniqueNames, Bears
<1>3. nodes \in Seq(Node)
  BY StorageFacts
<1>4. \A i \in DOMAIN nodes : Bears(nodes[i], k) <=> FindChild(i, k[1], k[2])
  <2> SUFFICES ASSUME NEW i \in DOMAIN nodes, Bears(nodes[i], k)
               PROVE  FindChild(i, k[1], k[2])
    BY <1>1 DEF FindChild
  <2>1. \A j \in 1..(i - 1) : j \in DOMAIN nodes /\ j # i
    BY <1>3
  <2>2. \A j \in 1..(i - 1) : ~IsChild(j, k[1], k[2])
    BY <1>1, <1>2, <2>1
  <2> QED
    BY <1>1, <2>2 DEF FindChild
<1>5. HasEntry(k) <=> \E i \in DOMAIN nodes : Bears(nodes[i], k)
  BY <1>1 DEF HasEntry, HasChild
<1> DEFINE c == CHOOSE i \in DOMAIN nodes : FindChild(i, k[1], k[2])
<1>6. ASSUME NEW i \in DOMAIN nodes, Bears(nodes[i], k)
      PROVE  c = i
  <2>1. FindChild(i, k[1], k[2])
    BY <1>4, <1>6
  <2>2. c \in DOMAIN nodes /\ FindChild(c, k[1], k[2])
    BY <2>1
  <2>3. Bears(nodes[c], k)
    BY <1>4, <2>2
  <2> QED
    BY <1>2, <1>6, <2>2, <2>3
<1>7. Entry(k) = nodes[c].payload
  BY DEF Entry
<1> HIDE DEF c
<1> QED
  BY <1>5, <1>6, <1>7 DEF LeadsTo

\* iput after the caches have become ic, dc, fl.
LEMMA CachesKeep ==
  ASSUME NEW ic, NEW dc, NEW fl, Caches(ic, dc, fl),
         NEW ns, NEW ps, NEW ni, CachesSound(ic, dc, fl, ns, ps, ni)
  PROVE  CachesSound(icache', dcache', file', ns, ps, ni)
<1> DEFINE used == {dc[k] : k \in DOMAIN dc} \cup {fl[fd].inode : fd \in DOMAIN fl}
<1>1. icache' = Restrict(ic, DOMAIN ic \cap used) /\ dcache' = dc /\ file' = fl
  BY DEF Caches
<1> HIDE DEF used
<1>2. CachesSound(Restrict(ic, DOMAIN ic \cap used), dc, fl, ns, ps, ni)
  BY IputKeeps DEF used
<1> QED
  BY <1>1, <1>2

\* The storage is not called, or the call fails or only reads.
LEMMA UntouchedKeeps ==
  ASSUME VfsInv, UNCHANGED storage, ret' \in Int,
         CachesSound(icache', dcache', file', nodes, payloads, next_ino)
  PROVE  VfsInv'
<1>1. IInv'
  BY FailKeeps DEF VfsInv
<1>2. mounted' = mounted /\ nodes' = nodes /\ payloads' = payloads /\ next_ino' = next_ino
  BY DEF storage
<1> QED
  BY <1>1, <1>2 DEF VfsInv

\* A call of the storage that fails, and the caches left as they are.
LEMMA FailedCallKeeps ==
  ASSUME VfsInv, UNCHANGED storage, ret' \in Int, UNCHANGED caches
  PROVE  VfsInv'
BY UntouchedKeeps DEF VfsInv, caches

\* vtfs_lookup: the new inode says what the storage says of the entry.
LEMMA LookupKeeps ==
  ASSUME VfsInv, NEW k \in Key, vtfs_lookup(k)
  PROVE  VfsInv'
<1> DEFINE ino == Entry(k)
           p   == payloads[ino]
           n   == IF p.type = "DIR" THEN 2 ELSE CountLinks(ino)
           inode == vtfs_get_inode(ino, p.type, p.size, n)
<1>1. IInv /\ CachesSound(icache, dcache, file, nodes, payloads, next_ino)
  BY DEF VfsInv
<1>2. /\ LeadsTo(nodes, k, ino) /\ ino \in DOMAIN payloads /\ p \in Payload
      /\ ino < next_ino /\ ino \in AnyIno
  <2>1. LeadsTo(nodes, k, ino)
    BY <1>1, EntryLeads DEF vtfs_lookup
  <2>2. ino \in DOMAIN payloads
    BY <1>1, <2>1, StorageFacts DEF LeadsTo, NoDangling
  <2> QED
    BY <1>1, <2>1, <2>2, StorageFacts
<1>3. p.size \in 0..LOFF_MAX /\ p.type \in {"DIR", "FILE"}
  BY <1>2, SizeAssumption DEF VfsInv, Payload
<1>4. n \in Int /\ (p.type = "FILE" => n >= 1)
  <2>1. /\ CountLinks(ino) = Cardinality(LinksOf(nodes, ino))
        /\ nodes \in Seq(Node)
    BY <1>1, <1>2, StorageFacts
  <2>2. /\ Cardinality(LinksOf(nodes, ino)) \in Nat
        /\ IsFiniteSet(LinksOf(nodes, ino))
    BY <2>1, LinksFinite
  <2>3. LinksOf(nodes, ino) # {}
    BY <1>2 DEF LeadsTo, LinksOf
  <2>4. Cardinality(LinksOf(nodes, ino)) # 0
    BY <2>2, <2>3, FS_EmptySet
  <2> QED
    BY <2>1, <2>2, <2>4
<1> HIDE DEF ino, n
<1>5. /\ inode \in CachedInode /\ inode.i_ino = ino /\ inode.type = p.type
      /\ inode.i_size = p.size /\ inode.i_nlink = n
  BY <1>2, <1>3, <1>4 DEF vtfs_get_inode, CachedInode
<1>6. k \notin DOMAIN dcache /\ d_add(k, inode) /\ UNCHANGED vars
  BY DEF vtfs_lookup, ino, n
<1> HIDE DEF p, inode
<1>7. PICK id \in InodeId \ DOMAIN icache :
        Caches(Put(icache, id, inode), Put(dcache, k, id), file)
  BY <1>6 DEF d_add
<1>8. inode.i_size <= payloads[inode.i_ino].size
  BY <1>3, <1>5 DEF p
<1>9. CachesSound(Put(icache, id, inode), Put(dcache, k, id), file, nodes, payloads, next_ino)
  BY <1>1, <1>2, <1>4, <1>5, <1>6, <1>8, HashKeeps DEF p
<1>10. CachesSound(icache', dcache', file', nodes, payloads, next_ino)
  BY <1>7, <1>9, CachesKeep
<1>11. UNCHANGED storage /\ ret' \in Int
  BY <1>1, <1>6 DEF vars, storage, IInv, TypeOK
<1> QED
  BY <1>10, <1>11, UntouchedKeeps

\* shrink: a dentry is forgotten.
LEMMA ShrinkKeeps ==
  ASSUME VfsInv, NEW k \in Key, shrink(k)
  PROVE  VfsInv'
<1> DEFINE dc == Restrict(dcache, DOMAIN dcache \ {k})
<1>1. CachesSound(icache, dc, file, nodes, payloads, next_ino)
  BY ForgetKeeps DEF VfsInv
<1>2. Caches(icache, dc, file) /\ UNCHANGED vars
  BY DEF shrink
<1> HIDE DEF dc
<1>3. CachesSound(icache', dcache', file', nodes, payloads, next_ino)
  BY <1>1, <1>2, CachesKeep
<1>4. UNCHANGED storage /\ ret' \in Int
  BY <1>2 DEF vars, storage, VfsInv, IInv, TypeOK
<1> QED
  BY <1>3, <1>4, UntouchedKeeps

\* open: at position 0, on the inode of a positive dentry.
LEMMA OpenKeeps ==
  ASSUME VfsInv, NEW k \in Key, NEW fd \in Fd, open(fd, k)
  PROVE  VfsInv'
<1> DEFINE f == [inode |-> dcache[k], key |-> k, f_pos |-> 0]
<1>1. /\ CachesSound(icache, dcache, file, nodes, payloads, next_ino)
      /\ Tables(icache, dcache, file)
  BY DEF VfsInv, CachesSound
<1>2. /\ file' = Put(file, fd, f) /\ UNCHANGED vars /\ UNCHANGED <<dcache, icache>>
      /\ k \in DOMAIN dcache /\ dcache[k] # NEG
  BY DEF open, Positive
<1>3. dcache[k] \in DOMAIN icache /\ dcache[k] \in InodeId
  BY <1>1, <1>2 DEF Tables
<1>4. f \in OpenFile /\ f.inode \in DOMAIN icache
  BY <1>3, SizeAssumption DEF OpenFile
<1> HIDE DEF f
<1>5. /\ DOMAIN file' = DOMAIN file \cup {fd} /\ file'[fd] = f
      /\ \A other \in DOMAIN file \ {fd} : file'[other] = file[other]
      /\ file' = [other \in DOMAIN file' |-> file'[other]]
  BY <1>2 DEF Put
<1>6. file' \in [DOMAIN file' -> OpenFile] /\ \A other \in DOMAIN file' : file'[other].inode \in DOMAIN icache
  BY <1>1, <1>4, <1>5 DEF Tables
<1>7. CachesSound(icache, dcache, file', nodes, payloads, next_ino)
  BY <1>1, <1>6, FilesKeep
<1>8. UNCHANGED storage /\ ret' \in Int
  BY <1>2 DEF vars, storage, VfsInv, IInv, TypeOK
<1> QED
  BY <1>2, <1>7, <1>8, UntouchedKeeps

\* A file's position moves, to one that a loff_t holds.
LEMMA MoveKeeps ==
  ASSUME NEW ic, NEW dc, NEW fl, NEW ns, NEW ps, NEW ni,
         CachesSound(ic, dc, fl, ns, ps, ni),
         NEW fd \in DOMAIN fl, NEW pos \in 0..LOFF_MAX
  PROVE  CachesSound(ic, dc, [fl EXCEPT ![fd].f_pos = pos], ns, ps, ni)
<1> DEFINE f2 == [fl EXCEPT ![fd].f_pos = pos]
<1>1. fl \in [DOMAIN fl -> OpenFile] /\ \A other \in DOMAIN fl : fl[other].inode \in DOMAIN ic
  BY DEF CachesSound, Tables
<1>2. f2 \in [DOMAIN f2 -> OpenFile] /\ \A other \in DOMAIN f2 : f2[other].inode = fl[other].inode
  BY <1>1 DEF OpenFile
<1>3. DOMAIN f2 = DOMAIN fl
  OBVIOUS
<1> HIDE DEF f2
<1> QED
  BY <1>1, <1>2, <1>3, FilesKeep DEF f2

\* close: the inode stays while a dentry or another file needs it.
LEMMA CloseKeeps ==
  ASSUME VfsInv, NEW fd \in DOMAIN file, close(fd)
  PROVE  VfsInv'
<1> DEFINE fl == Restrict(file, DOMAIN file \ {fd})
<1>1. /\ CachesSound(icache, dcache, file, nodes, payloads, next_ino)
      /\ Tables(icache, dcache, file)
  BY DEF VfsInv, CachesSound
<1>2. fl \in [DOMAIN fl -> OpenFile] /\ \A other \in DOMAIN fl : fl[other].inode \in DOMAIN icache
  BY <1>1 DEF Tables, Restrict
<1>3. Caches(icache, dcache, fl) /\ UNCHANGED vars
  BY DEF close
<1> HIDE DEF fl
<1>4. CachesSound(icache, dcache, fl, nodes, payloads, next_ino)
  BY <1>1, <1>2, FilesKeep
<1>5. CachesSound(icache', dcache', file', nodes, payloads, next_ino)
  BY <1>3, <1>4, CachesKeep
<1>6. UNCHANGED storage /\ ret' \in Int
  BY <1>3 DEF vars, storage, VfsInv, IInv, TypeOK
<1> QED
  BY <1>5, <1>6, UntouchedKeeps

\* truncate: 0, as with O_TRUNC, is within every file.
LEMMA TruncateKeeps ==
  ASSUME VfsInv, NEW id \in DOMAIN icache, NEW size \in TruncSizes, truncate(id, size)
  PROVE  VfsInv'
<1>1. CachesSound(icache, dcache, file, nodes, payloads, next_ino)
  BY DEF VfsInv
<1>2. size \in 0..LOFF_MAX /\ (TruncSizes \subseteq {0} => size = 0)
  BY LoffAssumption
<1>3. \A p \in DOMAIN payloads : payloads[p].size \in Nat
  BY DEF VfsInv, IInv, TypeOK, Payload
<1>4. CachesSound([icache EXCEPT ![id].i_size = size], dcache, file, nodes, payloads, next_ino)
  BY <1>1, <1>2, <1>3, SizeKeeps
<1>5. UNCHANGED storage /\ ret' \in Int
  BY DEF truncate, vars, storage, VfsInv, IInv, TypeOK
<1> QED
  BY <1>4, <1>5, UntouchedKeeps DEF truncate

\* vtfs_llseek: a sum that leaves loff_t wraps to a negative one and is refused.
LEMMA SeekKeeps ==
  ASSUME VfsInv, NEW fd \in DOMAIN file, NEW offset \in SeekTo, NEW whence \in Whence,
         vtfs_llseek(fd, offset, whence)
  PROVE  VfsInv'
<1> DEFINE pos == NewPos(fd, offset, whence)
<1>1. /\ CachesSound(icache, dcache, file, nodes, payloads, next_ino)
      /\ Tables(icache, dcache, file)
  BY DEF VfsInv, CachesSound
<1>2. file[fd].f_pos \in 0..LOFF_MAX /\ icache[file[fd].inode].i_size \in 0..LOFF_MAX
  BY <1>1 DEF Tables, OpenFile, CachedInode
<1>3. offset \in (-LOFF_MAX - 1)..LOFF_MAX /\ LOFF_MAX \in Nat
  BY LoffAssumption, SizeAssumption
<1>4. PICK base \in 0..LOFF_MAX : pos = NewSize(base, offset)
  BY <1>2, <1>3 DEF NewPos, Whence
<1>5. pos >= 0 /\ file' = [file EXCEPT ![fd].f_pos = pos] /\ UNCHANGED vars
      /\ UNCHANGED <<dcache, icache>>
  BY DEF vtfs_llseek
<1> HIDE DEF pos
<1>6. pos \in 0..LOFF_MAX
  BY <1>3, <1>4, <1>5 DEF NewSize
<1>7. CachesSound(icache, dcache, file', nodes, payloads, next_ino)
  BY <1>1, <1>5, <1>6, MoveKeeps
<1>8. UNCHANGED storage /\ ret' \in Int
  BY <1>5 DEF vars, storage, VfsInv, IInv, TypeOK
<1> QED
  BY <1>5, <1>7, <1>8, UntouchedKeeps

\* vtfs_read: the position moves by what was read, never past the file's end.
LEMMA ReadKeeps ==
  ASSUME VfsInv, NEW fd \in DOMAIN file, NEW len \in ReadLen, vtfs_read(fd, len)
  PROVE  VfsInv'
<1> DEFINE f   == file[fd]
           ino == icache[f.inode].i_ino
<1>1. /\ CachesSound(icache, dcache, file, nodes, payloads, next_ino)
      /\ Tables(icache, dcache, file) /\ IInv
  BY DEF VfsInv, CachesSound
<1>2. f.f_pos \in 0..LOFF_MAX /\ len \in Nat /\ LOFF_MAX \in Nat
  BY <1>1, LoffAssumption, SizeAssumption DEF Tables, OpenFile
<1>3. UNCHANGED storage /\ UNCHANGED <<dcache, icache>>
  BY DEF vtfs_read, storage
<1>4. CASE (ret' = -ReadError(ino, f.f_pos) \/ ret' = -EFAULT) /\ UNCHANGED file
  <2>1. ReadError(ino, f.f_pos) \in Int /\ EFAULT \in Int
    BY DEF ReadError, ENOENT, EISDIR, EINVAL, EFAULT
  <2>2. ret' \in Int /\ UNCHANGED caches
    BY <1>3, <1>4, <2>1 DEF caches
  <2> QED
    BY <1>3, <2>2, FailedCallKeeps
<1>5. CASE /\ Reaches(ino) /\ ret' = Len(ReadBytes(ino, f.f_pos, len))
           /\ file' = [file EXCEPT ![fd].f_pos = @ + ret']
  <2> DEFINE size == payloads[ino].size
             n    == IF f.f_pos + len <= size THEN len
                     ELSE IF f.f_pos < size THEN size - f.f_pos ELSE 0
  <2>1. size \in 0..LOFF_MAX
    <3>1. ino \in DOMAIN payloads
      BY <1>1, <1>5, StorageFacts
    <3>2. size \in Nat
      BY <1>1, <3>1, StorageFacts DEF Payload
    <3> QED
      BY <1>2, <3>1, <3>2 DEF VfsInv
  <2>2. n \in Nat /\ f.f_pos + n \in 0..LOFF_MAX
    BY <1>2, <2>1
  <2>3. ReadBytes(ino, f.f_pos, len) = [b \in 1..n |-> payloads[ino].data[f.f_pos + b]]
    BY DEF ReadBytes
  <2> HIDE DEF n, size
  <2>4. ret' = n
    BY <1>5, <2>2, <2>3
  <2>5. file' = [file EXCEPT ![fd].f_pos = f.f_pos + n]
    BY <1>5, <2>4
  <2> HIDE DEF f
  <2>6. CachesSound(icache, dcache, file', nodes, payloads, next_ino)
    BY <1>1, <2>2, <2>5, MoveKeeps
  <2>7. ret' \in Int
    BY <2>2, <2>4
  <2> QED
    BY <1>3, <2>6, <2>7, UntouchedKeeps
<1>6. ReadError(ino, f.f_pos) = 0 => Reaches(ino)
  BY DEF ReadError, ENOENT
<1> HIDE DEF ino
<1> QED
  BY <1>4, <1>5, <1>6 DEF vtfs_read, ino

\* What a write does to the payloads: one may grow, to no more than LOFF_MAX,
\* and has grown to the end of the write when that is reported done.
LEMMA WriteEffect ==
  ASSUME VfsInv, NEW ino, NEW offset \in 0..LOFF_MAX, NEW buf \in Seq(Nat),
         Len(buf) <= LOFF_MAX, write(ino, offset, buf)
  PROVE  /\ UNCHANGED <<mounted, nodes, next_ino>> /\ ret' \in Int
         /\ Succeeds(payloads, next_ino, payloads', next_ino')
         /\ DOMAIN payloads' = DOMAIN payloads
         /\ \A p \in DOMAIN payloads' : payloads'[p].size <= LOFF_MAX
         /\ ret' > 0 => /\ ino \in DOMAIN payloads' /\ ret' = Len(buf)
                        /\ offset + Len(buf) <= payloads'[ino].size
<1> DEFINE err  == WriteError(ino, offset, Len(buf))
           size == NewSize(offset, Len(buf))
           p    == Grown(payloads[ino], size)
<1>1. IInv /\ IInv'
  BY WriteKeeps, SizeAssumption DEF VfsInv
<1>2. /\ payloads \in [DOMAIN payloads -> Payload] /\ next_ino \in Nat
      /\ payloads' \in [DOMAIN payloads' -> Payload] /\ next_ino' \in Nat /\ ret' \in Int
  BY <1>1 DEF IInv, TypeOK
<1>3. Len(buf) \in Nat /\ LOFF_MAX \in Nat
  BY SizeAssumption
<1>4. ASSUME UNCHANGED storage, ~(ret' > 0)
      PROVE  /\ UNCHANGED <<mounted, nodes, next_ino>>
             /\ Succeeds(payloads, next_ino, payloads', next_ino')
             /\ DOMAIN payloads' = DOMAIN payloads
             /\ \A q \in DOMAIN payloads' : payloads'[q].size <= LOFF_MAX
  BY <1>2, <1>4 DEF storage, Succeeds, Payload, VfsInv
<1>5. ASSUME err = 0
      PROVE  /\ ino \in DOMAIN payloads /\ size = offset + Len(buf) /\ size \in 0..LOFF_MAX
             /\ p.type = payloads[ino].type /\ p.size = payloads[ino].size /\ p.size \in 0..LOFF_MAX
             /\ p.data = p.data /\ "size" \in DOMAIN p /\ "type" \in DOMAIN p
             /\ p = [x \in DOMAIN p |-> p[x]]
  <2>1. Reaches(ino) /\ ~(size < 0)
    BY <1>3, <1>5 DEF WriteError, vtfs_validate_io_params, ENOENT, EISDIR, EINVAL, EFBIG
  <2>2. ino \in DOMAIN payloads
    BY <1>1, <2>1, StorageFacts
  <2>3. size = offset + Len(buf) /\ size \in 0..LOFF_MAX
    BY <1>3, <2>1 DEF NewSize
  <2>4. payloads[ino] \in Payload /\ payloads[ino].size \in 0..LOFF_MAX
    BY <1>2, <1>3, <2>2 DEF VfsInv, Payload
  <2>5. p.type = payloads[ino].type /\ p.size = payloads[ino].size
        /\ "size" \in DOMAIN p /\ "type" \in DOMAIN p /\ p = [x \in DOMAIN p |-> p[x]]
    BY <2>4 DEF Grown, Resized, Payload
  <2> QED
    BY <2>2, <2>3, <2>4, <2>5
<1>6. CASE err # 0 /\ Fail(err)
  <2>1. UNCHANGED storage /\ ~(ret' > 0)
    BY <1>6 DEF Fail, WriteError, vtfs_validate_io_params, ENOENT, EISDIR, EINVAL, EFBIG
  <2> QED
    BY <1>2, <1>4, <2>1
<1>7. CASE Fail(ENOMEM)
  <2>1. UNCHANGED storage /\ ~(ret' > 0)
    BY <1>7 DEF Fail, ENOMEM
  <2> QED
    BY <1>2, <1>4, <2>1
<1> HIDE DEF err, size, p
<1>8. ASSUME err = 0, NEW r, payloads' = [payloads EXCEPT ![ino] = r],
             r.type = p.type, p.size <= r.size, r.size <= LOFF_MAX,
             UNCHANGED <<mounted, nodes, next_ino>>
      PROVE  /\ Succeeds(payloads, next_ino, payloads', next_ino')
             /\ DOMAIN payloads' = DOMAIN payloads
             /\ ino \in DOMAIN payloads' /\ payloads'[ino] = r
             /\ \A q \in DOMAIN payloads' : payloads'[q].size <= LOFF_MAX
  <2>1. /\ ino \in DOMAIN payloads' /\ payloads'[ino] = r /\ DOMAIN payloads' = DOMAIN payloads
        /\ \A q \in DOMAIN payloads \ {ino} : payloads'[q] = payloads[q]
    BY <1>5, <1>8
  <2>2. \A q \in DOMAIN payloads : payloads[q].size \in Int
    BY <1>2 DEF Payload
  <2>3. \A q \in DOMAIN payloads' : /\ payloads'[q].type = payloads[q].type
                                     /\ payloads[q].size <= payloads'[q].size
    BY <1>5, <1>8, <2>1, <2>2
  <2>4. Succeeds(payloads, next_ino, payloads', next_ino')
    BY <1>2, <1>8, <2>1, <2>3 DEF Succeeds
  <2> QED
    BY <1>8, <2>1, <2>4 DEF VfsInv
<1>9. CASE /\ err = 0 /\ CopyFaults
           /\ \E n \in 0..(Len(buf) - 1) :
                payloads' = [payloads EXCEPT ![ino] =
                               [p EXCEPT !.data = Overlay(p, offset, buf, n)]]
           /\ ret' = -EFAULT
           /\ UNCHANGED <<mounted, nodes, next_ino>>
  <2>1. PICK n \in 0..(Len(buf) - 1) :
          payloads' = [payloads EXCEPT ![ino] = [p EXCEPT !.data = Overlay(p, offset, buf, n)]]
    BY <1>9
  <2> DEFINE r == [p EXCEPT !.data = Overlay(p, offset, buf, n)]
  <2>2. r.type = p.type /\ r.size = p.size
    BY <1>5, <1>9
  <2> HIDE DEF r
  <2>3. p.size <= r.size /\ r.size <= LOFF_MAX
    BY <1>3, <1>5, <1>9, <2>2
  <2>4. payloads' = [payloads EXCEPT ![ino] = r]
    BY <2>1 DEF r
  <2>5. ~(ret' > 0)
    BY <1>9 DEF EFAULT
  <2> QED
    BY <1>2, <1>8, <1>9, <2>2, <2>3, <2>4, <2>5
<1>10. CASE /\ err = 0
            /\ Store(ino, offset, buf)
            /\ ret' = Len(buf)
            /\ UNCHANGED <<mounted, nodes, next_ino>>
  <2> DEFINE r == [p EXCEPT !.data = Overlay(p, offset, buf, Len(buf)),
                            !.size = IF size > @ THEN size ELSE @]
  <2>1. payloads' = [payloads EXCEPT ![ino] = r]
    BY <1>10 DEF Store, p, size
  <2>2. r.type = p.type /\ r.size = IF size > p.size THEN size ELSE p.size
    BY <1>5, <1>10
  <2> HIDE DEF r
  <2>3. p.size <= r.size /\ r.size <= LOFF_MAX /\ offset + Len(buf) <= r.size
    BY <1>3, <1>5, <1>10, <2>2
  <2> QED
    BY <1>2, <1>8, <1>10, <2>1, <2>2, <2>3
<1> QED
  BY <1>6, <1>7, <1>9, <1>10 DEF write, err, size, p

\* vtfs_write: the inode's size and the position follow a write that is done.
LEMMA WriteHandlerKeeps ==
  ASSUME VfsInv, NEW fd \in DOMAIN file, NEW buf \in Buffer, vtfs_write(fd, buf)
  PROVE  VfsInv'
<1> DEFINE f   == file[fd]
           id  == f.inode
           ino == icache[id].i_ino
           err == vtfs_validate_io_params(f.f_pos, Len(buf))
<1>1. /\ CachesSound(icache, dcache, file, nodes, payloads, next_ino)
      /\ Tables(icache, dcache, file) /\ IInv
  BY DEF VfsInv, CachesSound
<1>2. /\ f.f_pos \in 0..LOFF_MAX /\ buf \in Seq(Nat) /\ Len(buf) <= LOFF_MAX
      /\ Len(buf) \in Nat /\ LOFF_MAX \in Nat
      /\ id \in DOMAIN icache /\ icache[id].i_size \in 0..LOFF_MAX
  BY <1>1, LoffAssumption, SizeAssumption, IoAssumption DEF Tables, OpenFile, CachedInode
<1>3. CASE err # 0 /\ Fail(err) /\ UNCHANGED caches
  <2>1. UNCHANGED storage /\ ret' \in Int
    BY <1>3 DEF Fail, vtfs_validate_io_params, EINVAL, EFBIG
  <2> QED
    BY <1>3, <2>1, FailedCallKeeps
<1> HIDE DEF f, err
<1>4. CASE err = 0 /\ write(ino, f.f_pos, buf)
  <2>1. /\ UNCHANGED <<mounted, nodes, next_ino>> /\ ret' \in Int
        /\ Succeeds(payloads, next_ino, payloads', next_ino')
        /\ DOMAIN payloads' = DOMAIN payloads
        /\ \A p \in DOMAIN payloads' : payloads'[p].size <= LOFF_MAX
        /\ ret' > 0 => /\ ino \in DOMAIN payloads' /\ ret' = Len(buf)
                       /\ f.f_pos + Len(buf) <= payloads'[ino].size
    BY <1>2, <1>4, WriteEffect
  <2>2. IInv'
    BY <1>1, <1>2, <1>4, WriteKeeps
  <2>3. NoDangling(nodes, payloads) /\ NoDangling(nodes, payloads')
    BY <1>1, <2>1, StorageFacts DEF NoDangling
  <2>4. CachesSound(icache, dcache, file, nodes', payloads', next_ino')
    BY <1>1, <2>1, <2>3, StorageMoves
  <2>5. CASE UNCHANGED caches
    <3>1. CachesSound(icache', dcache', file', nodes', payloads', next_ino')
      BY <2>4, <2>5 DEF caches
    <3> QED
      BY <2>1, <2>2, <3>1 DEF VfsInv
  <2>6. CASE /\ ret' > 0
             /\ file' = [file EXCEPT ![fd].f_pos = @ + ret']
             /\ vtfs_update_inode_size(id, f.f_pos + ret')
             /\ UNCHANGED dcache
    <3> DEFINE pos  == f.f_pos + Len(buf)
               size == IF pos > icache[id].i_size THEN pos ELSE icache[id].i_size
    <3>1. ret' = Len(buf) /\ ino \in DOMAIN payloads' /\ pos <= payloads'[ino].size
      BY <2>1, <2>6
    <3>2. pos \in 0..LOFF_MAX
      <4>1. pos >= 0 /\ payloads'[ino].size \in Nat /\ payloads'[ino].size <= LOFF_MAX
        BY <1>2, <2>1, <3>1 DEF Succeeds, Payload
      <4> QED
        BY <1>2, <3>1, <4>1
    <3>3. icache' = [icache EXCEPT ![id].i_size = size]
      BY <2>6, <3>1 DEF vtfs_update_inode_size
    <3>4. size \in 0..LOFF_MAX
      BY <1>2, <3>2
    <3>5. TruncSizes \subseteq {0} /\ icache[id].type = "FILE" /\ ino \in DOMAIN payloads'
            => size <= payloads'[ino].size
      BY <2>4, <1>2, <3>1, <3>2 DEF CachesSound, SizesTrue
    <3> HIDE DEF size, pos
    <3>6. CachesSound(icache', dcache, file, nodes', payloads', next_ino')
      BY <1>2, <2>4, <3>3, <3>4, <3>5, SizeKeeps
    <3>7. file' = [file EXCEPT ![fd].f_pos = pos]
      BY <2>6, <3>1 DEF f, pos
    <3>8. CachesSound(icache', dcache', file', nodes', payloads', next_ino')
      <4>1. CachesSound(icache', dcache, file', nodes', payloads', next_ino')
        BY <3>2, <3>6, <3>7, MoveKeeps
      <4> QED
        BY <2>6, <4>1
    <3> QED
      BY <2>1, <2>2, <3>8 DEF VfsInv
  <2> QED
    BY <1>4, <2>5, <2>6 DEF vtfs_write, err, f
<1> QED
  BY <1>3, <1>4 DEF vtfs_write, err, f

\* A key is a directory's inode number and a name.
LEMMA KeyParts ==
  ASSUME NEW k \in Key
  PROVE  k[1] \in AnyIno /\ k[2] \in Name /\ k[1] \in Nat /\ k = <<k[1], k[2]>>
<1>1. k[1] \in AnyIno /\ k[2] \in Name /\ k = <<k[1], k[2]>>
  BY DEF Key
<1>2. \A d \in AnyIno : d \in Nat
  BY InoAssumption DEF AnyIno, VTFS_ROOT_INO
<1> QED
  BY <1>1, <1>2

\* vtfs_create and vtfs_mkdir: the storage has the entry, and the caches its
\* inode unless new_inode failed.
LEMMA CreateKeeps ==
  ASSUME VfsInv, NEW k \in Key, NEW type \in {"DIR", "FILE"},
         AddNode(k[1], k[2], type), Instantiate(k, type)
  PROVE  VfsInv'
<1> DEFINE e  == NewNode(k[1], k[2], next_ino)
           dc == Restrict(dcache, DOMAIN dcache \ {k})
<1>1. /\ CachesSound(icache, dcache, file, nodes, payloads, next_ino)
      /\ IInv /\ mounted = TRUE
  BY DEF VfsInv
<1>2. k[1] \in AnyIno /\ k[2] \in Name /\ k[1] \in Nat /\ k = <<k[1], k[2]>>
  BY KeyParts
<1>3. IInv'
  BY <1>1, <1>2, AddKeeps
<1>4. CASE \E err \in {EEXIST, ENOTDIR, ENOMEM} : Fail(err)
  <2>1. UNCHANGED storage /\ ret' \in Int /\ ret' # 0
    BY <1>4 DEF Fail, EEXIST, ENOTDIR, ENOMEM
  <2>2. UNCHANGED caches \/ (ret' = 0 /\ TRUE)
    BY DEF Instantiate
  <2> QED
    BY <2>1, <2>2, FailedCallKeeps
<1>5. CASE /\ CreateError(k[1], k[2]) = 0
           /\ next_ino \in Ino
           /\ payloads' = alloc_payload(payloads, next_ino, type)
           /\ nodes' = Cons(e, nodes)
           /\ next_ino' = next_ino + 1
           /\ ret' = 0
           /\ UNCHANGED mounted
  <2>1. /\ nodes \in Seq(Node) /\ NoDangling(nodes, payloads)
        /\ payloads \in [DOMAIN payloads -> Payload] /\ next_ino \in Nat
        /\ \A p \in DOMAIN payloads : p < next_ino
    BY <1>1, StorageFacts
  <2>2. e \in Node /\ e.payload = next_ino /\ e.parent_ino = k[1] /\ e.name = k[2]
    BY <1>2, <2>1 DEF NewNode, Node
  <2> HIDE DEF e
  <2>3. /\ \A y, p : LeadsTo(nodes, y, p) => LeadsTo(nodes', y, p)
        /\ \A y : Bears(e, y) => LeadsTo(nodes', y, next_ino)
        /\ \A y : (\A i \in DOMAIN nodes : ~Bears(nodes[i], y)) /\ ~Bears(e, y)
                     => \A i \in DOMAIN nodes' : ~Bears(nodes'[i], y)
    BY <1>5, <2>1, <2>2, LeadsAfterCons
  <2>4. Bears(e, k) /\ \A y \in Key \ {k} : ~Bears(e, y)
    <3>1. \A y \in Key : y = <<y[1], y[2]>>
      BY DEF Key
    <3> QED
      BY <1>2, <2>2, <3>1 DEF Bears
  <2>5. /\ next_ino \notin DOMAIN payloads
        /\ DOMAIN payloads' = DOMAIN payloads \cup {next_ino}
        /\ payloads'[next_ino] = NewPayload(type)
        /\ \A p \in DOMAIN payloads : payloads'[p] = payloads[p]
    <3>1. next_ino \notin DOMAIN payloads
      BY <2>1
    <3> QED
      BY <1>5, <3>1 DEF alloc_payload
  <2>6. \A p \in DOMAIN payloads : payloads[p].size \in Nat /\ payloads[p].size <= payloads[p].size
    BY <2>1 DEF Payload
  <2>7. payloads' \in [DOMAIN payloads' -> Payload] /\ next_ino' \in Nat
    BY <1>3 DEF IInv, TypeOK
  <2>8. Succeeds(payloads, next_ino, payloads', next_ino')
    BY <1>5, <2>1, <2>5, <2>6, <2>7 DEF Succeeds
  <2>9. NoDangling(nodes', payloads')
    BY <1>3 DEF IInv, RefCountExact, NoDangling
  <2>10. \A p \in DOMAIN payloads' : payloads'[p].size <= LOFF_MAX
    BY <2>5, SizeAssumption DEF VfsInv, NewPayload
  <2>11. CASE InodeAllocFails /\ UNCHANGED caches
    <3>1. CachesSound(icache, dcache, file, nodes', payloads', next_ino')
      BY <1>1, <2>1, <2>3, <2>8, <2>9, <2>11, StorageMoves
    <3> QED
      BY <1>1, <1>3, <1>5, <2>10, <2>11, <3>1 DEF VfsInv, caches
  <2>12. ASSUME NEW ino, ino = next_ino,
                d_add(k, vtfs_get_inode(ino, type, 0,
                                        IF type = "DIR" THEN 2 ELSE CountLinks(ino)'))
         PROVE  VfsInv'
    <3> DEFINE n     == IF type = "DIR" THEN 2 ELSE CountLinks(ino)'
               inode == vtfs_get_inode(ino, type, 0, n)
    <3>1. CachesSound(icache, dc, file, nodes, payloads, next_ino)
      BY <1>1, ForgetKeeps
    <3>2. DOMAIN dc = DOMAIN dcache \ {k} /\ DOMAIN dcache \subseteq Key
      BY <1>1 DEF CachesSound, Tables, Restrict
    <3> HIDE DEF dc
    <3>3. \A y \in DOMAIN dc :
            (\A i \in DOMAIN nodes : ~Bears(nodes[i], y)) => \A i \in DOMAIN nodes' : ~Bears(nodes'[i], y)
      BY <2>3, <2>4, <3>2
    <3>4. CachesSound(icache, dc, file, nodes', payloads', next_ino')
      BY <2>1, <2>3, <2>8, <2>9, <3>1, <3>3, StorageMoves
    <3>5. CountLinks(ino)' = 1
      <4>1. Reaches(ino)'
        BY <2>3, <2>4, <2>12 DEF LeadsTo, Reaches
      <4>2. payloads'[ino].ref_count = 1
        BY <2>5, <2>12 DEF NewPayload
      <4> QED
        BY <4>1, <4>2 DEF CountLinks
    <3>6. n \in Int /\ n >= 1
      BY <3>5
    <3> HIDE DEF n
    <3>7. /\ inode \in CachedInode /\ inode.i_ino = next_ino /\ inode.type = type
          /\ inode.i_size = 0 /\ inode.i_nlink = n
      BY <1>5, <2>12, <3>6, SizeAssumption DEF vtfs_get_inode, CachedInode, AnyIno
    <3>8. d_add(k, inode)
      BY <2>12 DEF n
    <3> HIDE DEF inode
    <3>9. PICK id \in InodeId \ DOMAIN icache :
            Caches(Put(icache, id, inode), Put(dcache, k, id), file)
      BY <3>8 DEF d_add
    <3>10. /\ LeadsTo(nodes', k, inode.i_ino) /\ payloads'[inode.i_ino].type = inode.type
           /\ inode.i_ino < next_ino' /\ inode.i_size <= payloads'[inode.i_ino].size
      BY <1>5, <2>1, <2>3, <2>4, <2>5, <3>7 DEF NewPayload
    <3>11. CachesSound(Put(icache, id, inode), Put(dc, k, id), file, nodes', payloads', next_ino')
      BY <3>2, <3>4, <3>6, <3>7, <3>10, HashKeeps
    <3>12. Put(dc, k, id) = Put(dcache, k, id)
      BY DEF dc, Put, Restrict
    <3>13. CachesSound(icache', dcache', file', nodes', payloads', next_ino')
      BY <3>9, <3>11, <3>12, CachesKeep
    <3> QED
      BY <1>1, <1>3, <1>5, <2>10, <3>13 DEF VfsInv
  <2> QED
    BY <1>5, <2>11, <2>12 DEF Instantiate
<1> QED
  <2>1. TypeOK
    BY <1>1 DEF IInv
  <2>2. CreateError(k[1], k[2]) \in {0, EEXIST, ENOTDIR}
    BY DEF CreateError
  <2> QED
    BY <1>4, <1>5, <2>1, <2>2, AddNodeCases

\* d_delete: the dentry goes, or says from now on that the name is not there.
LEMMA DeleteKeeps ==
  ASSUME NEW k \in Key, NEW ic, NEW dc, NEW ns, NEW ps, NEW ni,
         dc = [y \in DOMAIN dc |-> dc[y]],
         CachesSound(ic, Restrict(dc, DOMAIN dc \ {k}), file, ns, ps, ni),
         \A i \in DOMAIN ns : ~Bears(ns[i], k),
         d_delete(k, ic, dc)
  PROVE  CachesSound(icache', dcache', file', ns, ps, ni)
<1> DEFINE d2 == Restrict(dc, DOMAIN dc \ {k})
           f2 == [fd \in DOMAIN file |->
                    IF file[fd].key = k THEN [file[fd] EXCEPT !.key = NO_KEY] ELSE file[fd]]
<1>1. /\ DOMAIN d2 = DOMAIN dc \ {k} /\ d2 = [y \in DOMAIN d2 |-> d2[y]]
      /\ \A y \in DOMAIN d2 : d2[y] = dc[y]
  BY DEF Restrict
<1>2. Tables(ic, d2, file)
  BY DEF CachesSound
<1>3. CASE Caches(ic, d2, f2)
  <2>1. \A fd \in DOMAIN file : file[fd] \in OpenFile /\ file[fd].inode \in DOMAIN ic
    BY <1>2 DEF Tables
  <2>2. \A r \in OpenFile : [r EXCEPT !.key = NO_KEY] \in OpenFile
                            /\ [r EXCEPT !.key = NO_KEY].inode = r.inode
    BY DEF OpenFile
  <2>3. f2 \in [DOMAIN f2 -> OpenFile] /\ \A fd \in DOMAIN f2 : f2[fd].inode \in DOMAIN ic
    BY <2>1, <2>2
  <2> HIDE DEF f2, d2
  <2>4. CachesSound(ic, d2, f2, ns, ps, ni)
    BY <2>3, FilesKeep DEF d2
  <2> QED
    BY <1>3, <2>4, CachesKeep
<1>4. CASE Caches(ic, [dc EXCEPT ![k] = NEG], file)
  <2>1. CASE k \in DOMAIN dc
    <3>1. [dc EXCEPT ![k] = NEG] = Put(d2, k, NEG)
      BY <1>1, <2>1 DEF Put
    <3>2. CachesSound(ic, Put(d2, k, NEG), file, ns, ps, ni)
      BY <1>1, NegativeKeeps
    <3> QED
      BY <1>4, <3>1, <3>2, CachesKeep
  <2>2. CASE k \notin DOMAIN dc
    <3>1. [dc EXCEPT ![k] = NEG] = d2
      BY <1>1, <2>2
    <3> QED
      BY <1>4, <3>1, CachesKeep
  <2> QED
    BY <2>1, <2>2
<1> QED
  BY <1>3, <1>4 DEF d_delete

\* A node leaves the list; the caches no longer speak of its name.
LEMMA RemovalMoves ==
  ASSUME VfsInv, NEW k \in Key, NEW j \in DOMAIN nodes, FindChild(j, k[1], k[2]),
         RemoveNode(j), payloads[nodes[j].payload].type = "FILE" \/ IsEmptyDir(nodes[j].payload),
         NEW ic, NEW dc, CachesSound(ic, dc, file, nodes, payloads, next_ino),
         k \notin DOMAIN dc
  PROVE  /\ IInv' /\ mounted' = TRUE
         /\ \A p \in DOMAIN payloads' : payloads'[p].size <= LOFF_MAX
         /\ CachesSound(ic, dc, file, nodes', payloads', next_ino')
         /\ \A i \in DOMAIN nodes' : ~Bears(nodes'[i], k)
<1> DEFINE p0 == nodes[j].payload
<1>1. IInv /\ IInv'
  BY RemoveKeeps DEF VfsInv
<1>2. /\ nodes \in Seq(Node) /\ UniqueNames /\ NoDangling(nodes, payloads)
      /\ payloads \in [DOMAIN payloads -> Payload] /\ next_ino \in Nat
      /\ p0 \in DOMAIN payloads /\ payloads[p0].ref_count = Cardinality(LinksOf(nodes, p0))
  BY <1>1, StorageFacts DEF NoDangling
<1>3. /\ nodes' = RemoveAt(nodes, j) /\ payloads' = payload_put(payloads, p0)
      /\ UNCHANGED <<mounted, next_ino>>
  BY DEF RemoveNode
<1>4. payloads[p0].ref_count # 0
  <2>1. IsFiniteSet(LinksOf(nodes, p0)) /\ j \in LinksOf(nodes, p0)
    BY <1>2, LinksFinite DEF LinksOf
  <2> QED
    BY <1>2, <2>1, FS_EmptySet
<1>5. /\ DOMAIN payloads' \subseteq DOMAIN payloads
      /\ \A p \in DOMAIN payloads' : SameFile(payloads'[p], payloads[p])
  <2>1. /\ payload_put(payloads, p0) \in [Kept(payloads, p0) -> Payload]
        /\ \A q \in Kept(payloads, p0) : SameFile(payload_put(payloads, p0)[q], payloads[q])
    BY <1>2, <1>4, PutCounts
  <2> QED
    BY <1>3, <2>1 DEF Kept
<1>6. /\ payloads' \in [DOMAIN payloads' -> Payload] /\ next_ino' \in Nat
      /\ NoDangling(nodes', payloads')
  BY <1>1 DEF IInv, TypeOK, RefCountExact, NoDangling
<1>7. \A p \in DOMAIN payloads : payloads[p].size \in Nat /\ payloads[p].size <= LOFF_MAX
  BY <1>2 DEF VfsInv, Payload
<1>8. Succeeds(payloads, next_ino, payloads', next_ino')
  BY <1>2, <1>3, <1>5, <1>6, <1>7 DEF Succeeds, SameFile
<1>9. \A p \in DOMAIN payloads' : payloads'[p].size <= LOFF_MAX
  BY <1>5, <1>7 DEF SameFile
<1>10. Bears(nodes[j], k)
  BY DEF FindChild, IsChild, Bears
<1>11. /\ \A y \in Key : \A p : y # k /\ LeadsTo(nodes, y, p) => LeadsTo(nodes', y, p)
       /\ \A y : (\A i \in DOMAIN nodes : ~Bears(nodes[i], y))
                     => \A i \in DOMAIN nodes' : ~Bears(nodes'[i], y)
       /\ \A i \in DOMAIN nodes' : ~Bears(nodes'[i], k)
  BY <1>2, <1>3, <1>10, LeadsAfterRemove
<1>12. \A y \in DOMAIN dc : y \in Key /\ y # k
  BY DEF CachesSound, Tables
<1>13. CachesSound(ic, dc, file, nodes', payloads', next_ino')
  BY <1>2, <1>6, <1>8, <1>11, <1>12, StorageMoves
<1> QED
  BY <1>1, <1>3, <1>9, <1>11, <1>13 DEF VfsInv

\* vtfs_unlink: node, dentry and link count go together, or nothing does.
LEMMA UnlinkHandlerKeeps ==
  ASSUME VfsInv, NEW k \in Key, vtfs_unlink(k)
  PROVE  VfsInv'
<1> DEFINE ic == [icache EXCEPT ![dcache[k]].i_nlink = @ - 1]
           dc == Restrict(dcache, DOMAIN dcache \ {k})
<1>1. CachesSound(icache, dcache, file, nodes, payloads, next_ino)
  BY DEF VfsInv
<1>2. k \in DOMAIN dcache /\ dcache[k] # NEG
  BY DEF vtfs_unlink, Positive
<1>3. CASE Fail(ENOENT) \/ Fail(EPERM)
  <2>1. UNCHANGED storage /\ ret' \in Int /\ ret' # 0
    BY <1>3 DEF Fail, ENOENT, EPERM
  <2> QED
    BY <2>1, FailedCallKeeps DEF vtfs_unlink
<1>4. ASSUME NEW j \in DOMAIN nodes, FindChild(j, k[1], k[2]),
             payloads[nodes[j].payload].type = "FILE", RemoveNode(j)
      PROVE  VfsInv'
  <2>1. d_delete(k, ic, dcache)
    BY <1>4 DEF vtfs_unlink, RemoveNode
  <2>2. CachesSound(ic, dc, file, nodes, payloads, next_ino)
    BY <1>1, <1>2, DropLinkKeeps
  <2>3. DOMAIN dc = DOMAIN dcache \ {k}
    BY DEF Restrict
  <2>4. dcache = [y \in DOMAIN dcache |-> dcache[y]]
    BY <1>1 DEF CachesSound, Tables
  <2> HIDE DEF ic, dc
  <2>5. /\ IInv' /\ mounted' = TRUE
        /\ \A p \in DOMAIN payloads' : payloads'[p].size <= LOFF_MAX
        /\ CachesSound(ic, dc, file, nodes', payloads', next_ino')
        /\ \A i \in DOMAIN nodes' : ~Bears(nodes'[i], k)
    BY <1>4, <2>2, <2>3, RemovalMoves
  <2>6. CachesSound(ic, Restrict(dcache, DOMAIN dcache \ {k}), file, nodes', payloads', next_ino')
    BY <2>5 DEF dc
  <2>7. CachesSound(icache', dcache', file', nodes', payloads', next_ino')
    BY <2>1, <2>4, <2>5, <2>6, DeleteKeeps
  <2> QED
    BY <2>5, <2>7 DEF VfsInv
<1> QED
  BY <1>3, <1>4 DEF vtfs_unlink, unlink

\* vtfs_rmdir: the dentries below the directory go as well.
LEMMA RmdirHandlerKeeps ==
  ASSUME VfsInv, NEW k \in Key, vtfs_rmdir(k)
  PROVE  VfsInv'
<1> DEFINE D  == {c \in DOMAIN dcache : c[1] # Inode(k).i_ino}
           dc == Restrict(dcache, D)
           d2 == Restrict(dc, DOMAIN dc \ {k})
<1>1. CachesSound(icache, dcache, file, nodes, payloads, next_ino)
  BY DEF VfsInv
<1>2. CASE Fail(ENOENT) \/ Fail(ENOTDIR) \/ Fail(ENOTEMPTY)
  <2>1. UNCHANGED storage /\ ret' \in Int /\ ret' # 0
    BY <1>2 DEF Fail, ENOENT, ENOTDIR, ENOTEMPTY
  <2> QED
    BY <2>1, FailedCallKeeps DEF vtfs_rmdir
<1>3. ASSUME NEW j \in DOMAIN nodes, FindChild(j, k[1], k[2]),
             IsEmptyDir(nodes[j].payload), RemoveNode(j)
      PROVE  VfsInv'
  <2>1. d_delete(k, icache, dc)
    BY <1>3 DEF vtfs_rmdir, RemoveNode
  <2>2. D \subseteq DOMAIN dcache
    OBVIOUS
  <2> HIDE DEF D
  <2>3. dc = [y \in DOMAIN dc |-> dc[y]] /\ DOMAIN d2 = DOMAIN dc \ {k}
    BY DEF Restrict
  <2>4. CachesSound(icache, dc, file, nodes, payloads, next_ino)
    BY <1>1, <2>2, ForgetKeeps
  <2> HIDE DEF dc
  <2>5. CachesSound(icache, d2, file, nodes, payloads, next_ino)
    BY <2>4, ForgetKeeps
  <2> HIDE DEF d2
  <2>6. /\ IInv' /\ mounted' = TRUE
        /\ \A p \in DOMAIN payloads' : payloads'[p].size <= LOFF_MAX
        /\ CachesSound(icache, d2, file, nodes', payloads', next_ino')
        /\ \A i \in DOMAIN nodes' : ~Bears(nodes'[i], k)
    BY <1>3, <2>3, <2>5, RemovalMoves
  <2>7. CachesSound(icache, Restrict(dc, DOMAIN dc \ {k}), file, nodes', payloads', next_ino')
    BY <2>6 DEF d2
  <2>8. CachesSound(icache', dcache', file', nodes', payloads', next_ino')
    BY <2>1, <2>3, <2>6, <2>7, DeleteKeeps
  <2> QED
    BY <2>6, <2>8 DEF VfsInv
<1> QED
  BY <1>2, <1>3 DEF vtfs_rmdir, rmdir

\* vtfs_link: the link count is the storage's, which counts every name.
LEMMA LinkHandlerKeeps ==
  ASSUME VfsInv, NEW old \in DOMAIN dcache, NEW k \in Key, vtfs_link(old, k)
  PROVE  VfsInv'
<1> DEFINE id == dcache[old]
           dc == Restrict(dcache, DOMAIN dcache \ {k})
<1>1. /\ CachesSound(icache, dcache, file, nodes, payloads, next_ino)
      /\ Tables(icache, dcache, file) /\ IInv /\ mounted = TRUE
  BY DEF VfsInv, CachesSound
<1>2. dcache[old] # NEG /\ icache[id].type = "FILE" /\ Missing(k)
  BY DEF vtfs_link, CanLink, Positive, Inode
<1>3. id \in DOMAIN icache
  BY <1>1, <1>2 DEF Tables
<1>4. PICK ino \in {icache[id].i_ino} :
        /\ link(ino, k[1], k[2])
        /\ \/ ret' # 0 /\ UNCHANGED caches
           \/ /\ ret' = 0
              /\ Caches([icache EXCEPT ![id].i_nlink = CountLinks(ino)'],
                        d_instantiate(k, id), file)
  BY DEF vtfs_link, Inode
<1>5. k[1] \in AnyIno /\ k[2] \in Name /\ k[1] \in Nat
  BY KeyParts
<1>6. IInv'
  BY <1>1, <1>4, <1>5, LinkKeeps
<1>7. CASE \E err \in {ENOENT, EPERM, ENOTDIR, EEXIST, ENOMEM} : Fail(err)
  <2>1. UNCHANGED storage /\ ret' \in Int /\ ret' # 0
    BY <1>7 DEF Fail, ENOENT, EPERM, ENOTDIR, EEXIST, ENOMEM
  <2> QED
    BY <1>4, <2>1, FailedCallKeeps
<1>8. CASE /\ LinkError(ino, k[1], k[2]) = 0
           /\ nodes' = Cons(NewNode(k[1], k[2], ino), nodes)
           /\ payloads' = payload_get(payloads, ino)
           /\ ret' = 0
           /\ UNCHANGED <<mounted, next_ino>>
  <2> DEFINE e == NewNode(k[1], k[2], ino)
             n == CountLinks(ino)'
             i2 == [icache EXCEPT ![id].i_nlink = n]
  <2>1. /\ nodes \in Seq(Node) /\ NoDangling(nodes, payloads)
        /\ payloads \in [DOMAIN payloads -> Payload] /\ next_ino \in Nat
    BY <1>1, StorageFacts
  <2>2. ino \in DOMAIN payloads /\ payloads[ino].type = "FILE" /\ ino \in Nat
    <3>1. Reaches(ino) /\ payloads[ino].type = "FILE"
      BY <1>8 DEF LinkError, ENOENT, EPERM, ENOTDIR, EEXIST
    <3>2. ino \in DOMAIN payloads
      BY <1>1, <3>1, StorageFacts
    <3>3. PICK i \in DOMAIN nodes : nodes[i].payload = ino
      BY <3>1 DEF Reaches
    <3>4. nodes[i] \in Node
      BY <2>1
    <3>5. ino \in Nat
      BY <3>3, <3>4 DEF Node
    <3> QED
      BY <3>1, <3>2, <3>5
  <2>3. e \in Node /\ e.payload = ino /\ e.parent_ino = k[1] /\ e.name = k[2]
    BY <1>5, <2>2 DEF NewNode, Node
  <2>4. nodes' = Cons(e, nodes)
    BY <1>8
  <2> HIDE DEF e
  <2>5. /\ \A y, p : LeadsTo(nodes, y, p) => LeadsTo(nodes', y, p)
        /\ \A y : Bears(e, y) => LeadsTo(nodes', y, ino)
        /\ \A y : (\A i \in DOMAIN nodes : ~Bears(nodes[i], y)) /\ ~Bears(e, y)
                     => \A i \in DOMAIN nodes' : ~Bears(nodes'[i], y)
    BY <2>1, <2>3, <2>4, LeadsAfterCons
  <2>6. Bears(e, k) /\ \A y \in Key \ {k} : ~Bears(e, y)
    <3>1. \A y \in Key : y = <<y[1], y[2]>>
      BY KeyParts
    <3> QED
      BY <2>3, <3>1 DEF Bears
  <2>7. /\ DOMAIN payloads' = DOMAIN payloads
        /\ \A p \in DOMAIN payloads : SameFile(payloads'[p], payloads[p])
    <3>1. /\ payload_get(payloads, ino) \in [DOMAIN payloads -> Payload]
          /\ \A p \in DOMAIN payloads : SameFile(payload_get(payloads, ino)[p], payloads[p])
      BY <2>1, <2>2, GetCounts
    <3> QED
      BY <1>8, <3>1
  <2>8. /\ nodes' \in Seq(Node) /\ NoDangling(nodes', payloads') /\ next_ino' \in Nat
        /\ payloads' \in [DOMAIN payloads' -> Payload]
    BY <1>6 DEF IInv, TypeOK, RefCountExact, NoDangling
  <2>9. \A p \in DOMAIN payloads : payloads[p].size \in Nat /\ payloads[p].size <= LOFF_MAX
    BY <2>1 DEF VfsInv, Payload
  <2>10. Succeeds(payloads, next_ino, payloads', next_ino')
    BY <1>8, <2>1, <2>7, <2>8, <2>9 DEF Succeeds, SameFile
  <2>11. \A p \in DOMAIN payloads' : payloads'[p].size <= LOFF_MAX
    BY <2>7, <2>9 DEF SameFile
  <2>12. n = Cardinality(LinksOf(nodes', ino)) /\ n \in Int
    <3>1. Reaches(ino)'
      BY <2>5, <2>6 DEF LeadsTo, Reaches
    <3>2. payloads'[ino].ref_count = Cardinality(LinksOf(nodes', ino))
      BY <1>6, <2>2, <2>7 DEF IInv, RefCountExact, Links, LinksOf
    <3>3. Cardinality(LinksOf(nodes', ino)) \in Nat
      BY <2>8, LinksFinite
    <3> QED
      BY <3>1, <3>2, <3>3 DEF CountLinks
  <2>13. ASSUME NEW d, d \in [DOMAIN d -> DOMAIN icache \cup {NEG}], DOMAIN d \subseteq Key,
                \A y \in DOMAIN d : d[y] = id => LeadsTo(nodes', y, ino)
         PROVE  n >= Cardinality(DentriesOf(d, id))
    <3> DEFINE E == DentriesOf(d, id)
    <3>1. E \subseteq Key /\ \A y \in E : LeadsTo(nodes', y, ino)
      BY <2>13 DEF DentriesOf
    <3> HIDE DEF E
    <3>3. IsFiniteSet(E) /\ Cardinality(E) <= Cardinality(LinksOf(nodes', ino))
      BY <2>8, <3>1, DentriesFewer
    <3>4. Cardinality(E) \in Nat
      BY <3>3, FS_CardinalityType
    <3> QED
      BY <2>12, <3>3, <3>4 DEF E
  <2> HIDE DEF n
  <2>14. CachesSound(icache, dc, file, nodes, payloads, next_ino)
    BY <1>1, ForgetKeeps
  <2>15. /\ DOMAIN dc = DOMAIN dcache \ {k} /\ DOMAIN dcache \subseteq Key
         /\ \A y \in DOMAIN dc : dc[y] = dcache[y]
    BY <1>1 DEF Tables, Restrict
  <2>16. dcache = [y \in DOMAIN dcache |-> dcache[y]]
    BY <1>1 DEF Tables
  <2> HIDE DEF dc
  <2>17. \A y \in DOMAIN dc :
          (\A i \in DOMAIN nodes : ~Bears(nodes[i], y)) => \A i \in DOMAIN nodes' : ~Bears(nodes'[i], y)
    BY <2>5, <2>6, <2>15
  <2>18. CachesSound(icache, dc, file, nodes', payloads', next_ino')
    BY <2>1, <2>5, <2>8, <2>10, <2>14, <2>17, StorageMoves
  <2>19. \A y \in DOMAIN dc : dc[y] = id => LeadsTo(nodes', y, ino)
    BY <1>2, <1>4, <2>18 DEF CachesSound, PositiveTrue
  <2>20. dc \in [DOMAIN dc -> DOMAIN icache \cup {NEG}] /\ DOMAIN dc \subseteq Key
    BY <2>18 DEF CachesSound, Tables
  <2>21. CachesSound(i2, d_instantiate(k, id), file, nodes', payloads', next_ino')
    <3>1. CASE k \in DOMAIN dcache
      <4> DEFINE d == Put(dc, k, id)
      <4>1. d_instantiate(k, id) = d
        BY <2>15, <3>1 DEF d_instantiate, Put
      <4>2. d \in [DOMAIN d -> DOMAIN icache \cup {NEG}] /\ DOMAIN d \subseteq Key
        BY <1>3, <2>20 DEF Put
      <4>3. \A y \in DOMAIN d : d[y] = id => LeadsTo(nodes', y, ino)
        BY <2>5, <2>6, <2>19 DEF Put
      <4> HIDE DEF d
      <4>4. n >= Cardinality(DentriesOf(Put(dc, k, id), id))
        BY <2>13, <4>2, <4>3 DEF d
      <4>5. LeadsTo(nodes', k, icache[id].i_ino) /\ payloads'[icache[id].i_ino].type = icache[id].type
        BY <1>2, <1>4, <2>2, <2>5, <2>6, <2>7 DEF SameFile
      <4>6. k \notin DOMAIN dc
        BY <2>15
      <4> HIDE DEF id
      <4>7. CachesSound(i2, Put(dc, k, id), file, nodes', payloads', next_ino')
        BY <1>3, <2>12, <2>18, <4>4, <4>5, <4>6, AliasKeeps DEF n
      <4> QED
        BY <4>1, <4>7 DEF d
    <3>2. CASE k \notin DOMAIN dcache
      <4>1. d_instantiate(k, id) = dcache
        BY <2>16, <3>2 DEF d_instantiate
      <4>2. dc = dcache
        BY <2>16, <3>2 DEF dc, Restrict
      <4>3. n >= Cardinality(DentriesOf(dc, id))
        BY <2>13, <2>19, <2>20
      <4> HIDE DEF id
      <4>4. CachesSound(i2, dc, file, nodes', payloads', next_ino')
        BY <1>3, <2>12, <2>18, <4>3, SetLinksKeeps DEF n
      <4> QED
        BY <4>1, <4>2, <4>4
    <3> QED
      BY <3>1, <3>2
  <2>22. Caches(i2, d_instantiate(k, id), file)
    BY <1>4, <1>8 DEF n
  <2> HIDE DEF i2
  <2>23. CachesSound(icache', dcache', file', nodes', payloads', next_ino')
    BY <2>21, <2>22, CachesKeep
  <2> QED
    BY <1>1, <1>6, <1>8, <2>11, <2>23 DEF VfsInv
<1> QED
  BY <1>4, <1>7, <1>8 DEF link, LinkError, ENOENT, EPERM, ENOTDIR, EEXIST

-----------------------------------------------------------------------------
(* The theorems.                                                           *)

\* Every handler keeps the invariant.
THEOREM VfsInvStep == VfsInv /\ [VtfsNext]_vtfs_vars => VfsInv'
<1> SUFFICES ASSUME VfsInv, [VtfsNext]_vtfs_vars
             PROVE  VfsInv'
  OBVIOUS
<1>1. ASSUME NEW k \in Key, vtfs_lookup(k) \/ shrink(k)
      PROVE  VfsInv'
  BY <1>1, LookupKeeps, ShrinkKeeps
<1>2. ASSUME NEW k \in Key, vtfs_create(k) \/ vtfs_mkdir(k)
      PROVE  VfsInv'
  BY <1>2, CreateKeeps DEF vtfs_create, vtfs_mkdir, create_file, mkdir
<1>3. ASSUME NEW k \in Key, vtfs_unlink(k) \/ vtfs_rmdir(k)
      PROVE  VfsInv'
  BY <1>3, UnlinkHandlerKeeps, RmdirHandlerKeeps
<1>4. ASSUME NEW k \in Key, NEW old \in DOMAIN dcache, vtfs_link(old, k)
      PROVE  VfsInv'
  BY <1>4, LinkHandlerKeeps
<1>5. ASSUME NEW k \in Key, NEW fd \in Fd, open(fd, k)
      PROVE  VfsInv'
  BY <1>5, OpenKeeps
<1>6. ASSUME NEW id \in DOMAIN icache, NEW size \in TruncSizes, truncate(id, size)
      PROVE  VfsInv'
  BY <1>6, TruncateKeeps
<1>7. ASSUME NEW fd \in DOMAIN file, close(fd)
      PROVE  VfsInv'
  BY <1>7, CloseKeeps
<1>8. ASSUME NEW fd \in DOMAIN file, NEW len \in ReadLen, vtfs_read(fd, len)
      PROVE  VfsInv'
  BY <1>8, ReadKeeps
<1>9. ASSUME NEW fd \in DOMAIN file, NEW buf \in Buffer, vtfs_write(fd, buf)
      PROVE  VfsInv'
  BY <1>9, WriteHandlerKeeps
<1>10. ASSUME NEW fd \in DOMAIN file, NEW offset \in SeekTo, NEW whence \in Whence,
              vtfs_llseek(fd, offset, whence)
       PROVE  VfsInv'
  BY <1>10, SeekKeeps
<1>11. CASE UNCHANGED vtfs_vars
  <2>1. UNCHANGED storage /\ ret' = ret /\ UNCHANGED caches
    BY <1>11 DEF vtfs_vars, storage, caches
  <2>2. ret \in Int
    BY DEF VfsInv, IInv, TypeOK
  <2> QED
    BY <2>1, <2>2, FailedCallKeeps
<1> QED
  BY <1>1, <1>2, <1>3, <1>4, <1>5, <1>6, <1>7, <1>8, <1>9, <1>10, <1>11 DEF VtfsNext

\* Freshly mounted, the storage has its root and the caches are empty.
THEOREM VfsInvInit == VtfsInit => VfsInv
<1> SUFFICES ASSUME VtfsInit
             PROVE  VfsInv
  OBVIOUS
<1> DEFINE root == NewNode(0, "", VTFS_ROOT_INO)
<1>1. /\ nodes = <<root>> /\ payloads = [p \in {VTFS_ROOT_INO} |-> NewPayload("DIR")]
      /\ next_ino = VTFS_ROOT_INO + 1 /\ ret = 0 /\ mounted = TRUE
  BY DEF VtfsInit
<1>2. root \in Node /\ root.payload = VTFS_ROOT_INO /\ root.parent_ino = 0
  BY DEF NewNode, Node, VTFS_ROOT_INO
<1> HIDE DEF root
<1>3. /\ nodes \in Seq(Node) /\ DOMAIN nodes = {1} /\ nodes[1] = root
  BY <1>1, <1>2
<1>4. /\ DOMAIN payloads = {VTFS_ROOT_INO} /\ payloads[VTFS_ROOT_INO] = NewPayload("DIR")
      /\ payloads \in [DOMAIN payloads -> Payload]
  BY <1>1 DEF NewPayload, Payload
<1>5. TypeOK
  <2>1. mounted \in BOOLEAN
    BY <1>1, Zenon
  <2>2. ret \in Int /\ next_ino \in Nat /\ next_ino > VTFS_ROOT_INO
    BY <1>1 DEF VTFS_ROOT_INO
  <2>3. DOMAIN payloads \subseteq AnyIno
    BY <1>4 DEF AnyIno
  <2> QED
    BY <1>3, <1>4, <2>1, <2>2, <2>3 DEF TypeOK
<1>6. UniqueNames /\ NoOrphans
  BY <1>2, <1>3 DEF UniqueNames, NoOrphans
<1>7. RefCountExact
  <2>1. Links(VTFS_ROOT_INO) = {1}
    BY <1>2, <1>3 DEF Links
  <2>2. Cardinality(Links(VTFS_ROOT_INO)) = 1
    BY <2>1, FS_Singleton
  <2> QED
    BY <1>2, <1>3, <1>4, <2>2 DEF RefCountExact, NewPayload
<1>8. SizeWithinCapacity /\ (\A p \in DOMAIN payloads : p < next_ino)
  BY <1>1, <1>4 DEF SizeWithinCapacity, NewPayload, VTFS_ROOT_INO
<1>9. \A p \in DOMAIN payloads : payloads[p].size <= LOFF_MAX
  BY <1>4, SizeAssumption DEF NewPayload
<1>10. IInv
  BY <1>1, <1>5, <1>6, <1>7, <1>8 DEF IInv
<1>11. CachesSound(icache, dcache, file, nodes, payloads, next_ino)
  <2>1. icache = <<>> /\ dcache = <<>> /\ file = <<>>
    BY DEF VtfsInit
  <2>2. DOMAIN icache = {} /\ DOMAIN dcache = {} /\ DOMAIN file = {} /\ IsFiniteSet({})
    BY <2>1, FS_EmptySet
  <2>3. /\ icache \in [DOMAIN icache -> CachedInode]
        /\ dcache \in [DOMAIN dcache -> DOMAIN icache \cup {NEG}]
        /\ file \in [DOMAIN file -> OpenFile]
    BY <2>1, <2>2
  <2>4. Tables(icache, dcache, file)
    BY <2>2, <2>3 DEF Tables
  <2>5. /\ PositiveTrue(icache, dcache, nodes, payloads) /\ NegativeTrue(dcache, nodes)
        /\ LinksCovered(icache, dcache) /\ SizesTrue(icache, payloads, next_ino)
    BY <2>2 DEF PositiveTrue, NegativeTrue, LinksCovered, SizesTrue
  <2> QED
    BY <2>4, <2>5 DEF CachesSound
<1> QED
  BY <1>1, <1>9, <1>10, <1>11 DEF VfsInv

\* Whatever the processes do with the file system, the kernel's caches and
\* the storage fit together.
THEOREM VfsInvariance == VtfsSpec => []VfsInv
BY VfsInvInit, VfsInvStep, PTL DEF VtfsSpec

\* The storage under the handlers keeps all that it keeps on its own.
THEOREM StorageUnderVfs == VtfsSpec => []IInv
<1>1. VfsInv => IInv
  BY DEF VfsInv
<1> QED
  BY <1>1, VfsInvariance, PTL

\* The caches are well formed, and every position and size fits a loff_t.
THEOREM VtfsTypeCorrect == VtfsSpec => []VtfsTypeOK
<1>1. VfsInv => VtfsTypeOK
  BY DEF VfsInv, CachesSound, Tables, CachedInode, OpenFile, VtfsTypeOK
<1> QED
  BY <1>1, VfsInvariance, PTL

\* A dentry that leads to an inode leads to the one the storage has under the
\* name; while new_inode does not fail, a negative one is right as well.
THEOREM DcacheCorrect == ASSUME ~InodeAllocFails PROVE VtfsSpec => []DcacheCoherent
<1>1. VfsInv => DcacheCoherent
  <2> SUFFICES ASSUME VfsInv
               PROVE  DcacheCoherent
    OBVIOUS
  <2>1. /\ IInv /\ PositiveTrue(icache, dcache, nodes, payloads) /\ NegativeTrue(dcache, nodes)
    BY DEF VfsInv, CachesSound
  <2> SUFFICES ASSUME NEW k \in DOMAIN dcache
               PROVE  IF dcache[k] = NEG THEN ~HasEntry(k)
                      ELSE /\ HasEntry(k) /\ Entry(k) = Inode(k).i_ino
                           /\ payloads[Entry(k)].type = Inode(k).type
    BY DEF DcacheCoherent
  <2>2. CASE dcache[k] = NEG
    <3>1. \A i \in DOMAIN nodes : ~Bears(nodes[i], k)
      BY <2>1, <2>2 DEF NegativeTrue
    <3> QED
      BY <2>1, <2>2, <3>1, EntryLeads
  <2>3. CASE dcache[k] # NEG
    <3>1. LeadsTo(nodes, k, Inode(k).i_ino) /\ payloads[Inode(k).i_ino].type = Inode(k).type
      BY <2>1, <2>3 DEF PositiveTrue, Inode
    <3> QED
      BY <2>1, <2>3, <3>1, EntryLeads
  <2> QED
    BY <2>2, <2>3
<1> QED
  BY <1>1, VfsInvariance, PTL

\* drop_nlink never takes a link count below zero, however many inodes of one
\* file were looked up, and when.
THEOREM NlinkCorrect == VtfsSpec => []NlinkCoversDentries
<1>1. VfsInv => NlinkCoversDentries
  BY DEF VfsInv, CachesSound, LinksCovered, NlinkCoversDentries, DentriesOf
<1> QED
  BY <1>1, VfsInvariance, PTL

\* With O_TRUNC the only truncation, no inode shows more than its file holds.
\* (truncate(2) to a greater size is kept by the inode and unknown to the file.)
THEOREM SizesCorrect == ASSUME TruncSizes \subseteq {0} PROVE VtfsSpec => []SizeNotBeyondFile
<1>1. VfsInv => SizeNotBeyondFile
  BY StorageFacts DEF VfsInv, CachesSound, SizesTrue, SizeNotBeyondFile
<1> QED
  BY <1>1, VfsInvariance, PTL
-----------------------------------------------------------------------------
(* The handlers implement FsSpec.                                          *)

\* What a handler does to the storage is one call of it, with arguments that
\* the interface is meant for.
LEMMA HandlersCall ==
  ASSUME VfsInv, 0..LOFF_MAX \subseteq Offset, [VtfsNext]_vtfs_vars
  PROVE  Operation \/ UNCHANGED storage
<1>1. Tables(icache, dcache, file)
  BY DEF VfsInv, CachesSound
<1>2. ASSUME NEW k \in Key, vtfs_create(k) \/ vtfs_mkdir(k) \/ vtfs_unlink(k) \/ vtfs_rmdir(k)
      PROVE  Operation
  <2>1. k[1] \in AnyIno /\ k[2] \in Name
    BY KeyParts
  <2>2. create_file(k[1], k[2]) \/ mkdir(k[1], k[2]) \/ unlink(k[1], k[2]) \/ rmdir(k[1], k[2])
    BY <1>2 DEF vtfs_create, vtfs_mkdir, vtfs_unlink, vtfs_rmdir
  <2> QED
    BY <2>1, <2>2 DEF Operation
<1>3. ASSUME NEW k \in Key, NEW old \in DOMAIN dcache, vtfs_link(old, k)
      PROVE  Operation
  <2> DEFINE ino == Inode(old).i_ino
  <2>1. k[1] \in AnyIno /\ k[2] \in Name
    BY KeyParts
  <2>2. link(ino, k[1], k[2])
    BY <1>3 DEF vtfs_link
  <2>3. dcache[old] \in DOMAIN icache
    BY <1>1, <1>3 DEF vtfs_link, CanLink, Positive, Tables
  <2>4. ino \in AnyIno
    BY <1>1, <2>3 DEF Tables, CachedInode, Inode
  <2> QED
    BY <2>1, <2>2, <2>4 DEF Operation
<1>4. ASSUME NEW fd \in DOMAIN file, NEW buf \in Buffer, vtfs_write(fd, buf)
      PROVE  Operation \/ UNCHANGED storage
  <2> DEFINE ino == icache[file[fd].inode].i_ino
             pos == file[fd].f_pos
  <2>1. ino \in AnyIno /\ pos \in 0..LOFF_MAX
    BY <1>1 DEF Tables, OpenFile, CachedInode
  <2>2. pos \in Offset
    BY <2>1
  <2>3. UNCHANGED storage \/ write(ino, pos, buf)
    BY <1>4 DEF vtfs_write, Fail
  <2> HIDE DEF ino, pos
  <2> QED
    BY <2>1, <2>2, <2>3 DEF Operation
<1>5. ASSUME NEW k \in Key, vtfs_lookup(k) \/ shrink(k) \/ (\E fd \in Fd : open(fd, k))
      PROVE  UNCHANGED storage
  BY <1>5 DEF vtfs_lookup, shrink, open, vars, storage
<1>6. ASSUME NEW id \in DOMAIN icache, NEW size \in TruncSizes, truncate(id, size)
      PROVE  UNCHANGED storage
  BY <1>6 DEF truncate, vars, storage
<1>7. ASSUME NEW fd \in DOMAIN file,
             \/ close(fd) \/ (\E len \in ReadLen : vtfs_read(fd, len))
             \/ \E offset \in SeekTo, whence \in Whence : vtfs_llseek(fd, offset, whence)
      PROVE  UNCHANGED storage
  BY <1>7 DEF close, vtfs_read, vtfs_llseek, vars, storage
<1>8. CASE UNCHANGED vtfs_vars
  BY <1>8 DEF vtfs_vars, storage
<1> QED
  BY <1>2, <1>3, <1>4, <1>5, <1>6, <1>7, <1>8 DEF VtfsNext

\* Freshly mounted, the tree is the root.
THEOREM HandlersFsInit == VtfsInit => FsInv /\ Fs!NewTree
<1> SUFFICES ASSUME VtfsInit
             PROVE  FsInv /\ Fs!NewTree
  OBVIOUS
<1> DEFINE root == NewNode(0, "", VTFS_ROOT_INO)
<1>1. IInv
  BY VfsInvInit DEF VfsInv
<1>2. /\ nodes = <<root>> /\ payloads = [p \in {VTFS_ROOT_INO} |-> NewPayload("DIR")]
      /\ next_ino = VTFS_ROOT_INO + 1 /\ mounted = TRUE
  BY DEF VtfsInit
<1>3. root.parent_ino = 0
  BY DEF NewNode
<1> HIDE DEF root
<1>4. DOMAIN nodes = {1} /\ nodes[1] = root
  BY <1>2
<1>5. DOMAIN payloads = {VTFS_ROOT_INO} /\ payloads[VTFS_ROOT_INO] = NewPayload("DIR")
  BY <1>2
<1>6. RootInPlace /\ ZerosPastEnd
  BY <1>3, <1>4, <1>5, NewTail DEF RootInPlace, ZerosPastEnd, ZeroTail
<1>7. Fresh
  BY <1>2, Zenon DEF Fresh
<1>8. EntryMap = Fs!Empty
  <2>1. DOMAIN EntryMap = {}
    BY <1>1, <1>3, <1>4, EntryMapFacts DEF Entries
  <2> QED
    BY <1>1, <2>1, EntryMapFacts DEF Entries, Fs!Empty
<1>9. KindMap = Fs!With(Fs!Empty, VTFS_ROOT_INO, "DIR") /\ ContentMap = Fs!Empty
  <2>1. payloads[VTFS_ROOT_INO].type = "DIR"
    BY <1>5, NewTail
  <2>2. KindMap = [p \in {VTFS_ROOT_INO} |-> "DIR"] /\ DOMAIN ContentMap = {}
    BY <1>1, <1>5, <2>1, PayloadMapFacts DEF Payloads
  <2> QED
    BY <1>1, <2>1, <2>2, PayloadMapFacts DEF Payloads, Fs!With, Fs!Empty
<1>10. {i \in Ino : i < next_ino} = {}
  <2>1. \A i \in Ino : ~(i < next_ino)
    BY <1>2, InoAssumption DEF VTFS_ROOT_INO
  <2> QED
    BY ONLY <2>1
<1> QED
  BY <1>1, <1>6, <1>7, <1>8, <1>9, <1>10 DEF FsInv, Fs!NewTree

\* Whatever a process asks for, the tree changes as FsSpec allows, or not at
\* all.  (A copy that faults midway may leave bytes FsSpec knows nothing of.)
THEOREM HandlersFsStep ==
  ASSUME ~CopyFaults, 0..LOFF_MAX \subseteq Offset
  PROVE  VfsInv /\ FsInv /\ [VtfsNext]_vtfs_vars => FsInv' /\ [Fs!Change]_(Fs!vars)
<1> SUFFICES ASSUME VfsInv, FsInv, [VtfsNext]_vtfs_vars
             PROVE  FsInv' /\ (Fs!Change \/ UNCHANGED Fs!vars)
  OBVIOUS
<1>1. VfsInv'
  BY VfsInvStep
<1>2. mounted /\ mounted'
  BY <1>1, Zenon DEF VfsInv
<1>3. CASE Operation
  BY <1>2, <1>3, OperationImplements
<1>4. CASE UNCHANGED storage
  <2>1. IInv /\ IInv'
    BY <1>1 DEF VfsInv
  <2> QED
    BY <1>4, <2>1, FailKeepsRest, FailImplements DEF FsInv
<1> QED
  BY <1>3, <1>4, HandlersCall

\* To a process the storage is a tree of named files, as long as no copy from
\* its memory faults midway.
THEOREM HandlersImplement ==
  ASSUME ~CopyFaults, 0..LOFF_MAX \subseteq Offset
  PROVE  VtfsSpec => HandlersImplementFs
<1>1. VtfsInit => FsInv /\ Fs!NewTree
  BY HandlersFsInit
<1>2. VfsInv /\ FsInv /\ [VtfsNext]_vtfs_vars => FsInv' /\ [Fs!Change]_(Fs!vars)
  BY HandlersFsStep
<1> QED
  BY <1>1, <1>2, VfsInvariance, PTL DEF VtfsSpec, HandlersImplementFs, Fs!TreeSpec
-----------------------------------------------------------------------------
(* What the storage refuses the handlers.                                  *)

\* Payloads keep their types, and new ones have new numbers.
KindsStay ==
  \A p \in DOMAIN payloads' :
    IF p \in DOMAIN payloads THEN payloads'[p].type = payloads[p].type ELSE p >= next_ino

\* The files that stay open have the inode numbers that they had.
NumbersStay ==
  \A fd \in DOMAIN file' :
    /\ fd \in DOMAIN file
    /\ icache'[file'[fd].inode].i_ino = icache[file[fd].inode].i_ino

\* A number that an open file has is not given to a directory.
LEMMA OpenKept ==
  ASSUME VfsInv, OpenAreFiles, KindsStay, NumbersStay
  PROVE  OpenAreFiles'
<1> SUFFICES ASSUME NEW fd \in DOMAIN file', icache'[file'[fd].inode].i_ino \in DOMAIN payloads'
             PROVE  payloads'[icache'[file'[fd].inode].i_ino].type = "FILE"
  BY DEF OpenAreFiles
<1> DEFINE id  == file[fd].inode
           ino == icache[id].i_ino
<1>1. fd \in DOMAIN file /\ icache'[file'[fd].inode].i_ino = ino
  BY DEF NumbersStay
<1>2. /\ Tables(icache, dcache, file) /\ SizesTrue(icache, payloads, next_ino)
      /\ next_ino \in Nat
  BY StorageFacts DEF VfsInv, CachesSound
<1>3. id \in DOMAIN icache
  BY <1>1, <1>2 DEF Tables
<1>4. ino \in Nat /\ ino < next_ino
  <2>1. ino \in AnyIno
    BY <1>2, <1>3 DEF Tables, CachedInode
  <2>2. ino < next_ino
    BY <1>2, <1>3 DEF SizesTrue
  <2>3. \A d \in AnyIno : d \in Nat
    BY InoAssumption DEF AnyIno, VTFS_ROOT_INO
  <2> QED
    BY <2>1, <2>2, <2>3
<1>5. ino \in DOMAIN payloads'
  BY <1>1
<1>6. ino \in DOMAIN payloads
  BY <1>2, <1>4, <1>5 DEF KindsStay
<1>7. payloads[ino].type = "FILE"
  BY <1>1, <1>6 DEF OpenAreFiles
<1> QED
  BY <1>1, <1>5, <1>6, <1>7 DEF KindsStay

\* iput takes no inode from an open file.
LEMMA CachesFollow ==
  ASSUME NEW ic, NEW dc, NEW fl, Caches(ic, dc, fl),
         \A fd \in DOMAIN fl : /\ fd \in DOMAIN file /\ fl[fd].inode = file[fd].inode
                               /\ file[fd].inode \in DOMAIN ic
                               /\ ic[file[fd].inode].i_ino = icache[file[fd].inode].i_ino
  PROVE  NumbersStay
<1> DEFINE used == {dc[k] : k \in DOMAIN dc} \cup {fl[fd].inode : fd \in DOMAIN fl}
<1>1. icache' = Restrict(ic, DOMAIN ic \cap used) /\ file' = fl
  BY DEF Caches
<1>2. \A fd \in DOMAIN fl : fl[fd].inode \in used
  OBVIOUS
<1> HIDE DEF used
<1>3. \A id \in DOMAIN ic \cap used : icache'[id] = ic[id]
  BY <1>1 DEF Restrict
<1> QED
  BY <1>1, <1>2, <1>3 DEF NumbersStay

\* A call that fails or only reads.
LEMMA UntouchedRoot ==
  ASSUME RootInPlace, UNCHANGED storage
  PROVE  RootInPlace' /\ KindsStay
BY DEF storage, RootInPlace, KindsStay

\* create_file and mkdir: the new number is not the root's.
LEMMA AddRoot ==
  ASSUME VfsInv, RootInPlace, NEW k \in Key, NEW type \in {"DIR", "FILE"},
         AddNode(k[1], k[2], type)
  PROVE  RootInPlace' /\ KindsStay
<1>1. CASE UNCHANGED storage
  BY <1>1, UntouchedRoot
<1>2. CASE /\ payloads' = alloc_payload(payloads, next_ino, type)
           /\ nodes' = Cons(NewNode(k[1], k[2], next_ino), nodes)
           /\ UNCHANGED mounted
  <2> DEFINE n == NewNode(k[1], k[2], next_ino)
  <2>1. /\ nodes \in Seq(Node) /\ next_ino \in Nat /\ next_ino > VTFS_ROOT_INO
        /\ next_ino \notin DOMAIN payloads
    BY DEF VfsInv, IInv, TypeOK
  <2>2. n \in Node /\ n.payload = next_ino
    BY <2>1, KeyParts DEF NewNode, Node
  <2>3. /\ DOMAIN payloads' = DOMAIN payloads \cup {next_ino}
        /\ \A p \in DOMAIN payloads : payloads'[p] = payloads[p]
    BY <1>2, <2>1 DEF alloc_payload
  <2>4. next_ino # VTFS_ROOT_INO /\ next_ino >= next_ino
    BY <2>1 DEF VTFS_ROOT_INO
  <2> HIDE DEF n
  <2>5. /\ nodes'[1] = n
        /\ \A i \in DOMAIN nodes' : i = 1 \/ \E j \in DOMAIN nodes : nodes'[i] = nodes[j]
    BY <1>2, <2>1, <2>2, ConsList DEF n
  <2>6. /\ VTFS_ROOT_INO \in DOMAIN payloads /\ payloads[VTFS_ROOT_INO].type = "DIR"
        /\ \A i \in DOMAIN nodes :
             nodes[i].payload = VTFS_ROOT_INO => nodes[i].parent_ino = 0
    BY Zenon DEF VfsInv, RootInPlace
  <2>7. RootInPlace'
    BY <2>2, <2>3, <2>4, <2>5, <2>6 DEF RootInPlace
  <2> QED
    BY <2>3, <2>4, <2>7 DEF KindsStay
<1> QED
  BY <1>1, <1>2, AddNodeCases DEF VfsInv, IInv, Fail

\* link: the target of a link is a file, the root is none.
LEMMA LinkRoot ==
  ASSUME VfsInv, RootInPlace, NEW target, NEW k \in Key, link(target, k[1], k[2])
  PROVE  RootInPlace' /\ KindsStay
<1>1. CASE UNCHANGED storage
  BY <1>1, UntouchedRoot
<1>2. CASE /\ LinkError(target, k[1], k[2]) = 0
           /\ nodes' = Cons(NewNode(k[1], k[2], target), nodes)
           /\ payloads' = payload_get(payloads, target)
           /\ UNCHANGED <<mounted, next_ino>>
  <2> DEFINE n == NewNode(k[1], k[2], target)
  <2>1. IInv /\ nodes \in Seq(Node) /\ payloads \in [DOMAIN payloads -> Payload]
        /\ DOMAIN payloads \subseteq AnyIno
    BY DEF VfsInv, IInv, TypeOK
  <2>2. Reaches(target) /\ payloads[target].type = "FILE"
    BY <1>2 DEF LinkError, ENOENT, EPERM
  <2>3. target \in DOMAIN payloads /\ target \in Nat
    BY <2>1, <2>2, InoAssumption, StorageFacts DEF AnyIno, VTFS_ROOT_INO
  <2>4. n \in Node /\ n.payload = target
    BY <2>3, KeyParts DEF NewNode, Node
  <2>5. /\ DOMAIN payloads' = DOMAIN payloads
        /\ \A p \in DOMAIN payloads : SameFile(payloads'[p], payloads[p])
    BY <1>2, <2>1, <2>3, GetCounts
  <2>6. /\ VTFS_ROOT_INO \in DOMAIN payloads /\ payloads[VTFS_ROOT_INO].type = "DIR"
        /\ \A i \in DOMAIN nodes :
             nodes[i].payload = VTFS_ROOT_INO => nodes[i].parent_ino = 0
    BY Zenon DEF VfsInv, RootInPlace
  <2>7. target # VTFS_ROOT_INO /\ payloads'[VTFS_ROOT_INO].type = "DIR"
    BY <2>2, <2>5, <2>6 DEF SameFile
  <2> HIDE DEF n
  <2>8. /\ nodes'[1] = n
        /\ \A i \in DOMAIN nodes' : i = 1 \/ \E j \in DOMAIN nodes : nodes'[i] = nodes[j]
    BY <1>2, <2>1, <2>4, ConsList DEF n
  <2>9. RootInPlace'
    BY <2>4, <2>5, <2>6, <2>7, <2>8 DEF RootInPlace
  <2> QED
    BY <2>5, <2>9 DEF KindsStay, SameFile
<1> QED
  BY <1>1, <1>2 DEF link, Fail

\* unlink and rmdir: the root has no name to remove it by.
LEMMA RemovalRoot ==
  ASSUME VfsInv, RootInPlace, NEW k \in Key, unlink(k[1], k[2]) \/ rmdir(k[1], k[2])
  PROVE  RootInPlace' /\ KindsStay
<1>1. CASE UNCHANGED storage
  BY <1>1, UntouchedRoot
<1>2. ASSUME NEW j \in DOMAIN nodes, FindChild(j, k[1], k[2]), RemoveNode(j)
      PROVE  RootInPlace' /\ KindsStay
  <2> DEFINE p == nodes[j].payload
  <2>1. nodes[j].parent_ino # 0
    BY <1>2, KeyParts, InoAssumption DEF FindChild, IsChild, AnyIno, VTFS_ROOT_INO
  <2>2. /\ nodes \in Seq(Node) /\ payloads \in [DOMAIN payloads -> Payload]
        /\ p \in DOMAIN payloads /\ payloads[p].ref_count = Cardinality(LinksOf(nodes, p))
    BY StorageFacts DEF VfsInv, NoDangling
  <2>3. /\ VTFS_ROOT_INO \in DOMAIN payloads /\ payloads[VTFS_ROOT_INO].type = "DIR"
        /\ \A i \in DOMAIN nodes :
             nodes[i].payload = VTFS_ROOT_INO => nodes[i].parent_ino = 0
    BY Zenon DEF VfsInv, RootInPlace
  <2>4. p # VTFS_ROOT_INO
    BY <2>1, <2>3
  <2>5. payloads[p].ref_count # 0
    <3>1. j \in LinksOf(nodes, p) /\ IsFiniteSet(LinksOf(nodes, p))
      BY <2>2, LinksFinite DEF LinksOf
    <3> QED
      BY <2>2, <3>1, FS_EmptySet
  <2>6. /\ DOMAIN payloads' = Kept(payloads, p)
        /\ \A q \in Kept(payloads, p) : SameFile(payloads'[q], payloads[q])
    <3>1. payloads' = payload_put(payloads, p)
      BY <1>2 DEF RemoveNode
    <3> QED
      BY <2>2, <2>5, <3>1, PutCounts
  <2>7. Kept(payloads, p) \subseteq DOMAIN payloads /\ VTFS_ROOT_INO \in Kept(payloads, p)
    BY <2>3, <2>4 DEF Kept
  <2>8. \A i \in DOMAIN nodes' : \E h \in DOMAIN nodes : nodes'[i] = nodes[h]
    BY <1>2, <2>2, RemoveList DEF RemoveNode
  <2>9. payloads'[VTFS_ROOT_INO].type = "DIR"
    BY <2>3, <2>6, <2>7 DEF SameFile
  <2>10. RootInPlace'
    BY <2>3, <2>6, <2>7, <2>8, <2>9 DEF RootInPlace
  <2> QED
    BY <2>6, <2>7, <2>10 DEF KindsStay, SameFile
<1> QED
  BY <1>1, <1>2 DEF unlink, rmdir, Fail
\* A call with which the VFS leaves its caches alone.
LEMMA SameFollow == ASSUME UNCHANGED caches PROVE NumbersStay
BY DEF caches, NumbersStay

\* d_add: other inodes stay where they are.
LEMMA AddFollow ==
  ASSUME VfsInv, NEW k, NEW inode, d_add(k, inode)
  PROVE  NumbersStay
<1>1. PICK id \in InodeId \ DOMAIN icache :
        Caches(Put(icache, id, inode), Put(dcache, k, id), file)
  BY DEF d_add
<1> DEFINE ic == Put(icache, id, inode)
<1>2. \A fd \in DOMAIN file : file[fd].inode \in DOMAIN icache
  BY DEF VfsInv, CachesSound, Tables
<1>3. \A other \in DOMAIN icache : other \in DOMAIN ic /\ ic[other] = icache[other]
  BY DEF Put
<1> HIDE DEF ic
<1>4. Caches(ic, Put(dcache, k, id), file)
  BY <1>1 DEF ic
<1> QED
  BY <1>2, <1>3, <1>4, CachesFollow

\* ic has the inodes of icache, under the same numbers.
SameNumbers(ic) ==
  \A id \in DOMAIN icache : id \in DOMAIN ic /\ ic[id].i_ino = icache[id].i_ino

\* d_delete: a file may lose its dentry, never its inode.
LEMMA DeleteFollow ==
  ASSUME VfsInv, NEW k, NEW ic, NEW dc, SameNumbers(ic), d_delete(k, ic, dc)
  PROVE  NumbersStay
<1> DEFINE f2 == [fd \in DOMAIN file |->
                    IF file[fd].key = k THEN [file[fd] EXCEPT !.key = NO_KEY] ELSE file[fd]]
<1>1. PICK d, fl : fl \in {file, f2} /\ Caches(ic, d, fl)
  BY DEF d_delete
<1>2. \A fd \in DOMAIN file : file[fd] \in OpenFile /\ file[fd].inode \in DOMAIN icache
  BY DEF VfsInv, CachesSound, Tables
<1>3. \A fd \in DOMAIN file : f2[fd].inode = file[fd].inode
  BY <1>2 DEF OpenFile
<1>4. DOMAIN f2 = DOMAIN file
  OBVIOUS
<1> HIDE DEF f2
<1>5. \A fd \in DOMAIN fl : fd \in DOMAIN file /\ fl[fd].inode = file[fd].inode
  <2>1. CASE fl = file
    BY <2>1
  <2>2. CASE fl = f2
    BY <1>3, <1>4, <2>2
  <2> QED
    BY <1>1, <2>1, <2>2
<1> QED
  BY <1>1, <1>2, <1>5, CachesFollow DEF SameNumbers

\* i_nlink, i_size and f_pos are not i_ino.
LEMMA NumbersIgnore ==
  ASSUME VfsInv, NEW id \in DOMAIN icache, NEW n
  PROVE  /\ SameNumbers([icache EXCEPT ![id].i_nlink = n])
         /\ SameNumbers([icache EXCEPT ![id].i_size = n])
<1>1. \A other \in DOMAIN icache : icache[other] \in CachedInode
  BY DEF VfsInv, CachesSound, Tables
<1> QED
  BY <1>1 DEF SameNumbers, CachedInode

\* The caches keep their inodes, and the files only move.
LEMMA MoveFollow ==
  ASSUME VfsInv, SameNumbers(icache'), DOMAIN file' \subseteq DOMAIN file,
         \A fd \in DOMAIN file' : file'[fd].inode = file[fd].inode
  PROVE  NumbersStay
<1>1. \A fd \in DOMAIN file : file[fd].inode \in DOMAIN icache
  BY DEF VfsInv, CachesSound, Tables
<1> QED
  BY <1>1 DEF SameNumbers, NumbersStay

\* A new position for one file.
LEMMA PositionFollow ==
  ASSUME VfsInv, NEW fd \in DOMAIN file, NEW pos, file' = [file EXCEPT ![fd].f_pos = pos]
  PROVE  DOMAIN file' \subseteq DOMAIN file /\ \A x \in DOMAIN file' : file'[x].inode = file[x].inode
<1>1. \A x \in DOMAIN file : file[x] \in OpenFile
  BY DEF VfsInv, CachesSound, Tables
<1> QED
  BY <1>1 DEF OpenFile

-----------------------------------------------------------------------------
(* The invariant of the open files, handler by handler.                    *)

\* The handlers that change directories.
LEMMA DirectoryKeepsCause ==
  ASSUME VfsInv, RootInPlace, NEW k \in Key,
         \/ vtfs_lookup(k) \/ vtfs_create(k) \/ vtfs_mkdir(k)
         \/ vtfs_unlink(k) \/ vtfs_rmdir(k) \/ shrink(k)
         \/ \E old \in DOMAIN dcache : vtfs_link(old, k)
  PROVE  RootInPlace' /\ KindsStay /\ NumbersStay
<1>1. Tables(icache, dcache, file)
  BY DEF VfsInv, CachesSound
<1>2. CASE vtfs_lookup(k)
  <2>1. UNCHANGED storage /\ \E inode : d_add(k, inode)
    BY <1>2 DEF vtfs_lookup, vars, storage
  <2> QED
    BY <2>1, UntouchedRoot, AddFollow
<1>3. ASSUME NEW type \in {"DIR", "FILE"}, AddNode(k[1], k[2], type), Instantiate(k, type)
      PROVE  RootInPlace' /\ KindsStay /\ NumbersStay
  <2>1. UNCHANGED caches \/ \E inode : d_add(k, inode)
    BY <1>3 DEF Instantiate
  <2> QED
    BY <1>3, <2>1, AddRoot, SameFollow, AddFollow
<1>4. CASE vtfs_unlink(k)
  <2> DEFINE id == dcache[k]
             ic == [icache EXCEPT ![id].i_nlink = @ - 1]
  <2>1. id \in DOMAIN icache
    BY <1>1, <1>4 DEF vtfs_unlink, Positive, Tables
  <2>2. SameNumbers(ic)
    BY <2>1, NumbersIgnore
  <2>3. UNCHANGED caches \/ d_delete(k, ic, dcache)
    BY <1>4 DEF vtfs_unlink
  <2> HIDE DEF ic
  <2>4. NumbersStay
    BY <2>2, <2>3, SameFollow, DeleteFollow
  <2>5. unlink(k[1], k[2])
    BY <1>4 DEF vtfs_unlink
  <2> QED
    BY <2>4, <2>5, RemovalRoot
<1>5. CASE vtfs_rmdir(k)
  <2>1. UNCHANGED caches \/ \E dc : d_delete(k, icache, dc)
    BY <1>5 DEF vtfs_rmdir
  <2>2. SameNumbers(icache)
    BY DEF SameNumbers
  <2>3. NumbersStay
    BY <2>1, <2>2, SameFollow, DeleteFollow
  <2>4. rmdir(k[1], k[2])
    BY <1>5 DEF vtfs_rmdir
  <2> QED
    BY <2>3, <2>4, RemovalRoot
<1>6. CASE shrink(k)
  <2>1. UNCHANGED storage /\ \E dc : Caches(icache, dc, file)
    BY <1>6 DEF shrink, vars, storage
  <2>2. \A fd \in DOMAIN file : file[fd].inode \in DOMAIN icache
    BY <1>1 DEF Tables
  <2> QED
    BY <2>1, <2>2, UntouchedRoot, CachesFollow
<1>7. ASSUME NEW old \in DOMAIN dcache, vtfs_link(old, k)
      PROVE  RootInPlace' /\ KindsStay /\ NumbersStay
  <2> DEFINE id == dcache[old]
  <2>1. id \in DOMAIN icache
    BY <1>1, <1>7 DEF vtfs_link, CanLink, Positive, Tables
  <2>2. link(Inode(old).i_ino, k[1], k[2])
    BY <1>7 DEF vtfs_link
  <2>3. UNCHANGED caches \/ \E n, dc : Caches([icache EXCEPT ![id].i_nlink = n], dc, file)
    BY <1>7 DEF vtfs_link
  <2> HIDE DEF id
  <2>4. ASSUME NEW n, NEW dc, Caches([icache EXCEPT ![id].i_nlink = n], dc, file)
        PROVE  NumbersStay
    <3> DEFINE ic == [icache EXCEPT ![id].i_nlink = n]
    <3>1. SameNumbers(ic)
      BY <2>1, NumbersIgnore
    <3>2. \A fd \in DOMAIN file : file[fd].inode \in DOMAIN icache
      BY <1>1 DEF Tables
    <3>3. Caches(ic, dc, file)
      BY <2>4
    <3> HIDE DEF ic
    <3> QED
      BY <3>1, <3>2, <3>3, CachesFollow DEF SameNumbers
  <2>5. NumbersStay
    BY <2>3, <2>4, SameFollow
  <2> QED
    BY <2>2, <2>5, LinkRoot
<1> QED
  BY <1>2, <1>3, <1>4, <1>5, <1>6, <1>7 DEF vtfs_create, vtfs_mkdir, create_file, mkdir

\* The handlers of open files, and truncate.
LEMMA FileKeepsCause ==
  ASSUME VfsInv, RootInPlace,
         \/ \E id \in DOMAIN icache, size \in TruncSizes : truncate(id, size)
         \/ \E fd \in DOMAIN file :
              \/ close(fd)
              \/ \E len \in ReadLen : vtfs_read(fd, len)
              \/ \E buf \in Buffer : vtfs_write(fd, buf)
              \/ \E offset \in SeekTo, whence \in Whence : vtfs_llseek(fd, offset, whence)
  PROVE  RootInPlace' /\ KindsStay /\ NumbersStay
<1>1. Tables(icache, dcache, file)
  BY DEF VfsInv, CachesSound
<1>2. SameNumbers(icache)
  BY DEF SameNumbers
<1>3. ASSUME NEW id \in DOMAIN icache, NEW size \in TruncSizes, truncate(id, size)
      PROVE  RootInPlace' /\ KindsStay /\ NumbersStay
  <2>1. UNCHANGED storage /\ UNCHANGED file /\ icache' = [icache EXCEPT ![id].i_size = size]
    BY <1>3 DEF truncate, vars, storage
  <2>2. SameNumbers(icache')
    BY <2>1, NumbersIgnore
  <2> QED
    BY <2>1, <2>2, UntouchedRoot, MoveFollow
<1>4. ASSUME NEW fd \in DOMAIN file, close(fd)
      PROVE  RootInPlace' /\ KindsStay /\ NumbersStay
  <2> DEFINE fl == Restrict(file, DOMAIN file \ {fd})
  <2>1. UNCHANGED storage /\ Caches(icache, dcache, fl)
    BY <1>4 DEF close, vars, storage
  <2>2. \A x \in DOMAIN fl : x \in DOMAIN file /\ fl[x].inode = file[x].inode
    BY DEF Restrict
  <2>3. \A x \in DOMAIN file : file[x].inode \in DOMAIN icache
    BY <1>1 DEF Tables
  <2> HIDE DEF fl
  <2> QED
    BY <2>1, <2>2, <2>3, UntouchedRoot, CachesFollow
<1>5. ASSUME NEW fd \in DOMAIN file, NEW len \in ReadLen, vtfs_read(fd, len)
      PROVE  RootInPlace' /\ KindsStay /\ NumbersStay
  <2>1. /\ UNCHANGED storage /\ UNCHANGED icache
        /\ UNCHANGED file \/ \E pos : file' = [file EXCEPT ![fd].f_pos = pos]
    BY <1>5 DEF vtfs_read, storage
  <2> QED
    BY <1>2, <2>1, UntouchedRoot, MoveFollow, PositionFollow
<1>6. ASSUME NEW fd \in DOMAIN file, NEW offset \in SeekTo, NEW whence \in Whence,
             vtfs_llseek(fd, offset, whence)
      PROVE  RootInPlace' /\ KindsStay /\ NumbersStay
  <2>1. /\ UNCHANGED storage /\ UNCHANGED icache
        /\ \E pos : file' = [file EXCEPT ![fd].f_pos = pos]
    BY <1>6 DEF vtfs_llseek, vars, storage
  <2> QED
    BY <1>2, <2>1, UntouchedRoot, MoveFollow, PositionFollow
<1>7. ASSUME NEW fd \in DOMAIN file, NEW buf \in Buffer, vtfs_write(fd, buf)
      PROVE  RootInPlace' /\ KindsStay /\ NumbersStay
  <2> DEFINE id  == file[fd].inode
             pos == file[fd].f_pos
  <2>1. /\ id \in DOMAIN icache /\ pos \in 0..LOFF_MAX
        /\ buf \in Seq(Nat) /\ Len(buf) <= LOFF_MAX
    BY <1>1, IoAssumption DEF Tables, OpenFile
  <2>2. UNCHANGED storage \/ write(icache[id].i_ino, pos, buf)
    BY <1>7 DEF vtfs_write, Fail
  <2>3. RootInPlace' /\ KindsStay
    <3>1. CASE write(icache[id].i_ino, pos, buf)
      <4>1. /\ UNCHANGED <<mounted, nodes>> /\ DOMAIN payloads' = DOMAIN payloads
            /\ Succeeds(payloads, next_ino, payloads', next_ino')
        BY <2>1, <3>1, WriteEffect
      <4>2. \A p \in DOMAIN payloads : payloads'[p].type = payloads[p].type
        BY <4>1 DEF Succeeds
      <4> QED
        BY <4>1, <4>2 DEF RootInPlace, KindsStay
    <3> QED
      BY <2>2, <3>1, UntouchedRoot
  <2>4. \/ UNCHANGED caches
        \/ \E to, size : /\ file' = [file EXCEPT ![fd].f_pos = to]
                         /\ icache' = [icache EXCEPT ![id].i_size = size]
    BY <1>7 DEF vtfs_write, vtfs_update_inode_size
  <2>5. NumbersStay
    <3>1. ASSUME NEW to, NEW size, file' = [file EXCEPT ![fd].f_pos = to],
                 icache' = [icache EXCEPT ![id].i_size = size]
          PROVE  NumbersStay
      <4>1. SameNumbers(icache')
        BY <2>1, <3>1, NumbersIgnore
      <4> QED
        BY <3>1, <4>1, PositionFollow, MoveFollow
    <3> QED
      BY <2>4, <3>1, SameFollow
  <2> QED
    BY <2>3, <2>5
<1> QED
  BY <1>3, <1>4, <1>5, <1>6, <1>7
\* Open files stay files: a new one is opened where the storage has a file,
\* and a number is not given out twice.
THEOREM CauseInvStep == CauseInv /\ [VtfsNext]_vtfs_vars => CauseInv'
<1> SUFFICES ASSUME VfsInv, RootInPlace, OpenAreFiles, [VtfsNext]_vtfs_vars
             PROVE  RootInPlace' /\ OpenAreFiles'
  BY VfsInvStep DEF CauseInv
<1>1. ASSUME RootInPlace' /\ KindsStay /\ NumbersStay
      PROVE  RootInPlace' /\ OpenAreFiles'
  BY <1>1, OpenKept
<1>2. ASSUME NEW k \in Key,
             \/ vtfs_lookup(k) \/ vtfs_create(k) \/ vtfs_mkdir(k)
             \/ vtfs_unlink(k) \/ vtfs_rmdir(k) \/ shrink(k)
             \/ \E old \in DOMAIN dcache : vtfs_link(old, k)
      PROVE  RootInPlace' /\ OpenAreFiles'
  BY <1>1, <1>2, DirectoryKeepsCause
<1>3. ASSUME \/ \E id \in DOMAIN icache, size \in TruncSizes : truncate(id, size)
             \/ \E fd \in DOMAIN file :
                  \/ close(fd)
                  \/ \E len \in ReadLen : vtfs_read(fd, len)
                  \/ \E buf \in Buffer : vtfs_write(fd, buf)
                  \/ \E offset \in SeekTo, whence \in Whence : vtfs_llseek(fd, offset, whence)
      PROVE  RootInPlace' /\ OpenAreFiles'
  BY <1>1, <1>3, FileKeepsCause
<1>4. ASSUME NEW k \in Key, NEW fd \in Fd, open(fd, k)
      PROVE  RootInPlace' /\ OpenAreFiles'
  <2> DEFINE f == [inode |-> dcache[k], key |-> k, f_pos |-> 0]
  <2>1. /\ UNCHANGED storage /\ UNCHANGED icache /\ file' = Put(file, fd, f)
        /\ k \in DOMAIN dcache /\ dcache[k] # NEG /\ icache[dcache[k]].type = "FILE"
    BY <1>4 DEF open, vars, storage, Positive, Inode
  <2>2. payloads[icache[dcache[k]].i_ino].type = "FILE"
    BY <2>1 DEF VfsInv, CachesSound, PositiveTrue
  <2>3. f.inode = dcache[k]
    OBVIOUS
  <2> HIDE DEF f
  <2>4. \A x \in DOMAIN file' : file'[x] = f \/ (x \in DOMAIN file /\ file'[x] = file[x])
    BY <2>1 DEF Put
  <2>5. payloads' = payloads
    BY <2>1 DEF storage
  <2>6. OpenAreFiles'
    BY <2>1, <2>2, <2>3, <2>4, <2>5 DEF OpenAreFiles
  <2> QED
    BY <2>1, <2>6, UntouchedRoot
<1>5. CASE UNCHANGED vtfs_vars
  <2>1. UNCHANGED storage /\ UNCHANGED caches
    BY <1>5 DEF vtfs_vars, storage, caches
  <2> QED
    BY <1>1, <2>1, UntouchedRoot, SameFollow
<1> QED
  BY <1>2, <1>3, <1>4, <1>5 DEF VtfsNext

\* Freshly mounted, nothing is open.
THEOREM CauseInvInit == VtfsInit => CauseInv
<1> SUFFICES ASSUME VtfsInit
             PROVE  VfsInv /\ RootInPlace /\ OpenAreFiles
  BY DEF CauseInv
<1>1. file = <<>>
  BY DEF VtfsInit
<1>2. DOMAIN file = {}
  BY <1>1
<1> QED
  BY <1>2, VfsInvInit, HandlersFsInit DEF FsInv, OpenAreFiles

\* The caches are right about the storage, the root is there, and what is
\* open is a file.
THEOREM CauseInvariance == VtfsSpec => []CauseInv
BY CauseInvInit, CauseInvStep, PTL DEF VtfsSpec

-----------------------------------------------------------------------------
(* No refusal without a cause.                                             *)

WithCause ==
  \/ ret' \in {-ENOMEM, -ENOTEMPTY, -EFBIG, -EFAULT}
  \/ ret' = -EEXIST /\ InodeAllocFails
  \/ /\ ret' = -ENOENT
     /\ \E fd \in DOMAIN file : ~Reaches(icache[file[fd].inode].i_ino)

\* A directory that the VFS has reached is one of the storage's.
LEMMA DirThere == ASSUME CauseInv, NEW d, HasDir(d) PROVE IsDir(d)
<1>1. IInv /\ PositiveTrue(icache, dcache, nodes, payloads) /\ RootInPlace
  BY DEF CauseInv, VfsInv, CachesSound
<1>2. CASE d = VTFS_ROOT_INO
  <2>1. VTFS_ROOT_INO \in DOMAIN payloads /\ payloads[VTFS_ROOT_INO].type = "DIR"
    BY Zenon DEF CauseInv, VfsInv, RootInPlace
  <2> QED
    BY <1>1, <1>2, <2>1, StorageFacts DEF IsDir
<1>3. CASE \E k \in DOMAIN dcache : Positive(k) /\ Inode(k).i_ino = d /\ Inode(k).type = "DIR"
  BY <1>1, <1>3 DEF Positive, Inode, PositiveTrue, LeadsTo, IsDir, Reaches
<1> QED
  BY <1>2, <1>3 DEF HasDir

\* A name that the VFS takes to be free is free, unless new_inode has failed.
LEMMA MissingFree ==
  ASSUME VfsInv, NEW k \in Key, Missing(k), ~InodeAllocFails
  PROVE  ~HasChild(k[1], k[2])
<1>1. CASE k \in DOMAIN dcache /\ dcache[k] = NEG
  <2>1. \A i \in DOMAIN nodes : ~Bears(nodes[i], k)
    BY <1>1 DEF VfsInv, CachesSound, NegativeTrue
  <2> QED
    BY <2>1 DEF Bears, HasChild, IsChild
<1>2. CASE ~HasEntry(k)
  BY <1>2 DEF HasEntry
<1> QED
  BY <1>1, <1>2 DEF Missing

\* A positive dentry's entry is there, with the inode's number and type.
LEMMA PositiveFound ==
  ASSUME VfsInv, NEW k, Positive(k)
  PROVE  /\ HasChild(k[1], k[2]) /\ Reaches(Inode(k).i_ino)
         /\ payloads[Inode(k).i_ino].type = Inode(k).type
         /\ \A j \in DOMAIN nodes :
              FindChild(j, k[1], k[2]) => nodes[j].payload = Inode(k).i_ino
<1>1. /\ LeadsTo(nodes, k, Inode(k).i_ino) /\ payloads[Inode(k).i_ino].type = Inode(k).type
      /\ UniqueNames
  BY DEF VfsInv, IInv, CachesSound, PositiveTrue, Positive, Inode
<1>2. PICK i \in DOMAIN nodes : Bears(nodes[i], k) /\ nodes[i].payload = Inode(k).i_ino
  BY <1>1 DEF LeadsTo
<1>3. \A j \in DOMAIN nodes : FindChild(j, k[1], k[2]) => j = i
  BY <1>1, <1>2 DEF FindChild, IsChild, Bears, UniqueNames
<1> QED
  BY <1>1, <1>2, <1>3 DEF HasChild, IsChild, Bears, Reaches

\* create and mkdir: the directory is there; the name is free.
LEMMA CreateCause ==
  ASSUME CauseInv, NEW k \in Key, NEW type, Missing(k), AddNode(k[1], k[2], type), ret' < 0
  PROVE  WithCause
<1>1. IsDir(k[1])
  BY DirThere DEF Missing
<1>2. CASE ret' = -CreateError(k[1], k[2]) /\ CreateError(k[1], k[2]) # 0
  <2>1. ret' = -EEXIST /\ HasChild(k[1], k[2])
    BY <1>1, <1>2 DEF CreateError
  <2>2. InodeAllocFails
    BY <2>1, MissingFree DEF CauseInv
  <2> QED
    BY <2>1, <2>2 DEF WithCause
<1>3. CASE ret' = -ENOMEM
  BY <1>3 DEF WithCause
<1>4. CASE ret' = 0
  BY <1>4
<1>5. TypeOK
  BY DEF CauseInv, VfsInv, IInv
<1> QED
  BY <1>2, <1>3, <1>4, <1>5, AddNodeCases DEF Fail

\* unlink: the dentry says that the entry is there, and a file.
LEMMA UnlinkCause ==
  ASSUME CauseInv, NEW k \in Key, vtfs_unlink(k)
  PROVE  ~(ret' < 0)
<1>1. /\ HasChild(k[1], k[2])
      /\ \A j \in DOMAIN nodes :
           FindChild(j, k[1], k[2]) => payloads[nodes[j].payload].type = "FILE"
  BY PositiveFound DEF CauseInv, vtfs_unlink
<1>2. ret' = 0
  BY <1>1 DEF vtfs_unlink, unlink, RemoveNode
<1>3. ~(0 < 0)
  OBVIOUS
<1> QED
  BY <1>2, <1>3, Zenon

\* rmdir: it is there, and a directory; it may have entries.
LEMMA RmdirCause ==
  ASSUME CauseInv, NEW k \in Key, vtfs_rmdir(k), ret' < 0
  PROVE  WithCause
<1>1. /\ HasChild(k[1], k[2])
      /\ \A j \in DOMAIN nodes :
           FindChild(j, k[1], k[2]) => payloads[nodes[j].payload].type = "DIR"
  BY PositiveFound DEF CauseInv, vtfs_rmdir
<1>2. ret' = 0 \/ ret' = -ENOTEMPTY
  BY <1>1 DEF vtfs_rmdir, rmdir, RemoveNode, Fail
<1> QED
  BY <1>2 DEF WithCause

\* link: the file is there since one of its names is, and the directory is.
LEMMA LinkCause ==
  ASSUME CauseInv, NEW k \in Key, NEW old, vtfs_link(old, k), ret' < 0
  PROVE  WithCause
<1> DEFINE ino == Inode(old).i_ino
<1>1. CanLink(old, k) /\ link(ino, k[1], k[2])
  BY DEF vtfs_link
<1>2. Reaches(ino) /\ payloads[ino].type = "FILE" /\ Missing(k)
  BY <1>1, PositiveFound DEF CauseInv, CanLink
<1>3. IsDir(k[1])
  BY <1>2, DirThere DEF Missing
<1> HIDE DEF ino
<1>4. CASE ret' = -LinkError(ino, k[1], k[2]) /\ LinkError(ino, k[1], k[2]) # 0
  <2>1. ret' = -EEXIST /\ HasChild(k[1], k[2])
    BY <1>2, <1>3, <1>4 DEF LinkError
  <2>2. InodeAllocFails
    BY <1>2, <2>1, MissingFree DEF CauseInv
  <2> QED
    BY <2>1, <2>2 DEF WithCause
<1>5. CASE ret' = -ENOMEM
  BY <1>5 DEF WithCause
<1> QED
  BY <1>1, <1>4, <1>5 DEF link, Fail

\* read: the file is gone, or the buffer faults; it is never a directory, and
\* its position never negative.
LEMMA ReadCause ==
  ASSUME CauseInv, NEW fd \in DOMAIN file, NEW len \in ReadLen, vtfs_read(fd, len), ret' < 0
  PROVE  WithCause
<1> DEFINE ino == icache[file[fd].inode].i_ino
<1>1. CASE ret' = -ENOENT /\ ~Reaches(ino)
  BY <1>1 DEF WithCause
<1>2. CASE ret' = -EFAULT
  BY <1>2 DEF WithCause
<1>3. CASE Reaches(ino) /\ ret' = Len(ReadBytes(ino, file[fd].f_pos, len))
  <2> DEFINE pos  == file[fd].f_pos
             size == payloads[ino].size
             n    == IF pos + len <= size THEN len ELSE IF pos < size THEN size - pos ELSE 0
  <2>1. pos \in Nat /\ len \in Nat
    BY LoffAssumption, SizeAssumption DEF CauseInv, VfsInv, CachesSound, Tables, OpenFile
  <2>2. size \in Nat
    BY <1>3, StorageFacts DEF CauseInv, VfsInv, Payload
  <2>3. ReadBytes(ino, pos, len) = [b \in 1..n |-> payloads[ino].data[pos + b]]
    BY DEF ReadBytes
  <2>4. n \in Nat
    BY <2>1, <2>2
  <2> HIDE DEF n
  <2>5. Len(ReadBytes(ino, pos, len)) = n
    BY <2>3, <2>4
  <2> QED
    BY <1>3, <2>4, <2>5
<1>4. CASE ReadError(ino, file[fd].f_pos) # 0 /\ ret' = -ReadError(ino, file[fd].f_pos)
  <2>1. Reaches(ino) => payloads[ino].type = "FILE"
    BY StorageFacts DEF CauseInv, VfsInv, OpenAreFiles
  <2>2. file[fd].f_pos \in Nat
    BY SizeAssumption DEF CauseInv, VfsInv, CachesSound, Tables, OpenFile
  <2> HIDE DEF ino
  <2>3. Reaches(ino) => ReadError(ino, file[fd].f_pos) = 0
    BY <2>1, <2>2 DEF ReadError
  <2>4. ~Reaches(ino) /\ ret' = -ENOENT
    BY <1>4, <2>3 DEF ReadError
  <2> QED
    BY <1>1, <2>4
<1>5. ReadError(ino, file[fd].f_pos) = 0 => Reaches(ino)
  BY DEF ReadError, ENOENT
<1> QED
  BY <1>2, <1>3, <1>4, <1>5 DEF vtfs_read

\* write: the file is gone, too big, short of memory, or the buffer faults; it
\* is never a directory, and its position never negative.
LEMMA WriteCause ==
  ASSUME CauseInv, NEW fd \in DOMAIN file, NEW buf \in Buffer, vtfs_write(fd, buf), ret' < 0
  PROVE  WithCause
<1> DEFINE ino == icache[file[fd].inode].i_ino
           pos == file[fd].f_pos
           n   == Len(buf)
<1>1. pos \in Nat /\ n \in Nat
  BY IoAssumption, SizeAssumption DEF CauseInv, VfsInv, CachesSound, Tables, OpenFile
<1>2. vtfs_validate_io_params(pos, n) \in {0, EFBIG}
  BY <1>1 DEF vtfs_validate_io_params
<1>3. Reaches(ino) => payloads[ino].type = "FILE"
  BY StorageFacts DEF CauseInv, VfsInv, OpenAreFiles
<1>4. /\ ~Reaches(ino) => WriteError(ino, pos, n) = ENOENT
      /\ Reaches(ino) => WriteError(ino, pos, n) \in {0, EFBIG}
  BY <1>2, <1>3 DEF WriteError
<1>5. \/ vtfs_validate_io_params(pos, n) # 0 /\ Fail(vtfs_validate_io_params(pos, n))
      \/ write(ino, pos, buf)
  BY DEF vtfs_write
<1> HIDE DEF ino, pos
<1>6. CASE vtfs_validate_io_params(pos, n) # 0 /\ Fail(vtfs_validate_io_params(pos, n))
  BY <1>2, <1>6 DEF Fail, WithCause
<1>7. CASE WriteError(ino, pos, n) # 0 /\ Fail(WriteError(ino, pos, n))
  <2>1. CASE Reaches(ino)
    BY <1>4, <1>7, <2>1 DEF Fail, WithCause
  <2>2. CASE ~Reaches(ino)
    BY <1>4, <1>7, <2>2 DEF Fail, WithCause, ino
  <2> QED
    BY <2>1, <2>2
<1>8. CASE ret' \in {-ENOMEM, -EFAULT}
  BY <1>8 DEF WithCause
<1>9. CASE ret' = n
  BY <1>1, <1>9
<1> QED
  BY <1>5, <1>6, <1>7, <1>8, <1>9 DEF write, Fail

\* A process that comes through the VFS is refused for want of memory, for a
\* directory that has entries, an offset too big or a faulting buffer, for a
\* name that a failed new_inode has hidden, and for a file that it has open and
\* somebody has unlinked; for nothing else.
THEOREM RefusalsHaveCause == VtfsSpec => RefusedOnlyForCause
<1>1. ASSUME CauseInv, [VtfsNext]_vtfs_vars
      PROVE  [ret' < 0 /\ ret' # ret => WithCause]_vtfs_vars
  <2> SUFFICES ASSUME VtfsNext, ret' < 0, ret' # ret
               PROVE  WithCause
    BY <1>1
  <2>1. ASSUME NEW k \in Key, vtfs_create(k) \/ vtfs_mkdir(k)
        PROVE  WithCause
    BY <1>1, <2>1, CreateCause DEF vtfs_create, vtfs_mkdir, create_file, mkdir
  <2>2. ASSUME NEW k \in Key, vtfs_unlink(k) \/ vtfs_rmdir(k)
        PROVE  WithCause
    BY <1>1, <2>2, UnlinkCause, RmdirCause
  <2>3. ASSUME NEW k \in Key, NEW old \in DOMAIN dcache, vtfs_link(old, k)
        PROVE  WithCause
    BY <1>1, <2>3, LinkCause
  <2>4. ASSUME NEW fd \in DOMAIN file, \E len \in ReadLen : vtfs_read(fd, len)
        PROVE  WithCause
    BY <1>1, <2>4, ReadCause
  <2>5. ASSUME NEW fd \in DOMAIN file, \E buf \in Buffer : vtfs_write(fd, buf)
        PROVE  WithCause
    BY <1>1, <2>5, WriteCause
  <2>6. ASSUME NEW k \in Key, vtfs_lookup(k) \/ shrink(k) \/ \E fd \in Fd : open(fd, k)
        PROVE  FALSE
    BY <2>6 DEF vtfs_lookup, shrink, open, vars
  <2>7. ASSUME NEW id \in DOMAIN icache, NEW size \in TruncSizes, truncate(id, size)
        PROVE  FALSE
    BY <2>7 DEF truncate, vars
  <2>8. ASSUME NEW fd \in DOMAIN file,
               \/ close(fd)
               \/ \E offset \in SeekTo, whence \in Whence : vtfs_llseek(fd, offset, whence)
        PROVE  FALSE
    BY <2>8 DEF close, vtfs_llseek, vars
  <2> QED
    BY <2>1, <2>2, <2>3, <2>4, <2>5, <2>6, <2>7, <2>8 DEF VtfsNext
<1>2. CauseInv /\ [VtfsNext]_vtfs_vars => [ret' < 0 /\ ret' # ret => WithCause]_vtfs_vars
  BY <1>1
<1> QED
  BY <1>2, CauseInvariance, PTL DEF VtfsSpec, RefusedOnlyForCause, WithCause
=============================================================================
