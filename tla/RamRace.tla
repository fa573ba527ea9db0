-------------------------------- MODULE RamRace --------------------------------
(***************************************************************************)
(* Several processes inside the RAM storage at once.  The VFS locks the    *)
(* directory that a call works in; the list of nodes and next_ino, which   *)
(* all directories share, have no lock.  Creating, unlinking and looking   *)
(* up are taken apart here into their reads and writes of shared memory.   *)
(*                                                                         *)
(* Reading a node that has been freed, or the payload of one that is not   *)
(* filled in, is undefined: such a step sets ub, and nothing is said of    *)
(* what comes after.  A node's address is not given out again, so that a   *)
(* pointer kept too long is told from one to the node that took its place. *)
(***************************************************************************)
EXTENDS Errno, FiniteSets

CONSTANTS
  Proc,      \* processes
  Dir,       \* inode numbers of the directories, there from the start
  Name,
  OldFile,   \* names there from the start: <<directory, name>>
  Addr,      \* addresses that kmalloc may give out
  MaxOps     \* bound: operations per process

NULL == 0
VTFS_ROOT_INO == 1000
FIRST_INO == 2000   \* above those of the directories

ASSUME AddrAssumption == Addr \subseteq Nat \ {NULL}
ASSUME DirAssumption ==
  /\ Dir \subseteq VTFS_ROOT_INO..1499 /\ VTFS_ROOT_INO \in Dir
  /\ OldFile \subseteq Dir \X Name /\ IsFiniteSet(OldFile)

VARIABLES
  heap,      \* the nodes by address: new (not filled in), filled, or freed
  head,      \* nodes_head
  next_ino,
  proc,      \* what each process is doing
  ops,       \* operations begun by each process
  known,     \* names whose creation has been reported: their nodes
  raced,     \* a write came after a change of what it was computed from
  ub         \* undefined behaviour has happened

shared    == <<heap, head, next_ino>>
race_vars == <<heap, head, next_ino, proc, ops, known, raced, ub>>

Idle == [pc |-> "idle"]
Node(next, parent_ino, name, ino) ==
  [st |-> "filled", next |-> next, parent_ino |-> parent_ino, name |-> name, ino |-> ino]

Running(p) == proc[p].pc # "idle"
At(p, pc)  == ~ub /\ proc[p].pc = pc
Key(p)     == <<proc[p].dir, proc[p].name>>

\* i_rwsem of the directory: lookups share it, others have it alone.
MayLock(p, op, dir) ==
  \A q \in Proc \ {p} : Running(q) /\ proc[q].dir = dir => op = "lookup" /\ proc[q].op = "lookup"

\* A call begins and reads nodes_head.
Begin(p, op, dir, name) ==
  /\ ~ub /\ ~Running(p) /\ ops[p] < MaxOps /\ MayLock(p, op, dir)
  /\ ops' = [ops EXCEPT ![p] = @ + 1]
  /\ proc' = [proc EXCEPT ![p] = [pc |-> "walk", op |-> op, dir |-> dir, name |-> name,
                 prev |-> NULL, cur |-> head, next |-> NULL, ino |-> 0, ret |-> 0]]
  /\ UNCHANGED <<known, raced, ub>> /\ UNCHANGED shared

create(p, dir, name) == Begin(p, "create", dir, name)
unlink(p, dir, name) == Begin(p, "unlink", dir, name)
lookup(p, dir, name) == Begin(p, "lookup", dir, name)

\* A step that changes nothing but the process's own variables.
Goes(p, local) == proc' = [proc EXCEPT ![p] = local] /\ UNCHANGED <<shared, ops, known, raced, ub>>
Returns(p, ret) == Goes(p, [proc[p] EXCEPT !.pc = "returns", !.ret = ret])
Crashes == ub' = TRUE /\ UNCHANGED <<shared, proc, ops, known, raced>>

Leave(p) ==
  /\ At(p, "returns")
  /\ proc' = [proc EXCEPT ![p] = Idle]
  /\ UNCHANGED <<shared, ops, known, raced, ub>>

-----------------------------------------------------------------------------
(* Walking. *)

Cur(p)    == heap[proc[p].cur]
Filled(p) == Cur(p).st = "filled"

\* cur->parent_ino == parent && !strcmp(cur->name, name), at a filled node.
IsChild(n, parent, name) == n.st = "filled" /\ n.parent_ino = parent /\ n.name = name

\* The memory of a new node may be a freed one's and still hold its name.
Stale(k) == \E a \in DOMAIN heap :
  heap[a].st = "freed" /\ k = <<heap[a].parent_ino, heap[a].name>>

CreateMatchesNone(p) ==   \* mutant: create_file does not look for the name
  proc[p].op # "create" /\ IsChild(Cur(p), proc[p].dir, proc[p].name)
Matches(p) ==
  IsChild(Cur(p), proc[p].dir, proc[p].name) \/ (Cur(p).st = "new" /\ Stale(Key(p)))

\* find_child, and the loop of vtfs_ram_storage_unlink, one node at a time.
Walk(p) ==
  /\ At(p, "walk")
  /\ LET me == proc[p] IN
     IF me.cur = NULL
     THEN IF me.op = "create" THEN Goes(p, [me EXCEPT !.pc = "parent", !.cur = head])
          ELSE Returns(p, -ENOENT)
     ELSE \/ Cur(p).st = "freed" /\ Crashes
          \/ /\ Cur(p).st # "freed" /\ Matches(p)
             /\ \/ me.op = "create" /\ Returns(p, -EEXIST)
                \/ me.op # "create" /\ ~Filled(p) /\ Crashes
                \/ me.op = "lookup" /\ Filled(p) /\ Returns(p, 0)
                \/ me.op = "unlink" /\ Filled(p) /\ Goes(p, [me EXCEPT !.pc = "cut"])
          \/ /\ Cur(p).st = "new" \/ (Filled(p) /\ ~Matches(p))
             /\ Goes(p, [me EXCEPT !.prev = me.cur, !.cur = Cur(p).next])

\* find_node_by_ino for the parent: it looks into every node's payload, and
\* what a new node has for a payload may or may not bear looking into.
FindParent(p) ==
  /\ At(p, "parent")
  /\ LET me == proc[p] IN
     IF me.cur = NULL THEN Returns(p, -ENOTDIR)
     ELSE \/ ~Filled(p) /\ Crashes
          \/ Filled(p) /\ Cur(p).ino = me.dir /\ Goes(p, [me EXCEPT !.pc = "alloc"])
          \/ /\ Cur(p).st = "new" \/ (Filled(p) /\ Cur(p).ino # me.dir)
             /\ Goes(p, [me EXCEPT !.cur = Cur(p).next])

-----------------------------------------------------------------------------
(* Adding a node. *)

\* alloc_node up to node->next = storage->nodes_head.
Alloc(p) ==
  /\ At(p, "alloc")
  /\ \/ Returns(p, -ENOMEM)
     \/ \E a \in Addr \ DOMAIN heap :
          /\ \A other \in Addr \ DOMAIN heap : a <= other
          /\ heap' = [b \in DOMAIN heap \cup {a} |->
                        IF b = a THEN [Node(head, 0, "", 0) EXCEPT !.st = "new"] ELSE heap[b]]
          /\ proc' = [proc EXCEPT ![p].pc = "publish", ![p].cur = a]
          /\ UNCHANGED <<head, next_ino, ops, known, raced, ub>>

\* storage->nodes_head = node.
Publish(p) ==
  /\ At(p, "publish")
  /\ head' = proc[p].cur
  /\ raced' = (raced \/ head # Cur(p).next)
  /\ proc' = [proc EXCEPT ![p].pc = "take"]
  /\ UNCHANGED <<heap, next_ino, ops, known, ub>>

\* storage->next_ino++, a read and a write.
TakeIno(p) == At(p, "take") /\ Goes(p, [proc[p] EXCEPT !.pc = "bump", !.ino = next_ino])
Bump(p) ==
  /\ At(p, "bump")
  /\ next_ino' = proc[p].ino + 1
  /\ raced' = (raced \/ next_ino # proc[p].ino)
  /\ proc' = [proc EXCEPT ![p].pc = "fill"]
  /\ UNCHANGED <<heap, head, ops, known, ub>>

\* The node's name, parent and payload; the call succeeds.
Fill(p) ==
  /\ At(p, "fill")
  /\ heap' = [heap EXCEPT ![proc[p].cur] = Node(@.next, proc[p].dir, proc[p].name, proc[p].ino)]
  /\ known' = [k \in DOMAIN known \cup {Key(p)} |->
                 IF k = Key(p) THEN proc[p].cur ELSE known[k]]
  /\ proc' = [proc EXCEPT ![p].pc = "returns"]
  /\ UNCHANGED <<head, next_ino, ops, raced, ub>>

-----------------------------------------------------------------------------
(* Removing a node. *)

\* What a walk that starts at the node first meets: the least set that holds
\* it and, with a node, the node's next.
Closed(h, first, R) ==
  first \in R \cup {NULL} /\ \A a \in R : h[a].next \in R \cup {NULL}
From(h, first) ==
  LET closed == {R \in SUBSET DOMAIN h : Closed(h, first, R)}
  IN {a \in DOMAIN h : \A R \in closed : a \in R}
Reached == From(heap, head)

\* prev and cur still stand in the list one after the other.
StillLinked(p) ==
  IF proc[p].prev = NULL THEN head = proc[p].cur
  ELSE proc[p].prev \in Reached /\ heap[proc[p].prev].next = proc[p].cur

CutsTheRest(p) ==   \* mutant: prev->next = NULL
  /\ At(p, "cut") /\ Goes(p, [proc[p] EXCEPT !.pc = "relink"])

\* cur->next is read.
Cut(p) ==
  /\ At(p, "cut") /\ Goes(p, [proc[p] EXCEPT !.pc = "relink", !.next = Cur(p).next])

UnlinkedButTheHead(p) ==   \* mutant: nothing is done when there is no prev
  /\ UNCHANGED head
  /\ heap' = IF proc[p].prev = NULL THEN heap ELSE [heap EXCEPT ![proc[p].prev].next = proc[p].next]

\* prev->next = cur->next, or storage->nodes_head = cur->next.
Unlinked(p) ==
  IF proc[p].prev = NULL THEN head' = proc[p].next /\ UNCHANGED heap
  ELSE heap' = [heap EXCEPT ![proc[p].prev].next = proc[p].next] /\ UNCHANGED head

Relink(p) ==
  /\ At(p, "relink")
  /\ LET me == proc[p] IN
     IF me.prev # NULL /\ heap[me.prev].st = "freed" THEN Crashes
     ELSE /\ Unlinked(p)
          /\ raced' = (raced \/ ~StillLinked(p) \/ Cur(p).next # me.next)
          /\ proc' = [proc EXCEPT ![p].pc = "free"]
          /\ UNCHANGED <<next_ino, ops, known, ub>>

\* payload_put, kfree(cur); the call succeeds.
Free(p) ==
  /\ At(p, "free")
  /\ heap' = [heap EXCEPT ![proc[p].cur].st = "freed"]
  /\ known' = [k \in DOMAIN known \ {Key(p)} |-> known[k]]
  /\ proc' = [proc EXCEPT ![p].pc = "returns"]
  /\ UNCHANGED <<head, next_ino, ops, raced, ub>>

-----------------------------------------------------------------------------

\* The directories' nodes and the old files': an entry's node precedes its
\* directory's, which was there when the entry came to the head of the list.
FirstNodes == [k \in OldFile \cup {<<0, d>> : d \in Dir} |->
                 IF k \in OldFile THEN 0 ELSE k[2]]

RaceInit ==
  LET n == Cardinality(DOMAIN FirstNodes) IN
  /\ \E order \in [1..n -> DOMAIN FirstNodes] :
       /\ \A i, j \in 1..n : order[i] = order[j] => i = j
       /\ known = [k \in OldFile |-> CHOOSE a \in 1..n : order[a] = k]
       /\ \A k \in OldFile : \E a \in 1..n : order[a] = k
       /\ order[n] = <<0, VTFS_ROOT_INO>>
       /\ \A i, j \in 1..n :
            order[i] \in OldFile /\ order[j] = <<0, order[i][1]>> => i < j
       /\ heap = [a \in 1..n |->
            LET k    == order[a]
                next == IF a = n THEN NULL ELSE a + 1
            IN IF k \in OldFile THEN Node(next, k[1], k[2], FIRST_INO + a)
               ELSE Node(next, 0, "", k[2])]
  /\ head = 1 /\ next_ino = FIRST_INO + n + 1
  /\ proc = [p \in Proc |-> Idle] /\ ops = [p \in Proc |-> 0]
  /\ raced = FALSE /\ ub = FALSE

RaceNext ==
  \E p \in Proc :
    \/ \E dir \in Dir, name \in Name :
         create(p, dir, name) \/ unlink(p, dir, name) \/ lookup(p, dir, name)
    \/ Walk(p) \/ FindParent(p) \/ Alloc(p) \/ Publish(p) \/ TakeIno(p) \/ Bump(p)
    \/ Fill(p) \/ Cut(p) \/ Relink(p) \/ Free(p) \/ Leave(p)

RaceSpec == RaceInit /\ [][RaceNext]_race_vars

-----------------------------------------------------------------------------
(* Properties. *)

\* With no more than two directories, of which one process at a time changes
\* each, no directory holds a name twice whatever happens to the list: the lock
\* is enough for find_child and the insertion after it.  Three are too many: a
\* node that a stale write to nodes_head takes out comes back with another,
\* when its name has been created again.
UniqueInTwoDirectories ==
  ~ub /\ Cardinality(Dir) <= 2 => \A a, b \in Reached :
    /\ heap[a].st = "filled" /\ heap[b].st = "filled" /\ heap[a].parent_ino # 0
    /\ heap[a].parent_ino = heap[b].parent_ino /\ heap[a].name = heap[b].name
    => a = b

\* A lookup or an unlink that returns -ENOENT is right in the same case: the
\* name is not in the list, however the list changed under the walk.
NotFound ==
  \A p \in Proc :
    At(p, "returns") /\ proc[p].ret = -ENOENT =>
      \A a \in Reached : ~IsChild(heap[a], proc[p].dir, proc[p].name)
NotFoundInTwoDirectories == Cardinality(Dir) <= 2 => NotFound

\* The list loses a name, holds it twice, hides it from a walk, keeps a freed
\* node or gives two files one inode number only if one of the three writes
\* that no lock protects (nodes_head, prev->next, next_ino) came after a change
\* of what it was computed from: the node published over a newer head, the node
\* unlinked from a predecessor that had left the list, the number taken twice.
Named == {a \in DOMAIN heap : heap[a].st = "filled" /\ heap[a].parent_ino # 0}
IntactUnlessRaced ==
  ~raced /\ ~ub => LET list == Reached IN
    /\ \A k \in DOMAIN known :
         \/ known[k] \in list
         \/ \E p \in Proc : At(p, "free") /\ Key(p) = k
    /\ \A a \in list : heap[a].st # "freed"
    /\ \A a, b \in list \cap Named :
         heap[a].parent_ino = heap[b].parent_ino /\ heap[a].name = heap[b].name => a = b
    /\ NotFound
    /\ \A j, k \in DOMAIN known : heap[known[j]].ino = heap[known[k]].ino => j = k

-----------------------------------------------------------------------------
(* Why IntactUnlessRaced holds.                                            *)

NodeMemory(h) ==
  [st : {"new", "filled", "freed"}, next : DOMAIN h \cup {NULL},
   parent_ino : Nat, name : Name \cup {""}, ino : Nat]
Call(h) ==
  [pc : {"walk", "parent", "alloc", "publish", "take", "bump", "fill", "cut",
         "relink", "free", "returns"},
   op : {"create", "unlink", "lookup"}, dir : Dir, name : Name,
   prev : DOMAIN h \cup {NULL}, cur : DOMAIN h \cup {NULL}, next : DOMAIN h \cup {NULL},
   ino : Nat, ret : Int]
Memory(h, hd, ni, pr, kn) ==
  /\ h \in [DOMAIN h -> NodeMemory(h)] /\ NULL \notin DOMAIN h
  /\ hd \in DOMAIN h \cup {NULL} /\ ni \in Nat
  /\ pr \in [Proc -> Call(h) \cup {Idle}]
  /\ kn \in [DOMAIN kn -> DOMAIN h] /\ DOMAIN kn \subseteq Dir \X Name

\* The lock of a directory does its work.
Alone(pr) == \A p, q \in Proc :
  p # q /\ pr[p].pc # "idle" /\ pr[q].pc # "idle" /\ pr[p].dir = pr[q].dir
    => pr[p].op = "lookup" /\ pr[q].op = "lookup"

\* The list is one: no two of its nodes have one next, and none leads back.
Straight(h, first) == \A a \in From(h, first) : h[a].next # NULL =>
  /\ h[a].next # first
  /\ \A b \in From(h, first) : h[a].next = h[b].next => a = b

\* The named nodes are the known ones.
Accounted(h, kn) ==
  /\ \A k \in DOMAIN kn : IsChild(h[kn[k]], k[1], k[2])
  /\ \A a \in DOMAIN h : h[a].st = "filled" /\ h[a].parent_ino # 0 =>
       /\ <<h[a].parent_ino, h[a].name>> \in DOMAIN kn
       /\ kn[<<h[a].parent_ino, h[a].name>>] = a

\* They are in the list until they are taken out, and freed ones are not.
Listed(h, hd, pr, kn) ==
  /\ \A a \in From(h, hd) : h[a].st # "freed"
  /\ \A k \in DOMAIN kn :
       kn[k] \in From(h, hd) \/ \E p \in Proc : pr[p].pc = "free" /\ <<pr[p].dir, pr[p].name>> = k

\* Where each call is: a walk has the name's node before it; a creation past
\* its walk has a name that nobody has, and its node is its own; an unlink
\* past its walk has the name's node.
MidCall(c, h, hd, ni, kn) ==
  LET k == <<c.dir, c.name>> IN
  /\ c.pc = "walk" /\ k \in DOMAIN kn => kn[k] \in From(h, c.cur)
  /\ c.pc \in {"parent", "alloc", "publish", "take", "bump", "fill"} =>
       c.op = "create" /\ k \notin DOMAIN kn
  /\ IF c.pc = "returns" THEN c.ret = -ENOENT => k \notin DOMAIN kn ELSE c.ret = 0
  /\ c.pc \in {"publish", "take", "bump", "fill"} => c.cur # NULL /\ h[c.cur].st = "new"
  /\ c.pc = "publish" => hd # c.cur /\ \A a \in DOMAIN h : h[a].next # c.cur
  /\ c.pc \in {"take", "bump", "fill"} => c.cur \in From(h, hd)
  /\ c.pc = "fill" => c.ino < ni /\ \A j \in DOMAIN kn : h[kn[j]].ino # c.ino
  /\ c.pc \in {"cut", "relink", "free"} => c.op = "unlink" /\ k \in DOMAIN kn /\ kn[k] = c.cur
  /\ c.pc = "free" => c.cur \notin From(h, hd)

\* Nothing is given to two.
Apart(h, ni, pr, kn) ==
  /\ \A p, q \in Proc : p # q =>
       /\ pr[p].pc \in {"publish", "take", "bump", "fill"}
            /\ pr[q].pc \in {"publish", "take", "bump", "fill"} => pr[p].cur # pr[q].cur
       /\ pr[p].pc = "fill" /\ pr[q].pc = "fill" => pr[p].ino # pr[q].ino
  /\ \A j \in DOMAIN kn : h[kn[j]].ino < ni
  /\ \A j, k \in DOMAIN kn : h[kn[j]].ino = h[kn[k]].ino => j = k

Sound(h, hd, ni, pr, kn) ==
  /\ Memory(h, hd, ni, pr, kn) /\ Alone(pr) /\ Straight(h, hd) /\ Accounted(h, kn)
  /\ Listed(h, hd, pr, kn) /\ Apart(h, ni, pr, kn)
  /\ \A p \in Proc : pr[p].pc # "idle" => MidCall(pr[p], h, hd, ni, kn)

RaceInv ==
  /\ raced \in BOOLEAN /\ ub \in BOOLEAN
  /\ raced \/ ub \/ Sound(heap, head, next_ino, proc, known)

-----------------------------------------------------------------------------
(* Why two directories are safe.                                           *)

\* The nodes that are not freed and not about to be, and those of them that a
\* walk meets.
Live(h, pr) == {a \in DOMAIN h :
  h[a].st # "freed" /\ \A p \in Proc : pr[p].pc = "free" => pr[p].cur # a}
Onward(h, pr, first) == From(h, first) \cap Live(h, pr)

\* The entries of a directory, with the node that a creation is filling in.
Adding == {"publish", "take", "bump", "fill"}
EntriesOf(h, pr, dir) == {a \in Live(h, pr) :
  \/ h[a].st = "filled" /\ h[a].parent_ino = dir
  \/ h[a].st = "new" /\ \E p \in Proc : pr[p].pc \in Adding /\ pr[p].cur = a /\ pr[p].dir = dir}

\* A call that may yet overwrite nodes_head, and where that would make it lead.
Removing(c) == c.pc \in {"walk", "cut", "relink"} /\ c.op = "unlink"
Holds(c)    == c.pc = "publish" \/ Removing(c)
Held(c)     == IF c.pc = "relink" THEN c.next ELSE c.cur

\* What the list has, or may have after such a write.
Within(h, hd, pr) ==
  Onward(h, pr, hd) \cup UNION {Onward(h, pr, Held(pr[p])) : p \in {q \in Proc : Holds(pr[q])}}

\* Each next is an older node: the first ones were put in in falling order.
Age(a) == LET n == Cardinality(DOMAIN FirstNodes) IN IF a <= n THEN n - a ELSE a
Aged(h) ==
  /\ DOMAIN h \subseteq Nat /\ 1..Cardinality(DOMAIN FirstNodes) \subseteq DOMAIN h
  /\ \A a \in DOMAIN h : h[a].next # NULL => Age(h[a].next) < Age(a)
  /\ \A a \in DOMAIN h, b \in Addr \ DOMAIN h : Age(a) < Age(b)

\* Of another directory, what a call would put back has not left the list.
NothingComesBack(h, hd, pr) ==
  \A p \in Proc : Holds(pr[p]) => \A dir \in Dir \ {pr[p].dir} :
    Onward(h, pr, Held(pr[p])) \cap EntriesOf(h, pr, dir) \subseteq Onward(h, pr, hd)

NamedOnce(h, hd, pr) ==
  \A a, b \in Within(h, hd, pr) :
    h[b].st = "filled" /\ h[b].parent_ino # 0 /\ IsChild(h[a], h[b].parent_ino, h[b].name) => a = b

\* Where each call is: a walk has the name's node before it; the head, where
\* the call would write it, has no more of the directory's entries than what
\* would be written; a creation past its walk has a name that nothing has, an
\* unlink past its walk the only node that has its name.
Fits(c, h, hd, pr) ==
  LET Has(a) == IsChild(h[a], c.dir, c.name) IN
  /\ c.pc = "walk" => \A a \in Onward(h, pr, hd) : Has(a) => a \in Onward(h, pr, c.cur)
  /\ c.pc = "publish" \/ (Removing(c) /\ c.prev = NULL) =>
       Onward(h, pr, hd) \cap EntriesOf(h, pr, c.dir) \subseteq Onward(h, pr, Held(c)) \cup {c.cur}
  /\ c.pc \in {"parent", "alloc"} \cup Adding =>
       c.op = "create" /\ \A a \in Within(h, hd, pr) : ~Has(a)
  /\ c.pc \in Adding => c.cur # NULL /\ h[c.cur].st = "new"
  /\ Removing(c) /\ c.prev # NULL =>
       \/ h[c.prev].next = c.cur
       \/ c.cur # NULL /\ h[c.cur].st # "new" /\ h[c.cur].parent_ino # c.dir
  /\ c.pc \in {"cut", "relink", "free"} =>
       /\ c.op = "unlink" /\ c.cur # NULL /\ Has(c.cur)
       /\ \A a \in Within(h, hd, pr) : Has(a) => a = c.cur
  /\ c.pc = "relink" => /\ c.next # NULL => Age(c.next) < Age(c.cur)
                        /\ Onward(h, pr, c.next) = Onward(h, pr, h[c.cur].next)
  /\ IF c.pc = "returns" THEN c.ret = -ENOENT => \A a \in Onward(h, pr, hd) : ~Has(a)
     ELSE c.ret = 0

Guarded(h, hd, ni, pr, kn) ==
  /\ Memory(h, hd, ni, pr, kn) /\ Alone(pr) /\ Aged(h)
  /\ NothingComesBack(h, hd, pr) /\ NamedOnce(h, hd, pr)
  /\ \A p, q \in Proc : p # q /\ pr[p].pc \in Adding /\ pr[q].pc \in Adding => pr[p].cur # pr[q].cur
  /\ \A p \in Proc : pr[p].pc # "idle" => Fits(pr[p], h, hd, pr)

TwoInv == ~ub /\ Cardinality(Dir) <= 2 => Guarded(heap, head, next_ino, proc, known)
=============================================================================
