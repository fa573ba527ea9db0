---------------------------- MODULE RamRace_proofs ----------------------------
(***************************************************************************)
(* Theorems about RamRace: as long as none of the writes that no lock      *)
(* protects is stale, the list keeps every name once, for any number of    *)
(* processes, directories, names and calls.  And with no more than two     *)
(* directories none holds a name twice or hides one, stale writes or not.  *)
(***************************************************************************)
EXTENDS RamRace, FiniteSetTheorems, TLAPS

-----------------------------------------------------------------------------
(* What a walk meets.                                                      *)

Pointers(h) ==
  NULL \notin DOMAIN h /\ \A a \in DOMAIN h : h[a].next \in DOMAIN h \cup {NULL}

\* The set of the nodes that a walk meets is closed itself, and the least.
LEMMA FromClosed ==
  ASSUME NEW h, Pointers(h), NEW first \in DOMAIN h \cup {NULL}
  PROVE  /\ From(h, first) \subseteq DOMAIN h
         /\ Closed(h, first, From(h, first))
         /\ \A R \in SUBSET DOMAIN h : Closed(h, first, R) => From(h, first) \subseteq R
<1>1. Closed(h, first, DOMAIN h)
  BY DEF Closed, Pointers
<1>2. first \in From(h, first) \cup {NULL}
  BY DEF From, Closed
<1>3. ASSUME NEW a \in From(h, first)
      PROVE  h[a].next \in From(h, first) \cup {NULL}
  <2>1. h[a].next \in DOMAIN h \cup {NULL}
    BY <1>3 DEF From, Pointers
  <2>2. ASSUME NEW R \in SUBSET DOMAIN h, Closed(h, first, R)
        PROVE  h[a].next \in R \cup {NULL}
    BY <1>3, <2>2 DEF From, Closed
  <2> QED
    BY <2>1, <2>2 DEF From
<1> QED
  BY <1>2, <1>3 DEF From, Closed

\* To show that a walk meets a node, take any closed set.
LEMMA FromMeets ==
  ASSUME NEW h, NEW first, NEW a \in DOMAIN h,
         \A R \in SUBSET DOMAIN h : Closed(h, first, R) => a \in R
  PROVE  a \in From(h, first)
BY DEF From

\* It meets nothing from NULL, and from a node that node and what follows.
LEMMA FromNull ==
  ASSUME NEW h, Pointers(h)
  PROVE  From(h, NULL) = {}
<1>1. Closed(h, NULL, {})
  BY DEF Closed
<1> QED
  BY <1>1, FromClosed

LEMMA FromStep ==
  ASSUME NEW h, Pointers(h), NEW first \in DOMAIN h
  PROVE  From(h, first) = {first} \cup From(h, h[first].next)
<1> DEFINE F == From(h, first)
           G == From(h, h[first].next)
<1>1. h[first].next \in DOMAIN h \cup {NULL} /\ first # NULL
  BY DEF Pointers
<1>2. Closed(h, first, F) /\ F \subseteq DOMAIN h
  BY FromClosed
<1>3. Closed(h, h[first].next, G) /\ G \subseteq DOMAIN h
  BY <1>1, FromClosed
<1>4. first \in F
  BY <1>1, <1>2 DEF Closed
<1>5. Closed(h, h[first].next, F)
  BY <1>2, <1>4 DEF Closed
<1>6. G \subseteq F
  BY <1>1, <1>2, <1>5, FromClosed
<1>7. Closed(h, first, {first} \cup G)
  BY <1>3 DEF Closed
<1>8. F \subseteq {first} \cup G
  BY <1>3, <1>7, FromClosed
<1> QED
  BY <1>4, <1>6, <1>8

\* A node in the list that is not the first follows another.
LEMMA FromFollows ==
  ASSUME NEW h, Pointers(h), NEW first \in DOMAIN h \cup {NULL},
         NEW a \in From(h, first), a # first
  PROVE  \E b \in From(h, first) : b # a /\ h[b].next = a
<1> DEFINE F == From(h, first)
<1>1. Closed(h, first, F) /\ F \subseteq DOMAIN h
  BY FromClosed
<1>2. SUFFICES ASSUME \A b \in F : b # a => h[b].next # a
               PROVE  FALSE
  OBVIOUS
<1>3. Closed(h, first, F \ {a})
  BY <1>1, <1>2 DEF Closed
<1>4. F \subseteq F \ {a}
  BY <1>1, <1>3, FromClosed
<1> QED
  BY <1>4

\* A list that is one does not lead from a node to that node.
LEMMA NoLoop ==
  ASSUME NEW h, Pointers(h), NEW first \in DOMAIN h \cup {NULL}, Straight(h, first),
         NEW a \in From(h, first)
  PROVE  h[a].next # a
<1>1. a \in DOMAIN h /\ a # NULL
  BY FromClosed DEF Pointers
<1>2. CASE a = first
  BY <1>1, <1>2 DEF Straight
<1>3. CASE a # first
  <2>1. PICK b \in From(h, first) : b # a /\ h[b].next = a
    BY <1>3, FromFollows
  <2> QED
    BY <1>1, <2>1 DEF Straight
<1> QED
  BY <1>2, <1>3

\* Only the pointers count.
LEMMA FromSame ==
  ASSUME NEW h, NEW g, DOMAIN g = DOMAIN h, \A a \in DOMAIN h : g[a].next = h[a].next,
         NEW first
  PROVE  From(g, first) = From(h, first)
<1>1. \A R \in SUBSET DOMAIN h : Closed(g, first, R) <=> Closed(h, first, R)
  BY DEF Closed
<1> QED
  BY <1>1 DEF From

\* A node that nobody points to changes no walk.
LEMMA FromMore ==
  ASSUME NEW h, NEW g, NEW m, Pointers(h), m \notin DOMAIN h, m # NULL,
         DOMAIN g = DOMAIN h \cup {m}, \A a \in DOMAIN h : g[a].next = h[a].next,
         g[m].next \in DOMAIN h \cup {NULL},
         NEW first \in DOMAIN h \cup {NULL}
  PROVE  From(g, first) = From(h, first)
<1> DEFINE F == From(h, first)
           G == From(g, first)
<1>0. Pointers(g)
  BY DEF Pointers
<1>1. Closed(h, first, F) /\ F \subseteq DOMAIN h
  BY FromClosed
<1>2. Closed(g, first, F) /\ F \in SUBSET DOMAIN g
  BY <1>1 DEF Closed
<1>3. G \subseteq F
  BY <1>0, <1>2, FromClosed
<1>4. G \subseteq DOMAIN h /\ Closed(g, first, G)
  BY <1>0, <1>1, <1>3, FromClosed
<1>5. Closed(h, first, G)
  BY <1>4 DEF Closed
<1> QED
  BY <1>1, <1>3, <1>4, <1>5, FromClosed

\* prev->next = cur->next takes cur out and no other node, for every walk.
LEMMA FromBypass ==
  ASSUME NEW h, NEW g, Pointers(h), NEW prev \in DOMAIN h, NEW cur \in DOMAIN h,
         h[prev].next = cur, DOMAIN g = DOMAIN h,
         g[prev].next = h[cur].next,
         \A a \in DOMAIN h \ {prev} : g[a].next = h[a].next,
         NEW first \in DOMAIN h \cup {NULL}
  PROVE  /\ Pointers(g)
         /\ From(h, first) \ {cur} \subseteq From(g, first)
         /\ From(g, first) \subseteq From(h, first)
<1> DEFINE F == From(h, first)
           G == From(g, first)
<1>0. Pointers(g)
  BY DEF Pointers
<1>1. Closed(h, first, F) /\ F \subseteq DOMAIN h
  BY FromClosed
<1>2. Closed(g, first, F)
  BY <1>1 DEF Closed, Pointers
<1>3. G \subseteq F
  BY <1>0, <1>1, <1>2, FromClosed
<1>4. Closed(g, first, G) /\ G \subseteq DOMAIN h
  BY <1>0, FromClosed
<1>5. CASE prev \in G
  <2>1. Closed(h, first, G \cup {cur})
    BY <1>4, <1>5 DEF Closed
  <2>2. F \subseteq G \cup {cur}
    BY <1>4, <2>1, FromClosed
  <2> QED
    BY <1>0, <1>3, <2>2
<1>6. CASE prev \notin G
  <2>1. Closed(h, first, G)
    BY <1>4, <1>6 DEF Closed
  <2>2. F \subseteq G
    BY <1>4, <2>1, FromClosed
  <2> QED
    BY <1>0, <1>3, <2>2
<1> QED
  BY <1>5, <1>6

\* In a list that is one, it takes cur out and leaves the list one.
LEMMA BypassStraight ==
  ASSUME NEW h, NEW g, Pointers(h), NEW first \in DOMAIN h \cup {NULL}, Straight(h, first),
         NEW prev \in From(h, first), NEW cur \in DOMAIN h,
         h[prev].next = cur, DOMAIN g = DOMAIN h,
         g[prev].next = h[cur].next,
         \A a \in DOMAIN h \ {prev} : g[a].next = h[a].next
  PROVE  From(g, first) = From(h, first) \ {cur} /\ Straight(g, first)
<1> DEFINE F == From(h, first)
           G == From(g, first)
<1>1. Closed(h, first, F) /\ F \subseteq DOMAIN h
  BY FromClosed
<1>2. cur \in F /\ cur # NULL /\ prev # cur /\ h[cur].next # cur
  <2>1. cur \in F /\ cur # NULL
    BY <1>1 DEF Closed, Pointers
  <2> QED
    BY <2>1, NoLoop
<1>3. cur # first
  BY <1>2 DEF Straight
<1>4. Pointers(g) /\ F \ {cur} \subseteq G /\ G \subseteq F
  BY <1>1, FromBypass
<1>5. Closed(g, first, F \ {cur})
  <2>1. first \in (F \ {cur}) \cup {NULL}
    BY <1>1, <1>3 DEF Closed
  <2>2. ASSUME NEW a \in F \ {cur}
        PROVE  g[a].next \in (F \ {cur}) \cup {NULL}
    <3>1. CASE a = prev
      BY <1>1, <1>2, <3>1 DEF Closed
    <3>2. CASE a # prev
      <4>1. g[a].next = h[a].next /\ h[a].next \in F \cup {NULL}
        BY <1>1, <2>2, <3>2 DEF Closed
      <4>2. h[a].next # cur
        BY <1>2, <2>2, <3>2 DEF Straight
      <4> QED
        BY <4>1, <4>2
    <3> QED
      BY <3>1, <3>2
  <2> QED
    BY <2>1, <2>2 DEF Closed
<1>6. G \subseteq F \ {cur}
  BY <1>1, <1>4, <1>5, FromClosed
<1>7. Straight(g, first)
  <2> SUFFICES ASSUME NEW a \in G, g[a].next # NULL
               PROVE  /\ g[a].next # first
                      /\ \A b \in G : g[a].next = g[b].next => a = b
    BY DEF Straight
  <2> DEFINE o(x) == IF x = prev THEN cur ELSE x
  <2>1. \A x \in G : o(x) \in F /\ g[x].next = h[o(x)].next
    BY <1>1, <1>2, <1>6
  <2>2. \A x, y \in G : o(x) = o(y) => x = y
    BY <1>6
  <2>3. h[o(a)].next # first /\ \A b \in G : h[o(a)].next = h[o(b)].next => o(a) = o(b)
    BY <2>1 DEF Straight
  <2> QED
    BY <2>1, <2>2, <2>3
<1> QED
  BY <1>4, <1>6, <1>7

\* nodes_head = cur->next at the first node does the same.
LEMMA BeheadStraight ==
  ASSUME NEW h, Pointers(h), NEW first \in DOMAIN h, Straight(h, first)
  PROVE  /\ From(h, h[first].next) = From(h, first) \ {first}
         /\ Straight(h, h[first].next)
<1> DEFINE F == From(h, first)
           n == h[first].next
           G == From(h, n)
<1>1. Closed(h, first, F) /\ F \subseteq DOMAIN h /\ F = {first} \cup G
  BY FromClosed, FromStep
<1>2. n \in DOMAIN h \cup {NULL} /\ first # NULL /\ first \in F
  BY <1>1 DEF Pointers
<1>3. n # first
  BY <1>2, NoLoop
<1>4. Closed(h, n, F \ {first})
  BY <1>1, <1>2, <1>3 DEF Closed, Straight
<1>5. G \subseteq F \ {first}
  BY <1>1, <1>2, <1>4, FromClosed
<1>6. Straight(h, n)
  <2> SUFFICES ASSUME NEW a \in G, h[a].next # NULL
               PROVE  /\ h[a].next # n
                      /\ \A b \in G : h[a].next = h[b].next => a = b
    BY DEF Straight
  <2>1. a \in F /\ a # first /\ G \subseteq F
    BY <1>5
  <2> QED
    BY <1>2, <2>1 DEF Straight
<1> QED
  BY <1>1, <1>5, <1>6

\* A node of its own put before the first one leaves the list one.
LEMMA PrependStraight ==
  ASSUME NEW h, Pointers(h), NEW first \in DOMAIN h \cup {NULL}, Straight(h, first),
         NEW m \in DOMAIN h, h[m].next = first, \A a \in DOMAIN h : h[a].next # m
  PROVE  From(h, m) = {m} \cup From(h, first) /\ Straight(h, m)
<1>1. From(h, m) = {m} \cup From(h, first) /\ From(h, first) \subseteq DOMAIN h
  BY FromStep, FromClosed
<1> QED
  BY <1>1 DEF Straight

-----------------------------------------------------------------------------
(* Parts of the invariant.                                                 *)

KeyOf(c) == <<c.dir, c.name>>

\* What the steps make of the memory and of the known names.
WithNew(h, hd, m) ==
  [b \in DOMAIN h \cup {m} |-> IF b = m THEN [Node(hd, 0, "", 0) EXCEPT !.st = "new"] ELSE h[b]]
WithFilled(h, c) == [h EXCEPT ![c.cur] = Node(@.next, c.dir, c.name, c.ino)]
WithFreed(h, c)  == [h EXCEPT ![c.cur].st = "freed"]
Knowing(kn, c)   ==
  [k \in DOMAIN kn \cup {KeyOf(c)} |-> IF k = KeyOf(c) THEN c.cur ELSE kn[k]]
Forgetting(kn, c) == [k \in DOMAIN kn \ {KeyOf(c)} |-> kn[k]]

LEMMA MemoryPoints ==
  ASSUME NEW h, NEW hd, NEW ni, NEW pr, NEW kn, Memory(h, hd, ni, pr, kn)
  PROVE  /\ Pointers(h) /\ hd \in DOMAIN h \cup {NULL}
         /\ \A q \in Proc : pr[q].pc # "idle" => pr[q] \in Call(h)
         /\ \A k \in DOMAIN kn : kn[k] \in DOMAIN h /\ kn[k] # NULL
<1>1. \A a \in DOMAIN h : h[a] \in NodeMemory(h)
  BY DEF Memory
<1>2. Pointers(h)
  BY <1>1 DEF Memory, Pointers, NodeMemory
<1> QED
  BY <1>2 DEF Memory, Idle

\* The directory of a call that changes is that of no other call.
LEMMA OwnDirectory ==
  ASSUME NEW pr, Alone(pr), NEW p \in Proc, NEW q \in Proc, p # q,
         pr[p].pc # "idle", pr[q].pc # "idle", pr[p].op # "lookup"
  PROVE  pr[q].dir # pr[p].dir /\ KeyOf(pr[q]) # KeyOf(pr[p])
BY DEF Alone, KeyOf

\* A call that goes on has the lock that it had.
LEMMA LockKept ==
  ASSUME NEW pr, Alone(pr), NEW p \in Proc, NEW c, NEW two, two = [pr EXCEPT ![p] = c],
         DOMAIN pr = Proc, pr[p].pc # "idle", c.dir = pr[p].dir, c.op = pr[p].op
  PROVE  Alone(two)
BY DEF Alone

\* Two names have two nodes.
LEMMA KnownApart ==
  ASSUME NEW h, NEW kn, DOMAIN kn \subseteq Dir \X Name, Accounted(h, kn),
         NEW j \in DOMAIN kn, NEW k \in DOMAIN kn, kn[j] = kn[k]
  PROVE  j = k
<1>1. j = <<j[1], j[2]>> /\ k = <<k[1], k[2]>>
  OBVIOUS
<1> QED
  BY <1>1 DEF Accounted, IsChild

-----------------------------------------------------------------------------
(* Steps that change nothing shared.                                       *)

LEMMA CallMoves ==
  ASSUME NEW h, NEW hd, NEW ni, NEW pr, NEW kn, Sound(h, hd, ni, pr, kn),
         NEW p \in Proc, NEW c \in Call(h) \cup {Idle}, NEW two, two = [pr EXCEPT ![p] = c],
         Alone(two), c.pc # "idle" => MidCall(c, h, hd, ni, kn),
         pr[p].pc # "free", c.pc # "free", c.pc # "fill",
         c.pc \in Adding => pr[p].pc \in Adding /\ c.cur = pr[p].cur
  PROVE  Sound(h, hd, ni, two, kn)
<1>0. /\ Memory(h, hd, ni, pr, kn) /\ Alone(pr) /\ Straight(h, hd) /\ Accounted(h, kn)
      /\ Listed(h, hd, pr, kn) /\ Apart(h, ni, pr, kn)
      /\ \A q \in Proc : pr[q].pc # "idle" => MidCall(pr[q], h, hd, ni, kn)
  BY DEF Sound
<1>1. /\ pr \in [Proc -> Call(h) \cup {Idle}] /\ two \in [Proc -> Call(h) \cup {Idle}]
      /\ two[p] = c /\ \A q \in Proc \ {p} : two[q] = pr[q]
  BY <1>0 DEF Memory
<1> HIDE DEF Idle
<1>2. Memory(h, hd, ni, two, kn)
  BY <1>0, <1>1 DEF Memory
<1>3. Listed(h, hd, two, kn)
  BY <1>0, <1>1 DEF Listed
<1>4. Apart(h, ni, two, kn)
  BY <1>0, <1>1 DEF Apart, Adding
<1>5. ASSUME NEW q \in Proc, two[q].pc # "idle"
      PROVE  MidCall(two[q], h, hd, ni, kn)
  BY <1>0, <1>1, <1>5
<1> QED
  BY <1>0, <1>2, <1>3, <1>4, <1>5 DEF Sound

-----------------------------------------------------------------------------
(* Adding a node.                                                          *)

LEMMA AllocSound ==
  ASSUME NEW h, NEW hd, NEW ni, NEW pr, NEW kn, Sound(h, hd, ni, pr, kn),
         NEW p \in Proc, pr[p].pc = "alloc",
         NEW m, m \notin DOMAIN h, m # NULL,
         NEW g, g = WithNew(h, hd, m),
         NEW two, two = [pr EXCEPT ![p].pc = "publish", ![p].cur = m]
  PROVE  Sound(g, hd, ni, two, kn)
<1> USE DEF WithNew
<1>0. /\ Memory(h, hd, ni, pr, kn) /\ Alone(pr) /\ Straight(h, hd) /\ Accounted(h, kn)
      /\ Listed(h, hd, pr, kn) /\ Apart(h, ni, pr, kn)
      /\ \A q \in Proc : pr[q].pc # "idle" => MidCall(pr[q], h, hd, ni, kn)
  BY DEF Sound
<1>1. /\ Pointers(h) /\ hd \in DOMAIN h \cup {NULL}
      /\ \A q \in Proc : pr[q].pc # "idle" => pr[q] \in Call(h)
      /\ \A k \in DOMAIN kn : kn[k] \in DOMAIN h /\ kn[k] # NULL
  BY <1>0, MemoryPoints
<1>2. /\ DOMAIN g = DOMAIN h \cup {m} /\ g[m].st = "new" /\ g[m].next = hd
      /\ g[m] \in NodeMemory(g)
      /\ \A a \in DOMAIN h : g[a] = h[a]
  BY <1>1 DEF Node, NodeMemory
<1>3. ASSUME NEW first \in DOMAIN h \cup {NULL}
      PROVE  From(g, first) = From(h, first)
  <2>1. /\ Pointers(h) /\ m \notin DOMAIN h /\ m # NULL /\ DOMAIN g = DOMAIN h \cup {m}
        /\ g[m].next \in DOMAIN h \cup {NULL} /\ \A a \in DOMAIN h : g[a].next = h[a].next
    BY <1>1, <1>2
  <2> QED
    BY ONLY <2>1, <1>3, FromMore
<1>4. /\ pr[p] \in Call(h) /\ pr[p].op = "create" /\ pr[p].ret = 0 /\ KeyOf(pr[p]) \notin DOMAIN kn
      /\ pr \in [Proc -> Call(h) \cup {Idle}]
  BY <1>0, <1>1 DEF MidCall, KeyOf, Memory
<1> DEFINE c == [pr[p] EXCEPT !.pc = "publish", !.cur = m]
<1>5. /\ c \in Call(g) /\ c.pc = "publish" /\ c.cur = m /\ c.op = "create"
      /\ c.dir = pr[p].dir /\ c.name = pr[p].name /\ c.ret = 0
  BY <1>2, <1>4 DEF Call
<1>6. two = [pr EXCEPT ![p] = c]
  BY <1>4
<1> HIDE DEF c
<1>7. two[p] = c /\ (\A q \in Proc \ {p} : two[q] = pr[q]) /\ DOMAIN two = Proc
  BY <1>4, <1>6
<1>8. Memory(g, hd, ni, two, kn)
  <2>1. \A a \in DOMAIN h : g[a] \in NodeMemory(g)
    BY <1>0, <1>2 DEF Memory, NodeMemory
  <2>2. g \in [DOMAIN g -> NodeMemory(g)]
    BY <1>2, <2>1
  <2>3. \A q \in Proc : two[q] \in Call(g) \cup {Idle}
    <3>1. Call(h) \subseteq Call(g)
      BY <1>2 DEF Call
    <3> QED
      BY <1>4, <1>5, <1>7, <3>1
  <2>4. two \in [Proc -> Call(g) \cup {Idle}]
    BY <1>4, <1>6, <2>3
  <2>5. kn \in [DOMAIN kn -> DOMAIN g]
    BY <1>0, <1>2 DEF Memory
  <2> QED
    BY <1>0, <1>2, <2>2, <2>4, <2>5 DEF Memory
<1>9. Alone(two)
  <2>1. DOMAIN pr = Proc /\ pr[p].pc # "idle" /\ c.dir = pr[p].dir /\ c.op = pr[p].op
    BY <1>4, <1>5
  <2> QED
    BY <1>0, <1>6, <2>1, LockKept
<1>10. Straight(g, hd)
  <2>1. From(h, hd) \subseteq DOMAIN h
    BY <1>1, FromClosed
  <2> QED
    BY <1>0, <1>1, <1>2, <1>3, <2>1 DEF Straight
<1>11. Accounted(g, kn)
  BY <1>0, <1>1, <1>2 DEF Accounted
<1>12. Listed(g, hd, two, kn)
  <2>1. From(h, hd) \subseteq DOMAIN h
    BY <1>1, FromClosed
  <2> QED
    BY <1>0, <1>1, <1>2, <1>3, <1>4, <1>5, <1>7, <2>1 DEF Listed
<1>13. Apart(g, ni, two, kn)
  <2>1. \A q \in Proc \ {p} : pr[q].pc \in Adding => pr[q].cur # m
    BY <1>0, <1>1 DEF MidCall, Call, Adding
  <2>2. two[p].pc = "publish" /\ two[p].cur = m /\ two[p].pc # "fill"
    BY <1>5, <1>7
  <2>3. \A q, r \in Proc : q # r =>
          /\ two[q].pc \in Adding /\ two[r].pc \in Adding => two[q].cur # two[r].cur
          /\ two[q].pc = "fill" /\ two[r].pc = "fill" => two[q].ino # two[r].ino
    BY ONLY <1>0, <1>7, <2>1, <2>2 DEF Apart, Adding
  <2>4. \A j \in DOMAIN kn : g[kn[j]] = h[kn[j]]
    BY <1>1, <1>2
  <2> QED
    BY <1>0, <2>3, <2>4 DEF Apart, Adding
<1>14. MidCall(c, g, hd, ni, kn)
  BY <1>1, <1>2, <1>4, <1>5 DEF MidCall, KeyOf, Pointers
<1>15. ASSUME NEW q \in Proc \ {p}, pr[q].pc # "idle"
       PROVE  MidCall(pr[q], g, hd, ni, kn)
  <2>1. pr[q] \in Call(h) /\ MidCall(pr[q], h, hd, ni, kn)
    BY <1>0, <1>1, <1>15
  <2>2. pr[q].cur \in DOMAIN h \cup {NULL}
    BY <2>1 DEF Call
  <2>3. From(g, pr[q].cur) = From(h, pr[q].cur) /\ From(g, hd) = From(h, hd)
    BY <1>1, <1>3, <2>2
  <2> QED
    BY <1>1, <1>2, <2>1, <2>2, <2>3 DEF MidCall
<1> QED
  BY <1>7, <1>8, <1>9, <1>10, <1>11, <1>12, <1>13, <1>14, <1>15 DEF Sound

LEMMA PublishSound ==
  ASSUME NEW h, NEW hd, NEW ni, NEW pr, NEW kn, Sound(h, hd, ni, pr, kn),
         NEW p \in Proc, pr[p].pc = "publish", hd = h[pr[p].cur].next,
         NEW two, two = [pr EXCEPT ![p].pc = "take"]
  PROVE  Sound(h, pr[p].cur, ni, two, kn)
<1> DEFINE m == pr[p].cur
           c == [pr[p] EXCEPT !.pc = "take"]
<1>0. /\ Memory(h, hd, ni, pr, kn) /\ Alone(pr) /\ Straight(h, hd) /\ Accounted(h, kn)
      /\ Listed(h, hd, pr, kn) /\ Apart(h, ni, pr, kn)
      /\ \A q \in Proc : pr[q].pc # "idle" => MidCall(pr[q], h, hd, ni, kn)
  BY DEF Sound
<1>1. /\ Pointers(h) /\ hd \in DOMAIN h \cup {NULL}
      /\ \A q \in Proc : pr[q].pc # "idle" => pr[q] \in Call(h)
      /\ \A k \in DOMAIN kn : kn[k] \in DOMAIN h /\ kn[k] # NULL
  BY <1>0, MemoryPoints
<1>2. /\ pr[p] \in Call(h) /\ pr \in [Proc -> Call(h) \cup {Idle}]
      /\ MidCall(pr[p], h, hd, ni, kn)
  BY <1>0, <1>1 DEF Memory
<1>3. /\ m \in DOMAIN h /\ h[m].st = "new" /\ m # hd /\ (\A a \in DOMAIN h : h[a].next # m)
      /\ KeyOf(pr[p]) \notin DOMAIN kn /\ pr[p].op = "create" /\ pr[p].ret = 0
  BY <1>2 DEF MidCall, Call, KeyOf
<1>4. /\ c \in Call(h) /\ c.pc = "take" /\ c.cur = m /\ c.op = "create"
      /\ c.dir = pr[p].dir /\ c.name = pr[p].name /\ c.ret = 0
  BY <1>2, <1>3 DEF Call
<1>5. two = [pr EXCEPT ![p] = c]
  BY <1>2
<1> HIDE DEF c, m
<1>6. two[p] = c /\ (\A q \in Proc \ {p} : two[q] = pr[q]) /\ DOMAIN two = Proc
  BY <1>2, <1>5
<1>7. From(h, m) = {m} \cup From(h, hd) /\ Straight(h, m)
  BY <1>0, <1>1, <1>3, PrependStraight DEF m
<1>8. Memory(h, m, ni, two, kn)
  BY <1>0, <1>2, <1>3, <1>4, <1>5 DEF Memory
<1>9. Alone(two)
  <2>1. DOMAIN pr = Proc /\ pr[p].pc # "idle" /\ c.dir = pr[p].dir /\ c.op = pr[p].op
    BY <1>2, <1>3, <1>4
  <2> QED
    BY <1>0, <1>5, <2>1, LockKept
<1>10. Listed(h, m, two, kn)
  BY <1>0, <1>3, <1>4, <1>6, <1>7 DEF Listed
<1>11. Apart(h, ni, two, kn)
  <2>1. two[p].pc = "take" /\ two[p].cur = pr[p].cur /\ two[p].pc # "fill" /\ pr[p].pc = "publish"
    BY <1>4, <1>6 DEF m
  <2>2. \A q, r \in Proc : q # r =>
          /\ two[q].pc \in Adding /\ two[r].pc \in Adding => two[q].cur # two[r].cur
          /\ two[q].pc = "fill" /\ two[r].pc = "fill" => two[q].ino # two[r].ino
    BY ONLY <1>0, <1>6, <2>1 DEF Apart, Adding
  <2> QED
    BY <1>0, <2>2 DEF Apart, Adding
<1>12. MidCall(c, h, m, ni, kn)
  BY <1>1, <1>3, <1>4, <1>7 DEF MidCall, KeyOf, Pointers
<1>13. ASSUME NEW q \in Proc \ {p}, pr[q].pc # "idle"
       PROVE  MidCall(pr[q], h, m, ni, kn)
  <2>1. MidCall(pr[q], h, hd, ni, kn)
    BY <1>0, <1>13
  <2>2. pr[q].pc = "publish" => m # pr[q].cur
    BY <1>0 DEF Apart, m
  <2>3. pr[q].pc = "free" => m # pr[q].cur
    BY <1>0, <1>3, <2>1 DEF MidCall, Accounted, IsChild
  <2> QED
    BY <1>7, <2>1, <2>2, <2>3 DEF MidCall
<1>14. Sound(h, m, ni, two, kn)
  BY <1>0, <1>6, <1>7, <1>8, <1>9, <1>10, <1>11, <1>12, <1>13 DEF Sound
<1> QED
  BY <1>14 DEF m

LEMMA BumpSound ==
  ASSUME NEW h, NEW hd, NEW ni, NEW pr, NEW kn, Sound(h, hd, ni, pr, kn),
         NEW p \in Proc, pr[p].pc = "bump", ni = pr[p].ino,
         NEW two, two = [pr EXCEPT ![p].pc = "fill"]
  PROVE  Sound(h, hd, ni + 1, two, kn)
<1> DEFINE c == [pr[p] EXCEPT !.pc = "fill"]
<1>0. /\ Memory(h, hd, ni, pr, kn) /\ Alone(pr) /\ Straight(h, hd) /\ Accounted(h, kn)
      /\ Listed(h, hd, pr, kn) /\ Apart(h, ni, pr, kn)
      /\ \A q \in Proc : pr[q].pc # "idle" => MidCall(pr[q], h, hd, ni, kn)
  BY DEF Sound
<1>1. /\ Pointers(h) /\ hd \in DOMAIN h \cup {NULL}
      /\ \A q \in Proc : pr[q].pc # "idle" => pr[q] \in Call(h)
      /\ \A k \in DOMAIN kn : kn[k] \in DOMAIN h /\ kn[k] # NULL
  BY <1>0, MemoryPoints
<1>2. /\ pr[p] \in Call(h) /\ pr \in [Proc -> Call(h) \cup {Idle}]
      /\ MidCall(pr[p], h, hd, ni, kn) /\ ni \in Nat
  BY <1>0, <1>1 DEF Memory
<1>3. /\ h[pr[p].cur].st = "new" /\ pr[p].cur # NULL /\ pr[p].cur \in From(h, hd)
      /\ KeyOf(pr[p]) \notin DOMAIN kn /\ pr[p].op = "create" /\ pr[p].ret = 0
  BY <1>2 DEF MidCall, KeyOf
<1>4. /\ c \in Call(h) /\ c.pc = "fill" /\ c.cur = pr[p].cur /\ c.op = "create" /\ c.ino = ni
      /\ c.dir = pr[p].dir /\ c.name = pr[p].name /\ c.ret = 0
  BY <1>2, <1>3 DEF Call
<1>5. two = [pr EXCEPT ![p] = c]
  BY <1>2
<1> HIDE DEF c
<1>6. two[p] = c /\ (\A q \in Proc \ {p} : two[q] = pr[q]) /\ DOMAIN two = Proc
  BY <1>2, <1>5
<1>7. \A j \in DOMAIN kn : h[kn[j]].ino \in Nat /\ h[kn[j]].ino < ni
  BY <1>0, <1>1 DEF Apart, Memory, NodeMemory
<1>8. Memory(h, hd, ni + 1, two, kn)
  BY <1>0, <1>2, <1>4, <1>5 DEF Memory
<1>9. Alone(two)
  <2>1. DOMAIN pr = Proc /\ pr[p].pc # "idle" /\ c.dir = pr[p].dir /\ c.op = pr[p].op
    BY <1>2, <1>3, <1>4
  <2> QED
    BY <1>0, <1>5, <2>1, LockKept
<1>10. Listed(h, hd, two, kn)
  BY <1>0, <1>4, <1>6 DEF Listed
<1>11. Apart(h, ni + 1, two, kn)
  <2>1. /\ two[p].pc = "fill" /\ two[p].cur = pr[p].cur /\ pr[p].pc \in Adding
        /\ two[p].ino = ni
    BY <1>4, <1>6 DEF Adding
  <2>2. \A q \in Proc \ {p} : two[q].pc = "fill" => two[q].ino # ni
    <3> SUFFICES ASSUME NEW q \in Proc \ {p}, two[q].pc = "fill"
                 PROVE  two[q].ino # ni
      OBVIOUS
    <3>1. pr[q] \in Call(h) /\ MidCall(pr[q], h, hd, ni, kn) /\ pr[q].pc = "fill" /\ two[q] = pr[q]
      BY <1>0, <1>1, <1>6
    <3>2. pr[q].ino < ni /\ pr[q].ino \in Nat
      BY <3>1 DEF MidCall, Call
    <3> QED
      BY <1>2, <3>1, <3>2
  <2>3. \A q, r \in Proc : q # r =>
          /\ two[q].pc \in Adding /\ two[r].pc \in Adding => two[q].cur # two[r].cur
          /\ two[q].pc = "fill" /\ two[r].pc = "fill" => two[q].ino # two[r].ino
    BY ONLY <1>0, <1>6, <2>1, <2>2 DEF Apart, Adding
  <2>4. \A j \in DOMAIN kn : h[kn[j]].ino < ni + 1
    BY <1>2, <1>7
  <2> QED
    BY <1>0, <2>3, <2>4 DEF Apart, Adding
<1>12. MidCall(c, h, hd, ni + 1, kn)
  <2>1. c.ino < ni + 1 /\ \A j \in DOMAIN kn : h[kn[j]].ino # c.ino
    BY <1>2, <1>4, <1>7
  <2> QED
    BY <1>3, <1>4, <2>1 DEF MidCall, KeyOf
<1>13. ASSUME NEW q \in Proc \ {p}, pr[q].pc # "idle"
       PROVE  MidCall(pr[q], h, hd, ni + 1, kn)
  <2>1. MidCall(pr[q], h, hd, ni, kn) /\ pr[q].ino \in Nat
    BY <1>0, <1>1, <1>13 DEF Call
  <2>2. pr[q].ino < ni => pr[q].ino < ni + 1
    BY <1>2, <2>1
  <2> QED
    BY <2>1, <2>2 DEF MidCall
<1> QED
  BY <1>0, <1>6, <1>8, <1>9, <1>10, <1>11, <1>12, <1>13 DEF Sound

LEMMA FillSound ==
  ASSUME NEW h, NEW hd, NEW ni, NEW pr, NEW kn, Sound(h, hd, ni, pr, kn),
         NEW p \in Proc, pr[p].pc = "fill",
         NEW g, g = WithFilled(h, pr[p]), NEW more, more = Knowing(kn, pr[p]),
         NEW two, two = [pr EXCEPT ![p].pc = "returns"]
  PROVE  Sound(g, hd, ni, two, more)
<1> USE DEF WithFilled, Knowing
<1> DEFINE m == pr[p].cur
           key == KeyOf(pr[p])
           c == [pr[p] EXCEPT !.pc = "returns"]
<1>0. /\ Memory(h, hd, ni, pr, kn) /\ Alone(pr) /\ Straight(h, hd) /\ Accounted(h, kn)
      /\ Listed(h, hd, pr, kn) /\ Apart(h, ni, pr, kn)
      /\ \A q \in Proc : pr[q].pc # "idle" => MidCall(pr[q], h, hd, ni, kn)
  BY DEF Sound
<1>1. /\ Pointers(h) /\ hd \in DOMAIN h \cup {NULL}
      /\ \A q \in Proc : pr[q].pc # "idle" => pr[q] \in Call(h)
      /\ \A k \in DOMAIN kn : kn[k] \in DOMAIN h /\ kn[k] # NULL
  BY <1>0, MemoryPoints
<1>2. /\ pr[p] \in Call(h) /\ pr \in [Proc -> Call(h) \cup {Idle}]
      /\ MidCall(pr[p], h, hd, ni, kn) /\ ni \in Nat
      /\ h \in [DOMAIN h -> NodeMemory(h)]
  BY <1>0, <1>1 DEF Memory
<1>3. /\ m \in DOMAIN h /\ h[m].st = "new" /\ m \in From(h, hd)
      /\ key \notin DOMAIN kn /\ pr[p].op = "create" /\ pr[p].ret = 0
      /\ pr[p].ino < ni /\ \A j \in DOMAIN kn : h[kn[j]].ino # pr[p].ino
  BY <1>2 DEF MidCall, Call, KeyOf
<1>4. /\ c \in Call(h) /\ c.pc = "returns" /\ c.cur = m /\ c.op = "create"
      /\ c.dir = pr[p].dir /\ c.name = pr[p].name /\ c.ret = 0
  BY <1>2, <1>3 DEF Call
<1>5. two = [pr EXCEPT ![p] = c]
  BY <1>2
<1> HIDE DEF c
<1>6. two[p] = c /\ (\A q \in Proc \ {p} : two[q] = pr[q]) /\ DOMAIN two = Proc
  BY <1>2, <1>5
<1>7. /\ DOMAIN g = DOMAIN h /\ (\A a \in DOMAIN h \ {m} : g[a] = h[a])
      /\ g[m].st = "filled" /\ g[m].next = h[m].next /\ g[m].ino = pr[p].ino
      /\ g[m].parent_ino = pr[p].dir /\ g[m].name = pr[p].name
      /\ g[m] = Node(h[m].next, pr[p].dir, pr[p].name, pr[p].ino)
  BY <1>2, <1>3 DEF Node
<1>8. key \in Dir \X Name /\ key[1] = pr[p].dir /\ key[2] = pr[p].name /\ pr[p].dir \in Nat
  BY <1>2, DirAssumption DEF KeyOf, Call, VTFS_ROOT_INO
<1>9. /\ DOMAIN more = DOMAIN kn \cup {key} /\ more[key] = m
      /\ \A k \in DOMAIN kn : more[k] = kn[k] /\ kn[k] # m
  BY <1>0, <1>3 DEF Accounted, IsChild
<1>10. \A first : From(g, first) = From(h, first)
  <2>1. DOMAIN g = DOMAIN h /\ \A a \in DOMAIN h : g[a].next = h[a].next
    BY <1>7
  <2> QED
    BY ONLY <2>1, FromSame
<1>11. Memory(g, hd, ni, two, more)
  <2>1. g[m] \in NodeMemory(h)
    <3>1. h[m].next \in DOMAIN h \cup {NULL} /\ pr[p].ino \in Nat /\ pr[p].name \in Name
      BY <1>1, <1>2, <1>3 DEF Pointers, Call
    <3> QED
      BY <1>7, <1>8, <3>1 DEF Node, NodeMemory
  <2>2. NodeMemory(g) = NodeMemory(h) /\ Call(g) = Call(h)
    BY <1>7 DEF NodeMemory, Call
  <2>3. g \in [DOMAIN g -> NodeMemory(g)]
    BY <1>2, <1>7, <2>1, <2>2
  <2>4. two \in [Proc -> Call(g) \cup {Idle}]
    BY <1>2, <1>4, <1>5, <2>2
  <2>5. more \in [DOMAIN more -> DOMAIN g] /\ DOMAIN more \subseteq Dir \X Name
    BY <1>0, <1>1, <1>3, <1>7, <1>8, <1>9 DEF Memory
  <2> QED
    BY <1>0, <1>7, <2>3, <2>4, <2>5 DEF Memory
<1>12. Alone(two)
  <2>1. DOMAIN pr = Proc /\ pr[p].pc # "idle" /\ c.dir = pr[p].dir /\ c.op = pr[p].op
    BY <1>2, <1>3, <1>4
  <2> QED
    BY <1>0, <1>5, <2>1, LockKept
<1>13. Straight(g, hd)
  <2>1. From(h, hd) \subseteq DOMAIN h /\ \A a \in DOMAIN h : g[a].next = h[a].next
    BY <1>1, <1>7, FromClosed
  <2>2. Straight(h, hd) /\ From(g, hd) = From(h, hd)
    BY <1>0, <1>10
  <2> QED
    BY ONLY <2>1, <2>2 DEF Straight
<1>14. Accounted(g, more)
  <2>1. \A k \in DOMAIN more : IsChild(g[more[k]], k[1], k[2])
    BY <1>0, <1>1, <1>7, <1>8, <1>9 DEF Accounted, IsChild
  <2>2. ASSUME NEW a \in DOMAIN g, g[a].st = "filled", g[a].parent_ino # 0
        PROVE  /\ <<g[a].parent_ino, g[a].name>> \in DOMAIN more
               /\ more[<<g[a].parent_ino, g[a].name>>] = a
    <3>1. CASE a = m
      BY <1>7, <1>9, <3>1 DEF KeyOf
    <3>2. CASE a # m
      BY <1>0, <1>7, <1>9, <2>2, <3>2 DEF Accounted
    <3> QED
      BY <3>1, <3>2
  <2> QED
    BY <2>1, <2>2 DEF Accounted
<1>15. Listed(g, hd, two, more)
  <2>1. \A a \in From(g, hd) : g[a].st # "freed"
    <3>1. From(h, hd) \subseteq DOMAIN h
      BY <1>1, FromClosed
    <3> QED
      BY <1>0, <1>7, <1>10, <3>1 DEF Listed
  <2>2. ASSUME NEW k \in DOMAIN more
        PROVE  more[k] \in From(g, hd) \/ \E q \in Proc : two[q].pc = "free" /\ KeyOf(two[q]) = k
    <3>1. CASE k = key
      BY <1>3, <1>9, <1>10, <3>1
    <3>2. CASE k \in DOMAIN kn
      <4>1. kn[k] \in From(h, hd) \/ \E q \in Proc : pr[q].pc = "free" /\ KeyOf(pr[q]) = k
        BY <1>0, <3>2 DEF Listed, KeyOf
      <4> QED
        BY <1>6, <1>9, <1>10, <3>2, <4>1
    <3> QED
      BY <1>9, <3>1, <3>2
  <2> QED
    BY <2>1, <2>2 DEF Listed, KeyOf
<1>16. Apart(g, ni, two, more)
  <2>1. two[p].pc \notin Adding /\ two[p].pc # "fill"
    BY <1>4, <1>6 DEF Adding
  <2>2. \A q, r \in Proc : q # r =>
          /\ two[q].pc \in Adding /\ two[r].pc \in Adding => two[q].cur # two[r].cur
          /\ two[q].pc = "fill" /\ two[r].pc = "fill" => two[q].ino # two[r].ino
    BY ONLY <1>0, <1>6, <2>1 DEF Apart, Adding
  <2>3. \A j \in DOMAIN kn : g[more[j]].ino = h[kn[j]].ino
    BY <1>1, <1>7, <1>9
  <2>4. g[more[key]].ino = pr[p].ino
    BY <1>7, <1>9
  <2>5. \A j \in DOMAIN more : g[more[j]].ino < ni
    BY <1>0, <1>3, <1>9, <2>3, <2>4 DEF Apart
  <2>6. ASSUME NEW j \in DOMAIN more, NEW k \in DOMAIN more, g[more[j]].ino = g[more[k]].ino
        PROVE  j = k
    BY <1>0, <1>3, <1>9, <2>3, <2>4, <2>6 DEF Apart
  <2> QED
    BY <2>2, <2>5, <2>6 DEF Apart, Adding
<1>17. MidCall(c, g, hd, ni, more)
  BY <1>4 DEF MidCall, ENOENT
<1>18. ASSUME NEW q \in Proc \ {p}, pr[q].pc # "idle"
       PROVE  MidCall(pr[q], g, hd, ni, more)
  <2>1. pr[q] \in Call(h) /\ MidCall(pr[q], h, hd, ni, kn)
    BY <1>0, <1>1, <1>18
  <2>2. KeyOf(pr[q]) # key
    BY <1>0, <1>3, <1>18, OwnDirectory
  <2>3. pr[q].pc \in Adding => pr[q].cur # m
    BY <1>0 DEF Apart, Adding
  <2>4. pr[q].pc = "fill" => \A j \in DOMAIN more : g[more[j]].ino # pr[q].ino
    <3>1. pr[q].pc = "fill" => pr[q].ino # pr[p].ino
      BY <1>0 DEF Apart
    <3> QED
      BY <1>1, <1>7, <1>9, <2>1, <3>1 DEF MidCall
  <2>5. pr[q].cur \in DOMAIN h \cup {NULL} /\ \A a \in DOMAIN h : g[a].next = h[a].next
    BY <1>7, <2>1 DEF Call
  <2>6. pr[q].pc \in Adding => g[pr[q].cur].st = h[pr[q].cur].st
    BY <1>7, <2>1, <2>3, <2>5 DEF MidCall, Adding
  <2>7. From(g, pr[q].cur) = From(h, pr[q].cur) /\ From(g, hd) = From(h, hd)
    BY <1>10
  <2>8. /\ KeyOf(pr[q]) \in DOMAIN more <=> KeyOf(pr[q]) \in DOMAIN kn
        /\ KeyOf(pr[q]) \in DOMAIN kn => more[KeyOf(pr[q])] = kn[KeyOf(pr[q])]
    BY <1>9, <2>2
  <2> QED
    BY ONLY <1>7, <2>1, <2>4, <2>5, <2>6, <2>7, <2>8 DEF MidCall, KeyOf, Adding
<1> QED
  BY <1>6, <1>11, <1>12, <1>13, <1>14, <1>15, <1>16, <1>17, <1>18 DEF Sound

-----------------------------------------------------------------------------
(* Removing a node.                                                        *)

\* What both writes have in common: the unlink's node is out of the list, and
\* nothing else has changed for any walk.
LEMMA TakenOutSound ==
  ASSUME NEW h, NEW hd, NEW ni, NEW pr, NEW kn, Sound(h, hd, ni, pr, kn),
         NEW p \in Proc, pr[p].pc = "relink",
         NEW g, NEW hg, g \in [DOMAIN h -> NodeMemory(h)],
         \A a \in DOMAIN h :
           /\ g[a].st = h[a].st /\ g[a].ino = h[a].ino
           /\ g[a].parent_ino = h[a].parent_ino /\ g[a].name = h[a].name
           /\ g[a].next \in {h[a].next, h[pr[p].cur].next},
         hg \in {hd, h[pr[p].cur].next},
         From(g, hg) = From(h, hd) \ {pr[p].cur}, Straight(g, hg),
         \A first \in DOMAIN h \cup {NULL} : From(h, first) \ {pr[p].cur} \subseteq From(g, first),
         NEW two, two = [pr EXCEPT ![p].pc = "free"]
  PROVE  Sound(g, hg, ni, two, kn)
<1> DEFINE m == pr[p].cur
           key == KeyOf(pr[p])
           c == [pr[p] EXCEPT !.pc = "free"]
<1>0. /\ Memory(h, hd, ni, pr, kn) /\ Alone(pr) /\ Straight(h, hd) /\ Accounted(h, kn)
      /\ Listed(h, hd, pr, kn) /\ Apart(h, ni, pr, kn)
      /\ \A q \in Proc : pr[q].pc # "idle" => MidCall(pr[q], h, hd, ni, kn)
  BY DEF Sound
<1>1. /\ Pointers(h) /\ hd \in DOMAIN h \cup {NULL}
      /\ \A q \in Proc : pr[q].pc # "idle" => pr[q] \in Call(h)
      /\ \A k \in DOMAIN kn : kn[k] \in DOMAIN h /\ kn[k] # NULL
  BY <1>0, MemoryPoints
<1>2. /\ pr[p] \in Call(h) /\ pr \in [Proc -> Call(h) \cup {Idle}]
      /\ MidCall(pr[p], h, hd, ni, kn)
  BY <1>0, <1>1 DEF Memory
<1>3. key \in DOMAIN kn /\ kn[key] = m /\ pr[p].op = "unlink" /\ pr[p].ret = 0 /\ m \in DOMAIN h
  BY <1>1, <1>2 DEF MidCall, KeyOf
<1>4. /\ c \in Call(h) /\ c.pc = "free" /\ c.cur = m /\ c.op = "unlink"
      /\ c.dir = pr[p].dir /\ c.name = pr[p].name /\ c.ret = 0
  BY <1>2, <1>3 DEF Call
<1>5. two = [pr EXCEPT ![p] = c]
  BY <1>2
<1>6. h[m].st = "filled" /\ h[m].next \in DOMAIN h \cup {NULL}
  BY <1>0, <1>1, <1>3 DEF Accounted, IsChild, Pointers
<1> HIDE DEF c
<1>7. two[p] = c /\ (\A q \in Proc \ {p} : two[q] = pr[q]) /\ DOMAIN two = Proc
  BY <1>2, <1>5
<1>8. \A k \in DOMAIN kn : k # key => kn[k] # m
  BY <1>0, <1>3, KnownApart DEF Memory
<1>9. DOMAIN g = DOMAIN h /\ NodeMemory(g) = NodeMemory(h) /\ Call(g) = Call(h)
  BY DEF NodeMemory, Call
<1>10. Memory(g, hg, ni, two, kn)
  <2>1. two \in [Proc -> Call(g) \cup {Idle}]
    BY <1>2, <1>4, <1>5, <1>9
  <2>2. hg \in DOMAIN g \cup {NULL}
    BY <1>1, <1>6, <1>9 DEF m
  <2> QED
    BY <1>0, <1>9, <2>1, <2>2 DEF Memory
<1>11. Alone(two)
  <2>1. DOMAIN pr = Proc /\ pr[p].pc # "idle" /\ c.dir = pr[p].dir /\ c.op = pr[p].op
    BY <1>2, <1>3, <1>4
  <2> QED
    BY <1>0, <1>5, <2>1, LockKept
<1>12. Accounted(g, kn)
  BY <1>0, <1>1, <1>9 DEF Accounted, IsChild
<1>13. Listed(g, hg, two, kn)
  <2>1. \A a \in From(g, hg) : g[a].st # "freed"
    <3>1. From(h, hd) \subseteq DOMAIN h
      BY <1>1, FromClosed
    <3> QED
      BY <1>0, <3>1 DEF Listed
  <2>2. ASSUME NEW k \in DOMAIN kn
        PROVE  kn[k] \in From(g, hg) \/ \E q \in Proc : two[q].pc = "free" /\ KeyOf(two[q]) = k
    <3>1. CASE k = key
      BY <1>4, <1>7, <3>1 DEF KeyOf
    <3>2. CASE k # key
      <4>1. kn[k] \in From(h, hd) \/ \E q \in Proc : pr[q].pc = "free" /\ KeyOf(pr[q]) = k
        BY <1>0 DEF Listed, KeyOf
      <4> QED
        BY <1>7, <1>8, <3>2, <4>1
    <3> QED
      BY <3>1, <3>2
  <2> QED
    BY <2>1, <2>2 DEF Listed, KeyOf
<1>14. Apart(g, ni, two, kn)
  <2>1. two[p].pc \notin Adding /\ two[p].pc # "fill"
    BY <1>4, <1>7 DEF Adding
  <2>2. \A q, r \in Proc : q # r =>
          /\ two[q].pc \in Adding /\ two[r].pc \in Adding => two[q].cur # two[r].cur
          /\ two[q].pc = "fill" /\ two[r].pc = "fill" => two[q].ino # two[r].ino
    BY ONLY <1>0, <1>7, <2>1 DEF Apart, Adding
  <2>3. \A j \in DOMAIN kn : g[kn[j]].ino = h[kn[j]].ino
    BY <1>1
  <2> QED
    BY <1>0, <2>2, <2>3 DEF Apart, Adding
<1>15. MidCall(c, g, hg, ni, kn)
  BY <1>3, <1>4 DEF MidCall, KeyOf
<1>16. ASSUME NEW q \in Proc \ {p}, pr[q].pc # "idle"
       PROVE  MidCall(pr[q], g, hg, ni, kn)
  <2>1. pr[q] \in Call(h) /\ MidCall(pr[q], h, hd, ni, kn)
    BY <1>0, <1>1, <1>16
  <2>2. KeyOf(pr[q]) # key
    BY <1>0, <1>3, <1>16, OwnDirectory
  <2>3. pr[q].cur \in DOMAIN h \cup {NULL}
    BY <2>1 DEF Call
  <2>4. KeyOf(pr[q]) \in DOMAIN kn => kn[KeyOf(pr[q])] # m
    BY <1>8, <2>2
  <2>5. From(h, pr[q].cur) \ {m} \subseteq From(g, pr[q].cur)
    BY <2>3
  <2>6. pr[q].pc = "publish" => hg # pr[q].cur /\ \A a \in DOMAIN g : g[a].next # pr[q].cur
    BY <1>3, <1>9, <2>1 DEF MidCall
  <2>7. /\ pr[q].pc \in Adding => g[pr[q].cur].st = h[pr[q].cur].st /\ pr[q].cur # m
        /\ \A j \in DOMAIN kn : g[kn[j]].ino = h[kn[j]].ino
    BY <1>1, <1>6, <2>1, <2>3 DEF MidCall, Adding
  <2>8. From(g, hg) = From(h, hd) \ {m}
    OBVIOUS
  <2> QED
    BY ONLY <2>1, <2>4, <2>5, <2>6, <2>7, <2>8 DEF MidCall, KeyOf, Adding
<1> QED
  BY <1>7, <1>10, <1>11, <1>12, <1>13, <1>14, <1>15, <1>16 DEF Sound

\* nodes_head = cur->next, when cur is still the first.
LEMMA BeheadSound ==
  ASSUME NEW h, NEW hd, NEW ni, NEW pr, NEW kn, Sound(h, hd, ni, pr, kn),
         NEW p \in Proc, pr[p].pc = "relink",
         hd = pr[p].cur, h[pr[p].cur].next = pr[p].next,
         NEW two, two = [pr EXCEPT ![p].pc = "free"]
  PROVE  Sound(h, pr[p].next, ni, two, kn)
<1>0. Memory(h, hd, ni, pr, kn) /\ Straight(h, hd) /\ MidCall(pr[p], h, hd, ni, kn)
  BY DEF Sound
<1>1. Pointers(h) /\ hd \in DOMAIN h /\ h \in [DOMAIN h -> NodeMemory(h)]
  <2>1. <<pr[p].dir, pr[p].name>> \in DOMAIN kn /\ kn[<<pr[p].dir, pr[p].name>>] = hd
    BY <1>0 DEF MidCall
  <2> QED
    BY <1>0, <2>1, MemoryPoints DEF Memory
<1>2. From(h, pr[p].next) = From(h, hd) \ {pr[p].cur} /\ Straight(h, pr[p].next)
  BY <1>0, <1>1, BeheadStraight
<1> QED
  BY <1>1, <1>2, TakenOutSound

\* prev->next = cur->next, when prev is in the list and before cur.
LEMMA BypassSound ==
  ASSUME NEW h, NEW hd, NEW ni, NEW pr, NEW kn, Sound(h, hd, ni, pr, kn),
         NEW p \in Proc, pr[p].pc = "relink",
         pr[p].prev \in From(h, hd), h[pr[p].prev].next = pr[p].cur,
         h[pr[p].cur].next = pr[p].next,
         NEW g, g = [h EXCEPT ![pr[p].prev].next = pr[p].next],
         NEW two, two = [pr EXCEPT ![p].pc = "free"]
  PROVE  Sound(g, hd, ni, two, kn)
<1> DEFINE prev == pr[p].prev
           m == pr[p].cur
<1>0. Memory(h, hd, ni, pr, kn) /\ Straight(h, hd) /\ MidCall(pr[p], h, hd, ni, kn)
  BY DEF Sound
<1>1. /\ Pointers(h) /\ hd \in DOMAIN h \cup {NULL} /\ m \in DOMAIN h
      /\ h \in [DOMAIN h -> NodeMemory(h)]
  <2>1. <<pr[p].dir, pr[p].name>> \in DOMAIN kn /\ kn[<<pr[p].dir, pr[p].name>>] = m
    BY <1>0 DEF MidCall
  <2> QED
    BY <1>0, <2>1, MemoryPoints DEF Memory
<1>2. prev \in DOMAIN h /\ h[m].next \in DOMAIN h \cup {NULL}
  BY <1>1, FromClosed DEF Pointers
<1>3. /\ DOMAIN g = DOMAIN h /\ g[prev] = [h[prev] EXCEPT !.next = h[m].next]
      /\ \A a \in DOMAIN h \ {prev} : g[a] = h[a]
  BY <1>2
<1>4. /\ g[prev] \in NodeMemory(h) /\ g[prev].next = h[m].next
      /\ g[prev].st = h[prev].st /\ g[prev].ino = h[prev].ino
      /\ g[prev].parent_ino = h[prev].parent_ino /\ g[prev].name = h[prev].name
  <2>1. h[prev] \in NodeMemory(h)
    BY <1>1, <1>2
  <2> QED
    BY ONLY <1>2, <1>3, <2>1 DEF NodeMemory
<1>5. g \in [DOMAIN h -> NodeMemory(h)]
  BY <1>1, <1>3, <1>4
<1>6. \A a \in DOMAIN h :
        /\ g[a].st = h[a].st /\ g[a].ino = h[a].ino
        /\ g[a].parent_ino = h[a].parent_ino /\ g[a].name = h[a].name
        /\ g[a].next \in {h[a].next, h[m].next}
  BY <1>3, <1>4
<1>7. prev \in From(h, hd) /\ h[prev].next = m /\ \A a \in DOMAIN h \ {prev} : g[a].next = h[a].next
  BY <1>3
<1>8. From(g, hd) = From(h, hd) \ {m} /\ Straight(g, hd)
  BY ONLY <1>0, <1>1, <1>2, <1>3, <1>4, <1>7, BypassStraight
<1>9. ASSUME NEW first \in DOMAIN h \cup {NULL}
      PROVE  From(h, first) \ {m} \subseteq From(g, first)
  <2>1. /\ Pointers(h) /\ prev \in DOMAIN h /\ m \in DOMAIN h /\ h[prev].next = m
        /\ DOMAIN g = DOMAIN h /\ g[prev].next = h[m].next
        /\ \A a \in DOMAIN h \ {prev} : g[a].next = h[a].next
        /\ first \in DOMAIN h \cup {NULL}
    BY <1>1, <1>2, <1>3, <1>4, <1>7
  <2> HIDE DEF prev, m
  <2>2. /\ Pointers(g)
         /\ From(h, first) \ {m} \subseteq From(g, first)
         /\ From(g, first) \subseteq From(h, first)
    BY ONLY <2>1, FromBypass
  <2> QED
    BY <2>2
<1> QED
  BY <1>5, <1>6, <1>8, <1>9, TakenOutSound

LEMMA FreeSound ==
  ASSUME NEW h, NEW hd, NEW ni, NEW pr, NEW kn, Sound(h, hd, ni, pr, kn),
         NEW p \in Proc, pr[p].pc = "free",
         NEW g, g = WithFreed(h, pr[p]), NEW less, less = Forgetting(kn, pr[p]),
         NEW two, two = [pr EXCEPT ![p].pc = "returns"]
  PROVE  Sound(g, hd, ni, two, less)
<1> USE DEF WithFreed, Forgetting
<1> DEFINE m == pr[p].cur
           key == KeyOf(pr[p])
           c == [pr[p] EXCEPT !.pc = "returns"]
<1>0. /\ Memory(h, hd, ni, pr, kn) /\ Alone(pr) /\ Straight(h, hd) /\ Accounted(h, kn)
      /\ Listed(h, hd, pr, kn) /\ Apart(h, ni, pr, kn)
      /\ \A q \in Proc : pr[q].pc # "idle" => MidCall(pr[q], h, hd, ni, kn)
  BY DEF Sound
<1>1. /\ Pointers(h) /\ hd \in DOMAIN h \cup {NULL}
      /\ \A q \in Proc : pr[q].pc # "idle" => pr[q] \in Call(h)
      /\ \A k \in DOMAIN kn : kn[k] \in DOMAIN h /\ kn[k] # NULL
  BY <1>0, MemoryPoints
<1>2. /\ pr[p] \in Call(h) /\ pr \in [Proc -> Call(h) \cup {Idle}]
      /\ MidCall(pr[p], h, hd, ni, kn) /\ h \in [DOMAIN h -> NodeMemory(h)]
  BY <1>0, <1>1 DEF Memory
<1>3. /\ key \in DOMAIN kn /\ kn[key] = m /\ pr[p].op = "unlink" /\ pr[p].ret = 0 /\ m \in DOMAIN h
      /\ m \notin From(h, hd)
  BY <1>1, <1>2 DEF MidCall, KeyOf
<1>4. /\ c \in Call(h) /\ c.pc = "returns" /\ c.cur = m /\ c.op = "unlink"
      /\ c.dir = pr[p].dir /\ c.name = pr[p].name /\ c.ret = 0
  BY <1>2, <1>3 DEF Call
<1>5. two = [pr EXCEPT ![p] = c]
  BY <1>2
<1>6. IsChild(h[m], pr[p].dir, pr[p].name) /\ h[m].st = "filled"
  BY <1>0, <1>3 DEF Accounted, IsChild, KeyOf
<1> HIDE DEF c
<1>7. two[p] = c /\ (\A q \in Proc \ {p} : two[q] = pr[q]) /\ DOMAIN two = Proc
  BY <1>2, <1>5
<1>8. \A k \in DOMAIN kn : k # key => kn[k] # m
  BY <1>0, <1>3, KnownApart DEF Memory
<1>9. /\ DOMAIN g = DOMAIN h /\ (\A a \in DOMAIN h \ {m} : g[a] = h[a])
      /\ g[m] \in NodeMemory(h) /\ g[m].st = "freed" /\ g[m].next = h[m].next
  BY <1>2, <1>3 DEF NodeMemory
<1>10. \A a \in DOMAIN h : g[a].next = h[a].next
  BY <1>9
<1>11. \A first : From(g, first) = From(h, first)
  BY ONLY <1>9, <1>10, FromSame
<1>12. /\ DOMAIN less = DOMAIN kn \ {key}
       /\ \A k \in DOMAIN less : less[k] = kn[k] /\ kn[k] # m /\ g[kn[k]] = h[kn[k]]
  BY <1>1, <1>8, <1>9
<1>13. Memory(g, hd, ni, two, less)
  <2>1. NodeMemory(g) = NodeMemory(h) /\ Call(g) = Call(h)
    BY <1>9 DEF NodeMemory, Call
  <2>2. g \in [DOMAIN g -> NodeMemory(g)]
    BY <1>2, <1>9, <2>1
  <2>3. two \in [Proc -> Call(g) \cup {Idle}]
    BY <1>2, <1>4, <1>5, <2>1
  <2>4. less \in [DOMAIN less -> DOMAIN g] /\ DOMAIN less \subseteq Dir \X Name
    BY <1>0, <1>1, <1>9, <1>12 DEF Memory
  <2> QED
    BY <1>0, <1>9, <2>2, <2>3, <2>4 DEF Memory
<1>14. Alone(two)
  <2>1. DOMAIN pr = Proc /\ pr[p].pc # "idle" /\ c.dir = pr[p].dir /\ c.op = pr[p].op
    BY <1>2, <1>3, <1>4
  <2> QED
    BY <1>0, <1>5, <2>1, LockKept
<1>15. Straight(g, hd)
  <2>1. From(h, hd) \subseteq DOMAIN h /\ Straight(h, hd) /\ From(g, hd) = From(h, hd)
    BY <1>0, <1>1, <1>11, FromClosed
  <2> QED
    BY ONLY <1>10, <2>1 DEF Straight
<1>16. Accounted(g, less)
  <2>1. \A k \in DOMAIN less : IsChild(g[less[k]], k[1], k[2])
    BY <1>0, <1>12 DEF Accounted
  <2>2. ASSUME NEW a \in DOMAIN g, g[a].st = "filled", g[a].parent_ino # 0
        PROVE  /\ <<g[a].parent_ino, g[a].name>> \in DOMAIN less
               /\ less[<<g[a].parent_ino, g[a].name>>] = a
    <3>1. a # m /\ a \in DOMAIN h /\ g[a] = h[a]
      BY <1>9, <2>2
    <3>2. /\ <<g[a].parent_ino, g[a].name>> \in DOMAIN kn
          /\ kn[<<g[a].parent_ino, g[a].name>>] = a
      BY <1>0, <2>2, <3>1 DEF Accounted
    <3>3. <<g[a].parent_ino, g[a].name>> # key
      BY <1>3, <3>1, <3>2
    <3> QED
      BY <1>12, <3>2, <3>3
  <2> QED
    BY <2>1, <2>2 DEF Accounted
<1>17. Listed(g, hd, two, less)
  <2>1. \A a \in From(g, hd) : g[a].st # "freed"
    <3>1. From(h, hd) \subseteq DOMAIN h
      BY <1>1, FromClosed
    <3> QED
      BY <1>0, <1>3, <1>9, <1>11, <3>1 DEF Listed
  <2>2. ASSUME NEW k \in DOMAIN less
        PROVE  less[k] \in From(g, hd) \/ \E q \in Proc : two[q].pc = "free" /\ KeyOf(two[q]) = k
    <3>1. kn[k] \in From(h, hd) \/ \E q \in Proc : pr[q].pc = "free" /\ KeyOf(pr[q]) = k
      BY <1>0, <1>12 DEF Listed, KeyOf
    <3> QED
      BY <1>7, <1>11, <1>12, <3>1
  <2> QED
    BY <2>1, <2>2 DEF Listed, KeyOf
<1>18. Apart(g, ni, two, less)
  <2>1. two[p].pc \notin Adding /\ two[p].pc # "fill"
    BY <1>4, <1>7 DEF Adding
  <2>2. \A q, r \in Proc : q # r =>
          /\ two[q].pc \in Adding /\ two[r].pc \in Adding => two[q].cur # two[r].cur
          /\ two[q].pc = "fill" /\ two[r].pc = "fill" => two[q].ino # two[r].ino
    BY ONLY <1>0, <1>7, <2>1 DEF Apart, Adding
  <2> QED
    BY <1>0, <1>12, <2>2 DEF Apart, Adding
<1>19. MidCall(c, g, hd, ni, less)
  BY <1>4 DEF MidCall, ENOENT
<1>20. ASSUME NEW q \in Proc \ {p}, pr[q].pc # "idle"
       PROVE  MidCall(pr[q], g, hd, ni, less)
  <2>1. pr[q] \in Call(h) /\ MidCall(pr[q], h, hd, ni, kn)
    BY <1>0, <1>1, <1>20
  <2>2. KeyOf(pr[q]) # key
    BY <1>0, <1>3, <1>20, OwnDirectory
  <2>3. /\ KeyOf(pr[q]) \in DOMAIN less <=> KeyOf(pr[q]) \in DOMAIN kn
        /\ KeyOf(pr[q]) \in DOMAIN kn => less[KeyOf(pr[q])] = kn[KeyOf(pr[q])]
    BY <1>12, <2>2
  <2>4. From(g, pr[q].cur) = From(h, pr[q].cur) /\ From(g, hd) = From(h, hd)
    BY <1>11
  <2>5. pr[q].pc \in Adding => g[pr[q].cur].st = h[pr[q].cur].st
    BY <1>6, <1>9, <2>1 DEF MidCall, Adding, Call
  <2> QED
    BY ONLY <1>9, <1>10, <1>12, <2>1, <2>3, <2>4, <2>5 DEF MidCall, KeyOf, Adding
<1> QED
  BY <1>7, <1>13, <1>14, <1>15, <1>16, <1>17, <1>18, <1>19, <1>20 DEF Sound

-----------------------------------------------------------------------------
(* The steps together.                                                     *)

\* A step that changes the process's own variables only, within a call.
LEMMA GoesSound ==
  ASSUME Sound(heap, head, next_ino, proc, known), NEW p \in Proc, NEW c \in Call(heap),
         Goes(p, c), proc[p].pc \notin {"idle", "free"},
         c.dir = proc[p].dir, c.op = proc[p].op, c.pc \notin {"free", "fill"},
         MidCall(c, heap, head, next_ino, known),
         c.pc \in Adding => proc[p].pc \in Adding /\ c.cur = proc[p].cur
  PROVE  Sound(heap, head, next_ino, proc, known)'
<1>1. /\ proc' = [proc EXCEPT ![p] = c]
      /\ heap' = heap /\ head' = head /\ next_ino' = next_ino /\ known' = known
  BY DEF Goes, shared
<1>2. Alone(proc) /\ proc \in [Proc -> Call(heap) \cup {Idle}]
  BY DEF Sound, Memory
<1>3. Alone(proc')
  BY <1>1, <1>2, LockKept
<1>4. Sound(heap, head, next_ino, proc', known)
  BY <1>1, <1>3, CallMoves
<1> QED
  BY <1>1, <1>4

\* What is known of a process in a call.
LEMMA InCall ==
  ASSUME Sound(heap, head, next_ino, proc, known), NEW p \in Proc, proc[p].pc # "idle"
  PROVE  /\ proc[p] \in Call(heap) /\ MidCall(proc[p], heap, head, next_ino, known)
         /\ proc \in [Proc -> Call(heap) \cup {Idle}]
         /\ Pointers(heap) /\ heap \in [DOMAIN heap -> NodeMemory(heap)]
         /\ head \in DOMAIN heap \cup {NULL}
         /\ Accounted(heap, known) /\ Listed(heap, head, proc, known) /\ Alone(proc)
         /\ \A k \in DOMAIN known : known[k] \in DOMAIN heap /\ known[k] # NULL
<1>1. Memory(heap, head, next_ino, proc, known)
  BY DEF Sound
<1> QED
  BY <1>1, MemoryPoints DEF Sound, Memory

LEMMA BeginSound ==
  ASSUME Sound(heap, head, next_ino, proc, known), NEW p \in Proc,
         NEW op \in {"create", "unlink", "lookup"}, NEW dir \in Dir, NEW name \in Name,
         Begin(p, op, dir, name)
  PROVE  Sound(heap, head, next_ino, proc, known)'
<1> DEFINE c == [pc |-> "walk", op |-> op, dir |-> dir, name |-> name,
                 prev |-> NULL, cur |-> head, next |-> NULL, ino |-> 0, ret |-> 0]
<1>0. Memory(heap, head, next_ino, proc, known) /\ Alone(proc) /\ Listed(heap, head, proc, known)
  BY DEF Sound
<1>1. /\ proc' = [proc EXCEPT ![p] = c] /\ proc[p].pc = "idle"
      /\ \A q \in Proc \ {p} : proc[q].pc # "idle" /\ proc[q].dir = dir
                                 => op = "lookup" /\ proc[q].op = "lookup"
      /\ heap' = heap /\ head' = head /\ next_ino' = next_ino /\ known' = known
  BY DEF Begin, MayLock, Running, shared
<1>2. /\ c \in Call(heap) /\ c.pc = "walk" /\ c.dir = dir /\ c.op = op /\ c.ret = 0
      /\ c.cur = head /\ c.name = name
  BY <1>0 DEF Call, Memory
<1>3. DOMAIN proc = Proc
  BY <1>0 DEF Memory
<1> HIDE DEF c
<1>4. proc'[p] = c /\ \A q \in Proc \ {p} : proc'[q] = proc[q]
  BY <1>1, <1>3
<1>5. Alone(proc')
  BY <1>0, <1>1, <1>2, <1>4 DEF Alone
<1>6. MidCall(c, heap, head, next_ino, known)
  <2>1. ASSUME <<dir, name>> \in DOMAIN known
        PROVE  known[<<dir, name>>] \in From(heap, head)
    <3> SUFFICES ASSUME NEW q \in Proc, proc[q].pc = "free", <<proc[q].dir, proc[q].name>> = <<dir, name>>
                 PROVE  FALSE
      BY <1>0, <2>1 DEF Listed
    <3>1. q # p /\ proc[q].dir = dir
      BY <1>1
    <3>2. proc[q].op = "unlink"
      BY DEF Sound, MidCall
    <3> QED
      BY <1>1, <3>1, <3>2
  <2> QED
    BY <1>2, <2>1 DEF MidCall
<1>7. Sound(heap, head, next_ino, proc', known)
  BY <1>1, <1>2, <1>5, <1>6, CallMoves DEF Adding
<1> QED
  BY <1>1, <1>7

LEMMA LeaveSound ==
  ASSUME Sound(heap, head, next_ino, proc, known), NEW p \in Proc, Leave(p)
  PROVE  Sound(heap, head, next_ino, proc, known)'
<1>1. /\ proc' = [proc EXCEPT ![p] = Idle] /\ proc[p].pc = "returns"
      /\ heap' = heap /\ head' = head /\ next_ino' = next_ino /\ known' = known
  BY DEF Leave, At, shared
<1>2. Alone(proc) /\ DOMAIN proc = Proc
  BY DEF Sound, Memory
<1>3. Idle.pc = "idle"
  BY DEF Idle
<1>4. Alone(proc')
  BY <1>1, <1>2, <1>3 DEF Alone
<1>5. Sound(heap, head, next_ino, proc', known)
  BY <1>1, <1>3, <1>4, CallMoves DEF Adding
<1> QED
  BY <1>1, <1>5

LEMMA WalkSound ==
  ASSUME Sound(heap, head, next_ino, proc, known), NEW p \in Proc, Walk(p), ~ub'
  PROVE  Sound(heap, head, next_ino, proc, known)'
<1> DEFINE me == proc[p]
           k == <<me.dir, me.name>>
<1>1. me.pc = "walk" /\ ~ub
  BY DEF Walk, At
<1>2. /\ me \in Call(heap) /\ MidCall(me, heap, head, next_ino, known)
      /\ Pointers(heap) /\ heap \in [DOMAIN heap -> NodeMemory(heap)]
      /\ head \in DOMAIN heap \cup {NULL} /\ Accounted(heap, known)
      /\ \A j \in DOMAIN known : known[j] \in DOMAIN heap /\ known[j] # NULL
  BY <1>1, InCall
<1>3. /\ k \in DOMAIN known => known[k] \in From(heap, me.cur)
      /\ me.ret = 0 /\ me.dir \in Nat /\ me.dir # 0 /\ me.cur \in DOMAIN heap \cup {NULL}
      /\ me.op \in {"create", "unlink", "lookup"}
  BY <1>1, <1>2, DirAssumption DEF MidCall, Call, VTFS_ROOT_INO
<1>4. ASSUME me.cur = NULL
      PROVE  k \notin DOMAIN known
  BY <1>2, <1>3, <1>4, FromNull
<1>5. CASE me.cur = NULL /\ me.op = "create"
  <2> DEFINE c == [me EXCEPT !.pc = "parent", !.cur = head]
  <2>1. Goes(p, c)
    BY <1>5 DEF Walk
  <2>2. /\ c \in Call(heap) /\ c.pc = "parent" /\ c.dir = me.dir /\ c.op = "create"
        /\ c.name = me.name /\ c.ret = 0
    BY <1>2, <1>3, <1>5 DEF Call
  <2> HIDE DEF c
  <2>3. MidCall(c, heap, head, next_ino, known)
    BY <1>4, <1>5, <2>2 DEF MidCall
  <2> QED
    BY <1>1, <1>5, <2>1, <2>2, <2>3, GoesSound DEF Adding
<1>6. ASSUME NEW ret \in Int, Returns(p, ret), ret = -ENOENT => me.cur = NULL
      PROVE  Sound(heap, head, next_ino, proc, known)'
  <2> DEFINE c == [me EXCEPT !.pc = "returns", !.ret = ret]
  <2>1. Goes(p, c)
    BY <1>6 DEF Returns
  <2>2. /\ c \in Call(heap) /\ c.pc = "returns" /\ c.dir = me.dir /\ c.op = me.op
        /\ c.name = me.name /\ c.ret = ret
    BY <1>2, <1>6 DEF Call
  <2> HIDE DEF c
  <2>3. MidCall(c, heap, head, next_ino, known)
    BY <1>4, <1>6, <2>2 DEF MidCall
  <2> QED
    BY <1>1, <2>1, <2>2, <2>3, GoesSound DEF Adding
<1>7. CASE me.cur = NULL /\ me.op # "create"
  <2>1. Returns(p, -ENOENT) /\ -ENOENT \in Int
    BY <1>7 DEF Walk, ENOENT
  <2> QED
    BY <1>6, <1>7, <2>1
<1>8. CASE me.cur # NULL /\ Matches(p) /\ (Returns(p, -EEXIST) \/ Returns(p, 0))
  BY <1>6, <1>8 DEF EEXIST, ENOENT
<1>9. CASE /\ me.cur # NULL /\ Matches(p) /\ me.op = "unlink" /\ Filled(p)
           /\ Goes(p, [me EXCEPT !.pc = "cut"])
  <2> DEFINE c == [me EXCEPT !.pc = "cut"]
  <2>1. /\ c \in Call(heap) /\ c.pc = "cut" /\ c.dir = me.dir /\ c.op = "unlink"
        /\ c.name = me.name /\ c.ret = 0 /\ c.cur = me.cur
    BY <1>2, <1>3, <1>9 DEF Call
  <2> HIDE DEF c
  <2>2. IsChild(heap[me.cur], me.dir, me.name)
    BY <1>9 DEF Matches, Filled, Cur
  <2>3. k \in DOMAIN known /\ known[k] = me.cur
    BY <1>2, <1>3, <1>9, <2>2 DEF Accounted, IsChild
  <2>4. MidCall(c, heap, head, next_ino, known)
    BY <2>1, <2>3 DEF MidCall
  <2>5. Goes(p, c)
    BY <1>9 DEF c
  <2> QED
    BY <1>1, <1>9, <2>1, <2>4, <2>5, GoesSound DEF Adding
<1>10. CASE /\ me.cur # NULL /\ (Cur(p).st = "new" \/ (Filled(p) /\ ~Matches(p)))
            /\ Goes(p, [me EXCEPT !.prev = me.cur, !.cur = Cur(p).next])
  <2> DEFINE n == heap[me.cur].next
             c == [me EXCEPT !.prev = me.cur, !.cur = n]
  <2>1. me.cur \in DOMAIN heap /\ n \in DOMAIN heap \cup {NULL}
    BY <1>2, <1>3, <1>10 DEF Pointers
  <2>2. /\ c \in Call(heap) /\ c.pc = "walk" /\ c.dir = me.dir /\ c.op = me.op
        /\ c.name = me.name /\ c.ret = 0 /\ c.cur = n
    BY <1>1, <1>2, <1>3, <2>1 DEF Call
  <2> HIDE DEF c
  <2>3. k \in DOMAIN known => known[k] # me.cur
    <3>1. ~IsChild(heap[me.cur], me.dir, me.name)
      BY <1>10 DEF Matches, Filled, Cur, IsChild
    <3> QED
      BY <1>2, <3>1 DEF Accounted
  <2>4. From(heap, me.cur) = {me.cur} \cup From(heap, n)
    BY <1>2, <2>1, FromStep
  <2>5. MidCall(c, heap, head, next_ino, known)
    BY <1>3, <2>2, <2>3, <2>4 DEF MidCall
  <2>6. Goes(p, c)
    BY <1>10 DEF c, Cur
  <2> QED
    BY <1>1, <2>2, <2>5, <2>6, GoesSound DEF Adding
<1>11. ~Crashes
  BY DEF Crashes
<1> QED
  BY <1>5, <1>7, <1>8, <1>9, <1>10, <1>11 DEF Walk

LEMMA FindParentSound ==
  ASSUME Sound(heap, head, next_ino, proc, known), NEW p \in Proc, FindParent(p), ~ub'
  PROVE  Sound(heap, head, next_ino, proc, known)'
<1> DEFINE me == proc[p]
<1>1. me.pc = "parent" /\ ~ub /\ ~Crashes
  BY DEF FindParent, At, Crashes
<1>2. /\ me \in Call(heap) /\ MidCall(me, heap, head, next_ino, known)
      /\ Pointers(heap)
  BY <1>1, InCall
<1>3. me.op = "create" /\ <<me.dir, me.name>> \notin DOMAIN known /\ me.ret = 0
  BY <1>1, <1>2 DEF MidCall
<1>4. CASE me.cur = NULL /\ Returns(p, -ENOTDIR)
  <2> DEFINE c == [me EXCEPT !.pc = "returns", !.ret = -ENOTDIR]
  <2>1. Goes(p, c)
    BY <1>4 DEF Returns
  <2>2. c \in Call(heap) /\ c.pc = "returns" /\ c.dir = me.dir /\ c.op = me.op /\ c.ret # -ENOENT
    <3>1. -ENOTDIR \in Int /\ -ENOTDIR # -ENOENT
      BY DEF ENOTDIR, ENOENT
    <3> QED
      BY <1>2, <3>1 DEF Call
  <2> HIDE DEF c
  <2>3. MidCall(c, heap, head, next_ino, known)
    BY <2>2 DEF MidCall
  <2> QED
    BY <1>1, <2>1, <2>2, <2>3, GoesSound DEF Adding
<1>5. CASE me.cur # NULL /\ Goes(p, [me EXCEPT !.pc = "alloc"])
  <2> DEFINE c == [me EXCEPT !.pc = "alloc"]
  <2>1. /\ c \in Call(heap) /\ c.pc = "alloc" /\ c.dir = me.dir /\ c.op = me.op /\ c.ret = 0
        /\ c.name = me.name
    BY <1>2, <1>3 DEF Call
  <2>2. Goes(p, c)
    BY <1>5
  <2> HIDE DEF c
  <2>3. MidCall(c, heap, head, next_ino, known)
    BY <1>3, <2>1 DEF MidCall
  <2> QED
    BY <1>1, <2>1, <2>2, <2>3, GoesSound DEF Adding
<1>6. CASE me.cur # NULL /\ Goes(p, [me EXCEPT !.cur = Cur(p).next])
  <2> DEFINE n == heap[me.cur].next
             c == [me EXCEPT !.cur = n]
  <2>1. n \in DOMAIN heap \cup {NULL}
    BY <1>2, <1>6 DEF Pointers, Call
  <2>2. /\ c \in Call(heap) /\ c.pc = "parent" /\ c.dir = me.dir /\ c.op = me.op /\ c.ret = 0
        /\ c.name = me.name
    BY <1>1, <1>2, <1>3, <2>1 DEF Call
  <2>3. Goes(p, c)
    BY <1>6 DEF Cur
  <2> HIDE DEF c
  <2>4. MidCall(c, heap, head, next_ino, known)
    BY <1>3, <2>2 DEF MidCall
  <2> QED
    BY <1>1, <2>2, <2>3, <2>4, GoesSound DEF Adding
<1> QED
  BY <1>1, <1>4, <1>5, <1>6 DEF FindParent

LEMMA AllocStep ==
  ASSUME Sound(heap, head, next_ino, proc, known), NEW p \in Proc, Alloc(p)
  PROVE  Sound(heap, head, next_ino, proc, known)'
<1>1. proc[p].pc = "alloc"
  BY DEF Alloc, At
<1>2. CASE Returns(p, -ENOMEM)
  <2> DEFINE c == [proc[p] EXCEPT !.pc = "returns", !.ret = -ENOMEM]
  <2>1. Goes(p, c)
    BY <1>2 DEF Returns
  <2>2. proc[p] \in Call(heap) /\ -ENOMEM \in Int /\ -ENOMEM # -ENOENT
    BY <1>1, InCall DEF ENOMEM, ENOENT
  <2>3. /\ c \in Call(heap) /\ c.pc = "returns" /\ c.dir = proc[p].dir /\ c.op = proc[p].op
        /\ c.ret # -ENOENT
    BY <2>2 DEF Call
  <2> HIDE DEF c
  <2>4. MidCall(c, heap, head, next_ino, known)
    BY <2>3 DEF MidCall
  <2> QED
    BY <1>1, <2>1, <2>3, <2>4, GoesSound DEF Adding
<1>3. ASSUME NEW a \in Addr \ DOMAIN heap,
             heap' = WithNew(heap, head, a),
             proc' = [proc EXCEPT ![p].pc = "publish", ![p].cur = a],
             UNCHANGED <<head, next_ino, known>>
      PROVE  Sound(heap, head, next_ino, proc, known)'
  <2>1. a # NULL /\ a \notin DOMAIN heap
    BY AddrAssumption
  <2>2. Sound(heap', head, next_ino, proc', known)
    BY <1>1, <1>3, <2>1, AllocSound
  <2> QED
    BY <1>3, <2>2
<1> QED
  BY <1>2, <1>3 DEF Alloc, WithNew

LEMMA PublishStep ==
  ASSUME Sound(heap, head, next_ino, proc, known), NEW p \in Proc, Publish(p), ~raced'
  PROVE  Sound(heap, head, next_ino, proc, known)'
<1>1. /\ proc[p].pc = "publish" /\ head = heap[proc[p].cur].next
      /\ proc' = [proc EXCEPT ![p].pc = "take"] /\ head' = proc[p].cur
      /\ heap' = heap /\ next_ino' = next_ino /\ known' = known
  BY DEF Publish, At, Cur
<1>2. Sound(heap, proc[p].cur, next_ino, proc', known)
  BY <1>1, PublishSound
<1> QED
  BY <1>1, <1>2

LEMMA TakeInoStep ==
  ASSUME Sound(heap, head, next_ino, proc, known), NEW p \in Proc, TakeIno(p)
  PROVE  Sound(heap, head, next_ino, proc, known)'
<1> DEFINE c == [proc[p] EXCEPT !.pc = "bump", !.ino = next_ino]
<1>1. Goes(p, c) /\ proc[p].pc = "take" /\ next_ino \in Nat
  BY DEF TakeIno, At, Sound, Memory
<1>2. proc[p] \in Call(heap) /\ MidCall(proc[p], heap, head, next_ino, known)
  BY <1>1, InCall
<1>3. /\ c \in Call(heap) /\ c.pc = "bump" /\ c.dir = proc[p].dir /\ c.op = proc[p].op
      /\ c.name = proc[p].name /\ c.ret = proc[p].ret /\ c.cur = proc[p].cur
  BY <1>1, <1>2 DEF Call
<1> HIDE DEF c
<1>4. MidCall(c, heap, head, next_ino, known)
  BY <1>1, <1>2, <1>3 DEF MidCall
<1> QED
  BY <1>1, <1>3, <1>4, GoesSound DEF Adding

LEMMA BumpStep ==
  ASSUME Sound(heap, head, next_ino, proc, known), NEW p \in Proc, Bump(p), ~raced'
  PROVE  Sound(heap, head, next_ino, proc, known)'
<1>1. /\ proc[p].pc = "bump" /\ next_ino = proc[p].ino
      /\ proc' = [proc EXCEPT ![p].pc = "fill"] /\ next_ino' = next_ino + 1
      /\ heap' = heap /\ head' = head /\ known' = known
  BY DEF Bump, At
<1>2. Sound(heap, head, next_ino + 1, proc', known)
  BY <1>1, BumpSound
<1> QED
  BY <1>1, <1>2

LEMMA FillStep ==
  ASSUME Sound(heap, head, next_ino, proc, known), NEW p \in Proc, Fill(p)
  PROVE  Sound(heap, head, next_ino, proc, known)'
<1>1. /\ proc[p].pc = "fill" /\ proc' = [proc EXCEPT ![p].pc = "returns"]
      /\ heap' = WithFilled(heap, proc[p]) /\ known' = Knowing(known, proc[p])
      /\ head' = head /\ next_ino' = next_ino
  BY DEF Fill, At, Key, KeyOf, WithFilled, Knowing
<1>2. Sound(heap', head, next_ino, proc', known')
  BY <1>1, FillSound
<1> QED
  BY <1>1, <1>2

LEMMA CutStep ==
  ASSUME Sound(heap, head, next_ino, proc, known), NEW p \in Proc, Cut(p)
  PROVE  Sound(heap, head, next_ino, proc, known)'
<1> DEFINE n == heap[proc[p].cur].next
           c == [proc[p] EXCEPT !.pc = "relink", !.next = n]
<1>1. Goes(p, c) /\ proc[p].pc = "cut"
  BY DEF Cut, At, Cur
<1>2. /\ proc[p] \in Call(heap) /\ MidCall(proc[p], heap, head, next_ino, known)
      /\ Pointers(heap) /\ \A k \in DOMAIN known : known[k] \in DOMAIN heap
  BY <1>1, InCall
<1>3. n \in DOMAIN heap \cup {NULL}
  BY <1>1, <1>2 DEF Pointers, MidCall
<1>4. /\ c \in Call(heap) /\ c.pc = "relink" /\ c.dir = proc[p].dir /\ c.op = proc[p].op
      /\ c.name = proc[p].name /\ c.ret = proc[p].ret /\ c.cur = proc[p].cur
  BY <1>1, <1>2, <1>3 DEF Call
<1> HIDE DEF c
<1>5. MidCall(c, heap, head, next_ino, known)
  BY <1>1, <1>2, <1>4 DEF MidCall
<1> QED
  BY <1>1, <1>4, <1>5, GoesSound DEF Adding

LEMMA RelinkStep ==
  ASSUME Sound(heap, head, next_ino, proc, known), NEW p \in Proc, Relink(p), ~raced', ~ub, ~ub'
  PROVE  Sound(heap, head, next_ino, proc, known)'
<1>1. /\ proc[p].pc = "relink" /\ StillLinked(p) /\ heap[proc[p].cur].next = proc[p].next
      /\ Unlinked(p) /\ proc' = [proc EXCEPT ![p].pc = "free"]
      /\ next_ino' = next_ino /\ known' = known
  BY DEF Relink, At, Cur, Crashes
<1>2. CASE proc[p].prev = NULL
  <2>1. head = proc[p].cur /\ head' = proc[p].next /\ heap' = heap
    BY <1>1, <1>2 DEF StillLinked, Unlinked
  <2>2. Sound(heap, proc[p].next, next_ino, proc', known)
    BY <1>1, <2>1, BeheadSound
  <2> QED
    BY <1>1, <2>1, <2>2
<1>3. CASE proc[p].prev # NULL
  <2>1. /\ proc[p].prev \in From(heap, head) /\ heap[proc[p].prev].next = proc[p].cur
        /\ heap' = [heap EXCEPT ![proc[p].prev].next = proc[p].next] /\ head' = head
    BY <1>1, <1>3 DEF StillLinked, Unlinked, Reached
  <2>2. Sound(heap', head, next_ino, proc', known)
    BY <1>1, <2>1, BypassSound
  <2> QED
    BY <1>1, <2>1, <2>2
<1> QED
  BY <1>2, <1>3

LEMMA FreeStep ==
  ASSUME Sound(heap, head, next_ino, proc, known), NEW p \in Proc, Free(p)
  PROVE  Sound(heap, head, next_ino, proc, known)'
<1>1. /\ proc[p].pc = "free" /\ proc' = [proc EXCEPT ![p].pc = "returns"]
      /\ heap' = WithFreed(heap, proc[p]) /\ known' = Forgetting(known, proc[p])
      /\ head' = head /\ next_ino' = next_ino
  BY DEF Free, At, Key, KeyOf, WithFreed, Forgetting
<1>2. Sound(heap', head, next_ino, proc', known')
  BY <1>1, FreeSound
<1> QED
  BY <1>1, <1>2

\* A stale write and undefined behaviour are not forgotten.
LEMMA FlagsStay ==
  ASSUME raced \in BOOLEAN, ub \in BOOLEAN, [RaceNext]_race_vars
  PROVE  raced' \in BOOLEAN /\ ub' \in BOOLEAN /\ (raced => raced') /\ (ub => ub')
<1>1. CASE UNCHANGED race_vars
  BY <1>1 DEF race_vars
<1>2. ASSUME NEW p \in Proc, NEW op, NEW dir, NEW name, Begin(p, op, dir, name)
      PROVE  raced' = raced /\ ub' = ub
  BY <1>2 DEF Begin
<1>3. ASSUME NEW p \in Proc, Walk(p) \/ FindParent(p)
      PROVE  raced' = raced /\ (ub' = ub \/ ub' = TRUE)
  <2>1. \A c : Goes(p, c) => raced' = raced /\ ub' = ub
    BY DEF Goes
  <2>2. \A r : Returns(p, r) => raced' = raced /\ ub' = ub
    BY <2>1 DEF Returns
  <2>3. Crashes => raced' = raced /\ ub' = TRUE
    BY DEF Crashes
  <2>4. Walk(p) => (\E c : Goes(p, c)) \/ (\E r : Returns(p, r)) \/ Crashes
    BY DEF Walk
  <2>5. FindParent(p) => (\E c : Goes(p, c)) \/ (\E r : Returns(p, r)) \/ Crashes
    BY DEF FindParent
  <2> QED
    BY <1>3, <2>1, <2>2, <2>3, <2>4, <2>5
<1>4. ASSUME NEW p \in Proc, Alloc(p) \/ TakeIno(p) \/ Fill(p) \/ Cut(p) \/ Free(p) \/ Leave(p)
      PROVE  raced' = raced /\ ub' = ub
  BY <1>4 DEF Alloc, TakeIno, Fill, Cut, Free, Leave, Goes, Returns
<1>5. ASSUME NEW p \in Proc, Publish(p) \/ Bump(p) \/ Relink(p)
      PROVE  /\ raced' \in BOOLEAN /\ (raced => raced')
             /\ ub' = ub \/ ub' = TRUE
  BY <1>5, Zenon DEF Publish, Bump, Relink, Crashes
<1> QED
  BY <1>1, <1>2, <1>3, <1>4, <1>5 DEF RaceNext, create, unlink, lookup

LEMMA RaceInvStep == RaceInv /\ [RaceNext]_race_vars => RaceInv'
<1> SUFFICES ASSUME RaceInv, [RaceNext]_race_vars, ~raced', ~ub'
             PROVE  Sound(heap, head, next_ino, proc, known)'
  BY FlagsStay DEF RaceInv
<1>1. Sound(heap, head, next_ino, proc, known) /\ ~raced /\ ~ub
  BY FlagsStay DEF RaceInv
<1>2. CASE UNCHANGED race_vars
  <2>1. /\ heap' = heap /\ head' = head /\ next_ino' = next_ino
        /\ proc' = proc /\ known' = known
    BY <1>2 DEF race_vars
  <2> QED
    BY <1>1, <2>1
<1>3. ASSUME NEW p \in Proc, NEW dir \in Dir, NEW name \in Name,
             create(p, dir, name) \/ unlink(p, dir, name) \/ lookup(p, dir, name)
      PROVE  Sound(heap, head, next_ino, proc, known)'
  BY <1>1, <1>3, BeginSound DEF create, unlink, lookup
<1>4. ASSUME NEW p \in Proc, Walk(p)
      PROVE  Sound(heap, head, next_ino, proc, known)'
  BY <1>1, <1>4, WalkSound
<1>5. ASSUME NEW p \in Proc, FindParent(p)
      PROVE  Sound(heap, head, next_ino, proc, known)'
  BY <1>1, <1>5, FindParentSound
<1>6. ASSUME NEW p \in Proc, Alloc(p) \/ Publish(p) \/ TakeIno(p) \/ Bump(p) \/ Fill(p)
      PROVE  Sound(heap, head, next_ino, proc, known)'
  BY <1>1, <1>6, AllocStep, PublishStep, TakeInoStep, BumpStep, FillStep
<1>7. ASSUME NEW p \in Proc, Cut(p) \/ Relink(p) \/ Free(p) \/ Leave(p)
      PROVE  Sound(heap, head, next_ino, proc, known)'
  BY <1>1, <1>7, CutStep, RelinkStep, FreeStep, LeaveSound
<1> QED
  BY <1>2, <1>3, <1>4, <1>5, <1>6, <1>7 DEF RaceNext

-----------------------------------------------------------------------------
(* The first list.                                                         *)

\* A walk along 1, 2, ... meets each: else those it misses, up to the first
\* one given, would be as many as their predecessors, which are fewer.
LEMMA ChainMet ==
  ASSUME NEW n \in Nat, NEW h, DOMAIN h = 1..n,
         \A a \in 1..n : h[a].next = IF a = n THEN NULL ELSE a + 1,
         NEW last \in 1..n
  PROVE  last \in From(h, 1)
<1> SUFFICES ASSUME NEW R \in SUBSET (1..n), Closed(h, 1, R), last \notin R
             PROVE  FALSE
  BY FromMeets
<1> DEFINE U == {x \in 1..last : x \notin R}
<1>1. 1 \in R
  BY DEF Closed, NULL
<1>2. ASSUME NEW x \in U
      PROVE  x \in 2..last /\ x - 1 \in U \ {last}
  <2>1. x \in 1..last /\ x # 1 /\ x \in 2..last /\ x - 1 \in 1..n /\ x - 1 # n /\ x - 1 \in 1..last
    BY <1>1, <1>2
  <2>2. h[x - 1].next = x /\ x # NULL
    BY <2>1 DEF NULL
  <2>3. x - 1 \notin R
    BY <1>2, <2>2 DEF Closed
  <2> QED
    BY <2>1, <2>3
<1>3. IsFiniteSet(U) /\ Cardinality(U) \in Nat
  <2>1. IsFiniteSet(1..last)
    BY FS_Interval
  <2> QED
    BY <2>1, FS_Subset, FS_CardinalityType
<1>4. IsFiniteSet(U \ {last}) /\ Cardinality(U \ {last}) = Cardinality(U) - 1
  <2>1. last \in U
    OBVIOUS
  <2> HIDE DEF U
  <2> QED
    BY <1>3, <2>1, FS_RemoveElement
<1> DEFINE before == [x \in U |-> x - 1]
<1>5. before \in [U -> U \ {last}]
  BY <1>2
<1>6. \E x, y \in U : x # y /\ before[x] = before[y]
  <2>1. Cardinality(U \ {last}) < Cardinality(U)
    BY <1>3, <1>4
  <2> HIDE DEF U, before
  <2> QED
    BY <1>3, <1>4, <1>5, <2>1, FS_PigeonHole
<1> QED
  BY <1>6

LEMMA FirstFinite == Cardinality(DOMAIN FirstNodes) \in Nat \ {0}
<1> DEFINE roots == {<<0, d>> : d \in Dir}
           root  == [d \in Dir |-> <<0, d>>]
<1>1. IsFiniteSet(Dir)
  <2>1. \A s \in Dir : s \in Nat /\ s <= 1499
    BY DirAssumption DEF VTFS_ROOT_INO
  <2>2. Dir \in SUBSET Nat
    BY <2>1
  <2> QED
    BY ONLY <2>1, <2>2, FS_BoundedSetOfNaturals
<1>2. root \in Surjection(Dir, roots)
  BY DEF Surjection
<1>3. IsFiniteSet(roots)
  BY <1>1, <1>2, FS_Surjection
<1>4. DOMAIN FirstNodes = OldFile \cup roots
  BY DEF FirstNodes
<1>5. IsFiniteSet(DOMAIN FirstNodes)
  <2>1. IsFiniteSet(OldFile)
    BY DirAssumption
  <2> HIDE DEF roots
  <2>2. IsFiniteSet(OldFile \cup roots)
    BY ONLY <1>3, <2>1, FS_Union
  <2> QED
    BY <1>4, <2>2
<1>6. <<0, VTFS_ROOT_INO>> \in DOMAIN FirstNodes
  BY <1>4, DirAssumption
<1> QED
  BY <1>5, <1>6, FS_EmptySet, FS_CardinalityType

LEMMA RaceInvInit == RaceInit => RaceInv
<1> DEFINE n == Cardinality(DOMAIN FirstNodes)
<1>0. n \in Nat /\ n # 0
  BY FirstFinite
<1> HIDE DEF n
<1> SUFFICES ASSUME RaceInit
             PROVE  Sound(heap, head, next_ino, proc, known) /\ raced = FALSE /\ ub = FALSE
  BY DEF RaceInv
<1>1. PICK order \in [1..n -> DOMAIN FirstNodes] :
        /\ \A i, j \in 1..n : order[i] = order[j] => i = j
        /\ known = [k \in OldFile |-> CHOOSE a \in 1..n : order[a] = k]
        /\ \A k \in OldFile : \E a \in 1..n : order[a] = k
        /\ heap = [a \in 1..n |->
             LET k    == order[a]
                 next == IF a = n THEN NULL ELSE a + 1
             IN IF k \in OldFile THEN Node(next, k[1], k[2], FIRST_INO + a)
                ELSE Node(next, 0, "", k[2])]
  BY DEF RaceInit, n
<1>2. /\ head = 1 /\ next_ino = FIRST_INO + n + 1 /\ proc = [p \in Proc |-> Idle]
      /\ raced = FALSE /\ ub = FALSE
  BY DEF RaceInit, n
<1>3. \A k \in OldFile : k = <<k[1], k[2]>> /\ k[1] \in Dir /\ k[2] \in Name
  BY DirAssumption
<1>4. \A d \in Dir : d \in Nat /\ d # 0
  BY DirAssumption DEF VTFS_ROOT_INO
<1>5. ASSUME NEW a \in 1..n, order[a] \notin OldFile
      PROVE  order[a][2] \in Nat
  <2>1. DOMAIN FirstNodes = OldFile \cup {<<0, d>> : d \in Dir}
    BY DEF FirstNodes
  <2>2. order[a] \in {<<0, d>> : d \in Dir}
    BY <1>5, <2>1
  <2> QED
    BY <1>4, <2>2
<1>6. DOMAIN heap = 1..n /\ 1 \in 1..n /\ NULL \notin 1..n
  <2>1. DOMAIN heap = 1..n
    BY <1>1
  <2> QED
    BY <1>0, <2>1 DEF NULL
<1>7. ASSUME NEW a \in 1..n
      PROVE  /\ heap[a].st = "filled" /\ heap[a].next = (IF a = n THEN NULL ELSE a + 1)
             /\ heap[a].next \in (1..n) \cup {NULL}
             /\ order[a] \in OldFile =>
                  /\ heap[a].parent_ino = order[a][1] /\ heap[a].name = order[a][2]
                  /\ heap[a].ino = FIRST_INO + a
             /\ order[a] \notin OldFile => heap[a].parent_ino = 0
             /\ heap[a] \in NodeMemory(heap)
  <2>1. (IF a = n THEN NULL ELSE a + 1) \in (1..n) \cup {NULL} /\ FIRST_INO + a \in Nat
    BY <1>0 DEF FIRST_INO
  <2> DEFINE after == IF a = n THEN NULL ELSE a + 1
  <2> HIDE DEF after
  <2>2. CASE order[a] \in OldFile
    <3> DEFINE dir  == order[a][1]
               name == order[a][2]
               ino  == FIRST_INO + a
    <3>1. heap[a] = Node(after, dir, name, ino)
      BY <1>1, <2>2 DEF after
    <3>2. dir \in Nat /\ name \in Name \cup {""} /\ ino \in Nat /\ after \in DOMAIN heap \cup {NULL}
      BY <1>3, <1>4, <1>6, <2>1, <2>2 DEF after
    <3> HIDE DEF dir, name, ino
    <3>3. PICK node : node = heap[a]
      OBVIOUS
    <3>4. node = Node(after, dir, name, ino)
      BY <3>1, <3>3
    <3>5. /\ node \in NodeMemory(heap)
          /\ node.st = "filled" /\ node.next = after /\ node.parent_ino = dir
          /\ node.name = name /\ node.ino = ino
      BY ONLY <3>2, <3>4 DEF Node, NodeMemory
    <3> QED
      BY <1>6, <2>1, <2>2, <3>3, <3>5 DEF after, dir, name, ino
  <2>3. CASE order[a] \notin OldFile
    <3> DEFINE ino == order[a][2]
               none == ""
    <3>1. heap[a] = Node(after, 0, none, ino)
      BY <1>1, <2>3 DEF after
    <3>2. none \in Name \cup {""} /\ ino \in Nat /\ after \in DOMAIN heap \cup {NULL}
      BY <1>5, <1>6, <2>1, <2>3 DEF after
    <3> HIDE DEF ino, none
    <3>3. PICK node : node = heap[a]
      OBVIOUS
    <3>4. node = Node(after, 0, none, ino)
      BY <3>1, <3>3
    <3>5. /\ node \in NodeMemory(heap)
          /\ node.st = "filled" /\ node.next = after /\ node.parent_ino = 0
      BY ONLY <3>2, <3>4 DEF Node, NodeMemory
    <3> QED
      BY <1>6, <2>1, <2>3, <3>3, <3>5 DEF after
  <2> QED
    BY <2>2, <2>3
<1>8. Pointers(heap)
  BY <1>6, <1>7 DEF Pointers
<1>9. \A k \in OldFile : known[k] \in 1..n /\ order[known[k]] = k
  BY <1>1
<1>10. DOMAIN known = OldFile /\ known = [k \in OldFile |-> known[k]]
  BY <1>1
<1> DEFINE nodes == From(heap, head)
<1>11. nodes = 1..n
  <2>1. nodes \subseteq 1..n
    BY <1>6 DEF From
  <2>2. 1..n \subseteq nodes
    BY <1>0, <1>2, <1>6, <1>7, ChainMet
  <2> QED
    BY <2>1, <2>2
<1>12. Memory(heap, head, next_ino, proc, known)
  <2>1. heap = [a \in 1..n |-> heap[a]]
    BY <1>1
  <2>2. heap \in [DOMAIN heap -> NodeMemory(heap)]
    BY <1>6, <1>7, <2>1
  <2>3. next_ino \in Nat /\ head \in DOMAIN heap /\ NULL \notin DOMAIN heap
    BY <1>0, <1>2, <1>6 DEF FIRST_INO
  <2>4. known \in [DOMAIN known -> DOMAIN heap]
    BY <1>6, <1>9, <1>10
  <2> QED
    BY <1>2, <1>10, <2>2, <2>3, <2>4, DirAssumption DEF Memory
<1>13. Idle.pc = "idle"
  BY DEF Idle
<1>14. Alone(proc)
  BY <1>2, <1>13 DEF Alone
<1>15. Straight(heap, head)
  BY <1>0, <1>2, <1>7, <1>11 DEF Straight, NULL
<1>16. Accounted(heap, known)
  <2>1. \A k \in DOMAIN known : IsChild(heap[known[k]], k[1], k[2])
    BY <1>7, <1>9, <1>10 DEF IsChild
  <2>2. ASSUME NEW a \in DOMAIN heap, heap[a].parent_ino # 0
        PROVE  /\ <<heap[a].parent_ino, heap[a].name>> \in DOMAIN known
               /\ known[<<heap[a].parent_ino, heap[a].name>>] = a
    <3>1. order[a] \in OldFile /\ <<heap[a].parent_ino, heap[a].name>> = order[a]
      BY <1>3, <1>6, <1>7, <2>2
    <3>2. known[order[a]] \in 1..n /\ order[known[order[a]]] = order[a] /\ a \in 1..n
      BY <1>6, <1>9, <3>1
    <3>3. known[order[a]] = a
      BY <1>1, <3>2
    <3> QED
      BY <1>10, <3>1, <3>3
  <2> QED
    BY <2>1, <2>2 DEF Accounted
<1>17. Listed(heap, head, proc, known)
  BY <1>7, <1>9, <1>10, <1>11 DEF Listed
<1>18. Apart(heap, next_ino, proc, known)
  <2>1. \A k \in OldFile : heap[known[k]].ino = FIRST_INO + known[k]
    BY <1>7, <1>9
  <2>2. \A k \in OldFile : FIRST_INO + known[k] < next_ino
    BY <1>0, <1>2, <1>9 DEF FIRST_INO
  <2>3. \A j, k \in OldFile : FIRST_INO + known[j] = FIRST_INO + known[k] => known[j] = known[k]
    BY <1>9 DEF FIRST_INO
  <2>4. \A j, k \in OldFile : known[j] = known[k] => j = k
    BY <1>9
  <2> QED
    BY <1>2, <1>10, <1>13, <2>1, <2>2, <2>3, <2>4 DEF Apart
<1> QED
  BY <1>2, <1>12, <1>13, <1>14, <1>15, <1>16, <1>17, <1>18 DEF Sound

\* Until a write comes too late, the list is sound in every part.
THEOREM RaceInvariance == RaceSpec => []RaceInv
BY RaceInvInit, RaceInvStep, PTL DEF RaceSpec

\* For any number of processes and directories: the list loses no name, holds
\* none twice, hides none from a walk, keeps no freed node and gives no number
\* twice, unless one of the three unprotected writes was stale.
THEOREM RaceIntact == RaceSpec => []IntactUnlessRaced
<1>1. RaceInv => IntactUnlessRaced
  <2> SUFFICES ASSUME Sound(heap, head, next_ino, proc, known), ~raced, ~ub
               PROVE  /\ \A k \in DOMAIN known :
                           \/ known[k] \in Reached
                           \/ \E p \in Proc : At(p, "free") /\ Key(p) = k
                      /\ \A a \in Reached : heap[a].st # "freed"
                      /\ \A a, b \in Reached \cap Named :
                           heap[a].parent_ino = heap[b].parent_ino /\ heap[a].name = heap[b].name
                             => a = b
                      /\ NotFound
                      /\ \A j, k \in DOMAIN known :
                           heap[known[j]].ino = heap[known[k]].ino => j = k
    BY DEF RaceInv, IntactUnlessRaced
  <2>1. /\ Accounted(heap, known) /\ Listed(heap, head, proc, known)
        /\ Apart(heap, next_ino, proc, known)
        /\ \A p \in Proc : proc[p].pc # "idle" =>
             MidCall(proc[p], heap, head, next_ino, known)
    BY DEF Sound
  <2>2. Reached \subseteq DOMAIN heap
    BY DEF Reached, From
  <2>3. /\ \A k \in DOMAIN known :
             known[k] \in Reached \/ \E p \in Proc : At(p, "free") /\ Key(p) = k
        /\ \A a \in Reached : heap[a].st # "freed"
    BY <2>1 DEF Listed, Reached, At, Key
  <2>4. \A a, b \in Reached \cap Named :
          heap[a].parent_ino = heap[b].parent_ino /\ heap[a].name = heap[b].name => a = b
    BY <2>1, <2>2 DEF Accounted, Named
  <2>5. NotFound
    <3> SUFFICES ASSUME NEW p \in Proc, At(p, "returns"), proc[p].ret = -ENOENT,
                        NEW a \in Reached, IsChild(heap[a], proc[p].dir, proc[p].name)
                 PROVE  FALSE
      BY DEF NotFound
    <3>1. proc[p].pc = "returns" /\ <<proc[p].dir, proc[p].name>> \notin DOMAIN known
      BY <2>1 DEF At, MidCall
    <3>2. proc[p].dir # 0
      <4>1. proc[p] \in Call(heap)
        BY <3>1, InCall
      <4> QED
        BY <4>1, DirAssumption DEF Call, VTFS_ROOT_INO
    <3> QED
      BY <2>1, <2>2, <3>1, <3>2 DEF Accounted, IsChild
  <2> QED
    BY <2>1, <2>3, <2>4, <2>5 DEF Apart
<1> QED
  BY <1>1, RaceInvariance, PTL

-----------------------------------------------------------------------------
(* Two directories: what a stale write leaves.                             *)

LEMMA AgeType == \A a \in Nat : Age(a) \in Int
BY FirstFinite DEF Age

\* Walks lead to older nodes.
LEMMA FromOlder ==
  ASSUME NEW h, Pointers(h), Aged(h), NEW first \in DOMAIN h, NEW a \in From(h, first)
  PROVE  Age(a) <= Age(first)
<1> DEFINE R == {b \in DOMAIN h : Age(b) <= Age(first)}
<1>1. \A b \in DOMAIN h : Age(b) \in Int
  BY AgeType DEF Aged
<1>2. Closed(h, first, R)
  <2>1. first \in R
    BY <1>1
  <2>2. ASSUME NEW b \in R
        PROVE  h[b].next \in R \cup {NULL}
    <3>1. h[b].next \in DOMAIN h \cup {NULL}
      BY DEF Pointers
    <3>2. CASE h[b].next # NULL
      <4>1. Age(h[b].next) < Age(b) /\ Age(b) <= Age(first)
        BY <3>2 DEF Aged
      <4> QED
        BY <1>1, <3>1, <3>2, <4>1
    <3> QED
      BY <3>2
  <2> QED
    BY <2>1, <2>2 DEF Closed
<1>3. From(h, first) \subseteq R
  BY <1>2, FromClosed
<1> QED
  BY <1>3

\* prev->next = next takes cur out of every walk and no other node that lives,
\* when from next on the same ones live as from cur->next on.
LEMMA FromRelinked ==
  ASSUME NEW h, NEW g, Pointers(h), NEW prev \in DOMAIN h, NEW cur \in DOMAIN h,
         NEW next \in DOMAIN h \cup {NULL}, NEW L,
         h[prev].next = cur, prev \notin From(h, next),
         From(h, next) \cap L = From(h, h[cur].next) \cap L,
         DOMAIN g = DOMAIN h, g[prev].next = next,
         \A a \in DOMAIN h \ {prev} : g[a].next = h[a].next,
         NEW first \in DOMAIN h \cup {NULL}
  PROVE  From(g, first) \cap (L \ {cur}) = (From(h, first) \cap L) \ {cur}
<1> DEFINE F == From(h, first)
           G == From(g, first)
           N == From(h, next)
           C == From(h, h[cur].next)
<1>0. Pointers(g) /\ h[cur].next \in DOMAIN h \cup {NULL} /\ NULL \notin DOMAIN h
  BY DEF Pointers
<1>1. Closed(h, first, F) /\ F \subseteq DOMAIN h
  BY FromClosed
<1>2. Closed(g, first, G) /\ G \subseteq DOMAIN h
  BY <1>0, FromClosed
<1>3. Closed(h, next, N) /\ N \subseteq DOMAIN h
  BY FromClosed
<1>4. Closed(h, h[cur].next, C) /\ C \subseteq DOMAIN h
  BY <1>0, FromClosed
<1>5. N \cap L = C \cap L
  OBVIOUS
<1> HIDE DEF F, G, N, C
<1>6. G \cap L \subseteq F
  <2>1. CASE prev \in F
    <3>1. cur \in F /\ h[cur].next \in F \cup {NULL}
      BY <1>0, <1>1, <2>1 DEF Closed
    <3>2. Closed(h, h[cur].next, F)
      BY <1>1, <3>1 DEF Closed
    <3>3. C \subseteq F
      BY <1>0, <1>1, <3>2, FromClosed DEF C
    <3>4. Closed(g, first, F \cup N)
      BY <1>0, <1>1, <1>3 DEF Closed
    <3>5. G \subseteq F \cup N
      BY <1>0, <1>1, <1>3, <3>4, FromClosed DEF G
    <3> QED
      BY <1>5, <3>3, <3>5
  <2>2. CASE prev \notin F
    <3>1. Closed(g, first, F)
      BY <1>1, <2>2 DEF Closed
    <3> QED
      BY <1>0, <1>1, <3>1, FromClosed DEF G
  <2> QED
    BY <2>1, <2>2
<1>7. (F \cap L) \ {cur} \subseteq G
  <2>1. CASE prev \in G
    <3>1. next \in G \cup {NULL}
      BY <1>2, <2>1 DEF Closed
    <3>2. Closed(h, next, N \cap G)
      BY <1>2, <1>3, <3>1 DEF Closed, N
    <3>3. N \subseteq G
      BY <1>3, <3>2, FromClosed DEF N
    <3>4. Closed(h, first, G \cup {cur} \cup C)
      BY <1>0, <1>2, <1>4, <2>1 DEF Closed
    <3>5. F \subseteq G \cup {cur} \cup C
      BY <1>2, <1>4, <3>4, FromClosed DEF F
    <3> QED
      BY <1>5, <3>3, <3>5
  <2>2. CASE prev \notin G
    <3>1. Closed(h, first, G)
      BY <1>2, <2>2 DEF Closed
    <3> QED
      BY <1>2, <3>1, FromClosed DEF F
  <2> QED
    BY <2>1, <2>2
<1> QED
  BY <1>6, <1>7 DEF F, G

\* Of three directories, two are the same.
LEMMA TwoDirs ==
  ASSUME Cardinality(Dir) <= 2, NEW a \in Dir, NEW b \in Dir, NEW c \in Dir
  PROVE  a = b \/ a = c \/ b = c
<1> SUFFICES ASSUME a # b, a # c, b # c PROVE FALSE
  OBVIOUS
<1>1. IsFiniteSet(Dir)
  <2>1. \A s \in Dir : s \in Nat /\ s <= 1499
    BY DirAssumption DEF VTFS_ROOT_INO
  <2>2. Dir \in SUBSET Nat
    BY <2>1
  <2> QED
    BY ONLY <2>1, <2>2, FS_BoundedSetOfNaturals
<1>2. IsFiniteSet({a}) /\ Cardinality({a}) = 1
  BY FS_Singleton
<1>3. IsFiniteSet({a} \cup {b}) /\ Cardinality({a} \cup {b}) = 2
  BY <1>2, FS_AddElement
<1>4. Cardinality(({a} \cup {b}) \cup {c}) = 3
  BY <1>3, FS_AddElement
<1>5. ({a} \cup {b}) \cup {c} \in SUBSET Dir
  OBVIOUS
<1>6. Cardinality(({a} \cup {b}) \cup {c}) <= Cardinality(Dir) /\ Cardinality(Dir) \in Nat
  BY <1>1, <1>5, FS_Subset, FS_CardinalityType
<1> QED
  BY <1>4, <1>6

\* An entry that lives is of its directory.
LEMMA EntryOf ==
  ASSUME NEW h, NEW pr, NEW dir, NEW name, NEW a, a \in Live(h, pr), IsChild(h[a], dir, name)
  PROVE  a \in EntriesOf(h, pr, dir)
BY DEF IsChild, EntriesOf

\* What holds of the memory and a call.
LEMMA GuardedFacts ==
  ASSUME NEW h, NEW hd, NEW ni, NEW pr, NEW kn, Guarded(h, hd, ni, pr, kn)
  PROVE  /\ Pointers(h) /\ hd \in DOMAIN h \cup {NULL} /\ Alone(pr) /\ Aged(h) /\ ni \in Nat
         /\ h \in [DOMAIN h -> NodeMemory(h)] /\ NULL \notin DOMAIN h
         /\ pr \in [Proc -> Call(h) \cup {Idle}] /\ Idle.pc = "idle"
         /\ \A q \in Proc : pr[q].pc # "idle" => pr[q] \in Call(h) /\ Fits(pr[q], h, hd, pr)
         /\ \A q \in Proc : Holds(pr[q]) => Held(pr[q]) \in DOMAIN h \cup {NULL} /\ pr[q].pc # "idle"
         /\ kn \in [DOMAIN kn -> DOMAIN h] /\ DOMAIN kn \subseteq Dir \X Name
<1>1. Memory(h, hd, ni, pr, kn)
  BY DEF Guarded
<1>2. \A q \in Proc : pr[q].pc # "idle" => pr[q] \in Call(h) /\ Fits(pr[q], h, hd, pr)
  BY <1>1, MemoryPoints DEF Guarded
<1>3. ASSUME NEW q \in Proc, Holds(pr[q])
      PROVE  Held(pr[q]) \in DOMAIN h \cup {NULL} /\ pr[q].pc # "idle"
  <2>1. pr[q].pc # "idle"
    BY <1>3 DEF Holds, Removing
  <2>2. pr[q] \in Call(h)
    BY <1>2, <2>1
  <2> QED
    BY <2>1, <2>2 DEF Held, Call
<1> QED
  BY <1>1, <1>2, <1>3, MemoryPoints DEF Guarded, Memory, Idle

\* A call keeps its place through another's step that takes at most the nodes
\* X out of the walks, gives the list none of its directory's entries, and
\* points past none of them.
LEMMA FitsOther ==
  ASSUME NEW h, NEW hd, NEW pr, NEW c \in Call(h), Fits(c, h, hd, pr),
         NEW g, NEW e, NEW two, DOMAIN h \subseteq DOMAIN g, NULL \notin DOMAIN h, Pointers(h),
         NEW X,
         \A x \in DOMAIN h \cup {NULL} : Onward(g, two, x) = Onward(h, pr, x) \ X,
         EntriesOf(g, two, c.dir) \subseteq EntriesOf(h, pr, c.dir) \ X,
         Onward(g, two, e) \cap EntriesOf(g, two, c.dir) \subseteq Onward(h, pr, hd),
         \A a \in DOMAIN h :
           /\ IsChild(g[a], c.dir, c.name) <=> IsChild(h[a], c.dir, c.name)
           /\ h[a].st # "new" => g[a].st # "new" /\ g[a].parent_ino = h[a].parent_ino
           /\ \/ g[a].next = h[a].next
              \/ /\ h[a].next \in DOMAIN h /\ h[h[a].next].st # "new"
                 /\ h[h[a].next].parent_ino # c.dir,
         \A a \in Within(g, e, two) : IsChild(g[a], c.dir, c.name) =>
           a \in DOMAIN h /\ a \in Within(h, hd, pr),
         c.pc \in Adding => g[c.cur].st = "new",
         c.pc = "relink" => Onward(g, two, c.next) = Onward(g, two, g[c.cur].next)
  PROVE  Fits(c, g, e, two)
<1>1. c.cur \in DOMAIN h \cup {NULL} /\ c.prev \in DOMAIN h \cup {NULL} /\ c.next \in DOMAIN h \cup {NULL}
  BY DEF Call
<1>2. Held(c) \in DOMAIN h \cup {NULL}
  BY <1>1 DEF Held
<1>3. ASSUME NEW a \in Onward(g, two, e), IsChild(g[a], c.dir, c.name)
      PROVE  a \in Onward(h, pr, hd) /\ a \in DOMAIN h /\ IsChild(h[a], c.dir, c.name) /\ a \notin X
  <2>1. a \in EntriesOf(g, two, c.dir)
    BY <1>3, EntryOf DEF Onward
  <2>2. a \in Onward(h, pr, hd) /\ a \notin X
    BY <1>3, <2>1
  <2>3. a \in DOMAIN h
    BY <2>2 DEF Onward, Live
  <2> QED
    BY <1>3, <2>2, <2>3
<1>4. c.pc = "walk" => \A a \in Onward(g, two, e) :
        IsChild(g[a], c.dir, c.name) => a \in Onward(g, two, c.cur)
  BY <1>1, <1>3 DEF Fits
<1>5. c.pc = "publish" \/ (Removing(c) /\ c.prev = NULL) =>
        Onward(g, two, e) \cap EntriesOf(g, two, c.dir) \subseteq Onward(g, two, Held(c)) \cup {c.cur}
  BY <1>2 DEF Fits
<1>6. c.pc \in {"parent", "alloc"} \cup Adding =>
        c.op = "create" /\ \A a \in Within(g, e, two) : ~IsChild(g[a], c.dir, c.name)
  BY DEF Fits
<1>7. c.pc \in Adding => c.cur # NULL /\ g[c.cur].st = "new"
  BY DEF Fits
<1>8. Removing(c) /\ c.prev # NULL =>
        \/ g[c.prev].next = c.cur
        \/ c.cur # NULL /\ g[c.cur].st # "new" /\ g[c.cur].parent_ino # c.dir
  <2> SUFFICES ASSUME Removing(c), c.prev # NULL
               PROVE  \/ g[c.prev].next = c.cur
                      \/ c.cur # NULL /\ g[c.cur].st # "new" /\ g[c.cur].parent_ino # c.dir
    OBVIOUS
  <2>1. \/ h[c.prev].next = c.cur
        \/ c.cur # NULL /\ h[c.cur].st # "new" /\ h[c.cur].parent_ino # c.dir
    BY DEF Fits
  <2>2. CASE h[c.prev].next = c.cur
    BY <1>1, <2>2
  <2>3. CASE c.cur # NULL /\ h[c.cur].st # "new" /\ h[c.cur].parent_ino # c.dir
    BY <1>1, <2>3
  <2> QED
    BY <2>1, <2>2, <2>3
<1>9. c.pc \in {"cut", "relink", "free"} =>
        /\ c.op = "unlink" /\ c.cur # NULL /\ IsChild(g[c.cur], c.dir, c.name)
        /\ \A a \in Within(g, e, two) : IsChild(g[a], c.dir, c.name) => a = c.cur
  BY <1>1 DEF Fits
<1>10. c.pc = "relink" /\ c.next # NULL => Age(c.next) < Age(c.cur)
  BY DEF Fits
<1>11. IF c.pc = "returns" THEN c.ret = -ENOENT =>
            \A a \in Onward(g, two, e) : ~IsChild(g[a], c.dir, c.name)
       ELSE c.ret = 0
  BY <1>3 DEF Fits
<1> QED
  BY <1>4, <1>5, <1>6, <1>7, <1>8, <1>9, <1>10, <1>11 DEF Fits

\* With no node changed and no call about to free, walks lead where they led.
LEMMA SetsSame ==
  ASSUME NEW h, NEW pr, NEW p \in Proc, NEW two, \A q \in Proc \ {p} : two[q] = pr[q],
         pr[p].pc # "free", two[p].pc # "free", two[p].pc \in Adding <=> pr[p].pc \in Adding,
         two[p].pc \in Adding => two[p].cur = pr[p].cur /\ two[p].dir = pr[p].dir
  PROVE  /\ Live(h, two) = Live(h, pr)
         /\ \A x : Onward(h, two, x) = Onward(h, pr, x)
         /\ \A d : EntriesOf(h, two, d) = EntriesOf(h, pr, d)
<1>1. Live(h, two) = Live(h, pr)
  BY DEF Live
<1>2. \A a, d : (\E q \in Proc : two[q].pc \in Adding /\ two[q].cur = a /\ two[q].dir = d)
             <=> (\E q \in Proc : pr[q].pc \in Adding /\ pr[q].cur = a /\ pr[q].dir = d)
  <2> HIDE DEF Adding
  <2>1. \A q \in Proc : two[q].pc \in Adding <=> pr[q].pc \in Adding
    OBVIOUS
  <2>2. \A q \in Proc : pr[q].pc \in Adding => two[q].cur = pr[q].cur /\ two[q].dir = pr[q].dir
    OBVIOUS
  <2> QED
    BY <2>1, <2>2
<1> QED
  BY <1>1, <1>2 DEF Onward, EntriesOf

\* A step of a call on its own variables.
LEMMA GuardedMoves ==
  ASSUME NEW h, NEW hd, NEW ni, NEW pr, NEW kn, Guarded(h, hd, ni, pr, kn),
         NEW p \in Proc, NEW two \in [Proc -> Call(h) \cup {Idle}],
         \A q \in Proc \ {p} : two[q] = pr[q],
         NEW mi \in Nat, Alone(two),
         pr[p].pc # "free", two[p].pc # "free", two[p].pc \in Adding <=> pr[p].pc \in Adding,
         two[p].pc \in Adding => two[p].cur = pr[p].cur /\ two[p].dir = pr[p].dir,
         Holds(two[p]) => \/ Onward(h, pr, Held(two[p])) \subseteq Onward(h, pr, hd)
                          \/ /\ Holds(pr[p]) /\ two[p].dir = pr[p].dir
                             /\ Onward(h, pr, Held(two[p])) \subseteq Onward(h, pr, Held(pr[p])),
         two[p].pc # "idle" => Fits(two[p], h, hd, pr)
  PROVE  Guarded(h, hd, mi, two, kn)
<1>0. /\ Memory(h, hd, ni, pr, kn) /\ NothingComesBack(h, hd, pr) /\ NamedOnce(h, hd, pr)
      /\ \A q, r \in Proc :
           q # r /\ pr[q].pc \in Adding /\ pr[r].pc \in Adding => pr[q].cur # pr[r].cur
  BY DEF Guarded
<1>1. /\ Pointers(h) /\ hd \in DOMAIN h \cup {NULL} /\ NULL \notin DOMAIN h /\ Aged(h)
      /\ pr \in [Proc -> Call(h) \cup {Idle}]
      /\ \A q \in Proc : pr[q].pc # "idle" => pr[q] \in Call(h) /\ Fits(pr[q], h, hd, pr)
  BY GuardedFacts
<1> HIDE DEF Idle
<1>2. \A q \in Proc \ {p} : two[q] = pr[q]
  OBVIOUS
<1>3. Memory(h, hd, mi, two, kn)
  BY <1>0, <1>2 DEF Memory
<1>4. /\ Live(h, two) = Live(h, pr)
      /\ \A x : Onward(h, two, x) = Onward(h, pr, x)
      /\ \A d : EntriesOf(h, two, d) = EntriesOf(h, pr, d)
  <2>1. /\ \A q \in Proc \ {p} : two[q] = pr[q]
        /\ pr[p].pc # "free" /\ two[p].pc # "free" /\ (two[p].pc \in Adding <=> pr[p].pc \in Adding)
        /\ (two[p].pc \in Adding => two[p].cur = pr[p].cur /\ two[p].dir = pr[p].dir)
    BY <1>2
  <2> HIDE DEF Adding
  <2> QED
    BY ONLY <2>1, p \in Proc, SetsSame
<1>5. Within(h, hd, two) \subseteq Within(h, hd, pr)
  <2> SUFFICES ASSUME NEW a, NEW q \in Proc, Holds(two[q]), a \in Onward(h, pr, Held(two[q]))
               PROVE  a \in Within(h, hd, pr)
    BY <1>4 DEF Within
  <2>1. CASE q = p
    BY <1>2, <2>1 DEF Within
  <2>2. CASE q # p
    BY <1>2, <2>2 DEF Within
  <2> QED
    BY <2>1, <2>2
<1>6. NothingComesBack(h, hd, two)
  <2> SUFFICES ASSUME NEW q \in Proc, Holds(two[q]), NEW dir \in Dir \ {two[q].dir}
               PROVE  Onward(h, pr, Held(two[q])) \cap EntriesOf(h, pr, dir) \subseteq Onward(h, pr, hd)
    BY <1>4 DEF NothingComesBack
  <2>1. CASE q = p
    BY <1>0, <1>2, <2>1 DEF NothingComesBack
  <2>2. CASE q # p
    BY <1>0, <1>2, <2>2 DEF NothingComesBack
  <2> QED
    BY <2>1, <2>2
<1>7. NamedOnce(h, hd, two)
  BY <1>0, <1>5 DEF NamedOnce
<1>8. \A q, r \in Proc :
        q # r /\ two[q].pc \in Adding /\ two[r].pc \in Adding => two[q].cur # two[r].cur
  <2> HIDE DEF Adding
  <2>1. \A q \in Proc : two[q].pc \in Adding => pr[q].pc \in Adding /\ two[q].cur = pr[q].cur
    BY <1>2
  <2> QED
    BY <1>0, <2>1
<1>9. ASSUME NEW d, Fits(d, h, hd, pr)
      PROVE  Fits(d, h, hd, two)
  BY <1>4, <1>5, <1>9 DEF Fits
<1>10. ASSUME NEW q \in Proc, two[q].pc # "idle"
       PROVE  Fits(two[q], h, hd, two)
  <2>1. CASE q = p
    BY <1>2, <1>9, <1>10, <2>1
  <2>2. CASE q # p
    BY <1>1, <1>2, <1>9, <1>10, <2>2
  <2> QED
    BY <2>1, <2>2
<1> QED
  BY <1>1, <1>3, <1>6, <1>7, <1>8, <1>10 DEF Guarded

\* What a step that takes out cur, as its call has read it, makes of the walks.
LEMMA TakenOutSets ==
  ASSUME NEW h, NEW hd, NEW ni, NEW pr, NEW kn, Guarded(h, hd, ni, pr, kn),
         NEW p \in Proc, pr[p].pc = "relink",
         NEW two, two[p].pc = "free", two[p].cur = pr[p].cur,
         \A q \in Proc \ {p} : two[q] = pr[q],
         NEW g,
         DOMAIN g = DOMAIN h,
         \A a \in DOMAIN h :
           /\ g[a].st = h[a].st /\ g[a].parent_ino = h[a].parent_ino /\ g[a].name = h[a].name
           /\ IF a = pr[p].prev THEN g[a].next = pr[p].next ELSE g[a].next = h[a].next
  PROVE  /\ Aged(g)
         /\ \A a \in DOMAIN h :
              g[a].next = h[a].next \/ (h[a].next = pr[p].cur /\ g[a].next = pr[p].next)
         /\ \A x \in DOMAIN h \cup {NULL} : Onward(g, two, x) = Onward(h, pr, x) \ {pr[p].cur}
         /\ \A d : EntriesOf(g, two, d) = EntriesOf(h, pr, d) \ {pr[p].cur}
<1> DEFINE me == pr[p]
           cur == me.cur
           prev == me.prev
           next == me.next
<1>1. /\ Pointers(h) /\ hd \in DOMAIN h \cup {NULL} /\ NULL \notin DOMAIN h /\ Aged(h)
      /\ h \in [DOMAIN h -> NodeMemory(h)] /\ me \in Call(h) /\ Fits(me, h, hd, pr)
      /\ pr \in [Proc -> Call(h) \cup {Idle}]
  BY GuardedFacts
<1>2. /\ cur \in DOMAIN h /\ prev \in DOMAIN h \cup {NULL} /\ next \in DOMAIN h \cup {NULL}
      /\ h[cur].st = "filled" /\ h[cur].parent_ino = me.dir
      /\ next # NULL => Age(next) < Age(cur)
      /\ Onward(h, pr, next) = Onward(h, pr, h[cur].next)
      /\ prev # NULL => h[prev].next = cur
  BY <1>1 DEF Fits, Call, IsChild, Removing
<1>3. two[p].pc = "free" /\ two[p].cur = cur /\ \A q \in Proc \ {p} : two[q] = pr[q]
  OBVIOUS
<1>4. \A a \in DOMAIN h : Age(a) \in Int
  BY <1>1, AgeType DEF Aged
<1>5. prev # NULL => Age(cur) < Age(prev)
  BY <1>1, <1>2 DEF Aged
<1>6. /\ DOMAIN g = DOMAIN h
      /\ \A a \in DOMAIN h :
           /\ g[a].st = h[a].st /\ g[a].parent_ino = h[a].parent_ino /\ g[a].name = h[a].name
           /\ IF a = prev THEN g[a].next = next ELSE g[a].next = h[a].next
  OBVIOUS
<1>7. Aged(g)
  <2>1. ASSUME NEW a \in DOMAIN h, g[a].next # NULL
        PROVE  Age(g[a].next) < Age(a)
    <3>1. CASE a = prev
      <4>1. g[a].next = next /\ Age(next) < Age(cur) /\ Age(cur) < Age(prev) /\ next \in DOMAIN h
        BY <1>1, <1>2, <1>5, <1>6, <2>1, <3>1
      <4> QED
        BY <1>2, <1>4, <3>1, <4>1
    <3>2. CASE a # prev
      BY <1>1, <1>6, <2>1, <3>2 DEF Aged
    <3> QED
      BY <3>1, <3>2
  <2> QED
    BY <1>1, <1>6, <2>1 DEF Aged
<1> HIDE DEF me, cur, prev, next
<1>8. pr[p] = me /\ me.cur = cur /\ me.prev = prev /\ me.next = next
  BY DEF me, cur, prev, next
<1>9. Live(g, two) = Live(h, pr) \ {cur}
  <2>1. \A a : (\A q \in Proc : two[q].pc = "free" => two[q].cur # a)
          <=> a # cur /\ \A q \in Proc : pr[q].pc = "free" => pr[q].cur # a
    BY <1>3
  <2>2. \A a : a \in Live(g, two) <=>
          a \in DOMAIN g /\ g[a].st # "freed" /\ \A q \in Proc : two[q].pc = "free" => two[q].cur # a
    BY DEF Live
  <2>3. \A a : a \in Live(h, pr) <=>
          a \in DOMAIN h /\ h[a].st # "freed" /\ \A q \in Proc : pr[q].pc = "free" => pr[q].cur # a
    BY DEF Live
  <2>4. \A a : a \in Live(g, two) <=> a \in Live(h, pr) /\ a # cur
    BY ONLY <1>6, <2>1, <2>2, <2>3
  <2> QED
    BY <2>4
<1>10. ASSUME NEW x \in DOMAIN h \cup {NULL}
       PROVE  Onward(g, two, x) = Onward(h, pr, x) \ {cur}
  <2>1. CASE prev = NULL
    <3>1. \A a \in DOMAIN h : g[a].next = h[a].next
      BY <1>1, <1>6, <2>1
    <3>2. From(g, x) = From(h, x)
      BY <1>6, <3>1, FromSame
    <3> QED
      BY <1>9, <3>2 DEF Onward
  <2>2. CASE prev # NULL
    <3>1. prev \in DOMAIN h /\ h[prev].next = cur /\ g[prev].next = next
      BY <1>2, <1>6, <2>2
    <3>2. prev \notin From(h, next)
      <4>1. CASE next = NULL
        BY <1>1, <4>1, FromNull
      <4>2. CASE next # NULL
        <5> SUFFICES ASSUME prev \in From(h, next) PROVE FALSE
          OBVIOUS
        <5>1. Age(prev) <= Age(next)
          BY <1>1, <1>2, <4>2, FromOlder
        <5> QED
          BY <1>2, <1>4, <1>5, <2>2, <3>1, <4>2, <5>1
      <4> QED
        BY <4>1, <4>2
    <3> DEFINE L == Live(h, pr)
    <3>3. From(h, next) \cap L = From(h, h[cur].next) \cap L
      BY <1>2 DEF Onward
    <3>4. \A a \in DOMAIN h \ {prev} : g[a].next = h[a].next
      BY <1>6
    <3> HIDE DEF L
    <3>5. From(g, x) \cap (L \ {cur}) = (From(h, x) \cap L) \ {cur}
      <4>1. /\ Pointers(h) /\ prev \in DOMAIN h /\ cur \in DOMAIN h /\ next \in DOMAIN h \cup {NULL}
            /\ h[prev].next = cur /\ prev \notin From(h, next)
            /\ From(h, next) \cap L = From(h, h[cur].next) \cap L
            /\ DOMAIN g = DOMAIN h /\ g[prev].next = next
            /\ (\A a \in DOMAIN h \ {prev} : g[a].next = h[a].next)
            /\ x \in DOMAIN h \cup {NULL}
        BY <1>1, <1>2, <1>6, <3>1, <3>2, <3>3, <3>4
      <4> QED
        BY ONLY <4>1, FromRelinked
    <3> QED
      BY <1>9, <3>5 DEF Onward, L
  <2> QED
    BY <2>1, <2>2
<1>11. \A d : EntriesOf(g, two, d) = EntriesOf(h, pr, d) \ {cur}
  <2>1. \A a, d : (\E q \in Proc : two[q].pc \in Adding /\ two[q].cur = a /\ two[q].dir = d)
               <=> (\E q \in Proc : pr[q].pc \in Adding /\ pr[q].cur = a /\ pr[q].dir = d)
    <3>1. \A q \in Proc : two[q].pc \in Adding => two[q] = pr[q]
      BY <1>3 DEF Adding
    <3>2. \A q \in Proc : pr[q].pc \in Adding => two[q] = pr[q]
      BY <1>3 DEF Adding
    <3> HIDE DEF Adding
    <3> QED
      BY <3>1, <3>2
  <2>2. \A a \in Live(h, pr) : a \in DOMAIN h
    BY DEF Live
  <2> SUFFICES ASSUME NEW d, NEW a
               PROVE  a \in EntriesOf(g, two, d) <=> a \in EntriesOf(h, pr, d) /\ a # cur
    OBVIOUS
  <2>3. a \in EntriesOf(g, two, d) <=> /\ a \in Live(g, two)
          /\ \/ g[a].st = "filled" /\ g[a].parent_ino = d
             \/ g[a].st = "new" /\ \E q \in Proc : two[q].pc \in Adding /\ two[q].cur = a /\ two[q].dir = d
    BY DEF EntriesOf
  <2>4. a \in EntriesOf(h, pr, d) <=> /\ a \in Live(h, pr)
          /\ \/ h[a].st = "filled" /\ h[a].parent_ino = d
             \/ h[a].st = "new" /\ \E q \in Proc : pr[q].pc \in Adding /\ pr[q].cur = a /\ pr[q].dir = d
    BY DEF EntriesOf
  <2> QED
    BY ONLY <1>6, <1>9, <2>1, <2>2, <2>3, <2>4
<1>12. \A a \in DOMAIN h : g[a].next = h[a].next \/ (h[a].next = cur /\ g[a].next = next)
  BY <1>1, <1>2, <1>6
<1> QED
  BY <1>6, <1>7, <1>8, <1>10, <1>11, <1>12

\* What the list has or may have.
LEMMA InWithin ==
  ASSUME NEW h, NEW hd, NEW pr
  PROVE  \A a : a \in Within(h, hd, pr) <=>
           \/ a \in Onward(h, pr, hd)
           \/ \E q \in Proc : Holds(pr[q]) /\ a \in Onward(h, pr, Held(pr[q]))
BY DEF Within

\* Less of it, with the same names, has none twice either.
LEMMA NamedOnceLess ==
  ASSUME NEW h, NEW hd, NEW pr, NEW g, NEW e, NEW two, NamedOnce(h, hd, pr),
         Within(g, e, two) \subseteq Within(h, hd, pr),
         \A a \in Within(g, e, two) :
           g[a].st = h[a].st /\ g[a].parent_ino = h[a].parent_ino /\ g[a].name = h[a].name
  PROVE  NamedOnce(g, e, two)
BY DEF NamedOnce, IsChild

\* Taking a node out, be it from a predecessor that has left the list or over
\* a newer head, brings no entry of the other directory back and loses none.
LEMMA TakenOutKeeps ==
  ASSUME Cardinality(Dir) <= 2,
         NEW h, NEW hd, NEW ni, NEW pr, NEW kn, Guarded(h, hd, ni, pr, kn),
         NEW p \in Proc, pr[p].pc = "relink",
         NEW g, NEW e, e = hd \/ (pr[p].prev = NULL /\ e = pr[p].next),
         NEW c \in Call(h), c.pc = "free", c.cur = pr[p].cur, c.op = "unlink",
         c.dir = pr[p].dir, c.name = pr[p].name, c.ret = 0,
         NEW two, two[p] = c, \A q \in Proc \ {p} : two[q] = pr[q],
         Memory(g, e, ni, two, kn), Alone(two),
         DOMAIN g = DOMAIN h, Aged(g),
         \A a \in DOMAIN h :
           /\ g[a].st = h[a].st /\ g[a].parent_ino = h[a].parent_ino /\ g[a].name = h[a].name
           /\ g[a].next = h[a].next \/ (h[a].next = pr[p].cur /\ g[a].next = pr[p].next),
         \A x \in DOMAIN h \cup {NULL} : Onward(g, two, x) = Onward(h, pr, x) \ {pr[p].cur},
         \A d : EntriesOf(g, two, d) = EntriesOf(h, pr, d) \ {pr[p].cur}
  PROVE  Guarded(g, e, ni, two, kn)
<1> DEFINE me == pr[p]
           cur == me.cur
           next == me.next
           In == Onward(h, pr, hd)
<1>1. /\ Pointers(h) /\ hd \in DOMAIN h \cup {NULL} /\ NULL \notin DOMAIN h /\ ni \in Nat
      /\ h \in [DOMAIN h -> NodeMemory(h)] /\ me \in Call(h) /\ Fits(me, h, hd, pr)
      /\ pr \in [Proc -> Call(h) \cup {Idle}] /\ Alone(pr) /\ Idle.pc = "idle"
      /\ kn \in [DOMAIN kn -> DOMAIN h] /\ DOMAIN kn \subseteq Dir \X Name
      /\ \A q \in Proc : pr[q].pc # "idle" => pr[q] \in Call(h) /\ Fits(pr[q], h, hd, pr)
      /\ \A q \in Proc : Holds(pr[q]) => Held(pr[q]) \in DOMAIN h \cup {NULL} /\ pr[q].pc # "idle"
  BY GuardedFacts
<1>2. /\ NothingComesBack(h, hd, pr) /\ NamedOnce(h, hd, pr)
      /\ \A q, r \in Proc :
           q # r /\ pr[q].pc \in Adding /\ pr[r].pc \in Adding => pr[q].cur # pr[r].cur
  BY DEF Guarded
<1>3. /\ cur \in DOMAIN h /\ next \in DOMAIN h \cup {NULL} /\ me.op = "unlink" /\ me.dir \in Dir
      /\ h[cur].st = "filled" /\ h[cur].parent_ino = me.dir /\ me.ret = 0
      /\ Onward(h, pr, next) = Onward(h, pr, h[cur].next)
      /\ IsChild(h[cur], me.dir, me.name)
      /\ \A a \in Within(h, hd, pr) : IsChild(h[a], me.dir, me.name) => a = cur
      /\ Removing(me) /\ Holds(me) /\ Held(me) = next
      /\ me.prev = NULL => In \cap EntriesOf(h, pr, me.dir) \subseteq Onward(h, pr, next) \cup {cur}
  BY <1>1 DEF Fits, Call, IsChild, Removing, Holds, Held
<1>5. /\ DOMAIN g = DOMAIN h
      /\ \A a \in DOMAIN h :
           /\ g[a].st = h[a].st /\ g[a].parent_ino = h[a].parent_ino /\ g[a].name = h[a].name
           /\ g[a].next = h[a].next \/ (h[a].next = cur /\ g[a].next = next)
      /\ \A x \in DOMAIN h \cup {NULL} : Onward(g, two, x) = Onward(h, pr, x) \ {cur}
      /\ \A d : EntriesOf(g, two, d) = EntriesOf(h, pr, d) \ {cur}
  OBVIOUS
<1>4. c.cur = cur /\ c.dir = me.dir /\ c.name = me.name
  OBVIOUS
<1>6. e = hd \/ (me.prev = NULL /\ e = next)
  OBVIOUS
<1> HIDE DEF me, cur, next, In
<1>9. pr[p] = me /\ me.cur = cur /\ me.next = next
  BY DEF me, cur, next
<1>10. \A q \in Proc \ {p} : pr[q].pc # "idle" => pr[q].dir # me.dir
  BY <1>1, <1>3, <1>9, OwnDirectory DEF Call
<1>11. \A a : a \in DOMAIN h => \A dir, name : IsChild(g[a], dir, name) <=> IsChild(h[a], dir, name)
  BY ONLY <1>5 DEF IsChild
<1>12. /\ Onward(g, two, e) \subseteq In \/ Onward(g, two, e) \subseteq Onward(h, pr, next)
       /\ Within(g, e, two) \subseteq Within(h, hd, pr) \ {cur}
  <2>1. Onward(g, two, e) = Onward(h, pr, e) \ {cur}
    BY <1>1, <1>3, <1>5, <1>6
  <2>2. Onward(h, pr, e) \subseteq In \/ Onward(h, pr, e) \subseteq Onward(h, pr, next)
    BY <1>6 DEF In
  <2>3. In \subseteq Within(h, hd, pr) /\ Onward(h, pr, next) \subseteq Within(h, hd, pr)
    BY <1>3, <1>9 DEF Within, In
  <2>4. ASSUME NEW q \in Proc, Holds(two[q])
        PROVE  Onward(g, two, Held(two[q])) \subseteq Within(h, hd, pr) \ {cur}
    <3>1. q # p
      BY <1>4, <2>4 DEF Holds, Removing
    <3>2. Holds(pr[q]) /\ Held(two[q]) = Held(pr[q]) /\ Held(pr[q]) \in DOMAIN h \cup {NULL}
      BY <1>1, <1>4, <2>4, <3>1
    <3> QED
      BY ONLY <1>5, <2>4, <3>1, <3>2, InWithin
  <2>5. Onward(g, two, e) \subseteq Within(h, hd, pr) \ {cur}
    BY <2>1, <2>2, <2>3
  <2>6. Within(g, e, two) \subseteq Within(h, hd, pr) \ {cur}
    BY ONLY <2>4, <2>5, InWithin
  <2> QED
    BY ONLY <2>1, <2>2, <2>6
<1>13. \A a \in Within(h, hd, pr) : a \in DOMAIN h
  BY DEF Within, Onward, Live
<1>14. ASSUME NEW d \in Dir, d # me.dir
       PROVE  Onward(g, two, e) \cap EntriesOf(g, two, d) \subseteq In
  <2>1. Onward(h, pr, next) \cap EntriesOf(h, pr, d) \subseteq In
    BY <1>2, <1>3, <1>9, <1>14 DEF NothingComesBack, In
  <2> QED
    BY <1>5, <1>12, <2>1
<1>15. NothingComesBack(g, e, two)
  <2> SUFFICES ASSUME NEW q \in Proc, Holds(two[q]), NEW d \in Dir \ {two[q].dir}
               PROVE  Onward(g, two, Held(two[q])) \cap EntriesOf(g, two, d)
                        \subseteq Onward(g, two, e)
    BY DEF NothingComesBack
  <2>1. q # p
    BY <1>4 DEF Holds, Removing
  <2>2. two[q] = pr[q] /\ Held(pr[q]) \in DOMAIN h \cup {NULL} /\ pr[q].pc # "idle"
    BY <1>1, <1>4, <2>1
  <2>3. pr[q].dir \in Dir /\ pr[q].dir # me.dir
    BY <1>1, <1>10, <2>1, <2>2 DEF Call
  <2>4. Onward(h, pr, Held(pr[q])) \cap EntriesOf(h, pr, d) \subseteq In
    BY <1>2, <2>2 DEF NothingComesBack, In
  <2>5. In \cap EntriesOf(h, pr, d) \subseteq Onward(h, pr, e) \cup {cur}
    <3>1. CASE e = hd
      BY <3>1 DEF In
    <3>2. CASE me.prev = NULL /\ e = next
      <4>1. d = me.dir
        BY <1>3, <2>2, <2>3, TwoDirs
      <4> QED
        BY <1>3, <3>2, <4>1
    <3> QED
      BY <1>6, <3>1, <3>2
  <2>6. e \in DOMAIN h \cup {NULL}
    BY <1>1, <1>3, <1>6
  <2> QED
    BY ONLY <1>5, <2>2, <2>4, <2>5, <2>6
<1>16. NamedOnce(g, e, two)
  BY <1>2, <1>5, <1>12, <1>13, NamedOnceLess
<1>17. \A q, r \in Proc :
         q # r /\ two[q].pc \in Adding /\ two[r].pc \in Adding => two[q].cur # two[r].cur
  <2>1. c.pc \notin Adding
    BY <1>4 DEF Adding
  <2> HIDE DEF Adding
  <2>2. \A q \in Proc : two[q].pc \in Adding => two[q] = pr[q]
    BY <1>4, <2>1
  <2> QED
    BY <1>2, <2>2
<1>18. Fits(c, g, e, two)
  <2>1. /\ IsChild(g[c.cur], c.dir, c.name) /\ c.cur # NULL
        /\ \A a \in Within(g, e, two) : IsChild(g[a], c.dir, c.name) => a = c.cur
    BY <1>1, <1>3, <1>4, <1>11, <1>12, <1>13
  <2> QED
    BY ONLY <2>1, c.pc = "free", c.op = "unlink", c.ret = 0 DEF Fits, Removing, Adding
<1>19. ASSUME NEW q \in Proc \ {p}, pr[q].pc # "idle"
       PROVE  Fits(pr[q], g, e, two)
  <2> DEFINE o == pr[q]
  <2>1. o \in Call(h) /\ Fits(o, h, hd, pr) /\ o.dir # me.dir /\ o.dir \in Dir
    BY <1>1, <1>10, <1>19 DEF Call
  <2> HIDE DEF o
  <2>2. EntriesOf(g, two, o.dir) \subseteq EntriesOf(h, pr, o.dir) \ {cur}
    BY <1>5
  <2>3. Onward(g, two, e) \cap EntriesOf(g, two, o.dir) \subseteq In
    BY <1>14, <2>1
  <2>4. \A a \in DOMAIN h :
          /\ IsChild(g[a], o.dir, o.name) <=> IsChild(h[a], o.dir, o.name)
          /\ h[a].st # "new" => g[a].st # "new" /\ g[a].parent_ino = h[a].parent_ino
          /\ \/ g[a].next = h[a].next
             \/ /\ h[a].next \in DOMAIN h /\ h[h[a].next].st # "new"
                /\ h[h[a].next].parent_ino # o.dir
    BY ONLY <1>3, <1>5, <1>11, <2>1
  <2>5. \A a \in Within(g, e, two) : IsChild(g[a], o.dir, o.name) =>
          a \in DOMAIN h /\ a \in Within(h, hd, pr)
    BY <1>12, <1>13
  <2>6. o.pc \in Adding => g[o.cur].st = "new"
    BY <1>1, <1>5, <2>1 DEF Fits, Call
  <2>7. ASSUME o.pc = "relink"
        PROVE  Onward(g, two, o.next) = Onward(g, two, g[o.cur].next)
    <3>1. /\ o.cur \in DOMAIN h /\ o.next \in DOMAIN h \cup {NULL}
          /\ h[o.cur].next \in DOMAIN h \cup {NULL}
          /\ Onward(h, pr, o.next) = Onward(h, pr, h[o.cur].next)
      BY <1>1, <2>1, <2>7 DEF Fits, Call, Pointers
    <3>2. Onward(g, two, o.next) = Onward(h, pr, h[o.cur].next) \ {cur}
      BY <1>5, <3>1
    <3>3. CASE g[o.cur].next = h[o.cur].next
      BY <1>5, <3>1, <3>2, <3>3
    <3>4. CASE h[o.cur].next = cur /\ g[o.cur].next = next
      <4>1. From(h, cur) = {cur} \cup From(h, h[cur].next)
        BY <1>1, <1>3, FromStep
      <4>2. Onward(h, pr, cur) \ {cur} = Onward(h, pr, h[cur].next) \ {cur}
        BY <4>1 DEF Onward
      <4>3. Onward(g, two, next) = Onward(h, pr, h[cur].next) \ {cur}
        BY <1>3, <1>5
      <4> QED
        BY <3>2, <3>4, <4>2, <4>3
    <3> QED
      BY <1>5, <3>1, <3>3, <3>4
  <2>8. Fits(o, g, e, two)
    <3> HIDE DEF Adding
    <3>1. /\ DOMAIN h \subseteq DOMAIN g
          /\ Onward(g, two, e) \cap EntriesOf(g, two, o.dir) \subseteq Onward(h, pr, hd)
      BY <1>5, <2>3 DEF In
    <3>2. /\ o \in Call(h) /\ Fits(o, h, hd, pr) /\ DOMAIN h \subseteq DOMAIN g
          /\ NULL \notin DOMAIN h /\ Pointers(h)
          /\ \A x \in DOMAIN h \cup {NULL} : Onward(g, two, x) = Onward(h, pr, x) \ {cur}
          /\ o.pc = "relink" => Onward(g, two, o.next) = Onward(g, two, g[o.cur].next)
      BY <1>1, <1>5, <2>1, <2>7, <3>1
    <3> QED
      BY ONLY <2>2, <2>4, <2>5, <2>6, <3>1, <3>2, FitsOther
  <2> QED
    BY <2>8 DEF o
<1>20. \A q \in Proc : two[q].pc # "idle" => Fits(two[q], g, e, two)
  BY <1>18, <1>19
<1> QED
  BY <1>15, <1>16, <1>17, <1>20 DEF Guarded

\* What Unlinked does, in its two cases.
TakenOut(h, hd, c, g, e) ==
  /\ DOMAIN g = DOMAIN h /\ g \in [DOMAIN h -> NodeMemory(h)]
  /\ \A a \in DOMAIN h :
       /\ g[a].st = h[a].st /\ g[a].parent_ino = h[a].parent_ino /\ g[a].name = h[a].name
       /\ IF a = c.prev THEN g[a].next = c.next ELSE g[a].next = h[a].next
  /\ e = IF c.prev = NULL THEN c.next ELSE hd

\* Nor does it disturb any other call.
LEMMA TakenOutGuarded ==
  ASSUME Cardinality(Dir) <= 2,
         NEW h, NEW hd, NEW ni, NEW pr, NEW kn, Guarded(h, hd, ni, pr, kn),
         NEW p \in Proc, pr[p].pc = "relink",
         NEW g, NEW e, NEW two, two = [pr EXCEPT ![p].pc = "free"],
         TakenOut(h, hd, pr[p], g, e)
  PROVE  Guarded(g, e, ni, two, kn)
<1> DEFINE me == pr[p]
           c == [me EXCEPT !.pc = "free"]
<1>1. /\ hd \in DOMAIN h \cup {NULL} /\ NULL \notin DOMAIN h /\ ni \in Nat
      /\ h \in [DOMAIN h -> NodeMemory(h)]
      /\ me \in Call(h) /\ Fits(me, h, hd, pr)
      /\ pr \in [Proc -> Call(h) \cup {Idle}] /\ Alone(pr)
      /\ kn \in [DOMAIN kn -> DOMAIN h] /\ DOMAIN kn \subseteq Dir \X Name
  BY GuardedFacts
<1>2. me.op = "unlink" /\ me.ret = 0 /\ me.next \in DOMAIN h \cup {NULL}
  BY <1>1 DEF Fits, Call
<1>10. two = [pr EXCEPT ![p] = c]
  BY <1>1
<1>3. /\ two[p] = c /\ (\A q \in Proc \ {p} : two[q] = pr[q])
      /\ c.pc = "free" /\ c.cur = me.cur /\ c.op = "unlink" /\ c.dir = me.dir /\ c.name = me.name
      /\ c.ret = 0 /\ c \in Call(h)
  BY <1>1, <1>2, <1>10 DEF Call
<1> HIDE DEF c
<1>4. /\ DOMAIN g = DOMAIN h /\ g \in [DOMAIN h -> NodeMemory(h)]
      /\ \A a \in DOMAIN h :
           /\ g[a].st = h[a].st /\ g[a].parent_ino = h[a].parent_ino /\ g[a].name = h[a].name
           /\ IF a = me.prev THEN g[a].next = me.next ELSE g[a].next = h[a].next
  BY DEF TakenOut
<1>5. /\ Aged(g)
      /\ \A a \in DOMAIN h :
           g[a].next = h[a].next \/ (h[a].next = me.cur /\ g[a].next = me.next)
      /\ \A x \in DOMAIN h \cup {NULL} : Onward(g, two, x) = Onward(h, pr, x) \ {me.cur}
      /\ \A d : EntriesOf(g, two, d) = EntriesOf(h, pr, d) \ {me.cur}
  BY ONLY <1>3, <1>4, Guarded(h, hd, ni, pr, kn), p \in Proc, pr[p].pc = "relink", TakenOutSets
<1>6. e = hd \/ (pr[p].prev = NULL /\ e = pr[p].next)
  BY DEF TakenOut
<1>7. two \in [Proc -> Call(h) \cup {Idle}]
  BY <1>1, <1>3
<1>8. Alone(two)
  <2>1. /\ two = [pr EXCEPT ![p] = c] /\ DOMAIN pr = Proc /\ p \in Proc
        /\ pr[p].pc # "idle" /\ c.dir = pr[p].dir /\ c.op = pr[p].op
    BY <1>1, <1>2, <1>3, <1>10
  <2> QED
    BY ONLY <1>1, <2>1, LockKept
<1>9. Memory(g, e, ni, two, kn)
  <2>1. NodeMemory(g) = NodeMemory(h) /\ Call(g) = Call(h)
    BY <1>4 DEF NodeMemory, Call
  <2>2. e \in DOMAIN h \cup {NULL}
    BY <1>1, <1>2, <1>6
  <2> QED
    BY ONLY <1>1, <1>4, <1>7, <2>1, <2>2 DEF Memory
<1> QED
  BY ONLY Cardinality(Dir) <= 2, Guarded(h, hd, ni, pr, kn), p \in Proc, pr[p].pc = "relink",
          <1>3, <1>4, <1>6, <1>8, <1>9, <1>5, TakenOutKeeps

\* A step of a call that has its directory alone, takes no node out of the
\* walks and gives the list nothing of another directory, leaves the other
\* calls their places.
LEMMA OthersKept ==
  ASSUME Cardinality(Dir) <= 2,
         NEW h, NEW hd, NEW ni, NEW pr, NEW kn, Guarded(h, hd, ni, pr, kn),
         NEW p \in Proc, pr[p].pc # "idle", pr[p].op # "lookup",
         NEW g, NEW e, NEW mi, NEW two, NEW kn2,
         Memory(g, e, mi, two, kn2), Alone(two), Aged(g), NamedOnce(g, e, two),
         \A q, r \in Proc :
           q # r /\ two[q].pc \in Adding /\ two[r].pc \in Adding => two[q].cur # two[r].cur,
         \A q \in Proc \ {p} : two[q] = pr[q], DOMAIN h \subseteq DOMAIN g,
         \A x \in DOMAIN h \cup {NULL} : Onward(g, two, x) = Onward(h, pr, x),
         \A d : d # pr[p].dir => EntriesOf(g, two, d) = EntriesOf(h, pr, d),
         EntriesOf(g, two, pr[p].dir) \cap DOMAIN h \subseteq EntriesOf(h, pr, pr[p].dir),
         Onward(h, pr, hd) \cap EntriesOf(h, pr, pr[p].dir) \subseteq Onward(g, two, e),
         \A d \in Dir : d # pr[p].dir =>
           Onward(g, two, e) \cap EntriesOf(h, pr, d) \subseteq Onward(h, pr, hd),
         Holds(two[p]) => \A d \in Dir \ {two[p].dir} :
           Onward(g, two, Held(two[p])) \cap EntriesOf(g, two, d) \subseteq Onward(g, two, e),
         two[p].pc # "idle" => Fits(two[p], g, e, two),
         \A a \in DOMAIN h :
           /\ \A dir, name : dir # pr[p].dir =>
                (IsChild(g[a], dir, name) <=> IsChild(h[a], dir, name))
           /\ h[a].st # "new" => g[a].st # "new" /\ g[a].parent_ino = h[a].parent_ino
           /\ g[a].next = h[a].next,
         \A a \in Within(g, e, two) : a \in Within(h, hd, pr) \/ g[a].st = "new",
         \A q \in Proc \ {p} : pr[q].pc \in Adding => g[pr[q].cur].st = "new"
  PROVE  Guarded(g, e, mi, two, kn2)
<1> DEFINE me == pr[p]
           In == Onward(h, pr, hd)
<1>1. /\ Pointers(h) /\ NULL \notin DOMAIN h /\ me \in Call(h) /\ me.dir \in Dir /\ Alone(pr)
      /\ \A q \in Proc : pr[q].pc # "idle" => pr[q] \in Call(h) /\ Fits(pr[q], h, hd, pr)
      /\ \A q \in Proc : Holds(pr[q]) => Held(pr[q]) \in DOMAIN h \cup {NULL} /\ pr[q].pc # "idle"
  <2>1. me \in Call(h)
    BY GuardedFacts
  <2> QED
    BY <2>1, GuardedFacts DEF Call
<1>2. NothingComesBack(h, hd, pr)
  BY DEF Guarded
<1>3. \A q \in Proc \ {p} : pr[q].pc # "idle" => pr[q].dir # me.dir
  BY <1>1, OwnDirectory
<1>4. \A x : Onward(h, pr, x) \subseteq DOMAIN h
  BY DEF Onward, Live
<1>5. NothingComesBack(g, e, two)
  <2> SUFFICES ASSUME NEW q \in Proc \ {p}, Holds(two[q]), NEW d \in Dir \ {two[q].dir}
               PROVE  Onward(g, two, Held(two[q])) \cap EntriesOf(g, two, d)
                        \subseteq Onward(g, two, e)
    BY DEF NothingComesBack
  <2>1. two[q] = pr[q] /\ Held(pr[q]) \in DOMAIN h \cup {NULL} /\ pr[q].pc # "idle"
    BY <1>1
  <2>2. pr[q].dir \in Dir /\ pr[q].dir # me.dir
    BY <1>1, <1>3, <2>1 DEF Call
  <2>3. d = me.dir
    BY <1>1, <2>1, <2>2, TwoDirs
  <2>4. Onward(h, pr, Held(pr[q])) \cap EntriesOf(h, pr, me.dir) \subseteq In
    BY <1>2, <2>1, <2>3 DEF NothingComesBack
  <2>5. Onward(g, two, Held(two[q])) = Onward(h, pr, Held(pr[q]))
    BY <2>1
  <2> QED
    BY <1>4, <2>3, <2>4, <2>5
<1>6. ASSUME NEW q \in Proc \ {p}, two[q].pc # "idle"
      PROVE  Fits(two[q], g, e, two)
  <2> DEFINE o == pr[q]
  <2>1. two[q] = o /\ o \in Call(h) /\ Fits(o, h, hd, pr) /\ o.dir # me.dir /\ o.dir \in Dir
    BY <1>1, <1>3, <1>6 DEF Call
  <2>2. o.pc \in Adding => g[o.cur].st = "new"
    OBVIOUS
  <2> HIDE DEF o, Adding
  <2>3. /\ EntriesOf(g, two, o.dir) \subseteq EntriesOf(h, pr, o.dir) \ {}
        /\ Onward(g, two, e) \cap EntriesOf(g, two, o.dir) \subseteq Onward(h, pr, hd)
        /\ \A x \in DOMAIN h \cup {NULL} : Onward(g, two, x) = Onward(h, pr, x) \ {}
    BY <2>1
  <2>4. \A a \in DOMAIN h :
          /\ IsChild(g[a], o.dir, o.name) <=> IsChild(h[a], o.dir, o.name)
          /\ h[a].st # "new" => g[a].st # "new" /\ g[a].parent_ino = h[a].parent_ino
          /\ \/ g[a].next = h[a].next
             \/ /\ h[a].next \in DOMAIN h /\ h[h[a].next].st # "new"
                /\ h[h[a].next].parent_ino # o.dir
    BY <2>1
  <2>5. \A a \in Within(h, hd, pr) : a \in DOMAIN h
    BY <1>4 DEF Within
  <2>6. \A a \in Within(g, e, two) : IsChild(g[a], o.dir, o.name) =>
          a \in DOMAIN h /\ a \in Within(h, hd, pr)
    BY <2>5 DEF IsChild
  <2>7. ASSUME o.pc = "relink"
        PROVE  Onward(g, two, o.next) = Onward(g, two, g[o.cur].next)
    <3>1. /\ o.cur \in DOMAIN h /\ o.next \in DOMAIN h \cup {NULL}
          /\ h[o.cur].next \in DOMAIN h \cup {NULL}
          /\ Onward(h, pr, o.next) = Onward(h, pr, h[o.cur].next)
      BY <1>1, <2>1, <2>7 DEF Fits, Call, Pointers
    <3> QED
      BY <3>1
  <2>8. o \in Call(h) /\ Fits(o, h, hd, pr) /\ DOMAIN h \subseteq DOMAIN g
        /\ NULL \notin DOMAIN h /\ Pointers(h)
    BY <1>1, <2>1
  <2>9. Fits(o, g, e, two)
    BY ONLY <2>2, <2>3, <2>4, <2>6, <2>7, <2>8, FitsOther
  <2> QED
    BY <2>1, <2>9
<1>7. \A q \in Proc : two[q].pc # "idle" => Fits(two[q], g, e, two)
  BY <1>6
<1> QED
  BY <1>5, <1>7 DEF Guarded

\* A call that goes on has the lock that it had.
LEMMA LockStays ==
  ASSUME NEW pr, Alone(pr), NEW p \in Proc, NEW two, \A q \in Proc \ {p} : two[q] = pr[q],
         pr[p].pc # "idle", two[p].dir = pr[p].dir, two[p].op = pr[p].op
  PROVE  Alone(two)
BY DEF Alone

\* A head overwritten by a node whose creation read an older one loses no entry:
\* those that came since are of the same directory, which has one change at a time.
LEMMA PublishGuarded ==
  ASSUME Cardinality(Dir) <= 2,
         NEW h, NEW hd, NEW ni, NEW pr, NEW kn, Guarded(h, hd, ni, pr, kn),
         NEW p \in Proc, pr[p].pc = "publish",
         NEW two, two = [pr EXCEPT ![p].pc = "take"]
  PROVE  Guarded(h, pr[p].cur, ni, two, kn)
<1> DEFINE me == pr[p]
           cur == me.cur
           c == [me EXCEPT !.pc = "take"]
           In == Onward(h, pr, hd)
<1>1. /\ Pointers(h) /\ NULL \notin DOMAIN h /\ ni \in Nat /\ Aged(h)
      /\ h \in [DOMAIN h -> NodeMemory(h)] /\ me \in Call(h) /\ Fits(me, h, hd, pr)
      /\ pr \in [Proc -> Call(h) \cup {Idle}] /\ Alone(pr)
      /\ kn \in [DOMAIN kn -> DOMAIN h] /\ DOMAIN kn \subseteq Dir \X Name
      /\ \A q \in Proc : pr[q].pc # "idle" => pr[q] \in Call(h) /\ Fits(pr[q], h, hd, pr)
  BY GuardedFacts
<1>2. /\ NothingComesBack(h, hd, pr) /\ NamedOnce(h, hd, pr)
      /\ \A q, r \in Proc :
           q # r /\ pr[q].pc \in Adding /\ pr[r].pc \in Adding => pr[q].cur # pr[r].cur
  BY DEF Guarded
<1>3. /\ cur \in DOMAIN h /\ h[cur].st = "new" /\ me.op = "create" /\ me.dir \in Dir /\ me.ret = 0
      /\ \A a \in Within(h, hd, pr) : ~IsChild(h[a], me.dir, me.name)
      /\ In \cap EntriesOf(h, pr, me.dir) \subseteq Onward(h, pr, cur) \cup {cur}
      /\ Holds(me) /\ Held(me) = cur
  BY <1>1 DEF Fits, Call, Holds, Held, Adding
<1>4. /\ c \in Call(h) /\ c.pc = "take" /\ c.cur = cur /\ c.op = "create" /\ c.dir = me.dir
      /\ c.name = me.name /\ c.ret = 0
  BY <1>1, <1>3 DEF Call
<1> HIDE DEF Idle
<1>5. two[p] = c /\ (\A q \in Proc \ {p} : two[q] = pr[q]) /\ two \in [Proc -> Call(h) \cup {Idle}]
  BY <1>1, <1>4
<1>6. Memory(h, cur, ni, two, kn)
  BY ONLY <1>1, <1>3, <1>5 DEF Memory
<1>7. Alone(two)
  <2> HIDE DEF c
  <2>1. pr[p].pc # "idle" /\ two[p].dir = pr[p].dir /\ two[p].op = pr[p].op
    BY <1>3, <1>4, <1>5
  <2> QED
    BY ONLY <1>1, <1>5, <2>1, p \in Proc, LockStays
<1> HIDE DEF c
<1>8. /\ \A x : Onward(h, two, x) = Onward(h, pr, x)
      /\ \A d : EntriesOf(h, two, d) = EntriesOf(h, pr, d)
  <2>1. /\ pr[p].pc # "free" /\ two[p].pc # "free" /\ (two[p].pc \in Adding <=> pr[p].pc \in Adding)
        /\ (two[p].pc \in Adding => two[p].cur = pr[p].cur /\ two[p].dir = pr[p].dir)
    BY <1>4, <1>5 DEF Adding
  <2> HIDE DEF Adding
  <2> QED
    BY ONLY <1>5, <2>1, p \in Proc, SetsSame
<1>9. cur \in Onward(h, pr, cur)
  <2>1. cur \in From(h, cur)
    BY <1>1, <1>3, FromStep
  <2>2. \A q \in Proc : pr[q].pc = "free" => pr[q].cur # cur
    BY <1>1, <1>3 DEF Fits, IsChild
  <2> QED
    BY <1>3, <2>1, <2>2 DEF Onward, Live
<1>10. Within(h, cur, two) \subseteq Within(h, hd, pr)
  <2>1. ASSUME NEW q \in Proc, Holds(two[q])
        PROVE  q # p
    BY <1>4, <1>5, <2>1 DEF Holds, Removing
  <2> SUFFICES ASSUME NEW a \in Within(h, cur, two)
               PROVE  a \in Within(h, hd, pr)
    OBVIOUS
  <2>2. \/ a \in Onward(h, pr, cur)
        \/ \E q \in Proc : Holds(two[q]) /\ a \in Onward(h, pr, Held(two[q]))
    BY ONLY a \in Within(h, cur, two), <1>8, InWithin
  <2> QED
    BY ONLY <1>3, <1>5, <2>1, <2>2, p \in Proc, InWithin
<1>11. NamedOnce(h, cur, two)
  <2>1. \A a \in Within(h, cur, two) :
          h[a].st = h[a].st /\ h[a].parent_ino = h[a].parent_ino /\ h[a].name = h[a].name
    OBVIOUS
  <2> QED
    BY ONLY <1>2, <1>10, <2>1, NamedOnceLess
<1> HIDE DEF me, cur, In
<1>12. \A q, r \in Proc :
         q # r /\ two[q].pc \in Adding /\ two[r].pc \in Adding => two[q].cur # two[r].cur
  <2>1. \A q \in Proc : two[q].pc \in Adding => pr[q].pc \in Adding /\ two[q].cur = pr[q].cur
    BY <1>4, <1>5 DEF Adding, cur, me
  <2> HIDE DEF Adding
  <2> QED
    BY <1>2, <2>1
<1>13. Fits(c, h, cur, two)
  <2>1. \A a \in Within(h, cur, two) : ~IsChild(h[a], c.dir, c.name)
    BY <1>3, <1>4, <1>10
  <2>2. c.cur # NULL /\ h[c.cur].st = "new"
    BY <1>1, <1>3, <1>4
  <2> QED
    BY ONLY <1>4, <2>1, <2>2 DEF Fits, Removing, Adding
<1>14. \A d \in Dir : d # me.dir =>
         Onward(h, two, cur) \cap EntriesOf(h, pr, d) \subseteq Onward(h, pr, hd)
  BY <1>2, <1>3, <1>8 DEF NothingComesBack, me
<1>15. \A q \in Proc : pr[q].pc \in Adding => h[pr[q].cur].st = "new"
  BY <1>1 DEF Fits, Adding
<1>16. ~Holds(c)
  BY <1>4 DEF Holds, Removing
<1> HIDE DEF Adding
<1>17. /\ pr[p].pc # "idle" /\ pr[p].op # "lookup" /\ me = pr[p]
       /\ \A a \in DOMAIN h :
            /\ \A dir, name : dir # pr[p].dir =>
                 (IsChild(h[a], dir, name) <=> IsChild(h[a], dir, name))
            /\ h[a].st # "new" => h[a].st # "new" /\ h[a].parent_ino = h[a].parent_ino
            /\ h[a].next = h[a].next
       /\ In \cap EntriesOf(h, pr, me.dir) \subseteq Onward(h, two, cur)
  BY <1>3, <1>8, <1>9 DEF me
<1> QED
  BY ONLY Cardinality(Dir) <= 2, Guarded(h, hd, ni, pr, kn), p \in Proc,
          <1>1, <1>5, <1>6, <1>7, <1>8, <1>10, <1>11, <1>12, <1>13, <1>14, <1>15, <1>16, <1>17,
          OthersKept DEF In, cur, me

\* A new node that nothing points to yet.
LEMMA AllocGuarded ==
  ASSUME Cardinality(Dir) <= 2,
         NEW h, NEW hd, NEW ni, NEW pr, NEW kn, Guarded(h, hd, ni, pr, kn),
         NEW p \in Proc, pr[p].pc = "alloc",
         NEW m \in Addr \ DOMAIN h, \A b \in Addr \ DOMAIN h : m <= b,
         NEW g, g = WithNew(h, hd, m),
         NEW two, two = [pr EXCEPT ![p].pc = "publish", ![p].cur = m]
  PROVE  Guarded(g, hd, ni, two, kn)
<1> DEFINE me == pr[p]
           c == [me EXCEPT !.pc = "publish", !.cur = m]
           In == Onward(h, pr, hd)
<1>1. /\ Pointers(h) /\ hd \in DOMAIN h \cup {NULL} /\ NULL \notin DOMAIN h /\ ni \in Nat /\ Aged(h)
      /\ h \in [DOMAIN h -> NodeMemory(h)] /\ me \in Call(h) /\ Fits(me, h, hd, pr)
      /\ pr \in [Proc -> Call(h) \cup {Idle}] /\ Alone(pr) /\ Idle.pc = "idle"
      /\ kn \in [DOMAIN kn -> DOMAIN h] /\ DOMAIN kn \subseteq Dir \X Name
      /\ \A q \in Proc : pr[q].pc # "idle" => pr[q] \in Call(h) /\ Fits(pr[q], h, hd, pr)
      /\ \A q \in Proc : Holds(pr[q]) => Held(pr[q]) \in DOMAIN h \cup {NULL} /\ pr[q].pc # "idle"
  BY GuardedFacts
<1>2. /\ NothingComesBack(h, hd, pr) /\ NamedOnce(h, hd, pr)
      /\ \A q, r \in Proc :
           q # r /\ pr[q].pc \in Adding /\ pr[r].pc \in Adding => pr[q].cur # pr[r].cur
  BY DEF Guarded
<1>3. /\ me.op = "create" /\ me.dir \in Dir /\ me.ret = 0
      /\ \A a \in Within(h, hd, pr) : ~IsChild(h[a], me.dir, me.name)
      /\ m \in Nat /\ m # NULL /\ m \notin DOMAIN h
  BY <1>1, AddrAssumption DEF Fits, Call
<1>4. /\ DOMAIN g = DOMAIN h \cup {m} /\ g[m].st = "new" /\ g[m].next = hd
      /\ g[m] \in NodeMemory(g) /\ g = [b \in DOMAIN g |-> g[b]]
      /\ \A a \in DOMAIN h : g[a] = h[a]
  BY <1>1, <1>3 DEF Node, NodeMemory, WithNew
<1>5. /\ c \in Call(g) /\ c.pc = "publish" /\ c.cur = m /\ c.op = "create"
      /\ c.dir = me.dir /\ c.name = me.name /\ c.ret = 0
  BY <1>1, <1>3, <1>4 DEF Call
<1> HIDE DEF Idle
<1>6. two[p] = c /\ (\A q \in Proc \ {p} : two[q] = pr[q]) /\ two = [q \in Proc |-> two[q]]
  BY <1>1
<1> HIDE DEF c, me, In
<1>7. me = pr[p] /\ In = Onward(h, pr, hd)
  BY DEF me, In
<1>8. Memory(g, hd, ni, two, kn)
  <2>1. \A a \in DOMAIN h : g[a] \in NodeMemory(g)
    <3>1. NodeMemory(h) \subseteq NodeMemory(g)
      BY ONLY <1>4 DEF NodeMemory
    <3>2. \A a \in DOMAIN h : h[a] \in NodeMemory(h)
      BY <1>1
    <3> QED
      BY ONLY <1>4, <3>1, <3>2
  <2>2. g \in [DOMAIN g -> NodeMemory(g)]
    BY ONLY <1>4, <2>1
  <2>3. Call(h) \subseteq Call(g)
    BY ONLY <1>4 DEF Call
  <2>4. two \in [Proc -> Call(g) \cup {Idle}]
    BY ONLY <1>1, <1>5, <1>6, <2>3
  <2>5. kn \in [DOMAIN kn -> DOMAIN g] /\ hd \in DOMAIN g \cup {NULL} /\ NULL \notin DOMAIN g
    BY ONLY <1>1, <1>3, <1>4
  <2> QED
    BY ONLY <1>1, <2>2, <2>4, <2>5 DEF Memory
<1>9. Alone(two)
  <2>1. pr[p].pc # "idle" /\ two[p].dir = pr[p].dir /\ two[p].op = pr[p].op
    BY <1>3, <1>5, <1>6, <1>7
  <2> QED
    BY ONLY <1>1, <1>6, <2>1, p \in Proc, LockStays
<1>10. Aged(g)
  <2> DEFINE n == Cardinality(DOMAIN FirstNodes)
  <2>1. n \in Nat \ {0} /\ 1..n \subseteq DOMAIN h /\ DOMAIN h \subseteq Nat
    BY <1>1, FirstFinite DEF Aged
  <2>2. \A b \in Addr \ DOMAIN h : b \in Nat /\ ~(b <= n)
    BY <2>1, AddrAssumption DEF NULL
  <2> HIDE DEF n
  <2>3. \A b \in Addr \ DOMAIN h : Age(b) = b
    BY <2>2 DEF Age, n
  <2>4. \A a \in DOMAIN g : g[a].next # NULL => Age(g[a].next) < Age(a)
    BY <1>1, <1>4 DEF Aged
  <2>5. ASSUME NEW a \in DOMAIN g, NEW b \in Addr \ DOMAIN g
        PROVE  Age(a) < Age(b)
    <3>1. CASE a \in DOMAIN h
      BY <1>1, <1>4, <2>5, <3>1 DEF Aged
    <3>2. CASE a = m
      <4>1. b \in Nat /\ m \in Nat /\ m <= b /\ m # b /\ Age(m) = m /\ Age(b) = b
        BY <1>3, <1>4, <2>2, <2>3, <2>5
      <4> QED
        BY ONLY <3>2, <4>1
    <3> QED
      BY <1>4, <3>1, <3>2
  <2> QED
    BY <1>3, <1>4, <2>1, <2>4, <2>5 DEF Aged, n
<1>11. ASSUME NEW x \in DOMAIN h \cup {NULL}
       PROVE  From(g, x) = From(h, x) /\ From(h, x) \subseteq DOMAIN h
  <2>1. /\ Pointers(h) /\ m \notin DOMAIN h /\ m # NULL /\ DOMAIN g = DOMAIN h \cup {m}
        /\ g[m].next \in DOMAIN h \cup {NULL} /\ \A a \in DOMAIN h : g[a].next = h[a].next
    BY <1>1, <1>3, <1>4
  <2> QED
    BY ONLY <1>11, <2>1, FromMore, FromClosed
<1>12. Live(g, two) = Live(h, pr) \cup {m}
  <2>1. \A q \in Proc : two[q].pc = "free" <=> pr[q].pc = "free"
    BY <1>5, <1>6, <1>7
  <2>2. \A q \in Proc : pr[q].pc = "free" => two[q].cur = pr[q].cur /\ pr[q].cur # m
    <3>1. \A q \in Proc : pr[q].pc = "free" => pr[q].cur \in DOMAIN h \cup {NULL}
      BY <1>1 DEF Call
    <3> QED
      BY <1>3, <1>6, <1>7, <3>1
  <2>3. \A a : a \in Live(g, two) <=>
          a \in DOMAIN g /\ g[a].st # "freed" /\ \A q \in Proc : two[q].pc = "free" => two[q].cur # a
    BY DEF Live
  <2>4. \A a : a \in Live(h, pr) <=>
          a \in DOMAIN h /\ h[a].st # "freed" /\ \A q \in Proc : pr[q].pc = "free" => pr[q].cur # a
    BY DEF Live
  <2> QED
    BY ONLY <1>3, <1>4, <2>1, <2>2, <2>3, <2>4
<1>13. \A x \in DOMAIN h \cup {NULL} : Onward(g, two, x) = Onward(h, pr, x)
  BY <1>3, <1>11, <1>12 DEF Onward
<1>14. Onward(g, two, m) = {m} \cup In
  <2>1. Pointers(g) /\ m \in DOMAIN g
    BY <1>1, <1>3, <1>4 DEF Pointers
  <2>2. From(g, m) = {m} \cup From(g, hd)
    BY ONLY <1>4, <2>1, FromStep
  <2> QED
    BY <1>1, <1>3, <1>11, <1>12, <2>2 DEF Onward, In
<1>15. ASSUME NEW d, NEW a
       PROVE  a \in EntriesOf(g, two, d) <=> a \in EntriesOf(h, pr, d) \/ (a = m /\ d = me.dir)
  <2>1. a \in EntriesOf(g, two, d) <=> /\ a \in Live(g, two)
          /\ \/ g[a].st = "filled" /\ g[a].parent_ino = d
             \/ g[a].st = "new" /\ \E q \in Proc : two[q].pc \in Adding /\ two[q].cur = a /\ two[q].dir = d
    BY DEF EntriesOf
  <2>2. a \in EntriesOf(h, pr, d) <=> /\ a \in Live(h, pr)
          /\ \/ h[a].st = "filled" /\ h[a].parent_ino = d
             \/ h[a].st = "new" /\ \E q \in Proc : pr[q].pc \in Adding /\ pr[q].cur = a /\ pr[q].dir = d
    BY DEF EntriesOf
  <2>3. pr[p].pc \notin Adding /\ two[p].pc \in Adding /\ two[p].cur = m /\ two[p].dir = me.dir
    BY <1>5, <1>6 DEF Adding
  <2>4. \A q \in Proc : pr[q].pc \in Adding => pr[q].cur # m
    BY <1>1, <1>3 DEF Adding, Call
  <2>5. a \in Live(h, pr) => a \in DOMAIN h
    BY DEF Live
  <2> QED
    BY ONLY <1>3, <1>4, <1>6, <1>12, <2>1, <2>2, <2>3, <2>4, <2>5
<1>16. \A a \in Within(g, hd, two) : a \in Within(h, hd, pr) \/ a = m
  <2> SUFFICES ASSUME NEW a \in Within(g, hd, two), a # m
               PROVE  a \in Within(h, hd, pr)
    OBVIOUS
  <2>1. CASE a \in Onward(g, two, hd)
    BY <1>1, <1>13, <2>1, InWithin
  <2>2. ASSUME NEW q \in Proc, Holds(two[q]), a \in Onward(g, two, Held(two[q]))
        PROVE  a \in Within(h, hd, pr)
    <3>1. CASE q = p
      <4>1. Held(two[q]) = m
        BY <1>5, <1>6, <3>1 DEF Held
      <4> QED
        BY <1>7, <1>14, <2>2, <4>1, InWithin
    <3>2. CASE q # p
      <4>1. Holds(pr[q]) /\ a \in Onward(h, pr, Held(pr[q]))
        BY <1>1, <1>6, <1>13, <2>2, <3>2
      <4> QED
        BY ONLY <4>1, q \in Proc, InWithin
    <3> QED
      BY <3>1, <3>2
  <2> QED
    BY ONLY <2>1, <2>2, a \in Within(g, hd, two), InWithin
<1>17. \A a \in Within(h, hd, pr) : a \in DOMAIN h
  BY DEF Within, Onward, Live
<1>18. NamedOnce(g, hd, two)
  BY ONLY <1>2, <1>4, <1>16, <1>17 DEF NamedOnce, IsChild
<1>19. \A q, r \in Proc :
         q # r /\ two[q].pc \in Adding /\ two[r].pc \in Adding => two[q].cur # two[r].cur
  <2>1. \A q \in Proc : pr[q].pc \in Adding => pr[q].cur # m
    BY <1>1, <1>3 DEF Adding, Call
  <2>2. two[p].cur = m
    BY <1>5, <1>6
  <2> HIDE DEF Adding
  <2> QED
    BY ONLY <1>2, <1>6, <2>1, <2>2
<1>20. Fits(c, g, hd, two)
  <2>1. \A a \in Within(g, hd, two) : ~IsChild(g[a], c.dir, c.name)
    BY ONLY <1>3, <1>4, <1>5, <1>16, <1>17 DEF IsChild
  <2>2. Onward(g, two, hd) \subseteq Onward(g, two, Held(c))
    BY <1>1, <1>5, <1>13, <1>14 DEF Held, In
  <2>3. c.cur # NULL /\ g[c.cur].st = "new"
    BY <1>3, <1>4, <1>5
  <2> QED
    BY ONLY <1>5, <2>1, <2>2, <2>3 DEF Fits, Removing, Adding
<1>21. \A d \in Dir \ {c.dir} : Onward(g, two, Held(c)) \cap EntriesOf(g, two, d) \subseteq Onward(g, two, hd)
  <2>1. Held(c) = m
    BY <1>5 DEF Held
  <2>2. \A d : d # me.dir => m \notin EntriesOf(g, two, d)
    BY <1>3, <1>15 DEF EntriesOf, Live
  <2>3. Onward(g, two, hd) = In
    BY <1>1, <1>7, <1>13
  <2>4. Onward(g, two, Held(c)) = {m} \cup In
    BY <1>14, <2>1
  <2> QED
    BY ONLY <1>5, <2>2, <2>3, <2>4
<1>22. \A q \in Proc \ {p} : pr[q].pc \in Adding => g[pr[q].cur].st = "new"
  BY <1>1, <1>4 DEF Fits, Adding, Call
<1> HIDE DEF Adding
<1>23. /\ \A d : d # pr[p].dir => EntriesOf(g, two, d) = EntriesOf(h, pr, d)
       /\ EntriesOf(g, two, pr[p].dir) \cap DOMAIN h \subseteq EntriesOf(h, pr, pr[p].dir)
  <2>1. ASSUME NEW d, d # pr[p].dir
        PROVE  EntriesOf(g, two, d) = EntriesOf(h, pr, d)
    <3>1. \A a : a \in EntriesOf(g, two, d) <=> a \in EntriesOf(h, pr, d)
      BY ONLY <1>7, <1>15, <2>1
    <3> QED
      BY ONLY <3>1
  <2>2. \A a \in DOMAIN h : a \in EntriesOf(g, two, pr[p].dir) => a \in EntriesOf(h, pr, pr[p].dir)
    BY ONLY <1>3, <1>15
  <2> QED
    BY <2>1, <2>2
<1>24. Onward(g, two, hd) = Onward(h, pr, hd)
  BY <1>1, <1>13
<1>25. /\ pr[p].pc # "idle" /\ pr[p].op # "lookup" /\ DOMAIN h \subseteq DOMAIN g
       /\ Onward(h, pr, hd) \cap EntriesOf(h, pr, pr[p].dir) \subseteq Onward(g, two, hd)
       /\ \A d \in Dir : d # pr[p].dir =>
            Onward(g, two, hd) \cap EntriesOf(h, pr, d) \subseteq Onward(h, pr, hd)
       /\ \A a \in Within(g, hd, two) : a \in Within(h, hd, pr) \/ g[a].st = "new"
       /\ Holds(two[p]) => \A d \in Dir \ {two[p].dir} :
            Onward(g, two, Held(two[p])) \cap EntriesOf(g, two, d) \subseteq Onward(g, two, hd)
       /\ two[p].pc # "idle" => Fits(two[p], g, hd, two)
  BY ONLY pr[p].pc = "alloc", <1>3, <1>4, <1>6, <1>7, <1>16, <1>20, <1>21, <1>24
<1>26. \A a \in DOMAIN h :
         /\ \A dir, name : dir # pr[p].dir =>
              (IsChild(g[a], dir, name) <=> IsChild(h[a], dir, name))
         /\ h[a].st # "new" => g[a].st # "new" /\ g[a].parent_ino = h[a].parent_ino
         /\ g[a].next = h[a].next
  BY ONLY <1>4
<1> QED
  BY ONLY Cardinality(Dir) <= 2, Guarded(h, hd, ni, pr, kn), p \in Proc, <1>6, <1>8, <1>9, <1>10,
          <1>13, <1>18, <1>19, <1>22, <1>23, <1>25, <1>26, OthersKept

\* A call's last step, on the node that only it works on: it fills in the one
\* that it has added or frees the one that it has taken out.
LEMMA OwnNodeKept ==
  ASSUME Cardinality(Dir) <= 2,
         NEW h, NEW hd, NEW ni, NEW pr, NEW kn, Guarded(h, hd, ni, pr, kn),
         NEW p \in Proc, pr[p].pc \in {"fill", "free"},
         NEW g, NEW two, NEW kn2, Memory(g, hd, ni, two, kn2),
         DOMAIN g = DOMAIN h, \A a \in DOMAIN h : a # pr[p].cur => g[a] = h[a],
         g[pr[p].cur].next = h[pr[p].cur].next,
         pr[p].pc = "fill" => /\ g[pr[p].cur].st = "filled" /\ g[pr[p].cur].parent_ino = pr[p].dir
                              /\ g[pr[p].cur].name = pr[p].name,
         pr[p].pc = "free" => /\ g[pr[p].cur].st = "freed"
                              /\ g[pr[p].cur].parent_ino = h[pr[p].cur].parent_ino,
         \A q \in Proc \ {p} : two[q] = pr[q],
         two[p].pc = "returns", two[p].op = pr[p].op, two[p].dir = pr[p].dir, two[p].ret = 0
  PROVE  Guarded(g, hd, ni, two, kn2)
<1> DEFINE me == pr[p]
           cur == me.cur
           fill == me.pc = "fill"
<1>1. /\ Pointers(h) /\ hd \in DOMAIN h \cup {NULL} /\ NULL \notin DOMAIN h /\ Aged(h) /\ Alone(pr)
      /\ me \in Call(h) /\ Fits(me, h, hd, pr)
      /\ \A q \in Proc : pr[q].pc # "idle" => pr[q] \in Call(h) /\ Fits(pr[q], h, hd, pr)
      /\ \A q \in Proc : Holds(pr[q]) => Held(pr[q]) \in DOMAIN h \cup {NULL} /\ pr[q].pc # "idle"
  BY GuardedFacts
<1>2. /\ NamedOnce(h, hd, pr)
      /\ \A q, r \in Proc :
           q # r /\ pr[q].pc \in Adding /\ pr[r].pc \in Adding => pr[q].cur # pr[r].cur
  BY DEF Guarded
<1>3. /\ cur \in DOMAIN h /\ me.op # "lookup" /\ me.dir \in Dir /\ me.pc # "idle" /\ ~Holds(me)
      /\ fill => h[cur].st = "new" /\ \A a \in Within(h, hd, pr) : ~IsChild(h[a], me.dir, me.name)
      /\ ~fill => me.pc = "free" /\ h[cur].st = "filled" /\ h[cur].parent_ino = me.dir
  BY <1>1 DEF Fits, Call, Holds, Removing, Adding, IsChild
<1>4. /\ fill => g[cur].st = "filled" /\ g[cur].parent_ino = me.dir /\ g[cur].name = me.name
      /\ ~fill => g[cur].st = "freed" /\ g[cur].parent_ino = me.dir
      /\ \A a \in DOMAIN h : g[a].next = h[a].next
      /\ \A a \in DOMAIN h \ {cur} : g[a] = h[a]
      /\ (me.pc = "free" <=> ~fill) /\ (me.pc \in Adding <=> fill)
      /\ two[p].pc # "free" /\ two[p].pc \notin Adding /\ ~Holds(two[p])
  BY <1>3 DEF Adding, Holds, Removing
<1>5. Alone(two)
  BY ONLY <1>1, <1>3, p \in Proc, \A q \in Proc \ {p} : two[q] = pr[q], two[p].op = pr[p].op,
          two[p].dir = pr[p].dir, LockStays
<1>6. Aged(g)
  BY <1>1, <1>4 DEF Aged
<1>7. Fits(two[p], g, hd, two)
  <2>1. 0 # -ENOENT
    BY DEF ENOENT
  <2> QED
    BY ONLY <2>1, two[p].pc = "returns", two[p].ret = 0 DEF Fits, Removing, Adding
<1> HIDE DEF me, cur, fill, Adding
<1>8. pr[p] = me /\ me.cur = cur
  BY DEF me, cur
<1>9. ASSUME NEW a
      PROVE  a \in Live(g, two) <=> a \in Live(h, pr)
  <2>1. a \in Live(g, two) <=>
          a \in DOMAIN g /\ g[a].st # "freed" /\ \A q \in Proc : two[q].pc = "free" => two[q].cur # a
    BY DEF Live
  <2>2. a \in Live(h, pr) <=>
          a \in DOMAIN h /\ h[a].st # "freed" /\ \A q \in Proc : pr[q].pc = "free" => pr[q].cur # a
    BY DEF Live
  <2>3. CASE fill
    BY <1>3, <1>4, <1>8, <2>1, <2>2, <2>3
  <2>4. CASE ~fill
    BY <1>3, <1>4, <1>8, <2>1, <2>2, <2>4
  <2> QED
    BY <2>3, <2>4
<1>10. \A first : From(g, first) = From(h, first)
  BY ONLY <1>4, DOMAIN g = DOMAIN h, FromSame
<1>11. Live(g, two) = Live(h, pr) /\ \A x : Onward(g, two, x) = Onward(h, pr, x)
  BY <1>9, <1>10 DEF Onward
<1>12. ASSUME NEW d
       PROVE  EntriesOf(g, two, d) = EntriesOf(h, pr, d)
  <2> SUFFICES ASSUME NEW a
               PROVE  a \in EntriesOf(g, two, d) <=> a \in EntriesOf(h, pr, d)
    OBVIOUS
  <2>1. a \in EntriesOf(g, two, d) <=> /\ a \in Live(h, pr)
          /\ \/ g[a].st = "filled" /\ g[a].parent_ino = d
             \/ g[a].st = "new" /\ \E q \in Proc : two[q].pc \in Adding /\ two[q].cur = a /\ two[q].dir = d
    BY <1>11 DEF EntriesOf
  <2>2. a \in EntriesOf(h, pr, d) <=> /\ a \in Live(h, pr)
          /\ \/ h[a].st = "filled" /\ h[a].parent_ino = d
             \/ h[a].st = "new" /\ \E q \in Proc : pr[q].pc \in Adding /\ pr[q].cur = a /\ pr[q].dir = d
    BY DEF EntriesOf
  <2>3. a \in Live(h, pr) => a \in DOMAIN h /\ (~fill => a # cur)
    BY <1>4, <1>8 DEF Live
  <2>4. CASE a # cur
    BY <1>4, <1>8, <2>1, <2>2, <2>3, <2>4
  <2>5. CASE a = cur
    BY <1>2, <1>3, <1>4, <1>8, <2>1, <2>2, <2>3, <2>5
  <2> QED
    BY <2>4, <2>5
<1>13. Within(g, hd, two) \subseteq Within(h, hd, pr)
  <2> SUFFICES ASSUME NEW a \in Within(g, hd, two)
               PROVE  a \in Within(h, hd, pr)
    OBVIOUS
  <2>1. \/ a \in Onward(h, pr, hd)
        \/ \E q \in Proc : Holds(two[q]) /\ a \in Onward(h, pr, Held(two[q]))
    BY ONLY a \in Within(g, hd, two), <1>11, InWithin
  <2> QED
    BY ONLY <1>4, <2>1, \A q \in Proc \ {p} : two[q] = pr[q], InWithin
<1>14. \A a \in Within(h, hd, pr) : a \in DOMAIN h /\ (~fill => a # cur)
  <2>1. \A a \in Live(h, pr) : a \in DOMAIN h /\ (~fill => a # cur)
    BY <1>4, <1>8 DEF Live
  <2>2. \A a \in Within(h, hd, pr) : a \in Live(h, pr)
    BY DEF Within, Onward
  <2> QED
    BY <2>1, <2>2
<1>15. NamedOnce(g, hd, two)
  <2> SUFFICES ASSUME NEW a \in Within(g, hd, two), NEW b \in Within(g, hd, two), a # b,
                      g[b].st = "filled", g[b].parent_ino # 0,
                      IsChild(g[a], g[b].parent_ino, g[b].name)
               PROVE  FALSE
    BY DEF NamedOnce
  <2>1. /\ a \in Within(h, hd, pr) /\ b \in Within(h, hd, pr) /\ a \in DOMAIN h /\ b \in DOMAIN h
        /\ ~fill => a # cur /\ b # cur
    BY <1>13, <1>14
  <2>2. CASE a # cur /\ b # cur
    BY <1>2, <1>4, <2>1, <2>2 DEF NamedOnce
  <2>3. CASE a = cur \/ b = cur
    BY <1>3, <1>4, <2>1, <2>3 DEF IsChild
  <2> QED
    BY <2>2, <2>3
<1>16. \A q, r \in Proc :
         q # r /\ two[q].pc \in Adding /\ two[r].pc \in Adding => two[q].cur # two[r].cur
  BY ONLY <1>2, <1>4, \A q \in Proc \ {p} : two[q] = pr[q]
<1>17. ASSUME NEW q \in Proc \ {p}, pr[q].pc \in Adding
       PROVE  g[pr[q].cur].st = "new"
  <2>1. h[pr[q].cur].st = "new" /\ pr[q].cur \in DOMAIN h
    BY <1>1, <1>17 DEF Fits, Adding, Call
  <2>2. pr[q].cur # cur
    BY <1>2, <1>3, <1>4, <1>8, <1>17, <2>1
  <2> QED
    BY <1>4, <2>1, <2>2
<1>18. \A a \in DOMAIN h :
         /\ \A dir, name : dir # pr[p].dir =>
              (IsChild(g[a], dir, name) <=> IsChild(h[a], dir, name))
         /\ h[a].st # "new" => g[a].st # "new" /\ g[a].parent_ino = h[a].parent_ino
         /\ g[a].next = h[a].next
  BY ONLY <1>3, <1>4, <1>8 DEF IsChild
<1>19. \A d \in Dir : d # pr[p].dir =>
         Onward(g, two, hd) \cap EntriesOf(h, pr, d) \subseteq Onward(h, pr, hd)
  BY <1>11
<1>20. /\ pr[p].pc # "idle" /\ pr[p].op # "lookup" /\ DOMAIN h \subseteq DOMAIN g
       /\ \A q \in Proc \ {p} : two[q] = pr[q]
       /\ \A d : d # pr[p].dir => EntriesOf(g, two, d) = EntriesOf(h, pr, d)
       /\ EntriesOf(g, two, pr[p].dir) \cap DOMAIN h \subseteq EntriesOf(h, pr, pr[p].dir)
       /\ Onward(h, pr, hd) \cap EntriesOf(h, pr, pr[p].dir) \subseteq Onward(g, two, hd)
       /\ \A a \in Within(g, hd, two) : a \in Within(h, hd, pr) \/ g[a].st = "new"
  BY <1>3, <1>8, <1>11, <1>12, <1>13
<1> QED
  BY ONLY Cardinality(Dir) <= 2, Guarded(h, hd, ni, pr, kn), p \in Proc, Memory(g, hd, ni, two, kn2),
          <1>4, <1>5, <1>6, <1>7, <1>11, <1>15, <1>16, <1>17, <1>18, <1>19, <1>20, OthersKept

LEMMA FillGuarded ==
  ASSUME Cardinality(Dir) <= 2,
         NEW h, NEW hd, NEW ni, NEW pr, NEW kn, Guarded(h, hd, ni, pr, kn),
         NEW p \in Proc, pr[p].pc = "fill",
         NEW g, g = WithFilled(h, pr[p]), NEW more, more = Knowing(kn, pr[p]),
         NEW two, two = [pr EXCEPT ![p].pc = "returns"]
  PROVE  Guarded(g, hd, ni, two, more)
<1> DEFINE me == pr[p]
           cur == me.cur
           c == [me EXCEPT !.pc = "returns"]
<1>1. /\ hd \in DOMAIN h \cup {NULL} /\ NULL \notin DOMAIN h /\ ni \in Nat
      /\ h \in [DOMAIN h -> NodeMemory(h)] /\ me \in Call(h) /\ Fits(me, h, hd, pr)
      /\ pr \in [Proc -> Call(h) \cup {Idle}]
      /\ kn \in [DOMAIN kn -> DOMAIN h] /\ DOMAIN kn \subseteq Dir \X Name
  BY GuardedFacts
<1>2. cur \in DOMAIN h /\ me.ret = 0 /\ me.dir \in Nat /\ KeyOf(me) \in Dir \X Name
  BY <1>1, DirAssumption DEF Fits, Call, Adding, KeyOf, VTFS_ROOT_INO
<1>3. c \in Call(h) /\ c.pc = "returns" /\ c.op = me.op /\ c.dir = me.dir /\ c.ret = 0
  BY <1>1, <1>2 DEF Call
<1> HIDE DEF Idle
<1>4. /\ two[p] = c /\ (\A q \in Proc \ {p} : two[q] = pr[q])
      /\ two \in [Proc -> Call(h) \cup {Idle}]
  BY <1>1, <1>3
<1>5. /\ DOMAIN g = DOMAIN h /\ (\A a \in DOMAIN h : a # cur => g[a] = h[a])
      /\ g[cur].st = "filled" /\ g[cur].next = h[cur].next
      /\ g[cur].parent_ino = me.dir /\ g[cur].name = me.name
      /\ g = [a \in DOMAIN h |-> g[a]]
      /\ g[cur] = Node(h[cur].next, me.dir, me.name, me.ino)
  BY <1>1, <1>2 DEF Node, WithFilled
<1>6. g[cur] \in NodeMemory(h)
  <2>1. h[cur].next \in DOMAIN h \cup {NULL} /\ me.ino \in Nat /\ me.name \in Name
    BY <1>1, <1>2 DEF NodeMemory, Call
  <2>2. Node(h[cur].next, me.dir, me.name, me.ino) \in NodeMemory(h)
    BY ONLY <1>2, <2>1 DEF Node, NodeMemory
  <2> QED
    BY ONLY <1>5, <2>2
<1>7. /\ DOMAIN more = DOMAIN kn \cup {KeyOf(me)} /\ more = [k \in DOMAIN more |-> more[k]]
      /\ \A k \in DOMAIN more : more[k] = cur \/ (k \in DOMAIN kn /\ more[k] = kn[k])
  BY DEF Knowing
<1> HIDE DEF me, cur, c
<1>8. Memory(g, hd, ni, two, more)
  <2>1. NodeMemory(g) = NodeMemory(h) /\ Call(g) = Call(h)
    BY ONLY <1>5 DEF NodeMemory, Call
  <2>2. \A a \in DOMAIN h : g[a] \in NodeMemory(h)
    <3>1. \A a \in DOMAIN h : h[a] \in NodeMemory(h)
      BY <1>1
    <3> QED
      BY ONLY <1>5, <1>6, <3>1
  <2>3. g \in [DOMAIN g -> NodeMemory(g)]
    BY ONLY <1>5, <2>1, <2>2
  <2>4. more \in [DOMAIN more -> DOMAIN h] /\ DOMAIN more \subseteq Dir \X Name
    BY ONLY <1>1, <1>2, <1>7
  <2> QED
    BY ONLY <1>1, <1>4, <1>5, <2>1, <2>3, <2>4 DEF Memory
<1> QED
  BY ONLY Cardinality(Dir) <= 2, Guarded(h, hd, ni, pr, kn), p \in Proc, pr[p].pc = "fill",
          <1>3, <1>4, <1>5, <1>8, OwnNodeKept DEF me, cur

LEMMA FreeGuarded ==
  ASSUME Cardinality(Dir) <= 2,
         NEW h, NEW hd, NEW ni, NEW pr, NEW kn, Guarded(h, hd, ni, pr, kn),
         NEW p \in Proc, pr[p].pc = "free",
         NEW g, g = WithFreed(h, pr[p]), NEW less, less = Forgetting(kn, pr[p]),
         NEW two, two = [pr EXCEPT ![p].pc = "returns"]
  PROVE  Guarded(g, hd, ni, two, less)
<1> DEFINE me == pr[p]
           cur == me.cur
           c == [me EXCEPT !.pc = "returns"]
<1>1. /\ hd \in DOMAIN h \cup {NULL} /\ NULL \notin DOMAIN h /\ ni \in Nat
      /\ h \in [DOMAIN h -> NodeMemory(h)] /\ me \in Call(h) /\ Fits(me, h, hd, pr)
      /\ pr \in [Proc -> Call(h) \cup {Idle}]
      /\ kn \in [DOMAIN kn -> DOMAIN h] /\ DOMAIN kn \subseteq Dir \X Name
  BY GuardedFacts
<1>2. cur \in DOMAIN h /\ me.ret = 0
  BY <1>1 DEF Fits, Call
<1>3. c \in Call(h) /\ c.pc = "returns" /\ c.op = me.op /\ c.dir = me.dir /\ c.ret = 0
  BY <1>1, <1>2 DEF Call
<1> HIDE DEF Idle
<1>4. /\ two[p] = c /\ (\A q \in Proc \ {p} : two[q] = pr[q])
      /\ two \in [Proc -> Call(h) \cup {Idle}]
  BY <1>1, <1>3
<1>5. /\ DOMAIN g = DOMAIN h /\ (\A a \in DOMAIN h : a # cur => g[a] = h[a])
      /\ g[cur].st = "freed" /\ g[cur].next = h[cur].next
      /\ g[cur].parent_ino = h[cur].parent_ino
      /\ g = [a \in DOMAIN h |-> g[a]] /\ g[cur] \in NodeMemory(h)
  <2>1. g = [h EXCEPT ![cur] = [h[cur] EXCEPT !.st = "freed"]]
    BY <1>1, <1>2 DEF WithFreed
  <2>2. h[cur] \in NodeMemory(h)
    BY <1>1, <1>2
  <2> QED
    BY ONLY <1>1, <1>2, <2>1, <2>2 DEF NodeMemory
<1>6. /\ less = [k \in DOMAIN less |-> less[k]]
      /\ \A k \in DOMAIN less : k \in DOMAIN kn /\ less[k] = kn[k]
  BY DEF Forgetting
<1> HIDE DEF me, cur, c
<1>7. Memory(g, hd, ni, two, less)
  <2>1. NodeMemory(g) = NodeMemory(h) /\ Call(g) = Call(h)
    BY ONLY <1>5 DEF NodeMemory, Call
  <2>2. \A a \in DOMAIN h : g[a] \in NodeMemory(h)
    <3>1. \A a \in DOMAIN h : h[a] \in NodeMemory(h)
      BY <1>1
    <3> QED
      BY ONLY <1>5, <3>1
  <2>3. g \in [DOMAIN g -> NodeMemory(g)]
    BY ONLY <1>5, <2>1, <2>2
  <2>4. less \in [DOMAIN less -> DOMAIN h] /\ DOMAIN less \subseteq Dir \X Name
    BY ONLY <1>1, <1>6
  <2> QED
    BY ONLY <1>1, <1>4, <1>5, <2>1, <2>3, <2>4 DEF Memory
<1> QED
  BY ONLY Cardinality(Dir) <= 2, Guarded(h, hd, ni, pr, kn), p \in Proc, pr[p].pc = "free",
          <1>3, <1>4, <1>5, <1>7, OwnNodeKept DEF me, cur

-----------------------------------------------------------------------------
(* The steps with two directories.                                         *)

\* What a call that goes on needs to have its place.
LEMMA GoesGuarded ==
  ASSUME Guarded(heap, head, next_ino, proc, known), NEW p \in Proc, NEW c \in Call(heap),
         Goes(p, c), proc[p].pc \notin {"idle", "free"},
         c.dir = proc[p].dir, c.op = proc[p].op, c.pc # "free",
         c.pc \in Adding <=> proc[p].pc \in Adding,
         c.pc \in Adding => c.cur = proc[p].cur,
         Holds(c) => /\ Holds(proc[p])
                     /\ Onward(heap, proc, Held(c)) \subseteq Onward(heap, proc, Held(proc[p])),
         Fits(c, heap, head, proc)
  PROVE  Guarded(heap, head, next_ino, proc, known)'
<1>1. /\ proc' = [proc EXCEPT ![p] = c]
      /\ heap' = heap /\ head' = head /\ next_ino' = next_ino /\ known' = known
  BY DEF Goes, shared
<1>2. proc \in [Proc -> Call(heap) \cup {Idle}] /\ Alone(proc) /\ next_ino \in Nat
  BY GuardedFacts
<1>3. Alone(proc')
  BY <1>1, <1>2, LockKept
<1>4. Guarded(heap, head, next_ino, proc', known)
  <2> HIDE DEF Adding, Idle
  <2>1. /\ proc'[p] = c /\ (\A q \in Proc \ {p} : proc'[q] = proc[q])
        /\ proc' \in [Proc -> Call(heap) \cup {Idle}]
    BY <1>1, <1>2
  <2>2. /\ proc'[p].pc # "free" /\ proc[p].pc # "free"
        /\ (proc'[p].pc \in Adding <=> proc[p].pc \in Adding)
        /\ (proc'[p].pc \in Adding => proc'[p].cur = proc[p].cur /\ proc'[p].dir = proc[p].dir)
        /\ Fits(proc'[p], heap, head, proc) /\ proc'[p].dir = proc[p].dir
        /\ Holds(proc'[p]) =>
             /\ Holds(proc[p])
             /\ Onward(heap, proc, Held(proc'[p])) \subseteq Onward(heap, proc, Held(proc[p]))
    BY <2>1
  <2> QED
    BY ONLY Guarded(heap, head, next_ino, proc, known), p \in Proc,
            <1>2, <1>3, <2>1, <2>2, GuardedMoves
<1> QED
  BY <1>1, <1>4

\* What a call may use of the invariant.
LEMMA InGuarded ==
  ASSUME Guarded(heap, head, next_ino, proc, known), NEW p \in Proc, proc[p].pc # "idle"
  PROVE  /\ proc[p] \in Call(heap) /\ Fits(proc[p], heap, head, proc)
         /\ Pointers(heap) /\ heap \in [DOMAIN heap -> NodeMemory(heap)]
         /\ head \in DOMAIN heap \cup {NULL} /\ Aged(heap) /\ Alone(proc)
         /\ next_ino \in Nat /\ NamedOnce(heap, head, proc) /\ NothingComesBack(heap, head, proc)
         /\ proc \in [Proc -> Call(heap) \cup {Idle}]
         /\ \A q \in Proc : proc[q].pc # "idle" =>
              proc[q] \in Call(heap) /\ Fits(proc[q], heap, head, proc)
BY GuardedFacts DEF Guarded

\* A call of a kind that returns without -ENOENT.
LEMMA ReturnGuarded ==
  ASSUME Guarded(heap, head, next_ino, proc, known), NEW p \in Proc, NEW ret \in Int,
         Returns(p, ret), proc[p].pc \in {"walk", "parent", "alloc"},
         ret = -ENOENT => \A a \in Onward(heap, proc, head) :
                            ~IsChild(heap[a], proc[p].dir, proc[p].name)
  PROVE  Guarded(heap, head, next_ino, proc, known)'
<1> DEFINE me == proc[p]
           c == [me EXCEPT !.pc = "returns", !.ret = ret]
<1>1. me \in Call(heap)
  BY InGuarded
<1>2. /\ c \in Call(heap) /\ c.pc = "returns" /\ c.dir = me.dir /\ c.op = me.op
      /\ c.name = me.name /\ c.ret = ret
  BY <1>1 DEF Call
<1>3. Goes(p, c)
  BY DEF Returns
<1> HIDE DEF c
<1>4. Fits(c, heap, head, proc)
  BY <1>2 DEF Fits, Removing, Adding
<1>5. ~Holds(c) /\ c.pc \notin Adding /\ proc[p].pc \notin Adding /\ proc[p].pc \notin {"idle", "free"}
  BY <1>2 DEF Holds, Removing, Adding
<1> HIDE DEF Adding
<1> QED
  BY <1>2, <1>3, <1>4, <1>5, GoesGuarded

\* A walk begins at the head, with everything of its directory before it.
LEMMA BeginGuarded ==
  ASSUME Guarded(heap, head, next_ino, proc, known), NEW p \in Proc,
         NEW op \in {"create", "unlink", "lookup"}, NEW dir \in Dir, NEW name \in Name,
         Begin(p, op, dir, name)
  PROVE  Guarded(heap, head, next_ino, proc, known)'
<1> DEFINE c == [pc |-> "walk", op |-> op, dir |-> dir, name |-> name,
                 prev |-> NULL, cur |-> head, next |-> NULL, ino |-> 0, ret |-> 0]
<1>1. /\ proc' = [proc EXCEPT ![p] = c] /\ proc[p].pc = "idle"
      /\ \A q \in Proc \ {p} : proc[q].pc # "idle" /\ proc[q].dir = dir
                                 => op = "lookup" /\ proc[q].op = "lookup"
      /\ heap' = heap /\ head' = head /\ next_ino' = next_ino /\ known' = known
  BY DEF Begin, MayLock, Running, shared
<1>2. /\ head \in DOMAIN heap \cup {NULL} /\ Alone(proc) /\ next_ino \in Nat
      /\ proc \in [Proc -> Call(heap) \cup {Idle}]
  BY GuardedFacts
<1>3. /\ c \in Call(heap) /\ c.pc = "walk" /\ c.dir = dir /\ c.op = op /\ c.ret = 0
      /\ c.cur = head /\ c.name = name /\ c.prev = NULL
  BY <1>2 DEF Call
<1> HIDE DEF c, Idle
<1>4. /\ proc'[p] = c /\ (\A q \in Proc \ {p} : proc'[q] = proc[q])
      /\ proc' \in [Proc -> Call(heap) \cup {Idle}]
  BY <1>1, <1>2, <1>3
<1>5. Alone(proc')
  BY <1>1, <1>2, <1>3, <1>4 DEF Alone
<1>6. Held(c) = head /\ c.pc \notin Adding /\ proc[p].pc \notin Adding
  BY <1>1, <1>3 DEF Held, Adding
<1>7. Fits(c, heap, head, proc)
  BY ONLY <1>3, <1>6 DEF Fits, Adding
<1> HIDE DEF Adding
<1>8. Guarded(heap, head, next_ino, proc', known)
  <2>1. c.pc # "free" /\ proc[p].pc # "free"
    BY <1>1, <1>3
  <2>2. Holds(c) => Onward(heap, proc, Held(c)) \subseteq Onward(heap, proc, head)
    BY <1>6
  <2> QED
    BY ONLY Guarded(heap, head, next_ino, proc, known), p \in Proc,
            <1>2, <1>4, <1>5, <1>6, <1>7, <2>1, <2>2, GuardedMoves
<1> QED
  BY <1>1, <1>8

\* A call leaves and gives up its lock.
LEMMA LeaveGuarded ==
  ASSUME Guarded(heap, head, next_ino, proc, known), NEW p \in Proc, Leave(p)
  PROVE  Guarded(heap, head, next_ino, proc, known)'
<1>1. /\ proc' = [proc EXCEPT ![p] = Idle] /\ proc[p].pc = "returns"
      /\ heap' = heap /\ head' = head /\ next_ino' = next_ino /\ known' = known
  BY DEF Leave, At, shared
<1>2. /\ Alone(proc) /\ DOMAIN proc = Proc /\ next_ino \in Nat
      /\ proc \in [Proc -> Call(heap) \cup {Idle}]
  BY GuardedFacts
<1>3. Idle.pc = "idle"
  BY DEF Idle
<1>4. Alone(proc')
  BY <1>1, <1>2, <1>3 DEF Alone
<1>5. ~Holds(Idle) /\ Idle.pc \notin Adding /\ proc[p].pc \notin Adding /\ Idle.pc # "free"
  BY <1>1, <1>3 DEF Holds, Removing, Adding
<1> HIDE DEF Idle, Adding
<1>6. /\ proc'[p] = Idle /\ (\A q \in Proc \ {p} : proc'[q] = proc[q])
      /\ proc' \in [Proc -> Call(heap) \cup {Idle}] /\ proc[p].pc # "free"
  BY <1>1, <1>2
<1>7. Guarded(heap, head, next_ino, proc', known)
  BY ONLY Guarded(heap, head, next_ino, proc, known), p \in Proc,
          <1>2, <1>3, <1>4, <1>5, <1>6, GuardedMoves
<1> QED
  BY <1>1, <1>7

\* What may be put back of the directory of a call that has it alone is in the
\* list, or where the call itself would make the head lead.
LEMMA OwnWithin ==
  ASSUME Guarded(heap, head, next_ino, proc, known), NEW p \in Proc,
         proc[p].pc # "idle", proc[p].op # "lookup",
         NEW a \in Within(heap, head, proc), IsChild(heap[a], proc[p].dir, proc[p].name)
  PROVE  \/ a \in Onward(heap, proc, head)
         \/ Holds(proc[p]) /\ a \in Onward(heap, proc, Held(proc[p]))
<1>1. /\ proc[p] \in Call(heap) /\ proc[p].dir \in Dir /\ Alone(proc)
      /\ NothingComesBack(heap, head, proc)
  <2>1. proc[p] \in Call(heap)
    BY InGuarded
  <2> QED
    BY <2>1, InGuarded DEF Call
<1>2. \/ a \in Onward(heap, proc, head)
      \/ \E q \in Proc : Holds(proc[q]) /\ a \in Onward(heap, proc, Held(proc[q]))
  BY InWithin
<1>3. ASSUME NEW q \in Proc \ {p}, Holds(proc[q]), a \in Onward(heap, proc, Held(proc[q]))
      PROVE  a \in Onward(heap, proc, head)
  <2>1. proc[q].dir # proc[p].dir
    BY <1>1, <1>3, OwnDirectory DEF Holds, Removing
  <2>2. a \in EntriesOf(heap, proc, proc[p].dir)
    BY <1>3, EntryOf DEF Onward
  <2> QED
    BY <1>1, <1>3, <2>1, <2>2 DEF NothingComesBack
<1> QED
  BY <1>2, <1>3

\* A walk's step: no node of its directory is behind it, so that at the end the
\* name is nowhere, and at a match it is nowhere else.
LEMMA WalkGuarded ==
  ASSUME Guarded(heap, head, next_ino, proc, known), NEW p \in Proc, Walk(p), ~ub'
  PROVE  Guarded(heap, head, next_ino, proc, known)'
<1> DEFINE me == proc[p]
           cur == me.cur
           In == Onward(heap, proc, head)
           Has(a) == IsChild(heap[a], me.dir, me.name)
<1>1. me.pc = "walk" /\ ~ub /\ ~Crashes
  BY DEF Walk, At, Crashes
<1>2. /\ me \in Call(heap) /\ Fits(me, heap, head, proc)
      /\ Pointers(heap) /\ heap \in [DOMAIN heap -> NodeMemory(heap)]
      /\ head \in DOMAIN heap \cup {NULL} /\ Alone(proc) /\ NamedOnce(heap, head, proc)
      /\ \A q \in Proc : proc[q].pc # "idle" => Fits(proc[q], heap, head, proc)
  BY <1>1, InGuarded
<1>3. /\ \A a \in In : Has(a) => a \in Onward(heap, proc, cur)
      /\ me.ret = 0 /\ me.dir # 0 /\ cur \in DOMAIN heap \cup {NULL}
      /\ me.op \in {"create", "unlink", "lookup"}
      /\ me.op = "unlink" => Removing(me) /\ Holds(me) /\ Held(me) = cur
      /\ me.op = "create" => ~Holds(me)
      /\ Removing(me) /\ me.prev = NULL =>
           In \cap EntriesOf(heap, proc, me.dir) \subseteq Onward(heap, proc, cur) \cup {cur}
      /\ Removing(me) /\ me.prev # NULL =>
           \/ heap[me.prev].next = cur
           \/ cur # NULL /\ heap[cur].st # "new" /\ heap[cur].parent_ino # me.dir
  BY <1>1, <1>2, DirAssumption DEF Fits, Call, VTFS_ROOT_INO, Removing, Holds, Held
<1>4. ASSUME cur = NULL
      PROVE  \A a \in In : ~Has(a)
  <2>1. Onward(heap, proc, NULL) = {}
    BY <1>2, FromNull DEF Onward
  <2> QED
    BY <1>3, <1>4, <2>1
<1>5. CASE cur = NULL /\ me.op = "create"
  <2> DEFINE c == [me EXCEPT !.pc = "parent", !.cur = head]
  <2>1. Goes(p, c)
    BY <1>5 DEF Walk
  <2>2. /\ c \in Call(heap) /\ c.pc = "parent" /\ c.dir = me.dir /\ c.op = "create"
        /\ c.name = me.name /\ c.ret = 0
    BY <1>2, <1>3, <1>5 DEF Call
  <2> HIDE DEF c
  <2>3. \A a \in Within(heap, head, proc) : ~Has(a)
    BY <1>1, <1>3, <1>4, <1>5, OwnWithin
  <2>4. Fits(c, heap, head, proc)
    BY ONLY <2>2, <2>3 DEF Fits, Removing, Adding
  <2>5. ~Holds(c) /\ c.pc \notin Adding /\ me.pc \notin Adding
    BY <1>1, <2>2 DEF Holds, Removing, Adding
  <2> HIDE DEF Adding
  <2> QED
    BY <1>1, <1>5, <2>1, <2>2, <2>4, <2>5, GoesGuarded
<1>6. CASE cur = NULL /\ me.op # "create"
  <2>1. Returns(p, -ENOENT) /\ -ENOENT \in Int
    BY <1>6 DEF Walk, ENOENT
  <2> QED
    BY <1>1, <1>4, <1>6, <2>1, ReturnGuarded
<1>7. CASE cur # NULL /\ (Returns(p, -EEXIST) \/ Returns(p, 0))
  <2>1. -EEXIST \in Int /\ 0 \in Int /\ -EEXIST # -ENOENT /\ 0 # -ENOENT
    BY DEF EEXIST, ENOENT
  <2> QED
    BY <1>1, <1>7, <2>1, ReturnGuarded
<1>8. CASE /\ cur # NULL /\ Matches(p) /\ me.op = "unlink" /\ Filled(p)
           /\ Goes(p, [me EXCEPT !.pc = "cut"])
  <2> DEFINE c == [me EXCEPT !.pc = "cut"]
  <2>1. /\ c \in Call(heap) /\ c.pc = "cut" /\ c.dir = me.dir /\ c.op = "unlink"
        /\ c.name = me.name /\ c.ret = 0 /\ c.cur = cur /\ c.prev = me.prev
    BY <1>2, <1>3, <1>8 DEF Call
  <2> HIDE DEF c
  <2>2. Has(cur) /\ cur \in DOMAIN heap /\ heap[cur].st = "filled"
    BY <1>3, <1>8 DEF Matches, Filled, Cur
  <2>3. ASSUME NEW q \in Proc, proc[q].pc = "free"
        PROVE  proc[q].cur # cur
    <3>1. q # p /\ IsChild(heap[proc[q].cur], proc[q].dir, proc[q].name)
      BY <1>1, <1>2, <2>3 DEF Fits
    <3>2. proc[q].dir # me.dir
      BY <1>1, <1>2, <1>8, <2>3, <3>1, OwnDirectory
    <3> QED
      BY <2>2, <3>1, <3>2 DEF IsChild
  <2>4. cur \in Onward(heap, proc, cur)
    <3>1. cur \in From(heap, cur)
      BY <1>2, <2>2, FromStep
    <3> QED
      BY <2>2, <2>3, <3>1 DEF Onward, Live
  <2>5. cur \in Within(heap, head, proc)
    BY <1>3, <1>8, <2>4, InWithin
  <2>6. \A a \in Within(heap, head, proc) : Has(a) => a = cur
    BY <1>2, <1>3, <2>2, <2>5 DEF NamedOnce, IsChild
  <2>7. Removing(c) /\ Holds(c) /\ Held(c) = cur /\ c.pc \notin Adding /\ me.pc \notin Adding
    BY <1>1, <2>1 DEF Holds, Held, Removing, Adding
  <2>8. Fits(c, heap, head, proc)
    <3>1. c.pc \notin {"walk", "publish", "parent", "alloc", "relink", "returns"}
      BY <2>1
    <3> HIDE DEF Adding
    <3> QED
      BY <1>3, <1>8, <2>1, <2>2, <2>6, <2>7, <3>1 DEF Fits
  <2>9. Goes(p, c)
    BY <1>8 DEF c
  <2> HIDE DEF Adding
  <2> QED
    BY <1>1, <1>3, <1>8, <2>1, <2>7, <2>8, <2>9, GoesGuarded
<1>9. CASE /\ cur # NULL /\ (Cur(p).st = "new" \/ (Filled(p) /\ ~Matches(p)))
           /\ Goes(p, [me EXCEPT !.prev = me.cur, !.cur = Cur(p).next])
  <2> DEFINE n == heap[cur].next
             c == [me EXCEPT !.prev = cur, !.cur = n]
  <2>1. cur \in DOMAIN heap /\ n \in DOMAIN heap \cup {NULL}
    BY <1>2, <1>3, <1>9 DEF Pointers
  <2>2. /\ c \in Call(heap) /\ c.pc = "walk" /\ c.dir = me.dir /\ c.op = me.op
        /\ c.name = me.name /\ c.ret = 0 /\ c.cur = n /\ c.prev = cur
    BY <1>1, <1>2, <1>3, <2>1 DEF Call
  <2>3. Goes(p, c)
    BY <1>9 DEF Cur
  <2> HIDE DEF c
  <2>4. ~Has(cur)
    BY <1>9 DEF Matches, Filled, Cur, IsChild
  <2>5. From(heap, cur) = {cur} \cup From(heap, n)
    BY <1>2, <2>1, FromStep
  <2>6. \A a \in In : Has(a) => a \in Onward(heap, proc, n)
    BY <1>3, <2>4, <2>5 DEF Onward
  <2>7. /\ Removing(c) <=> Removing(me)
        /\ Holds(c) <=> Holds(me)
        /\ Held(c) = n /\ Held(me) = cur /\ c.pc \notin Adding /\ me.pc \notin Adding
        /\ Onward(heap, proc, n) \subseteq Onward(heap, proc, cur)
    BY <1>1, <2>2, <2>5 DEF Holds, Held, Removing, Adding, Onward
  <2>8. Fits(c, heap, head, proc)
    <3>1. c.pc \notin {"publish", "parent", "alloc", "cut", "relink", "free", "returns"}
      BY <2>2
    <3>2. heap[c.prev].next = c.cur /\ c.prev # NULL
      BY <1>9, <2>2
    <3> HIDE DEF Adding
    <3> QED
      BY ONLY <2>2, <2>6, <2>7, <3>1, <3>2 DEF Fits
  <2> HIDE DEF Adding
  <2> QED
    BY <1>1, <2>2, <2>3, <2>7, <2>8, GoesGuarded
<1> QED
  BY <1>1, <1>5, <1>6, <1>7, <1>8, <1>9 DEF Walk

\* The parent is looked for: the name stays nobody's.
LEMMA FindParentGuarded ==
  ASSUME Guarded(heap, head, next_ino, proc, known), NEW p \in Proc, FindParent(p), ~ub'
  PROVE  Guarded(heap, head, next_ino, proc, known)'
<1> DEFINE me == proc[p]
<1>1. me.pc = "parent" /\ ~ub /\ ~Crashes
  BY DEF FindParent, At, Crashes
<1>2. /\ me \in Call(heap) /\ Fits(me, heap, head, proc) /\ Pointers(heap)
  BY <1>1, InGuarded
<1>3. /\ me.op = "create" /\ me.ret = 0
      /\ \A a \in Within(heap, head, proc) : ~IsChild(heap[a], me.dir, me.name)
  BY <1>1, <1>2 DEF Fits
<1>4. CASE me.cur = NULL /\ Returns(p, -ENOTDIR)
  <2>1. -ENOTDIR \in Int /\ -ENOTDIR # -ENOENT
    BY DEF ENOTDIR, ENOENT
  <2> QED
    BY <1>1, <1>4, <2>1, ReturnGuarded
<1>5. ASSUME NEW c \in Call(heap), Goes(p, c), c.pc \in {"parent", "alloc"},
             c.dir = me.dir, c.op = me.op, c.name = me.name, c.ret = 0
      PROVE  Guarded(heap, head, next_ino, proc, known)'
  <2>1. Fits(c, heap, head, proc)
    BY ONLY <1>3, <1>5 DEF Fits, Removing, Adding
  <2>2. ~Holds(c) /\ c.pc \notin Adding /\ me.pc \notin Adding /\ c.pc # "free"
    BY <1>1, <1>5 DEF Holds, Removing, Adding
  <2> HIDE DEF Adding
  <2> QED
    BY <1>1, <1>5, <2>1, <2>2, GoesGuarded
<1>6. CASE me.cur # NULL /\ Goes(p, [me EXCEPT !.pc = "alloc"])
  <2> DEFINE c == [me EXCEPT !.pc = "alloc"]
  <2>1. /\ c \in Call(heap) /\ c.pc = "alloc" /\ c.dir = me.dir /\ c.op = me.op /\ c.ret = 0
        /\ c.name = me.name
    BY <1>2, <1>3 DEF Call
  <2>2. Goes(p, c)
    BY <1>6
  <2> HIDE DEF c
  <2> QED
    BY <1>5, <2>1, <2>2
<1>7. CASE me.cur # NULL /\ Goes(p, [me EXCEPT !.cur = Cur(p).next])
  <2> DEFINE n == heap[me.cur].next
             c == [me EXCEPT !.cur = n]
  <2>1. n \in DOMAIN heap \cup {NULL}
    BY <1>2, <1>7 DEF Pointers, Call
  <2>2. /\ c \in Call(heap) /\ c.pc = "parent" /\ c.dir = me.dir /\ c.op = me.op /\ c.ret = 0
        /\ c.name = me.name
    BY <1>1, <1>2, <1>3, <2>1 DEF Call
  <2>3. Goes(p, c)
    BY <1>7 DEF Cur
  <2> HIDE DEF c
  <2> QED
    BY <1>5, <2>2, <2>3
<1> QED
  BY <1>1, <1>4, <1>6, <1>7 DEF FindParent

\* A node that nothing points to, or -ENOMEM.
LEMMA AllocStepGuarded ==
  ASSUME Cardinality(Dir) <= 2, Guarded(heap, head, next_ino, proc, known),
         NEW p \in Proc, Alloc(p)
  PROVE  Guarded(heap, head, next_ino, proc, known)'
<1>1. proc[p].pc = "alloc"
  BY DEF Alloc, At
<1>2. CASE Returns(p, -ENOMEM)
  <2>1. -ENOMEM \in Int /\ -ENOMEM # -ENOENT
    BY DEF ENOMEM, ENOENT
  <2> QED
    BY <1>1, <1>2, <2>1, ReturnGuarded
<1>3. ASSUME NEW a \in Addr \ DOMAIN heap, \A other \in Addr \ DOMAIN heap : a <= other,
             heap' = WithNew(heap, head, a),
             proc' = [proc EXCEPT ![p].pc = "publish", ![p].cur = a],
             UNCHANGED <<head, next_ino, known>>
      PROVE  Guarded(heap, head, next_ino, proc, known)'
  <2>1. Guarded(heap', head, next_ino, proc', known)
    BY <1>1, <1>3, AllocGuarded
  <2> QED
    BY <1>3, <2>1
<1> QED
  BY <1>2, <1>3 DEF Alloc, WithNew

\* The head is overwritten, by a node that may lead to an older list.
LEMMA PublishStepGuarded ==
  ASSUME Cardinality(Dir) <= 2, Guarded(heap, head, next_ino, proc, known),
         NEW p \in Proc, Publish(p)
  PROVE  Guarded(heap, head, next_ino, proc, known)'
<1>1. /\ proc[p].pc = "publish" /\ proc' = [proc EXCEPT ![p].pc = "take"] /\ head' = proc[p].cur
      /\ heap' = heap /\ next_ino' = next_ino /\ known' = known
  BY DEF Publish, At
<1>2. Guarded(heap, proc[p].cur, next_ino, proc', known)
  BY <1>1, PublishGuarded
<1> QED
  BY <1>1, <1>2

\* The inode number that a creation takes has no part in this.
LEMMA NumberGuarded ==
  ASSUME Guarded(heap, head, next_ino, proc, known), NEW p \in Proc, TakeIno(p) \/ Bump(p)
  PROVE  Guarded(heap, head, next_ino, proc, known)'
<1> DEFINE me == proc[p]
<1>1. me.pc \in {"take", "bump"}
  BY DEF TakeIno, Bump, At
<1>2. /\ me \in Call(heap) /\ Fits(me, heap, head, proc) /\ next_ino \in Nat /\ Alone(proc)
      /\ proc \in [Proc -> Call(heap) \cup {Idle}]
  BY <1>1, InGuarded
<1> DEFINE c == IF me.pc = "take" THEN [me EXCEPT !.pc = "bump", !.ino = next_ino]
                ELSE [me EXCEPT !.pc = "fill"]
           mi == IF me.pc = "take" THEN next_ino ELSE me.ino + 1
<1>3. /\ proc' = [proc EXCEPT ![p] = c] /\ next_ino' = mi
      /\ heap' = heap /\ head' = head /\ known' = known
  <2>1. CASE me.pc = "take"
    <3>1. TakeIno(p)
      BY <2>1 DEF Bump, At
    <3> QED
      BY <2>1, <3>1 DEF TakeIno, Goes, shared
  <2>2. CASE me.pc = "bump"
    <3>1. Bump(p)
      BY <2>2 DEF TakeIno, At
    <3> QED
      BY <1>2, <2>2, <3>1 DEF Bump
  <2> QED
    BY <1>1, <2>1, <2>2
<1>4. /\ c \in Call(heap) /\ c.pc \in {"bump", "fill"} /\ c.dir = me.dir /\ c.op = me.op
      /\ c.name = me.name /\ c.ret = me.ret /\ c.cur = me.cur /\ mi \in Nat
  <2>1. CASE me.pc = "take"
    <3>1. c = [me EXCEPT !.pc = "bump", !.ino = next_ino] /\ mi = next_ino
      BY <2>1
    <3> QED
      BY ONLY <1>2, <3>1 DEF Call
  <2>2. CASE me.pc = "bump"
    <3>1. c = [me EXCEPT !.pc = "fill"] /\ mi = me.ino + 1
      BY <2>2
    <3> QED
      BY ONLY <1>2, <3>1 DEF Call
  <2> QED
    BY <1>1, <2>1, <2>2
<1> HIDE DEF c, mi
<1>5. Fits(c, heap, head, proc)
  <2>1. /\ me.op = "create" /\ me.ret = 0 /\ me.cur # NULL /\ heap[me.cur].st = "new"
        /\ \A a \in Within(heap, head, proc) : ~IsChild(heap[a], me.dir, me.name)
    BY <1>1, <1>2 DEF Fits, Adding
  <2> QED
    BY ONLY <1>4, <2>1 DEF Fits, Removing, Adding
<1>6. /\ ~Holds(c) /\ c.pc \in Adding /\ me.pc \in Adding /\ c.pc # "free" /\ me.pc # "free"
      /\ me.pc # "idle"
  BY <1>1, <1>4 DEF Holds, Removing, Adding
<1> HIDE DEF Adding, Idle
<1>7. /\ proc'[p] = c /\ (\A q \in Proc \ {p} : proc'[q] = proc[q])
      /\ proc' \in [Proc -> Call(heap) \cup {Idle}]
  BY <1>2, <1>3, <1>4
<1>8. Alone(proc')
  BY ONLY <1>2, <1>4, <1>6, <1>7, p \in Proc, LockStays
<1>9. Guarded(heap, head, mi, proc', known)
  BY ONLY Guarded(heap, head, next_ino, proc, known), p \in Proc,
          <1>4, <1>5, <1>6, <1>7, <1>8, GuardedMoves
<1> QED
  BY <1>3, <1>9

\* The new node gets a name that nothing in the list has.
LEMMA FillStepGuarded ==
  ASSUME Cardinality(Dir) <= 2, Guarded(heap, head, next_ino, proc, known),
         NEW p \in Proc, Fill(p)
  PROVE  Guarded(heap, head, next_ino, proc, known)'
<1>1. /\ proc[p].pc = "fill" /\ proc' = [proc EXCEPT ![p].pc = "returns"]
      /\ heap' = WithFilled(heap, proc[p]) /\ known' = Knowing(known, proc[p])
      /\ head' = head /\ next_ino' = next_ino
  BY DEF Fill, At, Key, KeyOf, WithFilled, Knowing
<1>2. Guarded(heap', head, next_ino, proc', known')
  BY <1>1, FillGuarded
<1> QED
  BY <1>1, <1>2

\* cur->next is read: what it leads to, cur led to.
LEMMA CutGuarded ==
  ASSUME Guarded(heap, head, next_ino, proc, known), NEW p \in Proc, Cut(p)
  PROVE  Guarded(heap, head, next_ino, proc, known)'
<1> DEFINE me == proc[p]
           cur == me.cur
           n == heap[cur].next
           c == [me EXCEPT !.pc = "relink", !.next = n]
           In == Onward(heap, proc, head)
<1>1. Goes(p, c) /\ me.pc = "cut"
  BY DEF Cut, At, Cur
<1>2. me \in Call(heap) /\ Fits(me, heap, head, proc) /\ Pointers(heap) /\ Aged(heap)
  BY <1>1, InGuarded
<1>3. /\ cur \in DOMAIN heap /\ cur # NULL /\ n \in DOMAIN heap \cup {NULL} /\ me.op = "unlink" /\ me.ret = 0
      /\ IsChild(heap[cur], me.dir, me.name)
      /\ \A a \in Within(heap, head, proc) : IsChild(heap[a], me.dir, me.name) => a = cur
      /\ n # NULL => Age(n) < Age(cur)
      /\ Removing(me) /\ Holds(me) /\ Held(me) = cur
      /\ me.prev = NULL => In \cap EntriesOf(heap, proc, me.dir) \subseteq Onward(heap, proc, cur) \cup {cur}
      /\ me.prev # NULL => \/ heap[me.prev].next = cur
                           \/ cur # NULL /\ heap[cur].st # "new" /\ heap[cur].parent_ino # me.dir
  BY <1>1, <1>2 DEF Fits, Call, Pointers, Aged, Removing, Holds, Held
<1>4. /\ c \in Call(heap) /\ c.pc = "relink" /\ c.dir = me.dir /\ c.op = "unlink"
      /\ c.name = me.name /\ c.ret = 0 /\ c.cur = cur /\ c.next = n /\ c.prev = me.prev
  BY <1>1, <1>2, <1>3 DEF Call
<1> HIDE DEF c
<1>5. From(heap, cur) = {cur} \cup From(heap, n)
  BY <1>2, <1>3, FromStep
<1>6. /\ Onward(heap, proc, n) \subseteq Onward(heap, proc, cur)
      /\ Onward(heap, proc, cur) \subseteq Onward(heap, proc, n) \cup {cur}
  BY <1>5 DEF Onward
<1>7. /\ Removing(c) /\ Holds(c) /\ Held(c) = n /\ c.pc \notin Adding /\ me.pc \notin Adding
      /\ c.pc # "publish"
  BY <1>1, <1>4 DEF Holds, Held, Removing, Adding
<1> HIDE DEF n
<1>8. Fits(c, heap, head, proc)
  <2>1. c.prev = NULL =>
          In \cap EntriesOf(heap, proc, c.dir) \subseteq Onward(heap, proc, Held(c)) \cup {c.cur}
    BY ONLY <1>3, <1>4, <1>6, <1>7
  <2>2. c.prev # NULL => \/ heap[c.prev].next = c.cur
                         \/ c.cur # NULL /\ heap[c.cur].st # "new" /\ heap[c.cur].parent_ino # c.dir
    BY ONLY <1>3, <1>4
  <2>3. /\ c.next # NULL => Age(c.next) < Age(c.cur)
        /\ Onward(heap, proc, c.next) = Onward(heap, proc, heap[c.cur].next)
    BY ONLY <1>3, <1>4 DEF n
  <2>4. /\ c.cur # NULL /\ IsChild(heap[c.cur], c.dir, c.name)
        /\ \A a \in Within(heap, head, proc) : IsChild(heap[a], c.dir, c.name) => a = c.cur
    BY ONLY <1>3, <1>4
  <2>5. c.pc \notin {"walk", "publish", "parent", "alloc", "returns"}
    BY <1>4
  <2> HIDE DEF Adding
  <2> QED
    BY ONLY <1>4, <1>7, <2>1, <2>2, <2>3, <2>4, <2>5 DEF Fits
<1>9. c.pc # "free" /\ me.pc \notin {"idle", "free"} /\ c.op = me.op
  BY <1>1, <1>3, <1>4
<1> HIDE DEF Adding
<1> QED
  BY ONLY Guarded(heap, head, next_ino, proc, known), p \in Proc,
          <1>1, <1>3, <1>4, <1>6, <1>7, <1>8, <1>9, GoesGuarded

\* cur is taken out, whatever became of its predecessor and of the head.
LEMMA RelinkGuarded ==
  ASSUME Cardinality(Dir) <= 2, Guarded(heap, head, next_ino, proc, known),
         NEW p \in Proc, Relink(p), ~ub'
  PROVE  Guarded(heap, head, next_ino, proc, known)'
<1>1. /\ proc[p].pc = "relink" /\ proc' = [proc EXCEPT ![p].pc = "free"]
      /\ next_ino' = next_ino /\ known' = known
  BY DEF Relink, At, Crashes
<1>2. /\ head' = IF proc[p].prev = NULL THEN proc[p].next ELSE head
      /\ heap' = IF proc[p].prev = NULL THEN heap
                 ELSE [heap EXCEPT ![proc[p].prev].next = proc[p].next]
  BY DEF Relink, Unlinked, Crashes
<1>3. /\ heap \in [DOMAIN heap -> NodeMemory(heap)] /\ NULL \notin DOMAIN heap
      /\ proc[p].next \in DOMAIN heap \cup {NULL} /\ proc[p].prev \in DOMAIN heap \cup {NULL}
  <2>1. proc[p].pc # "idle"
    BY <1>1
  <2> QED
    BY <2>1, GuardedFacts DEF Call
<1>4. /\ DOMAIN heap' = DOMAIN heap /\ heap' \in [DOMAIN heap -> NodeMemory(heap)]
      /\ \A a \in DOMAIN heap :
           /\ heap'[a].st = heap[a].st /\ heap'[a].parent_ino = heap[a].parent_ino
           /\ heap'[a].name = heap[a].name
           /\ IF a = proc[p].prev THEN heap'[a].next = proc[p].next
              ELSE heap'[a].next = heap[a].next
  <2>1. CASE proc[p].prev = NULL
    <3>1. heap' = heap
      BY <1>2, <2>1
    <3> QED
      BY ONLY <1>3, <2>1, <3>1
  <2>2. CASE proc[p].prev # NULL
    <3>1. heap' = [heap EXCEPT ![proc[p].prev].next = proc[p].next]
      BY <1>2, <2>2
    <3> QED
      BY ONLY <1>3, <2>2, <3>1 DEF NodeMemory
  <2> QED
    BY <2>1, <2>2
<1>5. TakenOut(heap, head, proc[p], heap', head')
  BY <1>2, <1>4 DEF TakenOut
<1>6. Guarded(heap', head', next_ino, proc', known)
  BY ONLY Cardinality(Dir) <= 2, Guarded(heap, head, next_ino, proc, known), p \in Proc,
          <1>1, <1>5, TakenOutGuarded
<1> QED
  BY <1>1, <1>6

\* A node that was about to be freed is.
LEMMA FreeStepGuarded ==
  ASSUME Cardinality(Dir) <= 2, Guarded(heap, head, next_ino, proc, known),
         NEW p \in Proc, Free(p)
  PROVE  Guarded(heap, head, next_ino, proc, known)'
<1>1. /\ proc[p].pc = "free" /\ proc' = [proc EXCEPT ![p].pc = "returns"]
      /\ heap' = WithFreed(heap, proc[p]) /\ known' = Forgetting(known, proc[p])
      /\ head' = head /\ next_ino' = next_ino
  BY DEF Free, At, Key, KeyOf, WithFreed, Forgetting
<1>2. Guarded(heap', head, next_ino, proc', known')
  BY <1>1, FreeGuarded
<1> QED
  BY <1>1, <1>2

\* Every step keeps the invariant.
LEMMA TwoInvStep ==
  ub \in BOOLEAN /\ raced \in BOOLEAN /\ TwoInv /\ [RaceNext]_race_vars => TwoInv'
<1> SUFFICES ASSUME ub \in BOOLEAN, raced \in BOOLEAN, TwoInv, [RaceNext]_race_vars, ~ub',
                    Cardinality(Dir) <= 2
             PROVE  Guarded(heap, head, next_ino, proc, known)'
  BY DEF TwoInv
<1>1. Guarded(heap, head, next_ino, proc, known)
  BY FlagsStay DEF TwoInv
<1>2. CASE UNCHANGED race_vars
  <2>1. /\ heap' = heap /\ head' = head /\ next_ino' = next_ino
        /\ proc' = proc /\ known' = known
    BY <1>2 DEF race_vars
  <2> QED
    BY <1>1, <2>1
<1>3. ASSUME NEW p \in Proc, NEW dir \in Dir, NEW name \in Name,
             create(p, dir, name) \/ unlink(p, dir, name) \/ lookup(p, dir, name)
      PROVE  Guarded(heap, head, next_ino, proc, known)'
  BY <1>1, <1>3, BeginGuarded DEF create, unlink, lookup
<1>4. ASSUME NEW p \in Proc, Walk(p)
      PROVE  Guarded(heap, head, next_ino, proc, known)'
  BY <1>1, <1>4, WalkGuarded
<1>5. ASSUME NEW p \in Proc, FindParent(p)
      PROVE  Guarded(heap, head, next_ino, proc, known)'
  BY <1>1, <1>5, FindParentGuarded
<1>6. ASSUME NEW p \in Proc, Alloc(p) \/ Publish(p) \/ TakeIno(p) \/ Bump(p) \/ Fill(p)
      PROVE  Guarded(heap, head, next_ino, proc, known)'
  BY <1>1, <1>6, AllocStepGuarded, PublishStepGuarded, NumberGuarded, FillStepGuarded
<1>7. ASSUME NEW p \in Proc, Cut(p) \/ Relink(p) \/ Free(p) \/ Leave(p)
      PROVE  Guarded(heap, head, next_ino, proc, known)'
  BY <1>1, <1>7, CutGuarded, RelinkGuarded, FreeStepGuarded, LeaveGuarded
<1> QED
  BY <1>2, <1>3, <1>4, <1>5, <1>6, <1>7 DEF RaceNext

\* The first list: its nodes are in it, and no call runs.
LEMMA TwoInvInit == RaceInit => TwoInv
<1> DEFINE n == Cardinality(DOMAIN FirstNodes)
<1>0. n \in Nat \ {0}
  BY FirstFinite
<1> HIDE DEF n
<1> SUFFICES ASSUME RaceInit
             PROVE  Guarded(heap, head, next_ino, proc, known)
  BY DEF TwoInv
<1>1. Memory(heap, head, next_ino, proc, known) /\ Alone(proc) /\ Accounted(heap, known)
  <2>1. RaceInv /\ ~raced /\ ~ub
    BY RaceInvInit DEF RaceInit
  <2> QED
    BY <2>1 DEF RaceInv, Sound
<1>2. /\ DOMAIN heap = 1..n
      /\ \A a \in 1..n : heap[a].next = IF a = n THEN NULL ELSE a + 1
  <2>1. PICK order : heap = [a \in 1..n |->
             LET k    == order[a]
                 next == IF a = n THEN NULL ELSE a + 1
             IN IF k \in OldFile THEN Node(next, k[1], k[2], FIRST_INO + a)
                ELSE Node(next, 0, "", k[2])]
    BY DEF RaceInit, n
  <2>2. DOMAIN heap = 1..n
    BY <2>1
  <2>3. ASSUME NEW a \in 1..n
        PROVE  heap[a].next = IF a = n THEN NULL ELSE a + 1
    <3> DEFINE after == IF a = n THEN NULL ELSE a + 1
               k     == order[a]
    <3>1. heap[a] = IF k \in OldFile THEN Node(after, k[1], k[2], FIRST_INO + a)
                    ELSE Node(after, 0, "", k[2])
      BY <2>1
    <3> HIDE DEF after, k
    <3>2. heap[a].next = after
      <4>1. CASE k \in OldFile
        <5> DEFINE dir  == k[1]
                   name == k[2]
                   ino  == FIRST_INO + a
        <5>1. heap[a] = Node(after, dir, name, ino)
          BY <3>1, <4>1
        <5> HIDE DEF dir, name, ino
        <5> QED
          BY ONLY <5>1 DEF Node
      <4>2. CASE k \notin OldFile
        <5> DEFINE none == ""
                   ino  == k[2]
        <5>1. heap[a] = Node(after, 0, none, ino)
          BY <3>1, <4>2
        <5> HIDE DEF none, ino
        <5> QED
          BY ONLY <5>1 DEF Node
      <4> QED
        BY <4>1, <4>2
    <3> QED
      BY <3>2 DEF after
  <2> QED
    BY <2>2, <2>3
<1>3. \A p \in Proc : proc[p].pc = "idle"
  BY DEF RaceInit, Idle
<1>4. Aged(heap)
  <2>1. DOMAIN heap \subseteq Nat /\ 1..n \subseteq DOMAIN heap
    BY <1>0, <1>2
  <2>2. ASSUME NEW a \in DOMAIN heap, heap[a].next # NULL
        PROVE  Age(heap[a].next) < Age(a)
    <3>1. a \in 1..n /\ a # n /\ heap[a].next = a + 1
      BY <1>2, <2>2
    <3>2. Age(a) = n - a /\ Age(a + 1) = n - (a + 1)
      BY <1>0, <3>1 DEF Age, n
    <3> QED
      BY <1>0, <3>1, <3>2
  <2>3. ASSUME NEW a \in DOMAIN heap, NEW b \in Addr \ DOMAIN heap
        PROVE  Age(a) < Age(b)
    <3>1. b \in Nat /\ b # 0 /\ b \notin 1..n /\ a \in 1..n
      BY <1>2, AddrAssumption DEF NULL
    <3>2. ~(b <= n) /\ a <= n
      BY <1>0, <3>1
    <3>3. Age(a) = n - a /\ Age(b) = b
      BY <3>2 DEF Age, n
    <3> QED
      BY <1>0, <3>1, <3>2, <3>3
  <2> QED
    BY <2>1, <2>2, <2>3 DEF Aged, n
<1>5. \A p \in Proc : ~Holds(proc[p]) /\ proc[p].pc \notin Adding
  BY <1>3 DEF Holds, Removing, Adding
<1>6. NothingComesBack(heap, head, proc)
  BY <1>5 DEF NothingComesBack
<1>7. NamedOnce(heap, head, proc)
  <2>1. \A a \in Within(heap, head, proc) : a \in DOMAIN heap
    BY DEF Within, Onward, Live
  <2> SUFFICES ASSUME NEW a \in DOMAIN heap, NEW b \in DOMAIN heap,
                      heap[b].st = "filled", heap[b].parent_ino # 0,
                      IsChild(heap[a], heap[b].parent_ino, heap[b].name)
               PROVE  a = b
    BY <2>1 DEF NamedOnce
  <2>2. /\ heap[a].st = "filled" /\ heap[a].parent_ino = heap[b].parent_ino
        /\ heap[a].name = heap[b].name
    BY DEF IsChild
  <2> QED
    BY <1>1, <2>2 DEF Accounted
<1> QED
  BY <1>1, <1>3, <1>4, <1>5, <1>6, <1>7 DEF Guarded

\* With two directories, each call keeps its own directory's entries as it
\* needs them, whatever the other directory's calls do to the list.
THEOREM TwoInvariance == RaceSpec => []TwoInv
<1>1. RaceInv /\ TwoInv /\ [RaceNext]_race_vars => TwoInv'
  BY TwoInvStep DEF RaceInv
<1> QED
  BY <1>1, TwoInvInit, RaceInvariance, PTL DEF RaceSpec

\* A node that a walk meets lives, or a call is about to free it; such a call
\* removes the entry, and has its directory for itself.
LEMMA Dying ==
  ASSUME Guarded(heap, head, next_ino, proc, known),
         NEW a \in Reached, heap[a].st = "filled", a \notin Live(heap, proc)
  PROVE  \E q \in Proc :
           /\ proc[q].pc = "free" /\ proc[q].cur = a /\ proc[q].op = "unlink"
           /\ IsChild(heap[a], proc[q].dir, proc[q].name)
           /\ \A b \in Within(heap, head, proc) : IsChild(heap[b], proc[q].dir, proc[q].name) => b = a
<1>1. a \in DOMAIN heap
  BY DEF Reached, From
<1>2. PICK q \in Proc : proc[q].pc = "free" /\ proc[q].cur = a
  BY <1>1 DEF Live
<1>3. Fits(proc[q], heap, head, proc)
  BY <1>2, GuardedFacts
<1> QED
  BY <1>2, <1>3 DEF Fits

\* For any number of processes and names: with two directories no directory
\* holds a name twice, however stale the writes to the list.
THEOREM UniqueTwo == RaceSpec => []UniqueInTwoDirectories
<1>1. TwoInv => UniqueInTwoDirectories
  <2> SUFFICES ASSUME Guarded(heap, head, next_ino, proc, known),
                      NEW a \in Reached, NEW b \in Reached,
                      heap[a].st = "filled", heap[b].st = "filled", heap[a].parent_ino # 0,
                      heap[a].parent_ino = heap[b].parent_ino, heap[a].name = heap[b].name
               PROVE  a = b
    BY DEF TwoInv, UniqueInTwoDirectories
  <2>1. /\ \A dir, name : IsChild(heap[a], dir, name) <=> IsChild(heap[b], dir, name)
        /\ IsChild(heap[a], heap[b].parent_ino, heap[b].name)
    BY DEF IsChild
  <2>2. \A x \in Reached : x \in Live(heap, proc) => x \in Within(heap, head, proc)
    BY DEF Reached, Within, Onward
  <2>3. CASE a \in Live(heap, proc) /\ b \in Live(heap, proc)
    BY <2>1, <2>2, <2>3 DEF Guarded, NamedOnce
  <2>4. CASE a \notin Live(heap, proc)
    <3>1. PICK q \in Proc :
            /\ proc[q].pc = "free" /\ proc[q].cur = a /\ proc[q].op = "unlink"
            /\ IsChild(heap[a], proc[q].dir, proc[q].name)
            /\ \A x \in Within(heap, head, proc) :
                 IsChild(heap[x], proc[q].dir, proc[q].name) => x = a
      BY <2>4, Dying
    <3>2. CASE b \in Live(heap, proc)
      BY <2>1, <2>2, <3>1, <3>2
    <3>3. CASE b \notin Live(heap, proc)
      <4>1. PICK r \in Proc :
              /\ proc[r].pc = "free" /\ proc[r].cur = b /\ proc[r].op = "unlink"
              /\ IsChild(heap[b], proc[r].dir, proc[r].name)
        BY <3>3, Dying
      <4>2. proc[q].dir = proc[r].dir
        BY <2>1, <3>1, <4>1 DEF IsChild
      <4>3. q = r
        BY <3>1, <4>1, <4>2 DEF Guarded, Alone
      <4> QED
        BY <3>1, <4>1, <4>3
    <3> QED
      BY <3>2, <3>3
  <2>5. CASE a \in Live(heap, proc) /\ b \notin Live(heap, proc)
    <3>1. PICK q \in Proc :
            /\ IsChild(heap[b], proc[q].dir, proc[q].name)
            /\ \A x \in Within(heap, head, proc) :
                 IsChild(heap[x], proc[q].dir, proc[q].name) => x = b
      BY <2>5, Dying
    <3> QED
      BY <2>1, <2>2, <2>5, <3>1
  <2> QED
    BY <2>3, <2>4, <2>5
<1> QED
  BY <1>1, TwoInvariance, PTL

\* And whoever returns -ENOENT is right: the name is not in the list.
THEOREM NotFoundTwo == RaceSpec => []NotFoundInTwoDirectories
<1>1. TwoInv => NotFoundInTwoDirectories
  <2> SUFFICES ASSUME TwoInv, Cardinality(Dir) <= 2,
                      NEW p \in Proc, At(p, "returns"), proc[p].ret = -ENOENT,
                      NEW a \in Reached, IsChild(heap[a], proc[p].dir, proc[p].name)
               PROVE  FALSE
    BY DEF NotFoundInTwoDirectories, NotFound
  <2>1. proc[p].pc = "returns" /\ Guarded(heap, head, next_ino, proc, known)
    BY DEF At, TwoInv
  <2>2. \A b \in Onward(heap, proc, head) : ~IsChild(heap[b], proc[p].dir, proc[p].name)
    <3>1. Fits(proc[p], heap, head, proc)
      BY <2>1, GuardedFacts
    <3> QED
      BY <2>1, <3>1 DEF Fits
  <2>3. CASE a \in Live(heap, proc)
    BY <2>2, <2>3 DEF Reached, Onward
  <2>4. CASE a \notin Live(heap, proc)
    <3>1. heap[a].st = "filled"
      BY DEF IsChild
    <3>2. PICK q \in Proc : /\ proc[q].pc = "free" /\ proc[q].op = "unlink"
                            /\ IsChild(heap[a], proc[q].dir, proc[q].name)
      BY <2>1, <2>4, <3>1, Dying
    <3>3. proc[q].dir = proc[p].dir
      BY <3>2 DEF IsChild
    <3> QED
      BY <2>1, <3>2, <3>3 DEF Guarded, Alone
  <2> QED
    BY <2>3, <2>4
<1> QED
  BY <1>1, TwoInvariance, PTL
=============================================================================
