------------------------- MODULE NucleusListsProofs -------------------------
(***************************************************************************)
(* NucleusLists implements Nucleus, for every set of PCBs, semaphores and  *)
(* priorities, and never leaves a list broken.                             *)
(*                                                                         *)
(* A memory is good when there is a function Q from the heads of the lists *)
(* to orders such that the links lead from each head through the members   *)
(* of its order (Shape, Rep).  The proof goes up in four layers: what the  *)
(* operations of listx.h do to Q; what those of pcb.c and asl.c do to the  *)
(* free PCBs, the ready queue and the queues of the semaphores; what the   *)
(* recursions over the process tree and the loop over the clock queue do,  *)
(* by counting their steps; and that each handler then takes the step of   *)
(* Nucleus.  The invariants of Nucleus, proved in NucleusProofs, hold of   *)
(* the orders the lists are, and are used as part of the invariant here.   *)
(***************************************************************************)
EXTENDS NucleusLists, FiniteSetTheorems, WellFoundedInduction, TLAPS

-----------------------------------------------------------------------------
(* The circular lists of listx.h *)

\* The fields of the memory.
MemFields == {"next", "prev", "p_parent", "p_semAdd", "p_prio", "p_pid",
              "s_key", "next_pid", "currProc", "processCount", "softBlockCount"}

\* The nodes that are initialised.
Inited(m) == {n \in Node : m.next[n] # NoNode}

\* A list of its own, or a node not used yet.
Loose(m, n) == n \in Inited(m) => m.next[n] = n /\ m.prev[n] = n

\* A memory where the neighbours of every initialised node are initialised and
\* point back at it.
Sound(m) ==
  /\ DOMAIN m = MemFields
  /\ m.next \in [Node -> Node \cup {NoNode}]
  /\ m.prev \in [Node -> Node \cup {NoNode}]
  /\ \A n \in Inited(m) : /\ m.next[n] \in Inited(m) /\ m.prev[n] \in Inited(m)
                          /\ m.prev[m.next[n]] = n /\ m.next[m.prev[n]] = n

\* Four things are finitely many.
LEMMA FewFinite ==
  ASSUME NEW a, NEW b, NEW c, NEW d
  PROVE  IsFiniteSet({a, b, c, d})
<1>1. IsFiniteSet({a})
  BY FS_Singleton
<1>2. IsFiniteSet({a} \cup {b})
  BY <1>1, FS_AddElement
<1>3. IsFiniteSet(({a} \cup {b}) \cup {c})
  BY <1>2, FS_AddElement
<1>4. IsFiniteSet((({a} \cup {b}) \cup {c}) \cup {d})
  BY <1>3, FS_AddElement
<1>5. {a, b, c, d} = (({a} \cup {b}) \cup {c}) \cup {d}
  OBVIOUS
<1> QED
  BY <1>4, <1>5

\* A node is not the null pointer, and there are finitely many.
LEMMA NodesFinite == NoNode \notin Node /\ IsFiniteSet(Node)
<1>1. NoNode \notin Node
  BY DEF Node, NoNode, pcbFree_h, readyQueue, semdFree_h, semd_h
<1>2. IsFiniteSet({"p_list", "p_child", "p_sib"} \X PCB)
  <2>1. IsFiniteSet({"p_list", "p_child", "p_sib"})
    <3>1. IsFiniteSet({"p_list", "p_child", "p_sib", "p_sib"})
      BY FewFinite
    <3>2. {"p_list", "p_child", "p_sib", "p_sib"} = {"p_list", "p_child", "p_sib"}
      OBVIOUS
    <3> QED
      BY <3>1, <3>2
  <2> QED
    BY <2>1, TableAssumption, FS_Product
<1>3. IsFiniteSet({"s_procq", "s_link"} \X Semd)
  <2>1. IsFiniteSet({"s_procq", "s_link"})
    <3>1. IsFiniteSet({"s_procq", "s_link", "s_link", "s_link"})
      BY FewFinite
    <3>2. {"s_procq", "s_link", "s_link", "s_link"} = {"s_procq", "s_link"}
      OBVIOUS
    <3> QED
      BY <3>1, <3>2
  <2> QED
    BY <2>1, TableAssumption, FS_Product
<1>4. IsFiniteSet({pcbFree_h, readyQueue, semdFree_h, semd_h})
  BY FewFinite
<1>5. IsFiniteSet(Node)
  BY <1>2, <1>3, <1>4, FS_Union DEF Node
<1> QED
  BY <1>1, <1>5

\* Among subsets of a finite set there is a smallest one.
LEMMA SmallestSet ==
  ASSUME NEW X, IsFiniteSet(X), NEW F \in SUBSET (SUBSET X), F # {}
  PROVE  \E A \in F : \A B \in F : B \subseteq A => B = A
<1>1. F \subseteq FiniteSubsetsOf(X)
  BY FS_FiniteSubsetsOfFinite
<1>2. IsWellFoundedOn(StrictSubsetOrdering(X), FiniteSubsetsOf(X))
  BY FS_StrictSubsetOrderingWellFounded
<1>3. PICK A \in F : \A B \in F : <<B, A>> \notin StrictSubsetOrdering(X)
  BY <1>1, <1>2, WFMin
<1> QED
  BY <1>3 DEF StrictSubsetOrdering

\* Such a memory has the property Mirrored of DList.
LEMMA SoundMirrored ==
  ASSUME NEW m, Sound(m)
  PROVE  Mirrored(m)
  BY DEF Sound, Mirrored, Inited

\* The links after INIT_LIST_HEAD, __list_add and __list_del.
LEMMA InitLinks ==
  ASSUME NEW m, Sound(m), NEW n \in Node
  PROVE  LET r == INIT_LIST_HEAD(m, n) IN
         /\ DOMAIN r = DOMAIN m
         /\ r.next = [m.next EXCEPT ![n] = n]
         /\ r.prev = [m.prev EXCEPT ![n] = n]
  BY DEF INIT_LIST_HEAD, Sound, MemFields

\* __list_add writes four links: next of new and prev, prev of next and new.
LEMMA LinkBetweenLinks ==
  ASSUME NEW m, Sound(m), NEW new \in Node, NEW a \in Node, NEW b \in Node
  PROVE  LET r == LinkBetween(m, new, a, b) IN
         /\ DOMAIN r = DOMAIN m
         /\ r.next = [[m.next EXCEPT ![new] = b] EXCEPT ![a] = new]
         /\ r.prev = [[m.prev EXCEPT ![b] = new] EXCEPT ![new] = a]
  BY DEF LinkBetween, Sound, MemFields

\* list_del closes the gap and leaves the entry linked to itself.
LEMMA DelLinks ==
  ASSUME NEW m, Sound(m), NEW entry \in Inited(m)
  PROVE  LET r == list_del(m, entry) IN
         /\ DOMAIN r = DOMAIN m
         /\ r.next = [[m.next EXCEPT ![m.prev[entry]] = m.next[entry]]
                                EXCEPT ![entry] = entry]
         /\ r.prev = [[m.prev EXCEPT ![m.next[entry]] = m.prev[entry]]
                                EXCEPT ![entry] = entry]
  BY NodesFinite DEF list_del, CutBetween, INIT_LIST_HEAD, Sound, Inited, MemFields

\* A head or an element is initialised.
LEMMA InitKeepsLists ==
  ASSUME NEW m, Sound(m), NEW n \in Node, Loose(m, n)
  PROVE  /\ Sound(INIT_LIST_HEAD(m, n))
         /\ Inited(INIT_LIST_HEAD(m, n)) = Inited(m) \cup {n}
<1> DEFINE r == INIT_LIST_HEAD(m, n)
<1>1. /\ DOMAIN r = DOMAIN m
      /\ r.next = [m.next EXCEPT ![n] = n] /\ r.prev = [m.prev EXCEPT ![n] = n]
  BY InitLinks
<1>2. Inited(r) = Inited(m) \cup {n}
  BY <1>1, NodesFinite DEF Sound, Inited
<1> HIDE DEF r
<1>3. Sound(r)
  BY <1>1, <1>2 DEF Sound, Loose, Inited
<1> QED
  BY <1>2, <1>3 DEF r

\* __list_add between two neighbours.
LEMMA LinkBetweenKeepsLists ==
  ASSUME NEW m, Sound(m), NEW new \in Node, Loose(m, new),
         NEW a \in Inited(m) \ {new}, NEW b \in Inited(m) \ {new},
         m.next[a] = b
  PROVE  LET r == LinkBetween(m, new, a, b) IN
         /\ Sound(r)
         /\ Inited(r) = Inited(m) \cup {new}
         /\ r.next[a] = new /\ r.next[new] = b
<1> DEFINE r == LinkBetween(m, new, a, b)
<1>1. /\ DOMAIN r = DOMAIN m
      /\ r.next = [[m.next EXCEPT ![new] = b] EXCEPT ![a] = new]
      /\ r.prev = [[m.prev EXCEPT ![b] = new] EXCEPT ![new] = a]
  BY LinkBetweenLinks DEF Inited
<1> HIDE DEF r
<1>2. Inited(r) = Inited(m) \cup {new}
  BY <1>1, NodesFinite DEF Sound, Inited
<1>3. Sound(r)
  <2>1. \A n \in Inited(m) \ {new} : m.next[n] # new /\ m.prev[n] # new
    BY DEF Sound, Loose, Inited
  <2>2. \A n \in Inited(m) : n # a => m.next[n] # b
    BY DEF Sound, Inited
  <2>3. m.prev[b] = a /\ \A n \in Inited(m) : n # b => m.prev[n] # a
    BY DEF Sound, Inited
  <2> QED
    BY <1>1, <1>2, <2>1, <2>2, <2>3 DEF Sound, Inited
<1>4. r.next[a] = new /\ r.next[new] = b
  BY <1>1, NodesFinite DEF Sound, Inited
<1> QED
  BY <1>2, <1>3, <1>4 DEF r

\* list_add: new is the first of the list, list_add_tail: the last one.
LEMMA AddKeepsLists ==
  ASSUME NEW m, Sound(m), NEW new \in Node, Loose(m, new),
         NEW head \in Inited(m), head # new
  PROVE  /\ Sound(list_add(m, new, head))
         /\ list_add(m, new, head).next[head] = new
         /\ Sound(list_add_tail(m, new, head))
         /\ list_add_tail(m, new, head).next[new] = head
<1>1. /\ m.next[head] \in Inited(m) /\ m.next[head] # new
      /\ m.prev[head] \in Inited(m) /\ m.prev[head] # new
      /\ m.next[m.prev[head]] = head
  BY DEF Sound, Loose, Inited
<1>2. Sound(list_add(m, new, head)) /\ list_add(m, new, head).next[head] = new
  BY <1>1, LinkBetweenKeepsLists DEF list_add
<1>3. /\ Sound(list_add_tail(m, new, head))
      /\ list_add_tail(m, new, head).next[new] = head
  BY <1>1, LinkBetweenKeepsLists DEF list_add_tail
<1> QED
  BY <1>2, <1>3

\* list_del: the list is closed again, and the entry can be linked elsewhere.
LEMMA DelKeepsLists ==
  ASSUME NEW m, Sound(m), NEW entry \in Inited(m)
  PROVE  /\ Sound(list_del(m, entry)) /\ Loose(list_del(m, entry), entry)
         /\ Inited(list_del(m, entry)) = Inited(m)
<1> DEFINE r == list_del(m, entry)
<1>1. /\ DOMAIN r = DOMAIN m
      /\ r.next = [[m.next EXCEPT ![m.prev[entry]] = m.next[entry]]
                             EXCEPT ![entry] = entry]
      /\ r.prev = [[m.prev EXCEPT ![m.next[entry]] = m.prev[entry]]
                             EXCEPT ![entry] = entry]
  BY DelLinks
<1> HIDE DEF r
<1>2. Inited(r) = Inited(m)
  BY <1>1, NodesFinite DEF Sound, Inited
<1>3. Loose(r, entry)
  BY <1>1 DEF Sound, Loose, Inited
<1>4. Sound(r)
  <2> DEFINE a == m.prev[entry]
             b == m.next[entry]
  <2>1. /\ a \in Inited(m) /\ b \in Inited(m)
        /\ m.next[a] = entry /\ m.prev[b] = entry
        /\ a = entry <=> b = entry
    BY DEF Sound
  <2>2. DOMAIN r = MemFields
    BY <1>1 DEF Sound
  <2>3. /\ r.next \in [Node -> Node \cup {NoNode}]
        /\ r.prev \in [Node -> Node \cup {NoNode}]
    BY <1>1, NodesFinite DEF Sound, Inited
  <2>4. r.next[entry] = entry /\ r.prev[entry] = entry
    BY <1>1, NodesFinite DEF Sound, Inited
  <2>5. ASSUME NEW n \in Inited(m), n # entry
        PROVE  /\ r.next[n] = IF n = a THEN b ELSE m.next[n]
               /\ r.prev[n] = IF n = b THEN a ELSE m.prev[n]
    BY <1>1, <2>1, <2>5 DEF Sound, Inited
  <2>6. ASSUME NEW n \in Inited(m), n # entry
        PROVE  /\ n # a => m.next[n] # entry /\ m.next[n] # b
               /\ n # b => m.prev[n] # entry /\ m.prev[n] # a
    BY <2>1, <2>6 DEF Sound
  <2>7. ASSUME NEW n \in Inited(m)
        PROVE  /\ r.next[n] \in Inited(m) /\ r.prev[n] \in Inited(m)
               /\ r.prev[r.next[n]] = n /\ r.next[r.prev[n]] = n
    <3>1. CASE n = entry
      BY <2>4, <3>1
    <3>2. CASE n # entry
      <4>1. m.next[n] \in Inited(m) /\ m.prev[n] \in Inited(m)
            /\ m.prev[m.next[n]] = n /\ m.next[m.prev[n]] = n
        BY DEF Sound
      <4>2. r.next[n] \in Inited(m) /\ r.prev[r.next[n]] = n
        BY <2>1, <2>5, <2>6, <3>2, <4>1
      <4>3. r.prev[n] \in Inited(m) /\ r.next[r.prev[n]] = n
        BY <2>1, <2>5, <2>6, <3>2, <4>1
      <4> QED
        BY <4>2, <4>3
    <3> QED
      BY <3>1, <3>2
  <2> QED
    BY <1>2, <2>2, <2>3, <2>7 DEF Sound
<1> QED
  BY <1>2, <1>3, <1>4 DEF r

-----------------------------------------------------------------------------
(* The orders the lists are *)

\* The lemmas on orders, for orders of nodes.
O == INSTANCE ProcQueueProofs WITH PCB <- Node

\* The nodes that are heads of lists.
Heads == {pcbFree_h, readyQueue, semdFree_h, semd_h}
           \cup {procq(d) : d \in Semd} \cup {p_child(p) : p \in PCB}

\* The first node of B in the order q; the head h when there is none.
FirstNode(h, q, B) ==
  IF B = {} THEN h ELSE CHOOSE x \in B : \A y \in B : <<x, y>> \in q

\* What stands behind a member; everybody stands behind the head.
Behind(q, n) ==
  {y \in O!Elems(q) : n \in O!Elems(q) => <<n, y>> \in q /\ y # n}

\* B is the rest of the list from some place on.
IsRest(q, B) ==
  /\ B \subseteq O!Elems(q)
  /\ \A x, y \in O!Elems(q) : x \in B /\ <<x, y>> \in q => y \in B

\* The links lead from the head h through the members of q in their order.
IsList(m, h, q) ==
  /\ O!IsQueue(q)
  /\ O!Elems(q) \subseteq Inited(m) \ Heads
  /\ \A n \in O!Elems(q) \cup {h} : m.next[n] = FirstNode(h, q, Behind(q, n))

\* Every head of m has the list Q gives it, and no node is in two of them.
Shape(m, Q) ==
  /\ Sound(m)
  /\ DOMAIN Q = Heads
  /\ \A h \in Heads : IF h \in Inited(m) THEN IsList(m, h, Q[h]) ELSE Q[h] = {}
  /\ \A h, g \in Heads : h # g => O!Elems(Q[h]) \cap O!Elems(Q[g]) = {}
  /\ \A n \in Inited(m) \ Heads :
       (\A h \in Heads : n \notin O!Elems(Q[h])) => m.next[n] = n

\* A head is a node.
LEMMA HeadsAreNodes == Heads \subseteq Node
BY DEF Heads, Node, procq, p_child

\* The members of an order of nodes are nodes.
LEMMA ElemsNodes == \A q : O!Elems(q) \subseteq Node
BY DEF O!Elems

\* The first of a group is the one before which no other stands.
LEMMA FirstIs ==
  ASSUME NEW q, O!IsQueue(q), NEW B, B \subseteq O!Elems(q), NEW h,
         NEW x \in B, \A y \in B : <<x, y>> \in q
  PROVE  FirstNode(h, q, B) = x
<1>1. \A z \in B : (\A y \in B : <<z, y>> \in q) => z = x
  BY ElemsNodes DEF O!IsQueue
<1> QED
  BY <1>1 DEF FirstNode

\* A group that is not empty has its first node in it, before all others.
LEMMA FirstIn ==
  ASSUME NEW q, O!IsQueue(q), NEW B, B \subseteq O!Elems(q), B # {}, NEW h
  PROVE  /\ FirstNode(h, q, B) \in B
         /\ \A y \in B : <<FirstNode(h, q, B), y>> \in q
<1>1. \E x \in B : \A y \in B : <<x, y>> \in q
  BY O!FirstOfGroup
<1> QED
  BY <1>1 DEF FirstNode

\* A group has a last one too.
LEMMA LastOfGroup ==
  ASSUME NEW q, O!IsQueue(q), NEW B, B \subseteq O!Elems(q), B # {}
  PROVE  \E x \in B : \A y \in B : <<y, x>> \in q
<1> DEFINE From(x) == {y \in B : <<x, y>> \in q}
           F == {From(x) : x \in B}
<1>0. B \subseteq Node /\ IsFiniteSet(B)
  BY ElemsNodes, NodesFinite, FS_Subset
<1>1. F \in SUBSET (SUBSET B) /\ F # {}
  OBVIOUS
<1>2. PICK A \in F : \A C \in F : C \subseteq A => C = A
  <2> HIDE DEF F
  <2> QED
    BY <1>0, <1>1, SmallestSet
<1>3. PICK x \in B : A = From(x)
  OBVIOUS
<1>4. \A y \in B : <<x, y>> \in q => <<y, x>> \in q
  <2> SUFFICES ASSUME NEW y \in B, <<x, y>> \in q PROVE <<y, x>> \in q
    OBVIOUS
  <2>1. From(y) \subseteq From(x)
    BY <1>0 DEF O!IsQueue
  <2>2. x \in From(x)
    BY <1>0 DEF O!Elems
  <2> QED
    BY <1>2, <1>3, <2>1, <2>2
<1> QED
  BY <1>4, O!Total

\* The places of a list: every rest of it is behind the head or a member.
LEMMA RestBehind ==
  ASSUME NEW q, O!IsQueue(q), NEW h, h \notin O!Elems(q),
         NEW B, IsRest(q, B)
  PROVE  \E n \in O!Elems(q) \cup {h} : Behind(q, n) = B
<1>1. CASE B = O!Elems(q)
  BY <1>1 DEF Behind
<1>2. CASE B # O!Elems(q)
  <2>1. O!Elems(q) \ B # {} /\ B \subseteq O!Elems(q)
    BY <1>2 DEF IsRest
  <2>2. PICK n \in O!Elems(q) \ B : \A y \in O!Elems(q) \ B : <<y, n>> \in q
    BY <2>1, LastOfGroup
  <2>3. ASSUME NEW y \in B PROVE <<n, y>> \in q /\ y # n
    BY <2>1, <2>2, O!Total DEF IsRest
  <2>4. ASSUME NEW y \in O!Elems(q), <<n, y>> \in q, y # n PROVE y \in B
    BY <2>2, <2>4, ElemsNodes DEF O!IsQueue
  <2>5. Behind(q, n) = B
    BY <2>1, <2>2, <2>3, <2>4 DEF Behind
  <2> QED
    BY <2>5
<1> QED
  BY <1>1, <1>2

\* What stands behind a node is a rest of the list.
LEMMA BehindIsRest ==
  ASSUME NEW q, O!IsQueue(q), NEW n PROVE IsRest(q, Behind(q, n))
<1>1. Behind(q, n) \subseteq O!Elems(q)
  BY DEF Behind
<1>2. ASSUME NEW x \in O!Elems(q), NEW y \in O!Elems(q), x \in Behind(q, n),
             <<x, y>> \in q
      PROVE  y \in Behind(q, n)
  <2>1. CASE n \notin O!Elems(q)
    BY <2>1 DEF Behind
  <2>2. CASE n \in O!Elems(q)
    BY <1>2, <2>2, ElemsNodes DEF Behind, O!IsQueue
  <2> QED
    BY <2>1, <2>2
<1> QED
  BY <1>1, <1>2 DEF IsRest

\* The first node of a group is in it, or the head when there is none.
LEMMA FirstNodeIn ==
  ASSUME NEW q, O!IsQueue(q), NEW B, B \subseteq O!Elems(q), NEW h
  PROVE  FirstNode(h, q, B) \in B \cup {h}
BY FirstIn DEF FirstNode

\* Behind the first of a rest is the rest of the rest.
LEMMA BehindFirst ==
  ASSUME NEW q, O!IsQueue(q), NEW B, IsRest(q, B), B # {}, NEW h
  PROVE  Behind(q, FirstNode(h, q, B)) = B \ {FirstNode(h, q, B)}
<1> DEFINE x == FirstNode(h, q, B)
<1>1. x \in B /\ (\A y \in B : <<x, y>> \in q) /\ B \subseteq O!Elems(q)
  BY FirstIn DEF IsRest
<1> HIDE DEF x
<1>2. Behind(q, x) = B \ {x}
  BY <1>1 DEF Behind, IsRest
<1> QED
  BY <1>2 DEF x

\* A rest without its first node is a rest.
LEMMA RestOfRest ==
  ASSUME NEW q, O!IsQueue(q), NEW B, IsRest(q, B), B # {}, NEW h
  PROVE  IsRest(q, B \ {FirstNode(h, q, B)})
BY BehindFirst, BehindIsRest

\* G leads from X outside T into X.
StaysIn(X, T, G) == \A x \in X \ T : G[x] \in X

\* f leads from every place to where following G first meets T.
IsLoop(f, X, T, G) == f = [x \in X |-> IF x \in T THEN x ELSE f[G[x]]]

\* There is such a function, also when following G never meets T.
LEMMA LoopExists ==
  ASSUME NEW X, NEW T, NEW G, StaysIn(X, T, G)
  PROVE  \E f : IsLoop(f, X, T, G)
<1> USE DEF StaysIn
<1> DEFINE Closed(Q) == \A y \in X \ T : G[y] \in Q => y \in Q
           Ends(x) == {t \in T \cap X : \A Q \in SUBSET X : t \in Q /\ Closed(Q) => x \in Q}
           f == [x \in X |-> CHOOSE t : t \in Ends(x)]
<1>1. ASSUME NEW x \in X, x \in T PROVE (CHOOSE t : t \in Ends(x)) = x
  <2>1. x \in Ends(x)
    BY <1>1
  <2>2. ASSUME NEW t \in Ends(x), t # x PROVE FALSE
    <3> DEFINE Q == X \ {x}
    <3>1. t \in Q /\ Q \in SUBSET X
      BY <2>2
    <3>2. Closed(Q)
      BY <1>1
    <3> QED
      BY <3>1, <3>2, <2>2
  <2> QED
    BY <2>1, <2>2
<1>2. ASSUME NEW x \in X \ T PROVE Ends(x) = Ends(G[x])
  <2>0. G[x] \in X
    OBVIOUS
  <2>1. ASSUME NEW t \in Ends(G[x]) PROVE t \in Ends(x)
    BY <2>1
  <2>2. ASSUME NEW t \in Ends(x) PROVE t \in Ends(G[x])
    <3> SUFFICES ASSUME NEW Q \in SUBSET X, t \in Q, Closed(Q), G[x] \notin Q PROVE FALSE
      BY <2>2
    <3> DEFINE P == Q \ {x}
    <3>1. t \in P /\ P \in SUBSET X
      BY <2>2
    <3>2. Closed(P)
      OBVIOUS
    <3> QED
      BY <3>1, <3>2, <2>2
  <2> QED
    BY <2>1, <2>2
<1>3. f = [x \in X |-> IF x \in T THEN x ELSE f[G[x]]]
  <2>1. ASSUME NEW x \in X PROVE f[x] = IF x \in T THEN x ELSE f[G[x]]
    <3>1. CASE x \in T
      BY <1>1, <3>1
    <3>2. CASE x \notin T
      BY <1>2, <3>2
    <3> QED
      BY <3>1, <3>2
  <2> HIDE DEF Ends
  <2> QED
    BY <2>1
<1> HIDE DEF f
<1> QED
  BY <1>3 DEF IsLoop

\* f leads from every node to where a loop over the list of h that has come
\* there ends.
EndsAt(f, m, h, S) ==
  f = [n \in Node \cup {NoNode} |->
         IF n \in S \cup {h, NoNode} THEN n ELSE f[m.next[n]]]

\* LoopEnd is the value of such a function.
LEMMA LoopEndDef ==
  ASSUME NEW m, m.next \in [Node -> Node \cup {NoNode}], NEW head, NEW S
  PROVE  \E f : EndsAt(f, m, head, S) /\ \A start : LoopEnd(m, head, S, start) = f[start]
<1>1. \E f : f = [n \in Node \cup {NoNode} |-> IF n \in S \cup {head, NoNode} THEN n ELSE f[m.next[n]]]
  <2> DEFINE X == Node \cup {NoNode}
             T == S \cup {head, NoNode}
             G == m.next
  <2>1. StaysIn(X, T, G)
    BY DEF StaysIn
  <2> HIDE DEF X, T, G
  <2>2. \E f : IsLoop(f, X, T, G)
    BY <2>1, LoopExists
  <2> QED
   BY <2>2 DEF X, T, G, IsLoop
<1> QED
  BY <1>1 DEF LoopEnd, EndsAt

\* A loop over a list that has come to some place ends at the first node of S
\* from there on.
LEMMA LoopEnds ==
  ASSUME NEW m, Sound(m), NEW h \in Heads, NEW q, IsList(m, h, q),
         NEW B, IsRest(q, B), NEW S
  PROVE  LoopEnd(m, h, S, FirstNode(h, q, B)) = FirstNode(h, q, B \cap S)
<1>1. PICK f : EndsAt(f, m, h, S) /\ \A start : LoopEnd(m, h, S, start) = f[start]
  BY LoopEndDef DEF Sound
<1>0. O!IsQueue(q) /\ O!Elems(q) \subseteq Node \ Heads
  BY DEF IsList, Inited
<1> DEFINE Bad == {C \in SUBSET O!Elems(q) : /\ IsRest(q, C)
                     /\ f[FirstNode(h, q, C)] # FirstNode(h, q, C \cap S)}
<1> SUFFICES ASSUME Bad # {} PROVE FALSE
  BY <1>1 DEF IsRest
<1>2. PICK C \in Bad : \A D \in Bad : D \subseteq C => D = C
  <2>1. IsFiniteSet(O!Elems(q))
    BY ElemsNodes, NodesFinite, FS_Subset
  <2>2. Bad \in SUBSET (SUBSET O!Elems(q))
    OBVIOUS
  <2> HIDE DEF Bad
  <2> QED
    BY <2>1, <2>2, SmallestSet
<1> DEFINE x == FirstNode(h, q, C)
<1>3. \A n \in Node : f[n] = IF n \in S \cup {h} THEN n ELSE f[m.next[n]]
  BY <1>1, NodesFinite DEF EndsAt
<1>4. CASE C = {}
  <2>1. FirstNode(h, q, C) = h /\ FirstNode(h, q, C \cap S) = h
    BY <1>4 DEF FirstNode
  <2>2. f[h] = h
    BY <1>3, HeadsAreNodes
  <2> QED
    BY <1>2, <2>1, <2>2
<1>5. CASE C # {}
  <2>1. x \in C /\ (\A y \in C : <<x, y>> \in q) /\ C \subseteq O!Elems(q) /\ IsRest(q, C)
    BY <1>0, <1>2, <1>5, FirstIn
  <2>2. Behind(q, x) = C \ {x} /\ IsRest(q, C \ {x})
    BY <1>0, <1>5, <2>1, BehindFirst, RestOfRest
  <2>3. f[x] # FirstNode(h, q, C \cap S)
    BY <1>2
  <2>4. x \in Node
    BY <1>0, <2>1
  <2> HIDE DEF x
  <2>5. CASE x \in S
    <3>1. FirstNode(h, q, C \cap S) = x
      BY <1>0, <2>1, <2>5, FirstIs, C \cap S \subseteq O!Elems(q)
    <3> QED
      BY <1>3, <2>3, <2>4, <2>5, <3>1
  <2>6. CASE x \notin S
    <3>1. f[x] = f[FirstNode(h, q, C \ {x})]
      BY <1>0, <1>3, <2>1, <2>2, <2>4, <2>6 DEF IsList
    <3>2. C \ {x} \notin Bad
      BY <1>2, <2>1
    <3>3. f[FirstNode(h, q, C \ {x})] = FirstNode(h, q, (C \ {x}) \cap S)
      BY <2>1, <2>2, <3>2
    <3>4. (C \ {x}) \cap S = C \cap S
      BY <2>6
    <3> QED
      BY <2>3, <3>1, <3>3, <3>4
  <2> QED
    BY <2>5, <2>6
<1> QED
  BY <1>4, <1>5

\* Only links are changed.
SameData(m, r) ==
  /\ r.p_parent = m.p_parent /\ r.p_semAdd = m.p_semAdd
  /\ r.p_prio = m.p_prio /\ r.p_pid = m.p_pid
  /\ r.s_key = m.s_key /\ r.next_pid = m.next_pid /\ r.currProc = m.currProc
  /\ r.processCount = m.processCount /\ r.softBlockCount = m.softBlockCount

\* The operations of listx.h change no field but the links.
LEMMA LinksOnly ==
  ASSUME NEW m, Sound(m), NEW n, NEW a, NEW b
  PROVE  /\ SameData(m, INIT_LIST_HEAD(m, n))
         /\ SameData(m, LinkBetween(m, n, a, b))
         /\ SameData(m, list_del(m, n))
<1>1. SameData(m, INIT_LIST_HEAD(m, n))
  BY DEF Sound, MemFields, SameData, INIT_LIST_HEAD
<1>2. SameData(m, LinkBetween(m, n, a, b))
  BY DEF Sound, MemFields, SameData, LinkBetween
<1>3. SameData(m, list_del(m, n))
  BY DEF Sound, MemFields, SameData, list_del, INIT_LIST_HEAD, CutBetween
<1> QED
  BY <1>1, <1>2, <1>3

\* A list whose links are not touched.
LEMMA ListStays ==
  ASSUME NEW m, NEW r, NEW h, NEW q, IsList(m, h, q),
         Inited(m) \subseteq Inited(r),
         \A n \in O!Elems(q) \cup {h} : r.next[n] = m.next[n]
  PROVE  IsList(r, h, q)
BY DEF IsList

\* Where the nodes of two lists are.
LEMMA ListsApart ==
  ASSUME NEW m, NEW Q, Shape(m, Q), NEW h \in Heads, NEW g \in Heads, h # g
  PROVE  (O!Elems(Q[h]) \cup {h}) \cap (O!Elems(Q[g]) \cup {g}) = {}
<1>1. \A k \in Heads : O!Elems(Q[k]) \cap Heads = {}
  BY O!EmptyIsQueue DEF Shape, IsList
<1> QED
  BY <1>1 DEF Shape

\* Every list is a queue of initialised nodes that are not heads.
LEMMA ShapeQueues ==
  ASSUME NEW m, NEW Q, Shape(m, Q), NEW h \in Heads
  PROVE  /\ O!IsQueue(Q[h]) /\ O!Elems(Q[h]) \subseteq Inited(m) \ Heads
         /\ O!Elems(Q[h]) # {} => h \in Inited(m)
BY O!EmptyIsQueue DEF Shape, IsList

\* What stands before a place of a list, by its links.
LEMMA BeforeRest ==
  ASSUME NEW m, Sound(m), NEW h \in Heads, h \in Inited(m), NEW q, IsList(m, h, q),
         NEW B, IsRest(q, B)
  PROVE  LET b == FirstNode(h, q, B) IN
         /\ b \in B \cup {h}
         /\ m.prev[b] \in O!Elems(q) \cup {h}
         /\ m.next[m.prev[b]] = b
         /\ Behind(q, m.prev[b]) = B
<1> DEFINE b == FirstNode(h, q, B)
<1>0. O!IsQueue(q) /\ h \notin O!Elems(q) /\ B \subseteq O!Elems(q)
  BY DEF IsList, IsRest
<1>1. PICK n \in O!Elems(q) \cup {h} : Behind(q, n) = B
  BY <1>0, RestBehind
<1>2. m.next[n] = b /\ n \in Inited(m)
  BY <1>1 DEF IsList
<1>3. m.prev[b] = n
  BY <1>2 DEF Sound
<1>4. b \in B \cup {h}
  BY <1>0, FirstNodeIn
<1> QED
  BY <1>1, <1>2, <1>3, <1>4

\* The order q with p before the members of B.
Linked(q, p, B) ==
  q \cup {<<x, p>> : x \in (O!Elems(q) \ B) \cup {p}} \cup {<<p, y>> : y \in B}

\* An order with p linked in is an order, of its members and p.
LEMMA LinkedQueue ==
  ASSUME NEW q, O!IsQueue(q), NEW p \in Node \ O!Elems(q), NEW B, IsRest(q, B)
  PROVE  /\ O!IsQueue(Linked(q, p, B))
         /\ O!Elems(Linked(q, p, B)) = O!Elems(q) \cup {p}
         /\ \A x, y \in O!Elems(q) : <<x, y>> \in Linked(q, p, B) <=> <<x, y>> \in q
         /\ \A x \in O!Elems(q) : /\ <<x, p>> \in Linked(q, p, B) <=> x \notin B
                                  /\ <<p, x>> \in Linked(q, p, B) <=> x \in B
<1> DEFINE r == Linked(q, p, B)
<1>0. r = q \cup {<<x, p>> : x \in (O!Elems(q) \ B) \cup {p}}
            \cup {<<p, y>> : y \in B}
  BY DEF Linked
<1> HIDE DEF r
<1>1. O!IsQueue(r) /\ O!Elems(r) = O!Elems(q) \cup {p}
  BY <1>0, O!InsertionQueue DEF IsRest
<1>2. /\ \A x, y \in O!Elems(q) : <<x, y>> \in r <=> <<x, y>> \in q
      /\ \A x \in O!Elems(q) : /\ <<x, p>> \in r <=> x \notin B
                               /\ <<p, x>> \in r <=> x \in B
  <2>1. \A x \in Node : <<x, p>> \notin q /\ <<p, x>> \notin q
    BY DEF O!IsQueue
  <2> QED
    BY <1>0, <2>1, ElemsNodes DEF IsRest
<1> QED
  BY <1>1, <1>2 DEF r

\* Linking a node before a place makes the list of the order with the node there.
LEMMA LinkedList ==
  ASSUME NEW m, Sound(m), NEW h \in Heads, h \in Inited(m), NEW q, IsList(m, h, q),
         NEW B, IsRest(q, B), NEW p \in Node \ Heads, p \notin O!Elems(q),
         NEW r, Inited(r) = Inited(m) \cup {p},
         NEW a, a = m.prev[FirstNode(h, q, B)],
         r.next = [[m.next EXCEPT ![p] = FirstNode(h, q, B)] EXCEPT ![a] = p]
  PROVE  IsList(r, h, Linked(q, p, B))
<1> DEFINE b == FirstNode(h, q, B)
           q1 == Linked(q, p, B)
<1>0. /\ O!IsQueue(q) /\ O!Elems(q) \subseteq Inited(m) \ Heads
      /\ B \subseteq O!Elems(q) /\ O!Elems(q) \subseteq Node
  BY ElemsNodes DEF IsList, IsRest
<1>1. /\ O!IsQueue(q1)
      /\ O!Elems(q1) = O!Elems(q) \cup {p}
      /\ \A x, y \in O!Elems(q) : <<x, y>> \in q1 <=> <<x, y>> \in q
      /\ \A x \in O!Elems(q) : /\ <<x, p>> \in q1 <=> x \notin B
                               /\ <<p, x>> \in q1 <=> x \in B
  BY <1>0, LinkedQueue
<1>2. /\ b \in B \cup {h} /\ a \in O!Elems(q) \cup {h} /\ m.next[a] = b
      /\ Behind(q, a) = B
  BY BeforeRest
<1>3. r.next[p] = b /\ r.next[a] = p /\ \A n \in O!Elems(q) \cup {h} :
        n # a => r.next[n] = m.next[n]
  BY <1>0, <1>2, HeadsAreNodes DEF Sound
<1> HIDE DEF b, q1
<1>4. \A n \in O!Elems(q) \cup {h} :
        Behind(q1, n) = IF n \in B THEN Behind(q, n) ELSE Behind(q, n) \cup {p}
  BY <1>0, <1>1 DEF Behind
<1>5. Behind(q1, p) = B
  BY <1>0, <1>1 DEF Behind
<1>6. FirstNode(h, q1, B) = b
  <2>1. CASE B = {}
    BY <2>1 DEF FirstNode, b
  <2>2. CASE B # {}
    <3>1. b \in B /\ \A y \in B : <<b, y>> \in q
      BY <1>0, <2>2, FirstIn DEF b
    <3> QED
      BY <1>0, <1>1, <3>1, FirstIs
  <2> QED
    BY <2>1, <2>2
<1>7. p \notin B /\ Behind(q1, a) = B \cup {p} /\ FirstNode(h, q1, B \cup {p}) = p
  <2>1. a \notin B
    BY <1>0, <1>2 DEF Behind
  <2>2. \A y \in B \cup {p} : <<p, y>> \in q1
    BY <1>0, <1>1 DEF O!Elems
  <2> QED
    BY <1>0, <1>1, <1>2, <1>4, <2>1, <2>2, FirstIs
<1>8. ASSUME NEW n \in O!Elems(q) \cup {h}, n # a
      PROVE  r.next[n] = FirstNode(h, q1, Behind(q1, n))
  <2>1. r.next[n] = FirstNode(h, q, Behind(q, n)) /\ m.next[n] = r.next[n]
    BY <1>3, <1>8 DEF IsList
  <2>0. Behind(q, n) \subseteq O!Elems(q)
    BY DEF Behind
  <2>2. CASE n \in B
    <3>1. Behind(q1, n) = Behind(q, n)
      BY <1>4, <2>2
    <3>2. CASE Behind(q, n) = {}
      BY <2>1, <3>1, <3>2 DEF FirstNode
    <3>3. CASE Behind(q, n) # {}
      <4> DEFINE x == FirstNode(h, q, Behind(q, n))
      <4>1. x \in Behind(q, n) /\ \A y \in Behind(q, n) : <<x, y>> \in q
        BY <1>0, <2>0, <3>3, FirstIn
      <4> HIDE DEF x
      <4>2. \A y \in Behind(q, n) : <<x, y>> \in q1
        BY <1>1, <2>0, <4>1
      <4>3. FirstNode(h, q1, Behind(q, n)) = x
        BY <1>1, <2>0, <4>1, <4>2, FirstIs
      <4> QED
        BY <2>1, <3>1, <4>3 DEF x
    <3> QED
      BY <3>2, <3>3
  <2>3. CASE n \notin B
    <3>1. Behind(q1, n) = Behind(q, n) \cup {p}
      BY <1>4, <2>3
    <3>2. B \subseteq Behind(q, n)
      BY <1>0, <2>3, O!Total DEF Behind, IsRest
    <3> DEFINE x == FirstNode(h, q, Behind(q, n))
    <3>3. Behind(q, n) # B
      <4>1. ASSUME Behind(q, n) = B PROVE FALSE
        <5>1. m.next[n] = b
          BY <2>1, <4>1 DEF b
        <5>2. n \in Inited(m) /\ a \in Inited(m)
          BY <1>0, <1>2
        <5> QED
          BY <1>2, <1>8, <5>1, <5>2 DEF Sound
      <4> QED
        BY <4>1
    <3>4. x \in Behind(q, n) /\ \A y \in Behind(q, n) : <<x, y>> \in q
      <4>1. Behind(q, n) # {}
        BY <3>2, <3>3
      <4> QED
        BY <1>0, <2>0, <4>1, FirstIn
    <3> HIDE DEF x
    <3>5. x \notin B
      BY <2>0, <3>2, <3>3, <3>4 DEF IsRest
    <3>6. \A y \in Behind(q, n) \cup {p} : <<x, y>> \in q1
      BY <1>1, <2>0, <3>4, <3>5
    <3>7. FirstNode(h, q1, Behind(q, n) \cup {p}) = x
      BY <1>1, <2>0, <3>4, <3>6, FirstIs
    <3> QED
      BY <2>1, <3>1, <3>7 DEF x
  <2> QED
    BY <2>2, <2>3
<1>9. \A n \in O!Elems(q1) \cup {h} : r.next[n] = FirstNode(h, q1, Behind(q1, n))
  BY <1>1, <1>3, <1>5, <1>6, <1>7, <1>8
<1> QED
  BY <1>0, <1>1, <1>9 DEF IsList, q1

\* Cutting a member out makes the list of the order without it.
LEMMA CutList ==
  ASSUME NEW m, Sound(m), NEW h \in Heads, h \in Inited(m), NEW q, IsList(m, h, q),
         NEW e \in O!Elems(q),
         NEW r, Inited(r) = Inited(m),
         r.next = [[m.next EXCEPT ![m.prev[e]] = m.next[e]] EXCEPT ![e] = e]
  PROVE  IsList(r, h, O!Without(q, {e}))
<1> DEFINE q1 == O!Without(q, {e})
           a == m.prev[e]
<1>0. /\ O!IsQueue(q) /\ O!Elems(q) \subseteq Inited(m) \ Heads
      /\ O!Elems(q) \subseteq Node
  BY ElemsNodes DEF IsList
<1>1. /\ O!IsQueue(q1) /\ O!Elems(q1) = O!Elems(q) \ {e}
      /\ \A x, y \in O!Elems(q) \ {e} : <<x, y>> \in q1 <=> <<x, y>> \in q
  BY <1>0, O!WithoutQueue DEF O!Without
<1>2. /\ m.next[e] = FirstNode(h, q, Behind(q, e))
      /\ a \in Inited(m) /\ m.next[a] = e
  BY <1>0 DEF IsList, Sound
<1>3. r.next[a] = m.next[e] \/ a = e
  <2>1. m.next \in [Node -> Node \cup {NoNode}] /\ a \in Node /\ e \in Node
    BY <1>0, <1>2 DEF Sound, Inited
  <2> QED
    BY <2>1
<1>4. \A n \in Node : n # a /\ n # e => r.next[n] = m.next[n]
  BY DEF Sound
<1>5. \A n \in (O!Elems(q) \cup {h}) \ {e} : Behind(q1, n) = Behind(q, n) \ {e}
  BY <1>0, <1>1 DEF Behind
<1> HIDE DEF q1, a
<1>6. ASSUME NEW n \in (O!Elems(q) \cup {h}) \ {e}
      PROVE  r.next[n] = FirstNode(h, q1, Behind(q1, n))
  <2>0. /\ n \in Node /\ n \in Inited(m)
        /\ Behind(q, n) \subseteq O!Elems(q) /\ Behind(q, e) \subseteq O!Elems(q)
        /\ e \notin Behind(q, e)
    BY <1>0, HeadsAreNodes DEF Behind
  <2>1. m.next[n] = FirstNode(h, q, Behind(q, n))
    BY DEF IsList
  <2>2. ASSUME NEW C, C \subseteq O!Elems(q), e \notin C
        PROVE  FirstNode(h, q1, C) = FirstNode(h, q, C)
    <3>1. CASE C = {}
      BY <3>1 DEF FirstNode
    <3>2. CASE C # {}
      <4> DEFINE x == FirstNode(h, q, C)
      <4>1. x \in C /\ \A y \in C : <<x, y>> \in q
        BY <1>0, <2>2, <3>2, FirstIn
      <4> HIDE DEF x
      <4>2. FirstNode(h, q1, C) = x
        BY <1>1, <2>2, <4>1, FirstIs
      <4> QED
        BY <4>2 DEF x
    <3> QED
      BY <3>1, <3>2
  <2>3. CASE n = a
    <3>1. FirstNode(h, q, Behind(q, n)) = e
      BY <1>2, <2>1, <2>3
    <3>2. Behind(q, n) # {}
      BY <1>0, <3>1 DEF FirstNode
    <3>3. Behind(q, e) = Behind(q, n) \ {e}
      BY <1>0, <3>1, <3>2, BehindFirst, BehindIsRest
    <3>4. r.next[n] = m.next[e]
      BY <1>3, <2>3
    <3> QED
      BY <1>2, <1>5, <2>0, <2>2, <3>3, <3>4
  <2>4. CASE n # a
    <3>1. r.next[n] = m.next[n]
      BY <1>4, <2>0, <2>4
    <3>2. m.next[n] # e
      BY <1>0, <1>2, <2>0, <2>4 DEF Sound
    <3>3. FirstNode(h, q1, Behind(q, n) \ {e}) = FirstNode(h, q, Behind(q, n) \ {e})
      BY <2>0, <2>2
    <3>4. CASE Behind(q, n) = {}
      BY <1>5, <2>1, <3>1, <3>4 DEF FirstNode
    <3>5. CASE Behind(q, n) # {}
      <4> DEFINE x == FirstNode(h, q, Behind(q, n))
      <4>1. x \in Behind(q, n) /\ \A y \in Behind(q, n) : <<x, y>> \in q
        BY <1>0, <2>0, <3>5, FirstIn
      <4>2. x # e
        BY <2>1, <3>2
      <4> HIDE DEF x
      <4>3. FirstNode(h, q, Behind(q, n) \ {e}) = x
        BY <1>0, <2>0, <4>1, <4>2, FirstIs
      <4> QED
        BY <1>5, <2>1, <3>1, <3>3, <4>3 DEF x
    <3> QED
      BY <3>4, <3>5
  <2> QED
    BY <2>3, <2>4
<1>7. \A n \in O!Elems(q1) \cup {h} : r.next[n] = FirstNode(h, q1, Behind(q1, n))
  BY <1>0, <1>1, <1>6
<1> QED
  BY <1>0, <1>1, <1>7 DEF IsList, q1

\* A node is on no list.
Unlinked(Q, n) == \A g \in Heads : n \notin O!Elems(Q[g])

\* INIT_LIST_HEAD of a node that is on no list: as a head it has an empty list.
LEMMA InitShape ==
  ASSUME NEW m, NEW Q, Shape(m, Q), NEW n \in Node,
         Unlinked(Q, n), n \in Heads => Q[n] = {}
  PROVE  LET r == INIT_LIST_HEAD(m, n) IN
         Shape(r, Q) /\ Inited(r) = Inited(m) \cup {n} /\ SameData(m, r)
<1> DEFINE r == INIT_LIST_HEAD(m, n)
<1>0. Sound(m) /\ \A g \in Heads : n \notin O!Elems(Q[g])
  BY DEF Shape, Unlinked
<1>1. Loose(m, n)
  <2> SUFFICES ASSUME n \in Inited(m) PROVE m.next[n] = n
    BY <1>0 DEF Loose, Sound
  <2>1. CASE n \in Heads
    <3>1. IsList(m, n, {}) /\ Behind({}, n) = {}
      BY <2>1 DEF Shape, Behind, O!Elems
    <3> QED
      BY <3>1 DEF IsList, FirstNode
  <2>2. CASE n \notin Heads
    BY <1>0, <2>2 DEF Shape
  <2> QED
    BY <2>1, <2>2
<1>2. Sound(r) /\ Inited(r) = Inited(m) \cup {n} /\ SameData(m, r)
  BY <1>0, <1>1, InitKeepsLists, LinksOnly
<1>3. (\A x \in Node : x # n => r.next[x] = m.next[x]) /\ r.next[n] = n
  <2>1. r.next = [m.next EXCEPT ![n] = n]
    BY <1>0, InitLinks
  <2> HIDE DEF r
  <2> QED
    BY <1>0, <2>1 DEF Sound
<1>4. r.next[n] = n
  BY <1>3
<1> HIDE DEF r
<1>5. ASSUME NEW h \in Heads, h \in Inited(r) PROVE IsList(r, h, Q[h])
  <2>1. CASE h = n
    <3>1. Q[h] = {} /\ O!Elems({}) = {} /\ Behind({}, h) = {}
      BY <2>1 DEF O!Elems, Behind
    <3>2. IsList(r, h, {})
      BY <1>4, <2>1, <3>1, O!EmptyIsQueue DEF IsList, FirstNode
    <3> QED
      BY <3>1, <3>2
  <2>2. CASE h # n
    <3>1. h \in Inited(m) /\ IsList(m, h, Q[h])
      BY <1>2, <1>5, <2>2 DEF Shape
    <3>2. n \notin O!Elems(Q[h]) \cup {h} /\ O!Elems(Q[h]) \cup {h} \subseteq Node
      BY <1>0, <2>2, ElemsNodes, HeadsAreNodes
    <3> QED
      BY <1>2, <1>3, <3>1, <3>2, ListStays
  <2> QED
    BY <2>1, <2>2
<1>6. ASSUME NEW h \in Heads, h \notin Inited(r) PROVE Q[h] = {}
  BY <1>2, <1>6 DEF Shape
<1>7. \A x \in Inited(r) \ Heads :
       (\A h \in Heads : x \notin O!Elems(Q[h])) => r.next[x] = x
  BY <1>2, <1>3, <1>4 DEF Shape, Inited
<1>8. Shape(r, Q)
  BY <1>2, <1>5, <1>6, <1>7 DEF Shape
<1> QED
  BY <1>2, <1>8 DEF r

\* list_add_tail of a node that is on no list, before some place of a list.
LEMMA AddShape ==
  ASSUME NEW m, NEW Q, Shape(m, Q), NEW h \in Heads, h \in Inited(m),
         NEW B, IsRest(Q[h], B), NEW p \in Node \ Heads,
         Unlinked(Q, p)
  PROVE  LET r == list_add_tail(m, p, FirstNode(h, Q[h], B)) IN
         /\ Shape(r, [Q EXCEPT ![h] = Linked(@, p, B)])
         /\ Inited(r) = Inited(m) \cup {p} /\ SameData(m, r)
<1> DEFINE q == Q[h]
           b == FirstNode(h, q, B)
           a == m.prev[b]
           r == list_add_tail(m, p, b)
           Q1 == [Q EXCEPT ![h] = Linked(@, p, B)]
<1>0. /\ Sound(m) /\ IsList(m, h, q) /\ DOMAIN Q = Heads
      /\ \A g \in Heads : p \notin O!Elems(Q[g])
  BY DEF Shape, Unlinked
<1>1. /\ b \in B \cup {h} /\ a \in O!Elems(q) \cup {h} /\ m.next[a] = b
      /\ B \subseteq O!Elems(q) /\ O!Elems(q) \subseteq Inited(m) \ Heads
  BY <1>0, BeforeRest DEF IsRest, IsList
<1>2. /\ b \in Inited(m) \ {p} /\ a \in Inited(m) \ {p} /\ Loose(m, p)
  BY <1>0, <1>1 DEF Shape, Loose, Sound
<1>3. Sound(r) /\ Inited(r) = Inited(m) \cup {p} /\ SameData(m, r)
  BY <1>0, <1>1, <1>2, LinkBetweenKeepsLists, LinksOnly DEF list_add_tail
<1>4. r.next = [[m.next EXCEPT ![p] = b] EXCEPT ![a] = p]
  <2>1. a \in Node /\ b \in Node /\ p \in Node
    BY <1>2 DEF Inited
  <2> QED
    <3>1. r = LinkBetween(m, p, a, b)
      BY DEF list_add_tail
    <3> HIDE DEF a, b, r, q, Q1
    <3>2. LinkBetween(m, p, a, b).next = [[m.next EXCEPT ![p] = b] EXCEPT ![a] = p]
      <4>1. Sound(m)
        BY <1>0
      <4> QED
        BY <2>1, <4>1 DEF LinkBetween, Sound, MemFields
    <3> QED
      BY <3>1, <3>2
<1>5. \A x \in Node : x # p /\ x # a => r.next[x] = m.next[x]
  BY <1>0, <1>4 DEF Sound
<1>6. IsList(r, h, Linked(q, p, B))
  <2> HIDE DEF q, r
  <2> QED
    BY <1>0, <1>3, <1>4, LinkedList DEF q
<1>7. O!Elems(Linked(q, p, B)) = O!Elems(q) \cup {p}
  BY <1>0, LinkedQueue DEF IsList
<1>8. Q1[h] = Linked(q, p, B) /\ DOMAIN Q1 = Heads /\ \A g \in Heads : g # h => Q1[g] = Q[g]
  BY <1>0
<1> HIDE DEF q, b, a, r, Q1
<1>9. ASSUME NEW g \in Heads, g # h
      PROVE  IF g \in Inited(r) THEN IsList(r, g, Q1[g]) ELSE Q1[g] = {}
  <2>1. (O!Elems(Q[g]) \cup {g}) \cap (O!Elems(q) \cup {h}) = {}
    BY <1>9, ListsApart DEF q
  <2>2. CASE g \in Inited(m)
    <3>1. IsList(m, g, Q[g])
      BY <2>2 DEF Shape
    <3>2. \A n \in O!Elems(Q[g]) \cup {g} : r.next[n] = m.next[n]
      BY <1>0, <1>1, <1>5, <2>1, ElemsNodes, HeadsAreNodes
    <3> QED
      BY <1>3, <1>8, <1>9, <2>2, <3>1, <3>2, ListStays
  <2>3. CASE g \notin Inited(m)
    BY <1>3, <1>8, <1>9, <2>3 DEF Shape
  <2> QED
    BY <2>2, <2>3
<1>10. \A g, k \in Heads : g # k => O!Elems(Q1[g]) \cap O!Elems(Q1[k]) = {}
  BY <1>0, <1>7, <1>8 DEF Shape, q
<1>11. ASSUME NEW n \in Inited(r) \ Heads, \A g \in Heads : n \notin O!Elems(Q1[g])
       PROVE  r.next[n] = n
  <2>1. n # p /\ n \notin O!Elems(q) \cup {h}
    BY <1>7, <1>8, <1>11
  <2>2. n \in Inited(m) /\ n # a /\ n \in Node
    BY <1>1, <1>3, <2>1 DEF Inited
  <2>3. \A g \in Heads : n \notin O!Elems(Q[g])
    BY <1>8, <1>11, <2>1 DEF q
  <2> QED
    BY <1>5, <2>1, <2>2, <2>3 DEF Shape
<1>12. Shape(r, Q1)
  BY <1>3, <1>6, <1>8, <1>9, <1>10, <1>11 DEF Shape
<1> QED
  BY <1>3, <1>12 DEF r, Q1, b, q

\* list_del of a member.
LEMMA DelShape ==
  ASSUME NEW m, NEW Q, Shape(m, Q), NEW h \in Heads, NEW e \in O!Elems(Q[h])
  PROVE  LET r == list_del(m, e) IN
         /\ Shape(r, [Q EXCEPT ![h] = O!Without(@, {e})])
         /\ Inited(r) = Inited(m) /\ SameData(m, r)
<1> DEFINE q == Q[h]
           a == m.prev[e]
           r == list_del(m, e)
           Q1 == [Q EXCEPT ![h] = O!Without(@, {e})]
<1>0. /\ Sound(m) /\ DOMAIN Q = Heads /\ h \in Inited(m) /\ IsList(m, h, q)
      /\ O!IsQueue(q) /\ O!Elems(q) \subseteq Inited(m) \ Heads
  BY ShapeQueues DEF Shape
<1>1. e \in Inited(m)
  BY <1>0
<1>2. Sound(r) /\ Inited(r) = Inited(m) /\ SameData(m, r)
  BY <1>0, <1>1, DelKeepsLists, LinksOnly
<1>3. r.next = [[m.next EXCEPT ![a] = m.next[e]] EXCEPT ![e] = e]
  BY <1>0, <1>1, DelLinks
<1>4. /\ r.next[e] = e
      /\ \A x \in Node : x # e /\ x # a => r.next[x] = m.next[x]
  BY <1>0, <1>1, <1>3 DEF Sound, Inited
<1>5. IsList(r, h, O!Without(q, {e}))
  <2> HIDE DEF q, r
  <2> QED
    BY <1>0, <1>2, <1>3, CutList DEF q
<1>6. O!Elems(O!Without(q, {e})) = O!Elems(q) \ {e}
  BY <1>0, O!WithoutQueue
<1>7. a \in O!Elems(q) \cup {h}
  <2> DEFINE B == {x \in O!Elems(q) : <<e, x>> \in q}
  <2>1. IsRest(q, B)
    BY <1>0, ElemsNodes DEF IsRest, O!IsQueue
  <2>2. B \subseteq O!Elems(q) /\ e \in B /\ \A y \in B : <<e, y>> \in q
    BY DEF O!Elems
  <2> HIDE DEF B, q
  <2>3. FirstNode(h, q, B) = e
    BY <1>0, <2>2, FirstIs
  <2> QED
    BY <1>0, <2>1, <2>3, BeforeRest
<1>8. Q1[h] = O!Without(q, {e}) /\ DOMAIN Q1 = Heads /\ \A g \in Heads : g # h => Q1[g] = Q[g]
  BY <1>0
<1> HIDE DEF q, a, r, Q1
<1>9. ASSUME NEW g \in Heads, g # h
      PROVE  IF g \in Inited(r) THEN IsList(r, g, Q1[g]) ELSE Q1[g] = {}
  <2>1. (O!Elems(Q[g]) \cup {g}) \cap (O!Elems(q) \cup {h}) = {}
    BY <1>9, ListsApart DEF q
  <2>2. CASE g \in Inited(m)
    <3>1. IsList(m, g, Q[g])
      BY <2>2 DEF Shape
    <3>2. \A n \in O!Elems(Q[g]) \cup {g} : r.next[n] = m.next[n]
      BY <1>4, <1>7, <2>1, ElemsNodes, HeadsAreNodes DEF q
    <3> QED
      BY <1>2, <1>8, <1>9, <2>2, <3>1, <3>2, ListStays
  <2>3. CASE g \notin Inited(m)
    BY <1>2, <1>8, <1>9, <2>3 DEF Shape
  <2> QED
    BY <2>2, <2>3
<1>10. \A g, k \in Heads : g # k => O!Elems(Q1[g]) \cap O!Elems(Q1[k]) = {}
  BY <1>6, <1>8 DEF Shape, q
<1>11. ASSUME NEW n \in Inited(r) \ Heads, \A g \in Heads : n \notin O!Elems(Q1[g])
       PROVE  r.next[n] = n
  <2>1. CASE n = e
    BY <1>4, <2>1
  <2>2. CASE n # e
    <3>1. n \notin O!Elems(q) \cup {h}
      BY <1>6, <1>8, <1>11, <2>2
    <3>2. n \in Inited(m) /\ n # a /\ n \in Node
      BY <1>2, <1>7, <3>1 DEF Inited
    <3>3. \A g \in Heads : n \notin O!Elems(Q[g])
      BY <1>8, <1>11, <3>1 DEF q
    <3> QED
      BY <1>4, <2>2, <3>2, <3>3 DEF Shape
  <2> QED
    BY <2>1, <2>2
<1>12. Shape(r, Q1)
  BY <1>2, <1>5, <1>8, <1>9, <1>10, <1>11, <1>0 DEF Shape
<1> QED
  BY <1>2, <1>12 DEF r, Q1

\* Whether a list is empty, and its first and last places.
LEMMA EmptyList ==
  ASSUME NEW m, NEW Q, Shape(m, Q), NEW h \in Heads, h \in Inited(m)
  PROVE  /\ list_empty(m, h) <=> O!Elems(Q[h]) = {}
         /\ m.next[h] = FirstNode(h, Q[h], O!Elems(Q[h]))
         /\ m.prev[h] \in O!Elems(Q[h]) \cup {h}
<1>1. /\ IsList(m, h, Q[h]) /\ O!IsQueue(Q[h])
      /\ O!Elems(Q[h]) \subseteq Inited(m) \ Heads /\ Sound(m)
  BY DEF Shape, IsList
<1>2. Behind(Q[h], h) = O!Elems(Q[h])
  BY <1>1 DEF Behind
<1>3. m.next[h] = FirstNode(h, Q[h], O!Elems(Q[h]))
  BY <1>1, <1>2 DEF IsList
<1>4. O!Elems(Q[h]) # {} => FirstNode(h, Q[h], O!Elems(Q[h])) \in O!Elems(Q[h])
  BY <1>1, FirstIn
<1>5. m.prev[h] \in O!Elems(Q[h]) \cup {h}
  <2>1. IsRest(Q[h], {}) /\ FirstNode(h, Q[h], {}) = h
    BY DEF IsRest, FirstNode
  <2> QED
    BY <1>1, <2>1, BeforeRest
<1> QED
  BY <1>1, <1>3, <1>4, <1>5 DEF list_empty, FirstNode

\* list_add links before the first member.
LEMMA AddFirst ==
  ASSUME NEW m, NEW Q, Shape(m, Q), NEW h \in Heads, h \in Inited(m), NEW p
  PROVE  /\ list_add(m, p, h) = list_add_tail(m, p, FirstNode(h, Q[h], O!Elems(Q[h])))
         /\ IsRest(Q[h], O!Elems(Q[h]))
<1>1. m.next[h] = FirstNode(h, Q[h], O!Elems(Q[h])) /\ Sound(m)
  BY EmptyList DEF Shape
<1>2. m.prev[m.next[h]] = h
  BY <1>1 DEF Sound
<1> QED
  BY <1>1, <1>2 DEF list_add, list_add_tail, IsRest

\* A search that starts at the head ends at the first member in S; it finds a
\* node when the node is a member.
LEMMA SearchEnds ==
  ASSUME NEW m, NEW Q, Shape(m, Q), NEW h \in Heads, h \in Inited(m), NEW S
  PROVE  list_for_each(m, h, S) = FirstNode(h, Q[h], O!Elems(Q[h]) \cap S)
<1>1. IsList(m, h, Q[h]) /\ Sound(m)
  BY DEF Shape
<1>2. IsRest(Q[h], O!Elems(Q[h]))
  BY DEF IsRest
<1> QED
  BY <1>1, <1>2, EmptyList, LoopEnds DEF list_for_each

\* The search for a node on a list finds it exactly when it is a member.
LEMMA OnListMember ==
  ASSUME NEW m, NEW Q, Shape(m, Q), NEW h \in Heads, NEW n \in Node \ Heads
  PROVE  OnList(m, n, h) <=> n \in O!Elems(Q[h])
<1>1. CASE h \in Inited(m)
  <2>1. list_for_each(m, h, {n}) = FirstNode(h, Q[h], O!Elems(Q[h]) \cap {n})
    BY <1>1, SearchEnds
  <2>2. CASE n \in O!Elems(Q[h])
    <3>1. O!Elems(Q[h]) \cap {n} = {n} /\ <<n, n>> \in Q[h] /\ O!IsQueue(Q[h])
      BY <2>2, ShapeQueues DEF O!Elems
    <3>2. FirstNode(h, Q[h], {n}) = n
      BY <2>2, <3>1, FirstIs
    <3> QED
      BY <2>1, <2>2, <3>1, <3>2 DEF OnList
  <2>3. CASE n \notin O!Elems(Q[h])
    <3>1. O!Elems(Q[h]) \cap {n} = {}
      BY <2>3
    <3> QED
      BY <2>1, <2>3, <3>1 DEF OnList, FirstNode
  <2> QED
    BY <2>2, <2>3
<1>2. CASE h \notin Inited(m)
  <2>1. m.next[h] = NoNode /\ O!Elems(Q[h]) = {}
    BY <1>2, HeadsAreNodes, O!EmptyIsQueue DEF Inited, Shape
  <2>2. PICK f : EndsAt(f, m, h, {n}) /\ \A start : LoopEnd(m, h, {n}, start) = f[start]
    <3>1. m.next \in [Node -> Node \cup {NoNode}]
      BY DEF Shape, Sound
    <3> QED
      BY <3>1, LoopEndDef
  <2>3. f[NoNode] = NoNode
    BY <2>2 DEF EndsAt
  <2> QED
    BY <2>1, <2>2, <2>3, NodesFinite DEF OnList, list_for_each
<1> QED
  BY <1>1, <1>2

\* From a member a search leads to those behind it.
LEMMA SearchFrom ==
  ASSUME NEW m, NEW Q, Shape(m, Q), NEW h \in Heads,
         NEW x \in O!Elems(Q[h]), NEW y \in O!Elems(Q[h])
  PROVE  LoopEnd(m, h, {y}, x) = y <=> <<x, y>> \in Q[h]
<1> DEFINE q == Q[h]
           B == {z \in O!Elems(q) : <<x, z>> \in q}
<1>1. IsList(m, h, q) /\ Sound(m) /\ O!IsQueue(q) /\ O!Elems(q) \cap Heads = {}
  BY ShapeQueues DEF Shape
<1>2. IsRest(q, B) /\ x \in B
  BY <1>1, ElemsNodes DEF IsRest, O!IsQueue, O!Elems
<1>3. FirstNode(h, q, B) = x
  BY <1>1, <1>2, FirstIs, \A z \in B : <<x, z>> \in q DEF IsRest
<1>4. LoopEnd(m, h, {y}, x) = FirstNode(h, q, B \cap {y})
  <2> HIDE DEF q, B
  <2> QED
    BY <1>1, <1>2, <1>3, LoopEnds
<1>5. CASE y \in B
  <2>1. B \cap {y} = {y} /\ <<y, y>> \in q
    BY <1>5 DEF O!Elems
  <2>2. FirstNode(h, q, {y}) = y
    BY <1>1, <2>1, FirstIs
  <2> QED
    BY <1>4, <1>5, <2>1, <2>2
<1>6. CASE y \notin B
  <2>1. FirstNode(h, q, B \cap {y}) = h
    BY <1>6 DEF FirstNode
  <2> QED
    BY <1>1, <1>4, <1>6, <2>1
<1> QED
  BY <1>5, <1>6

-----------------------------------------------------------------------------
(* Orders of PCBs *)

\* The lemmas on orders, for queues of PCBs.
P == INSTANCE ProcQueueProofs

\* Every node has one name.
LEMMA NodeNames ==
  /\ \A x, y \in PCB : /\ p_list(x) = p_list(y) => x = y
                       /\ p_sib(x) = p_sib(y) => x = y
                       /\ p_child(x) = p_child(y) => x = y
                       /\ p_list(x) # p_sib(y)
  /\ \A d, e \in Semd : /\ s_link(d) = s_link(e) => d = e
                        /\ procq(d) = procq(e) => d = e
  /\ \A x \in PCB, d \in Semd : p_list(x) # s_link(d) /\ p_sib(x) # s_link(d)
  /\ \A x \in PCB : /\ container_of(p_list(x)) = x /\ container_of(p_sib(x)) = x
                    /\ p_list(x) \in Node \ Heads /\ p_sib(x) \in Node \ Heads
                    /\ p_child(x) \in Heads
  /\ \A d \in Semd : /\ container_of(s_link(d)) = d
                     /\ s_link(d) \in Node \ Heads /\ procq(d) \in Heads
BY DEF p_list, p_sib, p_child, s_link, procq, container_of, Node, Heads,
       pcbFree_h, readyQueue, semdFree_h, semd_h

\* The heads have different names.
LEMMA HeadNames ==
  /\ {pcbFree_h, readyQueue, semdFree_h, semd_h} \subseteq Heads
  /\ pcbFree_h # readyQueue /\ pcbFree_h # semdFree_h /\ pcbFree_h # semd_h
  /\ readyQueue # semdFree_h /\ readyQueue # semd_h /\ semdFree_h # semd_h
  /\ \A d \in Semd : procq(d) \notin {pcbFree_h, readyQueue, semdFree_h, semd_h}
  /\ \A x \in PCB : p_child(x) \notin {pcbFree_h, readyQueue, semdFree_h, semd_h}
  /\ \A x \in PCB, d \in Semd : p_child(x) # procq(d)
BY DEF p_child, procq, Heads, pcbFree_h, readyQueue, semdFree_h, semd_h

\* The nodes that link PCBs, and the order of the PCBs an order of them is.
PLists == {p_list(x) : x \in PCB}

\* The PCBs in the order of their p_list nodes.
Queue(q) == {xy \in PCB \X PCB : <<p_list(xy[1]), p_list(xy[2])>> \in q}

\* Who stands before whom in the order of the PCBs, and who is in it.
LEMMA QueuePairs ==
  ASSUME NEW q
  PROVE  /\ \A x, y \in PCB : <<x, y>> \in Queue(q) <=> <<p_list(x), p_list(y)>> \in q
         /\ Queue(q) \in SUBSET (PCB \X PCB)
         /\ P!Elems(Queue(q)) = {x \in PCB : p_list(x) \in O!Elems(q)}
<1>1. \A x, y \in PCB : <<x, y>> \in Queue(q) <=> <<p_list(x), p_list(y)>> \in q
  BY DEF Queue
<1>2. Queue(q) \in SUBSET (PCB \X PCB)
  BY DEF Queue
<1>3. P!Elems(Queue(q)) = {x \in PCB : p_list(x) \in O!Elems(q)}
  BY <1>1, NodeNames DEF P!Elems, O!Elems
<1> QED
  BY <1>1, <1>2, <1>3

\* Two orders with the same pairs are one.
LEMMA SamePairs ==
  ASSUME NEW a \in SUBSET (PCB \X PCB), NEW b \in SUBSET (PCB \X PCB),
         \A x, y \in PCB : <<x, y>> \in a <=> <<x, y>> \in b
  PROVE  a = b
OBVIOUS

\* An order of nodes makes an order of PCBs.
LEMMA QueueIsQueue ==
  ASSUME NEW q, O!IsQueue(q)
  PROVE  P!IsQueue(Queue(q))
<1>1. \A x \in PCB : p_list(x) \in Node
  BY NodeNames
<1>2. \A x, y \in PCB : <<x, y>> \in Queue(q) => x \in P!Elems(Queue(q)) /\ y \in P!Elems(Queue(q))
  BY <1>1, QueuePairs DEF O!IsQueue
<1>3. ASSUME NEW x \in PCB, NEW y \in PCB, <<x, y>> \in Queue(q), <<y, x>> \in Queue(q)
      PROVE  x = y
  <2>1. <<p_list(x), p_list(y)>> \in q /\ <<p_list(y), p_list(x)>> \in q
    BY <1>3, QueuePairs
  <2>2. p_list(x) = p_list(y)
    BY <1>1, <2>1 DEF O!IsQueue
  <2> QED
    BY <2>2, NodeNames
<1>4. \A x, y, z \in PCB :
        <<x, y>> \in Queue(q) /\ <<y, z>> \in Queue(q) => <<x, z>> \in Queue(q)
  BY <1>1, QueuePairs DEF O!IsQueue
<1>5. ASSUME NEW S \in SUBSET P!Elems(Queue(q)), S # {}
      PROVE  \E h \in S : \A x \in S : <<h, x>> \in Queue(q)
  <2> DEFINE T == {p_list(x) : x \in S}
  <2>1. T \subseteq O!Elems(q) /\ T # {} /\ S \subseteq PCB
    BY <1>5, QueuePairs
  <2>2. PICK t \in T : \A y \in T : <<t, y>> \in q
    <3> HIDE DEF T
    <3> QED
      BY <2>1, O!FirstOfGroup
  <2>3. PICK h \in S : t = p_list(h)
    OBVIOUS
  <2>4. \A x \in S : <<h, x>> \in Queue(q)
    BY <2>1, <2>2, <2>3, QueuePairs
  <2> QED
    BY <2>4
<1> QED
  BY <1>2, <1>3, <1>4, <1>5, QueuePairs DEF P!IsQueue

\* Cutting out the node of p is cutting out p.
LEMMA QueueWithout ==
  ASSUME NEW q, NEW p \in PCB
  PROVE  Queue(O!Without(q, {p_list(p)})) = P!Without(Queue(q), {p})
<1>1. ASSUME NEW x \in PCB, NEW y \in PCB
      PROVE  <<x, y>> \in Queue(O!Without(q, {p_list(p)}))
               <=> <<x, y>> \in P!Without(Queue(q), {p})
  <2>1. <<p_list(x), p_list(y)>> \in O!Without(q, {p_list(p)})
          <=> <<p_list(x), p_list(y)>> \in q /\ x # p /\ y # p
    BY NodeNames DEF O!Without
  <2>2. <<x, y>> \in P!Without(Queue(q), {p}) <=> <<x, y>> \in Queue(q) /\ x # p /\ y # p
    BY DEF P!Without
  <2> QED
    BY <2>1, <2>2, QueuePairs
<1>2. P!Without(Queue(q), {p}) \in SUBSET (PCB \X PCB)
  BY DEF P!Without
<1>3. Queue(O!Without(q, {p_list(p)})) \in SUBSET (PCB \X PCB)
  BY QueuePairs
<1> DEFINE a == Queue(O!Without(q, {p_list(p)}))
           b == P!Without(Queue(q), {p})
<1>4. \A x, y \in PCB : <<x, y>> \in a <=> <<x, y>> \in b
  BY <1>1
<1>5. a \in SUBSET (PCB \X PCB) /\ b \in SUBSET (PCB \X PCB)
  BY <1>2, <1>3
<1> HIDE DEF a, b
<1>6. a = b
  BY <1>4, <1>5, SamePairs
<1> QED
  BY <1>6 DEF a, b

\* The insertion of a PCB, as an order of PCBs.
Inserted(q, p, B) ==
  q \cup {<<x, p>> : x \in (P!Elems(q) \ B) \cup {p}} \cup {<<p, y>> : y \in B}

\* Linking in the node of p is inserting p.
LEMMA QueueLinked ==
  ASSUME NEW q, NEW p \in PCB, NEW B, B \subseteq P!Elems(Queue(q)),
         O!Elems(q) \subseteq PLists, O!IsQueue(q)
  PROVE  Queue(Linked(q, p_list(p), {p_list(x) : x \in B})) = Inserted(Queue(q), p, B)
<1>0. P!Elems(Queue(q)) \subseteq PCB
  BY QueuePairs
<1>1. ASSUME NEW x \in PCB, NEW y \in PCB
      PROVE  <<x, y>> \in Queue(Linked(q, p_list(p), {p_list(z) : z \in B}))
               <=> <<x, y>> \in Inserted(Queue(q), p, B)
  <2>1. <<x, y>> \in Inserted(Queue(q), p, B) <=>
          \/ <<x, y>> \in Queue(q)
          \/ y = p /\ x \in (P!Elems(Queue(q)) \ B) \cup {p}
          \/ x = p /\ y \in B
    BY DEF Inserted
  <2>2. <<p_list(x), p_list(y)>> \in Linked(q, p_list(p), {p_list(z) : z \in B}) <=>
          \/ <<p_list(x), p_list(y)>> \in q
          \/ p_list(y) = p_list(p) /\ p_list(x) \in (O!Elems(q) \ {p_list(z) : z \in B}) \cup {p_list(p)}
          \/ p_list(x) = p_list(p) /\ p_list(y) \in {p_list(z) : z \in B}
    BY DEF Linked
  <2>3. /\ p_list(x) \in {p_list(z) : z \in B} <=> x \in B
        /\ p_list(y) \in {p_list(z) : z \in B} <=> y \in B
    BY <1>0, NodeNames
  <2>4. p_list(x) \in O!Elems(q) <=> x \in P!Elems(Queue(q))
    BY QueuePairs
  <2> QED
    BY <2>1, <2>2, <2>3, <2>4, QueuePairs, NodeNames
<1>2. Inserted(Queue(q), p, B) \in SUBSET (PCB \X PCB)
  BY <1>0, QueuePairs DEF Inserted
<1>3. Queue(Linked(q, p_list(p), {p_list(z) : z \in B})) \in SUBSET (PCB \X PCB)
  BY QueuePairs
<1> DEFINE a == Queue(Linked(q, p_list(p), {p_list(z) : z \in B}))
           b == Inserted(Queue(q), p, B)
<1>4. \A x, y \in PCB : <<x, y>> \in a <=> <<x, y>> \in b
  BY <1>1
<1>5. a \in SUBSET (PCB \X PCB) /\ b \in SUBSET (PCB \X PCB)
  BY <1>2, <1>3
<1> HIDE DEF a, b
<1>6. a = b
  BY <1>4, <1>5, SamePairs
<1> QED
  BY <1>6 DEF a, b

\* Groups of members, as nodes and as PCBs.
LEMMA QueueGroups ==
  ASSUME NEW q, O!IsQueue(q), O!Elems(q) \subseteq PLists,
         NEW B, B \subseteq P!Elems(Queue(q))
  PROVE  /\ {p_list(x) : x \in B} \subseteq O!Elems(q)
         /\ \A h : B = {} => FirstNode(h, q, {p_list(x) : x \in B}) = h
         /\ \A h : \A x \in B : (\A y \in B : <<x, y>> \in Queue(q))
              => FirstNode(h, q, {p_list(z) : z \in B}) = p_list(x)
         /\ (\A x, y \in P!Elems(Queue(q)) : x \in B /\ <<x, y>> \in Queue(q) => y \in B)
              => IsRest(q, {p_list(x) : x \in B})
<1> DEFINE T == {p_list(x) : x \in B}
<1>0. B \subseteq PCB /\ \A x \in P!Elems(Queue(q)) : x \in PCB /\ p_list(x) \in O!Elems(q)
  BY QueuePairs
<1>1. T \subseteq O!Elems(q)
  BY <1>0
<1>2. ASSUME NEW h, B = {} PROVE FirstNode(h, q, T) = h
  BY <1>2 DEF FirstNode
<1>3. ASSUME NEW h, NEW x \in B, \A y \in B : <<x, y>> \in Queue(q)
      PROVE  FirstNode(h, q, T) = p_list(x)
  <2>1. p_list(x) \in T /\ \A y \in T : <<p_list(x), y>> \in q
    BY <1>0, <1>3, QueuePairs
  <2> HIDE DEF T
  <2> QED
    BY <1>1, <2>1, FirstIs
<1>4. ASSUME \A x, y \in P!Elems(Queue(q)) : x \in B /\ <<x, y>> \in Queue(q) => y \in B
      PROVE  IsRest(q, T)
  <2> SUFFICES ASSUME NEW a \in O!Elems(q), NEW b \in O!Elems(q), a \in T, <<a, b>> \in q
               PROVE  b \in T
    BY <1>1 DEF IsRest
  <2>1. PICK x \in B : a = p_list(x)
    OBVIOUS
  <2>2. PICK y \in PCB : b = p_list(y)
    BY DEF PLists
  <2>3. y \in P!Elems(Queue(q)) /\ <<x, y>> \in Queue(q)
    BY <1>0, <2>1, <2>2, QueuePairs
  <2> QED
    BY <1>4, <2>1, <2>2, <2>3
<1> QED
  BY <1>1, <1>2, <1>3, <1>4

-----------------------------------------------------------------------------
(* The memory between two operations *)

\* What the links of a memory say, whoever reads them.
FreeIn(m) == {p \in PCB : OnList(m, p_list(p), pcbFree_h)}

\* The order of the PCBs on the list of a head, as a walk along it finds it.
OrderIn(m, head) ==
  LET members == {x \in PCB : OnList(m, p_list(x), head)}
  IN  {xy \in members \X members :
         LoopEnd(m, head, {p_list(xy[2])}, p_list(xy[1])) = p_list(xy[2])}

\* The ready queue.
ReadyIn(m) == OrderIn(m, readyQueue)

\* The queue of a semaphore: that of the descriptor getSemd finds for it.
QueueIn(m, s) ==
  IF getSemd(m, s) = Null THEN {} ELSE OrderIn(m, procq(getSemd(m, s)))

\* The types of the fields that are not links.
Typed(m) ==
  /\ m.p_parent \in [PCB -> PCB \cup {Null}]
  /\ m.p_semAdd \in [PCB -> Sem \cup {Null}]
  /\ m.p_prio \in [PCB -> Nat] /\ m.p_pid \in [PCB -> Nat]
  /\ m.s_key \in [Semd -> Sem \cup {Null}]
  /\ m.next_pid \in Nat /\ m.currProc \in PCB \cup {Null}
  /\ m.processCount \in Int /\ m.softBlockCount \in Int

\* The heads of the lists that link PCBs by p_list.
PHeads == {pcbFree_h, readyQueue} \cup {procq(d) : d \in Semd}

\* The descriptors of the ASL.
ActiveD(Q) == {d \in Semd : s_link(d) \in O!Elems(Q[semd_h])}

\* Each kind of list links nodes of its kind; every descriptor is free or active.
Kinds(Q) ==
  /\ \A h \in PHeads : O!Elems(Q[h]) \subseteq PLists
  /\ \A p \in PCB : O!Elems(Q[p_child(p)]) \subseteq {p_sib(x) : x \in PCB}
  /\ O!Elems(Q[semdFree_h]) \cup O!Elems(Q[semd_h]) = {s_link(d) : d \in Semd}

\* The active descriptors are ordered by key, and have somebody in their queue.
AslKept(m, Q) ==
  /\ \A d, e \in ActiveD(Q) :
       <<s_link(d), s_link(e)>> \in Q[semd_h] /\ d # e => m.s_key[d] < m.s_key[e]
  /\ \A d \in ActiveD(Q) : m.s_key[d] \in Sem /\ O!Elems(Q[procq(d)]) # {}
  /\ \A d \in Semd \ ActiveD(Q) : O!Elems(Q[procq(d)]) = {}
  /\ \A d \in Semd, p \in PCB :
       p_list(p) \in O!Elems(Q[procq(d)]) => m.p_semAdd[p] = m.s_key[d]

\* The children lists hold those whose p_parent it is.
TreeKept(m, Q) ==
  /\ \A p, x \in PCB : p_sib(x) \in O!Elems(Q[p_child(p)]) <=> m.p_parent[x] = p
  /\ \A p \in PCB : p_list(p) \notin O!Elems(Q[pcbFree_h]) => p_child(p) \in Inited(m)

\* The lists of m are those of Q, each kind of list holds what it should hold,
\* the ASL is ordered, the children lists agree with p_parent.
Rep(m, Q) ==
  /\ Shape(m, Q)
  /\ {pcbFree_h, readyQueue, semdFree_h, semd_h} \subseteq Inited(m)
  /\ Typed(m) /\ Kinds(Q) /\ AslKept(m, Q) /\ TreeKept(m, Q)

\* A memory whose lists are in order.
Good(m) == \E Q : Rep(m, Q)

\* p is on no list by its p_list.
Off(m, p) ==
  /\ p \in PCB /\ p \notin FreeIn(m) /\ p \notin P!Elems(ReadyIn(m))
  /\ \A s \in Sem : p \notin P!Elems(QueueIn(m, s))

-----------------------------------------------------------------------------
(* Reading the memory *)

\* The heads of lists of PCBs are heads.
LEMMA PHeadsAreHeads == PHeads \subseteq Heads
BY NodeNames, HeadNames DEF PHeads

\* Semaphores are addresses, none of them null.
LEMMA SemNat == Sem \subseteq Nat /\ Null = 0 /\ Null \notin Sem
BY AddressAssumption

\* What the operators find are the orders.
LEMMA OrderFound ==
  ASSUME NEW m, NEW Q, Shape(m, Q), NEW h \in Heads
  PROVE  OrderIn(m, h) = Queue(Q[h])
<1> DEFINE members == {x \in PCB : OnList(m, p_list(x), h)}
<1>1. \A x \in PCB : OnList(m, p_list(x), h) <=> p_list(x) \in O!Elems(Q[h])
  BY OnListMember, NodeNames
<1>2. ASSUME NEW x \in PCB, NEW y \in PCB
      PROVE  <<x, y>> \in OrderIn(m, h) <=> <<x, y>> \in Queue(Q[h])
  <2>1. <<x, y>> \in OrderIn(m, h) <=>
          /\ p_list(x) \in O!Elems(Q[h]) /\ p_list(y) \in O!Elems(Q[h])
          /\ LoopEnd(m, h, {p_list(y)}, p_list(x)) = p_list(y)
    BY <1>1 DEF OrderIn
  <2>2. <<x, y>> \in Queue(Q[h]) <=> <<p_list(x), p_list(y)>> \in Q[h]
    BY QueuePairs
  <2>3. <<p_list(x), p_list(y)>> \in Q[h] =>
          p_list(x) \in O!Elems(Q[h]) /\ p_list(y) \in O!Elems(Q[h])
    <3>1. O!IsQueue(Q[h]) /\ p_list(x) \in Node /\ p_list(y) \in Node
      BY ShapeQueues, NodeNames
    <3> QED
      BY <3>1 DEF O!IsQueue
  <2> QED
    BY <2>1, <2>2, <2>3, SearchFrom
<1> DEFINE a == OrderIn(m, h)
           b == Queue(Q[h])
<1>3. a \in SUBSET (PCB \X PCB) /\ b \in SUBSET (PCB \X PCB)
  BY QueuePairs DEF OrderIn
<1>4. \A x, y \in PCB : <<x, y>> \in a <=> <<x, y>> \in b
  BY <1>2
<1> HIDE DEF a, b
<1>5. a = b
  BY <1>3, <1>4, SamePairs
<1> QED
  BY <1>5 DEF a, b

\* The free PCBs are those whose node is on the free list.
LEMMA FreeFound ==
  ASSUME NEW m, NEW Q, Shape(m, Q)
  PROVE  FreeIn(m) = {p \in PCB : p_list(p) \in O!Elems(Q[pcbFree_h])}
BY OnListMember, NodeNames, HeadNames DEF FreeIn

\* The ready queue is the list of readyQueue.
LEMMA ReadyFound ==
  ASSUME NEW m, NEW Q, Shape(m, Q)
  PROVE  /\ ReadyIn(m) = Queue(Q[readyQueue])
         /\ P!Elems(ReadyIn(m)) = {p \in PCB : p_list(p) \in O!Elems(Q[readyQueue])}
BY OrderFound, QueuePairs, HeadNames DEF ReadyIn

\* The ASL is searched for a key, also for 0.
LEMMA SemdFound ==
  ASSUME NEW m, NEW Q, Rep(m, Q), NEW key \in Sem \cup {Null}
  PROVE  /\ \A d \in ActiveD(Q) : m.s_key[d] = key => getSemd(m, key) = d
         /\ (\A d \in ActiveD(Q) : m.s_key[d] # key) => getSemd(m, key) = Null
         /\ getSemd(m, key) # Null =>
              getSemd(m, key) \in ActiveD(Q) /\ m.s_key[getSemd(m, key)] = key
<1> DEFINE q == Q[semd_h]
           S == {s_link(x) : x \in {d \in Semd : m.s_key[d] >= key}}
           stop == list_for_each(m, semd_h, S)
           A == ActiveD(Q)
<1>0. /\ O!IsQueue(q) /\ O!Elems(q) \subseteq {s_link(d) : d \in Semd}
      /\ semd_h \in Inited(m) /\ semd_h \in Heads /\ Shape(m, Q)
  BY ShapeQueues, HeadNames DEF Rep, Kinds
<1>1. stop = FirstNode(semd_h, q, O!Elems(q) \cap S)
  BY <1>0, SearchEnds
<1>2. /\ A \subseteq Semd /\ Null \notin Semd
      /\ \A d \in Semd : m.s_key[d] \in Nat
      /\ key \in Nat
      /\ \A d \in Semd : s_link(d) \in S <=> m.s_key[d] >= key
      /\ \A d \in Semd : d \in A <=> s_link(d) \in O!Elems(q)
  BY NodeNames, SemNat, TableAssumption DEF ActiveD, Rep, Typed
<1>3. getSemd(m, key) = IF stop = semd_h \/ m.s_key[container_of(stop)] # key
                        THEN Null ELSE container_of(stop)
  BY DEF getSemd
<1>k. \A d, e \in A : <<s_link(d), s_link(e)>> \in q /\ d # e => m.s_key[d] < m.s_key[e]
  BY DEF Rep, AslKept
<1> HIDE DEF q, S, stop, A
<1>4. CASE O!Elems(q) \cap S = {}
  <2>1. stop = semd_h
    BY <1>1, <1>4 DEF FirstNode
  <2>2. \A d \in A : m.s_key[d] # key
    BY <1>2, <1>4
  <2> QED
    BY <1>3, <2>1, <2>2 DEF A
<1>5. CASE O!Elems(q) \cap S # {}
  <2> DEFINE T == O!Elems(q) \cap S
  <2>1. stop \in T /\ \A y \in T : <<stop, y>> \in q
    <3>1. T \subseteq O!Elems(q) /\ T # {}
      BY <1>5
    <3> HIDE DEF T
    <3> QED
      BY <1>0, <1>1, <3>1, FirstIn DEF T
  <2>2. PICK d \in Semd : stop = s_link(d)
    BY <1>0, <2>1
  <2>3. d \in A /\ m.s_key[d] >= key /\ container_of(stop) = d /\ stop # semd_h
    BY <1>0, <1>2, <2>1, <2>2, NodeNames
  <2>4. ASSUME NEW e \in A, m.s_key[e] = key PROVE d = e
    <3>1. s_link(e) \in T
      BY <1>2, <2>4
    <3>2. <<s_link(d), s_link(e)>> \in q
      BY <2>1, <2>2, <3>1
    <3>3. ~(m.s_key[d] < m.s_key[e])
      BY <1>2, <2>3, <2>4
    <3> QED
      BY <1>k, <2>3, <3>2, <3>3
  <2>5. getSemd(m, key) = IF m.s_key[d] # key THEN Null ELSE d
    BY <1>3, <2>3
  <2> QED
    BY <1>2, <2>3, <2>4, <2>5 DEF A
<1> QED
  BY <1>4, <1>5

\* The queue of a semaphore is the one of its descriptor.
LEMMA QueueFound ==
  ASSUME NEW m, NEW Q, Rep(m, Q), NEW s \in Sem
  PROVE  /\ \A d \in ActiveD(Q) : m.s_key[d] = s => QueueIn(m, s) = Queue(Q[procq(d)])
         /\ (\A d \in ActiveD(Q) : m.s_key[d] # s) => QueueIn(m, s) = {}
         /\ P!IsQueue(QueueIn(m, s))
         /\ P!Elems(QueueIn(m, s)) =
              {p \in PCB : \E d \in Semd : m.s_key[d] = s /\ p_list(p) \in O!Elems(Q[procq(d)])}
<1>0. /\ Null \notin Semd /\ ActiveD(Q) \subseteq Semd /\ Shape(m, Q)
      /\ \A d \in Semd : procq(d) \in Heads
  BY TableAssumption, NodeNames DEF ActiveD, Rep
<1>1. ASSUME NEW d \in ActiveD(Q), m.s_key[d] = s
      PROVE  /\ QueueIn(m, s) = Queue(Q[procq(d)])
             /\ \A e \in ActiveD(Q) : m.s_key[e] = s => e = d
  <2>1. \A e \in ActiveD(Q) : m.s_key[e] = s => getSemd(m, s) = e
    BY SemdFound
  <2>2. getSemd(m, s) = d
    BY <1>1, <2>1
  <2>3. OrderIn(m, procq(d)) = Queue(Q[procq(d)])
    BY <1>0, OrderFound
  <2> QED
    BY <1>0, <2>1, <2>2, <2>3 DEF QueueIn
<1>2. ASSUME \A d \in ActiveD(Q) : m.s_key[d] # s PROVE QueueIn(m, s) = {}
  BY <1>2, SemdFound DEF QueueIn
<1>3. \A d \in Semd : d \notin ActiveD(Q) => O!Elems(Q[procq(d)]) = {}
  BY DEF Rep, AslKept
<1>4. CASE \E d \in ActiveD(Q) : m.s_key[d] = s
  <2>1. PICK d \in ActiveD(Q) : m.s_key[d] = s
    BY <1>4
  <2>2. O!IsQueue(Q[procq(d)])
    BY <1>0, ShapeQueues
  <2>3. P!IsQueue(QueueIn(m, s))
    BY <1>1, <2>1, <2>2, QueueIsQueue
  <2>4. P!Elems(QueueIn(m, s)) = {p \in PCB : p_list(p) \in O!Elems(Q[procq(d)])}
    BY <1>1, <2>1, QueuePairs
  <2>5. \A p \in PCB : p_list(p) \in O!Elems(Q[procq(d)]) <=>
          \E e \in Semd : m.s_key[e] = s /\ p_list(p) \in O!Elems(Q[procq(e)])
    BY <1>0, <1>1, <1>3, <2>1
  <2> QED
    BY <1>1, <1>2, <2>3, <2>4, <2>5
<1>5. CASE \A d \in ActiveD(Q) : m.s_key[d] # s
  <2>1. QueueIn(m, s) = {} /\ P!IsQueue({}) /\ P!Elems({}) = {}
    BY <1>2, <1>5, P!EmptyIsQueue
  <2>2. \A p \in PCB : ~\E d \in Semd : m.s_key[d] = s /\ p_list(p) \in O!Elems(Q[procq(d)])
    BY <1>3, <1>5
  <2> QED
    BY <1>1, <2>1, <2>2
<1> QED
  BY <1>4, <1>5

\* A PCB is on no list exactly when its node is not.
LEMMA OffNodes ==
  ASSUME NEW m, NEW Q, Rep(m, Q), NEW p \in PCB
  PROVE  Off(m, p) <=> Unlinked(Q, p_list(p))
<1>0. Shape(m, Q) /\ Kinds(Q)
  BY DEF Rep
<1>1. \A h \in Heads : p_list(p) \in O!Elems(Q[h]) => h \in PHeads
  <2> SUFFICES ASSUME NEW h \in Heads \ PHeads PROVE p_list(p) \notin O!Elems(Q[h])
    OBVIOUS
  <2>1. h \in {semdFree_h, semd_h} \/ \E x \in PCB : h = p_child(x)
    BY DEF Heads, PHeads
  <2> QED
    BY <1>0, <2>1, NodeNames DEF Kinds
<1>2. \A d \in Semd : p_list(p) \in O!Elems(Q[procq(d)]) => m.s_key[d] \in Sem
  BY DEF Rep, AslKept
<1>3. (\A s \in Sem : p \notin P!Elems(QueueIn(m, s)))
        <=> \A d \in Semd : p_list(p) \notin O!Elems(Q[procq(d)])
  BY <1>2, QueueFound
<1> QED
  BY <1>0, <1>1, <1>3, FreeFound, ReadyFound, PHeadsAreHeads DEF Off, PHeads, Unlinked

\* What is known of the lists of a good memory.
LEMMA GoodLists ==
  ASSUME NEW m, Good(m)
  PROVE  /\ Typed(m) /\ DOMAIN m = MemFields
         /\ FreeIn(m) \subseteq PCB
         /\ P!IsQueue(ReadyIn(m)) /\ P!Elems(ReadyIn(m)) \subseteq PCB
         /\ FreeIn(m) \cap P!Elems(ReadyIn(m)) = {}
         /\ \A s \in Sem : /\ P!IsQueue(QueueIn(m, s)) /\ P!Elems(QueueIn(m, s)) \subseteq PCB
                           /\ \A p \in P!Elems(QueueIn(m, s)) :
                                /\ m.p_semAdd[p] = s
                                /\ p \notin FreeIn(m) /\ p \notin P!Elems(ReadyIn(m))
<1>1. PICK Q : Rep(m, Q)
  BY DEF Good
<1>2. Shape(m, Q) /\ Typed(m) /\ DOMAIN m = MemFields
  BY <1>1 DEF Rep, Shape, Sound
<1>3. P!IsQueue(ReadyIn(m))
  BY <1>2, ReadyFound, ShapeQueues, HeadNames, QueueIsQueue
<1>4. ASSUME NEW h \in PHeads, NEW g \in PHeads, h # g, NEW p \in PCB,
             p_list(p) \in O!Elems(Q[h]), p_list(p) \in O!Elems(Q[g])
      PROVE  FALSE
  BY <1>2, <1>4, PHeadsAreHeads DEF Shape
<1>5. {pcbFree_h, readyQueue} \subseteq PHeads /\ \A d \in Semd : procq(d) \in PHeads
  BY DEF PHeads
<1>6. ASSUME NEW s \in Sem, NEW p \in P!Elems(QueueIn(m, s))
      PROVE  /\ p \in PCB /\ m.p_semAdd[p] = s
             /\ p \notin FreeIn(m) /\ p \notin P!Elems(ReadyIn(m))
  <2>1. PICK d \in Semd : p \in PCB /\ m.s_key[d] = s /\ p_list(p) \in O!Elems(Q[procq(d)])
    BY <1>1, QueueFound
  <2>2. m.p_semAdd[p] = s
    BY <1>1, <2>1 DEF Rep, AslKept
  <2> QED
    BY <1>2, <1>4, <1>5, <2>1, <2>2, HeadNames, FreeFound, ReadyFound
<1>7. FreeIn(m) \cap P!Elems(ReadyIn(m)) = {}
  BY <1>2, <1>4, <1>5, HeadNames, FreeFound, ReadyFound
<1>8. FreeIn(m) \subseteq PCB /\ P!Elems(ReadyIn(m)) \subseteq PCB
  BY DEF FreeIn, P!Elems
<1> QED
  BY <1>1, <1>2, <1>3, <1>6, <1>7, <1>8, QueueFound

\* The lists of two memories are the same.
SameLists(m, r) ==
  /\ FreeIn(r) = FreeIn(m) /\ ReadyIn(r) = ReadyIn(m)
  /\ \A s \in Sem : QueueIn(r, s) = QueueIn(m, s)

\* Data are written that say nothing of the lists.
LEMMA DataStays ==
  ASSUME NEW m, Good(m), NEW r, DOMAIN r = MemFields, Typed(r),
         r.next = m.next, r.prev = m.prev, r.s_key = m.s_key, r.p_parent = m.p_parent,
         \A p \in PCB : r.p_semAdd[p] = m.p_semAdd[p] \/ Off(m, p)
  PROVE  Good(r) /\ SameLists(m, r)
<1>1. PICK Q : Rep(m, Q)
  BY DEF Good
<1>2. Inited(r) = Inited(m) /\ Sound(r)
  BY <1>1 DEF Inited, Rep, Shape, Sound
<1>3. Shape(r, Q)
  <2>1. \A h \in Heads : \A q : IsList(m, h, q) => IsList(r, h, q)
    BY <1>2 DEF IsList
  <2> QED
    BY <1>1, <1>2, <2>1 DEF Rep, Shape
<1>4. \A d \in Semd, p \in PCB :
        p_list(p) \in O!Elems(Q[procq(d)]) => r.p_semAdd[p] = r.s_key[d]
  BY <1>1, OffNodes, NodeNames DEF Rep, AslKept, Unlinked
<1>5. AslKept(r, Q) /\ TreeKept(r, Q)
  BY <1>1, <1>2, <1>4 DEF Rep, AslKept, TreeKept
<1>6. Rep(r, Q)
  BY <1>1, <1>2, <1>3, <1>5 DEF Rep
<1>7. FreeIn(r) = FreeIn(m) /\ \A h : OrderIn(r, h) = OrderIn(m, h)
  BY DEF FreeIn, OrderIn, OnList, list_for_each, LoopEnd
<1>8. \A s \in Sem : getSemd(r, s) = getSemd(m, s)
  BY DEF getSemd, list_for_each, LoopEnd
<1> QED
  BY <1>6, <1>7, <1>8 DEF Good, SameLists, ReadyIn, QueueIn

\* Only the free list and the ready queue differ.
OthersStay(Q, Q1) == \A h \in Heads \ {pcbFree_h, readyQueue} : Q1[h] = Q[h]

\* The children list of every process is initialised.
ChildrenReady(r, Q) ==
  \A p \in PCB : p_list(p) \notin O!Elems(Q[pcbFree_h]) => p_child(p) \in Inited(r)

\* Links of the free list or the ready queue are changed, and no others.
LEMMA ListsStep ==
  ASSUME NEW m, NEW Q, Rep(m, Q), NEW r, NEW Q1, Shape(r, Q1), SameData(m, r),
         Inited(m) \subseteq Inited(r),
         OthersStay(Q, Q1), ChildrenReady(r, Q1),
         O!Elems(Q1[pcbFree_h]) \subseteq PLists, O!Elems(Q1[readyQueue]) \subseteq PLists
  PROVE  /\ Rep(r, Q1) /\ Good(r)
         /\ FreeIn(r) = {p \in PCB : p_list(p) \in O!Elems(Q1[pcbFree_h])}
         /\ ReadyIn(r) = Queue(Q1[readyQueue])
         /\ \A s \in Sem : QueueIn(r, s) = QueueIn(m, s)
<1>1. /\ Q1[semd_h] = Q[semd_h] /\ Q1[semdFree_h] = Q[semdFree_h]
      /\ \A d \in Semd : Q1[procq(d)] = Q[procq(d)]
      /\ \A p \in PCB : Q1[p_child(p)] = Q[p_child(p)]
  BY HeadNames, NodeNames DEF OthersStay
<1>2. Typed(r)
  BY DEF Rep, Typed, SameData
<1>3. Kinds(Q1)
  BY <1>1 DEF Rep, Kinds, PHeads
<1>4. ActiveD(Q1) = ActiveD(Q)
  BY <1>1 DEF ActiveD
<1>5. AslKept(r, Q1)
  BY <1>1, <1>4 DEF Rep, AslKept, SameData, ActiveD
<1>6. TreeKept(r, Q1)
  BY <1>1 DEF Rep, TreeKept, SameData, ChildrenReady
<1>7. Rep(r, Q1)
  BY <1>2, <1>3, <1>5, <1>6 DEF Rep
<1>8. ASSUME NEW s \in Sem PROVE QueueIn(r, s) = QueueIn(m, s)
  <2>1. CASE \E d \in ActiveD(Q) : m.s_key[d] = s
    <3>1. PICK d \in ActiveD(Q) : m.s_key[d] = s
      BY <2>1
    <3>2. QueueIn(m, s) = Queue(Q[procq(d)])
      BY <3>1, QueueFound
    <3>3. d \in ActiveD(Q1) /\ r.s_key[d] = s /\ Q1[procq(d)] = Q[procq(d)]
      BY <1>1, <1>4, <3>1 DEF SameData, ActiveD
    <3> QED
      BY <1>7, <3>2, <3>3, QueueFound
  <2>2. CASE \A d \in ActiveD(Q) : m.s_key[d] # s
    <3>1. QueueIn(m, s) = {}
      BY <2>2, QueueFound
    <3>2. \A d \in ActiveD(Q1) : r.s_key[d] # s
      BY <1>4, <2>2 DEF SameData
    <3> QED
      BY <1>7, <3>1, <3>2, QueueFound
  <2> QED
    BY <2>1, <2>2
<1> QED
  BY <1>7, <1>8, FreeFound, ReadyFound DEF Good

-----------------------------------------------------------------------------
(* The free list and the ready queue *)

\* The first PCB of a list.
LEMMA FirstPcb ==
  ASSUME NEW m, NEW Q, Shape(m, Q), NEW h \in Heads, h \in Inited(m),
         O!Elems(Q[h]) \subseteq PLists
  PROVE  /\ list_empty(m, h) <=> P!Elems(Queue(Q[h])) = {}
         /\ P!Elems(Queue(Q[h])) # {} =>
              /\ m.next[h] = p_list(P!headProcQ(Queue(Q[h])))
              /\ container_of(m.next[h]) = P!headProcQ(Queue(Q[h]))
              /\ P!headProcQ(Queue(Q[h])) \in P!Elems(Queue(Q[h]))
              /\ P!headProcQ(Queue(Q[h])) \in PCB
              /\ p_list(P!headProcQ(Queue(Q[h]))) \in O!Elems(Q[h])
<1> DEFINE q == Queue(Q[h])
<1>1. /\ list_empty(m, h) <=> O!Elems(Q[h]) = {}
      /\ m.next[h] = FirstNode(h, Q[h], O!Elems(Q[h]))
  BY EmptyList
<1>2. P!Elems(q) = {x \in PCB : p_list(x) \in O!Elems(Q[h])} /\ O!IsQueue(Q[h]) /\ P!IsQueue(q)
  BY QueuePairs, ShapeQueues, QueueIsQueue
<1>3. O!Elems(Q[h]) = {p_list(x) : x \in P!Elems(q)}
  BY <1>2 DEF PLists
<1>4. ASSUME P!Elems(q) # {}
      PROVE  /\ m.next[h] = p_list(P!headProcQ(q)) /\ P!headProcQ(q) \in P!Elems(q)
  <2>1. P!headProcQ(q) \in P!Elems(q) /\ \A x \in P!Elems(q) : <<P!headProcQ(q), x>> \in q
    BY <1>2, <1>4, P!HeadFirst
  <2> DEFINE B == P!Elems(q)
  <2>2. FirstNode(h, Q[h], {p_list(x) : x \in B}) = p_list(P!headProcQ(q))
    <3> HIDE DEF B
    <3> QED
      BY <1>2, <2>1, QueueGroups DEF B
  <2> QED
    BY <1>1, <1>3, <2>1, <2>2
<1> QED
  BY <1>1, <1>2, <1>3, <1>4, NodeNames

\* emptyProcQ and headProcQ on the ready queue.
LEMMA ReadyHead ==
  ASSUME NEW m, Good(m)
  PROVE  /\ emptyProcQ(m, readyQueue) <=> P!Elems(ReadyIn(m)) = {}
         /\ P!Elems(ReadyIn(m)) # {} => headProcQ(m, readyQueue) = P!headProcQ(ReadyIn(m))
<1>1. PICK Q : Rep(m, Q)
  BY DEF Good
<1>2. /\ Shape(m, Q) /\ readyQueue \in Inited(m) /\ readyQueue \in Heads
      /\ O!Elems(Q[readyQueue]) \subseteq PLists
  BY <1>1, HeadNames DEF Rep, Kinds, PHeads
<1> QED
  BY <1>2, ReadyFound, FirstPcb DEF emptyProcQ, headProcQ

\* A ready process leaves the queue.
LEMMA ReadyCut ==
  ASSUME NEW m, Good(m), NEW p \in P!Elems(ReadyIn(m))
  PROVE  LET r == list_del(m, p_list(p)) IN
         /\ Good(r) /\ SameData(m, r)
         /\ FreeIn(r) = FreeIn(m) /\ \A s \in Sem : QueueIn(r, s) = QueueIn(m, s)
         /\ ReadyIn(r) = P!Without(ReadyIn(m), {p})
<1> DEFINE r == list_del(m, p_list(p))
<1>1. PICK Q : Rep(m, Q)
  BY DEF Good
<1> DEFINE Q1 == [Q EXCEPT ![readyQueue] = O!Without(@, {p_list(p)})]
<1>2. /\ Shape(m, Q) /\ readyQueue \in Heads /\ pcbFree_h \in Heads /\ readyQueue # pcbFree_h
      /\ p \in PCB /\ p_list(p) \in O!Elems(Q[readyQueue]) /\ DOMAIN Q = Heads
      /\ O!Elems(Q[readyQueue]) \subseteq PLists /\ O!Elems(Q[pcbFree_h]) \subseteq PLists
      /\ O!IsQueue(Q[readyQueue])
  BY <1>1, HeadNames, ReadyFound, ShapeQueues DEF Rep, Kinds, PHeads, Shape
<1>3. Shape(r, Q1) /\ Inited(r) = Inited(m) /\ SameData(m, r)
  BY <1>2, DelShape
<1>4. /\ OthersStay(Q, Q1)
      /\ Q1[pcbFree_h] = Q[pcbFree_h]
      /\ Q1[readyQueue] = O!Without(Q[readyQueue], {p_list(p)})
  BY <1>2 DEF OthersStay
<1> HIDE DEF r, Q1
<1>5. /\ O!Elems(Q1[readyQueue]) \subseteq PLists /\ O!Elems(Q1[pcbFree_h]) \subseteq PLists
      /\ Inited(m) \subseteq Inited(r)
  BY <1>2, <1>3, <1>4, O!WithoutQueue
<1>6. ChildrenReady(r, Q1)
  BY <1>1, <1>3, <1>4 DEF Rep, TreeKept, ChildrenReady
<1>7. /\ Good(r)
      /\ FreeIn(r) = {x \in PCB : p_list(x) \in O!Elems(Q1[pcbFree_h])}
      /\ ReadyIn(r) = Queue(Q1[readyQueue])
      /\ \A s \in Sem : QueueIn(r, s) = QueueIn(m, s)
  BY <1>1, <1>3, <1>4, <1>5, <1>6, ListsStep
<1> QED
  BY <1>2, <1>3, <1>4, <1>7, QueueWithout, ReadyFound, FreeFound DEF r

\* outProcQ and removeProcQ on the ready queue.
LEMMA ReadyLeaves ==
  ASSUME NEW m, Good(m), NEW p \in PCB
  PROVE  /\ inProcQ(m, readyQueue, p) <=> p \in P!Elems(ReadyIn(m))
         /\ inProcQ(m, readyQueue, p) =>
              outProcQ(m, readyQueue, p) = list_del(m, p_list(p))
         /\ P!Elems(ReadyIn(m)) # {} =>
              /\ P!headProcQ(ReadyIn(m)) \in P!Elems(ReadyIn(m))
              /\ removeProcQ(m, readyQueue) = list_del(m, p_list(P!headProcQ(ReadyIn(m))))
<1>1. PICK Q : Rep(m, Q)
  BY DEF Good
<1>2. /\ Shape(m, Q) /\ readyQueue \in Inited(m) /\ readyQueue \in Heads
      /\ O!Elems(Q[readyQueue]) \subseteq PLists
  BY <1>1, HeadNames DEF Rep, Kinds, PHeads
<1>3. inProcQ(m, readyQueue, p) <=> p \in P!Elems(ReadyIn(m))
  BY <1>2, ReadyFound, OnListMember, NodeNames DEF inProcQ
<1> QED
  BY <1>2, <1>3, ReadyFound, FirstPcb DEF outProcQ, removeProcQ

\* insertProcQ on the ready queue.
LEMMA ReadyPut ==
  ASSUME NEW m, Good(m), NEW p, Off(m, p)
  PROVE  LET r == insertProcQ(m, readyQueue, p) IN
         /\ Good(r) /\ SameData(m, r)
         /\ FreeIn(r) = FreeIn(m) /\ \A s \in Sem : QueueIn(r, s) = QueueIn(m, s)
         /\ ReadyIn(r) = P!insertProcQ(ReadyIn(m), p, m.p_prio)
<1> DEFINE r == insertProcQ(m, readyQueue, p)
<1>1. PICK Q : Rep(m, Q)
  BY DEF Good
<1> DEFINE q == Q[readyQueue]
           B == P!Overtaken(Queue(q), p, m.p_prio)
           T == {p_list(x) : x \in B}
           lower == {p_list(x) : x \in {y \in PCB : m.p_prio[p] > m.p_prio[y]}}
           L == {x \in P!Elems(Queue(q)) : m.p_prio[p] > m.p_prio[x]}
           U == {p_list(x) : x \in L}
           Q1 == [Q EXCEPT ![readyQueue] = Linked(@, p_list(p), T)]
<1>2. /\ Shape(m, Q) /\ readyQueue \in Heads /\ pcbFree_h \in Heads /\ readyQueue # pcbFree_h
      /\ readyQueue \in Inited(m)
      /\ p \in PCB /\ DOMAIN Q = Heads
      /\ O!Elems(q) \subseteq PLists /\ O!Elems(Q[pcbFree_h]) \subseteq PLists
      /\ O!IsQueue(q) /\ P!IsQueue(Queue(q))
      /\ ReadyIn(m) = Queue(q)
      /\ P!Elems(Queue(q)) = {x \in PCB : p_list(x) \in O!Elems(q)}
  BY <1>1, HeadNames, ReadyFound, ShapeQueues, QueueIsQueue, QueuePairs
     DEF Rep, Kinds, PHeads, Shape, Off
<1>3. Unlinked(Q, p_list(p))
  BY <1>1, <1>2, OffNodes
<1>4. B \subseteq P!Elems(Queue(q)) /\ L \subseteq P!Elems(Queue(q)) /\ L \subseteq B
  BY <1>2 DEF P!Overtaken, P!Elems, P!IsQueue
<1>5. ASSUME NEW x \in P!Elems(Queue(q)), NEW y \in P!Elems(Queue(q)),
             x \in B, <<x, y>> \in Queue(q)
      PROVE  y \in B
  <2>1. PICK z \in P!Elems(Queue(q)) : m.p_prio[p] > m.p_prio[z] /\ <<z, x>> \in Queue(q)
    BY <1>5 DEF P!Overtaken
  <2>2. x \in PCB /\ y \in PCB /\ z \in PCB
    BY <1>2
  <2>3. <<z, y>> \in Queue(q)
    BY <1>2, <1>5, <2>1, <2>2 DEF P!IsQueue
  <2> QED
    BY <2>1, <2>3 DEF P!Overtaken
<1> HIDE DEF q, B
<1>6. O!Elems(q) \cap lower = {p_list(x) : x \in L}
  <2>1. ASSUME NEW n \in O!Elems(q) \cap lower PROVE n \in {p_list(x) : x \in L}
    BY <1>2
  <2>2. ASSUME NEW n \in {p_list(x) : x \in L} PROVE n \in O!Elems(q) \cap lower
    BY <1>2
  <2> QED
    BY <2>1, <2>2
<1>7. IsRest(q, T) /\ FirstNode(readyQueue, q, T) = FirstNode(readyQueue, q, U)
  <2> HIDE DEF L
  <2>1. IsRest(q, T)
    BY <1>2, <1>4, <1>5, QueueGroups
  <2>2. CASE B = {}
    BY <1>4, <2>1, <2>2
  <2>3. CASE B # {}
    <3>1. L # {}
      BY <2>3 DEF B, L, P!Overtaken
    <3>2. PICK x \in L : \A y \in L : <<x, y>> \in Queue(q)
      BY <1>2, <1>4, <3>1, P!FirstOfGroup
    <3>3. \A y \in B : <<x, y>> \in Queue(q)
      <4> SUFFICES ASSUME NEW y \in B PROVE <<x, y>> \in Queue(q)
        OBVIOUS
      <4>1. PICK z \in L : <<z, y>> \in Queue(q)
        BY DEF B, L, P!Overtaken
      <4>2. x \in PCB /\ y \in PCB /\ z \in PCB /\ <<x, z>> \in Queue(q)
        BY <1>2, <1>4, <3>2
      <4> QED
        BY <1>2, <4>1, <4>2 DEF P!IsQueue
    <3>4. FirstNode(readyQueue, q, T) = p_list(x)
      BY <1>2, <1>4, <3>3, QueueGroups
    <3>5. FirstNode(readyQueue, q, U) = p_list(x)
      BY <1>2, <1>4, <3>2, QueueGroups
    <3> QED
      BY <2>1, <3>4, <3>5
  <2> HIDE DEF T, U
  <2> QED
    BY <2>1, <2>2, <2>3
<1>8. r = list_add_tail(m, p_list(p), FirstNode(readyQueue, q, T))
  <2>1. list_for_each(m, readyQueue, lower) = FirstNode(readyQueue, q, O!Elems(q) \cap lower)
    <3> HIDE DEF lower
    <3> QED
      BY <1>2, SearchEnds DEF q
  <2> QED
    BY <1>6, <1>7, <2>1 DEF insertProcQ
<1>9. Shape(r, Q1) /\ Inited(m) \subseteq Inited(r) /\ SameData(m, r)
  <2> HIDE DEF T, r
  <2>1. p_list(p) \in Node \ Heads
    BY <1>2, NodeNames
  <2>2. Shape(m, Q) /\ readyQueue \in Heads /\ readyQueue \in Inited(m) /\ IsRest(Q[readyQueue], T)
    BY <1>2, <1>7 DEF q
  <2>3. LET a == list_add_tail(m, p_list(p), FirstNode(readyQueue, Q[readyQueue], T)) IN
        /\ Shape(a, [Q EXCEPT ![readyQueue] = Linked(@, p_list(p), T)])
        /\ Inited(a) = Inited(m) \cup {p_list(p)} /\ SameData(m, a)
    BY <1>3, <2>1, <2>2, AddShape
  <2> QED
    BY <1>8, <2>3 DEF q
<1>10. /\ OthersStay(Q, Q1)
       /\ Q1[pcbFree_h] = Q[pcbFree_h]
       /\ Q1[readyQueue] = Linked(q, p_list(p), T)
  BY <1>2 DEF q, OthersStay
<1>11. O!Elems(Q1[readyQueue]) \subseteq PLists
  <2>1. p_list(p) \in Node \ O!Elems(q) /\ p_list(p) \in PLists
    BY <1>2, <1>3, NodeNames DEF q, PLists, Unlinked
  <2> HIDE DEF T, Q1
  <2> QED
    BY <1>2, <1>7, <1>10, <2>1, LinkedQueue
<1> HIDE DEF Q1, r
<1>12. ChildrenReady(r, Q1)
  BY <1>1, <1>9, <1>10 DEF Rep, TreeKept, ChildrenReady
<1>13. /\ Good(r)
       /\ FreeIn(r) = {x \in PCB : p_list(x) \in O!Elems(Q1[pcbFree_h])}
       /\ ReadyIn(r) = Queue(Q1[readyQueue])
       /\ \A s \in Sem : QueueIn(r, s) = QueueIn(m, s)
  BY <1>1, <1>2, <1>9, <1>10, <1>11, <1>12, ListsStep
<1>14. Queue(Linked(q, p_list(p), T)) = Inserted(Queue(q), p, B)
  BY <1>2, <1>4, QueueLinked
<1>15. Inserted(Queue(q), p, B) = P!insertProcQ(Queue(q), p, m.p_prio)
  BY DEF Inserted, P!insertProcQ, B
<1> QED
  BY <1>2, <1>9, <1>10, <1>13, <1>14, <1>15, FreeFound DEF r

\* A PCB goes back to the free list.
LEMMA FreeStep ==
  ASSUME NEW m, Good(m), NEW p, Off(m, p)
  PROVE  LET r == freePcb(m, p) IN
         /\ Good(r) /\ SameData(m, r)
         /\ FreeIn(r) = FreeIn(m) \cup {p} /\ ReadyIn(r) = ReadyIn(m)
         /\ \A s \in Sem : QueueIn(r, s) = QueueIn(m, s)
<1> DEFINE r == freePcb(m, p)
<1>1. PICK Q : Rep(m, Q)
  BY DEF Good
<1> DEFINE q == Q[pcbFree_h]
           T == O!Elems(q)
           Q1 == [Q EXCEPT ![pcbFree_h] = Linked(@, p_list(p), T)]
<1>2. /\ Shape(m, Q) /\ readyQueue \in Heads /\ pcbFree_h \in Heads /\ readyQueue # pcbFree_h
      /\ pcbFree_h \in Inited(m)
      /\ p \in PCB /\ DOMAIN Q = Heads
      /\ O!Elems(q) \subseteq PLists /\ O!Elems(Q[readyQueue]) \subseteq PLists
      /\ O!IsQueue(q)
  BY <1>1, HeadNames, ShapeQueues DEF Rep, Kinds, PHeads, Shape, Off
<1>3. Unlinked(Q, p_list(p)) /\ p_list(p) \in Node \ Heads /\ p_list(p) \in PLists
  BY <1>1, <1>2, OffNodes, NodeNames DEF PLists
<1>4. /\ r = list_add_tail(m, p_list(p), FirstNode(pcbFree_h, Q[pcbFree_h], T))
      /\ IsRest(Q[pcbFree_h], T)
  BY <1>2, AddFirst DEF freePcb
<1> HIDE DEF T
<1>5. LET a == list_add_tail(m, p_list(p), FirstNode(pcbFree_h, Q[pcbFree_h], T)) IN
      /\ Shape(a, [Q EXCEPT ![pcbFree_h] = Linked(@, p_list(p), T)])
      /\ Inited(a) = Inited(m) \cup {p_list(p)} /\ SameData(m, a)
  BY <1>2, <1>3, <1>4, AddShape
<1> HIDE DEF r
<1>6. Shape(r, Q1) /\ Inited(m) \subseteq Inited(r) /\ SameData(m, r)
  BY <1>4, <1>5
<1>7. /\ OthersStay(Q, Q1)
      /\ Q1[readyQueue] = Q[readyQueue]
      /\ Q1[pcbFree_h] = Linked(q, p_list(p), T)
  BY <1>2 DEF OthersStay
<1>8. O!Elems(Linked(q, p_list(p), T)) = O!Elems(q) \cup {p_list(p)}
  BY <1>2, <1>3, <1>4, LinkedQueue DEF Unlinked
<1> HIDE DEF Q1, q
<1>9. /\ O!Elems(Q1[pcbFree_h]) \subseteq PLists /\ O!Elems(Q1[readyQueue]) \subseteq PLists
  BY <1>2, <1>3, <1>7, <1>8
<1>10. ChildrenReady(r, Q1)
  BY <1>1, <1>6, <1>7, <1>8 DEF Rep, TreeKept, ChildrenReady, q
<1>11. /\ Good(r)
       /\ FreeIn(r) = {x \in PCB : p_list(x) \in O!Elems(Q1[pcbFree_h])}
       /\ ReadyIn(r) = Queue(Q1[readyQueue])
       /\ \A s \in Sem : QueueIn(r, s) = QueueIn(m, s)
  BY <1>1, <1>6, <1>7, <1>9, <1>10, ListsStep
<1>12. FreeIn(r) = FreeIn(m) \cup {p}
  BY <1>2, <1>7, <1>8, <1>11, FreeFound, NodeNames DEF q
<1> QED
  BY <1>2, <1>6, <1>7, <1>11, <1>12, ReadyFound DEF r

\* A free PCB has no parent and no children.
FreeBare(m) ==
  \A p \in FreeIn(m) : m.p_parent[p] = Null /\ \A x \in PCB : m.p_parent[x] # p

\* The first free PCB.
LEMMA Allocated ==
  ASSUME NEW m, Good(m)
  PROVE  /\ allocated(m) = Null <=> FreeIn(m) = {}
         /\ FreeIn(m) # {} => allocated(m) \in FreeIn(m) /\ m.next[pcbFree_h] = p_list(allocated(m))
<1>1. PICK Q : Rep(m, Q)
  BY DEF Good
<1>2. /\ Shape(m, Q) /\ pcbFree_h \in Heads /\ pcbFree_h \in Inited(m)
      /\ O!Elems(Q[pcbFree_h]) \subseteq PLists
  BY <1>1, HeadNames DEF Rep, Kinds, PHeads
<1>3. FreeIn(m) = P!Elems(Queue(Q[pcbFree_h]))
  BY <1>2, FreeFound, QueuePairs
<1> QED
  BY <1>2, <1>3, FirstPcb, TableAssumption DEF allocated

\* allocPcb takes the first free PCB, resets it and gives it the next pid.
LEMMA AllocStep ==
  ASSUME NEW m, Good(m), FreeIn(m) # {}, FreeBare(m)
  PROVE  LET p == allocated(m)
             r == allocPcb(m)
         IN  /\ p \in FreeIn(m) /\ Good(r) /\ Off(r, p)
             /\ FreeIn(r) = FreeIn(m) \ {p} /\ ReadyIn(r) = ReadyIn(m)
             /\ \A s \in Sem : QueueIn(r, s) = QueueIn(m, s)
             /\ r.p_parent = [m.p_parent EXCEPT ![p] = Null]
             /\ r.p_semAdd = [m.p_semAdd EXCEPT ![p] = Null]
             /\ r.p_prio = [m.p_prio EXCEPT ![p] = 0]
             /\ r.p_pid = [m.p_pid EXCEPT ![p] = m.next_pid]
             /\ r.next_pid = m.next_pid + 1
             /\ r.currProc = m.currProc /\ r.processCount = m.processCount
             /\ r.softBlockCount = m.softBlockCount
<1> DEFINE p == allocated(m)
           r == allocPcb(m)
           m1 == list_del(m, p_list(p))
           m2 == INIT_LIST_HEAD(m1, p_child(p))
           m3 == INIT_LIST_HEAD(m2, p_sib(p))
<1>1. PICK Q : Rep(m, Q)
  BY DEF Good
<1> DEFINE q == Q[pcbFree_h]
           Q1 == [Q EXCEPT ![pcbFree_h] = O!Without(@, {p_list(p)})]
<1>2. /\ Shape(m, Q) /\ readyQueue \in Heads /\ pcbFree_h \in Heads /\ readyQueue # pcbFree_h
      /\ DOMAIN Q = Heads /\ O!IsQueue(q)
      /\ O!Elems(q) \subseteq PLists /\ O!Elems(Q[readyQueue]) \subseteq PLists
  BY <1>1, HeadNames, ShapeQueues DEF Rep, Kinds, PHeads, Shape
<1>3. p \in FreeIn(m) /\ p \in PCB /\ p_list(p) \in O!Elems(q)
  BY <1>2, Allocated, FreeFound
<1>4. m.p_parent[p] = Null /\ \A x \in PCB : m.p_parent[x] # p
  BY <1>3 DEF FreeBare
<1>5. r = [m3 EXCEPT !.p_parent[p] = Null, !.p_semAdd[p] = Null, !.p_prio[p] = 0,
                     !.p_pid[p] = m.next_pid, !.next_pid = @ + 1]
  BY DEF allocPcb
<1> HIDE DEF p, r
<1>6. Shape(m1, Q1) /\ Inited(m1) = Inited(m) /\ SameData(m, m1)
  BY <1>2, <1>3, DelShape
<1>7. /\ OthersStay(Q, Q1)
      /\ Q1[readyQueue] = Q[readyQueue]
      /\ Q1[pcbFree_h] = O!Without(q, {p_list(p)})
      /\ O!Elems(Q1[pcbFree_h]) = O!Elems(q) \ {p_list(p)}
  BY <1>2, O!WithoutQueue DEF OthersStay
<1> HIDE DEF Q1, q, m1
<1>8. Unlinked(Q1, p_child(p)) /\ p_child(p) \in Heads /\ p_child(p) \in Node /\ Q1[p_child(p)] = {}
  <2>1. p_child(p) \in Heads /\ p_child(p) \in Node
    BY <1>3, NodeNames, HeadsAreNodes
  <2>2. Unlinked(Q1, p_child(p))
    BY <1>6, <2>1, ShapeQueues DEF Unlinked
  <2>3. O!IsQueue(Q1[p_child(p)]) /\ Q1[p_child(p)] = Q[p_child(p)]
    BY <1>3, <1>6, <1>7, <2>1, ShapeQueues, HeadNames DEF OthersStay
  <2>4. O!Elems(Q[p_child(p)]) = {}
    BY <1>1, <1>3, <1>4 DEF Rep, Kinds, TreeKept
  <2> QED
    BY <2>1, <2>2, <2>3, <2>4 DEF O!IsQueue
<1>9. Unlinked(Q1, p_sib(p)) /\ p_sib(p) \in Node \ Heads
  <2>1. p_sib(p) \in Node \ Heads
    BY <1>3, NodeNames
  <2> SUFFICES ASSUME NEW h \in Heads, p_sib(p) \in O!Elems(Q1[h]) PROVE FALSE
    BY <2>1 DEF Unlinked
  <2>2. p_sib(p) \in O!Elems(Q[h])
    BY <1>7 DEF OthersStay, q
  <2>3. Kinds(Q) /\ TreeKept(m, Q) /\ Typed(m)
    BY <1>1 DEF Rep
  <2>4. CASE h \in PHeads
    BY <1>3, <2>2, <2>3, <2>4, NodeNames DEF Kinds, PLists
  <2>5. CASE h \in {semdFree_h, semd_h}
    BY <1>3, <2>2, <2>3, <2>5, NodeNames DEF Kinds
  <2>6. CASE \E x \in PCB : h = p_child(x)
    BY <1>3, <1>4, <2>2, <2>3, <2>6, TableAssumption DEF TreeKept
  <2> QED
    BY <2>4, <2>5, <2>6 DEF Heads, PHeads
<1>10. Shape(m2, Q1) /\ Inited(m2) = Inited(m1) \cup {p_child(p)} /\ SameData(m1, m2)
  BY <1>6, <1>8, InitShape
<1> HIDE DEF m2
<1>11. Shape(m3, Q1) /\ Inited(m3) = Inited(m2) \cup {p_sib(p)} /\ SameData(m2, m3)
  BY <1>9, <1>10, InitShape
<1> HIDE DEF m3
<1>12. Inited(m) \subseteq Inited(m3) /\ p_child(p) \in Inited(m3) /\ SameData(m, m3)
  BY <1>6, <1>10, <1>11 DEF SameData
<1>13. ChildrenReady(m3, Q1)
  <2> SUFFICES ASSUME NEW x \in PCB, p_list(x) \notin O!Elems(Q1[pcbFree_h]), x # p
               PROVE  p_child(x) \in Inited(m3)
    BY <1>12 DEF ChildrenReady
  <2>1. p_list(x) \notin O!Elems(q)
    BY <1>3, <1>7, NodeNames
  <2> QED
    BY <1>1, <1>12, <2>1 DEF Rep, TreeKept, q
<1>14. O!Elems(Q1[pcbFree_h]) \subseteq PLists /\ O!Elems(Q1[readyQueue]) \subseteq PLists
  BY <1>2, <1>7
<1>15. /\ Rep(m3, Q1) /\ Good(m3)
       /\ FreeIn(m3) = {x \in PCB : p_list(x) \in O!Elems(Q1[pcbFree_h])}
       /\ ReadyIn(m3) = Queue(Q1[readyQueue])
       /\ \A s \in Sem : QueueIn(m3, s) = QueueIn(m, s)
  BY <1>1, <1>7, <1>11, <1>12, <1>13, <1>14, ListsStep
<1>16. FreeIn(m3) = FreeIn(m) \ {p} /\ ReadyIn(m3) = ReadyIn(m)
  BY <1>2, <1>3, <1>7, <1>15, FreeFound, ReadyFound, NodeNames DEF q
<1>17. Off(m3, p)
  <2>1. p \notin P!Elems(ReadyIn(m)) /\ \A s \in Sem : p \notin P!Elems(QueueIn(m, s))
    BY <1>3, GoodLists
  <2> QED
    BY <1>3, <1>15, <1>16, <2>1 DEF Off
<1>18. DOMAIN m3 = MemFields /\ Typed(m) /\ Typed(m3)
  BY <1>1, <1>15, GoodLists DEF Rep
<1>19. /\ DOMAIN r = MemFields /\ r.next = m3.next /\ r.prev = m3.prev /\ r.s_key = m3.s_key
       /\ r.p_parent = [m.p_parent EXCEPT ![p] = Null]
       /\ r.p_semAdd = [m.p_semAdd EXCEPT ![p] = Null]
       /\ r.p_prio = [m.p_prio EXCEPT ![p] = 0]
       /\ r.p_pid = [m.p_pid EXCEPT ![p] = m.next_pid]
       /\ r.next_pid = m.next_pid + 1
       /\ r.currProc = m.currProc /\ r.processCount = m.processCount
       /\ r.softBlockCount = m.softBlockCount
  BY <1>5, <1>12, <1>18 DEF MemFields, SameData
<1>20. r.p_parent = m.p_parent
  BY <1>3, <1>4, <1>18, <1>19 DEF Typed
<1>21. Typed(r)
  <2>0. /\ m.p_semAdd \in [PCB -> Sem \cup {Null}] /\ m.p_prio \in [PCB -> Nat]
        /\ m.p_pid \in [PCB -> Nat] /\ m.next_pid \in Nat
        /\ m.p_parent \in [PCB -> PCB \cup {Null}]
    BY <1>18 DEF Typed
  <2>1. r.p_semAdd \in [PCB -> Sem \cup {Null}] /\ r.p_parent \in [PCB -> PCB \cup {Null}]
    <3>1. [m.p_semAdd EXCEPT ![p] = Null] \in [PCB -> Sem \cup {Null}]
      BY <2>0
    <3> QED
      BY <1>19, <1>20, <2>0, <3>1
  <2>2. r.p_prio \in [PCB -> Nat] /\ r.p_pid \in [PCB -> Nat]
    <3>1. [m.p_prio EXCEPT ![p] = 0] \in [PCB -> Nat]
      BY <2>0
    <3>2. [m.p_pid EXCEPT ![p] = m.next_pid] \in [PCB -> Nat]
      BY <2>0
    <3> QED
      BY <1>19, <3>1, <3>2
  <2>3. r.s_key \in [Semd -> Sem \cup {Null}]
    BY <1>18, <1>19 DEF Typed
  <2>4. /\ r.next_pid \in Nat /\ r.currProc \in PCB \cup {Null}
        /\ r.processCount \in Int /\ r.softBlockCount \in Int
    BY <1>18, <1>19 DEF Typed
  <2> QED
    BY <2>1, <2>2, <2>3, <2>4 DEF Typed
<1>22. \A x \in PCB : r.p_semAdd[x] = m3.p_semAdd[x] \/ Off(m3, x)
  BY <1>12, <1>17, <1>18, <1>19 DEF Typed, SameData
<1>23. Good(r) /\ SameLists(m3, r)
  <2>1. r.p_parent = m3.p_parent
    BY <1>12, <1>20 DEF SameData
  <2> QED
    BY <1>15, <1>18, <1>19, <1>21, <1>22, <2>1, DataStays
<1>24. Off(r, p)
  BY <1>17, <1>23 DEF Off, SameLists
<1> QED
  BY <1>3, <1>15, <1>16, <1>19, <1>23, <1>24 DEF SameLists, p, r

-----------------------------------------------------------------------------
(* The process tree *)

\* A function changed in one place keeps its type.
LEMMA ExceptType ==
  ASSUME NEW X, NEW Y, NEW f \in [X -> Y], NEW x, NEW y \in Y
  PROVE  [f EXCEPT ![x] = y] \in [X -> Y]
OBVIOUS

\* The shape of the lists is in the links.
LEMMA ShapeData ==
  ASSUME NEW m, NEW Q, Shape(m, Q), NEW r, DOMAIN r = MemFields,
         r.next = m.next, r.prev = m.prev
  PROVE  Shape(r, Q) /\ Inited(r) = Inited(m)
<1>1. Inited(r) = Inited(m) /\ Sound(r)
  BY DEF Inited, Shape, Sound
<1>2. \A h \in Heads : \A q : IsList(m, h, q) => IsList(r, h, q)
  BY <1>1 DEF IsList
<1> QED
  BY <1>1, <1>2 DEF Shape

\* Only p_parent differs.
SameButParent(m, r) ==
  /\ r.p_semAdd = m.p_semAdd /\ r.p_prio = m.p_prio /\ r.p_pid = m.p_pid
  /\ r.s_key = m.s_key /\ r.next_pid = m.next_pid /\ r.currProc = m.currProc
  /\ r.processCount = m.processCount /\ r.softBlockCount = m.softBlockCount

\* Only children lists differ, and they hold the children.
ChildrenOnly(Q, Q1) ==
  \A h \in Heads : (\A p \in PCB : h # p_child(p)) => Q1[h] = Q[h]

\* The children lists agree with p_parent.
ChildrenAre(r, Q) ==
  \A p, x \in PCB : p_sib(x) \in O!Elems(Q[p_child(p)]) <=> r.p_parent[x] = p

\* The children lists link PCBs by p_sib.
SibsOnly(Q) == \A p \in PCB : O!Elems(Q[p_child(p)]) \subseteq {p_sib(x) : x \in PCB}

\* A memory stays good when only children lists and p_parent change together.
LEMMA ChildrenStep ==
  ASSUME NEW m, NEW Q, Rep(m, Q), NEW r, NEW Q1, Shape(r, Q1),
         Inited(m) \subseteq Inited(r), SameButParent(m, r),
         r.p_parent \in [PCB -> PCB \cup {Null}],
         ChildrenOnly(Q, Q1), ChildrenAre(r, Q1), SibsOnly(Q1)
  PROVE  Good(r) /\ SameLists(m, r)
<1>1. /\ Q1[semd_h] = Q[semd_h] /\ Q1[semdFree_h] = Q[semdFree_h]
      /\ Q1[pcbFree_h] = Q[pcbFree_h] /\ Q1[readyQueue] = Q[readyQueue]
      /\ \A d \in Semd : Q1[procq(d)] = Q[procq(d)]
  BY HeadNames, NodeNames DEF ChildrenOnly
<1>2. Typed(r)
  BY DEF Rep, Typed, SameButParent
<1>3. Kinds(Q1)
  BY <1>1 DEF Rep, Kinds, PHeads, SibsOnly
<1>4. ActiveD(Q1) = ActiveD(Q)
  BY <1>1 DEF ActiveD
<1>5. AslKept(r, Q1)
  BY <1>1, <1>4 DEF Rep, AslKept, SameButParent, ActiveD
<1>6. TreeKept(r, Q1)
  BY <1>1 DEF Rep, TreeKept, ChildrenAre
<1>7. Rep(r, Q1)
  BY <1>2, <1>3, <1>5, <1>6 DEF Rep
<1>8. ASSUME NEW s \in Sem PROVE QueueIn(r, s) = QueueIn(m, s)
  <2>1. CASE \E d \in ActiveD(Q) : m.s_key[d] = s
    <3>1. PICK d \in ActiveD(Q) : m.s_key[d] = s
      BY <2>1
    <3>2. QueueIn(m, s) = Queue(Q[procq(d)])
      BY <3>1, QueueFound
    <3>3. d \in ActiveD(Q1) /\ r.s_key[d] = s /\ Q1[procq(d)] = Q[procq(d)]
      BY <1>1, <1>4, <3>1 DEF SameButParent, ActiveD
    <3> QED
      BY <1>7, <3>2, <3>3, QueueFound
  <2>2. CASE \A d \in ActiveD(Q) : m.s_key[d] # s
    <3>1. QueueIn(m, s) = {}
      BY <2>2, QueueFound
    <3>2. \A d \in ActiveD(Q1) : r.s_key[d] # s
      BY <1>4, <2>2 DEF SameButParent
    <3> QED
      BY <1>7, <3>1, <3>2, QueueFound
  <2> QED
    BY <2>1, <2>2
<1>9. FreeIn(r) = FreeIn(m) /\ ReadyIn(r) = ReadyIn(m)
  <2>1. Shape(m, Q)
    BY DEF Rep
  <2> QED
    BY <1>1, <2>1, FreeFound, ReadyFound
<1> QED
  BY <1>7, <1>8, <1>9 DEF Good, SameLists

\* Who has no parent is on no children list.
LEMMA SibUnlinked ==
  ASSUME NEW m, NEW Q, Rep(m, Q), NEW p \in PCB, m.p_parent[p] = Null
  PROVE  Unlinked(Q, p_sib(p))
<1> SUFFICES ASSUME NEW h \in Heads, p_sib(p) \in O!Elems(Q[h]) PROVE FALSE
  BY DEF Unlinked
<1>3. Kinds(Q) /\ TreeKept(m, Q)
  BY DEF Rep
<1>4. CASE h \in PHeads
  BY <1>3, <1>4, NodeNames DEF Kinds, PLists
<1>5. CASE h \in {semdFree_h, semd_h}
  BY <1>3, <1>5, NodeNames DEF Kinds
<1>6. CASE \E x \in PCB : h = p_child(x)
  BY <1>3, <1>6, TableAssumption DEF TreeKept
<1> QED
  BY <1>4, <1>5, <1>6 DEF Heads, PHeads

\* A process leaves the children list of its parent: outChild, removeChild.
LEMMA ChildCut ==
  ASSUME NEW m, Good(m), NEW c \in PCB, m.p_parent[c] # Null
  PROVE  LET r == [list_del(m, p_sib(c)) EXCEPT !.p_parent[c] = Null] IN
         /\ Good(r) /\ SameLists(m, r) /\ SameButParent(m, r)
         /\ r.p_parent = [m.p_parent EXCEPT ![c] = Null]
<1> DEFINE a == list_del(m, p_sib(c))
           r == [a EXCEPT !.p_parent[c] = Null]
           p == m.p_parent[c]
           h == p_child(p)
<1>1. PICK Q : Rep(m, Q)
  BY DEF Good
<1> DEFINE Q1 == [Q EXCEPT ![h] = O!Without(@, {p_sib(c)})]
<1>2. /\ p \in PCB /\ h \in Heads /\ Shape(m, Q) /\ DOMAIN Q = Heads
      /\ p_sib(c) \in O!Elems(Q[h]) /\ O!IsQueue(Q[h])
      /\ m.p_parent \in [PCB -> PCB \cup {Null}] /\ DOMAIN m = MemFields
  <2>1. p \in PCB /\ m.p_parent \in [PCB -> PCB \cup {Null}] /\ Shape(m, Q) /\ TreeKept(m, Q)
    BY <1>1 DEF Rep, Typed
  <2>2. h \in Heads /\ p_sib(c) \in O!Elems(Q[h])
    BY <2>1, NodeNames DEF TreeKept
  <2> QED
    BY <2>1, <2>2, ShapeQueues DEF Shape, Sound
<1> HIDE DEF p, a
<1>3. Shape(a, Q1) /\ Inited(a) = Inited(m) /\ SameData(m, a)
  BY <1>2, DelShape DEF a
<1>4. DOMAIN a = MemFields
  BY <1>3 DEF Shape, Sound
<1>5. /\ DOMAIN r = MemFields /\ r.next = a.next /\ r.prev = a.prev /\ SameButParent(m, r)
      /\ r.p_parent = [m.p_parent EXCEPT ![c] = Null]
  BY <1>3, <1>4 DEF MemFields, SameData, SameButParent
<1> HIDE DEF r
<1>6. Shape(r, Q1) /\ Inited(r) = Inited(m)
  <2> HIDE DEF Q1
  <2> QED
    BY <1>3, <1>5, ShapeData
<1>7. /\ Q1[h] = O!Without(Q[h], {p_sib(c)}) /\ \A g \in Heads : g # h => Q1[g] = Q[g]
      /\ O!Elems(Q1[h]) = O!Elems(Q[h]) \ {p_sib(c)}
  BY <1>2, O!WithoutQueue
<1> HIDE DEF Q1
<1>8. ChildrenOnly(Q, Q1) /\ SibsOnly(Q1)
  <2>1. ChildrenOnly(Q, Q1)
    BY <1>2, <1>7 DEF ChildrenOnly
  <2>2. ASSUME NEW x \in PCB PROVE O!Elems(Q1[p_child(x)]) \subseteq {p_sib(y) : y \in PCB}
    <3>1. O!Elems(Q[p_child(x)]) \subseteq {p_sib(y) : y \in PCB} /\ p_child(x) \in Heads
      BY <1>1, NodeNames DEF Rep, Kinds
    <3> QED
      BY <1>7, <3>1
  <2> QED
    BY <2>1, <2>2 DEF SibsOnly
<1>9. ChildrenAre(r, Q1)
  <2> SUFFICES ASSUME NEW y \in PCB, NEW x \in PCB
               PROVE  p_sib(x) \in O!Elems(Q1[p_child(y)]) <=> r.p_parent[x] = y
    BY DEF ChildrenAre
  <2>1. p_sib(x) \in O!Elems(Q[p_child(y)]) <=> m.p_parent[x] = y
    BY <1>1 DEF Rep, TreeKept
  <2>2. r.p_parent[x] = IF x = c THEN Null ELSE m.p_parent[x]
    BY <1>2, <1>5
  <2>3. y # Null /\ p_child(y) \in Heads
    BY TableAssumption, NodeNames
  <2>4. CASE y = p
    BY <1>7, <2>1, <2>2, <2>3, <2>4, NodeNames
  <2>5. CASE y # p
    BY <1>2, <1>7, <2>1, <2>2, <2>3, <2>5, NodeNames DEF p
  <2> QED
    BY <2>4, <2>5
<1>10. r.p_parent \in [PCB -> PCB \cup {Null}]
  <2>1. [m.p_parent EXCEPT ![c] = Null] \in [PCB -> PCB \cup {Null}]
    BY <1>2, ExceptType
  <2> QED
    BY <1>5, <2>1
<1>11. Good(r) /\ SameLists(m, r)
  BY <1>1, <1>5, <1>6, <1>8, <1>9, <1>10, ChildrenStep
<1> QED
  BY <1>5, <1>11 DEF r, a

\* outChild.
LEMMA OutChildStep ==
  ASSUME NEW m, Good(m), NEW p \in PCB
  PROVE  LET r == outChild(m, p) IN
         /\ Good(r) /\ SameLists(m, r) /\ SameButParent(m, r)
         /\ r.p_parent = [m.p_parent EXCEPT ![p] = Null]
<1>1. CASE m.p_parent[p] = Null
  <2>1. outChild(m, p) = m
    BY <1>1 DEF outChild
  <2>2. m.p_parent = [m.p_parent EXCEPT ![p] = Null]
    BY <1>1, GoodLists DEF Typed
  <2> QED
    BY <2>1, <2>2 DEF SameLists, SameButParent
<1>2. CASE m.p_parent[p] # Null
  BY <1>2, ChildCut DEF outChild
<1> QED
  BY <1>1, <1>2

\* removeChild takes a child of p, when there is one.
LEMMA FirstChild ==
  ASSUME NEW m, Good(m), NEW p \in PCB, p \notin FreeIn(m)
  PROVE  /\ emptyChild(m, p) <=> \A x \in PCB : m.p_parent[x] # p
         /\ ~emptyChild(m, p) =>
              /\ firstChild(m, p) \in PCB /\ m.p_parent[firstChild(m, p)] = p
              /\ removeChild(m, p) = [list_del(m, p_sib(firstChild(m, p)))
                                        EXCEPT !.p_parent[firstChild(m, p)] = Null]
<1>1. PICK Q : Rep(m, Q)
  BY DEF Good
<1> DEFINE h == p_child(p)
<1>2. /\ Shape(m, Q) /\ h \in Heads /\ h \in Inited(m) /\ O!IsQueue(Q[h])
      /\ O!Elems(Q[h]) \subseteq {p_sib(x) : x \in PCB}
  BY <1>1, NodeNames, FreeFound, ShapeQueues DEF Rep, TreeKept, Kinds
<1>3. \A x \in PCB : p_sib(x) \in O!Elems(Q[h]) <=> m.p_parent[x] = p
  BY <1>1 DEF Rep, TreeKept
<1>4. /\ emptyChild(m, p) <=> O!Elems(Q[h]) = {}
      /\ m.next[h] = FirstNode(h, Q[h], O!Elems(Q[h]))
  BY <1>2, EmptyList DEF emptyChild
<1>5. ASSUME ~emptyChild(m, p)
      PROVE  \E c \in PCB : m.next[h] = p_sib(c) /\ p_sib(c) \in O!Elems(Q[h])
  <2>1. m.next[h] \in O!Elems(Q[h])
    BY <1>2, <1>4, <1>5, FirstIn
  <2> QED
    BY <1>2, <2>1
<1> QED
  BY <1>2, <1>3, <1>4, <1>5, NodeNames DEF firstChild, removeChild

\* insertChild of a process that has no parent.
LEMMA InsertChildStep ==
  ASSUME NEW m, Good(m), NEW p \in PCB, m.p_parent[p] = Null,
         NEW prnt \in PCB, prnt \notin FreeIn(m)
  PROVE  LET r == insertChild(m, prnt, p) IN
         /\ Good(r) /\ SameLists(m, r) /\ SameButParent(m, r)
         /\ r.p_parent = [m.p_parent EXCEPT ![p] = prnt]
<1> DEFINE a == [m EXCEPT !.p_parent[p] = prnt]
           h == p_child(prnt)
           r == list_add_tail(a, p_sib(p), h)
<1>0. r = insertChild(m, prnt, p)
  BY DEF insertChild
<1>1. PICK Q : Rep(m, Q)
  BY DEF Good
<1> DEFINE Q1 == [Q EXCEPT ![h] = Linked(@, p_sib(p), {})]
<1>2. /\ h \in Heads /\ h \in Inited(m) /\ Shape(m, Q) /\ DOMAIN Q = Heads
      /\ Unlinked(Q, p_sib(p)) /\ O!IsQueue(Q[h]) /\ p_sib(p) \in Node \ Heads
      /\ m.p_parent \in [PCB -> PCB \cup {Null}] /\ DOMAIN m = MemFields
  <2>1. /\ m.p_parent \in [PCB -> PCB \cup {Null}] /\ Shape(m, Q)
        /\ h \in Heads /\ h \in Inited(m)
    BY <1>1, FreeFound, NodeNames DEF Rep, Typed, TreeKept
  <2> QED
    BY <1>1, <2>1, ShapeQueues, NodeNames, SibUnlinked DEF Shape, Sound
<1>3. /\ DOMAIN a = MemFields /\ a.next = m.next /\ a.prev = m.prev /\ SameButParent(m, a)
      /\ a.p_parent = [m.p_parent EXCEPT ![p] = prnt]
  BY <1>2 DEF MemFields, SameButParent
<1> HIDE DEF a
<1>4. Shape(a, Q) /\ Inited(a) = Inited(m)
  BY <1>2, <1>3, ShapeData
<1>5. IsRest(Q[h], {}) /\ FirstNode(h, Q[h], {}) = h
  BY DEF IsRest, FirstNode
<1>6. LET b == list_add_tail(a, p_sib(p), FirstNode(h, Q[h], {})) IN
      /\ Shape(b, [Q EXCEPT ![h] = Linked(@, p_sib(p), {})])
      /\ Inited(b) = Inited(a) \cup {p_sib(p)} /\ SameData(a, b)
  <2> HIDE DEF h
  <2> QED
    BY <1>2, <1>4, <1>5, AddShape
<1>7. Shape(r, Q1) /\ Inited(m) \subseteq Inited(r) /\ SameData(a, r)
  BY <1>4, <1>5, <1>6
<1> HIDE DEF r
<1>8. SameButParent(m, r) /\ r.p_parent = [m.p_parent EXCEPT ![p] = prnt]
  BY <1>3, <1>7 DEF SameData, SameButParent
<1>9. /\ \A g \in Heads : g # h => Q1[g] = Q[g]
      /\ O!Elems(Q1[h]) = O!Elems(Q[h]) \cup {p_sib(p)}
  BY <1>2, <1>5, LinkedQueue DEF Unlinked
<1> HIDE DEF Q1
<1>10. ChildrenOnly(Q, Q1) /\ SibsOnly(Q1)
  <2>1. ChildrenOnly(Q, Q1)
    BY <1>2, <1>9 DEF ChildrenOnly
  <2>2. ASSUME NEW x \in PCB PROVE O!Elems(Q1[p_child(x)]) \subseteq {p_sib(y) : y \in PCB}
    <3>1. O!Elems(Q[p_child(x)]) \subseteq {p_sib(y) : y \in PCB} /\ p_child(x) \in Heads
      BY <1>1, NodeNames DEF Rep, Kinds
    <3> QED
      BY <1>9, <3>1
  <2> QED
    BY <2>1, <2>2 DEF SibsOnly
<1>11. ChildrenAre(r, Q1)
  <2> SUFFICES ASSUME NEW y \in PCB, NEW x \in PCB
               PROVE  p_sib(x) \in O!Elems(Q1[p_child(y)]) <=> r.p_parent[x] = y
    BY DEF ChildrenAre
  <2>1. p_sib(x) \in O!Elems(Q[p_child(y)]) <=> m.p_parent[x] = y
    BY <1>1 DEF Rep, TreeKept
  <2>2. r.p_parent[x] = IF x = p THEN prnt ELSE m.p_parent[x]
    BY <1>2, <1>8
  <2>3. y # Null /\ p_child(y) \in Heads
    BY TableAssumption, NodeNames
  <2>4. CASE y = prnt
    BY <1>9, <2>1, <2>2, <2>3, <2>4, NodeNames
  <2>5. CASE y # prnt
    BY <1>2, <1>9, <2>1, <2>2, <2>3, <2>5, NodeNames
  <2> QED
    BY <2>4, <2>5
<1>12. r.p_parent \in [PCB -> PCB \cup {Null}]
  <2>1. [m.p_parent EXCEPT ![p] = prnt] \in [PCB -> PCB \cup {Null}]
    BY <1>2, ExceptType
  <2> QED
    BY <1>8, <2>1
<1>13. Good(r) /\ SameLists(m, r)
  BY <1>1, <1>7, <1>8, <1>10, <1>11, <1>12, ChildrenStep
<1> QED
  BY <1>0, <1>8, <1>13

-----------------------------------------------------------------------------
(* The active semaphore list *)

\* Only s_key, p_semAdd and links of the ASL differ.
SameButAsl(m, r) ==
  /\ r.p_parent = m.p_parent /\ r.p_prio = m.p_prio /\ r.p_pid = m.p_pid
  /\ r.next_pid = m.next_pid /\ r.currProc = m.currProc
  /\ r.processCount = m.processCount /\ r.softBlockCount = m.softBlockCount

\* Only lists of the ASL differ.
AslOnly(Q, Q1) ==
  \A h \in Heads : h \notin {semdFree_h, semd_h} /\ (\A d \in Semd : h # procq(d))
    => Q1[h] = Q[h]

\* A memory stays good when only the ASL and its queues change, in order.
LEMMA AslStep ==
  ASSUME NEW m, NEW Q, Rep(m, Q), NEW r, NEW Q1, Shape(r, Q1),
         Inited(m) \subseteq Inited(r), AslOnly(Q, Q1), SameButAsl(m, r),
         Typed(r), Kinds(Q1), AslKept(r, Q1)
  PROVE  Good(r) /\ Rep(r, Q1) /\ FreeIn(r) = FreeIn(m) /\ ReadyIn(r) = ReadyIn(m)
<1>1. /\ Q1[pcbFree_h] = Q[pcbFree_h] /\ Q1[readyQueue] = Q[readyQueue]
      /\ \A p \in PCB : Q1[p_child(p)] = Q[p_child(p)]
  BY HeadNames, NodeNames DEF AslOnly
<1>2. TreeKept(r, Q1)
  BY <1>1 DEF Rep, TreeKept, SameButAsl
<1>3. Rep(r, Q1)
  BY <1>2 DEF Rep
<1> QED
  BY <1>1, <1>3, FreeFound, ReadyFound DEF Good, Rep

\* There is a free descriptor for a PCB that waits nowhere: each active one has
\* another PCB in its queue.
LEMMA DescriptorLeft ==
  ASSUME NEW m, NEW Q, Rep(m, Q), NEW p \in PCB, Unlinked(Q, p_list(p))
  PROVE  O!Elems(Q[semdFree_h]) # {}
<1> SUFFICES ASSUME O!Elems(Q[semdFree_h]) = {} PROVE FALSE
  OBVIOUS
<1>1. Shape(m, Q) /\ Kinds(Q) /\ AslKept(m, Q)
  BY DEF Rep
<1>2. ActiveD(Q) = Semd
  BY <1>1 DEF Kinds, ActiveD
<1>3. \A d \in Semd : \E x \in PCB : p_list(x) \in O!Elems(Q[procq(d)])
  BY <1>1, <1>2 DEF AslKept, Kinds, PHeads, PLists
<1>4. \A d \in Semd, x \in PCB : p_list(x) \in O!Elems(Q[procq(d)]) => x # p
  BY NodeNames DEF Unlinked
<1>5. \A d, e \in Semd, x \in PCB :
        p_list(x) \in O!Elems(Q[procq(d)]) /\ p_list(x) \in O!Elems(Q[procq(e)]) => d = e
  <2>1. \A h, g \in Heads : h # g => O!Elems(Q[h]) \cap O!Elems(Q[g]) = {}
    BY <1>1 DEF Shape
  <2> QED
    BY <2>1, NodeNames
<1> DEFINE f == [d \in Semd |-> CHOOSE x \in PCB : p_list(x) \in O!Elems(Q[procq(d)])]
<1>6. \A d \in Semd : f[d] \in PCB \ {p} /\ p_list(f[d]) \in O!Elems(Q[procq(d)])
  BY <1>3, <1>4
<1>7. f \in Injection(Semd, PCB \ {p})
  <2>1. f \in [Semd -> PCB \ {p}]
    BY <1>6
  <2>2. \A d, e \in Semd : f[d] = f[e] => d = e
    BY <1>5, <1>6
  <2> HIDE DEF f
  <2> QED
    BY <2>1, <2>2 DEF Injection, IsInjective
<1> HIDE DEF f
<1>8. /\ IsFiniteSet(PCB \ {p}) /\ Cardinality(PCB \ {p}) = Cardinality(PCB) - 1
      /\ Cardinality(PCB) \in Nat
  BY TableAssumption, FS_RemoveElement, FS_CardinalityType
<1>9. Cardinality(Semd) <= Cardinality(PCB \ {p})
  BY <1>7, <1>8, FS_Injection
<1> QED
  BY <1>8, <1>9, TableAssumption DEF MaxProc

\* Keys are numbers.
LEMMA KeysNat ==
  ASSUME NEW m, Typed(m) PROVE \A d \in Semd : m.s_key[d] \in Nat
<1>1. m.s_key \in [Semd -> Sem \cup {Null}]
  BY DEF Typed
<1>2. \A x \in Sem \cup {Null} : x \in Nat
  BY SemNat
<1> QED
  BY <1>1, <1>2

\* The larger keys are the rest of the ASL from some place on.
LargerKeys(m, Q, s) == {s_link(e) : e \in {x \in ActiveD(Q) : m.s_key[x] > s}}

\* They are, because the ASL is ordered by key.
LEMMA LargerRest ==
  ASSUME NEW m, NEW Q, Rep(m, Q), NEW s \in Nat
  PROVE  IsRest(Q[semd_h], LargerKeys(m, Q, s))
<1> DEFINE q == Q[semd_h]
           B == LargerKeys(m, Q, s)
<1>1. /\ O!Elems(q) \subseteq {s_link(d) : d \in Semd}
      /\ \A d \in Semd : m.s_key[d] \in Nat
      /\ \A d, e \in ActiveD(Q) : <<s_link(d), s_link(e)>> \in q /\ d # e => m.s_key[d] < m.s_key[e]
  <2>1. O!Elems(q) \subseteq {s_link(d) : d \in Semd}
    BY DEF Rep, Kinds
  <2>2. \A d \in Semd : m.s_key[d] \in Nat
    BY KeysNat DEF Rep
  <2> QED
    BY <2>1, <2>2 DEF Rep, AslKept
<1>2. B \subseteq O!Elems(q)
  BY DEF LargerKeys, ActiveD
<1>3. ASSUME NEW x \in O!Elems(q), NEW y \in O!Elems(q), x \in B, <<x, y>> \in q
      PROVE  y \in B
  <2>1. PICK d \in ActiveD(Q) : x = s_link(d) /\ m.s_key[d] > s
    BY <1>3 DEF LargerKeys
  <2>2. PICK e \in Semd : y = s_link(e)
    BY <1>1
  <2>3. e \in ActiveD(Q) /\ d \in Semd
    BY <2>2 DEF ActiveD
  <2>4. m.s_key[e] > s
    <3>1. d = e \/ m.s_key[d] < m.s_key[e]
      BY <1>1, <1>3, <2>1, <2>2, <2>3
    <3>2. m.s_key[d] \in Nat /\ m.s_key[e] \in Nat
      BY <1>1, <2>3
    <3> QED
      BY <2>1, <3>1, <3>2
  <2> QED
    BY <2>2, <2>3, <2>4 DEF LargerKeys
<1> QED
  BY <1>2, <1>3 DEF IsRest

\* A free descriptor d has become the one of s, with an empty queue.
Activated(m, Q, s, d, r, Q2) ==
  /\ d \in Semd \ ActiveD(Q) /\ s_link(d) \in O!Elems(Q[semdFree_h])
  /\ Shape(r, Q2)
  /\ Inited(m) \subseteq Inited(r) /\ procq(d) \in Inited(r)
  /\ SameButAsl(m, r) /\ r.p_semAdd = m.p_semAdd
  /\ r.s_key = [m.s_key EXCEPT ![d] = s]

\* Activate takes a free descriptor and links it in the ASL.
LEMMA ActivateShape ==
  ASSUME NEW m, NEW Q, Rep(m, Q), NEW s \in Sem, O!Elems(Q[semdFree_h]) # {},
         \A e \in ActiveD(Q) : m.s_key[e] # s,
         NEW d, d = container_of(m.next[semdFree_h]),
         NEW r, r = Activate(m, s),
         NEW Q2, Q2 = [[Q EXCEPT ![semdFree_h] = O!Without(@, {s_link(d)})]
                         EXCEPT ![semd_h] = Linked(@, s_link(d), LargerKeys(m, Q, s))]
  PROVE  Activated(m, Q, s, d, r, Q2)
<1> DEFINE B == LargerKeys(m, Q, s)
           m1 == list_del(m, s_link(d))
           m2 == [m1 EXCEPT !.s_key[d] = s]
           m3 == INIT_LIST_HEAD(m2, procq(d))
           Q1 == [Q EXCEPT ![semdFree_h] = O!Without(@, {s_link(d)})]
           larger == {s_link(x) : x \in {y \in Semd : m3.s_key[y] > s}}
<1>0. /\ r = list_add_tail(m3, s_link(d), list_for_each(m3, semd_h, larger))
      /\ Q2 = [Q1 EXCEPT ![semd_h] = Linked(@, s_link(d), B)]
  BY DEF Activate
<1>1. /\ Shape(m, Q) /\ Kinds(Q) /\ AslKept(m, Q) /\ DOMAIN Q = Heads
      /\ semdFree_h \in Heads /\ semd_h \in Heads /\ semd_h # semdFree_h
      /\ semdFree_h \in Inited(m) /\ semd_h \in Inited(m)
      /\ O!IsQueue(Q[semdFree_h]) /\ O!IsQueue(Q[semd_h])
      /\ O!Elems(Q[semdFree_h]) \cap O!Elems(Q[semd_h]) = {}
      /\ s \in Nat /\ \A e \in Semd : m.s_key[e] \in Nat
  <2>1. Shape(m, Q) /\ Kinds(Q) /\ AslKept(m, Q)
    BY DEF Rep
  <2>2. DOMAIN Q = Heads /\ \A h, g \in Heads : h # g => O!Elems(Q[h]) \cap O!Elems(Q[g]) = {}
    BY <2>1 DEF Shape
  <2>3. semdFree_h \in Heads /\ semd_h \in Heads /\ semd_h # semdFree_h
    BY HeadNames
  <2>4. semdFree_h \in Inited(m) /\ semd_h \in Inited(m)
    BY DEF Rep
  <2>5. s \in Nat /\ \A e \in Semd : m.s_key[e] \in Nat
    BY SemNat, KeysNat DEF Rep
  <2> QED
    BY <2>1, <2>2, <2>3, <2>4, <2>5, ShapeQueues
<1>2. d \in Semd /\ s_link(d) \in O!Elems(Q[semdFree_h]) /\ d \notin ActiveD(Q)
  <2>1. m.next[semdFree_h] \in O!Elems(Q[semdFree_h])
    <3>1. m.next[semdFree_h] = FirstNode(semdFree_h, Q[semdFree_h], O!Elems(Q[semdFree_h]))
      BY <1>1, EmptyList
    <3> DEFINE T == O!Elems(Q[semdFree_h])
    <3>2. T # {} /\ T \subseteq O!Elems(Q[semdFree_h])
      OBVIOUS
    <3> HIDE DEF T
    <3>3. FirstNode(semdFree_h, Q[semdFree_h], T) \in T
      BY <1>1, <3>2, FirstIn
    <3> QED
      BY <3>1, <3>3 DEF T
  <2>2. PICK e \in Semd : m.next[semdFree_h] = s_link(e)
    BY <1>1, <2>1 DEF Kinds
  <2>3. d = e
    BY <2>2, NodeNames
  <2> QED
    BY <1>1, <2>1, <2>2, <2>3 DEF ActiveD
<1>3. Shape(m1, Q1) /\ Inited(m1) = Inited(m) /\ SameData(m, m1)
  BY <1>1, <1>2, DelShape
<1> HIDE DEF m1
<1>4. /\ DOMAIN m1 = MemFields /\ m2.next = m1.next /\ m2.prev = m1.prev
      /\ DOMAIN m2 = MemFields /\ m2.s_key = [m.s_key EXCEPT ![d] = s]
      /\ m2.p_semAdd = m.p_semAdd /\ SameButAsl(m, m2)
  <2>1. DOMAIN m1 = MemFields
    BY <1>3 DEF Shape, Sound
  <2> QED
    BY <1>3, <2>1 DEF MemFields, SameData, SameButAsl
<1> HIDE DEF m2, Q1
<1>5. Shape(m2, Q1) /\ Inited(m2) = Inited(m)
  BY <1>3, <1>4, ShapeData
<1>6. /\ Q1[semdFree_h] = O!Without(Q[semdFree_h], {s_link(d)})
      /\ \A h \in Heads : h # semdFree_h => Q1[h] = Q[h]
      /\ O!Elems(Q1[semdFree_h]) = O!Elems(Q[semdFree_h]) \ {s_link(d)}
      /\ DOMAIN Q1 = Heads
  BY <1>1, O!WithoutQueue DEF Q1
<1>7. procq(d) \in Node /\ procq(d) \in Heads /\ procq(d) # semdFree_h
  BY <1>2, NodeNames, HeadNames, HeadsAreNodes
<1>8. Q1[procq(d)] = {} /\ Unlinked(Q1, procq(d))
  <2>1. O!IsQueue(Q[procq(d)]) /\ O!Elems(Q[procq(d)]) = {}
    BY <1>1, <1>2, <1>7, ShapeQueues DEF AslKept
  <2>2. Q[procq(d)] = {}
    BY <2>1 DEF O!IsQueue
  <2>3. \A g \in Heads : procq(d) \notin O!Elems(Q1[g])
    BY <1>5, <1>7, ShapeQueues
  <2> QED
    BY <1>6, <1>7, <2>2, <2>3 DEF Unlinked
<1>9. Shape(m3, Q1) /\ Inited(m3) = Inited(m) \cup {procq(d)} /\ SameData(m2, m3)
  BY <1>5, <1>7, <1>8, InitShape
<1> HIDE DEF m3
<1>10. m3.s_key = [m.s_key EXCEPT ![d] = s] /\ m3.p_semAdd = m.p_semAdd /\ SameButAsl(m, m3)
  BY <1>4, <1>9 DEF SameData, SameButAsl
<1>11. O!Elems(Q1[semd_h]) \cap larger = B
  <2>1. \A x \in Semd : m3.s_key[x] > s <=> x # d /\ m.s_key[x] > s
    BY <1>1, <1>2, <1>10 DEF Rep, Typed
  <2>2. \A x \in Semd : s_link(x) \in larger <=> m3.s_key[x] > s
    BY NodeNames
  <2>3. \A x \in Semd : s_link(x) \in B <=> x \in ActiveD(Q) /\ m.s_key[x] > s
    BY NodeNames DEF LargerKeys, ActiveD
  <2>4. Q1[semd_h] = Q[semd_h] /\ O!Elems(Q[semd_h]) \subseteq {s_link(x) : x \in Semd}
    BY <1>1, <1>6 DEF Kinds
  <2>5. B \subseteq {s_link(x) : x \in Semd}
    BY DEF LargerKeys, ActiveD
  <2>6. \A x \in Semd : s_link(x) \in O!Elems(Q[semd_h]) <=> x \in ActiveD(Q)
    BY DEF ActiveD
  <2> HIDE DEF B, larger
  <2>7. \A x \in Semd : s_link(x) \in O!Elems(Q1[semd_h]) \cap larger <=> s_link(x) \in B
    BY <1>2, <2>1, <2>2, <2>3, <2>4, <2>6
  <2> QED
    BY <2>4, <2>5, <2>7
<1> HIDE DEF larger
<1>12. list_for_each(m3, semd_h, larger) = FirstNode(semd_h, Q1[semd_h], B)
  <2>1. semd_h \in Inited(m3) /\ semd_h \in Heads /\ Shape(m3, Q1)
    BY <1>1, <1>9
  <2>2. list_for_each(m3, semd_h, larger) = FirstNode(semd_h, Q1[semd_h], O!Elems(Q1[semd_h]) \cap larger)
    BY <2>1, SearchEnds
  <2> QED
    BY <1>11, <2>2
<1>13. /\ IsRest(Q1[semd_h], B) /\ s_link(d) \in Node \ Heads /\ Unlinked(Q1, s_link(d))
       /\ semd_h \in Inited(m3)
  <2>1. IsRest(Q[semd_h], B)
    BY <1>1, LargerRest
  <2>2. \A g \in Heads : g # semdFree_h => s_link(d) \notin O!Elems(Q[g])
    BY <1>1, <1>2 DEF Shape
  <2> QED
    BY <1>1, <1>2, <1>6, <1>9, <2>1, <2>2, NodeNames DEF Unlinked
<1> HIDE DEF B
<1>14. LET a == list_add_tail(m3, s_link(d), FirstNode(semd_h, Q1[semd_h], B)) IN
       /\ Shape(a, [Q1 EXCEPT ![semd_h] = Linked(@, s_link(d), B)])
       /\ Inited(a) = Inited(m3) \cup {s_link(d)} /\ SameData(m3, a)
  BY <1>1, <1>9, <1>13, AddShape
<1>15. /\ Shape(r, [Q1 EXCEPT ![semd_h] = Linked(@, s_link(d), B)])
       /\ Inited(r) = Inited(m3) \cup {s_link(d)} /\ SameData(m3, r)
  BY <1>0, <1>12, <1>14
<1>16. SameButAsl(m, r) /\ r.p_semAdd = m.p_semAdd /\ r.s_key = [m.s_key EXCEPT ![d] = s]
  BY <1>10, <1>15 DEF SameData, SameButAsl
<1> QED
  BY <1>0, <1>2, <1>9, <1>15, <1>16 DEF Activated

\* list_add_tail of a PCB to the queue of a descriptor.
LEMMA JoinShape ==
  ASSUME NEW m, NEW Q, Shape(m, Q), NEW d \in Semd, procq(d) \in Inited(m),
         NEW p \in PCB, Unlinked(Q, p_list(p)),
         O!Elems(Q[procq(d)]) \subseteq PLists,
         NEW r, r = list_add_tail(m, p_list(p), procq(d)),
         NEW new, new = Linked(Q[procq(d)], p_list(p), {})
  PROVE  /\ Shape(r, [Q EXCEPT ![procq(d)] = new])
         /\ Inited(m) \subseteq Inited(r) /\ SameData(m, r)
         /\ O!Elems(new) = O!Elems(Q[procq(d)]) \cup {p_list(p)}
         /\ Queue(new) = P!InsertTail(Queue(Q[procq(d)]), p)
<1> DEFINE q == Q[procq(d)]
<1>1. /\ procq(d) \in Heads /\ p_list(p) \in Node \ Heads /\ O!IsQueue(q)
      /\ p_list(p) \notin O!Elems(q) /\ IsRest(q, {})
  BY NodeNames, ShapeQueues DEF Unlinked, IsRest
<1>2. FirstNode(procq(d), q, {}) = procq(d)
  BY DEF FirstNode
<1>3. LET a == list_add_tail(m, p_list(p), FirstNode(procq(d), Q[procq(d)], {})) IN
      /\ Shape(a, [Q EXCEPT ![procq(d)] = Linked(@, p_list(p), {})])
      /\ Inited(a) = Inited(m) \cup {p_list(p)} /\ SameData(m, a)
  BY <1>1, AddShape
<1>4. O!Elems(new) = O!Elems(q) \cup {p_list(p)}
  BY <1>1, LinkedQueue
<1>5. Queue(new) = P!InsertTail(Queue(q), p)
  <2> DEFINE T == {p_list(x) : x \in {}}
  <2>1. T = {}
    OBVIOUS
  <2>2. Queue(Linked(q, p_list(p), {p_list(x) : x \in {}})) = Inserted(Queue(q), p, {})
    BY <1>1, QueueLinked
  <2>3. Inserted(Queue(q), p, {}) = P!InsertTail(Queue(q), p)
    BY DEF Inserted, P!InsertTail
  <2> QED
    BY <2>1, <2>2, <2>3
<1>6. [Q EXCEPT ![procq(d)] = Linked(@, p_list(p), {})] = [Q EXCEPT ![procq(d)] = new]
  OBVIOUS
<1> QED
  BY <1>2, <1>3, <1>4, <1>5, <1>6

\* The queues of the ASL, when only that of the key s is another.
QueuesBut(m, r, s) == \A t \in Sem \ {s} : QueueIn(r, t) = QueueIn(m, t)

\* A PCB joins the queue of an active descriptor.
LEMMA JoinStep ==
  ASSUME NEW m, NEW Q, Rep(m, Q), NEW d \in ActiveD(Q), NEW p \in PCB, Off(m, p),
         m.p_semAdd[p] = m.s_key[d]
  PROVE  LET r == list_add_tail(m, p_list(p), procq(d))
             s == m.s_key[d]
         IN  /\ Good(r) /\ SameData(m, r) /\ FreeIn(r) = FreeIn(m) /\ ReadyIn(r) = ReadyIn(m)
             /\ QueueIn(r, s) = P!InsertTail(QueueIn(m, s), p) /\ QueuesBut(m, r, s)
<1> DEFINE r == list_add_tail(m, p_list(p), procq(d))
           s == m.s_key[d]
           new == Linked(Q[procq(d)], p_list(p), {})
           Q1 == [Q EXCEPT ![procq(d)] = new]
<1>1. /\ Shape(m, Q) /\ Kinds(Q) /\ AslKept(m, Q) /\ Typed(m) /\ DOMAIN Q = Heads
      /\ d \in Semd /\ procq(d) \in Heads /\ s \in Sem
  BY NodeNames DEF Rep, Shape, ActiveD, AslKept
<1>2. /\ Unlinked(Q, p_list(p)) /\ O!Elems(Q[procq(d)]) \subseteq PLists
      /\ procq(d) \in Inited(m)
  <2>1. O!Elems(Q[procq(d)]) \subseteq PLists /\ O!Elems(Q[procq(d)]) # {}
    BY <1>1 DEF Kinds, PHeads, AslKept
  <2> QED
    BY <1>1, <2>1, OffNodes, ShapeQueues
<1>3. /\ Shape(r, Q1) /\ Inited(m) \subseteq Inited(r) /\ SameData(m, r)
      /\ O!Elems(new) = O!Elems(Q[procq(d)]) \cup {p_list(p)}
      /\ Queue(new) = P!InsertTail(Queue(Q[procq(d)]), p)
  <2> HIDE DEF new, r
  <2>1. r = list_add_tail(m, p_list(p), procq(d)) /\ new = Linked(Q[procq(d)], p_list(p), {})
    BY DEF r, new
  <2>2. /\ Shape(m, Q) /\ d \in Semd /\ procq(d) \in Inited(m) /\ p \in PCB
        /\ Unlinked(Q, p_list(p)) /\ O!Elems(Q[procq(d)]) \subseteq PLists
    BY <1>1, <1>2
  <2> QED
    BY ONLY <2>1, <2>2, JoinShape
<1> HIDE DEF new, r
<1>4. Q1[procq(d)] = new /\ \A h \in Heads : h # procq(d) => Q1[h] = Q[h]
  BY <1>1
<1> HIDE DEF Q1
<1>5. /\ \A e \in Semd : procq(e) \in Heads /\ (e # d => Q1[procq(e)] = Q[procq(e)])
      /\ Q1[semd_h] = Q[semd_h] /\ Q1[semdFree_h] = Q[semdFree_h]
      /\ Q1[pcbFree_h] = Q[pcbFree_h] /\ Q1[readyQueue] = Q[readyQueue]
      /\ \A x \in PCB : Q1[p_child(x)] = Q[p_child(x)]
  BY <1>1, <1>4, NodeNames, HeadNames
<1>6. ActiveD(Q1) = ActiveD(Q)
  BY <1>5 DEF ActiveD
<1>7. Kinds(Q1)
  <2>1. ASSUME NEW h \in PHeads PROVE O!Elems(Q1[h]) \subseteq PLists
    BY <1>1, <1>2, <1>3, <1>4, PHeadsAreHeads DEF Kinds, PLists
  <2> QED
    BY <1>1, <1>5, <2>1 DEF Kinds
<1>8. AslKept(r, Q1)
  <2>1. r.s_key = m.s_key /\ r.p_semAdd = m.p_semAdd
    BY <1>3 DEF SameData
  <2>2. \A e \in ActiveD(Q1) : r.s_key[e] \in Sem /\ O!Elems(Q1[procq(e)]) # {}
    BY <1>1, <1>3, <1>4, <1>5, <1>6, <2>1 DEF AslKept, ActiveD
  <2>3. \A e \in Semd \ ActiveD(Q1) : O!Elems(Q1[procq(e)]) = {}
    BY <1>1, <1>5, <1>6 DEF AslKept
  <2>4. \A e \in Semd, x \in PCB :
          p_list(x) \in O!Elems(Q1[procq(e)]) => r.p_semAdd[x] = r.s_key[e]
    BY <1>1, <1>3, <1>4, <1>5, <2>1, NodeNames DEF AslKept
  <2> QED
    BY <1>1, <1>5, <1>6, <2>1, <2>2, <2>3, <2>4 DEF AslKept
<1>9. Typed(r) /\ AslOnly(Q, Q1) /\ SameButAsl(m, r)
  BY <1>1, <1>3, <1>4 DEF Typed, SameData, AslOnly, SameButAsl
<1>10. Good(r) /\ Rep(r, Q1) /\ FreeIn(r) = FreeIn(m) /\ ReadyIn(r) = ReadyIn(m)
  BY <1>3, <1>7, <1>8, <1>9, AslStep
<1>11. QueueIn(r, s) = P!InsertTail(QueueIn(m, s), p)
  <2>1. QueueIn(m, s) = Queue(Q[procq(d)])
    BY <1>1, QueueFound
  <2>2. r.s_key[d] = s
    BY <1>3 DEF SameData
  <2>3. QueueIn(r, s) = Queue(Q1[procq(d)])
    BY <1>1, <1>6, <1>10, <2>2, QueueFound
  <2> QED
    BY <1>3, <1>4, <2>1, <2>3
<1>12. ASSUME NEW t \in Sem \ {s} PROVE QueueIn(r, t) = QueueIn(m, t)
  <2>1. r.s_key = m.s_key
    BY <1>3 DEF SameData
  <2>2. CASE \E e \in ActiveD(Q) : m.s_key[e] = t
    <3>1. PICK e \in ActiveD(Q) : m.s_key[e] = t
      BY <2>2
    <3>2. e # d /\ e \in Semd
      BY <3>1 DEF ActiveD
    <3>3. QueueIn(m, t) = Queue(Q[procq(e)]) /\ QueueIn(r, t) = Queue(Q1[procq(e)])
      BY <1>6, <1>10, <2>1, <3>1, QueueFound
    <3> QED
      BY <1>5, <3>2, <3>3
  <2>3. CASE \A e \in ActiveD(Q) : m.s_key[e] # t
    <3>1. QueueIn(m, t) = {}
      BY <2>3, QueueFound
    <3>2. \A e \in ActiveD(Q1) : r.s_key[e] # t
      BY <1>6, <2>1, <2>3
    <3> QED
      BY <1>10, <3>1, <3>2, QueueFound
  <2> QED
    BY <2>2, <2>3
<1> QED
  BY <1>3, <1>10, <1>11, <1>12 DEF QueuesBut, r

\* Only p_semAdd, s_key and links differ, and p_semAdd only of p.
BlockedOn(m, r, p, s) ==
  SameButAsl(m, r) /\ r.p_semAdd = [m.p_semAdd EXCEPT ![p] = s]

\* A PCB is the first to wait for s.
LEMMA FirstJoinStep ==
  ASSUME NEW m, NEW Q, Rep(m, Q), NEW s \in Sem, NEW p \in PCB, Off(m, p),
         m.p_semAdd[p] = s, \A e \in ActiveD(Q) : m.s_key[e] # s
  PROVE  LET d == container_of(m.next[semdFree_h])
             r == list_add_tail(Activate(m, s), p_list(p), procq(d))
         IN  /\ Good(r) /\ SameButAsl(m, r) /\ r.p_semAdd = m.p_semAdd
             /\ FreeIn(r) = FreeIn(m) /\ ReadyIn(r) = ReadyIn(m)
             /\ QueueIn(r, s) = P!InsertTail(QueueIn(m, s), p) /\ QueuesBut(m, r, s)
<1> DEFINE d == container_of(m.next[semdFree_h])
           B == LargerKeys(m, Q, s)
           m1 == Activate(m, s)
           r == list_add_tail(m1, p_list(p), procq(d))
           Q0 == [Q EXCEPT ![semdFree_h] = O!Without(@, {s_link(d)})]
           Q1 == [Q0 EXCEPT ![semd_h] = Linked(@, s_link(d), B)]
           new == Linked(Q1[procq(d)], p_list(p), {})
           Q2 == [Q1 EXCEPT ![procq(d)] = new]
<1>1. /\ Shape(m, Q) /\ Kinds(Q) /\ AslKept(m, Q) /\ Typed(m) /\ DOMAIN Q = Heads
      /\ semdFree_h \in Heads /\ semd_h \in Heads /\ semd_h # semdFree_h
      /\ Unlinked(Q, p_list(p))
  BY HeadNames, OffNodes DEF Rep, Shape
<1>2. /\ d \in Semd \ ActiveD(Q) /\ s_link(d) \in O!Elems(Q[semdFree_h])
      /\ Shape(m1, Q1) /\ Inited(m) \subseteq Inited(m1) /\ procq(d) \in Inited(m1)
      /\ SameButAsl(m, m1) /\ m1.p_semAdd = m.p_semAdd /\ m1.s_key = [m.s_key EXCEPT ![d] = s]
  <2>1. O!Elems(Q[semdFree_h]) # {}
    BY <1>1, DescriptorLeft
  <2> HIDE DEF d, m1, Q1
  <2>2. Q1 = [[Q EXCEPT ![semdFree_h] = O!Without(@, {s_link(d)})]
                EXCEPT ![semd_h] = Linked(@, s_link(d), LargerKeys(m, Q, s))]
    BY DEF Q1
  <2>3. d = container_of(m.next[semdFree_h]) /\ m1 = Activate(m, s)
    BY DEF d, m1
  <2>4. Activated(m, Q, s, d, m1, Q1)
    BY <2>1, <2>2, <2>3, ActivateShape
  <2> QED
    BY <2>4 DEF Activated
<1> HIDE DEF d, m1, B
<1>3. /\ O!IsQueue(Q[semd_h]) /\ s_link(d) \in Node \ O!Elems(Q[semd_h]) /\ IsRest(Q[semd_h], B)
      /\ O!IsQueue(Q[semdFree_h]) /\ procq(d) \in Heads
  <2>1. s \in Nat
    BY SemNat
  <2>2. s_link(d) \notin O!Elems(Q[semd_h])
    BY <1>1, <1>2 DEF Shape
  <2> QED
    BY <1>1, <1>2, <2>1, <2>2, LargerRest, ShapeQueues, NodeNames DEF B
<1>4. /\ Q1[semdFree_h] = O!Without(Q[semdFree_h], {s_link(d)})
      /\ Q1[semd_h] = Linked(Q[semd_h], s_link(d), B)
      /\ \A h \in Heads : h # semdFree_h /\ h # semd_h => Q1[h] = Q[h]
      /\ DOMAIN Q1 = Heads
  BY <1>1
<1>5. /\ O!Elems(Q1[semdFree_h]) = O!Elems(Q[semdFree_h]) \ {s_link(d)}
      /\ O!Elems(Q1[semd_h]) = O!Elems(Q[semd_h]) \cup {s_link(d)}
      /\ \A x, y \in O!Elems(Q[semd_h]) : <<x, y>> \in Q1[semd_h] <=> <<x, y>> \in Q[semd_h]
      /\ \A x \in O!Elems(Q[semd_h]) : /\ <<x, s_link(d)>> \in Q1[semd_h] <=> x \notin B
                                       /\ <<s_link(d), x>> \in Q1[semd_h] <=> x \in B
  <2> HIDE DEF Q1
  <2>1. O!Elems(Q1[semdFree_h]) = O!Elems(Q[semdFree_h]) \ {s_link(d)}
    BY <1>3, <1>4, O!WithoutQueue
  <2> DEFINE q == Q[semd_h]
             n == s_link(d)
  <2>2. O!IsQueue(q) /\ n \in Node \ O!Elems(q) /\ IsRest(q, B) /\ Q1[semd_h] = Linked(q, n, B)
    BY <1>3, <1>4
  <2> HIDE DEF q, n
  <2>3. /\ O!Elems(Linked(q, n, B)) = O!Elems(q) \cup {n}
        /\ \A x, y \in O!Elems(q) : <<x, y>> \in Linked(q, n, B) <=> <<x, y>> \in q
        /\ \A x \in O!Elems(q) : /\ <<x, n>> \in Linked(q, n, B) <=> x \notin B
                                 /\ <<n, x>> \in Linked(q, n, B) <=> x \in B
    BY <2>2, LinkedQueue
  <2> QED
    BY <2>1, <2>2, <2>3 DEF q, n
<1> HIDE DEF Q1
<1>6. /\ procq(d) # semdFree_h /\ procq(d) # semd_h /\ Q1[procq(d)] = Q[procq(d)]
      /\ O!Elems(Q[procq(d)]) = {} /\ O!Elems(Q1[procq(d)]) \subseteq PLists
      /\ Unlinked(Q1, p_list(p))
  <2>1. procq(d) # semdFree_h /\ procq(d) # semd_h
    BY <1>2, HeadNames
  <2>2. p_list(p) # s_link(d)
    BY <1>2, NodeNames
  <2>3. Unlinked(Q1, p_list(p))
    BY <1>1, <1>4, <1>5, <2>2 DEF Unlinked
  <2> QED
    BY <1>1, <1>2, <1>3, <1>4, <2>1, <2>3 DEF AslKept
<1> HIDE DEF r, new
<1>7. /\ Shape(r, Q2) /\ Inited(m1) \subseteq Inited(r) /\ SameData(m1, r)
      /\ O!Elems(new) = {p_list(p)}
      /\ Queue(new) = P!InsertTail(Queue(Q[procq(d)]), p)
  BY <1>2, <1>6, JoinShape DEF new, r
<1>8. Q2[procq(d)] = new /\ \A h \in Heads : h # procq(d) => Q2[h] = Q1[h]
  BY <1>3, <1>4
<1> HIDE DEF Q2
<1>9. /\ \A e \in Semd : procq(e) \in Heads /\ (e # d => Q2[procq(e)] = Q[procq(e)])
      /\ Q2[semd_h] = Q1[semd_h] /\ Q2[semdFree_h] = Q1[semdFree_h]
      /\ Q2[pcbFree_h] = Q[pcbFree_h] /\ Q2[readyQueue] = Q[readyQueue]
      /\ \A x \in PCB : Q2[p_child(x)] = Q[p_child(x)]
  BY <1>1, <1>2, <1>4, <1>6, <1>8, NodeNames, HeadNames
<1>10. ActiveD(Q2) = ActiveD(Q) \cup {d}
  BY <1>2, <1>5, <1>9, NodeNames DEF ActiveD
<1>11. r.s_key = [m.s_key EXCEPT ![d] = s] /\ r.p_semAdd = m.p_semAdd /\ SameButAsl(m, r)
  BY <1>2, <1>7 DEF SameData, SameButAsl
<1>12. r.s_key[d] = s /\ \A e \in Semd \ {d} : r.s_key[e] = m.s_key[e]
  BY <1>1, <1>2, <1>11 DEF Typed
<1>13. Kinds(Q2)
  <2>1. ASSUME NEW h \in PHeads PROVE O!Elems(Q2[h]) \subseteq PLists
    <3>1. h \notin {semdFree_h, semd_h} /\ h \in Heads
      BY HeadNames, PHeadsAreHeads DEF PHeads
    <3>2. O!Elems(Q[h]) \subseteq PLists
      BY <1>1 DEF Kinds
    <3> QED
      BY <1>4, <1>7, <1>8, <3>1, <3>2 DEF PLists
  <2>2. O!Elems(Q2[semdFree_h]) \cup O!Elems(Q2[semd_h]) = {s_link(e) : e \in Semd}
    BY <1>1, <1>2, <1>5, <1>9 DEF Kinds
  <2> QED
    BY <1>1, <1>9, <2>1, <2>2 DEF Kinds
<1>14. AslKept(r, Q2)
  <2>0. \A e \in Semd : m.s_key[e] \in Nat
    BY <1>1, KeysNat
  <2>1. ASSUME NEW x \in ActiveD(Q2), NEW y \in ActiveD(Q2),
               <<s_link(x), s_link(y)>> \in Q2[semd_h], x # y
        PROVE  r.s_key[x] < r.s_key[y]
    <3>1. CASE x # d /\ y # d
      <4>1. x \in ActiveD(Q) /\ y \in ActiveD(Q) /\ x \in Semd /\ y \in Semd
        BY <1>10, <3>1 DEF ActiveD
      <4>2. <<s_link(x), s_link(y)>> \in Q[semd_h]
        BY <1>5, <1>9, <2>1, <4>1 DEF ActiveD
      <4> QED
        BY <1>1, <1>12, <2>1, <3>1, <4>1, <4>2 DEF AslKept
    <3>2. CASE x = d /\ y # d
      <4>1. y \in ActiveD(Q) /\ y \in Semd /\ s_link(y) \in O!Elems(Q[semd_h])
        BY <1>10, <3>2 DEF ActiveD
      <4>2. s_link(y) \in B
        BY <1>5, <1>9, <2>1, <3>2, <4>1
      <4>3. m.s_key[y] > s
        BY <4>1, <4>2, NodeNames DEF B, LargerKeys, ActiveD
      <4> QED
        BY <1>12, <2>0, <3>2, <4>1, <4>3, SemNat
    <3>3. CASE x # d /\ y = d
      <4>1. x \in ActiveD(Q) /\ x \in Semd /\ s_link(x) \in O!Elems(Q[semd_h])
        BY <1>10, <3>3 DEF ActiveD
      <4>2. s_link(x) \notin B
        BY <1>5, <1>9, <2>1, <3>3, <4>1
      <4>3. ~(m.s_key[x] > s) /\ m.s_key[x] # s
        BY <4>1, <4>2 DEF B, LargerKeys
      <4> QED
        BY <1>12, <2>0, <3>3, <4>1, <4>3, SemNat
    <3> QED
      BY <2>1, <3>1, <3>2, <3>3
  <2>2. \A e \in ActiveD(Q2) : r.s_key[e] \in Sem /\ O!Elems(Q2[procq(e)]) # {}
    <3> SUFFICES ASSUME NEW e \in ActiveD(Q2)
                 PROVE  r.s_key[e] \in Sem /\ O!Elems(Q2[procq(e)]) # {}
      OBVIOUS
    <3>1. CASE e = d
      BY <1>7, <1>8, <1>12, <3>1
    <3>2. CASE e # d
      BY <1>1, <1>9, <1>10, <1>12, <3>2 DEF AslKept, ActiveD
    <3> QED
      BY <3>1, <3>2
  <2>3. \A e \in Semd \ ActiveD(Q2) : O!Elems(Q2[procq(e)]) = {}
    BY <1>1, <1>9, <1>10 DEF AslKept
  <2>4. ASSUME NEW e \in Semd, NEW x \in PCB, p_list(x) \in O!Elems(Q2[procq(e)])
        PROVE  r.p_semAdd[x] = r.s_key[e]
    <3>1. CASE e = d
      <4>1. x = p
        BY <1>7, <1>8, <2>4, <3>1, NodeNames
      <4> QED
        BY <1>11, <1>12, <3>1, <4>1
    <3>2. CASE e # d
      BY <1>1, <1>9, <1>11, <1>12, <2>4, <3>2 DEF AslKept
    <3> QED
      BY <3>1, <3>2
  <2> QED
    BY <2>1, <2>2, <2>3, <2>4 DEF AslKept
<1>15. Typed(r) /\ AslOnly(Q, Q2)
  <2>1. [m.s_key EXCEPT ![d] = s] \in [Semd -> Sem \cup {Null}]
    BY <1>1, <1>2, ExceptType DEF Typed
  <2>2. Typed(r)
    BY <1>1, <1>11, <2>1 DEF Typed, SameButAsl
  <2>3. AslOnly(Q, Q2)
    BY <1>2, <1>4, <1>8 DEF AslOnly
  <2> QED
    BY <2>2, <2>3
<1>16. Good(r) /\ Rep(r, Q2) /\ FreeIn(r) = FreeIn(m) /\ ReadyIn(r) = ReadyIn(m)
  <2>1. Inited(m) \subseteq Inited(r)
    BY <1>2, <1>7
  <2> QED
    BY <1>7, <1>11, <1>13, <1>14, <1>15, <2>1, AslStep
<1>17. QueueIn(r, s) = P!InsertTail(QueueIn(m, s), p)
  <2>1. QueueIn(m, s) = {}
    BY QueueFound
  <2>2. Q[procq(d)] = {}
    BY <1>1, <1>3, <1>6, ShapeQueues DEF O!IsQueue
  <2>3. Queue({}) = {}
    BY DEF Queue
  <2>4. QueueIn(r, s) = Queue(Q2[procq(d)])
    BY <1>10, <1>12, <1>16, QueueFound
  <2> QED
    BY <1>7, <1>8, <2>1, <2>2, <2>3, <2>4
<1>18. ASSUME NEW t \in Sem \ {s} PROVE QueueIn(r, t) = QueueIn(m, t)
  <2>2. CASE \E e \in ActiveD(Q) : m.s_key[e] = t
    <3>1. PICK e \in ActiveD(Q) : m.s_key[e] = t
      BY <2>2
    <3>2. e # d /\ e \in Semd /\ e \in ActiveD(Q2) /\ r.s_key[e] = t
      BY <1>2, <1>10, <1>12, <3>1 DEF ActiveD
    <3>3. QueueIn(m, t) = Queue(Q[procq(e)]) /\ QueueIn(r, t) = Queue(Q2[procq(e)])
      BY <1>16, <3>1, <3>2, QueueFound
    <3> QED
      BY <1>9, <3>2, <3>3
  <2>3. CASE \A e \in ActiveD(Q) : m.s_key[e] # t
    <3>1. \A e \in ActiveD(Q2) : r.s_key[e] # t
      BY <1>10, <1>12, <2>3 DEF ActiveD
    <3>2. QueueIn(m, t) = {}
      BY <2>3, QueueFound
    <3> QED
      BY <1>16, <3>1, <3>2, QueueFound
  <2> QED
    BY <2>2, <2>3
<1> QED
  BY <1>11, <1>16, <1>17, <1>18 DEF QueuesBut, d, r, m1

\* What is written is what was there.
LEMMA SameWrite ==
  ASSUME NEW m, m = [f \in DOMAIN m |-> m[f]], DOMAIN m = MemFields,
         m.p_semAdd \in [PCB -> Sem \cup {Null}], NEW p \in PCB
  PROVE  [m EXCEPT !.p_semAdd[p] = m.p_semAdd[p]] = m
<1> DEFINE g == [m.p_semAdd EXCEPT ![p] = m.p_semAdd[p]]
<1>1. g = m.p_semAdd
  OBVIOUS
<1>2. [m EXCEPT !.p_semAdd[p] = m.p_semAdd[p]] = [m EXCEPT !.p_semAdd = g]
  OBVIOUS
<1> HIDE DEF g
<1>3. [m EXCEPT !.p_semAdd = m.p_semAdd] = m
  OBVIOUS
<1> QED
  BY <1>1, <1>2, <1>3

\* insertBlocked of a PCB that waits nowhere.
Blocks(m, r, p, s) ==
  /\ Good(r) /\ SameButAsl(m, r) /\ r.p_semAdd = [m.p_semAdd EXCEPT ![p] = s]
  /\ FreeIn(r) = FreeIn(m) /\ ReadyIn(r) = ReadyIn(m)
  /\ QueueIn(r, s) = P!InsertTail(QueueIn(m, s), p) /\ QueuesBut(m, r, s)

\* insertBlocked puts the PCB at the tail of the queue of s.
LEMMA BlockStep ==
  ASSUME NEW m, Good(m), NEW p, Off(m, p), NEW s \in Sem
  PROVE  Blocks(m, insertBlocked([m EXCEPT !.p_semAdd[p] = s], s, p), p, s)
<1> DEFINE m0 == [m EXCEPT !.p_semAdd[p] = s]
           r == insertBlocked(m0, s, p)
<1>1. /\ p \in PCB /\ Typed(m) /\ DOMAIN m = MemFields
  BY GoodLists DEF Off
<1>2. /\ DOMAIN m0 = MemFields /\ m0.next = m.next /\ m0.prev = m.prev /\ m0.s_key = m.s_key
      /\ m0.p_parent = m.p_parent /\ m0.p_semAdd = [m.p_semAdd EXCEPT ![p] = s]
      /\ SameButAsl(m, m0) /\ m0 = [f \in DOMAIN m0 |-> m0[f]]
  BY <1>1 DEF MemFields, SameButAsl
<1>3. m0.p_semAdd \in [PCB -> Sem \cup {Null}] /\ m0.p_semAdd[p] = s
      /\ \A x \in PCB \ {p} : m0.p_semAdd[x] = m.p_semAdd[x]
  BY <1>1, <1>2 DEF Typed
<1> HIDE DEF m0
<1>4. Typed(m0)
  BY <1>1, <1>2, <1>3 DEF Typed, SameButAsl
<1>5. Good(m0) /\ SameLists(m, m0)
  <2>1. \A x \in PCB : m0.p_semAdd[x] = m.p_semAdd[x] \/ Off(m, x)
    BY <1>3
  <2> QED
    BY <1>2, <1>4, <2>1, DataStays
<1>6. Off(m0, p)
  BY <1>5 DEF Off, SameLists
<1>7. PICK Q : Rep(m0, Q)
  BY <1>5 DEF Good
<1>8. Unlinked(Q, p_list(p))
  BY <1>1, <1>6, <1>7, OffNodes
<1>9. SUFFICES Blocks(m0, r, p, s)
  <2>1. [m0.p_semAdd EXCEPT ![p] = s] = m0.p_semAdd
    BY <1>3
  <2> HIDE DEF r
  <2>2. ASSUME Blocks(m0, r, p, s) PROVE Blocks(m, r, p, s)
    BY <1>2, <1>5, <2>1, <2>2 DEF Blocks, SameButAsl, SameLists, QueuesBut
  <2> QED
    BY <2>2 DEF r, m0
<1>10. ASSUME NEW x, x = [f \in DOMAIN x |-> x[f]], DOMAIN x = MemFields, x.p_semAdd = m0.p_semAdd
       PROVE  [x EXCEPT !.p_semAdd[p] = s] = x
  BY <1>1, <1>3, <1>10, SameWrite
<1>11. CASE \E d \in ActiveD(Q) : m0.s_key[d] = s
  <2>1. PICK d \in ActiveD(Q) : m0.s_key[d] = s
    BY <1>11
  <2>2. getSemd(m0, s) = d /\ d # Null
    BY <1>7, <2>1, SemdFound, TableAssumption DEF ActiveD
  <2>3. r = list_add_tail([m0 EXCEPT !.p_semAdd[p] = s], p_list(p), procq(d))
    BY <2>2 DEF insertBlocked
  <2>4. r = list_add_tail(m0, p_list(p), procq(d))
    BY <1>2, <1>10, <2>3
  <2> HIDE DEF r
  <2>5. LET a == list_add_tail(m0, p_list(p), procq(d))
            t == m0.s_key[d]
        IN  /\ Good(a) /\ SameData(m0, a) /\ FreeIn(a) = FreeIn(m0) /\ ReadyIn(a) = ReadyIn(m0)
            /\ QueueIn(a, t) = P!InsertTail(QueueIn(m0, t), p) /\ QueuesBut(m0, a, t)
    BY <1>1, <1>3, <1>6, <1>7, <2>1, JoinStep
  <2>6. [m0.p_semAdd EXCEPT ![p] = s] = m0.p_semAdd
    BY <1>3
  <2> QED
    BY <2>1, <2>4, <2>5, <2>6 DEF Blocks, SameData, SameButAsl
<1>12. CASE \A d \in ActiveD(Q) : m0.s_key[d] # s
  <2> DEFINE d == container_of(m0.next[semdFree_h])
  <2>1. getSemd(m0, s) = Null
    BY <1>7, <1>12, SemdFound
  <2>2. ~list_empty(m0, semdFree_h)
    <3>1. O!Elems(Q[semdFree_h]) # {}
      BY <1>1, <1>7, <1>8, DescriptorLeft
    <3>2. Shape(m0, Q) /\ semdFree_h \in Inited(m0) /\ semdFree_h \in Heads
      BY <1>7, HeadNames DEF Rep
    <3> QED
      BY <3>1, <3>2, EmptyList
  <2>3. r = list_add_tail([Activate(m0, s) EXCEPT !.p_semAdd[p] = s], p_list(p), procq(d))
    BY <2>1, <2>2 DEF insertBlocked
  <2>4. LET a == list_add_tail(Activate(m0, s), p_list(p), procq(d)) IN
        /\ Good(a) /\ SameButAsl(m0, a) /\ a.p_semAdd = m0.p_semAdd
        /\ FreeIn(a) = FreeIn(m0) /\ ReadyIn(a) = ReadyIn(m0)
        /\ QueueIn(a, s) = P!InsertTail(QueueIn(m0, s), p) /\ QueuesBut(m0, a, s)
    BY <1>1, <1>3, <1>6, <1>7, <1>12, FirstJoinStep
  <2>5. Activate(m0, s) = [f \in DOMAIN Activate(m0, s) |-> Activate(m0, s)[f]]
    <3> DEFINE m1 == INIT_LIST_HEAD([list_del(m0, s_link(d)) EXCEPT !.s_key[d] = s],
                                    procq(d))
               larger == {s_link(x) : x \in {y \in Semd : m1.s_key[y] > s}}
               h == list_for_each(m1, semd_h, larger)
    <3>1. Activate(m0, s) = list_add_tail(m1, s_link(d), h)
      BY DEF Activate
    <3> HIDE DEF d, m1, larger, h
    <3> QED
      BY <3>1 DEF list_add_tail, LinkBetween
  <2>6. DOMAIN Activate(m0, s) = MemFields /\ Activate(m0, s).p_semAdd = m0.p_semAdd
    <3> DEFINE a == Activate(m0, s)
               Q2 == [[Q EXCEPT ![semdFree_h] = O!Without(@, {s_link(d)})]
                         EXCEPT ![semd_h] = Linked(@, s_link(d), LargerKeys(m0, Q, s))]
    <3>1. O!Elems(Q[semdFree_h]) # {}
      BY <1>1, <1>7, <1>8, DescriptorLeft
    <3> HIDE DEF a
    <3>2. a = Activate(m0, s) /\ d = container_of(m0.next[semdFree_h])
      BY DEF a
    <3>4. Q2 = [[Q EXCEPT ![semdFree_h] = O!Without(@, {s_link(d)})]
                 EXCEPT ![semd_h] = Linked(@, s_link(d), LargerKeys(m0, Q, s))]
      OBVIOUS
    <3> HIDE DEF d, Q2
    <3>3. Activated(m0, Q, s, d, a, Q2)
      BY <1>7, <1>12, <3>1, <3>2, <3>4, ActivateShape
    <3> QED
      BY <3>2, <3>3 DEF Activated, Shape, Sound
  <2>7. r = list_add_tail(Activate(m0, s), p_list(p), procq(d))
    <3> DEFINE a == Activate(m0, s)
    <3> HIDE DEF a
    <3>1. [a EXCEPT !.p_semAdd[p] = s] = a
      BY <1>10, <2>5, <2>6 DEF a
    <3> QED
      BY <2>3, <3>1 DEF a
  <2> HIDE DEF r, d
  <2>8. [m0.p_semAdd EXCEPT ![p] = s] = m0.p_semAdd
    BY <1>3
  <2> QED
    BY <2>4, <2>7, <2>8 DEF Blocks
<1> QED
  BY <1>11, <1>12

\* Who waits first for s.
LEMMA HeadStep ==
  ASSUME NEW m, Good(m), NEW s \in Sem
  PROVE  headBlocked(m, s) = IF P!Elems(QueueIn(m, s)) = {} THEN Null
                             ELSE P!headProcQ(QueueIn(m, s))
<1>1. PICK Q : Rep(m, Q)
  BY DEF Good
<1>2. CASE \E d \in ActiveD(Q) : m.s_key[d] = s
  <2>1. PICK d \in ActiveD(Q) : m.s_key[d] = s
    BY <1>2
  <2>2. /\ getSemd(m, s) = d /\ d \in Semd /\ d # Null
        /\ QueueIn(m, s) = Queue(Q[procq(d)])
    BY <1>1, <2>1, SemdFound, QueueFound, TableAssumption DEF ActiveD
  <2>3. /\ Shape(m, Q) /\ procq(d) \in Heads
        /\ O!Elems(Q[procq(d)]) \subseteq PLists /\ O!Elems(Q[procq(d)]) # {}
    BY <1>1, <2>1, <2>2, NodeNames DEF Rep, Kinds, PHeads, AslKept
  <2>4. procq(d) \in Inited(m)
    BY <2>3, ShapeQueues
  <2>5. P!Elems(QueueIn(m, s)) # {}
    BY <2>2, <2>3, QueuePairs DEF PLists
  <2>6. ~list_empty(m, procq(d)) /\ container_of(m.next[procq(d)]) = P!headProcQ(QueueIn(m, s))
        /\ m.next[procq(d)] = p_list(P!headProcQ(QueueIn(m, s)))
        /\ P!headProcQ(QueueIn(m, s)) \in PCB
    BY <2>2, <2>3, <2>4, <2>5, FirstPcb
  <2>7. list_next(m, procq(d)) = m.next[procq(d)] /\ m.next[procq(d)] # NoNode
    BY <2>6, NodeNames, NodesFinite DEF list_next
  <2> QED
    BY <2>2, <2>5, <2>6, <2>7 DEF headBlocked
<1>3. CASE \A d \in ActiveD(Q) : m.s_key[d] # s
  <2>1. getSemd(m, s) = Null /\ QueueIn(m, s) = {}
    BY <1>1, <1>3, SemdFound, QueueFound
  <2>2. P!Elems({}) = {}
    BY P!EmptyIsQueue
  <2> QED
    BY <2>1, <2>2 DEF headBlocked
<1> QED
  BY <1>2, <1>3

\* A waiting process leaves the queue it is in.
Unblocks(m, r, p, s) ==
  /\ Good(r) /\ SameData(m, r) /\ FreeIn(r) = FreeIn(m) /\ ReadyIn(r) = ReadyIn(m)
  /\ QueueIn(r, s) = P!Without(QueueIn(m, s), {p}) /\ QueuesBut(m, r, s)

\* Nobody is left in the queue: the descriptor is released.
LEMMA ReleaseStep ==
  ASSUME NEW m, NEW Q, Rep(m, Q), NEW d \in ActiveD(Q), NEW p \in PCB,
         O!Elems(Q[procq(d)]) = {p_list(p)},
         NEW m1, m1 = list_del(m, p_list(p)),
         NEW r, r = list_add_tail(list_del(m1, s_link(d)), s_link(d), semdFree_h)
  PROVE  Unblocks(m, r, p, m.s_key[d])
<1> DEFINE s == m.s_key[d]
           Q1 == [Q EXCEPT ![procq(d)] = O!Without(@, {p_list(p)})]
           m2 == list_del(m1, s_link(d))
           Q2 == [Q1 EXCEPT ![semd_h] = O!Without(@, {s_link(d)})]
           Q3 == [Q2 EXCEPT ![semdFree_h] = Linked(@, s_link(d), {})]
<1>1. /\ Shape(m, Q) /\ Kinds(Q) /\ AslKept(m, Q) /\ Typed(m) /\ DOMAIN Q = Heads
      /\ semdFree_h \in Heads /\ semd_h \in Heads /\ semd_h # semdFree_h
      /\ semdFree_h \in Inited(m)
      /\ d \in Semd /\ procq(d) \in Heads /\ procq(d) # semdFree_h /\ procq(d) # semd_h
      /\ s \in Sem /\ s_link(d) \in O!Elems(Q[semd_h]) /\ s_link(d) \in Node \ Heads
  BY HeadNames, NodeNames DEF Rep, Shape, ActiveD, AslKept
<1>2. \A h \in Heads : O!IsQueue(Q[h])
  BY <1>1, ShapeQueues
<1>3. Shape(m1, Q1) /\ Inited(m1) = Inited(m) /\ SameData(m, m1)
  <2>1. p_list(p) \in O!Elems(Q[procq(d)]) /\ Shape(m, Q) /\ procq(d) \in Heads
    BY <1>1
  <2> QED
    BY <2>1, DelShape
<1>4. /\ Q1[procq(d)] = O!Without(Q[procq(d)], {p_list(p)})
      /\ \A h \in Heads : h # procq(d) => Q1[h] = Q[h]
      /\ DOMAIN Q1 = Heads /\ O!Elems(Q1[procq(d)]) = {}
  <2>1. O!Elems(O!Without(Q[procq(d)], {p_list(p)})) = {}
    BY <1>1, <1>2, O!WithoutQueue
  <2> QED
    BY <1>1, <2>1
<1> HIDE DEF Q1
<1>5. Shape(m2, Q2) /\ Inited(m2) = Inited(m) /\ SameData(m, m2)
  <2>1. s_link(d) \in O!Elems(Q1[semd_h])
    BY <1>1, <1>4
  <2>2. Shape(m2, Q2) /\ Inited(m2) = Inited(m1) /\ SameData(m1, m2)
    BY <1>1, <1>3, <2>1, DelShape
  <2> HIDE DEF m2, Q2
  <2> QED
    BY <1>3, <2>2 DEF SameData
<1> HIDE DEF m2
<1>6. /\ Q2[semd_h] = O!Without(Q[semd_h], {s_link(d)})
      /\ \A h \in Heads : h # semd_h => Q2[h] = Q1[h]
      /\ DOMAIN Q2 = Heads /\ O!Elems(Q2[semd_h]) = O!Elems(Q[semd_h]) \ {s_link(d)}
  BY <1>1, <1>2, <1>4, O!WithoutQueue
<1> HIDE DEF Q2
<1>7. /\ Unlinked(Q2, s_link(d)) /\ semdFree_h \in Inited(m2) /\ IsRest(Q2[semdFree_h], {})
      /\ Q2[semdFree_h] = Q[semdFree_h]
  <2>1. \A g \in Heads : g # semd_h => s_link(d) \notin O!Elems(Q[g])
    BY <1>1 DEF Shape
  <2>2. ASSUME NEW g \in Heads PROVE s_link(d) \notin O!Elems(Q2[g])
    BY <1>4, <1>6, <2>1
  <2> QED
    BY <1>1, <1>4, <1>5, <1>6, <2>2 DEF Unlinked, IsRest
<1>8. LET a == list_add_tail(m2, s_link(d), FirstNode(semdFree_h, Q2[semdFree_h], {})) IN
      /\ Shape(a, [Q2 EXCEPT ![semdFree_h] = Linked(@, s_link(d), {})])
      /\ Inited(a) = Inited(m2) \cup {s_link(d)} /\ SameData(m2, a)
  BY <1>1, <1>5, <1>7, AddShape
<1>9. Shape(r, Q3) /\ Inited(m) \subseteq Inited(r) /\ SameData(m, r)
  <2>1. FirstNode(semdFree_h, Q2[semdFree_h], {}) = semdFree_h
    BY DEF FirstNode
  <2>2. r = list_add_tail(m2, s_link(d), semdFree_h)
    BY DEF m2
  <2>3. Shape(r, Q3) /\ Inited(r) = Inited(m2) \cup {s_link(d)} /\ SameData(m2, r)
    BY <1>8, <2>1, <2>2
  <2> HIDE DEF Q3
  <2> QED
    BY <1>5, <2>3 DEF SameData
<1>10. /\ Q3[semdFree_h] = Linked(Q[semdFree_h], s_link(d), {})
       /\ \A h \in Heads : h # semdFree_h => Q3[h] = Q2[h]
       /\ O!Elems(Q3[semdFree_h]) = O!Elems(Q[semdFree_h]) \cup {s_link(d)}
  <2>1. s_link(d) \in Node \ O!Elems(Q[semdFree_h]) /\ O!IsQueue(Q[semdFree_h])
    BY <1>1, <1>2, <1>7 DEF Unlinked
  <2>2. O!Elems(Linked(Q[semdFree_h], s_link(d), {})) = O!Elems(Q[semdFree_h]) \cup {s_link(d)}
    BY <1>7, <2>1, LinkedQueue
  <2> QED
    BY <1>1, <1>6, <1>7, <2>2
<1> HIDE DEF Q3
<1>11. /\ \A e \in Semd : procq(e) \in Heads /\ (e # d => Q3[procq(e)] = Q[procq(e)])
       /\ Q3[procq(d)] = Q1[procq(d)] /\ Q3[semd_h] = Q2[semd_h]
       /\ Q3[pcbFree_h] = Q[pcbFree_h] /\ Q3[readyQueue] = Q[readyQueue]
       /\ \A x \in PCB : Q3[p_child(x)] = Q[p_child(x)]
  BY <1>1, <1>4, <1>6, <1>10, NodeNames, HeadNames
<1>12. ActiveD(Q3) = ActiveD(Q) \ {d}
  BY <1>6, <1>11, <1>1, NodeNames DEF ActiveD
<1>13. Kinds(Q3)
  <2>1. ASSUME NEW h \in PHeads PROVE O!Elems(Q3[h]) \subseteq PLists
    <3>1. h \notin {semdFree_h, semd_h} /\ h \in Heads
      BY HeadNames, PHeadsAreHeads DEF PHeads
    <3>2. O!Elems(Q[h]) \subseteq PLists
      BY <1>1 DEF Kinds
    <3> QED
      BY <1>4, <1>6, <1>10, <3>1, <3>2
  <2>2. O!Elems(Q3[semdFree_h]) \cup O!Elems(Q3[semd_h]) = {s_link(e) : e \in Semd}
    BY <1>1, <1>6, <1>10, <1>11 DEF Kinds
  <2> QED
    BY <1>1, <1>11, <2>1, <2>2 DEF Kinds
<1>14. r.s_key = m.s_key /\ r.p_semAdd = m.p_semAdd /\ SameButAsl(m, r)
  BY <1>9 DEF SameData, SameButAsl
<1>15. AslKept(r, Q3)
  <2>1. ASSUME NEW x \in ActiveD(Q3), NEW y \in ActiveD(Q3),
               <<s_link(x), s_link(y)>> \in Q3[semd_h], x # y
        PROVE  r.s_key[x] < r.s_key[y]
    <3>1. <<s_link(x), s_link(y)>> \in Q[semd_h]
      BY <1>6, <1>11, <2>1 DEF O!Without
    <3> QED
      BY <1>1, <1>12, <1>14, <2>1, <3>1 DEF AslKept
  <2>2. \A e \in ActiveD(Q3) : r.s_key[e] \in Sem /\ O!Elems(Q3[procq(e)]) # {}
    BY <1>1, <1>11, <1>12, <1>14 DEF AslKept, ActiveD
  <2>3. \A e \in Semd \ ActiveD(Q3) : O!Elems(Q3[procq(e)]) = {}
    BY <1>1, <1>4, <1>11, <1>12 DEF AslKept
  <2>4. ASSUME NEW e \in Semd, NEW x \in PCB, p_list(x) \in O!Elems(Q3[procq(e)])
        PROVE  r.p_semAdd[x] = r.s_key[e]
    <3>1. e # d /\ p_list(x) \in O!Elems(Q[procq(e)])
      BY <1>4, <1>11, <2>4
    <3>2. m.p_semAdd[x] = m.s_key[e]
      BY <1>1, <3>1 DEF AslKept
    <3> QED
      BY <1>14, <3>2
  <2> QED
    BY <2>1, <2>2, <2>3, <2>4 DEF AslKept
<1>16. Typed(r) /\ AslOnly(Q, Q3)
  <2>1. Typed(r)
    BY <1>1, <1>9 DEF Typed, SameData
  <2> QED
    BY <1>1, <1>4, <1>6, <1>10, <2>1 DEF AslOnly
<1>17. Good(r) /\ Rep(r, Q3) /\ FreeIn(r) = FreeIn(m) /\ ReadyIn(r) = ReadyIn(m)
  BY <1>9, <1>13, <1>14, <1>15, <1>16, AslStep
<1>18. \A e \in ActiveD(Q) : m.s_key[e] = s => e = d
  <2>1. \A e \in ActiveD(Q) : m.s_key[e] = s => getSemd(m, s) = e
    BY <1>1, SemdFound
  <2> QED
    BY <2>1
<1>19. QueueIn(r, s) = P!Without(QueueIn(m, s), {p})
  <2>1. QueueIn(m, s) = Queue(Q[procq(d)]) /\ P!IsQueue(QueueIn(m, s))
    BY <1>1, QueueFound
  <2>2. \A e \in ActiveD(Q3) : r.s_key[e] # s
    BY <1>12, <1>14, <1>18
  <2>3. QueueIn(r, s) = {}
    BY <1>1, <1>17, <2>2, QueueFound
  <2>4. P!Elems(QueueIn(m, s)) = {p}
    BY <2>1, QueuePairs, NodeNames
  <2>5. P!IsQueue(P!Without(QueueIn(m, s), {p})) /\ P!Elems(P!Without(QueueIn(m, s), {p})) = {}
    BY <2>1, <2>4, P!WithoutQueue
  <2>6. P!Without(QueueIn(m, s), {p}) = {}
    BY <2>5 DEF P!IsQueue
  <2> QED
    BY <2>3, <2>6
<1>20. ASSUME NEW t \in Sem \ {s} PROVE QueueIn(r, t) = QueueIn(m, t)
  <2>2. CASE \E e \in ActiveD(Q) : m.s_key[e] = t
    <3>1. PICK e \in ActiveD(Q) : m.s_key[e] = t
      BY <2>2
    <3>2. e # d /\ e \in Semd /\ e \in ActiveD(Q3) /\ r.s_key[e] = t
      BY <1>12, <1>14, <3>1 DEF ActiveD
    <3>3. QueueIn(m, t) = Queue(Q[procq(e)]) /\ QueueIn(r, t) = Queue(Q3[procq(e)])
      BY <1>17, <3>1, <3>2, QueueFound
    <3> QED
      BY <1>11, <3>2, <3>3
  <2>3. CASE \A e \in ActiveD(Q) : m.s_key[e] # t
    <3>1. \A e \in ActiveD(Q3) : r.s_key[e] # t
      BY <1>12, <1>14, <2>3
    <3>2. QueueIn(m, t) = {}
      BY <2>3, QueueFound
    <3> QED
      BY <1>17, <3>1, <3>2, QueueFound
  <2> QED
    BY <2>2, <2>3
<1> QED
  BY <1>9, <1>17, <1>19, <1>20 DEF Unblocks, QueuesBut

\* Somebody is left in the queue.
LEMMA LeaveStep ==
  ASSUME NEW m, NEW Q, Rep(m, Q), NEW d \in ActiveD(Q), NEW p \in PCB,
         p_list(p) \in O!Elems(Q[procq(d)]), O!Elems(Q[procq(d)]) # {p_list(p)},
         NEW r, r = list_del(m, p_list(p))
  PROVE  Unblocks(m, r, p, m.s_key[d])
<1> DEFINE s == m.s_key[d]
           Q1 == [Q EXCEPT ![procq(d)] = O!Without(@, {p_list(p)})]
<1>1. /\ Shape(m, Q) /\ Kinds(Q) /\ AslKept(m, Q) /\ Typed(m) /\ DOMAIN Q = Heads
      /\ d \in Semd /\ procq(d) \in Heads /\ procq(d) # semdFree_h /\ procq(d) # semd_h
      /\ s \in Sem /\ O!IsQueue(Q[procq(d)])
  <2>1. Shape(m, Q) /\ d \in Semd /\ procq(d) \in Heads
    BY NodeNames DEF Rep, ActiveD
  <2> QED
    BY <2>1, HeadNames, ShapeQueues DEF Rep, Shape, ActiveD, AslKept
<1>2. Shape(r, Q1) /\ Inited(r) = Inited(m) /\ SameData(m, r)
  BY <1>1, DelShape
<1>3. /\ Q1[procq(d)] = O!Without(Q[procq(d)], {p_list(p)})
      /\ \A h \in Heads : h # procq(d) => Q1[h] = Q[h]
      /\ O!Elems(Q1[procq(d)]) = O!Elems(Q[procq(d)]) \ {p_list(p)}
  BY <1>1, O!WithoutQueue
<1> HIDE DEF Q1
<1>4. /\ \A e \in Semd : procq(e) \in Heads /\ (e # d => Q1[procq(e)] = Q[procq(e)])
      /\ Q1[semd_h] = Q[semd_h] /\ Q1[semdFree_h] = Q[semdFree_h]
      /\ \A x \in PCB : Q1[p_child(x)] = Q[p_child(x)]
  BY <1>1, <1>3, NodeNames, HeadNames
<1>5. ActiveD(Q1) = ActiveD(Q)
  BY <1>4 DEF ActiveD
<1>6. r.s_key = m.s_key /\ r.p_semAdd = m.p_semAdd /\ SameButAsl(m, r) /\ Typed(r)
  BY <1>1, <1>2 DEF SameData, SameButAsl, Typed
<1>7. Kinds(Q1)
  <2>1. ASSUME NEW h \in PHeads PROVE O!Elems(Q1[h]) \subseteq PLists
    BY <1>1, <1>3, PHeadsAreHeads DEF Kinds
  <2> QED
    BY <1>1, <1>4, <2>1 DEF Kinds
<1>8. AslKept(r, Q1)
  <2>2. \A e \in ActiveD(Q1) : r.s_key[e] \in Sem /\ O!Elems(Q1[procq(e)]) # {}
    BY <1>1, <1>3, <1>4, <1>5, <1>6 DEF AslKept, ActiveD
  <2>3. \A e \in Semd \ ActiveD(Q1) : O!Elems(Q1[procq(e)]) = {}
    BY <1>1, <1>4, <1>5 DEF AslKept
  <2>4. ASSUME NEW e \in Semd, NEW x \in PCB, p_list(x) \in O!Elems(Q1[procq(e)])
        PROVE  r.p_semAdd[x] = r.s_key[e]
    <3>1. p_list(x) \in O!Elems(Q[procq(e)])
      BY <1>3, <1>4, <2>4
    <3>2. m.p_semAdd[x] = m.s_key[e]
      BY <1>1, <3>1 DEF AslKept
    <3> QED
      BY <1>6, <3>2
  <2> QED
    BY <1>1, <1>4, <1>5, <1>6, <2>2, <2>3, <2>4 DEF AslKept
<1>9. AslOnly(Q, Q1)
  BY <1>1, <1>3 DEF AslOnly
<1>10. Good(r) /\ Rep(r, Q1) /\ FreeIn(r) = FreeIn(m) /\ ReadyIn(r) = ReadyIn(m)
  <2>1. Inited(m) \subseteq Inited(r)
    BY <1>2
  <2> QED
    BY <1>2, <1>6, <1>7, <1>8, <1>9, <2>1, AslStep
<1>11. QueueIn(r, s) = P!Without(QueueIn(m, s), {p})
  <2>1. QueueIn(m, s) = Queue(Q[procq(d)])
    BY <1>1, QueueFound
  <2>2. QueueIn(r, s) = Queue(Q1[procq(d)])
    BY <1>1, <1>5, <1>6, <1>10, QueueFound
  <2> QED
    BY <1>3, <2>1, <2>2, QueueWithout
<1>12. ASSUME NEW t \in Sem \ {s} PROVE QueueIn(r, t) = QueueIn(m, t)
  <2>2. CASE \E e \in ActiveD(Q) : m.s_key[e] = t
    <3>1. PICK e \in ActiveD(Q) : m.s_key[e] = t
      BY <2>2
    <3>2. e # d /\ e \in Semd
      BY <3>1 DEF ActiveD
    <3>3. QueueIn(m, t) = Queue(Q[procq(e)]) /\ QueueIn(r, t) = Queue(Q1[procq(e)])
      BY <1>5, <1>6, <1>10, <3>1, QueueFound
    <3> QED
      BY <1>4, <3>2, <3>3
  <2>3. CASE \A e \in ActiveD(Q) : m.s_key[e] # t
    <3>1. \A e \in ActiveD(Q1) : r.s_key[e] # t
      BY <1>5, <1>6, <2>3
    <3>2. QueueIn(m, t) = {}
      BY <2>3, QueueFound
    <3> QED
      BY <1>10, <3>1, <3>2, QueueFound
  <2> QED
    BY <2>2, <2>3
<1> QED
  BY <1>2, <1>10, <1>11, <1>12 DEF Unblocks, QueuesBut

\* A process leaves the queue of a semaphore, and the descriptor is released
\* with the last one.
LEMMA UnblockStep ==
  ASSUME NEW m, Good(m), NEW s \in Sem, NEW p \in P!Elems(QueueIn(m, s))
  PROVE  /\ getSemd(m, s) # Null
         /\ Unblocks(m, Unblock(m, getSemd(m, s), p), p, s)
<1>1. PICK Q : Rep(m, Q)
  BY DEF Good
<1>2. P!Elems({}) = {}
  BY P!EmptyIsQueue
<1>3. PICK d \in ActiveD(Q) : m.s_key[d] = s
  BY <1>1, <1>2, QueueFound
<1>4. /\ getSemd(m, s) = d /\ d \in Semd /\ d # Null
      /\ QueueIn(m, s) = Queue(Q[procq(d)])
  BY <1>1, <1>3, SemdFound, QueueFound, TableAssumption DEF ActiveD
<1>5. p \in PCB /\ p_list(p) \in O!Elems(Q[procq(d)]) /\ Shape(m, Q) /\ procq(d) \in Heads
  BY <1>1, <1>4, QueuePairs, NodeNames DEF Rep
<1> DEFINE m1 == list_del(m, p_list(p))
           Q1 == [Q EXCEPT ![procq(d)] = O!Without(@, {p_list(p)})]
<1>6. emptyProcQ(m1, procq(d)) <=> O!Elems(Q[procq(d)]) = {p_list(p)}
  <2>1. Shape(m1, Q1) /\ Inited(m1) = Inited(m)
    BY <1>5, DelShape
  <2>2. procq(d) \in Inited(m)
    BY <1>5, ShapeQueues
  <2>3. O!Elems(Q1[procq(d)]) = O!Elems(Q[procq(d)]) \ {p_list(p)}
    <3>1. DOMAIN Q = Heads /\ O!IsQueue(Q[procq(d)])
      BY <1>5, ShapeQueues DEF Shape
    <3> QED
      BY <1>5, <3>1, O!WithoutQueue
  <2> HIDE DEF m1, Q1
  <2>4. list_empty(m1, procq(d)) <=> O!Elems(Q1[procq(d)]) = {}
    BY <1>5, <2>1, <2>2, EmptyList
  <2> QED
    BY <1>5, <2>3, <2>4 DEF emptyProcQ
<1>7. CASE O!Elems(Q[procq(d)]) = {p_list(p)}
  <2>1. Unblock(m, d, p) = list_add_tail(list_del(m1, s_link(d)), s_link(d), semdFree_h)
    BY <1>6, <1>7 DEF Unblock
  <2> HIDE DEF m1
  <2>2. m1 = list_del(m, p_list(p))
    BY DEF m1
  <2> QED
    BY <1>1, <1>3, <1>4, <1>5, <1>7, <2>1, <2>2, ReleaseStep
<1>8. CASE O!Elems(Q[procq(d)]) # {p_list(p)}
  <2>1. Unblock(m, d, p) = list_del(m, p_list(p))
    BY <1>6, <1>8 DEF Unblock
  <2> QED
    BY <1>1, <1>3, <1>4, <1>5, <1>8, <2>1, LeaveStep
<1> QED
  BY <1>7, <1>8

\* Who is not in a queue does not leave it.
LEMMA WithoutOther ==
  ASSUME NEW q, P!IsQueue(q), NEW p, p \notin P!Elems(q)
  PROVE  P!Without(q, {p}) = q
BY DEF P!IsQueue, P!Without

\* The first process that waits on s becomes ready.
Woke(m, r, p, s) ==
  /\ Good(r) /\ SameButAsl(m, r) /\ r.p_semAdd = [m.p_semAdd EXCEPT ![p] = Null]
  /\ FreeIn(r) = FreeIn(m)
  /\ ReadyIn(r) = P!insertProcQ(ReadyIn(m), p, m.p_prio)
  /\ QueueIn(r, s) = P!Without(QueueIn(m, s), {p}) /\ QueuesBut(m, r, s)

\* VERHOGEN, or a round of the clock loop, wakes the first of the queue.
LEMMA WakeStep ==
  ASSUME NEW m, Good(m), NEW s \in Sem, P!Elems(QueueIn(m, s)) # {}
  PROVE  /\ P!headProcQ(QueueIn(m, s)) \in P!Elems(QueueIn(m, s))
         /\ Woke(m, Wake(m, s), P!headProcQ(QueueIn(m, s)), s)
<1> DEFINE p == P!headProcQ(QueueIn(m, s))
           d == getSemd(m, s)
           m1 == Unblock(m, d, p)
           m2 == [m1 EXCEPT !.p_semAdd[p] = Null]
           r == insertProcQ(m2, readyQueue, p)
<1>1. headBlocked(m, s) = p
  BY HeadStep
<1>2. p \in P!Elems(QueueIn(m, s)) /\ p \in PCB /\ p # Null
  BY GoodLists, P!HeadFirst, TableAssumption DEF P!Elems
<1>3. removeBlocked(m, s) = m1
  BY <1>1, <1>2 DEF removeBlocked
<1>4. Wake(m, s) = r
  BY <1>1, <1>3 DEF Wake
<1> HIDE DEF p
<1>5. Unblocks(m, m1, p, s)
  BY <1>2, UnblockStep
<1> HIDE DEF d, m1
<1>6. /\ p \notin FreeIn(m) /\ p \notin P!Elems(ReadyIn(m))
      /\ \A t \in Sem : p \in P!Elems(QueueIn(m, t)) => t = s
  BY <1>2, GoodLists
<1>7. P!Elems(QueueIn(m1, s)) = P!Elems(QueueIn(m, s)) \ {p}
  BY <1>5, GoodLists, P!WithoutQueue DEF Unblocks
<1>8. Off(m1, p)
  BY <1>2, <1>5, <1>6, <1>7 DEF Off, Unblocks, QueuesBut
<1>9. /\ DOMAIN m1 = MemFields /\ Typed(m1) /\ Good(m1)
  BY <1>5, GoodLists DEF Unblocks
<1>10. /\ DOMAIN m2 = MemFields /\ m2.next = m1.next /\ m2.prev = m1.prev /\ m2.s_key = m1.s_key
       /\ m2.p_parent = m1.p_parent /\ m2.p_semAdd = [m1.p_semAdd EXCEPT ![p] = Null]
       /\ SameButAsl(m1, m2)
  BY <1>9 DEF MemFields, SameButAsl
<1> HIDE DEF m2
<1>11. Good(m2) /\ SameLists(m1, m2)
  <2>1. [m1.p_semAdd EXCEPT ![p] = Null] \in [PCB -> Sem \cup {Null}]
    BY <1>9, ExceptType DEF Typed
  <2>2. Typed(m2)
    BY <1>9, <1>10, <2>1 DEF Typed, SameButAsl
  <2>3. \A x \in PCB : m2.p_semAdd[x] = m1.p_semAdd[x] \/ Off(m1, x)
    BY <1>8, <1>9, <1>10 DEF Typed
  <2> QED
    BY <1>9, <1>10, <2>2, <2>3, DataStays
<1>12. Off(m2, p)
  BY <1>8, <1>11 DEF Off, SameLists
<1>13. LET a == insertProcQ(m2, readyQueue, p) IN
       /\ Good(a) /\ SameData(m2, a)
       /\ FreeIn(a) = FreeIn(m2) /\ \A t \in Sem : QueueIn(a, t) = QueueIn(m2, t)
       /\ ReadyIn(a) = P!insertProcQ(ReadyIn(m2), p, m2.p_prio)
  BY <1>11, <1>12, ReadyPut
<1>14. /\ Good(r) /\ SameData(m2, r)
       /\ FreeIn(r) = FreeIn(m2) /\ \A t \in Sem : QueueIn(r, t) = QueueIn(m2, t)
       /\ ReadyIn(r) = P!insertProcQ(ReadyIn(m2), p, m2.p_prio)
  BY <1>13
<1> HIDE DEF r
<1>15. /\ FreeIn(r) = FreeIn(m) /\ ReadyIn(m2) = ReadyIn(m)
       /\ QueueIn(r, s) = P!Without(QueueIn(m, s), {p}) /\ QueuesBut(m, r, s)
  BY <1>5, <1>11, <1>14 DEF Unblocks, SameLists, QueuesBut
<1>16. SameButAsl(m, r) /\ m2.p_prio = m.p_prio /\ r.p_semAdd = [m.p_semAdd EXCEPT ![p] = Null]
  BY <1>5, <1>10, <1>14 DEF Unblocks, SameData, SameButAsl
<1>17. Woke(m, r, p, s)
  BY <1>14, <1>15, <1>16 DEF Woke
<1> QED
  BY <1>2, <1>4, <1>17 DEF p

\* A process leaves the queue it is in, the ready queue or that of the
\* semaphore it waits on.
Left(m, r, p) ==
  /\ Good(r) /\ FreeIn(r) = FreeIn(m) /\ ReadyIn(r) = P!Without(ReadyIn(m), {p})
  /\ \A s \in Sem : QueueIn(r, s) = P!Without(QueueIn(m, s), {p})
  /\ r.p_parent = m.p_parent /\ r.p_prio = m.p_prio /\ r.p_pid = m.p_pid
  /\ r.next_pid = m.next_pid /\ r.currProc = m.currProc
  /\ r.processCount = m.processCount
  /\ r.p_semAdd = [m.p_semAdd EXCEPT ![p] = Null]
  /\ r.softBlockCount = m.softBlockCount - (IF m.p_semAdd[p] = Clock THEN 1 ELSE 0)

\* p is ready, or waits in the queue of its p_semAdd.
Queued(m, p) ==
  \/ p \in P!Elems(ReadyIn(m)) /\ m.p_semAdd[p] = Null
  \/ m.p_semAdd[p] \in Sem /\ p \in P!Elems(QueueIn(m, m.p_semAdd[p]))

\* recursive_terminate takes a process out of whichever queue it is in.
LEMMA LeaveQueueStep ==
  ASSUME NEW m, Good(m), NEW p \in PCB, Queued(m, p)
  PROVE  Left(m, LeaveQueue(m, p), p)
<1>0. Typed(m) /\ DOMAIN m = MemFields /\ Clock # Null
  BY GoodLists, SemNat DEF Sem
<1>1. CASE p \in P!Elems(ReadyIn(m)) /\ m.p_semAdd[p] = Null
  <2> DEFINE r == list_del(m, p_list(p))
  <2>1. LeaveQueue(m, p) = r
    BY <1>1, ReadyLeaves DEF LeaveQueue
  <2>2. /\ Good(r) /\ SameData(m, r)
        /\ FreeIn(r) = FreeIn(m) /\ \A s \in Sem : QueueIn(r, s) = QueueIn(m, s)
        /\ ReadyIn(r) = P!Without(ReadyIn(m), {p})
    BY <1>1, ReadyCut
  <2> HIDE DEF r
  <2>3. \A s \in Sem : P!Without(QueueIn(m, s), {p}) = QueueIn(m, s)
    <3> SUFFICES ASSUME NEW s \in Sem PROVE P!Without(QueueIn(m, s), {p}) = QueueIn(m, s)
      OBVIOUS
    <3>1. P!IsQueue(QueueIn(m, s)) /\ p \notin P!Elems(QueueIn(m, s))
      BY <1>1, GoodLists
    <3> QED
      BY <3>1, WithoutOther
  <2>4. [m.p_semAdd EXCEPT ![p] = Null] = m.p_semAdd
    BY <1>0, <1>1 DEF Typed
  <2>5. m.softBlockCount - 0 = m.softBlockCount
    BY <1>0 DEF Typed
  <2> QED
    BY <1>0, <1>1, <2>1, <2>2, <2>3, <2>4, <2>5 DEF Left, SameData
<1>2. CASE m.p_semAdd[p] \in Sem /\ p \in P!Elems(QueueIn(m, m.p_semAdd[p]))
  <2> DEFINE s == m.p_semAdd[p]
             d == getSemd(m, s)
             m1 == Unblock(m, d, p)
             m2 == [m1 EXCEPT !.p_semAdd[p] = Null]
             r == [m2 EXCEPT !.softBlockCount = @ - (IF s = Clock THEN 1 ELSE 0)]
  <2>1. p \notin P!Elems(ReadyIn(m)) /\ p \notin FreeIn(m)
        /\ \A t \in Sem : p \in P!Elems(QueueIn(m, t)) => t = s
    BY <1>2, GoodLists
  <2>2. d # Null /\ Unblocks(m, m1, p, s)
    BY <1>2, UnblockStep
  <2>3. LeaveQueue(m, p) = r
    BY <2>1, <2>2, ReadyLeaves DEF LeaveQueue, isBlocked, outBlocked
  <2> HIDE DEF d, m1
  <2>4. P!Elems(QueueIn(m1, s)) = P!Elems(QueueIn(m, s)) \ {p}
    BY <1>2, <2>2, GoodLists, P!WithoutQueue DEF Unblocks
  <2>5. Off(m1, p)
    <3>1. \A t \in Sem : t # s => QueueIn(m1, t) = QueueIn(m, t)
      BY <2>2 DEF Unblocks, QueuesBut
    <3> HIDE DEF s
    <3> QED
      BY <2>1, <2>2, <2>4, <3>1 DEF Off, Unblocks
  <2>6. DOMAIN m1 = MemFields /\ Typed(m1) /\ Good(m1)
    BY <2>2, GoodLists DEF Unblocks
  <2>7. /\ DOMAIN r = MemFields /\ r.next = m1.next /\ r.prev = m1.prev /\ r.s_key = m1.s_key
        /\ r.p_parent = m1.p_parent /\ r.p_semAdd = [m1.p_semAdd EXCEPT ![p] = Null]
        /\ r.p_prio = m1.p_prio /\ r.p_pid = m1.p_pid /\ r.next_pid = m1.next_pid
        /\ r.currProc = m1.currProc /\ r.processCount = m1.processCount
        /\ r.softBlockCount = m1.softBlockCount - (IF s = Clock THEN 1 ELSE 0)
    <3> HIDE DEF s
    <3>1. DOMAIN m2 = MemFields
      BY <2>6
    <3> QED
      BY <2>6, <3>1 DEF MemFields
  <2> HIDE DEF r
  <2>8. Good(r) /\ SameLists(m1, r)
    <3>1. [m1.p_semAdd EXCEPT ![p] = Null] \in [PCB -> Sem \cup {Null}]
      BY <2>6, ExceptType DEF Typed
    <3>2. r.softBlockCount \in Int
      <4>1. m1.softBlockCount \in Int
        BY <2>6 DEF Typed
      <4> QED
        BY <2>7, <4>1
    <3>3. Typed(r)
      BY <2>6, <2>7, <3>1, <3>2 DEF Typed
    <3>4. \A x \in PCB : r.p_semAdd[x] = m1.p_semAdd[x] \/ Off(m1, x)
      BY <2>5, <2>6, <2>7 DEF Typed
    <3> QED
      BY <2>6, <2>7, <3>3, <3>4, DataStays
  <2>9. ReadyIn(r) = P!Without(ReadyIn(m), {p}) /\ FreeIn(r) = FreeIn(m)
    <3>1. ReadyIn(r) = ReadyIn(m) /\ FreeIn(r) = FreeIn(m)
      BY <2>2, <2>8 DEF Unblocks, SameLists
    <3>2. P!Without(ReadyIn(m), {p}) = ReadyIn(m)
      BY <2>1, GoodLists, WithoutOther
    <3> QED
      BY <3>1, <3>2
  <2>10. ASSUME NEW t \in Sem PROVE QueueIn(r, t) = P!Without(QueueIn(m, t), {p})
    <3>1. QueueIn(r, t) = QueueIn(m1, t)
      BY <2>8 DEF SameLists
    <3>2. CASE t = s
      BY <2>2, <3>1, <3>2 DEF Unblocks
    <3>3. CASE t # s
      <4>1. QueueIn(m1, t) = QueueIn(m, t)
        BY <2>2, <3>3 DEF Unblocks, QueuesBut
      <4>2. P!Without(QueueIn(m, t), {p}) = QueueIn(m, t)
        <5>1. P!IsQueue(QueueIn(m, t)) /\ p \notin P!Elems(QueueIn(m, t))
          BY <2>1, <3>3, GoodLists
        <5> QED
          BY <5>1, WithoutOther
      <4> QED
        BY <3>1, <4>1, <4>2
    <3> QED
      BY <3>2, <3>3
  <2>11. SameData(m, m1)
    BY <2>2 DEF Unblocks
  <2> QED
    BY <2>3, <2>7, <2>8, <2>9, <2>10, <2>11 DEF Left, SameData
<1> QED
  BY <1>1, <1>2 DEF Queued

\* A process is buried: it leaves the tree and the queue it is in, and is free.
Buried(m, r, p) ==
  /\ Good(r) /\ FreeIn(r) = FreeIn(m) \cup {p}
  /\ ReadyIn(r) = P!Without(ReadyIn(m), {p})
  /\ \A s \in Sem : QueueIn(r, s) = P!Without(QueueIn(m, s), {p})
  /\ r.p_parent = [m.p_parent EXCEPT ![p] = Null]
  /\ r.p_semAdd = [m.p_semAdd EXCEPT ![p] = Null]
  /\ r.p_prio = m.p_prio /\ r.p_pid = m.p_pid /\ r.next_pid = m.next_pid
  /\ r.currProc = (IF p = m.currProc THEN Null ELSE m.currProc)
  /\ r.processCount = m.processCount - 1
  /\ r.softBlockCount = m.softBlockCount - (IF m.p_semAdd[p] = Clock THEN 1 ELSE 0)

\* Where a process is that may be buried.
Placed(m, p) ==
  /\ p \in PCB
  /\ \/ p = m.currProc /\ Off(m, p) /\ m.p_semAdd[p] = Null
     \/ p # m.currProc /\ Queued(m, p)

\* A field that says nothing of the lists.
LEMMA NumbersStay ==
  ASSUME NEW m, Good(m), NEW r, DOMAIN r = MemFields, Typed(r),
         r.next = m.next, r.prev = m.prev, r.s_key = m.s_key, r.p_parent = m.p_parent,
         r.p_semAdd = m.p_semAdd
  PROVE  Good(r) /\ SameLists(m, r)
BY DataStays

\* The end of recursive_terminate: the process leaves tree and queue and is free.
LEMMA BuryStep ==
  ASSUME NEW m, Good(m), NEW p, Placed(m, p)
  PROVE  Buried(m, Bury(m, p), p)
<1> DEFINE m1 == outChild(m, p)
           m2 == IF p = m.currProc THEN [m1 EXCEPT !.currProc = Null] ELSE LeaveQueue(m1, p)
           m3 == freePcb(m2, p)
           r == [m3 EXCEPT !.processCount = @ - 1]
<1>0. Bury(m, p) = r
  BY DEF Bury
<1>1. p \in PCB /\ Typed(m) /\ Clock # Null
  BY GoodLists, SemNat DEF Placed, Sem
<1>2. LET a == outChild(m, p) IN
      /\ Good(a) /\ SameLists(m, a) /\ SameButParent(m, a)
      /\ a.p_parent = [m.p_parent EXCEPT ![p] = Null]
  BY <1>1, OutChildStep
<1>3. /\ Good(m1) /\ SameLists(m, m1) /\ SameButParent(m, m1)
      /\ m1.p_parent = [m.p_parent EXCEPT ![p] = Null]
  BY <1>2
<1> HIDE DEF m1
<1>4. DOMAIN m1 = MemFields /\ Typed(m1)
  BY <1>3, GoodLists
<1>5. /\ Left(m1, [m2 EXCEPT !.currProc = m.currProc], p)
      /\ m2.currProc = (IF p = m.currProc THEN Null ELSE m.currProc)
      /\ Good(m2) /\ SameLists([m2 EXCEPT !.currProc = m.currProc], m2)
      /\ Off(m2, p) /\ DOMAIN m2 = MemFields
  <2> DEFINE b == [m2 EXCEPT !.currProc = m.currProc]
  <2>1. CASE p = m.currProc
    <3>1. m2 = [m1 EXCEPT !.currProc = Null]
      BY <2>1
    <3>2. Off(m, p) /\ m.p_semAdd[p] = Null
      BY <2>1 DEF Placed
    <3> HIDE DEF m2
    <3>3. /\ DOMAIN m2 = MemFields /\ m2.currProc = Null
          /\ m2.next = m1.next /\ m2.prev = m1.prev /\ m2.s_key = m1.s_key
          /\ m2.p_parent = m1.p_parent /\ m2.p_semAdd = m1.p_semAdd /\ m2.p_prio = m1.p_prio
          /\ m2.p_pid = m1.p_pid /\ m2.next_pid = m1.next_pid
          /\ m2.processCount = m1.processCount /\ m2.softBlockCount = m1.softBlockCount
      BY <1>4, <3>1 DEF MemFields
    <3>4. /\ DOMAIN b = MemFields /\ b.currProc = m1.currProc
          /\ b.next = m1.next /\ b.prev = m1.prev /\ b.s_key = m1.s_key
          /\ b.p_parent = m1.p_parent /\ b.p_semAdd = m1.p_semAdd /\ b.p_prio = m1.p_prio
          /\ b.p_pid = m1.p_pid /\ b.next_pid = m1.next_pid
          /\ b.processCount = m1.processCount /\ b.softBlockCount = m1.softBlockCount
      BY <1>3, <3>3 DEF MemFields, SameButParent
    <3> HIDE DEF b
    <3>5. Typed(m2) /\ Typed(b)
      BY <1>4, <3>3, <3>4 DEF Typed
    <3>6. Good(m2) /\ SameLists(m1, m2)
      BY <1>3, <3>3, <3>5, NumbersStay
    <3>7. Good(b) /\ SameLists(m1, b)
      BY <1>3, <3>4, <3>5, NumbersStay
    <3>8. Off(m1, p)
      BY <1>3, <3>2 DEF Off, SameLists
    <3>9. Left(m1, b, p)
      <4>1. P!Without(ReadyIn(m1), {p}) = ReadyIn(m1)
        <5>1. P!IsQueue(ReadyIn(m1)) /\ p \notin P!Elems(ReadyIn(m1))
          BY <1>3, <3>8, GoodLists DEF Off
        <5> QED
          BY <5>1, WithoutOther
      <4>2. \A s \in Sem : P!Without(QueueIn(m1, s), {p}) = QueueIn(m1, s)
        <5> SUFFICES ASSUME NEW s \in Sem PROVE P!Without(QueueIn(m1, s), {p}) = QueueIn(m1, s)
          OBVIOUS
        <5>1. P!IsQueue(QueueIn(m1, s)) /\ p \notin P!Elems(QueueIn(m1, s))
          BY <1>3, <3>8, GoodLists DEF Off
        <5> QED
          BY <5>1, WithoutOther
      <4>3. m1.p_semAdd[p] = Null
        BY <1>3, <3>2 DEF SameButParent
      <4>4. [m1.p_semAdd EXCEPT ![p] = Null] = m1.p_semAdd
        BY <1>4, <4>3 DEF Typed
      <4>5. m1.softBlockCount - 0 = m1.softBlockCount
        BY <1>4 DEF Typed
      <4> QED
        BY <1>1, <3>4, <3>7, <4>1, <4>2, <4>3, <4>4, <4>5 DEF Left, SameLists
    <3>10. SameLists(b, m2) /\ Off(m2, p)
      BY <3>6, <3>7, <3>8 DEF SameLists, Off
    <3> QED
      BY <2>1, <3>3, <3>6, <3>9, <3>10 DEF b
  <2>2. CASE p # m.currProc
    <3>1. m2 = LeaveQueue(m1, p)
      BY <2>2
    <3>2. Queued(m1, p)
      <4>1. Queued(m, p)
        BY <2>2 DEF Placed
      <4> QED
        BY <1>3, <4>1 DEF Queued, SameLists, SameButParent
    <3> HIDE DEF m2
    <3>3. Left(m1, m2, p)
      BY <1>1, <1>3, <3>1, <3>2, LeaveQueueStep
    <3>4. Good(m2) /\ Typed(m2) /\ DOMAIN m2 = MemFields
      BY <3>3, GoodLists DEF Left
    <3>5. m2.currProc = m.currProc
      BY <1>3, <3>3 DEF Left, SameButParent
    <3>6. b.currProc = m.currProc /\ DOMAIN b = MemFields
          /\ b.next = m2.next /\ b.prev = m2.prev /\ b.s_key = m2.s_key
          /\ b.p_parent = m2.p_parent /\ b.p_semAdd = m2.p_semAdd /\ b.p_prio = m2.p_prio
          /\ b.p_pid = m2.p_pid /\ b.next_pid = m2.next_pid
          /\ b.processCount = m2.processCount /\ b.softBlockCount = m2.softBlockCount
      BY <3>4 DEF MemFields
    <3> HIDE DEF b
    <3>7. Typed(b)
      BY <1>1, <3>4, <3>5, <3>6 DEF Typed
    <3>8. Good(b) /\ SameLists(m2, b)
      BY <3>4, <3>6, <3>7, NumbersStay
    <3>9. Left(m1, b, p)
      BY <3>3, <3>5, <3>6, <3>8 DEF Left, SameLists
    <3>10. p \notin FreeIn(m1) /\ P!IsQueue(ReadyIn(m1))
      BY <1>3, <3>2, GoodLists DEF Queued
    <3>11. p \notin P!Elems(ReadyIn(m2))
      BY <3>3, <3>10, P!WithoutQueue DEF Left
    <3>12. ASSUME NEW s \in Sem PROVE p \notin P!Elems(QueueIn(m2, s))
      <4>1. P!IsQueue(QueueIn(m1, s)) /\ QueueIn(m2, s) = P!Without(QueueIn(m1, s), {p})
        BY <1>3, <3>3, GoodLists DEF Left
      <4> QED
        BY <4>1, P!WithoutQueue
    <3>13. Off(m2, p)
      BY <1>1, <3>3, <3>10, <3>11, <3>12 DEF Off, Left
    <3> QED
      BY <2>2, <3>4, <3>5, <3>8, <3>9, <3>13 DEF b, SameLists
  <2> QED
    BY <2>1, <2>2
<1> DEFINE b == [m2 EXCEPT !.currProc = m.currProc]
<1>6. /\ b.p_parent = m2.p_parent /\ b.p_semAdd = m2.p_semAdd /\ b.p_prio = m2.p_prio
      /\ b.p_pid = m2.p_pid /\ b.next_pid = m2.next_pid
      /\ b.processCount = m2.processCount /\ b.softBlockCount = m2.softBlockCount
  <2> HIDE DEF m2
  <2> QED
    BY <1>5 DEF MemFields
<1>7. Left(m1, b, p) /\ SameLists(b, m2)
  BY <1>5
<1> HIDE DEF m2, b
<1>8. LET a == freePcb(m2, p) IN
      /\ Good(a) /\ SameData(m2, a)
      /\ FreeIn(a) = FreeIn(m2) \cup {p} /\ ReadyIn(a) = ReadyIn(m2)
      /\ \A s \in Sem : QueueIn(a, s) = QueueIn(m2, s)
  BY <1>5, FreeStep
<1>9. /\ Good(m3) /\ SameData(m2, m3)
      /\ FreeIn(m3) = FreeIn(m2) \cup {p} /\ ReadyIn(m3) = ReadyIn(m2)
      /\ \A s \in Sem : QueueIn(m3, s) = QueueIn(m2, s)
  BY <1>8
<1> HIDE DEF m3
<1>10. DOMAIN m3 = MemFields /\ Typed(m3)
  BY <1>9, GoodLists
<1>11. /\ DOMAIN r = MemFields /\ r.currProc = m3.currProc
       /\ r.next = m3.next /\ r.prev = m3.prev /\ r.s_key = m3.s_key
       /\ r.p_parent = m3.p_parent /\ r.p_semAdd = m3.p_semAdd /\ r.p_prio = m3.p_prio
       /\ r.p_pid = m3.p_pid /\ r.next_pid = m3.next_pid
       /\ r.processCount = m3.processCount - 1 /\ r.softBlockCount = m3.softBlockCount
  BY <1>10 DEF MemFields
<1> HIDE DEF r
<1>12. Good(r) /\ SameLists(m3, r)
  <2>1. r.processCount \in Int
    <3>1. m3.processCount \in Int
      BY <1>10 DEF Typed
    <3> QED
      BY <1>11, <3>1
  <2>2. Typed(r)
    BY <1>10, <1>11, <2>1 DEF Typed
  <2> QED
    BY <1>9, <1>11, <2>2, NumbersStay
<1>13. /\ FreeIn(r) = FreeIn(m) \cup {p} /\ ReadyIn(r) = P!Without(ReadyIn(m), {p})
       /\ \A s \in Sem : QueueIn(r, s) = P!Without(QueueIn(m, s), {p})
  BY <1>3, <1>7, <1>9, <1>12 DEF SameLists, Left
<1>14. /\ r.p_parent = [m.p_parent EXCEPT ![p] = Null]
       /\ r.p_semAdd = [m.p_semAdd EXCEPT ![p] = Null]
       /\ r.p_prio = m.p_prio /\ r.p_pid = m.p_pid /\ r.next_pid = m.next_pid
       /\ r.currProc = (IF p = m.currProc THEN Null ELSE m.currProc)
       /\ r.processCount = m.processCount - 1
       /\ r.softBlockCount = m.softBlockCount - (IF m.p_semAdd[p] = Clock THEN 1 ELSE 0)
  BY <1>3, <1>5, <1>6, <1>7, <1>9, <1>11 DEF SameData, SameButParent, Left
<1>15. Buried(m, r, p)
  BY <1>12, <1>13, <1>14 DEF Buried
<1> QED
  BY <1>0, <1>15

-----------------------------------------------------------------------------
(* recursive_terminate *)

\* Induction on the natural numbers, for a set of them.
LEMMA NatSet ==
  ASSUME NEW K \in SUBSET Nat, 0 \in K, \A n \in K : n + 1 \in K
  PROVE  K = Nat
<1> SUFFICES ASSUME Nat \ K # {} PROVE FALSE
  OBVIOUS
<1>1. PICK x \in Nat \ K : \A y \in Nat \ K : ~ (<<y, x>> \in OpToRel(<, Nat))
  BY NatLessThanWellFounded, WFMin
<1>2. x \in Nat /\ x # 0
  BY <1>1
<1>3. x - 1 \in Nat /\ x - 1 < x /\ x = (x - 1) + 1
  BY <1>2
<1>4. <<x - 1, x>> \in OpToRel(<, Nat)
  BY <1>2, <1>3 DEF OpToRel
<1>5. x - 1 \in K
  BY <1>1, <1>3, <1>4
<1>6. (x - 1) + 1 \in K
  BY <1>5
<1> QED
  BY <1>1, <1>3, <1>6

\* The memory when the processes of K are dead, but for the tree.
Killed(m0, m, K) ==
  /\ Good(m) /\ FreeIn(m) = FreeIn(m0) \cup K
  /\ ReadyIn(m) = P!Without(ReadyIn(m0), K)
  /\ \A s \in Sem : QueueIn(m, s) = P!Without(QueueIn(m0, s), K)
  /\ m.p_semAdd = [x \in PCB |-> IF x \in K THEN Null ELSE m0.p_semAdd[x]]
  /\ m.p_prio = m0.p_prio /\ m.p_pid = m0.p_pid /\ m.next_pid = m0.next_pid
  /\ m.currProc = (IF m0.currProc \in K THEN Null ELSE m0.currProc)
  /\ m.processCount = m0.processCount - Cardinality(K)
  /\ m.softBlockCount = m0.softBlockCount
                          - Cardinality({x \in K : m0.p_semAdd[x] = Clock})

\* Who is not dead is where it was.
LEMMA StillPlaced ==
  ASSUME NEW m0, Good(m0), NEW m, NEW K, Killed(m0, m, K),
         NEW p, p \notin K, Placed(m0, p)
  PROVE  Placed(m, p)
<1>1. p \in PCB /\ p # Null /\ m.p_semAdd[p] = m0.p_semAdd[p]
      /\ (p = m.currProc <=> p = m0.currProc)
  BY TableAssumption DEF Placed, Killed
<1>2. p \notin FreeIn(m0) => p \notin FreeIn(m)
  BY DEF Killed
<1>3. p \in P!Elems(ReadyIn(m)) <=> p \in P!Elems(ReadyIn(m0))
  <2>1. P!Elems(P!Without(ReadyIn(m0), K)) = P!Elems(ReadyIn(m0)) \ K
    BY GoodLists, P!WithoutQueue
  <2> QED
    BY <2>1 DEF Killed
<1>4. ASSUME NEW s \in Sem
      PROVE  p \in P!Elems(QueueIn(m, s)) <=> p \in P!Elems(QueueIn(m0, s))
  <2>1. P!Elems(P!Without(QueueIn(m0, s), K)) = P!Elems(QueueIn(m0, s)) \ K
    BY GoodLists, P!WithoutQueue
  <2> QED
    BY <2>1 DEF Killed
<1>5. CASE p = m0.currProc /\ Off(m0, p) /\ m0.p_semAdd[p] = Null
  BY <1>1, <1>2, <1>3, <1>4, <1>5 DEF Placed, Off
<1>6. CASE p # m0.currProc /\ Queued(m0, p)
  BY <1>1, <1>3, <1>4, <1>6 DEF Placed, Queued
<1> QED
  BY <1>5, <1>6 DEF Placed

\* One more is buried.
LEMMA KilledMore ==
  ASSUME NEW m0, Good(m0), NEW m, NEW K \in SUBSET PCB, Killed(m0, m, K),
         NEW p \in PCB \ K, NEW r, Buried(m, r, p)
  PROVE  Killed(m0, r, K \cup {p})
<1> DEFINE L == K \cup {p}
           C(X) == {x \in X : m0.p_semAdd[x] = Clock}
<1>0. /\ Typed(m0) /\ p # Null /\ Clock # Null /\ IsFiniteSet(K)
  BY GoodLists, TableAssumption, SemNat, FS_Subset DEF Sem
<1>1. \A q : P!Without(P!Without(q, K), {p}) = P!Without(q, L)
  BY DEF P!Without
<1>2. /\ FreeIn(r) = FreeIn(m0) \cup L /\ ReadyIn(r) = P!Without(ReadyIn(m0), L)
      /\ \A s \in Sem : QueueIn(r, s) = P!Without(QueueIn(m0, s), L)
  BY <1>1 DEF Killed, Buried
<1>3. r.p_semAdd = [x \in PCB |-> IF x \in L THEN Null ELSE m0.p_semAdd[x]]
  BY DEF Killed, Buried
<1>4. r.currProc = (IF m0.currProc \in L THEN Null ELSE m0.currProc)
  BY <1>0 DEF Killed, Buried
<1>5. Cardinality(L) = Cardinality(K) + 1 /\ Cardinality(K) \in Nat
  BY <1>0, FS_AddElement, FS_CardinalityType
<1>6. /\ Cardinality(C(K)) \in Nat
      /\ m0.p_semAdd[p] = Clock => Cardinality(C(L)) = Cardinality(C(K)) + 1
      /\ m0.p_semAdd[p] # Clock => Cardinality(C(L)) = Cardinality(C(K))
  <2>1. IsFiniteSet(C(K)) /\ p \notin C(K)
    BY <1>0, FS_Subset
  <2>2. m0.p_semAdd[p] = Clock => C(L) = C(K) \cup {p}
    OBVIOUS
  <2>3. m0.p_semAdd[p] # Clock => C(L) = C(K)
    OBVIOUS
  <2> HIDE DEF C
  <2>4. Cardinality(C(K) \cup {p}) = Cardinality(C(K)) + 1 /\ Cardinality(C(K)) \in Nat
    BY <2>1, FS_AddElement, FS_CardinalityType
  <2> QED
    BY <2>2, <2>3, <2>4
<1> HIDE DEF C
<1>7. m0.processCount \in Int /\ m0.softBlockCount \in Int
  BY <1>0 DEF Typed
<1>8. r.processCount = m0.processCount - Cardinality(L)
  <2>1. r.processCount = (m0.processCount - Cardinality(K)) - 1
    BY DEF Killed, Buried
  <2> QED
    BY <1>5, <1>7, <2>1
<1>9. r.softBlockCount = m0.softBlockCount - Cardinality(C(L))
  <2>1. m.p_semAdd[p] = m0.p_semAdd[p]
    BY DEF Killed
  <2>2. r.softBlockCount = (m0.softBlockCount - Cardinality(C(K)))
                             - (IF m0.p_semAdd[p] = Clock THEN 1 ELSE 0)
    BY <2>1 DEF Killed, Buried, C
  <2>3. CASE m0.p_semAdd[p] = Clock
    BY <1>6, <1>7, <2>2, <2>3
  <2>4. CASE m0.p_semAdd[p] # Clock
    BY <1>6, <1>7, <2>2, <2>4
  <2> QED
    BY <2>3, <2>4
<1>10. /\ Good(r) /\ r.p_prio = m0.p_prio /\ r.p_pid = m0.p_pid /\ r.next_pid = m0.next_pid
  BY DEF Killed, Buried
<1> HIDE DEF L
<1> QED
  BY <1>2, <1>3, <1>4, <1>8, <1>9, <1>10 DEF Killed, C, L

\* Only the tree is changed.
LEMMA KilledSame ==
  ASSUME NEW m0, NEW m, NEW K, Killed(m0, m, K), NEW r, Good(r), SameLists(m, r),
         SameButParent(m, r)
  PROVE  Killed(m0, r, K)
BY DEF Killed, SameLists, SameButParent

-----------------------------------------------------------------------------
\* D are the process t and its progeny.
Below(m, t, D) ==
  /\ t \in D /\ D \subseteq PCB \ FreeIn(m)
  /\ \A c \in PCB : m.p_parent[c] \in D => c \in D
  /\ m.p_parent[t] \notin D
  /\ \A S \in SUBSET D : t \in S /\ (\A c \in PCB : m.p_parent[c] \in S => c \in S) => S = D

\* The processes whose recursive_terminate has not returned.
OnStack(st) == {st[i] : i \in 1 .. Len(st)}

\* The calls that have not returned, when the processes of K are dead: each is
\* for a child of the process of the next one, which has left its parent.
Calls(m0, m, D, t, K, st) ==
  /\ st \in Seq(PCB) /\ OnStack(st) \subseteq D \ K
  /\ \A i, j \in 1 .. Len(st) : st[i] = st[j] => i = j
  /\ \A i \in 1 .. Len(st) : IF i = Len(st) THEN st[i] = t
                             ELSE m0.p_parent[st[i]] = st[i + 1]
  /\ st = <<>> => t \in K
  /\ K \subseteq D /\ \A c \in PCB : m0.p_parent[c] \in K => c \in K
  /\ m.p_parent = [c \in PCB |-> IF c \in K \cup (OnStack(st) \ {t}) THEN Null
                                 ELSE m0.p_parent[c]]

\* What has been done, in steps.
Done(K, st) == Cardinality(K) + Cardinality(K \cup OnStack(st))

\* The first process of the calls has no child left: it is buried.
LEMMA CallReturns ==
  ASSUME NEW m0, Good(m0), NEW D, NEW t, Below(m0, t, D),
         \A p \in D : Placed(m0, p),
         NEW m, NEW K, Killed(m0, m, K), NEW st, Calls(m0, m, D, t, K, st), st # <<>>,
         \A x \in PCB : m.p_parent[x] # Head(st)
  PROVE  LET r == Bury(m, Head(st))
             L == K \cup {Head(st)}
         IN  /\ Killed(m0, r, L) /\ Calls(m0, r, D, t, L, Tail(st))
             /\ Done(L, Tail(st)) = Done(K, st) + 1
<1> DEFINE p == Head(st)
           r == Bury(m, p)
           L == K \cup {p}
           s1 == Tail(st)
<1>1. /\ Len(st) \in Nat /\ Len(st) >= 1 /\ p = st[1] /\ p \in D \ K /\ p \in PCB
      /\ s1 \in Seq(PCB) /\ Len(s1) = Len(st) - 1 /\ \A i \in 1 .. Len(s1) : s1[i] = st[i + 1]
  BY DEF Calls, OnStack
<1>2. OnStack(s1) = OnStack(st) \ {p} /\ p \in OnStack(st)
  <2>1. \A i \in 1 .. Len(st) : i # 1 => i - 1 \in 1 .. Len(s1) /\ st[i] = s1[i - 1]
    BY <1>1
  <2>2. \A i, j \in 1 .. Len(st) : st[i] = st[j] => i = j
    BY DEF Calls
  <2>3. ASSUME NEW i \in 1 .. Len(s1) PROVE i + 1 \in 1 .. Len(st) /\ s1[i] # p
    <3>1. i + 1 \in 1 .. Len(st) /\ 1 \in 1 .. Len(st) /\ i + 1 # 1 /\ s1[i] = st[i + 1]
      BY <1>1
    <3>2. st[i + 1] # st[1]
      BY <2>2, <3>1
    <3> QED
      BY <1>1, <3>1, <3>2
  <2> HIDE DEF s1, p
  <2> QED
    BY <1>1, <2>1, <2>3 DEF OnStack
<1>3. Placed(m, p) /\ Good(m)
  BY <1>1, StillPlaced DEF Killed
<1>4. Buried(m, r, p)
  BY <1>3, BuryStep
<1> HIDE DEF p, r, s1
<1>5. Killed(m0, r, L)
  <2>1. K \in SUBSET PCB /\ p \in PCB \ K
    BY <1>1 DEF Calls, Below
  <2> QED
    BY <1>4, <2>1, KilledMore
<1>6. /\ OnStack(s1) \subseteq D \ L
      /\ \A i, j \in 1 .. Len(s1) : s1[i] = s1[j] => i = j
  <2>1. OnStack(s1) \subseteq D \ L
    BY <1>2 DEF Calls
  <2>2. ASSUME NEW i \in 1 .. Len(s1), NEW j \in 1 .. Len(s1), s1[i] = s1[j] PROVE i = j
    <3>1. i + 1 \in 1 .. Len(st) /\ j + 1 \in 1 .. Len(st) /\ st[i + 1] = st[j + 1]
      BY <1>1, <2>2
    <3>2. i + 1 = j + 1
      BY <3>1 DEF Calls
    <3> QED
      BY <3>2
  <2> QED
    BY <2>1, <2>2
<1>7. ASSUME NEW i \in 1 .. Len(s1)
      PROVE  IF i = Len(s1) THEN s1[i] = t ELSE m0.p_parent[s1[i]] = s1[i + 1]
  <2>1. i + 1 \in 1 .. Len(st) /\ (i + 1 = Len(st) <=> i = Len(s1))
    BY <1>1
  <2>2. IF i + 1 = Len(st) THEN st[i + 1] = t ELSE m0.p_parent[st[i + 1]] = st[(i + 1) + 1]
    BY <2>1 DEF Calls
  <2>3. i # Len(s1) => i + 1 \in 1 .. Len(s1)
    BY <1>1
  <2> QED
    BY <1>1, <2>1, <2>2, <2>3
<1>8. s1 = <<>> => t \in L
  <2>1. s1 = <<>> => Len(st) = 1
    BY <1>1
  <2>2. Len(st) = 1 => st[1] = t
    BY DEF Calls
  <2> QED
    BY <1>1, <2>1, <2>2
<1>9. ASSUME NEW c \in PCB, m0.p_parent[c] \in L PROVE c \in L
  <2>1. CASE m0.p_parent[c] \in K
    BY <2>1 DEF Calls
  <2>2. CASE m0.p_parent[c] = p
    <3>1. m.p_parent[c] # m0.p_parent[c]
      BY <2>2 DEF p
    <3>2. c \in K \cup (OnStack(st) \ {t})
      BY <3>1 DEF Calls
    <3>3. ASSUME c \in OnStack(st) \ {t} PROVE FALSE
      <4>1. PICK i \in 1 .. Len(st) : c = st[i]
        BY <3>3 DEF OnStack
      <4>2. i # Len(st)
        BY <3>3, <4>1 DEF Calls
      <4>3. i + 1 \in 1 .. Len(st) /\ m0.p_parent[c] = st[i + 1]
        BY <1>1, <4>1, <4>2 DEF Calls
      <4>4. \A k, j \in 1 .. Len(st) : st[k] = st[j] => k = j
        BY DEF Calls
      <4>5. 1 \in 1 .. Len(st) /\ st[i + 1] = st[1]
        BY <1>1, <2>2, <4>3
      <4>6. i + 1 = 1 /\ i \in Nat /\ i >= 1
        BY <4>3, <4>4, <4>5
      <4> QED
        BY <4>6
    <3> QED
      BY <3>2, <3>3
  <2> QED
    BY <1>9, <2>1, <2>2
<1>10. r.p_parent = [c \in PCB |-> IF c \in L \cup (OnStack(s1) \ {t}) THEN Null
                                   ELSE m0.p_parent[c]]
  <2>1. r.p_parent = [m.p_parent EXCEPT ![p] = Null]
    BY <1>4 DEF Buried
  <2>2. m.p_parent = [c \in PCB |-> IF c \in K \cup (OnStack(st) \ {t}) THEN Null
                                    ELSE m0.p_parent[c]]
    BY DEF Calls
  <2>3. \A c \in PCB : c \in L \cup (OnStack(s1) \ {t})
                         <=> c = p \/ c \in K \cup (OnStack(st) \ {t})
    BY <1>2
  <2> HIDE DEF L
  <2> QED
    BY <1>1, <2>1, <2>2, <2>3
<1>11. Calls(m0, r, D, t, L, s1)
  <2>1. L \subseteq D
    BY <1>1 DEF Calls
  <2> QED
    BY <1>1, <1>6, <1>7, <1>8, <1>9, <1>10, <2>1 DEF Calls
<1>12. Done(L, s1) = Done(K, st) + 1
  <2>1. IsFiniteSet(K) /\ p \notin K /\ IsFiniteSet(K \cup OnStack(st))
    <3>1. K \in SUBSET PCB /\ K \cup OnStack(st) \in SUBSET PCB
      BY DEF Calls, Below
    <3> QED
      BY <1>1, <3>1, TableAssumption, FS_Subset
  <2>2. L \cup OnStack(s1) = K \cup OnStack(st)
    BY <1>2
  <2>3. Cardinality(L) = Cardinality(K) + 1
    BY <2>1, FS_AddElement
  <2>4. Cardinality(K) \in Nat /\ Cardinality(K \cup OnStack(st)) \in Nat
    BY <2>1, FS_CardinalityType
  <2>5. Cardinality(L \cup OnStack(s1)) = Cardinality(K \cup OnStack(st))
    BY <2>2
  <2> HIDE DEF L
  <2>6. Done(L, s1) = Cardinality(L) + Cardinality(K \cup OnStack(st))
    BY <2>5 DEF Done
  <2>7. Done(K, st) = Cardinality(K) + Cardinality(K \cup OnStack(st))
    BY DEF Done
  <2> QED
    BY <2>3, <2>4, <2>6, <2>7
<1> QED
  BY <1>5, <1>11, <1>12 DEF p, r, s1

\* The first process of the calls has a child, which is removed and killed.
LEMMA CallNested ==
  ASSUME NEW m0, Good(m0), NEW D, NEW t, Below(m0, t, D),
         NEW m, NEW K, Killed(m0, m, K), NEW st, Calls(m0, m, D, t, K, st), st # <<>>,
         NEW c \in PCB, m.p_parent[c] = Head(st)
  PROVE  LET r == [list_del(m, p_sib(c)) EXCEPT !.p_parent[c] = Null]
             s1 == <<c>> \o st
         IN  /\ Killed(m0, r, K) /\ Calls(m0, r, D, t, K, s1)
             /\ Done(K, s1) = Done(K, st) + 1
<1> DEFINE p == Head(st)
           r == [list_del(m, p_sib(c)) EXCEPT !.p_parent[c] = Null]
           s1 == <<c>> \o st
<1>1. /\ Len(st) \in Nat /\ Len(st) >= 1 /\ p = st[1] /\ p \in D \ K /\ p \in PCB /\ p # Null
      /\ s1 \in Seq(PCB) /\ Len(s1) = Len(st) + 1 /\ s1[1] = c
      /\ \A i \in 1 .. Len(st) : s1[i + 1] = st[i]
  <2>1. st \in Seq(PCB) /\ OnStack(st) \subseteq D \ K /\ D \subseteq PCB
    BY DEF Calls, Below
  <2> QED
    BY <2>1, TableAssumption DEF OnStack
<1>2. OnStack(s1) = OnStack(st) \cup {c}
  <2>1. \A i \in 1 .. Len(s1) : i # 1 => i - 1 \in 1 .. Len(st) /\ s1[i] = st[i - 1]
    BY <1>1
  <2>2. \A i \in 1 .. Len(st) : i + 1 \in 1 .. Len(s1)
    BY <1>1
  <2> HIDE DEF s1
  <2> QED
    BY <1>1, <2>1, <2>2 DEF OnStack
<1> HIDE DEF p, s1
<1>3. c \notin K /\ c \notin OnStack(st) \ {t} /\ m0.p_parent[c] = p /\ c \in D /\ c # t
  <2>1. m.p_parent[c] = p
    BY DEF p
  <2>2. c \notin K \cup (OnStack(st) \ {t}) /\ m0.p_parent[c] = p
    BY <1>1, <2>1 DEF Calls
  <2> QED
    BY <1>1, <2>2 DEF Below
<1>4. c \notin OnStack(st)
  BY <1>3
<1>5. /\ Good(r) /\ SameLists(m, r) /\ SameButParent(m, r)
      /\ r.p_parent = [m.p_parent EXCEPT ![c] = Null]
  <2>1. Good(m) /\ m.p_parent[c] # Null
    BY <1>1 DEF Killed, p
  <2>2. LET a == [list_del(m, p_sib(c)) EXCEPT !.p_parent[c] = Null] IN
        /\ Good(a) /\ SameLists(m, a) /\ SameButParent(m, a)
        /\ a.p_parent = [m.p_parent EXCEPT ![c] = Null]
    BY <2>1, ChildCut
  <2> QED
    BY <2>2
<1> HIDE DEF r
<1>6. Killed(m0, r, K)
  BY <1>5, KilledSame
<1>7. /\ OnStack(s1) \subseteq D \ K
      /\ \A i, j \in 1 .. Len(s1) : s1[i] = s1[j] => i = j
  <2>1. OnStack(s1) \subseteq D \ K
    BY <1>2, <1>3 DEF Calls
  <2>2. ASSUME NEW i \in 1 .. Len(s1), NEW j \in 1 .. Len(s1), s1[i] = s1[j] PROVE i = j
    <3>1. \A k \in 1 .. Len(s1) : k # 1 => k - 1 \in 1 .. Len(st) /\ s1[k] = st[k - 1]
                                           /\ s1[k] \in OnStack(st)
      BY <1>1 DEF OnStack
    <3>2. CASE i = 1 \/ j = 1
      BY <1>1, <1>4, <2>2, <3>1, <3>2
    <3>3. CASE i # 1 /\ j # 1
      <4>1. \A k, l \in 1 .. Len(st) : st[k] = st[l] => k = l
        BY DEF Calls
      <4>2. i - 1 \in 1 .. Len(st) /\ j - 1 \in 1 .. Len(st) /\ st[i - 1] = st[j - 1]
        BY <2>2, <3>1, <3>3
      <4>3. i - 1 = j - 1
        BY <4>1, <4>2
      <4>4. i \in Int /\ j \in Int
        OBVIOUS
      <4> QED
        BY <4>3, <4>4
    <3> QED
      BY <3>2, <3>3
  <2> QED
    BY <2>1, <2>2
<1>8. ASSUME NEW i \in 1 .. Len(s1)
      PROVE  IF i = Len(s1) THEN s1[i] = t ELSE m0.p_parent[s1[i]] = s1[i + 1]
  <2>1. CASE i = 1
    BY <1>1, <1>3, <2>1
  <2>2. CASE i # 1
    <3>1. /\ i - 1 \in 1 .. Len(st) /\ s1[i] = st[i - 1] /\ (i - 1 = Len(st) <=> i = Len(s1))
      BY <1>1, <2>2
    <3>2. IF i - 1 = Len(st) THEN st[i - 1] = t ELSE m0.p_parent[st[i - 1]] = st[(i - 1) + 1]
      BY <3>1 DEF Calls
    <3>3. i # Len(s1) => i \in 1 .. Len(st) /\ s1[i + 1] = st[i] /\ (i - 1) + 1 = i
      BY <1>1
    <3> QED
      BY <3>1, <3>2, <3>3
  <2> QED
    BY <2>1, <2>2
<1>9. s1 # <<>>
  BY <1>1
<1>10. r.p_parent = [x \in PCB |-> IF x \in K \cup (OnStack(s1) \ {t}) THEN Null
                                   ELSE m0.p_parent[x]]
  <2>2. m.p_parent = [x \in PCB |-> IF x \in K \cup (OnStack(st) \ {t}) THEN Null
                                    ELSE m0.p_parent[x]]
    BY DEF Calls
  <2>3. \A x \in PCB : x \in K \cup (OnStack(s1) \ {t})
                         <=> x = c \/ x \in K \cup (OnStack(st) \ {t})
    BY <1>2, <1>3
  <2> QED
    BY <1>5, <2>2, <2>3
<1>11. Calls(m0, r, D, t, K, s1)
  BY <1>1, <1>7, <1>8, <1>9, <1>10 DEF Calls
<1>12. Done(K, s1) = Done(K, st) + 1
  <2>1. IsFiniteSet(K) /\ IsFiniteSet(K \cup OnStack(st))
    <3>1. K \in SUBSET PCB /\ K \cup OnStack(st) \in SUBSET PCB
      BY DEF Calls, Below
    <3> QED
      BY <3>1, TableAssumption, FS_Subset
  <2>2. K \cup OnStack(s1) = (K \cup OnStack(st)) \cup {c} /\ c \notin K \cup OnStack(st)
    BY <1>2, <1>3, <1>4
  <2>3. Cardinality(K \cup OnStack(s1)) = Cardinality(K \cup OnStack(st)) + 1
    BY <2>1, <2>2, FS_AddElement
  <2>4. Cardinality(K) \in Nat /\ Cardinality(K \cup OnStack(st)) \in Nat
    BY <2>1, FS_CardinalityType
  <2> QED
    BY <2>3, <2>4 DEF Done
<1> QED
  BY <1>6, <1>11, <1>12 DEF p, r, s1

\* The memory and the calls of the recursion while the processes of K are dead.
Killing(m0, D, t, x, K) ==
  /\ x = <<x[1], x[2]>>
  /\ Killed(m0, x[1], K) /\ Calls(m0, x[1], D, t, K, x[2])

\* A step of the recursion.
LEMMA KillStep ==
  ASSUME NEW m0, Good(m0), NEW D, NEW t, Below(m0, t, D),
         \A p \in D : Placed(m0, p),
         NEW x, NEW K, Killing(m0, D, t, x, K), x[2] # <<>>
  PROVE  \E L : /\ Killing(m0, D, t, TerminateStep(x), L)
                /\ Done(L, TerminateStep(x)[2]) = Done(K, x[2]) + 1
<1> DEFINE m == x[1]
           st == x[2]
           p == Head(st)
<1>1. /\ Killed(m0, m, K) /\ Calls(m0, m, D, t, K, st) /\ st # <<>> /\ x = <<m, st>> /\ Good(m)
  BY DEF Killing, Killed
<1>2. p \in D \ K /\ p \in PCB
  <2>1. /\ Len(st) \in Nat /\ Len(st) >= 1 /\ p = st[1] /\ OnStack(st) \subseteq D \ K
        /\ D \subseteq PCB
    BY <1>1 DEF Calls, Below
  <2>2. 1 \in 1 .. Len(st)
    BY <2>1
  <2> QED
    BY <2>1, <2>2 DEF OnStack
<1>3. p \notin FreeIn(m)
  BY <1>1, <1>2 DEF Killed, Below
<1>4. TerminateStep(x) = IF emptyChild(m, p) THEN <<Bury(m, p), Tail(st)>>
                         ELSE <<removeChild(m, p), <<firstChild(m, p)>> \o st>>
  BY <1>1 DEF TerminateStep
<1> HIDE DEF m, st
<1>5. CASE emptyChild(m, p)
  <2>1. \A c \in PCB : m.p_parent[c] # Head(st)
    BY <1>1, <1>2, <1>3, <1>5, FirstChild
  <2> DEFINE r == Bury(m, Head(st))
             L == K \cup {Head(st)}
             s1 == Tail(st)
  <2>2. /\ Killed(m0, r, L) /\ Calls(m0, r, D, t, L, s1)
        /\ Done(L, s1) = Done(K, st) + 1
    BY <1>1, <2>1, CallReturns
  <2>3. TerminateStep(x) = <<r, s1>>
    BY <1>4, <1>5
  <2> HIDE DEF r, L, s1
  <2>4. Killing(m0, D, t, <<r, s1>>, L)
    BY <2>2 DEF Killing
  <2> QED
    BY <2>2, <2>3, <2>4 DEF st
<1>6. CASE ~emptyChild(m, p)
  <2> DEFINE c == firstChild(m, p)
             r == [list_del(m, p_sib(c)) EXCEPT !.p_parent[c] = Null]
             s1 == <<c>> \o st
  <2>1. c \in PCB /\ m.p_parent[c] = Head(st) /\ removeChild(m, p) = r
    BY <1>1, <1>2, <1>3, <1>6, FirstChild
  <2> HIDE DEF c
  <2>2. /\ Killed(m0, r, K) /\ Calls(m0, r, D, t, K, s1)
        /\ Done(K, s1) = Done(K, st) + 1
    BY <1>1, <2>1, CallNested
  <2>3. TerminateStep(x) = <<r, s1>>
    BY <1>4, <1>6, <2>1 DEF c
  <2> HIDE DEF r, s1
  <2>4. Killing(m0, D, t, <<r, s1>>, K)
    BY <2>2 DEF Killing
  <2> QED
    BY <2>2, <2>3, <2>4 DEF st
<1> QED
  BY <1>5, <1>6

\* Nothing has been done yet.
LEMMA KillStarts ==
  ASSUME NEW m0, Good(m0), NEW D, NEW t, Below(m0, t, D)
  PROVE  Killing(m0, D, t, <<m0, <<t>>>>, {}) /\ Done({}, <<t>>) = 1
<1>0. Typed(m0) /\ t \in D /\ t \in PCB /\ <<t>> \in Seq(PCB) /\ Len(<<t>>) = 1 /\ <<t>>[1] = t
  BY GoodLists DEF Below
<1>1. Killed(m0, m0, {})
  <2>1. P!Without(ReadyIn(m0), {}) = ReadyIn(m0)
    BY GoodLists DEF P!Without, P!IsQueue
  <2>2. ASSUME NEW s \in Sem PROVE P!Without(QueueIn(m0, s), {}) = QueueIn(m0, s)
    <3>1. P!IsQueue(QueueIn(m0, s))
      BY GoodLists
    <3> QED
      BY <3>1 DEF P!Without, P!IsQueue
  <2>3. Cardinality({}) = 0 /\ {y \in {} : m0.p_semAdd[y] = Clock} = {}
    BY FS_EmptySet
  <2>4. m0.p_semAdd = [y \in PCB |-> IF y \in {} THEN Null ELSE m0.p_semAdd[y]]
    BY <1>0 DEF Typed
  <2>5. /\ m0.processCount = m0.processCount - Cardinality({})
        /\ m0.softBlockCount = m0.softBlockCount
                                 - Cardinality({y \in {} : m0.p_semAdd[y] = Clock})
    BY <1>0, <2>3 DEF Typed
  <2> QED
    BY <2>1, <2>2, <2>4, <2>5 DEF Killed
<1>2. OnStack(<<t>>) = {t}
  BY <1>0 DEF OnStack
<1>3. Calls(m0, m0, D, t, {}, <<t>>)
  <2>1. m0.p_parent = [c \in PCB |-> IF c \in {} \cup (OnStack(<<t>>) \ {t}) THEN Null
                                     ELSE m0.p_parent[c]]
    BY <1>0, <1>2 DEF Typed
  <2>2. \A i \in 1 .. Len(<<t>>) : i = 1
    BY <1>0
  <2> QED
    BY <1>0, <1>2, <2>1, <2>2 DEF Calls
<1>4. Done({}, <<t>>) = 1
  <2>1. Cardinality({}) = 0 /\ Cardinality({t}) = 1 /\ {} \cup {t} = {t}
    BY FS_EmptySet, FS_Singleton
  <2> QED
    BY <1>2, <2>1 DEF Done
<1> QED
  BY <1>1, <1>3, <1>4 DEF Killing

\* When the first call has returned, D is dead.
LEMMA KillEnds ==
  ASSUME NEW m0, NEW D, NEW t, Below(m0, t, D), Good(m0),
         NEW x, NEW K, Killing(m0, D, t, x, K)
  PROVE  /\ Done(K, x[2]) \in Nat /\ Done(K, x[2]) <= 2 * MaxProc
         /\ x[2] = <<>> => /\ Killed(m0, x[1], D)
                           /\ x[1].p_parent = [c \in PCB |-> IF c \in D THEN Null
                                                             ELSE m0.p_parent[c]]
<1> DEFINE A == K \cup OnStack(x[2])
<1>1. Calls(m0, x[1], D, t, K, x[2]) /\ Killed(m0, x[1], K)
  BY DEF Killing
<1>2. K \in SUBSET PCB /\ A \in SUBSET PCB
  BY <1>1 DEF Calls, Below
<1>3. /\ Cardinality(K) \in Nat /\ Cardinality(K) <= MaxProc
      /\ Cardinality(A) \in Nat /\ Cardinality(A) <= MaxProc
      /\ MaxProc \in Nat
  BY <1>2, TableAssumption, FS_Subset, FS_CardinalityType DEF MaxProc
<1>4. Done(K, x[2]) = Cardinality(K) + Cardinality(A)
  BY DEF Done
<1> HIDE DEF A
<1>5. Done(K, x[2]) \in Nat /\ Done(K, x[2]) <= 2 * MaxProc
  BY <1>3, <1>4
<1>6. ASSUME x[2] = <<>>
      PROVE  /\ Killed(m0, x[1], D)
             /\ x[1].p_parent = [c \in PCB |-> IF c \in D THEN Null ELSE m0.p_parent[c]]
  <2>1. K \in SUBSET D /\ t \in K /\ \A c \in PCB : m0.p_parent[c] \in K => c \in K
    BY <1>1, <1>6 DEF Calls
  <2>2. K = D
    BY <2>1 DEF Below
  <2>3. OnStack(<<>>) = {}
    BY DEF OnStack
  <2>4. x[1].p_parent = [c \in PCB |-> IF c \in K \cup (OnStack(x[2]) \ {t}) THEN Null
                                       ELSE m0.p_parent[c]]
    BY <1>1 DEF Calls
  <2>5. K \cup (OnStack(x[2]) \ {t}) = D
    BY <1>6, <2>2, <2>3
  <2> QED
    BY <1>1, <2>2, <2>4, <2>5
<1> QED
  BY <1>5, <1>6

\* The rounds of the recursion, counted.
Rounds(f, x0, n) ==
  f = [i \in 0 .. n |-> IF i = 0 THEN x0 ELSE TerminateStep(f[i - 1])]

\* Such a function exists.
LEMMA RoundsExist ==
  ASSUME NEW x0, NEW n \in Nat
  PROVE  \E f : Rounds(f, x0, n)
<1> DEFINE K == {k \in Nat : \E f : Rounds(f, x0, k)}
<1>1. 0 \in K
  <2>1. Rounds([i \in 0 .. 0 |-> x0], x0, 0)
    BY DEF Rounds
  <2> QED
    BY <2>1
<1>2. ASSUME NEW k \in K PROVE k + 1 \in K
  <2>1. PICK f : Rounds(f, x0, k)
    OBVIOUS
  <2> DEFINE g == [i \in 0 .. k + 1 |-> IF i = k + 1 THEN TerminateStep(f[k]) ELSE f[i]]
             h == [i \in 0 .. k + 1 |-> IF i = 0 THEN x0 ELSE TerminateStep(g[i - 1])]
  <2>2. ASSUME NEW i \in 0 .. k + 1 PROVE g[i] = h[i]
    <3>0. k \in Nat
      OBVIOUS
    <3>1. CASE i = 0
      <4>1. 0 \in 0 .. k /\ 0 # k + 1
        BY <3>0
      <4>2. f[0] = x0
        BY <2>1, <4>1 DEF Rounds
      <4> QED
        BY <3>1, <4>1, <4>2
    <3>2. CASE i = k + 1
      <4>1. i - 1 = k /\ k \in 0 .. k + 1 /\ k # k + 1 /\ i # 0
        BY <3>0, <3>2
      <4> QED
        BY <3>2, <4>1
    <3>3. CASE i # 0 /\ i # k + 1
      <4>1. i \in 0 .. k /\ i - 1 \in 0 .. k + 1 /\ i - 1 # k + 1
        BY <3>0, <3>3
      <4>2. f[i] = TerminateStep(f[i - 1])
        BY <2>1, <3>3, <4>1 DEF Rounds
      <4> QED
        BY <3>3, <4>1, <4>2
    <3> QED
      BY <3>1, <3>2, <3>3
  <2>3. g = h
    BY <2>2
  <2>4. Rounds(g, x0, k + 1)
    BY <2>3 DEF Rounds
  <2> QED
    BY <2>4
<1>3. K = Nat
  <2> HIDE DEF K
  <2>1. K \in SUBSET Nat
    BY DEF K
  <2> QED
    BY <1>1, <1>2, <2>1, NatSet
<1> QED
  BY <1>3

\* recursive_terminate kills a process and its progeny.
LEMMA KillAll ==
  ASSUME NEW m0, Good(m0), NEW D, NEW t, Below(m0, t, D), \A p \in D : Placed(m0, p)
  PROVE  /\ Killed(m0, recursive_terminate(m0, t), D)
         /\ recursive_terminate(m0, t).p_parent =
              [c \in PCB |-> IF c \in D THEN Null ELSE m0.p_parent[c]]
<1> DEFINE M == 2 * MaxProc
           x0 == <<m0, <<t>>>>
<1>0. M \in Nat
  BY TableAssumption, FS_CardinalityType DEF MaxProc
<1>1. \E f : Rounds(f, x0, M)
  BY <1>0, RoundsExist
<1>2. PICK f : Rounds(f, x0, M) /\ recursive_terminate(m0, t) = f[M][1]
  BY <1>1 DEF Rounds, recursive_terminate
<1> HIDE DEF x0, M
<1> DEFINE Went(i) == \E K : /\ Killing(m0, D, t, f[i], K)
                             /\ f[i][2] = <<>> \/ Done(K, f[i][2]) = i + 1
           S == {i \in Nat : i <= M => Went(i)}
<1>3. 0 \in S
  <2>1. f[0] = x0
    BY <1>0, <1>2 DEF Rounds
  <2>2. x0 = <<m0, <<t>>>> /\ x0[2] = <<t>>
    BY DEF x0
  <2>3. Killing(m0, D, t, f[0], {}) /\ Done({}, f[0][2]) = 0 + 1
    BY <2>1, <2>2, KillStarts
  <2>4. Went(0)
    BY <2>3
  <2> QED
    BY <2>4
<1>4. ASSUME NEW i \in S PROVE i + 1 \in S
  <2> SUFFICES ASSUME i + 1 <= M PROVE Went(i + 1)
    OBVIOUS
  <2>1. i \in Nat /\ i <= M /\ i + 1 \in 0 .. M /\ i + 1 # 0 /\ (i + 1) - 1 = i
    BY <1>0
  <2>2. f[i + 1] = TerminateStep(f[i])
    BY <1>2, <2>1 DEF Rounds
  <2>3. Went(i)
    BY <2>1
  <2>4. PICK K : /\ Killing(m0, D, t, f[i], K)
                 /\ f[i][2] = <<>> \/ Done(K, f[i][2]) = i + 1
    BY <2>3
  <2>5. CASE f[i][2] = <<>>
    <3>1. TerminateStep(f[i]) = f[i]
      BY <2>5 DEF TerminateStep
    <3> QED
      BY <2>2, <2>4, <2>5, <3>1
  <2>6. CASE f[i][2] # <<>>
    <3>1. PICK L : /\ Killing(m0, D, t, TerminateStep(f[i]), L)
                   /\ Done(L, TerminateStep(f[i])[2]) = Done(K, f[i][2]) + 1
      BY <2>4, <2>6, KillStep
    <3>2. Done(L, f[i + 1][2]) = (i + 1) + 1
      BY <2>2, <2>4, <2>6, <3>1
    <3> QED
      BY <2>2, <3>1, <3>2
  <2> QED
    BY <2>5, <2>6
<1>5. S = Nat
  <2> HIDE DEF S
  <2>1. S \in SUBSET Nat
    BY DEF S
  <2> QED
    BY <1>3, <1>4, <2>1, NatSet
<1>6. Went(M)
  BY <1>0, <1>5
<1>7. PICK K : Killing(m0, D, t, f[M], K) /\ (f[M][2] = <<>> \/ Done(K, f[M][2]) = M + 1)
  BY <1>6
<1>8. /\ Done(K, f[M][2]) \in Nat /\ Done(K, f[M][2]) <= M
      /\ f[M][2] = <<>> => /\ Killed(m0, f[M][1], D)
                           /\ f[M][1].p_parent = [c \in PCB |-> IF c \in D THEN Null
                                                                ELSE m0.p_parent[c]]
  BY <1>7, KillEnds DEF M
<1>9. f[M][2] = <<>>
  BY <1>0, <1>7, <1>8
<1> QED
  BY <1>2, <1>8, <1>9

-----------------------------------------------------------------------------
(* The loop of ITInterrupt *)

\* The memory when the processes of W have been woken.
Waking(m0, m, W) ==
  /\ Good(m) /\ FreeIn(m) = FreeIn(m0)
  /\ W \subseteq P!Elems(QueueIn(m0, Clock))
  /\ QueueIn(m, Clock) = P!Without(QueueIn(m0, Clock), W)
  /\ \A s \in Sem \ {Clock} : QueueIn(m, s) = QueueIn(m0, s)
  /\ m.p_parent = m0.p_parent /\ m.p_prio = m0.p_prio /\ m.p_pid = m0.p_pid
  /\ m.next_pid = m0.next_pid /\ m.currProc = m0.currProc
  /\ m.processCount = m0.processCount
  /\ m.p_semAdd = [x \in PCB |-> IF x \in W THEN Null ELSE m0.p_semAdd[x]]
  /\ m.softBlockCount = m0.softBlockCount - Cardinality(W)
  /\ P!IsSorted(ReadyIn(m), m0.p_prio)
  /\ P!InsertAll(ReadyIn(m), QueueIn(m, Clock), m0.p_prio)
       = P!InsertAll(ReadyIn(m0), QueueIn(m0, Clock), m0.p_prio)

\* Those who have been woken are finitely many PCBs, and the others still wait.
LEMMA WakingSets ==
  ASSUME NEW m0, Good(m0), NEW m, NEW W, Waking(m0, m, W)
  PROVE  /\ W \in SUBSET PCB /\ IsFiniteSet(W) /\ Cardinality(W) \in Nat
         /\ Cardinality(W) <= MaxProc
         /\ P!Elems(QueueIn(m, Clock)) = P!Elems(QueueIn(m0, Clock)) \ W
         /\ Good(m) /\ Clock \in Sem
<1>0. Clock \in Sem
  BY DEF Sem
<1>1. P!IsQueue(QueueIn(m0, Clock)) /\ P!Elems(QueueIn(m0, Clock)) \subseteq PCB
  BY <1>0, GoodLists
<1>2. P!Elems(QueueIn(m, Clock)) = P!Elems(QueueIn(m0, Clock)) \ W
  BY <1>1, P!WithoutQueue DEF Waking
<1>3. W \in SUBSET PCB
  BY <1>1 DEF Waking
<1> QED
  BY <1>0, <1>2, <1>3, TableAssumption, FS_Subset, FS_CardinalityType DEF Waking, MaxProc

\* A round of the loop.
LEMMA WakingStep ==
  ASSUME NEW m0, Good(m0), NEW m, NEW W, Waking(m0, m, W),
         P!Elems(QueueIn(m, Clock)) # {}
  PROVE  \E V : Waking(m0, WakeFirst(m), V) /\ Cardinality(V) = Cardinality(W) + 1
<1> DEFINE h == P!headProcQ(QueueIn(m, Clock))
           a == Wake(m, Clock)
           r == [a EXCEPT !.softBlockCount = @ - 1]
           V == W \cup {h}
<1>1. /\ Good(m) /\ Clock \in Sem /\ W \in SUBSET PCB /\ IsFiniteSet(W)
      /\ Cardinality(W) \in Nat
      /\ P!Elems(QueueIn(m, Clock)) = P!Elems(QueueIn(m0, Clock)) \ W
  BY WakingSets
<1>2. h \in P!Elems(QueueIn(m, Clock)) /\ Woke(m, a, h, Clock)
  BY <1>1, WakeStep
<1>3. WakeFirst(m) = r
  <2>1. headBlocked(m, Clock) = h
    BY <1>1, HeadStep
  <2>2. h # Null
    BY <1>1, <1>2, GoodLists, TableAssumption
  <2> QED
    BY <2>1, <2>2 DEF WakeFirst
<1>4. /\ P!IsQueue(ReadyIn(m)) /\ P!IsQueue(QueueIn(m, Clock)) /\ h \in PCB
      /\ P!Elems(QueueIn(m, Clock)) \cap P!Elems(ReadyIn(m)) = {}
      /\ P!IsQueue(QueueIn(m0, Clock))
      /\ \A x \in P!Elems(QueueIn(m, Clock)) : <<h, x>> \in QueueIn(m, Clock)
  <2>1. /\ P!IsQueue(ReadyIn(m)) /\ P!IsQueue(QueueIn(m, Clock))
        /\ P!Elems(QueueIn(m, Clock)) \subseteq PCB
        /\ \A x \in P!Elems(QueueIn(m, Clock)) : x \notin P!Elems(ReadyIn(m))
    BY <1>1, GoodLists
  <2>2. P!IsQueue(QueueIn(m0, Clock))
    BY <1>1, GoodLists
  <2>3. \A x \in P!Elems(QueueIn(m, Clock)) : <<h, x>> \in QueueIn(m, Clock)
    BY <2>1, <1>2, P!HeadFirst
  <2> QED
    BY <1>2, <2>1, <2>2, <2>3
<1>5. Typed(m) /\ Typed(m0) /\ m.p_prio = m0.p_prio /\ m0.p_prio \in [PCB -> Nat]
  BY <1>1, GoodLists DEF Typed, Waking
<1>6. Good(a) /\ Typed(a) /\ DOMAIN a = MemFields
  BY <1>2, GoodLists DEF Woke
<1>7. Good(r) /\ SameLists(a, r)
  <2>1. /\ DOMAIN r = MemFields /\ Typed(r) /\ r.next = a.next /\ r.prev = a.prev
        /\ r.s_key = a.s_key /\ r.p_parent = a.p_parent /\ r.p_semAdd = a.p_semAdd
    BY <1>6 DEF Typed, MemFields
  <2> HIDE DEF r
  <2> QED
    BY <1>6, <2>1, NumbersStay
<1>8. /\ r.p_parent = a.p_parent /\ r.p_prio = a.p_prio /\ r.p_pid = a.p_pid
      /\ r.next_pid = a.next_pid /\ r.currProc = a.currProc
      /\ r.processCount = a.processCount /\ r.p_semAdd = a.p_semAdd
      /\ r.softBlockCount = a.softBlockCount - 1
  BY <1>6 DEF MemFields
<1> HIDE DEF r, a, h
<1>9. /\ a.p_parent = m.p_parent /\ a.p_prio = m.p_prio /\ a.p_pid = m.p_pid
      /\ a.next_pid = m.next_pid /\ a.currProc = m.currProc
      /\ a.processCount = m.processCount /\ a.softBlockCount = m.softBlockCount
      /\ a.p_semAdd = [m.p_semAdd EXCEPT ![h] = Null]
  BY <1>2 DEF Woke, SameButAsl
<1>10. /\ FreeIn(r) = FreeIn(m) /\ ReadyIn(r) = P!insertProcQ(ReadyIn(m), h, m0.p_prio)
       /\ QueueIn(r, Clock) = P!Without(QueueIn(m, Clock), {h})
       /\ \A s \in Sem \ {Clock} : QueueIn(r, s) = QueueIn(m, s)
  BY <1>1, <1>2, <1>5, <1>7 DEF Woke, QueuesBut, SameLists
<1>11. QueueIn(r, Clock) = P!Without(QueueIn(m0, Clock), V)
  <2>1. P!Without(P!Without(QueueIn(m0, Clock), W), {h}) = P!Without(QueueIn(m0, Clock), V)
    BY DEF P!Without
  <2> QED
    BY <1>10, <2>1 DEF Waking
<1>12. P!IsSorted(ReadyIn(r), m0.p_prio)
  <2>1. h \in PCB \ P!Elems(ReadyIn(m)) /\ P!IsSorted(ReadyIn(m), m0.p_prio)
    BY <1>2, <1>4 DEF Waking
  <2> QED
    BY <1>4, <1>5, <1>10, <2>1, P!InsertProcSorted
<1>13. P!InsertAll(ReadyIn(r), QueueIn(r, Clock), m0.p_prio)
         = P!InsertAll(ReadyIn(m0), QueueIn(m0, Clock), m0.p_prio)
  <2>1. P!InsertAll(P!insertProcQ(ReadyIn(m), h, m0.p_prio),
                    P!Without(QueueIn(m, Clock), {h}), m0.p_prio)
          = P!InsertAll(ReadyIn(m), QueueIn(m, Clock), m0.p_prio)
    <3>1. P!IsSorted(ReadyIn(m), m0.p_prio)
      BY DEF Waking
    <3> QED
      BY <1>2, <1>4, <1>5, <3>1, P!InsertFirst
  <2> QED
    BY <1>10, <2>1 DEF Waking
<1>14. Cardinality(V) = Cardinality(W) + 1 /\ h \notin W
  BY <1>1, <1>2, FS_AddElement
<1>15. r.softBlockCount = m0.softBlockCount - Cardinality(V)
  <2>1. r.softBlockCount = (m0.softBlockCount - Cardinality(W)) - 1
    BY <1>8, <1>9 DEF Waking
  <2>2. m0.softBlockCount \in Int
    BY <1>5 DEF Typed
  <2> QED
    BY <1>1, <1>14, <2>1, <2>2
<1>16. r.p_semAdd = [x \in PCB |-> IF x \in V THEN Null ELSE m0.p_semAdd[x]]
  BY <1>8, <1>9 DEF Waking
<1>17. V \subseteq P!Elems(QueueIn(m0, Clock))
  BY <1>1, <1>2 DEF Waking
<1>18. /\ Good(r) /\ FreeIn(r) = FreeIn(m0)
       /\ \A s \in Sem \ {Clock} : QueueIn(r, s) = QueueIn(m0, s)
       /\ r.p_parent = m0.p_parent /\ r.p_prio = m0.p_prio /\ r.p_pid = m0.p_pid
       /\ r.next_pid = m0.next_pid /\ r.currProc = m0.currProc
       /\ r.processCount = m0.processCount
  BY <1>7, <1>8, <1>9, <1>10 DEF Waking
<1> HIDE DEF V
<1>19. Waking(m0, r, V)
  BY <1>11, <1>12, <1>13, <1>15, <1>16, <1>17, <1>18 DEF Waking
<1> QED
  BY <1>3, <1>14, <1>19

\* The rounds of the loop, counted.
Ticks(f, m, n) == f = [i \in 0 .. n |-> IF i = 0 THEN m ELSE WakeFirst(f[i - 1])]

\* Such a function exists.
LEMMA TicksExist ==
  ASSUME NEW x0, NEW n \in Nat
  PROVE  \E f : Ticks(f, x0, n)
<1> DEFINE K == {k \in Nat : \E f : Ticks(f, x0, k)}
<1>1. 0 \in K
  <2>1. Ticks([i \in 0 .. 0 |-> x0], x0, 0)
    BY DEF Ticks
  <2> QED
    BY <2>1
<1>2. ASSUME NEW k \in K PROVE k + 1 \in K
  <2>1. PICK f : Ticks(f, x0, k)
    OBVIOUS
  <2> DEFINE g == [i \in 0 .. k + 1 |-> IF i = k + 1 THEN WakeFirst(f[k]) ELSE f[i]]
             h == [i \in 0 .. k + 1 |-> IF i = 0 THEN x0 ELSE WakeFirst(g[i - 1])]
  <2>2. ASSUME NEW i \in 0 .. k + 1 PROVE g[i] = h[i]
    <3>0. k \in Nat
      OBVIOUS
    <3>1. CASE i = 0
      <4>1. 0 \in 0 .. k /\ 0 # k + 1
        BY <3>0
      <4>2. f[0] = x0
        BY <2>1, <4>1 DEF Ticks
      <4> QED
        BY <3>1, <4>1, <4>2
    <3>2. CASE i = k + 1
      <4>1. i - 1 = k /\ k \in 0 .. k + 1 /\ k # k + 1 /\ i # 0
        BY <3>0, <3>2
      <4> QED
        BY <3>2, <4>1
    <3>3. CASE i # 0 /\ i # k + 1
      <4>1. i \in 0 .. k /\ i - 1 \in 0 .. k + 1 /\ i - 1 # k + 1
        BY <3>0, <3>3
      <4>2. f[i] = WakeFirst(f[i - 1])
        BY <2>1, <3>3, <4>1 DEF Ticks
      <4> QED
        BY <3>3, <4>1, <4>2
    <3> QED
      BY <3>1, <3>2, <3>3
  <2>3. g = h
    BY <2>2
  <2>4. Ticks(g, x0, k + 1)
    BY <2>3 DEF Ticks
  <2> QED
    BY <2>4
<1>3. K = Nat
  <2> HIDE DEF K
  <2>1. K \in SUBSET Nat
    BY DEF K
  <2> QED
    BY <1>1, <1>2, <2>1, NatSet
<1> QED
  BY <1>3

\* The memory when everybody has been woken that waited for the clock.
AllWoken(m, r) ==
  /\ Good(r) /\ FreeIn(r) = FreeIn(m)
  /\ ReadyIn(r) = P!InsertAll(ReadyIn(m), QueueIn(m, Clock), m.p_prio)
  /\ QueueIn(r, Clock) = P!Without(QueueIn(m, Clock), P!Elems(QueueIn(m, Clock)))
  /\ \A s \in Sem \ {Clock} : QueueIn(r, s) = QueueIn(m, s)
  /\ r.p_parent = m.p_parent /\ r.p_prio = m.p_prio /\ r.p_pid = m.p_pid
  /\ r.next_pid = m.next_pid /\ r.currProc = m.currProc
  /\ r.processCount = m.processCount
  /\ r.p_semAdd = [x \in PCB |-> IF x \in P!Elems(QueueIn(m, Clock)) THEN Null
                                 ELSE m.p_semAdd[x]]
  /\ r.softBlockCount = m.softBlockCount - Cardinality(P!Elems(QueueIn(m, Clock)))

\* When nobody is left, everybody has been woken.
LEMMA WakingEnds ==
  ASSUME NEW m0, Good(m0), NEW m, NEW W, Waking(m0, m, W), P!Elems(QueueIn(m, Clock)) = {}
  PROVE  AllWoken(m0, m)
<1>1. /\ Good(m) /\ Clock \in Sem
      /\ P!Elems(QueueIn(m, Clock)) = P!Elems(QueueIn(m0, Clock)) \ W
  BY WakingSets
<1>2. W = P!Elems(QueueIn(m0, Clock))
  BY <1>1 DEF Waking
<1>3. P!IsQueue(ReadyIn(m)) /\ P!IsQueue(QueueIn(m, Clock)) /\ m0.p_prio \in [PCB -> Nat]
  BY <1>1, GoodLists DEF Typed
<1>4. P!IsSorted(ReadyIn(m), m0.p_prio)
  BY DEF Waking
<1>5. P!InsertAll(ReadyIn(m), QueueIn(m, Clock), m0.p_prio) = ReadyIn(m)
  BY <1>3, <1>4, P!InsertNobody
<1> QED
  BY <1>2, <1>5 DEF Waking, AllWoken

\* The loop wakes everybody.
LEMMA WakeAllStep ==
  ASSUME NEW m0, Good(m0), P!IsSorted(ReadyIn(m0), m0.p_prio)
  PROVE  AllWoken(m0, WakeAll(m0))
<1> DEFINE M == MaxProc
<1>0. M \in Nat
  BY TableAssumption, FS_CardinalityType DEF MaxProc
<1>1. \E f : Ticks(f, m0, M)
  BY <1>0, TicksExist
<1>2. PICK f : Ticks(f, m0, M) /\ WakeAll(m0) = f[M]
  BY <1>1 DEF Ticks, WakeAll
<1> HIDE DEF M
<1> DEFINE Went(i) == \E W : /\ Waking(m0, f[i], W)
                             /\ P!Elems(QueueIn(f[i], Clock)) = {} \/ Cardinality(W) = i
           S == {i \in Nat : i <= M => Went(i)}
<1>3. 0 \in S
  <2>1. f[0] = m0
    BY <1>0, <1>2 DEF Ticks
  <2>2. /\ P!IsQueue(QueueIn(m0, Clock)) /\ Typed(m0)
    BY GoodLists DEF Sem
  <2>3. P!Without(QueueIn(m0, Clock), {}) = QueueIn(m0, Clock)
    BY <2>2 DEF P!Without, P!IsQueue
  <2>4. Cardinality({}) = 0
    BY FS_EmptySet
  <2>5. m0.p_semAdd = [x \in PCB |-> IF x \in {} THEN Null ELSE m0.p_semAdd[x]]
    BY <2>2 DEF Typed
  <2>6. m0.softBlockCount = m0.softBlockCount - Cardinality({})
    BY <2>2, <2>4 DEF Typed
  <2>7. Waking(m0, m0, {})
    BY <2>3, <2>5, <2>6 DEF Waking
  <2> QED
    BY <2>1, <2>4, <2>7
<1>4. ASSUME NEW i \in S PROVE i + 1 \in S
  <2> SUFFICES ASSUME i + 1 <= M PROVE Went(i + 1)
    OBVIOUS
  <2>1. i \in Nat /\ i <= M /\ i + 1 \in 0 .. M /\ i + 1 # 0 /\ (i + 1) - 1 = i
    BY <1>0
  <2>2. f[i + 1] = WakeFirst(f[i])
    BY <1>2, <2>1 DEF Ticks
  <2>3. Went(i)
    BY <2>1
  <2>4. PICK W : /\ Waking(m0, f[i], W)
                 /\ P!Elems(QueueIn(f[i], Clock)) = {} \/ Cardinality(W) = i
    BY <2>3
  <2>5. CASE P!Elems(QueueIn(f[i], Clock)) = {}
    <3>1. headBlocked(f[i], Clock) = Null
      BY <2>4, <2>5, HeadStep DEF Waking, Sem
    <3>2. WakeFirst(f[i]) = f[i]
      BY <3>1 DEF WakeFirst
    <3> QED
      BY <2>2, <2>4, <2>5, <3>2
  <2>6. CASE P!Elems(QueueIn(f[i], Clock)) # {}
    <3>1. PICK V : Waking(m0, WakeFirst(f[i]), V) /\ Cardinality(V) = Cardinality(W) + 1
      BY <2>4, <2>6, WakingStep
    <3> QED
      BY <2>2, <2>4, <2>6, <3>1
  <2> QED
    BY <2>5, <2>6
<1>5. S = Nat
  <2> HIDE DEF S
  <2>1. S \in SUBSET Nat
    BY DEF S
  <2> QED
    BY <1>3, <1>4, <2>1, NatSet
<1>6. Went(M)
  BY <1>0, <1>5
<1>7. PICK W : Waking(m0, f[M], W) /\ (P!Elems(QueueIn(f[M], Clock)) = {} \/ Cardinality(W) = M)
  BY <1>6
<1>8. ASSUME P!Elems(QueueIn(f[M], Clock)) # {}, Cardinality(W) = M PROVE FALSE
  <2>1. PICK V : Waking(m0, WakeFirst(f[M]), V) /\ Cardinality(V) = Cardinality(W) + 1
    BY <1>7, <1>8, WakingStep
  <2>2. Cardinality(V) \in Nat /\ Cardinality(V) <= M
    BY <2>1, WakingSets DEF M
  <2> QED
    BY <1>0, <1>8, <2>1, <2>2
<1> QED
  BY <1>2, <1>7, <1>8, WakingEnds

-----------------------------------------------------------------------------
(* find_pcb *)

\* The process tree of a memory.
LiveIn(m) == PCB \ FreeIn(m)

\* A group of processes that holds the children of its members.
ClosedIn(m, S) == \A c \in LiveIn(m) : m.p_parent[c] \in S => c \in S

\* A process and its progeny.
SubtreeIn(m, r) ==
  {q \in LiveIn(m) : \A S \in SUBSET LiveIn(m) : r \in S /\ ClosedIn(m, S) => q \in S}

\* The process everybody descends from.
IsRoot(m, r) ==
  /\ r \in LiveIn(m) /\ m.p_parent[r] = Null /\ LiveIn(m) = SubtreeIn(m, r)

\* The processes form one tree.
TreeIn(m) ==
  \A p \in LiveIn(m) : /\ m.p_parent[p] \in LiveIn(m) \cup {Null}
                       /\ \E r \in LiveIn(m) : m.p_parent[r] = Null /\ LiveIn(m) = SubtreeIn(m, r)

\* The progeny of a process is the smallest such group.
LEMMA SubtreeInFacts ==
  ASSUME NEW m, NEW r
  PROVE  /\ SubtreeIn(m, r) \subseteq LiveIn(m) /\ ClosedIn(m, SubtreeIn(m, r))
         /\ r \in LiveIn(m) => r \in SubtreeIn(m, r)
         /\ \A S \in SUBSET LiveIn(m) : r \in S /\ ClosedIn(m, S) => SubtreeIn(m, r) \subseteq S
BY DEF SubtreeIn, ClosedIn

\* Who is below t is t or has its parent there.
LEMMA SubtreeParents ==
  ASSUME NEW m, NEW t \in LiveIn(m), NEW c \in SubtreeIn(m, t), c # t
  PROVE  m.p_parent[c] \in SubtreeIn(m, t)
<1> DEFINE D == SubtreeIn(m, t)
           S == {x \in D : x = t \/ m.p_parent[x] \in D}
<1>1. D \subseteq LiveIn(m) /\ ClosedIn(m, D) /\ t \in D
  BY SubtreeInFacts
<1>2. S \in SUBSET LiveIn(m) /\ t \in S /\ ClosedIn(m, S)
  BY <1>1 DEF ClosedIn
<1>3. D \subseteq S
  <2> HIDE DEF S
  <2> QED
    BY <1>2, SubtreeInFacts
<1> QED
  BY <1>3

\* A process and its progeny, as recursive_terminate meets them.
LEMMA BelowSubtree ==
  ASSUME NEW m, Good(m), FreeBare(m), TreeIn(m), NEW t \in LiveIn(m)
  PROVE  Below(m, t, SubtreeIn(m, t))
<1> DEFINE D == SubtreeIn(m, t)
           L == LiveIn(m)
<1>0. Null \notin PCB /\ Null \notin L /\ L \subseteq PCB /\ L = PCB \ FreeIn(m)
  BY TableAssumption DEF LiveIn
<1>1. D \subseteq L /\ ClosedIn(m, D) /\ t \in D
  BY SubtreeInFacts
<1>2. \A c \in D : c = t \/ m.p_parent[c] \in D
  BY SubtreeParents
<1>3. \A S \in SUBSET L : t \in S /\ ClosedIn(m, S) => D \subseteq S
  BY SubtreeInFacts
<1>4. ASSUME NEW c \in PCB, m.p_parent[c] \in D PROVE c \in D
  <2>1. c \in L
    BY <1>0, <1>1, <1>4 DEF FreeBare
  <2> QED
    BY <1>1, <1>4, <2>1 DEF ClosedIn
<1>5. m.p_parent[t] \notin D
  <2> SUFFICES ASSUME m.p_parent[t] \in D PROVE FALSE
    OBVIOUS
  <2>1. PICK r \in L : m.p_parent[r] = Null /\ L = SubtreeIn(m, r)
    BY DEF TreeIn
  <2> HIDE DEF D
  <2>2. r \in L \ D
    BY <1>0, <1>1, <1>2, <2>1
  <2>3. ClosedIn(m, L \ D)
    <3>1. \A c \in L : m.p_parent[c] \in L \ D => c \in L \ D
      BY <1>2
    <3> QED
      BY <3>1 DEF ClosedIn
  <2>4. L \subseteq L \ D
    BY <2>1, <2>2, <2>3, SubtreeInFacts
  <2> QED
    BY <1>1, <2>4
<1>6. ASSUME NEW S \in SUBSET D, t \in S, \A c \in PCB : m.p_parent[c] \in S => c \in S
      PROVE  S = D
  <2>1. ClosedIn(m, S) /\ S \in SUBSET L
    BY <1>0, <1>1, <1>6 DEF ClosedIn
  <2> QED
    BY <1>3, <1>6, <2>1
<1> HIDE DEF D, L
<1>7. D \subseteq PCB \ FreeIn(m)
  BY <1>0, <1>1
<1>8. Below(m, t, D)
  BY <1>1, <1>4, <1>5, <1>6, <1>7 DEF Below
<1> QED
  BY <1>8 DEF D

\* The climb from any process ends at the root.
LEMMA ProgenitorRoot ==
  ASSUME NEW m, Good(m), TreeIn(m), NEW p \in LiveIn(m), NEW r, IsRoot(m, r)
  PROVE  Progenitor(m, p) = r
<1> DEFINE T == {x \in PCB : m.p_parent[x] = Null}
           G == m.p_parent
<1>1. m.p_parent \in [PCB -> PCB \cup {Null}]
  BY GoodLists DEF Typed
<1>2. \E f : IsLoop(f, PCB, T, G)
  <2>1. StaysIn(PCB, T, G)
    BY <1>1 DEF StaysIn
  <2> QED
    BY <2>1, LoopExists
<1>3. \E f : f = [x \in PCB |-> IF m.p_parent[x] = Null THEN x ELSE f[m.p_parent[x]]]
  <2>1. PICK f : IsLoop(f, PCB, T, G)
    BY <1>2
  <2>2. f = [x \in PCB |-> IF m.p_parent[x] = Null THEN x ELSE f[m.p_parent[x]]]
    BY <2>1 DEF IsLoop
  <2> QED
    BY <2>2
<1>4. PICK f : /\ f = [x \in PCB |-> IF m.p_parent[x] = Null THEN x ELSE f[m.p_parent[x]]]
               /\ Progenitor(m, p) = f[p]
  BY <1>3 DEF Progenitor
<1> DEFINE S == {x \in LiveIn(m) : f[x] = r}
<1>5. \A x \in PCB : f[x] = IF m.p_parent[x] = Null THEN x ELSE f[m.p_parent[x]]
  BY <1>4
<1>6. S \in SUBSET LiveIn(m) /\ r \in S /\ LiveIn(m) \subseteq PCB /\ Null \notin PCB
  BY <1>5, TableAssumption DEF IsRoot, LiveIn
<1>7. ClosedIn(m, S)
  BY <1>5, <1>6 DEF ClosedIn
<1>8. LiveIn(m) \subseteq S
  <2> HIDE DEF S
  <2> QED
    BY <1>6, <1>7, SubtreeInFacts DEF IsRoot
<1> QED
  BY <1>4, <1>8

\* The children list of a live process, and where a loop over it stops.
LEMMA ChildrenLoop ==
  ASSUME NEW m, Good(m), NEW p \in LiveIn(m)
  PROVE  /\ \A c \in PCB : OnList(m, p_sib(c), p_child(p)) <=> m.p_parent[c] = p
         /\ \A H \in SUBSET {c \in PCB : m.p_parent[c] = p} : H # {} =>
              container_of(list_for_each(m, p_child(p), {p_sib(c) : c \in H})) \in H
<1>1. PICK Q : Rep(m, Q)
  BY DEF Good
<1> DEFINE h == p_child(p)
<1>2. /\ Shape(m, Q) /\ p \in PCB /\ p \notin FreeIn(m) /\ h \in Heads /\ h \in Inited(m)
      /\ O!IsQueue(Q[h]) /\ O!Elems(Q[h]) \subseteq {p_sib(x) : x \in PCB}
  BY <1>1, NodeNames, FreeFound, ShapeQueues DEF Rep, TreeKept, Kinds, LiveIn
<1>3. \A x \in PCB : p_sib(x) \in O!Elems(Q[h]) <=> m.p_parent[x] = p
  BY <1>1, <1>2 DEF Rep, TreeKept
<1>4. \A c \in PCB : OnList(m, p_sib(c), h) <=> m.p_parent[c] = p
  BY <1>2, <1>3, OnListMember, NodeNames
<1>5. ASSUME NEW H \in SUBSET {c \in PCB : m.p_parent[c] = p}, H # {}
      PROVE  container_of(list_for_each(m, h, {p_sib(c) : c \in H})) \in H
  <2> DEFINE S == {p_sib(c) : c \in H}
             stop == list_for_each(m, h, S)
  <2>1. S \subseteq O!Elems(Q[h]) /\ S # {}
    BY <1>3, <1>5
  <2>2. \A n \in S : \E c \in H : n = p_sib(c) /\ container_of(n) = c
    BY <1>5, NodeNames
  <2> HIDE DEF S, h
  <2>3. O!Elems(Q[h]) \cap S = S
    BY <2>1
  <2>4. stop = FirstNode(h, Q[h], S)
    BY <1>2, <2>3, SearchEnds
  <2>5. FirstNode(h, Q[h], S) \in S
    <3>1. O!IsQueue(Q[h]) /\ S \subseteq O!Elems(Q[h]) /\ S # {}
      BY <1>2, <2>1
    <3> QED
      BY <3>1, FirstIn
  <2> QED
    BY <2>2, <2>4, <2>5 DEF S
<1> QED
  BY <1>4, <1>5

\* What the search from p for a pid finds.
Found(m, pid, p) ==
  IF m.p_pid[p] = pid THEN p
  ELSE IF p \in LiveIn(m) /\ \E q \in SubtreeIn(m, p) : m.p_pid[q] = pid
       THEN CHOOSE q \in LiveIn(m) : m.p_pid[q] = pid
       ELSE Null

\* f is the recursion of find_pcb_recursive.
Finds(f, m, pid) ==
  f = [p \in PCB |->
        IF m.p_pid[p] = pid THEN p
        ELSE LET hits == {c \in PCB : /\ OnList(m, p_sib(c), p_child(p))
                                      /\ f[c] # Null}
                 stop == list_for_each(m, p_child(p), {p_sib(c) : c \in hits})
             IN  IF hits = {} THEN Null ELSE f[container_of(stop)]]

\* Live processes have different pids.
OnePid(m) == \A p, q \in LiveIn(m) : m.p_pid[p] = m.p_pid[q] => p = q

\* v is the value of the recursion for p, from those for its children.
IsBody(v, f, m, p) ==
  v = LET hits == {c \in PCB : /\ OnList(m, p_sib(c), p_child(p))
                               /\ f[c] # Null}
          stop == list_for_each(m, p_child(p), {p_sib(c) : c \in hits})
      IN  IF hits = {} THEN Null ELSE f[container_of(stop)]

\* A child's value is handed on, when one of them has found something.
HandsOn(v, f, m, p) ==
  /\ (\A c \in PCB : m.p_parent[c] = p => f[c] = Null) => v = Null
  /\ (\E c \in PCB : m.p_parent[c] = p /\ f[c] # Null) =>
       \E c \in PCB : m.p_parent[c] = p /\ f[c] # Null /\ v = f[c]

\* For a live process the value in the body of the search is this one.
LEMMA BodyValue ==
  ASSUME NEW m, Good(m), NEW f, NEW pid, NEW p \in LiveIn(m), m.p_pid[p] # pid,
         NEW v, IsBody(v, f, m, p)
  PROVE  HandsOn(v, f, m, p)
<1> DEFINE hits == {c \in PCB : OnList(m, p_sib(c), p_child(p)) /\ f[c] # Null}
           stop == list_for_each(m, p_child(p), {p_sib(c) : c \in hits})
<1>1. v = IF hits = {} THEN Null ELSE f[container_of(stop)]
  BY DEF IsBody
<1>2. hits = {c \in PCB : m.p_parent[c] = p /\ f[c] # Null}
  BY ChildrenLoop
<1>3. hits # {} => container_of(stop) \in hits
  <2>1. hits \in SUBSET {c \in PCB : m.p_parent[c] = p}
    BY <1>2
  <2> HIDE DEF hits
  <2> QED
    BY <2>1, ChildrenLoop
<1> HIDE DEF hits, stop
<1> QED
  BY <1>1, <1>2, <1>3 DEF HandsOn

\* Who is below p is p or is below a child of p.
LEMMA SubtreeSplit ==
  ASSUME NEW m, Good(m), TreeIn(m), FreeBare(m), NEW p \in LiveIn(m)
  PROVE  /\ \A c \in PCB : m.p_parent[c] = p =>
              /\ c \in LiveIn(m) /\ SubtreeIn(m, c) \subseteq SubtreeIn(m, p)
              /\ p \notin SubtreeIn(m, c) /\ c \in SubtreeIn(m, c)
         /\ \A q \in SubtreeIn(m, p) : q # p =>
              \E c \in PCB : m.p_parent[c] = p /\ q \in SubtreeIn(m, c)
<1>0. Null \notin PCB /\ LiveIn(m) = PCB \ FreeIn(m)
  BY TableAssumption DEF LiveIn
<1>1. /\ SubtreeIn(m, p) \subseteq LiveIn(m) /\ ClosedIn(m, SubtreeIn(m, p))
      /\ p \in SubtreeIn(m, p)
  BY SubtreeInFacts
<1>2. ASSUME NEW c \in PCB, m.p_parent[c] = p
      PROVE  /\ c \in LiveIn(m) /\ SubtreeIn(m, c) \subseteq SubtreeIn(m, p)
             /\ p \notin SubtreeIn(m, c) /\ c \in SubtreeIn(m, c)
  <2>1. c \in LiveIn(m)
    BY <1>0, <1>2 DEF FreeBare
  <2>2. c \in SubtreeIn(m, p)
    BY <1>1, <1>2, <2>1 DEF ClosedIn
  <2>3. SubtreeIn(m, c) \subseteq SubtreeIn(m, p)
    BY <1>1, <2>1, <2>2, SubtreeInFacts
  <2>4. m.p_parent[c] \notin SubtreeIn(m, c)
    BY <2>1, BelowSubtree DEF Below
  <2> QED
    BY <1>2, <2>1, <2>3, <2>4, SubtreeInFacts
<1> DEFINE S == {q \in LiveIn(m) : q = p \/ \E c \in PCB : m.p_parent[c] = p /\ q \in SubtreeIn(m, c)}
<1>3. ClosedIn(m, S) /\ S \in SUBSET LiveIn(m) /\ p \in S
  <2>1. ASSUME NEW q \in LiveIn(m), m.p_parent[q] \in S PROVE q \in S
    <3>1. CASE m.p_parent[q] = p
      <4>1. q \in SubtreeIn(m, q) /\ q \in PCB
        BY <1>0, SubtreeInFacts
      <4> QED
        BY <3>1, <4>1
    <3>2. CASE m.p_parent[q] # p
      <4>1. PICK c \in PCB : m.p_parent[c] = p /\ m.p_parent[q] \in SubtreeIn(m, c)
        BY <2>1, <3>2
      <4>2. q \in SubtreeIn(m, c)
        <5>1. ClosedIn(m, SubtreeIn(m, c))
          BY SubtreeInFacts
        <5> QED
          BY <4>1, <5>1 DEF ClosedIn
      <4> QED
        BY <4>1, <4>2
    <3> QED
      BY <3>1, <3>2
  <2> QED
    BY <2>1 DEF ClosedIn
<1>4. SubtreeIn(m, p) \subseteq S
  <2> HIDE DEF S
  <2> QED
    BY <1>3, SubtreeInFacts
<1> QED
  BY <1>2, <1>4

\* The process with the pid, when it is live.
LEMMA FoundLive ==
  ASSUME NEW m, Good(m), OnePid(m), NEW pid, NEW p \in LiveIn(m)
  PROVE  /\ \A q \in SubtreeIn(m, p) : m.p_pid[q] = pid => Found(m, pid, p) = q
         /\ (\A q \in SubtreeIn(m, p) : m.p_pid[q] # pid) => Found(m, pid, p) = Null
<1>1. SubtreeIn(m, p) \subseteq LiveIn(m) /\ p \in SubtreeIn(m, p)
  BY SubtreeInFacts
<1>2. ASSUME NEW q \in SubtreeIn(m, p), m.p_pid[q] = pid PROVE Found(m, pid, p) = q
  <2>1. \A x \in LiveIn(m) : m.p_pid[x] = pid => x = q
    BY <1>1, <1>2 DEF OnePid
  <2>2. q \in LiveIn(m)
    BY <1>1
  <2>3. (CHOOSE x \in LiveIn(m) : m.p_pid[x] = pid) = q
    BY <1>2, <2>1, <2>2
  <2> QED
    BY <1>2, <2>1, <2>3 DEF Found
<1>3. ASSUME \A q \in SubtreeIn(m, p) : m.p_pid[q] # pid PROVE Found(m, pid, p) = Null
  BY <1>1, <1>3 DEF Found
<1> QED
  BY <1>2, <1>3

\* One value of Found, from those for the children.
LEMMA FoundStep ==
  ASSUME NEW m, Good(m), TreeIn(m), FreeBare(m), OnePid(m), NEW pid, NEW p \in LiveIn(m),
         m.p_pid[p] # pid, NEW v,
         (\A c \in PCB : m.p_parent[c] = p => Found(m, pid, c) = Null) => v = Null,
         (\E c \in PCB : m.p_parent[c] = p /\ Found(m, pid, c) # Null) =>
            \E c \in PCB : m.p_parent[c] = p /\ Found(m, pid, c) # Null /\ v = Found(m, pid, c)
  PROVE  v = Found(m, pid, p)
<1>0. Null \notin PCB /\ LiveIn(m) \subseteq PCB
  BY TableAssumption DEF LiveIn
<1>1. /\ \A c \in PCB : m.p_parent[c] = p =>
              c \in LiveIn(m) /\ SubtreeIn(m, c) \subseteq SubtreeIn(m, p)
      /\ \A q \in SubtreeIn(m, p) : q # p =>
              \E c \in PCB : m.p_parent[c] = p /\ q \in SubtreeIn(m, c)
      /\ SubtreeIn(m, p) \subseteq LiveIn(m)
  BY SubtreeSplit, SubtreeInFacts
<1>2. ASSUME NEW q \in SubtreeIn(m, p), m.p_pid[q] = pid PROVE v = q
  <2>1. PICK c \in PCB : m.p_parent[c] = p /\ q \in SubtreeIn(m, c)
    BY <1>1, <1>2
  <2>2. Found(m, pid, c) = q /\ q # Null
    BY <1>0, <1>1, <1>2, <2>1, FoundLive
  <2>3. PICK d \in PCB : m.p_parent[d] = p /\ Found(m, pid, d) # Null /\ v = Found(m, pid, d)
    BY <2>1, <2>2
  <2>4. d \in LiveIn(m)
    BY <1>1, <2>3
  <2>5. PICK x \in SubtreeIn(m, d) : m.p_pid[x] = pid
    BY <2>3, <2>4, FoundLive
  <2>6. v = x
    BY <2>3, <2>4, <2>5, FoundLive
  <2>7. x \in LiveIn(m) /\ q \in LiveIn(m)
    BY <1>1, <2>3, <2>5
  <2> QED
    BY <1>2, <2>5, <2>6, <2>7 DEF OnePid
<1>3. ASSUME \A q \in SubtreeIn(m, p) : m.p_pid[q] # pid PROVE v = Null
  <2>1. ASSUME NEW c \in PCB, m.p_parent[c] = p PROVE Found(m, pid, c) = Null
    <3>1. c \in LiveIn(m) /\ \A q \in SubtreeIn(m, c) : m.p_pid[q] # pid
      BY <1>1, <1>3, <2>1
    <3> QED
      BY <3>1, FoundLive
  <2> QED
    BY <2>1
<1>4. CASE \E q \in SubtreeIn(m, p) : m.p_pid[q] = pid
  BY <1>2, <1>4, FoundLive
<1>5. CASE \A q \in SubtreeIn(m, p) : m.p_pid[q] # pid
  BY <1>3, <1>5, FoundLive
<1> QED
  BY <1>4, <1>5

\* The search exists.
LEMMA FindsExist ==
  ASSUME NEW m, Good(m), TreeIn(m), FreeBare(m), OnePid(m), NEW pid
  PROVE  \E f : Finds(f, m, pid)
<1> DEFINE f == [p \in PCB |-> Found(m, pid, p)]
           body(p) == LET hits == {c \in PCB : /\ OnList(m, p_sib(c), p_child(p))
                                              /\ f[c] # Null}
                          stop == list_for_each(m, p_child(p), {p_sib(c) : c \in hits})
                      IN  IF hits = {} THEN Null ELSE f[container_of(stop)]
           g == [p \in PCB |-> IF m.p_pid[p] = pid THEN p ELSE body(p)]
<1>1. \A c \in PCB : f[c] = Found(m, pid, c)
  OBVIOUS
<1> HIDE DEF f
<1>2. ASSUME NEW p \in PCB, m.p_pid[p] # pid PROVE body(p) = Found(m, pid, p)
  <2>1. CASE p \in LiveIn(m)
    <3>1. HandsOn(body(p), f, m, p)
      <4>1. IsBody(body(p), f, m, p)
        BY DEF IsBody
      <4> HIDE DEF body
      <4> QED
        BY <1>2, <2>1, <4>1, BodyValue
    <3> HIDE DEF body
    <3>2. /\ (\A c \in PCB : m.p_parent[c] = p => Found(m, pid, c) = Null) => body(p) = Null
          /\ (\E c \in PCB : m.p_parent[c] = p /\ Found(m, pid, c) # Null) =>
              \E c \in PCB : m.p_parent[c] = p /\ Found(m, pid, c) # Null
                             /\ body(p) = Found(m, pid, c)
      BY <1>1, <3>1 DEF HandsOn
    <3> QED
      BY <1>2, <2>1, <3>2, FoundStep
  <2>2. CASE p \notin LiveIn(m)
    <3>1. \A c \in PCB : ~OnList(m, p_sib(c), p_child(p))
      <4>1. p \in FreeIn(m)
        BY <2>2 DEF LiveIn
      <4>2. \A c \in PCB : m.p_parent[c] # p
        BY <4>1 DEF FreeBare
      <4>3. PICK Q : Rep(m, Q)
        BY DEF Good
      <4>4. \A c \in PCB : p_sib(c) \notin O!Elems(Q[p_child(p)])
        BY <4>2, <4>3 DEF Rep, TreeKept
      <4>5. Shape(m, Q) /\ p_child(p) \in Heads /\ \A c \in PCB : p_sib(c) \in Node \ Heads
        BY <4>3, NodeNames DEF Rep
      <4> QED
        BY <4>4, <4>5, OnListMember
    <3>2. Found(m, pid, p) = Null
      BY <1>2, <2>2 DEF Found
    <3> QED
      BY <3>1, <3>2
  <2> QED
    BY <2>1, <2>2
<1>3. f = g
  <2>1. \A p \in PCB : m.p_pid[p] = pid => Found(m, pid, p) = p
    BY DEF Found
  <2>2. \A p \in PCB : g[p] = f[p]
    <3> HIDE DEF body
    <3> QED
      BY <1>1, <1>2, <2>1
  <2>3. f = [p \in PCB |-> f[p]] /\ g = [p \in PCB |-> g[p]]
    <3> HIDE DEF body
    <3> QED
      BY DEF f
  <2> HIDE DEF g
  <2> QED
    BY <2>2, <2>3
<1>4. Finds(f, m, pid)
  BY <1>3 DEF Finds
<1> QED
  BY <1>4

\* There is only one way to search the live processes.
LEMMA FindsFound ==
  ASSUME NEW m, Good(m), TreeIn(m), FreeBare(m), OnePid(m), NEW pid,
         NEW f, Finds(f, m, pid)
  PROVE  \A p \in LiveIn(m) : f[p] = Found(m, pid, p)
<1> DEFINE Bad == {p \in LiveIn(m) : f[p] # Found(m, pid, p)}
           F == {SubtreeIn(m, p) : p \in Bad}
<1> SUFFICES ASSUME Bad # {} PROVE FALSE
  OBVIOUS
<1>0. LiveIn(m) \subseteq PCB /\ IsFiniteSet(PCB)
  BY TableAssumption DEF LiveIn
<1>1. PICK p \in Bad : \A q \in Bad : SubtreeIn(m, q) \subseteq SubtreeIn(m, p)
                                        => SubtreeIn(m, q) = SubtreeIn(m, p)
  <2>1. F \in SUBSET (SUBSET PCB) /\ F # {}
    BY <1>0, SubtreeInFacts
  <2> HIDE DEF Bad
  <2>2. PICK A \in F : \A B \in F : B \subseteq A => B = A
    <3> HIDE DEF F
    <3> QED
      BY <1>0, <2>1, SmallestSet
  <2> QED
    BY <2>2
<1>2. ASSUME NEW c \in PCB, m.p_parent[c] = p PROVE f[c] = Found(m, pid, c)
  <2>1. /\ c \in LiveIn(m) /\ SubtreeIn(m, c) \subseteq SubtreeIn(m, p)
        /\ p \notin SubtreeIn(m, c) /\ p \in SubtreeIn(m, p)
    BY <1>2, SubtreeSplit, SubtreeInFacts
  <2> QED
    BY <1>1, <2>1
<1> DEFINE hits == {c \in PCB : /\ OnList(m, p_sib(c), p_child(p))
                               /\ f[c] # Null}
           stop == list_for_each(m, p_child(p), {p_sib(c) : c \in hits})
           v == IF hits = {} THEN Null ELSE f[container_of(stop)]
<1>3. p \in PCB /\ p \in LiveIn(m) /\ f[p] # Found(m, pid, p)
  BY <1>0
<1>4. f[p] = IF m.p_pid[p] = pid THEN p ELSE v
  BY <1>3 DEF Finds
<1>5. m.p_pid[p] # pid /\ f[p] = v
  BY <1>3, <1>4 DEF Found
<1>6. HandsOn(v, f, m, p)
  <2>1. IsBody(v, f, m, p)
    BY DEF IsBody
  <2> HIDE DEF v
  <2> QED
    BY <1>3, <1>5, <2>1, BodyValue
<1> HIDE DEF v
<1>7. /\ (\A c \in PCB : m.p_parent[c] = p => Found(m, pid, c) = Null) => v = Null
      /\ (\E c \in PCB : m.p_parent[c] = p /\ Found(m, pid, c) # Null) =>
              \E c \in PCB : m.p_parent[c] = p /\ Found(m, pid, c) # Null
                             /\ v = Found(m, pid, c)
  BY <1>2, <1>6 DEF HandsOn
<1>8. v = Found(m, pid, p)
  BY <1>3, <1>5, <1>7, FoundStep
<1> QED
  BY <1>3, <1>5, <1>8

\* find_pcb finds the live process that has the pid.
LEMMA FindPcb ==
  ASSUME NEW m, Good(m), TreeIn(m), FreeBare(m), OnePid(m), NEW pid,
         m.currProc \in LiveIn(m)
  PROVE  /\ \A t \in LiveIn(m) : m.p_pid[t] = pid => find_pcb(m, pid) = t
         /\ (\A t \in LiveIn(m) : m.p_pid[t] # pid) => find_pcb(m, pid) = Null
<1>1. PICK r : IsRoot(m, r)
  BY DEF TreeIn, IsRoot
<1>2. Progenitor(m, m.currProc) = r
  BY <1>1, ProgenitorRoot
<1>3. \E f : Finds(f, m, pid)
  BY FindsExist
<1>4. PICK f : Finds(f, m, pid) /\ find_pcb_recursive(m, r, pid) = f[r]
  BY <1>3 DEF Finds, find_pcb_recursive
<1>5. find_pcb(m, pid) = Found(m, pid, r)
  BY <1>1, <1>2, <1>4, FindsFound DEF find_pcb, IsRoot
<1> QED
  BY <1>1, <1>5, FoundLive DEF IsRoot

-----------------------------------------------------------------------------
(* initPcbs and initASL *)

\* A loop that pushes the nodes of a table on a list.
Pushes(f, m, nodes, h, n) ==
  f = [i \in 0 .. n |-> IF i = 0 THEN m ELSE list_add(f[i - 1], nodes[i], h)]

\* Such a function exists.
LEMMA PushesExist ==
  ASSUME NEW m, NEW nodes, NEW h, NEW n \in Nat
  PROVE  \E f : Pushes(f, m, nodes, h, n)
<1> DEFINE K == {k \in Nat : \E f : Pushes(f, m, nodes, h, k)}
<1>1. 0 \in K
  <2>1. Pushes([i \in 0 .. 0 |-> m], m, nodes, h, 0)
    BY DEF Pushes
  <2> QED
    BY <2>1
<1>2. ASSUME NEW k \in K PROVE k + 1 \in K
  <2>1. PICK f : Pushes(f, m, nodes, h, k)
    OBVIOUS
  <2> DEFINE g == [i \in 0 .. k + 1 |-> IF i = k + 1 THEN list_add(f[k], nodes[k + 1], h) ELSE f[i]]
             e == [i \in 0 .. k + 1 |-> IF i = 0 THEN m ELSE list_add(g[i - 1], nodes[i], h)]
  <2>2. ASSUME NEW i \in 0 .. k + 1 PROVE g[i] = e[i]
    <3>0. k \in Nat
      OBVIOUS
    <3>1. CASE i = 0
      <4>1. 0 \in 0 .. k /\ 0 # k + 1
        BY <3>0
      <4>2. f[0] = m
        BY <2>1, <4>1 DEF Pushes
      <4> QED
        BY <3>1, <4>1, <4>2
    <3>2. CASE i = k + 1
      <4>1. i - 1 = k /\ k \in 0 .. k + 1 /\ k # k + 1 /\ i # 0
        BY <3>0, <3>2
      <4>2. g[k] = f[k] /\ g[i] = list_add(f[k], nodes[k + 1], h)
        BY <3>2, <4>1
      <4>3. e[i] = list_add(g[k], nodes[i], h)
        BY <4>1
      <4> QED
        BY <3>2, <4>2, <4>3
    <3>3. CASE i # 0 /\ i # k + 1
      <4>1. i \in 0 .. k /\ i - 1 \in 0 .. k + 1 /\ i - 1 # k + 1
        BY <3>0, <3>3
      <4>2. f[i] = list_add(f[i - 1], nodes[i], h)
        BY <2>1, <3>3, <4>1 DEF Pushes
      <4>3. g[i - 1] = f[i - 1] /\ g[i] = f[i]
        BY <3>3, <4>1
      <4>4. e[i] = list_add(g[i - 1], nodes[i], h)
        BY <3>3
      <4> QED
        BY <4>2, <4>3, <4>4
    <3> QED
      BY <3>1, <3>2, <3>3
  <2>3. g = e
    BY <2>2
  <2>4. Pushes(g, m, nodes, h, k + 1)
    BY <2>3 DEF Pushes
  <2> QED
    BY <2>4
<1>3. K = Nat
  <2> HIDE DEF K
  <2>1. K \in SUBSET Nat
    BY DEF K
  <2> QED
    BY <1>1, <1>2, <2>1, NatSet
<1> QED
  BY <1>3

\* Before and after k pushes.
Pushed(m, Q, r, R, nodes, h, k) ==
  /\ Shape(r, R) /\ SameData(m, r)
  /\ Inited(r) = Inited(m) \cup {nodes[i] : i \in 1 .. k}
  /\ \A g \in Heads \ {h} : R[g] = Q[g]
  /\ O!Elems(R[h]) = O!Elems(Q[h]) \cup {nodes[i] : i \in 1 .. k}

\* One push more.
LEMMA PushStep ==
  ASSUME NEW m, NEW Q, NEW h \in Heads, h \in Inited(m), NEW n \in Nat,
         NEW nodes, \A i \in 1 .. n : nodes[i] \in Node \ Heads /\ Unlinked(Q, nodes[i]),
         \A i, j \in 1 .. n : nodes[i] = nodes[j] => i = j,
         NEW k \in Nat, k + 1 <= n, NEW r, NEW R, Pushed(m, Q, r, R, nodes, h, k)
  PROVE  \E S : Pushed(m, Q, list_add(r, nodes[k + 1], h), S, nodes, h, k + 1)
<1> DEFINE p == nodes[k + 1]
           B == O!Elems(R[h])
           S == [R EXCEPT ![h] = Linked(@, p, B)]
           a == list_add(r, p, h)
<1>1. /\ k + 1 \in 1 .. n /\ p \in Node \ Heads
      /\ \A i \in 1 .. k : i \in 1 .. n /\ i # k + 1
  OBVIOUS
<1>2. {nodes[i] : i \in 1 .. k + 1} = {nodes[i] : i \in 1 .. k} \cup {p}
  <2>1. \A i : i \in 1 .. k + 1 <=> i \in 1 .. k \/ i = k + 1
    OBVIOUS
  <2> QED
    BY <2>1
<1>3. p \notin {nodes[i] : i \in 1 .. k}
  BY <1>1
<1>4. Unlinked(R, p)
  BY <1>1, <1>3 DEF Unlinked, Pushed
<1>5. Shape(r, R) /\ h \in Inited(r) /\ DOMAIN R = Heads /\ O!IsQueue(R[h])
  BY ShapeQueues DEF Pushed, Shape
<1>6. a = list_add_tail(r, p, FirstNode(h, R[h], B)) /\ IsRest(R[h], B)
  BY <1>5, AddFirst
<1>7. Shape(a, S) /\ Inited(a) = Inited(r) \cup {p} /\ SameData(r, a)
  <2> HIDE DEF p, B
  <2>1. LET x == list_add_tail(r, p, FirstNode(h, R[h], B)) IN
        /\ Shape(x, [R EXCEPT ![h] = Linked(@, p, B)])
        /\ Inited(x) = Inited(r) \cup {p} /\ SameData(r, x)
    BY <1>1, <1>4, <1>5, <1>6, AddShape
  <2> QED
    BY <1>6, <2>1
<1>8. SameData(m, a)
  BY <1>7 DEF Pushed, SameData
<1>9. O!Elems(S[h]) = O!Elems(R[h]) \cup {p}
  <2>1. p \in Node \ O!Elems(R[h])
    BY <1>1, <1>4 DEF Unlinked
  <2>2. S[h] = Linked(R[h], p, B)
    BY <1>5
  <2> HIDE DEF p, B, S
  <2> QED
    BY <1>5, <1>6, <2>1, <2>2, LinkedQueue
<1>10. \A g \in Heads \ {h} : S[g] = R[g]
  BY <1>5
<1> HIDE DEF S, a, p
<1>11. Pushed(m, Q, a, S, nodes, h, k + 1)
  BY <1>2, <1>7, <1>8, <1>9, <1>10 DEF Pushed
<1> QED
  BY <1>11 DEF a, p

\* The loop pushes every node of the table.
LEMMA PushAll ==
  ASSUME NEW m, NEW Q, Shape(m, Q), NEW h \in Heads, h \in Inited(m), NEW n \in Nat,
         NEW nodes, \A i \in 1 .. n : nodes[i] \in Node \ Heads /\ Unlinked(Q, nodes[i]),
         \A i, j \in 1 .. n : nodes[i] = nodes[j] => i = j,
         NEW f, Pushes(f, m, nodes, h, n)
  PROVE  \E R : Pushed(m, Q, f[n], R, nodes, h, n)
<1> DEFINE Went(k) == \E R : Pushed(m, Q, f[k], R, nodes, h, k)
           K == {k \in Nat : k <= n => Went(k)}
<1>1. 0 \in K
  <2>1. f[0] = m
    BY DEF Pushes
  <2>2. {nodes[i] : i \in 1 .. 0} = {}
    OBVIOUS
  <2>3. Pushed(m, Q, m, Q, nodes, h, 0)
    BY <2>2 DEF Pushed, SameData, Shape
  <2> QED
    BY <2>1, <2>3
<1>2. ASSUME NEW k \in K PROVE k + 1 \in K
  <2> SUFFICES ASSUME k + 1 <= n PROVE Went(k + 1)
    OBVIOUS
  <2>1. k \in Nat /\ k <= n /\ k + 1 \in 0 .. n /\ k + 1 # 0 /\ (k + 1) - 1 = k
    OBVIOUS
  <2>2. f[k + 1] = list_add(f[k], nodes[k + 1], h)
    BY <2>1 DEF Pushes
  <2>3. Went(k)
    BY <2>1
  <2>4. PICK R : Pushed(m, Q, f[k], R, nodes, h, k)
    BY <2>3
  <2>5. \E S : Pushed(m, Q, list_add(f[k], nodes[k + 1], h), S, nodes, h, k + 1)
    BY <2>1, <2>4, PushStep
  <2> QED
    BY <2>2, <2>5
<1>3. K = Nat
  <2> HIDE DEF K
  <2>1. K \in SUBSET Nat
    BY DEF K
  <2> QED
    BY <1>1, <1>2, <2>1, NatSet
<1> QED
  BY <1>3

\* A table holds every entry once.
LEMMA TableOnce ==
  ASSUME NEW S, IsFiniteSet(S), Cardinality(S) = MaxProc, NEW t \in Tables(S)
  PROVE  /\ MaxProc \in Nat /\ t \in [1 .. MaxProc -> S] /\ Len(t) = MaxProc
         /\ \A x \in S : \E i \in 1 .. MaxProc : t[i] = x
         /\ \A i, j \in 1 .. MaxProc : t[i] = t[j] => i = j
<1>1. MaxProc \in Nat
  BY FS_CardinalityType
<1>2. /\ t \in [1 .. MaxProc -> S]
      /\ \A x \in S : \E i \in 1 .. MaxProc : t[i] = x
  BY DEF Tables
<1>3. t \in Surjection(1 .. MaxProc, S)
  BY <1>2 DEF Surjection
<1>4. IsFiniteSet(1 .. MaxProc) /\ Cardinality(1 .. MaxProc) = MaxProc
  BY <1>1, FS_Interval
<1>5. t \in Injection(1 .. MaxProc, S)
  BY <1>3, <1>4, FS_SurjSameCardinalityImpliesInj
<1>6. \A i, j \in 1 .. MaxProc : t[i] = t[j] => i = j
  BY <1>5 DEF Injection, IsInjective
<1>7. Len(t) = MaxProc
  BY <1>1, <1>2
<1> QED
  BY <1>1, <1>2, <1>6, <1>7

\* Every list is empty.
NoList == [h \in Heads |-> {}]

\* Static memory has no list.
LEMMA ZeroShape == Shape(Zero, NoList) /\ Inited(Zero) = {}
<1>1. Inited(Zero) = {}
  BY DEF Inited, Zero
<1>2. Sound(Zero)
  BY <1>1 DEF Sound, Zero, MemFields
<1>3. \A h \in Heads : NoList[h] = {} /\ O!Elems(NoList[h]) = {}
  BY O!EmptyIsQueue DEF NoList
<1> QED
  BY <1>1, <1>2, <1>3 DEF Shape, NoList

\* initPcbs: every PCB is free.
LEMMA InitPcbs ==
  ASSUME NEW t \in Tables(PCB)
  PROVE  \E R : /\ Shape(initPcbs(Zero, t), R) /\ SameData(Zero, initPcbs(Zero, t))
                /\ Inited(initPcbs(Zero, t)) = PLists \cup {pcbFree_h}
                /\ \A g \in Heads \ {pcbFree_h} : R[g] = {}
                /\ O!Elems(R[pcbFree_h]) = PLists
<1> DEFINE n == MaxProc
           h == pcbFree_h
           m == INIT_LIST_HEAD(Zero, h)
           nodes == [i \in 1 .. n |-> p_list(t[i])]
<1>1. /\ n \in Nat /\ t \in [1 .. n -> PCB] /\ Len(t) = n
      /\ \A x \in PCB : \E i \in 1 .. n : t[i] = x
      /\ \A i, j \in 1 .. n : t[i] = t[j] => i = j
  <2>1. IsFiniteSet(PCB) /\ Cardinality(PCB) = MaxProc
    BY TableAssumption DEF MaxProc
  <2> QED
    BY <2>1, TableOnce
<1>2. h \in Heads /\ h \in Node /\ Unlinked(NoList, h) /\ NoList[h] = {}
  BY HeadNames, HeadsAreNodes, O!EmptyIsQueue DEF NoList, Unlinked
<1>3. Shape(m, NoList) /\ Inited(m) = {h} /\ SameData(Zero, m)
  <2>1. LET x == INIT_LIST_HEAD(Zero, h) IN
        Shape(x, NoList) /\ Inited(x) = Inited(Zero) \cup {h} /\ SameData(Zero, x)
    BY <1>2, ZeroShape, InitShape
  <2> QED
    BY <2>1, ZeroShape
<1>4. /\ \A i \in 1 .. n : nodes[i] \in Node \ Heads /\ Unlinked(NoList, nodes[i])
      /\ \A i, j \in 1 .. n : nodes[i] = nodes[j] => i = j
  <2>1. \A x : Unlinked(NoList, x)
    BY O!EmptyIsQueue DEF NoList, Unlinked
  <2> QED
    BY <1>1, <2>1, NodeNames
<1>5. {nodes[i] : i \in 1 .. n} = PLists
  <2>1. \A i \in 1 .. n : nodes[i] = p_list(t[i]) /\ t[i] \in PCB
    BY <1>1
  <2>2. \A x \in PCB : \E i \in 1 .. n : nodes[i] = p_list(x)
    BY <1>1, <2>1
  <2> HIDE DEF nodes
  <2> QED
    BY <2>1, <2>2 DEF PLists
<1>6. \E f : f = [i \in 0 .. n |-> IF i = 0 THEN m ELSE list_add(f[i - 1], p_list(t[i]), h)]
  <2>1. PICK f : Pushes(f, m, nodes, h, n)
    BY <1>1, PushesExist
  <2>2. ASSUME NEW i \in 0 .. n, i # 0 PROVE nodes[i] = p_list(t[i])
    <3>1. i \in 1 .. n
      BY <1>1, <2>2
    <3> QED
      BY <3>1
  <2> HIDE DEF nodes, m, n, h
  <2>3. [i \in 0 .. n |-> IF i = 0 THEN m ELSE list_add(f[i - 1], nodes[i], h)]
          = [i \in 0 .. n |-> IF i = 0 THEN m ELSE list_add(f[i - 1], p_list(t[i]), h)]
    BY <2>2
  <2> QED
    BY <2>1, <2>3 DEF Pushes
<1>7. PICK f : /\ f = [i \in 0 .. n |-> IF i = 0 THEN m ELSE list_add(f[i - 1], p_list(t[i]), h)]
               /\ initPcbs(Zero, t) = f[n]
  BY <1>1, <1>6 DEF initPcbs
<1>8. Pushes(f, m, nodes, h, n)
  <2>2. ASSUME NEW i \in 0 .. n, i # 0 PROVE nodes[i] = p_list(t[i])
    <3>1. i \in 1 .. n
      BY <1>1, <2>2
    <3> QED
      BY <3>1
  <2> HIDE DEF nodes, m, n, h
  <2>3. [i \in 0 .. n |-> IF i = 0 THEN m ELSE list_add(f[i - 1], nodes[i], h)]
          = [i \in 0 .. n |-> IF i = 0 THEN m ELSE list_add(f[i - 1], p_list(t[i]), h)]
    BY <2>2
  <2> QED
    BY <1>7, <2>3 DEF Pushes
<1> HIDE DEF nodes, m, h
<1>9. \E R : Pushed(m, NoList, f[n], R, nodes, h, n)
  BY <1>1, <1>2, <1>3, <1>4, <1>8, PushAll
<1>10. PICK R : Pushed(m, NoList, f[n], R, nodes, h, n)
  BY <1>9
<1>11. /\ Shape(f[n], R) /\ SameData(m, f[n]) /\ Inited(f[n]) = {h} \cup PLists
       /\ \A g \in Heads \ {h} : R[g] = {}
       /\ O!Elems(R[h]) = PLists
  <2>1. \A g \in Heads : NoList[g] = {} /\ O!Elems(NoList[g]) = {}
    BY O!EmptyIsQueue DEF NoList
  <2> QED
    BY <1>2, <1>3, <1>5, <1>10, <2>1 DEF Pushed
<1>12. SameData(Zero, f[n])
  BY <1>3, <1>11 DEF SameData
<1>13. /\ Shape(f[n], R) /\ SameData(Zero, f[n]) /\ Inited(f[n]) = PLists \cup {pcbFree_h}
       /\ \A g \in Heads \ {pcbFree_h} : R[g] = {}
       /\ O!Elems(R[pcbFree_h]) = PLists
  BY <1>11, <1>12 DEF h
<1> QED
  BY <1>7, <1>13

\* initASL: every descriptor is free.
LEMMA InitAsl ==
  ASSUME NEW z, NEW Q, Shape(z, Q), semdFree_h \notin Inited(z), semd_h \notin Inited(z),
         \A d \in Semd : Unlinked(Q, s_link(d)), NEW t \in Tables(Semd)
  PROVE  \E R : /\ Shape(initASL(z, t), R) /\ SameData(z, initASL(z, t))
                /\ Inited(initASL(z, t)) = Inited(z) \cup {s_link(d) : d \in Semd}
                                             \cup {semdFree_h, semd_h}
                /\ \A g \in Heads \ {semdFree_h} : R[g] = Q[g]
                /\ O!Elems(R[semdFree_h]) = {s_link(d) : d \in Semd}
<1> DEFINE n == MaxProc
           h == semdFree_h
           a == INIT_LIST_HEAD(z, h)
           m == INIT_LIST_HEAD(a, semd_h)
           nodes == [i \in 1 .. n |-> s_link(t[i])]
           links == {s_link(d) : d \in Semd}
<1>1. /\ n \in Nat /\ t \in [1 .. n -> Semd] /\ Len(t) = n
      /\ \A x \in Semd : \E i \in 1 .. n : t[i] = x
      /\ \A i, j \in 1 .. n : t[i] = t[j] => i = j
  <2>1. IsFiniteSet(Semd) /\ Cardinality(Semd) = MaxProc
    BY TableAssumption
  <2> QED
    BY <2>1, TableOnce
<1>2. /\ h \in Heads /\ h \in Node /\ Q[h] = {} /\ semd_h \in Heads /\ semd_h \in Node
      /\ Q[semd_h] = {} /\ h # semd_h
  BY HeadNames, HeadsAreNodes DEF Shape
<1>u. Unlinked(Q, h) /\ Unlinked(Q, semd_h)
  <2>1. \A g \in Heads : O!Elems(Q[g]) \cap Heads = {}
    BY ShapeQueues
  <2> QED
    BY <1>2, <2>1 DEF Unlinked
<1>3. /\ Shape(m, Q) /\ Inited(m) = Inited(z) \cup {h, semd_h} /\ SameData(z, m)
  <2>1. Shape(a, Q) /\ Inited(a) = Inited(z) \cup {h} /\ SameData(z, a)
    <3>1. LET x == INIT_LIST_HEAD(z, h) IN
          Shape(x, Q) /\ Inited(x) = Inited(z) \cup {h} /\ SameData(z, x)
      BY <1>2, <1>u, InitShape
    <3> QED
      BY <3>1
  <2> HIDE DEF a
  <2>2. Shape(m, Q) /\ Inited(m) = Inited(a) \cup {semd_h} /\ SameData(a, m)
    <3>1. LET x == INIT_LIST_HEAD(a, semd_h) IN
          Shape(x, Q) /\ Inited(x) = Inited(a) \cup {semd_h} /\ SameData(a, x)
      BY <1>2, <1>u, <2>1, InitShape
    <3> QED
      BY <3>1
  <2> HIDE DEF m
  <2> QED
    BY <2>1, <2>2 DEF SameData
<1>4. /\ \A i \in 1 .. n : nodes[i] \in Node \ Heads /\ Unlinked(Q, nodes[i])
      /\ \A i, j \in 1 .. n : nodes[i] = nodes[j] => i = j
  BY <1>1, NodeNames
<1>5. {nodes[i] : i \in 1 .. n} = links
  <2>1. \A i \in 1 .. n : nodes[i] = s_link(t[i]) /\ t[i] \in Semd
    BY <1>1
  <2>2. \A x \in Semd : \E i \in 1 .. n : nodes[i] = s_link(x)
    BY <1>1, <2>1
  <2> HIDE DEF nodes
  <2> QED
    BY <2>1, <2>2
<1>s. ASSUME NEW f
      PROVE  [i \in 0 .. n |-> IF i = 0 THEN m ELSE list_add(f[i - 1], nodes[i], h)]
               = [i \in 0 .. n |-> IF i = 0 THEN m ELSE list_add(f[i - 1], s_link(t[i]), h)]
  <2>2. ASSUME NEW i \in 0 .. n, i # 0 PROVE nodes[i] = s_link(t[i])
    <3>1. i \in 1 .. n
      BY <1>1, <2>2
    <3> QED
      BY <3>1
  <2> HIDE DEF nodes, m, n, h
  <2> QED
    BY <2>2
<1>6. \E f : f = [i \in 0 .. n |-> IF i = 0 THEN m ELSE list_add(f[i - 1], s_link(t[i]), h)]
  <2>1. PICK f : Pushes(f, m, nodes, h, n)
    BY <1>1, PushesExist
  <2> HIDE DEF nodes, m, n, h
  <2>2. f = [i \in 0 .. n |-> IF i = 0 THEN m ELSE list_add(f[i - 1], s_link(t[i]), h)]
    BY <1>s, <2>1 DEF Pushes
  <2> QED
    BY <2>2
<1>7. PICK f : /\ f = [i \in 0 .. n |-> IF i = 0 THEN m ELSE list_add(f[i - 1], s_link(t[i]), h)]
               /\ initASL(z, t) = f[n]
  BY <1>1, <1>6 DEF initASL
<1>8. Pushes(f, m, nodes, h, n)
  <2> HIDE DEF nodes, m, n, h
  <2> QED
    BY <1>7, <1>s DEF Pushes
<1> HIDE DEF nodes, m, h, links
<1>9. \E R : Pushed(m, Q, f[n], R, nodes, h, n)
  BY <1>1, <1>2, <1>3, <1>4, <1>8, PushAll
<1>10. PICK R : Pushed(m, Q, f[n], R, nodes, h, n)
  BY <1>9
<1>11. /\ Shape(f[n], R) /\ SameData(m, f[n]) /\ Inited(f[n]) = Inited(z) \cup links \cup {h, semd_h}
       /\ \A g \in Heads \ {h} : R[g] = Q[g]
       /\ O!Elems(R[h]) = links
  <2>1. O!Elems(Q[h]) = {}
    BY <1>2, O!EmptyIsQueue
  <2> QED
    BY <1>2, <1>3, <1>5, <1>10, <2>1 DEF Pushed
<1>12. SameData(z, f[n])
  BY <1>3, <1>11 DEF SameData
<1> QED
  BY <1>7, <1>11, <1>12 DEF h, links

\* The memory with all lists made.
Made(m) ==
  /\ Good(m) /\ SameData(Zero, m)
  /\ FreeIn(m) = PCB /\ ReadyIn(m) = {} /\ \A s \in Sem : QueueIn(m, s) = {}

\* initPcbs, initASL and mkEmptyProcQ make all the lists.
LEMMA MakeLists ==
  ASSUME NEW pcbs \in Tables(PCB), NEW semds \in Tables(Semd)
  PROVE  Made(mkEmptyProcQ(initASL(initPcbs(Zero, pcbs), semds), readyQueue))
<1> DEFINE a == initPcbs(Zero, pcbs)
           b == initASL(a, semds)
           m == mkEmptyProcQ(b, readyQueue)
           links == {s_link(d) : d \in Semd}
<1>1. PICK Q1 : /\ Shape(a, Q1) /\ SameData(Zero, a)
                /\ Inited(a) = PLists \cup {pcbFree_h}
                /\ \A g \in Heads \ {pcbFree_h} : Q1[g] = {}
                /\ O!Elems(Q1[pcbFree_h]) = PLists
  BY InitPcbs
<1>2. /\ semdFree_h \notin Inited(a) /\ semd_h \notin Inited(a)
      /\ \A d \in Semd : Unlinked(Q1, s_link(d))
  <2>1. \A d \in Semd : s_link(d) \notin PLists
    BY NodeNames DEF PLists
  <2>2. \A h \in Heads : h \notin PLists
    BY NodeNames DEF PLists
  <2> QED
    BY <1>1, <2>1, <2>2, HeadNames, O!EmptyIsQueue DEF Unlinked
<1> HIDE DEF a
<1>3. PICK Q2 : /\ Shape(b, Q2) /\ SameData(a, b)
                /\ Inited(b) = Inited(a) \cup links \cup {semdFree_h, semd_h}
                /\ \A g \in Heads \ {semdFree_h} : Q2[g] = Q1[g]
                /\ O!Elems(Q2[semdFree_h]) = links
  BY <1>1, <1>2, InitAsl
<1> HIDE DEF b, links
<1>4. Shape(m, Q2) /\ Inited(m) = Inited(b) \cup {readyQueue} /\ SameData(b, m)
  <2>1. readyQueue \in Heads /\ readyQueue \in Node /\ Q2[readyQueue] = {}
    BY <1>1, <1>3, HeadNames, HeadsAreNodes
  <2>2. Unlinked(Q2, readyQueue)
    BY <1>3, <2>1, ShapeQueues DEF Unlinked
  <2>3. LET x == INIT_LIST_HEAD(b, readyQueue) IN
        Shape(x, Q2) /\ Inited(x) = Inited(b) \cup {readyQueue} /\ SameData(b, x)
    BY <1>3, <2>1, <2>2, InitShape
  <2> QED
    BY <2>3 DEF mkEmptyProcQ
<1> HIDE DEF m
<1>5. SameData(Zero, m)
  BY <1>1, <1>3, <1>4 DEF SameData
<1>6. /\ m.p_parent = [p \in PCB |-> Null] /\ m.p_semAdd = [p \in PCB |-> Null]
      /\ m.p_prio = [p \in PCB |-> 0] /\ m.p_pid = [p \in PCB |-> 0]
      /\ m.s_key = [d \in Semd |-> Null] /\ m.next_pid = 1
      /\ m.currProc = Null /\ m.processCount = 0 /\ m.softBlockCount = 0
  BY <1>5 DEF SameData, Zero
<1>7. Typed(m)
  BY <1>6 DEF Typed
<1>8. /\ \A g \in Heads \ {pcbFree_h, semdFree_h} : Q2[g] = {} /\ O!Elems(Q2[g]) = {}
      /\ O!Elems(Q2[pcbFree_h]) = PLists /\ O!Elems(Q2[semdFree_h]) = links
  BY <1>1, <1>3, HeadNames, O!EmptyIsQueue
<1>9. /\ O!Elems(Q2[readyQueue]) = {} /\ O!Elems(Q2[semd_h]) = {} /\ Q2[readyQueue] = {}
      /\ \A d \in Semd : O!Elems(Q2[procq(d)]) = {}
      /\ \A p \in PCB : O!Elems(Q2[p_child(p)]) = {}
  BY <1>8, HeadNames, NodeNames
<1>10. Kinds(Q2)
  BY <1>8, <1>9 DEF Kinds, PHeads, links
<1>11. ActiveD(Q2) = {}
  BY <1>9 DEF ActiveD
<1>12. AslKept(m, Q2)
  BY <1>9, <1>11 DEF AslKept
<1>13. TreeKept(m, Q2)
  <2>1. \A p \in PCB : p_list(p) \in O!Elems(Q2[pcbFree_h])
    BY <1>8 DEF PLists
  <2>2. \A p, x \in PCB : p_sib(x) \notin O!Elems(Q2[p_child(p)]) /\ m.p_parent[x] # p
    BY <1>6, <1>9, TableAssumption
  <2> QED
    BY <2>1, <2>2 DEF TreeKept
<1>14. {pcbFree_h, readyQueue, semdFree_h, semd_h} \subseteq Inited(m)
  BY <1>1, <1>3, <1>4
<1>15. Rep(m, Q2)
  BY <1>4, <1>7, <1>10, <1>12, <1>13, <1>14 DEF Rep
<1>16. FreeIn(m) = PCB
  BY <1>4, <1>8, FreeFound DEF PLists
<1>17. ReadyIn(m) = {}
  <2>1. ReadyIn(m) = Queue(Q2[readyQueue])
    BY <1>4, ReadyFound
  <2> QED
    BY <1>9, <2>1 DEF Queue
<1>18. \A s \in Sem : QueueIn(m, s) = {}
  BY <1>11, <1>15, QueueFound
<1> QED
  BY <1>5, <1>15, <1>16, <1>17, <1>18 DEF Made, Good, m, b, a

\* The memory when main calls the scheduler and the first process runs.
Booted(m, p) ==
  /\ Good(m) /\ p \in PCB /\ FreeIn(m) = PCB \ {p}
  /\ ReadyIn(m) = {} /\ \A s \in Sem : QueueIn(m, s) = {}
  /\ m.p_parent = [x \in PCB |-> Null] /\ m.p_semAdd = [x \in PCB |-> Null]
  /\ m.p_prio = [x \in PCB |-> 0] /\ m.p_pid = [x \in PCB |-> IF x = p THEN 1 ELSE 0]
  /\ m.next_pid = 2 /\ m.currProc = p /\ m.processCount = 1 /\ m.softBlockCount = 0

\* The first process is created, inserted in the ready queue and dispatched.
LEMMA Boot ==
  ASSUME NEW m, Made(m)
  PROVE  LET p == allocated(m)
             a == removeProcQ(insertProcQ(allocPcb(m), readyQueue, p), readyQueue)
         IN  Booted([a EXCEPT !.currProc = p, !.processCount = 1], p)
<1> DEFINE p == allocated(m)
           a == allocPcb(m)
           b == insertProcQ(a, readyQueue, p)
           c == removeProcQ(b, readyQueue)
           r == [c EXCEPT !.currProc = p, !.processCount = 1]
<1>0. Good(m) /\ SameData(Zero, m) /\ FreeIn(m) = PCB /\ ReadyIn(m) = {}
      /\ (\A s \in Sem : QueueIn(m, s) = {}) /\ PCB # {} /\ Null \notin PCB
  BY TableAssumption DEF Made
<1>1. /\ m.p_parent = [x \in PCB |-> Null] /\ m.p_semAdd = [x \in PCB |-> Null]
      /\ m.p_prio = [x \in PCB |-> 0] /\ m.p_pid = [x \in PCB |-> 0]
      /\ m.next_pid = 1 /\ m.softBlockCount = 0
  BY <1>0 DEF SameData, Zero
<1>2. FreeBare(m)
  BY <1>0, <1>1 DEF FreeBare
<1>3. /\ p \in PCB /\ Good(a) /\ Off(a, p)
      /\ FreeIn(a) = PCB \ {p} /\ ReadyIn(a) = {}
      /\ \A s \in Sem : QueueIn(a, s) = {}
      /\ a.p_parent = [m.p_parent EXCEPT ![p] = Null]
      /\ a.p_semAdd = [m.p_semAdd EXCEPT ![p] = Null]
      /\ a.p_prio = [m.p_prio EXCEPT ![p] = 0]
      /\ a.p_pid = [m.p_pid EXCEPT ![p] = m.next_pid]
      /\ a.next_pid = m.next_pid + 1
      /\ a.softBlockCount = m.softBlockCount
  BY <1>0, <1>2, AllocStep
<1> HIDE DEF p, a
<1>4. /\ a.p_parent = [x \in PCB |-> Null] /\ a.p_semAdd = [x \in PCB |-> Null]
      /\ a.p_prio = [x \in PCB |-> 0] /\ a.p_pid = [x \in PCB |-> IF x = p THEN 1 ELSE 0]
      /\ a.next_pid = 2 /\ a.softBlockCount = 0
  <2>1. a.p_parent = [x \in PCB |-> Null] /\ a.p_semAdd = [x \in PCB |-> Null]
    BY <1>1, <1>3
  <2>2. a.p_prio = [x \in PCB |-> 0]
    BY <1>1, <1>3
  <2>3. a.p_pid = [x \in PCB |-> IF x = p THEN 1 ELSE 0]
    <3>1. a.p_pid = [[x \in PCB |-> 0] EXCEPT ![p] = 1]
      BY <1>1, <1>3
    <3> QED
      BY <3>1
  <2>4. a.next_pid = 2 /\ a.softBlockCount = 0
    BY <1>1, <1>3
  <2> QED
    BY <2>1, <2>2, <2>3, <2>4
<1>5. /\ Good(b) /\ SameData(a, b) /\ FreeIn(b) = PCB \ {p}
      /\ (\A s \in Sem : QueueIn(b, s) = {})
      /\ ReadyIn(b) = P!insertProcQ({}, p, a.p_prio)
  <2>1. LET x == insertProcQ(a, readyQueue, p) IN
         /\ Good(x) /\ SameData(a, x)
         /\ FreeIn(x) = FreeIn(a) /\ \A s \in Sem : QueueIn(x, s) = QueueIn(a, s)
         /\ ReadyIn(x) = P!insertProcQ(ReadyIn(a), p, a.p_prio)
    BY <1>3, ReadyPut
  <2> QED
    BY <1>3, <2>1
<1> HIDE DEF b
<1>6. P!Elems(ReadyIn(b)) = {p}
  BY <1>3, <1>5, P!EmptyIsQueue, P!InsertProcQueue
<1>7. P!headProcQ(ReadyIn(b)) = p /\ c = list_del(b, p_list(p))
  BY <1>3, <1>5, <1>6, ReadyLeaves
<1>8. /\ Good(c) /\ SameData(b, c) /\ FreeIn(c) = PCB \ {p}
      /\ (\A s \in Sem : QueueIn(c, s) = {}) /\ ReadyIn(c) = P!Without(ReadyIn(b), {p})
  <2>1. LET x == list_del(b, p_list(p)) IN
         /\ Good(x) /\ SameData(b, x)
         /\ FreeIn(x) = FreeIn(b) /\ \A s \in Sem : QueueIn(x, s) = QueueIn(b, s)
         /\ ReadyIn(x) = P!Without(ReadyIn(b), {p})
    BY <1>5, <1>6, ReadyCut
  <2> QED
    BY <1>5, <1>7, <2>1
<1>9. ReadyIn(c) = {}
  <2>1. P!IsQueue(ReadyIn(b)) /\ P!IsQueue(ReadyIn(c))
    BY <1>5, <1>8, GoodLists
  <2>2. P!Elems(ReadyIn(c)) = {}
    BY <1>6, <1>8, <2>1, P!WithoutQueue
  <2> QED
    BY <2>1, <2>2 DEF P!IsQueue
<1> HIDE DEF c
<1>10. Typed(c) /\ DOMAIN c = MemFields
  BY <1>8, GoodLists
<1>11. /\ Good(r) /\ SameLists(c, r)
  <2>1. /\ DOMAIN r = MemFields /\ Typed(r) /\ r.next = c.next /\ r.prev = c.prev
        /\ r.s_key = c.s_key /\ r.p_parent = c.p_parent /\ r.p_semAdd = c.p_semAdd
    BY <1>3, <1>10 DEF Typed, MemFields
  <2> HIDE DEF r
  <2> QED
    BY <1>8, <2>1, NumbersStay
<1>12. /\ r.p_parent = c.p_parent /\ r.p_semAdd = c.p_semAdd /\ r.p_prio = c.p_prio
       /\ r.p_pid = c.p_pid /\ r.next_pid = c.next_pid /\ r.currProc = p
       /\ r.processCount = 1 /\ r.softBlockCount = c.softBlockCount
  BY <1>10 DEF MemFields
<1> HIDE DEF r
<1>13. Booted(r, p)
  BY <1>3, <1>4, <1>5, <1>8, <1>9, <1>11, <1>12 DEF Booted, SameData, SameLists
<1> QED
  BY <1>13 DEF r, c, b, a, p

-----------------------------------------------------------------------------
(* The state of Nucleus, read from the memory *)

\* The lemmas on Nucleus, for the state the memory stands for.
NP == INSTANCE NucleusProofs WITH
  Device <- {},
  pcbFree <- Free,
  p_parent <- mem.p_parent,
  p_semAdd <- mem.p_semAdd,
  p_prio <- [p \in PCB |-> IF p \in Free THEN 0 ELSE mem.p_prio[p]],
  p_pid <- [p \in PCB |-> IF p \in Free THEN 0 ELSE mem.p_pid[p]],
  p_supportStruct <- [p \in PCB |-> FALSE],
  next_pid <- mem.next_pid,
  readyQueue <- Order(readyQueue),
  s_procq <- [s \in Sem |-> SemQueue(s)],
  processCount <- mem.processCount,
  softBlockCount <- mem.softBlockCount,
  currProc <- mem.currProc,
  io <- [d \in {} |-> "idle"]

\* The queues of the semaphores.
SemsIn(m) == [s \in Sem |-> QueueIn(m, s)]

\* The priorities, 0 for a free PCB: Nucleus resets it when a PCB is freed, the
\* code when it is allocated.
PrioIn(m) == [p \in PCB |-> IF p \in FreeIn(m) THEN 0 ELSE m.p_prio[p]]

\* The pids, 0 for a free PCB.
PidIn(m) == [p \in PCB |-> IF p \in FreeIn(m) THEN 0 ELSE m.p_pid[p]]

\* The values NucleusLists gives the variables of Nucleus.
LEMMA MappedNow ==
  /\ Free = FreeIn(mem) /\ Order(readyQueue) = ReadyIn(mem)
  /\ [s \in Sem |-> SemQueue(s)] = SemsIn(mem)
  /\ [p \in PCB |-> IF p \in Free THEN 0 ELSE mem.p_prio[p]] = PrioIn(mem)
  /\ [p \in PCB |-> IF p \in Free THEN 0 ELSE mem.p_pid[p]] = PidIn(mem)
BY DEF Free, FreeIn, Order, OrderIn, ReadyIn, SemQueue, QueueIn, SemsIn, PrioIn, PidIn

\* The same after a step.
LEMMA MappedNext ==
  /\ Free' = FreeIn(mem') /\ Order(readyQueue)' = ReadyIn(mem')
  /\ [s \in Sem |-> SemQueue(s)]' = SemsIn(mem')
  /\ [p \in PCB |-> IF p \in Free THEN 0 ELSE mem.p_prio[p]]' = PrioIn(mem')
  /\ [p \in PCB |-> IF p \in Free THEN 0 ELSE mem.p_pid[p]]' = PidIn(mem')
BY DEF Free, FreeIn, Order, OrderIn, ReadyIn, SemQueue, QueueIn, SemsIn, PrioIn, PidIn

\* The semaphores are the same.
LEMMA SameSem == NP!Sem = Sem /\ NP!SubDevice = {Clock}
BY DEF Sem, NP!Sem, NP!SubDevice

\* The operators on queues are the same in each instance.
LEMMA SameOrders ==
  /\ \A q : NP!Elems(q) = P!Elems(q) /\ NP!IsQueue(q) = P!IsQueue(q)
  /\ \A q : NP!emptyProcQ(q) = P!emptyProcQ(q) /\ NP!headProcQ(q) = P!headProcQ(q)
  /\ \A q, D : NP!Without(q, D) = P!Without(q, D)
  /\ \A q : NP!removeProcQ(q) = P!removeProcQ(q)
  /\ \A q, p : NP!InsertTail(q, p) = P!InsertTail(q, p)
<1>1. \A q : NP!Elems(q) = P!Elems(q)
  BY DEF NP!Elems, P!Elems
<1>2. \A q : NP!IsQueue(q) = P!IsQueue(q)
  BY DEF NP!IsQueue, P!IsQueue, NP!Elems, P!Elems
<1>3. \A q : NP!emptyProcQ(q) = P!emptyProcQ(q) /\ NP!headProcQ(q) = P!headProcQ(q)
  BY DEF NP!emptyProcQ, P!emptyProcQ, NP!headProcQ, P!headProcQ, NP!Elems, P!Elems
<1>4. \A q, D : NP!Without(q, D) = P!Without(q, D)
  BY DEF NP!Without, P!Without
<1>5. \A q : NP!removeProcQ(q) = P!removeProcQ(q)
  BY <1>3, <1>4 DEF NP!removeProcQ, P!removeProcQ, NP!outProcQ, P!outProcQ
<1>6. \A q, p : NP!InsertTail(q, p) = P!InsertTail(q, p)
  BY DEF NP!InsertTail, P!InsertTail, NP!Elems, P!Elems
<1> QED
  BY <1>1, <1>2, <1>3, <1>4, <1>5, <1>6

\* So are the operators that read priorities.
LEMMA SameInsertions ==
  /\ \A q, p, f : NP!insertProcQ(q, p, f) = P!insertProcQ(q, p, f)
  /\ \A q, w, f : NP!InsertAll(q, w, f) = P!InsertAll(q, w, f)
  /\ \A q, f : NP!IsSorted(q, f) = P!IsSorted(q, f)
<1>1. \A q, p, f : NP!insertProcQ(q, p, f) = P!insertProcQ(q, p, f)
  BY DEF NP!insertProcQ, P!insertProcQ, NP!Overtaken, P!Overtaken, NP!Elems, P!Elems
<1>2. \A q, w, f : NP!InsertAll(q, w, f) = P!InsertAll(q, w, f)
  BY DEF NP!InsertAll, P!InsertAll, NP!Elems, P!Elems
<1>3. \A q, f : NP!IsSorted(q, f) = P!IsSorted(q, f)
  BY DEF NP!IsSorted, P!IsSorted
<1> QED
  BY <1>1, <1>2, <1>3

\* So is the size of a set.
LEMMA SameCardinality ==
  \A S : Cardinality(S) = NP!Cardinality(S) /\ IsFiniteSet(S) = NP!IsFiniteSet(S)
BY DEF Cardinality, NP!Cardinality, IsFiniteSet, NP!IsFiniteSet

\* The assumptions of Nucleus.
LEMMA NPAssumptions ==
  NP!PCBAssumption /\ NP!SemAssumption /\ NP!PrioAssumption /\ NP!BoundAssumption
<1>1. PCB # {} /\ Null \notin PCB \cup NP!Sem /\ NP!IsFiniteSet(PCB)
  BY TableAssumption, AddressAssumption, SameSem, SameCardinality
<1>2. NP!PCBAssumption
  BY <1>1 DEF NP!PCBAssumption
<1>3. NP!SemAssumption
  BY AddressAssumption, SameSem DEF NP!SemAssumption
<1>4. NP!PrioAssumption /\ NP!BoundAssumption
  BY PrioAssumption, BoundAssumption DEF NP!PrioAssumption, NP!BoundAssumption
<1> QED
  BY <1>2, <1>3, <1>4

\* The process tree is the same.
LEMMA SameTree ==
  /\ NP!Live = LiveIn(mem)
  /\ \A r : NP!Subtree(r) = SubtreeIn(mem, r)
<1>1. NP!Live = LiveIn(mem)
  BY MappedNow DEF NP!Live, LiveIn
<1>2. \A r : NP!Subtree(r) = SubtreeIn(mem, r)
  BY <1>1 DEF NP!Subtree, SubtreeIn, ClosedIn
<1> QED
  BY <1>1, <1>2

\* What holds before every handler: of the lists, and of the state they are.
Kept ==
  /\ Good(mem) /\ FreeBare(mem)
  /\ NP!IInv /\ NP!SingleTree /\ NP!PidsDistinct /\ NP!ReadySorted

\* The same, said of the memory.
Fit(m) ==
  /\ Good(m) /\ FreeBare(m) /\ TreeIn(m) /\ OnePid(m)
  /\ P!IsSorted(ReadyIn(m), m.p_prio)
  /\ \A p \in LiveIn(m) : Placed(m, p)
  /\ \A p \in PCB, s \in Sem : p \in P!Elems(QueueIn(m, s)) <=> m.p_semAdd[p] = s
  /\ m.currProc # Null => m.currProc \in LiveIn(m) /\ Off(m, m.currProc)
                          /\ m.p_semAdd[m.currProc] = Null
  /\ \A p \in FreeIn(m) : m.p_semAdd[p] = Null

\* The tree, the pids and the order of the ready queue, said of the memory.
LEMMA KeptOrder ==
  ASSUME Kept PROVE TreeIn(mem) /\ OnePid(mem) /\ P!IsSorted(ReadyIn(mem), mem.p_prio)
<1>1. TreeIn(mem)
  BY SameTree DEF Kept, NP!SingleTree, TreeIn
<1>2. OnePid(mem)
  <2>1. \A p \in LiveIn(mem) : PidIn(mem)[p] = mem.p_pid[p]
    BY DEF LiveIn, PidIn
  <2>2. \A p, q \in LiveIn(mem) : PidIn(mem)[p] = PidIn(mem)[q] => p = q
    BY MappedNow, SameTree DEF Kept, NP!PidsDistinct
  <2> QED
    BY <2>1, <2>2 DEF OnePid
<1>3. P!IsSorted(ReadyIn(mem), mem.p_prio)
  <2>1. P!IsSorted(ReadyIn(mem), PrioIn(mem))
    BY MappedNow, SameInsertions DEF Kept, NP!ReadySorted
  <2>2. /\ P!IsQueue(ReadyIn(mem)) /\ FreeIn(mem) \cap P!Elems(ReadyIn(mem)) = {}
    BY GoodLists DEF Kept
  <2>3. \A x, y \in PCB : <<x, y>> \in ReadyIn(mem) => x \notin FreeIn(mem) /\ y \notin FreeIn(mem)
    BY <2>2 DEF P!IsQueue
  <2> QED
    BY <2>1, <2>3 DEF P!IsSorted, PrioIn
<1> QED
  BY <1>1, <1>2, <1>3

\* Every process is in one place.
LEMMA KeptPlaces ==
  ASSUME Kept
  PROVE  /\ mem.currProc \notin FreeIn(mem) \cup P!Elems(ReadyIn(mem))
         /\ \A p \in PCB, s \in Sem : p \in P!Elems(QueueIn(mem, s)) <=> mem.p_semAdd[p] = s
         /\ \A p \in PCB : mem.p_semAdd[p] # Null <=>
               p \in LiveIn(mem) \ (P!Elems(ReadyIn(mem)) \cup {mem.currProc})
<1>1. NP!OnePlace
  BY DEF Kept, NP!IInv
<1>2. NP!Ready = P!Elems(ReadyIn(mem))
  BY MappedNow, SameOrders DEF NP!Ready
<1>3. \A s \in Sem : NP!Waiting(s) = P!Elems(QueueIn(mem, s))
  BY MappedNow, SameOrders DEF NP!Waiting, SemsIn
<1> QED
  BY <1>1, <1>2, <1>3, SameTree, SameSem, MappedNow DEF NP!OnePlace

\* What holds before a handler, said of the memory.
LEMMA KeptFit ==
  ASSUME Kept PROVE Fit(mem)
<1>1. Good(mem) /\ FreeBare(mem) /\ Typed(mem)
  BY GoodLists DEF Kept
<1>2. \A p \in FreeIn(mem) : mem.p_semAdd[p] = Null
  BY KeptPlaces, <1>1, GoodLists DEF LiveIn
<1>3. mem.currProc # Null => /\ mem.currProc \in PCB /\ mem.currProc \in LiveIn(mem)
                             /\ mem.p_semAdd[mem.currProc] = Null
  BY KeptPlaces, <1>1 DEF Typed, LiveIn
<1>4. \A p \in PCB : mem.p_semAdd[p] = Null => \A s \in Sem : p \notin P!Elems(QueueIn(mem, s))
  BY KeptPlaces, SemNat
<1>5. mem.currProc # Null => Off(mem, mem.currProc)
  BY <1>3, <1>4, KeptPlaces DEF Off
<1>6. ASSUME NEW p \in LiveIn(mem), p # mem.currProc PROVE Queued(mem, p)
  <2>1. p \in PCB
    BY DEF LiveIn
  <2>2. CASE p \in P!Elems(ReadyIn(mem))
    BY <2>1, <2>2, KeptPlaces DEF Queued
  <2>3. CASE p \notin P!Elems(ReadyIn(mem))
    <3>1. mem.p_semAdd[p] # Null
      BY <2>1, <2>3, <1>6, KeptPlaces
    <3>2. mem.p_semAdd[p] \in Sem
      BY <3>1, <2>1, <1>1 DEF Typed
    <3> QED
      BY <3>2, <2>1, KeptPlaces DEF Queued
  <2> QED
    BY <2>2, <2>3
<1>7. ASSUME NEW p \in LiveIn(mem) PROVE Placed(mem, p)
  <2>1. p \in PCB /\ p # Null
    BY TableAssumption DEF LiveIn
  <2> QED
    BY <2>1, <1>3, <1>5, <1>6 DEF Placed
<1> QED
  BY <1>1, <1>2, <1>3, <1>5, <1>7, KeptOrder, KeptPlaces DEF Fit

\* The priorities the handlers read are those of live processes.
LEMMA LivePriorities ==
  ASSUME NEW m, NEW f, NEW q, NEW p, P!Elems(q) \subseteq LiveIn(m), p \in LiveIn(m),
         f = m.p_prio
  PROVE  NP!insertProcQ(q, p, PrioIn(m)) = P!insertProcQ(q, p, f)
<1>1. \A x \in NP!Elems(q) \cup {p} : f[x] = PrioIn(m)[x]
  BY SameOrders DEF LiveIn, PrioIn
<1>2. NP!insertProcQ(q, p, f) = NP!insertProcQ(q, p, PrioIn(m))
  BY <1>1, NP!SamePriorities, NPAssumptions
<1> QED
  BY <1>2, SameInsertions

\* The same for the insertion of all who waited for the clock.
LEMMA LiveTick ==
  ASSUME NEW m, NEW q, NEW w, P!Elems(q) \subseteq LiveIn(m), P!Elems(w) \subseteq LiveIn(m)
  PROVE  NP!InsertAll(q, w, PrioIn(m)) = P!InsertAll(q, w, m.p_prio)
<1>1. \A x \in P!Elems(q) \cup P!Elems(w) : PrioIn(m)[x] = m.p_prio[x]
  BY DEF LiveIn, PrioIn
<1>2. P!InsertAll(q, w, PrioIn(m)) = P!InsertAll(q, w, m.p_prio)
  BY <1>1 DEF P!InsertAll
<1> QED
  BY <1>2, SameInsertions

-----------------------------------------------------------------------------
(* The scheduler *)

\* Only the ready queue, currProc and softBlockCount differ.
SameProcesses(m, r) ==
  /\ Good(r) /\ FreeIn(r) = FreeIn(m)
  /\ \A s \in Sem : QueueIn(r, s) = QueueIn(m, s)
  /\ r.p_parent = m.p_parent /\ r.p_semAdd = m.p_semAdd
  /\ r.p_prio = m.p_prio /\ r.p_pid = m.p_pid /\ r.next_pid = m.next_pid
  /\ r.processCount = m.processCount

\* currProc or the counter is written.
Numbered(m, r, c, n) ==
  \/ r = [m EXCEPT !.currProc = c] /\ n = m.softBlockCount
  \/ r = [m EXCEPT !.softBlockCount = n] /\ c = m.currProc
  \/ r = [m EXCEPT !.softBlockCount = n, !.currProc = c]

\* currProc and the counter say nothing of the lists.
LEMMA NumbersSet ==
  ASSUME NEW m, Good(m), NEW c \in PCB \cup {Null}, NEW n \in Int,
         NEW r, Numbered(m, r, c, n)
  PROVE  /\ SameProcesses(m, r) /\ ReadyIn(r) = ReadyIn(m)
         /\ r.currProc = c /\ r.softBlockCount = n
<1>1. Typed(m) /\ DOMAIN m = MemFields
  BY GoodLists
<1>2. /\ DOMAIN r = MemFields /\ r.next = m.next /\ r.prev = m.prev /\ r.s_key = m.s_key
      /\ r.p_parent = m.p_parent /\ r.p_semAdd = m.p_semAdd
      /\ r.p_prio = m.p_prio /\ r.p_pid = m.p_pid /\ r.next_pid = m.next_pid
      /\ r.processCount = m.processCount
      /\ r.currProc = c /\ r.softBlockCount = n
  BY <1>1 DEF MemFields, Numbered
<1>3. Typed(r)
  BY <1>1, <1>2 DEF Typed
<1>4. Good(r) /\ SameLists(m, r)
  BY <1>2, <1>3, NumbersStay
<1> QED
  BY <1>2, <1>4 DEF SameProcesses, SameLists

\* The scheduler of Nucleus, on the memory.
LEMMA SchedulerNext ==
  ASSUME NEW rq, NEW n, NEW k
  PROVE  /\ NP!scheduler(rq, n, k) <=>
              \/ /\ P!Elems(rq) # {}
                 /\ mem'.currProc = P!headProcQ(rq)
                 /\ ReadyIn(mem') = P!Without(rq, {P!headProcQ(rq)})
                 /\ cpu' = "run"
              \/ /\ P!Elems(rq) = {}
                 /\ mem'.currProc = Null
                 /\ ReadyIn(mem') = rq
                 /\ \/ n = 0 /\ cpu' = "halt"
                    \/ n > 0 /\ k > 0 /\ cpu' = "wait"
                    \/ n > 0 /\ k = 0 /\ cpu' = "panic"
         /\ NP!Resume(rq, n, k) <=>
              IF mem.currProc # Null
              THEN ReadyIn(mem') = rq /\ mem'.currProc = mem.currProc /\ cpu' = cpu
              ELSE NP!scheduler(rq, n, k)
BY MappedNext, SameOrders DEF NP!scheduler, NP!Resume, NP!emptyProcQ, NP!removeProcQ, NP!outProcQ

\* The scheduler is that of Nucleus.
LEMMA SchedulerStep ==
  ASSUME NEW m, Good(m), m.currProc = Null, scheduler(m)
  PROVE  /\ SameProcesses(m, mem') /\ mem'.softBlockCount = m.softBlockCount
         /\ NP!scheduler(ReadyIn(m), m.processCount, m.softBlockCount)
<1> DEFINE h == P!headProcQ(ReadyIn(m))
           a == list_del(m, p_list(h))
<1>1. Typed(m) /\ P!IsQueue(ReadyIn(m)) /\ P!Elems(ReadyIn(m)) \subseteq PCB
  BY GoodLists
<1>2. emptyProcQ(m, readyQueue) <=> P!Elems(ReadyIn(m)) = {}
  BY ReadyHead
<1>3. CASE ~emptyProcQ(m, readyQueue)
  <2>1. h \in P!Elems(ReadyIn(m)) /\ headProcQ(m, readyQueue) = h
        /\ removeProcQ(m, readyQueue) = a
    BY <1>2, <1>3, ReadyHead, ReadyLeaves, TableAssumption
  <2>2. /\ Good(a) /\ SameData(m, a) /\ FreeIn(a) = FreeIn(m)
        /\ \A s \in Sem : QueueIn(a, s) = QueueIn(m, s)
        /\ ReadyIn(a) = P!Without(ReadyIn(m), {h})
    BY <2>1, ReadyCut
  <2>3. mem' = [a EXCEPT !.currProc = h] /\ cpu' = "run"
    BY <1>3, <2>1 DEF scheduler
  <2> HIDE DEF a, h
  <2>4. a.softBlockCount \in Int /\ h \in PCB
    BY <1>1, <2>1, <2>2, GoodLists DEF Typed
  <2>9. Numbered(a, mem', h, a.softBlockCount)
    BY <2>3 DEF Numbered
  <2>5. /\ SameProcesses(a, mem') /\ ReadyIn(mem') = ReadyIn(a)
        /\ mem'.currProc = h /\ mem'.softBlockCount = a.softBlockCount
    BY <2>2, <2>4, <2>9, NumbersSet
  <2>6. SameProcesses(m, mem') /\ mem'.softBlockCount = m.softBlockCount
    BY <2>2, <2>5 DEF SameProcesses, SameData
  <2>7. NP!scheduler(ReadyIn(m), m.processCount, m.softBlockCount)
    BY <1>2, <1>3, <2>2, <2>3, <2>5, SchedulerNext DEF h
  <2> QED
    BY <2>6, <2>7
<1>4. CASE emptyProcQ(m, readyQueue)
  <2>1. mem' = m
    BY <1>4 DEF scheduler
  <2>2. \/ m.processCount = 0 /\ cpu' = "halt"
        \/ m.processCount > 0 /\ m.softBlockCount > 0 /\ cpu' = "wait"
        \/ m.processCount > 0 /\ m.softBlockCount = 0 /\ cpu' = "panic"
    BY <1>4 DEF scheduler
  <2>3. NP!scheduler(ReadyIn(m), m.processCount, m.softBlockCount)
    BY <1>2, <1>4, <2>1, <2>2, SchedulerNext
  <2> QED
    BY <2>1, <2>3 DEF SameProcesses
<1> QED
  BY <1>3, <1>4

\* So is the return to the process that was interrupted.
LEMMA ResumeStep ==
  ASSUME NEW m, Good(m), m.currProc = mem.currProc, Resume(m)
  PROVE  /\ SameProcesses(m, mem') /\ mem'.softBlockCount = m.softBlockCount
         /\ NP!Resume(ReadyIn(m), m.processCount, m.softBlockCount)
<1>1. CASE m.currProc # Null
  <2>1. mem' = m /\ cpu' = cpu
    BY <1>1 DEF Resume
  <2>2. NP!Resume(ReadyIn(m), m.processCount, m.softBlockCount)
    BY <1>1, <2>1, SchedulerNext
  <2> QED
    BY <2>1, <2>2 DEF SameProcesses
<1>2. CASE m.currProc = Null
  <2>1. scheduler(m)
    BY <1>2 DEF Resume
  <2> QED
    BY <1>2, <2>1, SchedulerStep, SchedulerNext
<1> QED
  BY <1>1, <1>2

-----------------------------------------------------------------------------
(* The steps of NucleusLists are steps of Nucleus *)

\* main leaves the lists and the state of Nucleus's Init.
LEMMA InitStep ==
  ASSUME Init
  PROVE  Good(mem) /\ FreeBare(mem) /\ NP!Init
<1>1. PICK pcbs \in Tables(PCB), semds \in Tables(Semd) :
        LET m == mkEmptyProcQ(initASL(initPcbs(Zero, pcbs), semds), readyQueue)
            p == allocated(m)
        IN  mem = [removeProcQ(insertProcQ(allocPcb(m), readyQueue, p), readyQueue)
                     EXCEPT !.currProc = p, !.processCount = 1]
  BY DEF Init
<1> DEFINE m == mkEmptyProcQ(initASL(initPcbs(Zero, pcbs), semds), readyQueue)
           p == allocated(m)
<1>2. semVal \in {v \in [Sem -> 0 .. MaxVal] : v[Clock] = 0} /\ cpu = "run"
  BY DEF Init
<1>3. Made(m)
  BY MakeLists
<1>4. mem = [removeProcQ(insertProcQ(allocPcb(m), readyQueue, p), readyQueue)
               EXCEPT !.currProc = p, !.processCount = 1]
  BY <1>1
<1> HIDE DEF m
<1>5. Booted(mem, p)
  BY <1>3, <1>4, Boot
<1> HIDE DEF p
<1>6. Good(mem) /\ p \in PCB /\ Null \notin PCB
  BY <1>5, TableAssumption DEF Booted
<1>7. FreeBare(mem)
  <2>1. FreeIn(mem) \subseteq PCB /\ mem.p_parent = [x \in PCB |-> Null]
    BY <1>5 DEF Booted
  <2> QED
    BY <1>6, <2>1 DEF FreeBare
<1>8. /\ PrioIn(mem) = [x \in PCB |-> 0]
      /\ PidIn(mem) = [x \in PCB |-> IF x = p THEN 1 ELSE 0]
      /\ SemsIn(mem) = [s \in Sem |-> {}]
  <2>1. PrioIn(mem) = [x \in PCB |-> 0]
    BY <1>5 DEF Booted, PrioIn
  <2>2. PidIn(mem) = [x \in PCB |-> IF x = p THEN 1 ELSE 0]
    BY <1>5 DEF Booted, PidIn
  <2>3. SemsIn(mem) = [s \in Sem |-> {}]
    BY <1>5 DEF Booted, SemsIn
  <2> QED
    BY <2>1, <2>2, <2>3
<1>9. semVal \in {v \in [NP!Sem -> 0 .. MaxVal] : \A s \in NP!SubDevice : v[s] = 0}
  BY <1>2, SameSem
<1>10. NP!Init
  BY <1>2, <1>5, <1>6, <1>8, <1>9, MappedNow, SameSem DEF NP!Init, NP!mkEmptyProcQ, Booted
<1> QED
  BY <1>6, <1>7, <1>10

\* No process is created or killed.
SameTable(m, r) ==
  /\ FreeIn(r) = FreeIn(m) /\ r.p_parent = m.p_parent
  /\ r.p_prio = m.p_prio /\ r.p_pid = m.p_pid /\ r.next_pid = m.next_pid

\* Then the table of processes is unchanged in Nucleus too.
LEMMA TableStays ==
  ASSUME SameTable(mem, mem'), FreeBare(mem)
  PROVE  UNCHANGED NP!pcbVars /\ FreeBare(mem')
<1>1. PrioIn(mem') = PrioIn(mem) /\ PidIn(mem') = PidIn(mem)
  BY DEF SameTable, PrioIn, PidIn
<1>2. UNCHANGED NP!pcbVars
  BY <1>1, MappedNow, MappedNext DEF SameTable, NP!pcbVars
<1>3. FreeBare(mem')
  BY DEF SameTable, FreeBare
<1> QED
  BY <1>2, <1>3

\* YIELD, and the end of a time slice.
LEMMA RequeueStep ==
  ASSUME Kept, Requeue
  PROVE  Good(mem') /\ FreeBare(mem') /\ NP!Requeue
<1> DEFINE p == mem.currProc
           a == insertProcQ(mem, readyQueue, p)
           m == [a EXCEPT !.currProc = Null]
<1>1. Fit(mem) /\ cpu = "run" /\ scheduler(m) /\ semVal' = semVal
  BY KeptFit DEF Requeue, Running
<1>2. p # Null /\ Good(mem)
  BY <1>1, TableAssumption DEF Kept, NP!IInv, NP!TypeOK
<1>3. p \in LiveIn(mem) /\ Off(mem, p)
  BY <1>1, <1>2 DEF Fit
<1>4. /\ Good(a) /\ SameData(mem, a)
      /\ FreeIn(a) = FreeIn(mem) /\ \A s \in Sem : QueueIn(a, s) = QueueIn(mem, s)
      /\ ReadyIn(a) = P!insertProcQ(ReadyIn(mem), p, mem.p_prio)
  BY <1>2, <1>3, ReadyPut
<1> HIDE DEF a
<1>5. a.softBlockCount \in Int /\ Numbered(a, m, Null, a.softBlockCount)
  BY <1>4, GoodLists DEF Typed, Numbered
<1> HIDE DEF m
<1>6. /\ SameProcesses(a, m) /\ ReadyIn(m) = ReadyIn(a)
      /\ m.currProc = Null /\ m.softBlockCount = a.softBlockCount
  BY <1>4, <1>5, NumbersSet
<1>7. /\ SameProcesses(m, mem') /\ mem'.softBlockCount = m.softBlockCount
      /\ NP!scheduler(ReadyIn(m), m.processCount, m.softBlockCount)
  BY <1>1, <1>6, SchedulerStep DEF SameProcesses
<1>8. SameProcesses(mem, mem') /\ mem'.softBlockCount = mem.softBlockCount
  BY <1>4, <1>6, <1>7 DEF SameProcesses, SameData
<1>9. /\ ReadyIn(m) = P!insertProcQ(ReadyIn(mem), p, mem.p_prio)
      /\ m.processCount = mem.processCount /\ m.softBlockCount = mem.softBlockCount
  BY <1>4, <1>6 DEF SameProcesses, SameData
<1>10. P!Elems(ReadyIn(mem)) \subseteq LiveIn(mem)
  BY <1>2, GoodLists DEF LiveIn
<1>11. ReadyIn(m) = NP!insertProcQ(ReadyIn(mem), p, PrioIn(mem))
  BY <1>3, <1>9, <1>10, LivePriorities
<1>12. NP!scheduler(NP!insertProcQ(ReadyIn(mem), p, PrioIn(mem)), mem.processCount,
                    mem.softBlockCount)
  BY <1>7, <1>9, <1>11
<1>13. SemsIn(mem') = SemsIn(mem)
  BY <1>8 DEF SameProcesses, SemsIn
<1>14. SameTable(mem, mem') /\ FreeBare(mem)
  BY <1>1, <1>8 DEF SameProcesses, SameTable, Fit
<1>15. UNCHANGED NP!pcbVars /\ FreeBare(mem')
  BY <1>14, TableStays
<1>16. NP!Requeue
  BY <1>1, <1>8, <1>12, <1>13, <1>15, MappedNow, MappedNext
     DEF NP!Requeue, NP!Running, SameProcesses, NP!countVars
<1> QED
  BY <1>8, <1>15, <1>16 DEF SameProcesses

\* insertBlocked of the running process finds a descriptor.
LEMMA InsertBlockedNext ==
  ASSUME Kept, mem.currProc # Null, NEW s \in Sem
  PROVE  NP!insertBlocked(s, mem.currProc)
           = [SemsIn(mem) EXCEPT ![s] = P!InsertTail(@, mem.currProc)]
<1>1. mem.currProc \in NP!Active
  BY DEF NP!Active
<1>2. NP!Settled(NP!Active, Free, mem.p_semAdd, [t \in Sem |-> SemQueue(t)],
                 mem.processCount, mem.softBlockCount)
  BY NP!BeforeHandler, NPAssumptions DEF Kept
<1>3. ~NP!NoFreeSemd
  BY <1>1, <1>2, NP!FreeDescriptor, NPAssumptions
<1> QED
  BY <1>3, MappedNow, SameOrders DEF NP!insertBlocked

\* The caller waits on s.
LEMMA BlockNext ==
  ASSUME Kept, mem.currProc # Null, NEW s \in Sem, NEW soft \in {0, 1}, Block(s, soft)
  PROVE  Good(mem') /\ FreeBare(mem') /\ NP!Block(s, soft)
<1> DEFINE p == mem.currProc
           a == insertBlocked([mem EXCEPT !.p_semAdd[p] = s], s, p)
           m == [a EXCEPT !.softBlockCount = @ + soft, !.currProc = Null]
<1>1. Fit(mem) /\ Good(mem) /\ scheduler(m) /\ Typed(mem)
  BY KeptFit, GoodLists DEF Block, Kept
<1>2. p \in LiveIn(mem) /\ Off(mem, p)
  BY <1>1 DEF Fit
<1>3. Blocks(mem, a, p, s)
  BY <1>1, <1>2, BlockStep
<1> HIDE DEF a
<1>4. Good(a) /\ a.softBlockCount = mem.softBlockCount /\ mem.softBlockCount \in Int
  BY <1>1, <1>3 DEF Blocks, SameButAsl, Typed
<1>5. Numbered(a, m, Null, mem.softBlockCount + soft)
  BY <1>4 DEF Numbered
<1> HIDE DEF m
<1>6. /\ SameProcesses(a, m) /\ ReadyIn(m) = ReadyIn(a)
      /\ m.currProc = Null /\ m.softBlockCount = mem.softBlockCount + soft
  BY <1>4, <1>5, NumbersSet
<1>7. /\ SameProcesses(m, mem') /\ mem'.softBlockCount = m.softBlockCount
      /\ NP!scheduler(ReadyIn(m), m.processCount, m.softBlockCount)
  BY <1>1, <1>6, SchedulerStep DEF SameProcesses
<1>8. /\ Good(mem') /\ SameTable(mem, mem') /\ mem'.processCount = mem.processCount
      /\ mem'.softBlockCount = mem.softBlockCount + soft
      /\ mem'.p_semAdd = [mem.p_semAdd EXCEPT ![p] = s]
      /\ ReadyIn(m) = ReadyIn(mem) /\ m.processCount = mem.processCount
      /\ m.softBlockCount = mem'.softBlockCount
  BY <1>3, <1>6, <1>7 DEF SameProcesses, SameTable, Blocks, SameButAsl
<1>9. SemsIn(mem') = [SemsIn(mem) EXCEPT ![s] = P!InsertTail(@, p)]
  <2>1. /\ QueueIn(mem', s) = P!InsertTail(QueueIn(mem, s), p)
        /\ \A t \in Sem \ {s} : QueueIn(mem', t) = QueueIn(mem, t)
    BY <1>3, <1>6, <1>7 DEF SameProcesses, Blocks, QueuesBut
  <2> QED
    BY <2>1 DEF SemsIn
<1>10. UNCHANGED NP!pcbVars /\ FreeBare(mem')
  BY <1>1, <1>8, TableStays DEF Fit
<1>11. NP!scheduler(ReadyIn(mem), mem.processCount, mem'.softBlockCount)
  BY <1>7, <1>8
<1>12. NP!insertBlocked(s, p) = SemsIn(mem')
  BY <1>9, InsertBlockedNext
<1>13. NP!Block(s, soft)
  BY <1>8, <1>10, <1>11, <1>12, MappedNow, MappedNext DEF NP!Block
<1> QED
  BY <1>8, <1>10, <1>13

\* There is a running process.
LEMMA RunningProcess ==
  ASSUME Kept, cpu = "run"
  PROVE  mem.currProc # Null /\ Clock \in Sem /\ UserSem \subseteq Sem
BY DEF Kept, NP!IInv, NP!TypeOK, Sem

\* Nothing happens to the memory.
LEMMA MemoryStays ==
  ASSUME Kept, UNCHANGED mem
  PROVE  /\ Good(mem') /\ FreeBare(mem') /\ UNCHANGED NP!pcbVars
         /\ SemsIn(mem') = SemsIn(mem) /\ ReadyIn(mem') = ReadyIn(mem)
<1>1. SameTable(mem, mem') /\ Good(mem) /\ FreeBare(mem)
  BY DEF SameTable, Kept
<1> QED
  BY <1>1, TableStays

\* PASSEREN takes a token or waits.
LEMMA PasserenStep ==
  ASSUME Kept, NEW s \in UserSem, Passeren(s)
  PROVE  Good(mem') /\ FreeBare(mem') /\ NP!Passeren(s)
<1>1. cpu = "run" /\ s \in Sem /\ mem.currProc # Null
  BY RunningProcess DEF Passeren, Running
<1>2. CASE semVal[s] = 0 /\ Block(s, 0) /\ UNCHANGED semVal
  <2>1. Good(mem') /\ FreeBare(mem') /\ NP!Block(s, 0)
    BY <1>1, <1>2, BlockNext
  <2> QED
    BY <1>1, <1>2, <2>1 DEF NP!Passeren, NP!Running
<1>3. CASE /\ semVal[s] # 0 /\ semVal' = [semVal EXCEPT ![s] = @ - 1]
           /\ UNCHANGED <<mem, cpu>>
  <2>1. /\ Good(mem') /\ FreeBare(mem') /\ UNCHANGED NP!pcbVars
        /\ SemsIn(mem') = SemsIn(mem) /\ ReadyIn(mem') = ReadyIn(mem)
    BY <1>3, MemoryStays
  <2>2. NP!Passeren(s)
    BY <1>1, <1>3, <2>1, MappedNow, MappedNext DEF NP!Passeren, NP!Running, NP!countVars
  <2> QED
    BY <2>1, <2>2
<1> QED
  BY <1>2, <1>3 DEF Passeren

\* CLOCKWAIT always waits.
LEMMA ClockWaitStep ==
  ASSUME Kept, ClockWait
  PROVE  Good(mem') /\ FreeBare(mem') /\ NP!ClockWait
<1>1. cpu = "run" /\ mem.currProc # Null /\ Clock \in Sem /\ Block(Clock, 1)
      /\ UNCHANGED semVal
  BY RunningProcess DEF ClockWait, Running
<1>2. Good(mem') /\ FreeBare(mem') /\ NP!Block(Clock, 1)
  BY <1>1, BlockNext
<1> QED
  BY <1>1, <1>2 DEF NP!ClockWait, NP!Running

\* Nothing happens.
LEMMA StoppedStep ==
  ASSUME Kept, UNCHANGED vars
  PROVE  Good(mem') /\ FreeBare(mem') /\ UNCHANGED NP!vars
<1>1. mem' = mem /\ cpu' = cpu /\ semVal' = semVal
  BY DEF vars
<1>2. /\ Good(mem') /\ FreeBare(mem') /\ UNCHANGED NP!pcbVars
      /\ SemsIn(mem') = SemsIn(mem) /\ ReadyIn(mem') = ReadyIn(mem)
  BY <1>1, MemoryStays
<1>3. UNCHANGED NP!vars
  BY <1>1, <1>2, MappedNow, MappedNext DEF NP!vars, NP!countVars
<1> QED
  BY <1>2, <1>3

\* VERHOGEN wakes the first process that waits, or leaves a token.
LEMMA VerhogenStep ==
  ASSUME Kept, NEW s \in UserSem, Verhogen(s)
  PROVE  Good(mem') /\ FreeBare(mem') /\ NP!Verhogen(s)
<1> DEFINE q == QueueIn(mem, s)
           p == P!headProcQ(q)
<1>1. /\ cpu = "run" /\ cpu' = cpu /\ s \in Sem /\ Good(mem) /\ Fit(mem)
  BY RunningProcess, KeptFit DEF Verhogen, Running, Kept
<1>2. headBlocked(mem, s) = IF P!Elems(q) = {} THEN Null ELSE p
  BY <1>1, HeadStep
<1>3. P!Elems(q) # {} => p \in P!Elems(q)
  BY <1>1, WakeStep
<1>4. P!Elems(q) \subseteq LiveIn(mem) /\ P!Elems(ReadyIn(mem)) \subseteq LiveIn(mem)
      /\ Null \notin LiveIn(mem)
  BY <1>1, GoodLists, TableAssumption DEF LiveIn
<1>5. headBlocked(mem, s) = Null <=> P!Elems(q) = {}
  BY <1>2, <1>3, <1>4
<1>6. SemsIn(mem)[s] = q
  BY <1>1 DEF SemsIn
<1> HIDE DEF q
<1>7. CASE semVal[s] = 0 /\ P!Elems(q) # {}
  <2>1. mem' = Wake(mem, s) /\ semVal' = semVal
    BY <1>5, <1>7 DEF Verhogen
  <2>2. p \in P!Elems(q) /\ Woke(mem, mem', p, s)
    BY <1>1, <1>7, <2>1, WakeStep DEF q
  <2> HIDE DEF p
  <2>3. SemsIn(mem') = [SemsIn(mem) EXCEPT ![s] = P!Without(@, {p})]
    <3>1. /\ QueueIn(mem', s) = P!Without(QueueIn(mem, s), {p})
          /\ \A t \in Sem \ {s} : QueueIn(mem', t) = QueueIn(mem, t)
      BY <2>2 DEF Woke, QueuesBut
    <3> QED
      BY <3>1 DEF SemsIn
  <2>4. ReadyIn(mem') = NP!insertProcQ(ReadyIn(mem), p, PrioIn(mem))
    <3>1. ReadyIn(mem') = P!insertProcQ(ReadyIn(mem), p, mem.p_prio)
      BY <2>2 DEF Woke
    <3> QED
      BY <3>1, <2>2, <1>4, LivePriorities
  <2>5. SameTable(mem, mem') /\ FreeBare(mem)
    BY <1>1, <2>2 DEF Woke, SameButAsl, SameTable, Fit
  <2>6. UNCHANGED NP!pcbVars /\ FreeBare(mem')
    BY <2>5, TableStays
  <2>7. /\ NP!removeBlocked(s) = SemsIn(mem') /\ NP!headBlocked(s) = p /\ NP!Wakes(s)
    BY <1>6, <1>7, <2>3, MappedNow, SameOrders
       DEF NP!removeBlocked, NP!headBlocked, NP!Wakes, NP!removeProcQ, NP!outProcQ,
           NP!emptyProcQ, p
  <2>8. /\ mem'.p_semAdd = [mem.p_semAdd EXCEPT ![p] = Null]
        /\ mem'.processCount = mem.processCount /\ mem'.softBlockCount = mem.softBlockCount
        /\ mem'.currProc = mem.currProc
    BY <2>2 DEF Woke, SameButAsl
  <2>9. NP!Verhogen(s)
    BY <1>1, <2>1, <2>4, <2>6, <2>7, <2>8, MappedNow, MappedNext
       DEF NP!Verhogen, NP!Running, NP!countVars
  <2> QED
    BY <2>2, <2>6, <2>9 DEF Woke
<1>8. CASE ~(semVal[s] = 0 /\ P!Elems(q) # {})
  <2>1. /\ semVal[s] < MaxVal /\ semVal' = [semVal EXCEPT ![s] = @ + 1] /\ mem' = mem
    BY <1>5, <1>8 DEF Verhogen
  <2>2. /\ Good(mem') /\ FreeBare(mem') /\ UNCHANGED NP!pcbVars
        /\ SemsIn(mem') = SemsIn(mem) /\ ReadyIn(mem') = ReadyIn(mem)
    BY <2>1, MemoryStays
  <2>3. ~NP!Wakes(s)
    BY <1>6, <1>8, MappedNow, SameOrders DEF NP!Wakes, NP!emptyProcQ
  <2>4. NP!Verhogen(s)
    BY <1>1, <2>1, <2>2, <2>3, MappedNow, MappedNext
       DEF NP!Verhogen, NP!Running, NP!countVars
  <2> QED
    BY <2>2, <2>4
<1> QED
  BY <1>7, <1>8

\* The interval timer wakes everybody who waits for the clock.
LEMMA ITInterruptStep ==
  ASSUME Kept, ITInterrupt
  PROVE  Good(mem') /\ FreeBare(mem') /\ NP!ITInterrupt
<1> DEFINE m == WakeAll(mem)
           q == QueueIn(mem, Clock)
<1>1. /\ cpu \in {"run", "wait"} /\ Resume(m) /\ semVal' = [semVal EXCEPT ![Clock] = 0]
      /\ Good(mem) /\ Fit(mem) /\ Clock \in Sem
  BY KeptFit DEF ITInterrupt, Kept, Sem
<1>2. AllWoken(mem, m)
  BY <1>1, WakeAllStep DEF Fit
<1> HIDE DEF m
<1>3. /\ SameProcesses(m, mem') /\ mem'.softBlockCount = m.softBlockCount
      /\ NP!Resume(ReadyIn(m), m.processCount, m.softBlockCount)
  BY <1>1, <1>2, ResumeStep DEF AllWoken
<1>4. P!Elems(q) \subseteq LiveIn(mem) /\ P!Elems(ReadyIn(mem)) \subseteq LiveIn(mem)
      /\ SemsIn(mem)[Clock] = q
  BY <1>1, GoodLists DEF LiveIn, SemsIn
<1>5. SemsIn(mem') = [SemsIn(mem) EXCEPT ![Clock] = P!Without(@, P!Elems(q))]
  <2>1. /\ QueueIn(mem', Clock) = P!Without(QueueIn(mem, Clock), P!Elems(q))
        /\ \A t \in Sem \ {Clock} : QueueIn(mem', t) = QueueIn(mem, t)
    BY <1>1, <1>2, <1>3 DEF SameProcesses, AllWoken
  <2> QED
    BY <2>1 DEF SemsIn
<1>6. ReadyIn(m) = NP!InsertAll(ReadyIn(mem), q, PrioIn(mem))
  <2>1. ReadyIn(m) = P!InsertAll(ReadyIn(mem), q, mem.p_prio)
    BY <1>2 DEF AllWoken
  <2> QED
    BY <2>1, <1>4, LiveTick
<1>7. /\ Good(mem') /\ SameTable(mem, mem') /\ FreeBare(mem)
      /\ m.processCount = mem.processCount /\ m.softBlockCount = mem'.softBlockCount
      /\ mem'.processCount = mem.processCount
      /\ mem'.softBlockCount = mem.softBlockCount - Cardinality(P!Elems(q))
      /\ mem'.p_semAdd = [x \in PCB |-> IF x \in P!Elems(q) THEN Null ELSE mem.p_semAdd[x]]
  BY <1>1, <1>2, <1>3 DEF SameProcesses, AllWoken, SameTable, Fit
<1>8. UNCHANGED NP!pcbVars /\ FreeBare(mem')
  BY <1>7, TableStays
<1>9. NP!Woken = q
  BY <1>4, MappedNow DEF NP!Woken
<1> HIDE DEF q
<1>10. /\ NP!Elems(NP!Woken) = P!Elems(q)
       /\ NP!Cardinality(P!Elems(q)) = Cardinality(P!Elems(q))
  BY <1>9, SameOrders, SameCardinality
<1>11. NP!Resume(NP!InsertAll(ReadyIn(mem), NP!Woken, PrioIn(mem)), mem.processCount,
                 mem'.softBlockCount)
  BY <1>3, <1>6, <1>7, <1>9
<1>12. /\ SemsIn(mem') = [SemsIn(mem) EXCEPT ![Clock] = NP!Without(@, NP!Elems(NP!Woken))]
       /\ mem'.p_semAdd = [x \in PCB |-> IF x \in NP!Elems(NP!Woken) THEN Null
                                         ELSE mem.p_semAdd[x]]
       /\ mem'.softBlockCount = mem.softBlockCount - NP!Cardinality(NP!Elems(NP!Woken))
  <2>1. SemsIn(mem') = [SemsIn(mem) EXCEPT ![Clock] = NP!Without(@, NP!Elems(NP!Woken))]
    BY <1>5, <1>10, SameOrders
  <2> QED
    BY <2>1, <1>7, <1>10
<1>13. NP!ITInterrupt
  BY <1>1, <1>7, <1>8, <1>11, <1>12, MappedNow, MappedNext
     DEF NP!ITInterrupt, NP!InterruptsEnabled
<1> QED
  BY <1>7, <1>8, <1>13

\* The new process is a ready child of the caller.
Created(m, r, p, prio) ==
  /\ Good(r) /\ p \in FreeIn(m) /\ FreeIn(r) = FreeIn(m) \ {p}
  /\ ReadyIn(r) = P!insertProcQ(ReadyIn(m), p, r.p_prio)
  /\ \A s \in Sem : QueueIn(r, s) = QueueIn(m, s)
  /\ r.p_parent = [m.p_parent EXCEPT ![p] = m.currProc]
  /\ r.p_semAdd = [m.p_semAdd EXCEPT ![p] = Null]
  /\ r.p_prio = [m.p_prio EXCEPT ![p] = prio]
  /\ r.p_pid = [m.p_pid EXCEPT ![p] = m.next_pid]
  /\ r.next_pid = m.next_pid + 1 /\ r.currProc = m.currProc
  /\ r.processCount = m.processCount + 1 /\ r.softBlockCount = m.softBlockCount

\* insertChild, by name.
Adopted(m, r, p, prnt) ==
  /\ Good(r) /\ SameLists(m, r) /\ SameButParent(m, r)
  /\ r.p_parent = [m.p_parent EXCEPT ![p] = prnt]

\* insertChild of a process that has no parent.
LEMMA Adoption ==
  ASSUME NEW m, Good(m), NEW p \in PCB, m.p_parent[p] = Null,
         NEW prnt \in PCB, prnt \notin FreeIn(m)
  PROVE  Adopted(m, insertChild(m, prnt, p), p, prnt)
BY InsertChildStep DEF Adopted

\* CREATEPROCESS: allocPcb, insertChild and insertProcQ.
LEMMA CreateLists ==
  ASSUME NEW m0, Fit(m0), m0.currProc # Null, allocated(m0) # Null, NEW prio \in Nat,
         NEW p, p = allocated(m0),
         NEW b, b = [allocPcb(m0) EXCEPT !.p_prio[p] = prio, !.processCount = @ + 1],
         NEW r, r = insertProcQ(insertChild(b, m0.currProc, p), readyQueue, p)
  PROVE  Created(m0, r, p, prio)
<1> DEFINE a == allocPcb(m0)
           c == insertChild(b, m0.currProc, p)
<1>1. /\ Good(m0) /\ FreeBare(m0) /\ FreeIn(m0) # {} /\ m0.currProc \in PCB
      /\ m0.currProc \notin FreeIn(m0) /\ Typed(m0) /\ p \in FreeIn(m0) /\ p \in PCB
  BY Allocated, GoodLists DEF Fit, LiveIn
<1>2. /\ Good(a) /\ Off(a, p)
      /\ FreeIn(a) = FreeIn(m0) \ {p} /\ ReadyIn(a) = ReadyIn(m0)
      /\ \A s \in Sem : QueueIn(a, s) = QueueIn(m0, s)
      /\ a.p_parent = [m0.p_parent EXCEPT ![p] = Null]
      /\ a.p_semAdd = [m0.p_semAdd EXCEPT ![p] = Null]
      /\ a.p_prio = [m0.p_prio EXCEPT ![p] = 0]
      /\ a.p_pid = [m0.p_pid EXCEPT ![p] = m0.next_pid]
      /\ a.next_pid = m0.next_pid + 1
      /\ a.currProc = m0.currProc /\ a.processCount = m0.processCount
      /\ a.softBlockCount = m0.softBlockCount
  BY <1>1, AllocStep
<1> HIDE DEF a
<1>3. DOMAIN a = MemFields /\ Typed(a)
  BY <1>2, GoodLists
<1>4. /\ DOMAIN b = MemFields /\ b.next = a.next /\ b.prev = a.prev /\ b.s_key = a.s_key
      /\ b.p_parent = a.p_parent /\ b.p_semAdd = a.p_semAdd /\ b.p_pid = a.p_pid
      /\ b.next_pid = a.next_pid /\ b.currProc = a.currProc
      /\ b.softBlockCount = a.softBlockCount
      /\ b.processCount = a.processCount + 1 /\ b.p_prio = [a.p_prio EXCEPT ![p] = prio]
  BY <1>3 DEF a, MemFields
<1>5. Typed(b)
  <2>1. b.p_prio \in [PCB -> Nat]
    <3>1. a.p_prio \in [PCB -> Nat] /\ prio \in Nat
      BY <1>3 DEF Typed
    <3> QED
      <4>1. [a.p_prio EXCEPT ![p] = prio] \in [PCB -> Nat]
        BY <3>1, ExceptType
      <4> QED
        BY <4>1, <1>4
  <2> QED
    BY <1>3, <1>4, <2>1 DEF Typed
<1>6. Good(b) /\ SameLists(a, b)
  BY <1>2, <1>4, <1>5, NumbersStay
<1>7. b.p_parent[p] = Null /\ m0.currProc \notin FreeIn(b)
  BY <1>1, <1>2, <1>4, <1>6 DEF Typed, SameLists
<1>8. /\ Good(c) /\ SameLists(b, c) /\ SameButParent(b, c)
      /\ c.p_parent = [b.p_parent EXCEPT ![p] = m0.currProc]
  <2>1. Adopted(b, c, p, m0.currProc)
    BY <1>1, <1>6, <1>7, Adoption
  <2> QED
    BY <2>1 DEF Adopted
<1> HIDE DEF c
<1>9. Off(c, p)
  BY <1>2, <1>6, <1>8 DEF Off, SameLists
<1>10. /\ Good(r) /\ SameData(c, r)
       /\ FreeIn(r) = FreeIn(c) /\ \A s \in Sem : QueueIn(r, s) = QueueIn(c, s)
       /\ ReadyIn(r) = P!insertProcQ(ReadyIn(c), p, c.p_prio)
  BY <1>8, <1>9, ReadyPut DEF c
<1>11. /\ FreeIn(r) = FreeIn(m0) \ {p} /\ ReadyIn(c) = ReadyIn(m0)
       /\ \A s \in Sem : QueueIn(r, s) = QueueIn(m0, s)
  BY <1>2, <1>6, <1>8, <1>10 DEF SameLists
<1>12. /\ r.p_parent = [[m0.p_parent EXCEPT ![p] = Null] EXCEPT ![p] = m0.currProc]
       /\ r.p_semAdd = [m0.p_semAdd EXCEPT ![p] = Null]
       /\ r.p_prio = [[m0.p_prio EXCEPT ![p] = 0] EXCEPT ![p] = prio]
       /\ r.p_pid = [m0.p_pid EXCEPT ![p] = m0.next_pid]
       /\ r.next_pid = m0.next_pid + 1 /\ r.currProc = m0.currProc
       /\ r.processCount = m0.processCount + 1 /\ r.softBlockCount = m0.softBlockCount
       /\ c.p_prio = r.p_prio
  BY <1>2, <1>4, <1>8, <1>10 DEF SameData, SameButParent
<1>13. /\ [[m0.p_parent EXCEPT ![p] = Null] EXCEPT ![p] = m0.currProc]
            = [m0.p_parent EXCEPT ![p] = m0.currProc]
       /\ [[m0.p_prio EXCEPT ![p] = 0] EXCEPT ![p] = prio] = [m0.p_prio EXCEPT ![p] = prio]
  OBVIOUS
<1> QED
  BY <1>1, <1>10, <1>11, <1>12, <1>13 DEF Created

\* CREATEPROCESS is that of Nucleus.
LEMMA CreateProcessStep ==
  ASSUME Kept, NEW prio \in Prio, CreateProcess(prio)
  PROVE  Good(mem') /\ FreeBare(mem') /\ NP!CreateProcess(prio, FALSE)
<1> DEFINE p == allocated(mem)
           m == [allocPcb(mem) EXCEPT !.p_prio[p] = prio, !.processCount = @ + 1]
<1>1. /\ cpu = "run" /\ mem.next_pid <= MaxPid /\ p # Null /\ prio \in Nat
      /\ mem' = insertProcQ(insertChild(m, mem.currProc, p), readyQueue, p)
      /\ semVal' = semVal /\ cpu' = cpu /\ mem.currProc # Null /\ Fit(mem)
  BY RunningProcess, KeptFit, PrioAssumption DEF CreateProcess, Running
<1>2. Created(mem, mem', p, prio)
  BY <1>1, CreateLists
<1> HIDE DEF p, m
<1>3. /\ Good(mem) /\ FreeBare(mem) /\ Typed(mem) /\ p \in PCB /\ FreeIn(mem) \subseteq PCB
      /\ mem.currProc \in LiveIn(mem) /\ p \notin P!Elems(ReadyIn(mem))
      /\ P!Elems(ReadyIn(mem)) \subseteq LiveIn(mem)
  BY <1>1, <1>2, GoodLists DEF Fit, Created, LiveIn
<1>4. FreeBare(mem')
  BY <1>2, <1>3 DEF FreeBare, Created, Typed, LiveIn
<1>5. PrioIn(mem') = [PrioIn(mem) EXCEPT ![p] = prio]
  BY <1>2, <1>3 DEF PrioIn, Created, Typed
<1>6. PidIn(mem') = [PidIn(mem) EXCEPT ![p] = mem.next_pid]
  BY <1>2, <1>3 DEF PidIn, Created, Typed
<1>7. ReadyIn(mem') = NP!insertProcQ(ReadyIn(mem), p, PrioIn(mem'))
  <2>1. P!Elems(ReadyIn(mem)) \subseteq LiveIn(mem') /\ p \in LiveIn(mem')
    BY <1>2, <1>3 DEF Created, LiveIn
  <2> QED
    BY <1>2, <2>1, LivePriorities DEF Created
<1>8. SemsIn(mem') = SemsIn(mem)
  BY <1>2 DEF SemsIn, Created
<1>9. [x \in PCB |-> FALSE] = [[x \in PCB |-> FALSE] EXCEPT ![p] = FALSE]
  OBVIOUS
<1>10. /\ mem'.p_parent = [mem.p_parent EXCEPT ![p] = mem.currProc]
       /\ mem'.p_semAdd = [mem.p_semAdd EXCEPT ![p] = Null]
       /\ mem'.processCount = mem.processCount + 1 /\ p \in FreeIn(mem)
       /\ FreeIn(mem') = FreeIn(mem) \ {p} /\ mem'.next_pid = mem.next_pid + 1
       /\ mem'.softBlockCount = mem.softBlockCount /\ mem'.currProc = mem.currProc
  BY <1>2 DEF Created
<1>11. NP!CreateProcess(prio, FALSE)
  <2> DEFINE Taken(x) ==
       /\ FreeIn(mem') = FreeIn(mem) \ {x}
       /\ PidIn(mem') = [PidIn(mem) EXCEPT ![x] = mem.next_pid]
       /\ mem'.next_pid = mem.next_pid + 1
       /\ PrioIn(mem') = [PrioIn(mem) EXCEPT ![x] = prio]
       /\ [y \in PCB |-> FALSE] = [[y \in PCB |-> FALSE] EXCEPT ![x] = FALSE]
       /\ mem'.p_parent = [mem.p_parent EXCEPT ![x] = mem.currProc]
       /\ mem'.p_semAdd = [mem.p_semAdd EXCEPT ![x] = Null]
       /\ ReadyIn(mem') = NP!insertProcQ(ReadyIn(mem), x, PrioIn(mem'))
  <2>1. NP!CreateProcess(prio, FALSE) <=>
          /\ NP!Running
          /\ mem.next_pid <= MaxPid
          /\ \E x \in FreeIn(mem) : Taken(x)
          /\ mem'.processCount = mem.processCount + 1
          /\ SemsIn(mem') = SemsIn(mem) /\ semVal' = semVal
          /\ mem'.softBlockCount = mem.softBlockCount /\ mem'.currProc = mem.currProc
          /\ cpu' = cpu
    BY MappedNow, MappedNext DEF NP!CreateProcess, NP!allocPcb
  <2>2. Taken(p)
    BY <1>5, <1>7, <1>6, <1>9, <1>10
  <2>3. \E x \in FreeIn(mem) : Taken(x)
    BY <1>10, <2>2
  <2>4. /\ NP!Running /\ mem.next_pid <= MaxPid
        /\ mem'.processCount = mem.processCount + 1
        /\ SemsIn(mem') = SemsIn(mem) /\ semVal' = semVal
        /\ mem'.softBlockCount = mem.softBlockCount /\ mem'.currProc = mem.currProc
        /\ cpu' = cpu
    BY <1>1, <1>8, <1>10 DEF NP!Running
  <2> QED
    BY <2>1, <2>3, <2>4
<1> QED
  BY <1>2, <1>4, <1>11 DEF Created

\* The processes of D are dead, and the tree is without them.
Gone(m0, m, D) ==
  /\ Killed(m0, m, D)
  /\ m.p_parent = [c \in PCB |-> IF c \in D THEN Null ELSE m0.p_parent[c]]

\* recursive_terminate kills a process and its progeny, nobody else.
LEMMA GoneSubtree ==
  ASSUME NEW m0, Fit(m0), NEW t \in LiveIn(m0)
  PROVE  Gone(m0, recursive_terminate(m0, t), SubtreeIn(m0, t))
<1> DEFINE D == SubtreeIn(m0, t)
<1>1. Good(m0) /\ Below(m0, t, D)
  BY BelowSubtree DEF Fit
<1>2. \A p \in D : Placed(m0, p)
  BY SubtreeInFacts DEF Fit
<1> HIDE DEF D
<1>3. Gone(m0, recursive_terminate(m0, t), D)
  BY <1>1, <1>2, KillAll DEF Gone
<1> QED
  BY <1>3 DEF D

\* Nobody is killed.
LEMMA GoneNobody ==
  ASSUME NEW m, Good(m)
  PROVE  Gone(m, m, {})
<1>1. /\ Typed(m) /\ P!IsQueue(ReadyIn(m)) /\ \A s \in Sem : P!IsQueue(QueueIn(m, s))
      /\ FreeIn(m) \subseteq PCB
  BY GoodLists
<1>2. \A q : P!IsQueue(q) => P!Without(q, {}) = q
  BY DEF P!IsQueue, P!Without
<1>3. /\ m.p_semAdd = [x \in PCB |-> IF x \in {} THEN Null ELSE m.p_semAdd[x]]
      /\ m.p_parent = [x \in PCB |-> IF x \in {} THEN Null ELSE m.p_parent[x]]
  BY <1>1 DEF Typed
<1>4. Cardinality({}) = 0 /\ {x \in {} : m.p_semAdd[x] = Clock} = {}
  BY FS_EmptySet
<1>5. m.processCount = m.processCount - 0 /\ m.softBlockCount = m.softBlockCount - 0
  BY <1>1 DEF Typed
<1>6. Killed(m, m, {})
  BY <1>1, <1>2, <1>3, <1>4, <1>5 DEF Killed
<1> QED
  BY <1>3, <1>6 DEF Gone

\* Whoever of a group is not in a queue does not matter to it.
LEMMA WithoutSame ==
  ASSUME NEW q, P!IsQueue(q), NEW A, NEW B, A \cap P!Elems(q) = B \cap P!Elems(q)
  PROVE  P!Without(q, A) = P!Without(q, B)
<1>1. \A x, y \in PCB : <<x, y>> \in q => x \in P!Elems(q) /\ y \in P!Elems(q)
  BY DEF P!IsQueue
<1>2. P!Without(q, A) \in SUBSET (PCB \X PCB) /\ P!Without(q, B) \in SUBSET (PCB \X PCB)
  BY DEF P!Without, P!IsQueue
<1>3. \A x, y \in PCB : <<x, y>> \in P!Without(q, A) <=> <<x, y>> \in P!Without(q, B)
  BY <1>1 DEF P!Without
<1> QED
  BY <1>2, <1>3, SamePairs

\* A kill, whatever the ready queue and the scheduler have done after it.
LEMMA KillNext ==
  ASSUME Kept, NEW D, D \subseteq LiveIn(mem), ClosedIn(mem, D),
         NEW m, Gone(mem, m, D), SameProcesses(m, mem'),
         mem'.softBlockCount = m.softBlockCount
  PROVE  /\ Good(mem') /\ FreeBare(mem') /\ NP!recursive_terminate(D)
         /\ mem'.next_pid = mem.next_pid
         /\ m.processCount = mem'.processCount
<1>1. /\ Fit(mem) /\ Good(mem) /\ FreeBare(mem) /\ D \subseteq PCB
      /\ Typed(mem) /\ Null \notin PCB /\ FreeIn(mem) \subseteq PCB
      /\ \A s \in Sem : P!IsQueue(QueueIn(mem, s))
  BY KeptFit, GoodLists, TableAssumption DEF Kept, LiveIn
<1>2. /\ Good(mem') /\ FreeIn(mem') = FreeIn(mem) \cup D
      /\ \A s \in Sem : QueueIn(mem', s) = P!Without(QueueIn(mem, s), D)
      /\ mem'.p_parent = [c \in PCB |-> IF c \in D THEN Null ELSE mem.p_parent[c]]
      /\ mem'.p_semAdd = [x \in PCB |-> IF x \in D THEN Null ELSE mem.p_semAdd[x]]
      /\ mem'.p_prio = mem.p_prio /\ mem'.p_pid = mem.p_pid
      /\ mem'.next_pid = mem.next_pid
      /\ mem'.processCount = mem.processCount - Cardinality(D)
      /\ mem'.processCount = m.processCount
      /\ mem'.softBlockCount = mem.softBlockCount
                                 - Cardinality({x \in D : mem.p_semAdd[x] = Clock})
  BY DEF SameProcesses, Gone, Killed
<1>3. FreeBare(mem')
  <2> SUFFICES ASSUME NEW p \in FreeIn(mem')
               PROVE  mem'.p_parent[p] = Null /\ \A x \in PCB : mem'.p_parent[x] # p
    BY DEF FreeBare
  <2>1. p \in PCB /\ p # Null /\ (p \in FreeIn(mem) \/ p \in D)
    BY <1>1, <1>2
  <2>2. mem'.p_parent[p] = Null
    BY <1>1, <1>2, <2>1 DEF FreeBare
  <2>3. ASSUME NEW x \in PCB, x \notin D PROVE mem.p_parent[x] # p
    <3>1. CASE p \in FreeIn(mem)
      BY <1>1, <3>1 DEF FreeBare
    <3>2. CASE p \in D /\ x \in LiveIn(mem)
      BY <2>3, <3>2 DEF ClosedIn
    <3>3. CASE x \in FreeIn(mem)
      BY <1>1, <2>1, <3>3 DEF FreeBare
    <3> QED
      BY <2>1, <3>1, <3>2, <3>3 DEF LiveIn
  <2>4. \A x \in PCB : mem'.p_parent[x] # p
    BY <1>2, <2>1, <2>3
  <2> QED
    BY <2>2, <2>4
<1>4. PidIn(mem') = [p \in PCB |-> IF p \in D THEN 0 ELSE PidIn(mem)[p]]
  BY <1>2 DEF PidIn
<1>5. PrioIn(mem') = [p \in PCB |-> IF p \in D THEN 0 ELSE PrioIn(mem)[p]]
  BY <1>2 DEF PrioIn
<1>6. [p \in PCB |-> FALSE] = [p \in PCB |-> p \notin D /\ [x \in PCB |-> FALSE][p]]
  OBVIOUS
<1>7. SemsIn(mem') = NP!outBlocked(D \ P!Elems(ReadyIn(mem)))
  <2> DEFINE K(s) == {p \in D \ P!Elems(ReadyIn(mem)) : mem.p_semAdd[p] = s}
  <2>1. ASSUME NEW s \in Sem PROVE P!Without(QueueIn(mem, s), D) = P!Without(QueueIn(mem, s), K(s))
    <3>1. D \cap P!Elems(QueueIn(mem, s)) = K(s) \cap P!Elems(QueueIn(mem, s))
      <4>1. \A p \in P!Elems(QueueIn(mem, s)) : mem.p_semAdd[p] = s /\ p \notin P!Elems(ReadyIn(mem))
        BY <1>1, GoodLists
      <4> QED
        BY <4>1
    <3> HIDE DEF K
    <3> QED
      BY <1>1, <3>1, WithoutSame
  <2>2. NP!outBlocked(D \ P!Elems(ReadyIn(mem)))
          = [s \in Sem |-> P!Without(QueueIn(mem, s), K(s))]
    BY MappedNow, SameOrders, SameSem DEF NP!outBlocked, SemsIn
  <2>3. SemsIn(mem') = [s \in Sem |-> P!Without(QueueIn(mem, s), D)]
    BY <1>2 DEF SemsIn
  <2> HIDE DEF K
  <2> QED
    BY <2>1, <2>2, <2>3
<1>8. NP!SoftBlockedIn(D) = {x \in D : mem.p_semAdd[x] = Clock}
  <2>1. \A x \in D : mem.p_semAdd[x] = Clock => x \notin P!Elems(ReadyIn(mem)) /\ x # mem.currProc
    BY <1>1, KeptPlaces, SemNat DEF Sem
  <2>2. NP!SoftBlockedIn(D) = {p \in D \ P!Elems(ReadyIn(mem)) :
                                 p # mem.currProc /\ mem.p_semAdd[p] = Clock}
    BY MappedNow, SameOrders, SameSem DEF NP!SoftBlockedIn
  <2> QED
    BY <2>1, <2>2
<1>9. /\ mem'.processCount = mem.processCount - NP!Cardinality(D)
      /\ mem'.softBlockCount = mem.softBlockCount - NP!Cardinality(NP!SoftBlockedIn(D))
  BY <1>2, <1>8, SameCardinality
<1>10. SemsIn(mem') = NP!outBlocked(D \ NP!Elems(ReadyIn(mem)))
  BY <1>7, SameOrders
<1>11. NP!recursive_terminate(D)
  BY <1>2, <1>4, <1>5, <1>6, <1>9, <1>10, MappedNow, MappedNext DEF NP!recursive_terminate
<1> QED
  BY <1>2, <1>3, <1>11

\* Who dies without a handler dies with its progeny.
LEMMA DieStep ==
  ASSUME Kept, Die
  PROVE  Good(mem') /\ FreeBare(mem') /\ NP!PassUpOrDie
<1> DEFINE t == mem.currProc
<1>d. PICK D : D = SubtreeIn(mem, t)
  OBVIOUS
<1>m. PICK m : m = recursive_terminate(mem, t)
  OBVIOUS
<1>1. /\ cpu = "run" /\ scheduler(m) /\ semVal' = semVal /\ Fit(mem) /\ t # Null
  BY <1>m, KeptFit, RunningProcess DEF Die, Running
<1>2. t \in LiveIn(mem)
  BY <1>1 DEF Fit
<1>3. Gone(mem, m, D)
  BY <1>d, <1>m, <1>1, <1>2, GoneSubtree
<1>4. D \subseteq LiveIn(mem) /\ ClosedIn(mem, D) /\ t \in D
  BY <1>d, <1>2, SubtreeInFacts
<1>5. D = NP!Subtree(t)
  BY <1>d, SameTree
<1>6. Good(m) /\ m.currProc = Null /\ ReadyIn(m) = P!Without(ReadyIn(mem), D)
  BY <1>3, <1>4 DEF Gone, Killed
<1>7. /\ SameProcesses(m, mem') /\ mem'.softBlockCount = m.softBlockCount
      /\ NP!scheduler(ReadyIn(m), m.processCount, m.softBlockCount)
  BY <1>1, <1>6, SchedulerStep
<1>8. /\ Good(mem') /\ FreeBare(mem') /\ NP!recursive_terminate(D)
      /\ mem'.next_pid = mem.next_pid /\ m.processCount = mem'.processCount
  BY <1>3, <1>4, <1>7, KillNext
<1>9. NP!scheduler(NP!Without(ReadyIn(mem), D), mem'.processCount, mem'.softBlockCount)
  BY <1>6, <1>7, <1>8, SameOrders
<1>10. NP!PassUpOrDie <=>
         /\ NP!Running
         /\ \/ FALSE
            \/ /\ NP!recursive_terminate(D)
               /\ NP!scheduler(NP!Without(ReadyIn(mem), D), mem'.processCount,
                               mem'.softBlockCount)
               /\ mem'.next_pid = mem.next_pid /\ semVal' = semVal
  <2>1. [p \in PCB |-> FALSE][t] = FALSE
    BY <1>2 DEF LiveIn
  <2> QED
    BY <2>1, <1>5, MappedNow DEF NP!PassUpOrDie, NP!recursive_terminate, NP!scheduler,
                                 NP!outBlocked, NP!SoftBlockedIn
<1> QED
  BY <1>1, <1>8, <1>9, <1>10 DEF NP!Running

\* Whom TERMPROCESS kills.
LEMMA DoomedGone ==
  ASSUME Kept, cpu = "run", NEW pid \in 0 .. MaxPid,
         NEW target, target = IF pid = 0 THEN mem.currProc ELSE find_pcb(mem, pid),
         NEW m, m = IF target = Null THEN mem ELSE recursive_terminate(mem, target)
  PROVE  Gone(mem, m, NP!Doomed(pid))
<1>1. Fit(mem) /\ mem.currProc # Null /\ mem.currProc \in LiveIn(mem) /\ Null \notin LiveIn(mem)
  BY KeptFit, RunningProcess, TableAssumption DEF Fit, LiveIn
<1>2. ASSUME NEW t \in LiveIn(mem), target = t, NP!Doomed(pid) = SubtreeIn(mem, t)
      PROVE  Gone(mem, m, NP!Doomed(pid))
  BY <1>1, <1>2, GoneSubtree
<1>3. CASE pid = 0
  <2>1. NP!Doomed(pid) = SubtreeIn(mem, mem.currProc)
    BY <1>3, SameTree DEF NP!Doomed
  <2> QED
    BY <1>1, <1>2, <1>3, <2>1
<1>4. CASE pid # 0
  <2>1. NP!Subtree(NP!Root(mem.currProc)) = LiveIn(mem)
    BY <1>1, SameTree, NP!RootAboveAll, NPAssumptions DEF Kept
  <2>2. NP!find_pcb(pid) = {q \in LiveIn(mem) : mem.p_pid[q] = pid}
    BY <2>1, MappedNow DEF NP!find_pcb, LiveIn, PidIn
  <2>3. NP!Doomed(pid) = UNION {SubtreeIn(mem, t) : t \in {q \in LiveIn(mem) : mem.p_pid[q] = pid}}
    BY <1>4, <2>2, SameTree DEF NP!Doomed
  <2>4. /\ Good(mem) /\ TreeIn(mem) /\ FreeBare(mem) /\ OnePid(mem)
    BY <1>1 DEF Fit
  <2>5. CASE \E t \in LiveIn(mem) : mem.p_pid[t] = pid
    <3>1. PICK t \in LiveIn(mem) : mem.p_pid[t] = pid
      BY <2>5
    <3>2. find_pcb(mem, pid) = t
      BY <1>1, <2>4, <3>1, FindPcb
    <3>3. {q \in LiveIn(mem) : mem.p_pid[q] = pid} = {t}
      BY <2>4, <3>1 DEF OnePid
    <3>4. NP!Doomed(pid) = SubtreeIn(mem, t)
      BY <2>3, <3>3
    <3> QED
      BY <1>2, <1>4, <3>2, <3>4
  <2>6. CASE \A t \in LiveIn(mem) : mem.p_pid[t] # pid
    <3>1. find_pcb(mem, pid) = Null
      BY <1>1, <2>4, <2>6, FindPcb
    <3>2. NP!Doomed(pid) = {}
      BY <2>3, <2>6
    <3>3. m = mem
      BY <1>4, <3>1
    <3> QED
      BY <2>4, <3>2, <3>3, GoneNobody
  <2> QED
    BY <2>5, <2>6
<1> QED
  BY <1>3, <1>4

\* Nobody runs.
LEMMA NobodyRuns ==
  ASSUME NEW a, Good(a), NEW r, r = [a EXCEPT !.currProc = Null]
  PROVE  /\ SameProcesses(a, r) /\ ReadyIn(r) = ReadyIn(a)
         /\ r.currProc = Null /\ r.softBlockCount = a.softBlockCount
<1>1. a.softBlockCount \in Int
  BY GoodLists DEF Typed
<1>2. Numbered(a, r, Null, a.softBlockCount)
  BY DEF Numbered
<1> QED
  BY <1>1, <1>2, NumbersSet

\* A caller that survives goes to the ready queue.
LEMMA SurvivorReady ==
  ASSUME Kept, cpu = "run", NEW D, D \subseteq LiveIn(mem),
         NEW m, Gone(mem, m, D), mem.currProc \notin D,
         NEW n, n = [insertProcQ(m, readyQueue, m.currProc) EXCEPT !.currProc = Null]
  PROVE  /\ SameProcesses(m, n) /\ n.softBlockCount = m.softBlockCount
         /\ n.currProc = Null
         /\ ReadyIn(n) = NP!insertProcQ(NP!Without(ReadyIn(mem), D), mem.currProc, PrioIn(mem))
<1> DEFINE p == mem.currProc
           a == insertProcQ(m, readyQueue, p)
<1>1. /\ Fit(mem) /\ p # Null /\ p \in LiveIn(mem) /\ Off(mem, p) /\ m.currProc = p
      /\ Good(m) /\ FreeIn(m) = FreeIn(mem) \cup D
      /\ ReadyIn(m) = P!Without(ReadyIn(mem), D)
      /\ \A s \in Sem : QueueIn(m, s) = P!Without(QueueIn(mem, s), D)
      /\ m.p_prio = mem.p_prio
  BY KeptFit, RunningProcess DEF Fit, Gone, Killed
<1>2. \A q : P!Elems(P!Without(q, D)) \subseteq P!Elems(q)
  BY DEF P!Elems, P!Without
<1>3. Off(m, p)
  BY <1>1, <1>2 DEF Off
<1>4. /\ Good(a) /\ SameData(m, a)
      /\ FreeIn(a) = FreeIn(m) /\ \A s \in Sem : QueueIn(a, s) = QueueIn(m, s)
      /\ ReadyIn(a) = P!insertProcQ(ReadyIn(m), p, m.p_prio)
  BY <1>1, <1>3, ReadyPut
<1>5. n = [a EXCEPT !.currProc = Null]
  BY <1>1
<1> HIDE DEF a
<1>12. Good(a)
  BY <1>4
<1>7. /\ SameProcesses(a, n) /\ ReadyIn(n) = ReadyIn(a)
      /\ n.currProc = Null /\ n.softBlockCount = a.softBlockCount
  BY <1>5, <1>12, NobodyRuns
<1>8. SameProcesses(m, n) /\ n.softBlockCount = m.softBlockCount
  BY <1>4, <1>7 DEF SameProcesses, SameData
<1>9. P!Elems(ReadyIn(m)) \subseteq LiveIn(mem)
  <2>1. P!Elems(ReadyIn(mem)) \subseteq LiveIn(mem)
    BY <1>1, GoodLists DEF LiveIn, Fit
  <2> QED
    BY <1>1, <1>2, <2>1
<1>10. ReadyIn(n) = NP!insertProcQ(ReadyIn(m), p, PrioIn(mem))
  BY <1>1, <1>4, <1>7, <1>9, LivePriorities
<1>11. ReadyIn(m) = NP!Without(ReadyIn(mem), D)
  BY <1>1, SameOrders
<1> QED
  BY <1>7, <1>8, <1>10, <1>11

\* TERMPROCESS of Nucleus, when D are the processes it kills.
LEMMA TerminateNext ==
  ASSUME NEW pid, NEW D, D = NP!Doomed(pid), NEW rq,
         rq = IF mem.currProc \in D THEN NP!Without(ReadyIn(mem), D)
              ELSE NP!insertProcQ(NP!Without(ReadyIn(mem), D), mem.currProc, PrioIn(mem)),
         cpu = "run", NP!recursive_terminate(D),
         NP!scheduler(rq, mem'.processCount, mem'.softBlockCount),
         mem'.next_pid = mem.next_pid, semVal' = semVal
  PROVE  NP!TerminateProcess(pid)
BY MappedNow DEF NP!TerminateProcess, NP!recursive_terminate, NP!scheduler, NP!outBlocked,
                 NP!SoftBlockedIn, NP!Running

\* TERMPROCESS kills whom Nucleus says, and a caller that survives is ready.
LEMMA TerminateProcessStep ==
  ASSUME Kept, NEW pid \in 0 .. MaxPid, TerminateProcess(pid)
  PROVE  Good(mem') /\ FreeBare(mem') /\ NP!TerminateProcess(pid)
<1>t. PICK target : target = IF pid = 0 THEN mem.currProc ELSE find_pcb(mem, pid)
  OBVIOUS
<1>m. PICK m : m = IF target = Null THEN mem ELSE recursive_terminate(mem, target)
  OBVIOUS
<1>n. PICK n : n = IF m.currProc = Null THEN m
                   ELSE [insertProcQ(m, readyQueue, m.currProc) EXCEPT !.currProc = Null]
  OBVIOUS
<1>d. PICK D : D = NP!Doomed(pid)
  OBVIOUS
<1>1. cpu = "run" /\ scheduler(n) /\ semVal' = semVal
  BY <1>t, <1>m, <1>n DEF TerminateProcess, Running
<1>2. Gone(mem, m, D)
  BY <1>1, <1>t, <1>m, <1>d, DoomedGone
<1>3. D \subseteq LiveIn(mem) /\ ClosedIn(mem, D)
  BY <1>d, NP!DoomedClosed, NPAssumptions, SameTree DEF ClosedIn, NP!ChildClosed
<1>4. m.currProc = (IF mem.currProc \in D THEN Null ELSE mem.currProc) /\ mem.currProc # Null
      /\ Good(m) /\ ReadyIn(m) = NP!Without(ReadyIn(mem), D)
  BY <1>1, <1>2, RunningProcess, SameOrders DEF Gone, Killed
<1>r. PICK rq : rq = IF mem.currProc \in D THEN NP!Without(ReadyIn(mem), D)
                     ELSE NP!insertProcQ(NP!Without(ReadyIn(mem), D), mem.currProc, PrioIn(mem))
  OBVIOUS
<1>5. /\ SameProcesses(m, n) /\ n.softBlockCount = m.softBlockCount
      /\ n.currProc = Null /\ ReadyIn(n) = rq
  <2>1. CASE mem.currProc \in D
    <3>1. n = m /\ m.currProc = Null
      BY <2>1, <1>4, <1>n
    <3> QED
      BY <2>1, <3>1, <1>4, <1>r DEF SameProcesses
  <2>2. CASE mem.currProc \notin D
    <3>1. n = [insertProcQ(m, readyQueue, m.currProc) EXCEPT !.currProc = Null]
      BY <2>2, <1>4, <1>n
    <3>2. rq = NP!insertProcQ(NP!Without(ReadyIn(mem), D), mem.currProc, PrioIn(mem))
      BY <2>2, <1>r
    <3> QED
      BY <2>2, <3>1, <3>2, <1>1, <1>2, <1>3, SurvivorReady
  <2> QED
    BY <2>1, <2>2
<1>6. /\ SameProcesses(n, mem') /\ mem'.softBlockCount = n.softBlockCount
      /\ NP!scheduler(ReadyIn(n), n.processCount, n.softBlockCount)
  BY <1>1, <1>5, SchedulerStep DEF SameProcesses
<1>7. /\ SameProcesses(m, mem') /\ mem'.softBlockCount = m.softBlockCount
      /\ n.processCount = m.processCount
  BY <1>5, <1>6 DEF SameProcesses
<1>8. /\ Good(mem') /\ FreeBare(mem') /\ NP!recursive_terminate(D)
      /\ mem'.next_pid = mem.next_pid /\ m.processCount = mem'.processCount
  BY <1>2, <1>3, <1>7, KillNext
<1>9. NP!scheduler(rq, mem'.processCount, mem'.softBlockCount)
  BY <1>5, <1>6, <1>7, <1>8
<1>10. NP!TerminateProcess(pid)
  BY <1>1, <1>d, <1>r, <1>8, <1>9, TerminateNext
<1> QED
  BY <1>8, <1>10

-----------------------------------------------------------------------------
(* The theorems *)

\* main establishes the invariant.
LEMMA KeptInit ==
  ASSUME Init
  PROVE  Kept /\ NP!Init
<1>1. Good(mem) /\ FreeBare(mem) /\ NP!Init
  BY InitStep
<1>2. NP!IInv /\ NP!SingleTree /\ NP!PidsDistinct
  BY <1>1, NP!InitInv, NP!TreeInit, NP!PidsInit, NPAssumptions
<1>3. NP!ReadySorted
  <2>1. ReadyIn(mem) = {}
    BY <1>1, MappedNow DEF NP!Init, NP!mkEmptyProcQ
  <2> QED
    BY <2>1, MappedNow DEF NP!ReadySorted, NP!IsSorted
<1> QED
  BY <1>1, <1>2, <1>3 DEF Kept

\* A step, with the lists as they are and as Nucleus has them.
LEMMA OneStep ==
  ASSUME Kept, [Next]_vars
  PROVE  Good(mem') /\ FreeBare(mem') /\ [NP!Next]_(NP!vars)
<1>1. ASSUME NEW prio \in Prio, CreateProcess(prio)
      PROVE  Good(mem') /\ FreeBare(mem') /\ NP!Next
  <2>1. Good(mem') /\ FreeBare(mem') /\ NP!CreateProcess(prio, FALSE)
    BY <1>1, CreateProcessStep
  <2>2. NP!SystemCall
    BY <2>1 DEF NP!SystemCall
  <2> QED
    BY <2>1, <2>2 DEF NP!Next
<1>2. ASSUME NEW pid \in 0 .. MaxPid, TerminateProcess(pid)
      PROVE  Good(mem') /\ FreeBare(mem') /\ NP!Next
  <2>1. Good(mem') /\ FreeBare(mem') /\ NP!TerminateProcess(pid)
    BY <1>2, TerminateProcessStep
  <2>2. NP!SystemCall
    BY <2>1 DEF NP!SystemCall
  <2> QED
    BY <2>1, <2>2 DEF NP!Next
<1>3. ASSUME Die PROVE Good(mem') /\ FreeBare(mem') /\ NP!Next
  BY <1>3, DieStep DEF NP!Next
<1>4. ASSUME NEW s \in UserSem, Passeren(s)
      PROVE  Good(mem') /\ FreeBare(mem') /\ NP!Next
  <2>1. Good(mem') /\ FreeBare(mem') /\ NP!Passeren(s)
    BY <1>4, PasserenStep
  <2>2. NP!SystemCall
    BY <2>1 DEF NP!SystemCall
  <2> QED
    BY <2>1, <2>2 DEF NP!Next
<1>5. ASSUME NEW s \in UserSem, Verhogen(s)
      PROVE  Good(mem') /\ FreeBare(mem') /\ NP!Next
  <2>1. Good(mem') /\ FreeBare(mem') /\ NP!Verhogen(s)
    BY <1>5, VerhogenStep
  <2>2. NP!SystemCall
    BY <2>1 DEF NP!SystemCall
  <2> QED
    BY <2>1, <2>2 DEF NP!Next
<1>6. ASSUME ClockWait PROVE Good(mem') /\ FreeBare(mem') /\ NP!Next
  BY <1>6, ClockWaitStep DEF NP!Next, NP!SystemCall
<1>7. ASSUME Requeue PROVE Good(mem') /\ FreeBare(mem') /\ NP!Next
  BY <1>7, RequeueStep DEF NP!Next, NP!PLTInterrupt
<1>8. ASSUME ITInterrupt PROVE Good(mem') /\ FreeBare(mem') /\ NP!Next
  BY <1>8, ITInterruptStep DEF NP!Next
<1>9. ASSUME UNCHANGED vars PROVE Good(mem') /\ FreeBare(mem') /\ UNCHANGED NP!vars
  BY <1>9, StoppedStep
<1> QED
  BY <1>1, <1>2, <1>3, <1>4, <1>5, <1>6, <1>7, <1>8, <1>9 DEF Next, Stopped

\* Every handler preserves it, and is a step of Nucleus.
LEMMA KeptStep ==
  ASSUME Kept, [Next]_vars
  PROVE  Kept' /\ [NP!Next]_(NP!vars)
<1>1. Good(mem') /\ FreeBare(mem') /\ [NP!Next]_(NP!vars)
  BY OneStep
<1>2. NP!IInv'
  BY <1>1, NP!NextInv, NPAssumptions DEF Kept
<1>3. NP!SingleTree'
  BY <1>1, NP!TreeInv, NPAssumptions DEF Kept
<1>4. NP!PidsDistinct'
  BY <1>1, NP!PidsInv, NPAssumptions DEF Kept
<1>5. NP!ReadySorted'
  BY <1>1, NP!SortedInv, NPAssumptions DEF Kept
<1> QED
  BY <1>1, <1>2, <1>3, <1>4, <1>5 DEF Kept

\* Between two handlers the lists are good and are what Nucleus says.
THEOREM KeptHolds == Spec => []Kept
<1>1. Init => Kept
  BY KeptInit
<1>2. Kept /\ [Next]_vars => Kept'
  BY KeptStep
<1> QED
  BY <1>1, <1>2, PTL DEF Spec

\* The active descriptors are the members of the ASL.
LEMMA ActiveFound ==
  ASSUME NEW Q, Shape(mem, Q)
  PROVE  Active = ActiveD(Q)
<1>1. \A d \in Semd : OnList(mem, s_link(d), semd_h) <=> s_link(d) \in O!Elems(Q[semd_h])
  BY OnListMember, NodeNames, HeadNames
<1> QED
  BY <1>1 DEF Active, ActiveD

\* A PCB that is on one list is on no other.
LEMMA OneList ==
  ASSUME NEW Q, Rep(mem, Q), NEW p \in PCB, NEW S, S \subseteq Heads, NEW h \in S,
         p_list(p) \in O!Elems(Q[h])
  PROVE  Cardinality({g \in S : OnList(mem, p_list(p), g)}) = 1
<1>1. Shape(mem, Q) /\ p_list(p) \in Node \ Heads
  BY NodeNames DEF Rep
<1>2. \A g \in S : OnList(mem, p_list(p), g) <=> p_list(p) \in O!Elems(Q[g])
  BY <1>1, OnListMember
<1>3. \A g \in S : g # h => p_list(p) \notin O!Elems(Q[g])
  BY <1>1, ListsApart
<1>4. {g \in S : OnList(mem, p_list(p), g)} = {h}
  BY <1>2, <1>3
<1> QED
  BY <1>4, FS_Singleton

\* The invariant implies that no list is broken.
LEMMA KeptLists ==
  ASSUME Kept PROVE ListsSound
<1>1. Fit(mem)
  BY KeptFit
<1>2. PICK Q : Rep(mem, Q)
  BY <1>1 DEF Fit, Good
<1>3. Shape(mem, Q) /\ Sound(mem) /\ AslKept(mem, Q) /\ TreeKept(mem, Q)
  BY <1>2 DEF Rep, Shape
<1>4. Mirrored(mem)
  BY <1>3, SoundMirrored
<1> DEFINE S == {pcbFree_h, readyQueue} \cup {procq(d) : d \in Active}
<1>5. S \subseteq Heads /\ Active = ActiveD(Q)
  BY <1>3, ActiveFound, HeadNames, NodeNames DEF Active
<1>6. ASSUME NEW p \in PCB
      PROVE  IF p = mem.currProc THEN {h \in S : OnList(mem, p_list(p), h)} = {}
             ELSE Cardinality({h \in S : OnList(mem, p_list(p), h)}) = 1
  <2>1. CASE p = mem.currProc
    <3>1. Off(mem, p)
      BY <1>1, <2>1, TableAssumption DEF Fit
    <3>2. Unlinked(Q, p_list(p))
      BY <1>2, <3>1, OffNodes
    <3>3. \A h \in S : ~OnList(mem, p_list(p), h)
      BY <1>3, <1>5, <3>2, OnListMember, NodeNames DEF Unlinked
    <3> QED
      BY <2>1, <3>3
  <2>2. ASSUME p # mem.currProc PROVE \E h \in S : p_list(p) \in O!Elems(Q[h])
    <3>1. CASE p \in FreeIn(mem)
      BY <1>3, <3>1, FreeFound
    <3>2. CASE p \notin FreeIn(mem)
      <4>1. Queued(mem, p)
        BY <1>1, <2>2, <3>2 DEF Fit, Placed, LiveIn
      <4>2. CASE p \in P!Elems(ReadyIn(mem))
        BY <1>3, <4>2, ReadyFound
      <4>3. CASE mem.p_semAdd[p] \in Sem /\ p \in P!Elems(QueueIn(mem, mem.p_semAdd[p]))
        <5>1. PICK d \in Semd : p_list(p) \in O!Elems(Q[procq(d)])
          BY <1>2, <4>3, QueueFound
        <5>2. d \in ActiveD(Q)
          BY <1>3, <5>1 DEF AslKept
        <5> QED
          BY <1>5, <5>1, <5>2
      <4> QED
        BY <4>1, <4>2, <4>3 DEF Queued
    <3> QED
      BY <3>1, <3>2
  <2>3. CASE p # mem.currProc
    <3> HIDE DEF S
    <3> QED
      BY <1>2, <1>5, <2>2, <2>3, OneList
  <2> QED
    BY <2>1, <2>3
<1>7. \A p, q \in PCB \ Free : OnList(mem, p_sib(p), p_child(q)) <=> mem.p_parent[p] = q
  <2>1. ASSUME NEW p \in PCB, NEW q \in PCB
        PROVE  OnList(mem, p_sib(p), p_child(q)) <=> p_sib(p) \in O!Elems(Q[p_child(q)])
    BY <1>3, OnListMember, NodeNames
  <2> QED
    BY <1>3, <2>1 DEF TreeKept
<1> QED
  BY <1>4, <1>6, <1>7 DEF ListsSound

\* The invariant implies that the ASL is exact.
LEMMA KeptAsl ==
  ASSUME Kept PROVE AslExact
<1>1. PICK Q : Rep(mem, Q)
  BY DEF Kept, Good
<1>2. /\ Shape(mem, Q) /\ AslKept(mem, Q) /\ Kinds(Q) /\ Active = ActiveD(Q)
      /\ semd_h \in Heads /\ semdFree_h \in Heads /\ semd_h # semdFree_h
  BY <1>1, ActiveFound, HeadNames DEF Rep
<1>3. ASSUME NEW d \in Active, NEW e \in Active, d # e,
             LoopEnd(mem, semd_h, {s_link(e)}, s_link(d)) = s_link(e)
      PROVE  mem.s_key[d] < mem.s_key[e]
  <2>1. s_link(d) \in O!Elems(Q[semd_h]) /\ s_link(e) \in O!Elems(Q[semd_h])
    BY <1>2 DEF ActiveD
  <2>2. <<s_link(d), s_link(e)>> \in Q[semd_h]
    BY <1>2, <1>3, <2>1, SearchFrom
  <2> QED
    BY <1>2, <1>3, <2>2 DEF AslKept
<1>4. ASSUME NEW d \in Semd PROVE d \in Active <=> ~OnList(mem, s_link(d), semdFree_h)
  <2>1. OnList(mem, s_link(d), semdFree_h) <=> s_link(d) \in O!Elems(Q[semdFree_h])
    BY <1>2, OnListMember, NodeNames
  <2>2. O!Elems(Q[semd_h]) \cap O!Elems(Q[semdFree_h]) = {}
    BY <1>2 DEF Shape
  <2> QED
    BY <1>2, <2>1, <2>2 DEF Kinds, ActiveD
<1>5. ASSUME NEW d \in Active PROVE ~emptyProcQ(mem, procq(d))
  <2>1. procq(d) \in Heads /\ O!Elems(Q[procq(d)]) # {}
    BY <1>2, NodeNames DEF AslKept, ActiveD
  <2>2. procq(d) \in Inited(mem)
    BY <1>2, <2>1, ShapeQueues
  <2> QED
    BY <1>2, <2>1, <2>2, EmptyList DEF emptyProcQ
<1> QED
  BY <1>3, <1>4, <1>5 DEF AslExact

\* No handler leaves a list broken: the links of pcb.c and asl.c are mirrored, a
\* PCB is on exactly one list by its p_list, and the children lists agree with
\* p_parent, for any number of processes, semaphores and priorities.
THEOREM ListsSoundHolds == Spec => []ListsSound
BY KeptHolds, KeptLists, PTL

\* The ASL is ordered by key, and holds a descriptor exactly while a process
\* waits on its semaphore: getSemd may stop early, insertBlocked never runs out.
THEOREM AslExactHolds == Spec => []AslExact
BY KeptHolds, KeptAsl, PTL

\* The property speaks of the same specification as the lemmas.
LEMMA SameState ==
  /\ N!Init <=> NP!Init
  /\ UNCHANGED N!vars <=> UNCHANGED NP!vars
  /\ UNCHANGED N!pcbVars <=> UNCHANGED NP!pcbVars
  /\ UNCHANGED N!countVars <=> UNCHANGED NP!countVars
<1>1. N!Init <=> NP!Init
  BY DEF N!Init, NP!Init, N!mkEmptyProcQ, NP!mkEmptyProcQ, N!Sem, NP!Sem,
         N!SubDevice, NP!SubDevice
<1>2. UNCHANGED N!vars <=> UNCHANGED NP!vars
  BY DEF N!vars, NP!vars, N!pcbVars, NP!pcbVars, N!countVars, NP!countVars
<1>3. UNCHANGED N!pcbVars <=> UNCHANGED NP!pcbVars
  BY DEF N!pcbVars, NP!pcbVars
<1>4. UNCHANGED N!countVars <=> UNCHANGED NP!countVars
  BY DEF N!countVars, NP!countVars
<1> QED
  BY <1>1, <1>2, <1>3, <1>4

\* Every operator of Nucleus is the same in both instances.
LEMMA SameNext == NP!Next => N!Next
<1> SUFFICES ASSUME NP!Next PROVE N!Next
  OBVIOUS
<1>1. ASSUME NEW prio \in Prio, NEW support \in BOOLEAN, NP!CreateProcess(prio, support) PROVE N!CreateProcess(prio, support)
  BY <1>1, ZenonT(60)
     DEF N!CreateProcess, NP!CreateProcess, N!allocPcb, NP!allocPcb,
         N!Running, NP!Running, N!pcbVars, NP!pcbVars, N!countVars,
         NP!countVars, N!vars, NP!vars, N!insertProcQ, NP!insertProcQ,
         N!Overtaken, NP!Overtaken, N!Elems, NP!Elems
<1>2. ASSUME NEW pid \in 0 .. MaxPid, NP!TerminateProcess(pid) PROVE N!TerminateProcess(pid)
  BY <1>2, ZenonT(60)
     DEF N!TerminateProcess, NP!TerminateProcess, N!Running,
         NP!Running, N!pcbVars, NP!pcbVars, N!countVars, NP!countVars,
         N!vars, NP!vars, N!Live, NP!Live, N!Subtree, NP!Subtree,
         N!Root, NP!Root, N!find_pcb, NP!find_pcb, N!Doomed, NP!Doomed,
         N!recursive_terminate, NP!recursive_terminate, N!outBlocked,
         NP!outBlocked, N!SoftBlockedIn, NP!SoftBlockedIn, N!SubDevice,
         NP!SubDevice, N!Sem, NP!Sem, N!Cardinality, NP!Cardinality,
         N!scheduler, NP!scheduler, N!headProcQ, NP!headProcQ,
         N!removeProcQ, NP!removeProcQ, N!outProcQ, NP!outProcQ,
         N!emptyProcQ, NP!emptyProcQ, N!Without, NP!Without, N!Elems,
         NP!Elems, N!insertProcQ, NP!insertProcQ, N!Overtaken,
         NP!Overtaken
<1>3. ASSUME NEW s \in UserSem, NP!Passeren(s) PROVE N!Passeren(s)
  BY <1>3, ZenonT(60)
     DEF N!Passeren, NP!Passeren, N!Running, NP!Running, N!pcbVars,
         NP!pcbVars, N!countVars, NP!countVars, N!vars, NP!vars,
         N!Block, NP!Block, N!insertBlocked, NP!insertBlocked,
         N!NoFreeSemd, NP!NoFreeSemd, N!ActiveSem, NP!ActiveSem,
         N!InsertTail, NP!InsertTail, N!scheduler, NP!scheduler,
         N!headProcQ, NP!headProcQ, N!removeProcQ, NP!removeProcQ,
         N!outProcQ, NP!outProcQ, N!emptyProcQ, NP!emptyProcQ,
         N!Without, NP!Without, N!Elems, NP!Elems, N!Sem, NP!Sem,
         N!SubDevice, NP!SubDevice, N!Cardinality, NP!Cardinality
<1>4. ASSUME NEW s \in UserSem, NP!Verhogen(s) PROVE N!Verhogen(s)
  BY <1>4, ZenonT(60)
     DEF N!Verhogen, NP!Verhogen, N!Wakes, NP!Wakes, N!headBlocked,
         NP!headBlocked, N!removeBlocked, NP!removeBlocked, N!Running,
         NP!Running, N!pcbVars, NP!pcbVars, N!countVars, NP!countVars,
         N!vars, NP!vars, N!headProcQ, NP!headProcQ, N!removeProcQ,
         NP!removeProcQ, N!outProcQ, NP!outProcQ, N!emptyProcQ,
         NP!emptyProcQ, N!Without, NP!Without, N!Elems, NP!Elems,
         N!insertProcQ, NP!insertProcQ, N!Overtaken, NP!Overtaken
<1>5. ASSUME NP!ClockWait PROVE N!ClockWait
  BY <1>5, ZenonT(60)
     DEF N!ClockWait, NP!ClockWait, N!Running, NP!Running, N!pcbVars,
         NP!pcbVars, N!countVars, NP!countVars, N!vars, NP!vars,
         N!Block, NP!Block, N!insertBlocked, NP!insertBlocked,
         N!NoFreeSemd, NP!NoFreeSemd, N!ActiveSem, NP!ActiveSem,
         N!InsertTail, NP!InsertTail, N!scheduler, NP!scheduler,
         N!headProcQ, NP!headProcQ, N!removeProcQ, NP!removeProcQ,
         N!outProcQ, NP!outProcQ, N!emptyProcQ, NP!emptyProcQ,
         N!Without, NP!Without, N!Elems, NP!Elems, N!Sem, NP!Sem,
         N!SubDevice, NP!SubDevice, N!Cardinality, NP!Cardinality
<1>6. ASSUME NP!Requeue PROVE N!Requeue
  BY <1>6, ZenonT(60)
     DEF N!Requeue, NP!Requeue, N!Running, NP!Running, N!pcbVars,
         NP!pcbVars, N!countVars, NP!countVars, N!vars, NP!vars,
         N!scheduler, NP!scheduler, N!headProcQ, NP!headProcQ,
         N!removeProcQ, NP!removeProcQ, N!outProcQ, NP!outProcQ,
         N!emptyProcQ, NP!emptyProcQ, N!Without, NP!Without, N!Elems,
         NP!Elems, N!insertProcQ, NP!insertProcQ, N!Overtaken,
         NP!Overtaken
<1>7. ASSUME NP!PassUpOrDie PROVE N!PassUpOrDie
  BY <1>7, ZenonT(60)
     DEF N!PassUpOrDie, NP!PassUpOrDie, N!Running, NP!Running,
         N!pcbVars, NP!pcbVars, N!countVars, NP!countVars, N!vars,
         NP!vars, N!Live, NP!Live, N!Subtree, NP!Subtree,
         N!recursive_terminate, NP!recursive_terminate, N!outBlocked,
         NP!outBlocked, N!SoftBlockedIn, NP!SoftBlockedIn, N!SubDevice,
         NP!SubDevice, N!Sem, NP!Sem, N!Cardinality, NP!Cardinality,
         N!scheduler, NP!scheduler, N!headProcQ, NP!headProcQ,
         N!removeProcQ, NP!removeProcQ, N!outProcQ, NP!outProcQ,
         N!emptyProcQ, NP!emptyProcQ, N!Without, NP!Without, N!Elems,
         NP!Elems
<1>8. ASSUME NP!ITInterrupt PROVE N!ITInterrupt
  BY <1>8, ZenonT(60)
     DEF N!Cardinality, NP!Cardinality, N!ITInterrupt, NP!ITInterrupt, N!InterruptsEnabled,
         NP!InterruptsEnabled, N!Woken, NP!Woken, N!InsertAll,
         NP!InsertAll, N!Resume, NP!Resume, N!Running, NP!Running,
         N!pcbVars, NP!pcbVars, N!countVars, NP!countVars, N!vars,
         NP!vars, N!scheduler, NP!scheduler, N!headProcQ, NP!headProcQ,
         N!removeProcQ, NP!removeProcQ, N!outProcQ, NP!outProcQ,
         N!emptyProcQ, NP!emptyProcQ, N!Without, NP!Without, N!Elems,
         NP!Elems
<1>9. ASSUME NP!Stopped PROVE N!Stopped
  BY <1>9
     DEF N!Stopped, NP!Stopped, N!vars, NP!vars, N!pcbVars, NP!pcbVars,
         N!countVars, NP!countVars
<1> QED
  BY <1>1, <1>2, <1>3, <1>4, <1>5, <1>6, <1>7, <1>8, <1>9
     DEF N!Next, NP!Next, N!SystemCall, NP!SystemCall, N!Yield, NP!Yield,
         N!PLTInterrupt, NP!PLTInterrupt

\* The nucleus on its linked lists, with its recursions over the process tree and
\* its loop over the clock queue, implements Nucleus: every handler does to the
\* orders and sets the lists stand for what the handler of Nucleus does.
THEOREM ImplementsNucleusHolds == Spec => ImplementsNucleus
<1>1. Init => N!Init
  BY KeptInit, SameState
<1>2. Kept /\ [Next]_vars => [N!Next]_(N!vars)
  <2> SUFFICES ASSUME Kept, [Next]_vars PROVE N!Next \/ UNCHANGED N!vars
    OBVIOUS
  <2>1. NP!Next \/ UNCHANGED NP!vars
    BY KeptStep
  <2> QED
    BY <2>1, SameNext, SameState
<1> QED
  BY <1>1, <1>2, KeptHolds, PTL DEF Spec, ImplementsNucleus
=============================================================================
