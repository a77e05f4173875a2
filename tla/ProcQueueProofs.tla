-------------------------- MODULE ProcQueueProofs --------------------------
(***************************************************************************)
(* What the operations on process queues do to their members, and that     *)
(* they turn a queue into a queue; that insertProcQ keeps a queue sorted;  *)
(* and that waking everybody who waits for the clock is waking the first   *)
(* and then the others.                                                    *)
(***************************************************************************)
EXTENDS ProcQueue, FiniteSetTheorems, WellFoundedInduction, TLAPS

\* The empty queue.
LEMMA EmptyIsQueue == IsQueue({}) /\ Elems({}) = {}
BY DEF IsQueue, Elems

\* Every group of members has a first one.
LEMMA FirstOfGroup ==
  ASSUME NEW q, IsQueue(q), NEW S, S \subseteq Elems(q), S # {}
  PROVE  \E h \in S : \A x \in S : <<h, x>> \in q
BY DEF IsQueue

\* Of two members one stands before the other.
LEMMA Total ==
  ASSUME NEW q, IsQueue(q), NEW x \in Elems(q), NEW y \in Elems(q)
  PROVE  <<x, y>> \in q \/ <<y, x>> \in q
<1>1. {x, y} \subseteq Elems(q) /\ {x, y} # {}
  OBVIOUS
<1>2. PICK h \in {x, y} : \A z \in {x, y} : <<h, z>> \in q
  BY <1>1, FirstOfGroup
<1> QED
  BY <1>2

\* A queue has a first member, the one headProcQ returns.
LEMMA HeadFirst ==
  ASSUME NEW q, IsQueue(q), Elems(q) # {}
  PROVE  /\ headProcQ(q) \in Elems(q)
         /\ \A x \in Elems(q) : <<headProcQ(q), x>> \in q
<1>1. \E h \in Elems(q) : \A x \in Elems(q) : <<h, x>> \in q
  BY DEF IsQueue
<1> QED
  BY <1>1 DEF headProcQ

\* What is left when some members leave.
LEMMA WithoutQueue ==
  ASSUME NEW q, NEW D, IsQueue(q)
  PROVE  IsQueue(Without(q, D)) /\ Elems(Without(q, D)) = Elems(q) \ D
<1>1. Elems(Without(q, D)) = Elems(q) \ D
  BY DEF Elems, Without
<1>2. \A x, y \in PCB :
        <<x, y>> \in Without(q, D) <=> <<x, y>> \in q /\ x \notin D /\ y \notin D
  BY DEF Without
<1>3. \A S \in SUBSET Elems(Without(q, D)) :
        S # {} => \E h \in S : \A x \in S : <<h, x>> \in Without(q, D)
  <2> SUFFICES ASSUME NEW S \in SUBSET Elems(Without(q, D)), S # {}
               PROVE  \E h \in S : \A x \in S : <<h, x>> \in Without(q, D)
    OBVIOUS
  <2>1. S \in SUBSET Elems(q) /\ S \cap D = {} /\ S \subseteq PCB
    BY <1>1 DEF Elems
  <2>2. PICK h \in S : \A x \in S : <<h, x>> \in q
    BY <2>1 DEF IsQueue
  <2> QED
    BY <1>2, <2>1, <2>2
<1>4. Without(q, D) \in SUBSET (PCB \X PCB)
  BY DEF Without
<1>5. /\ \A x, y \in PCB : <<x, y>> \in Without(q, D) =>
           x \in Elems(Without(q, D)) /\ y \in Elems(Without(q, D))
      /\ \A x, y \in PCB :
           <<x, y>> \in Without(q, D) /\ <<y, x>> \in Without(q, D) => x = y
      /\ \A x, y, z \in PCB :
           <<x, y>> \in Without(q, D) /\ <<y, z>> \in Without(q, D)
             => <<x, z>> \in Without(q, D)
  BY <1>1, <1>2 DEF IsQueue
<1> QED
  BY <1>1, <1>3, <1>4, <1>5 DEF IsQueue

\* The members of a queue between which a newcomer is linked, some ahead of it
\* and some behind: what InsertTail and insertProcQ have in common.
LEMMA InsertionQueue ==
  ASSUME NEW q, IsQueue(q), NEW p \in PCB \ Elems(q),
         NEW behind \in SUBSET Elems(q),
         \A x, y \in Elems(q) : x \in behind /\ <<x, y>> \in q => y \in behind,
         NEW r,
         r = q \cup {<<x, p>> : x \in (Elems(q) \ behind) \cup {p}}
               \cup {<<p, y>> : y \in behind}
  PROVE  IsQueue(r) /\ Elems(r) = Elems(q) \cup {p}
<1> DEFINE ahead == Elems(q) \ behind
<1>0. Elems(q) \subseteq PCB
  BY DEF Elems
<1>1. \A x, y \in PCB : <<x, y>> \in r <=>
        \/ <<x, y>> \in q
        \/ y = p /\ x \in ahead \cup {p}
        \/ x = p /\ y \in behind
  BY r = q \cup {<<x, p>> : x \in (Elems(q) \ behind) \cup {p}}
           \cup {<<p, y>> : y \in behind}
<1>2. Elems(r) = Elems(q) \cup {p}
  <2>1. \A x \in PCB : <<x, x>> \in r <=> <<x, x>> \in q \/ x = p
    BY <1>1
  <2>2. p \in PCB
    OBVIOUS
  <2> QED
    BY <2>1, <2>2 DEF Elems
<1>3. r \in SUBSET (PCB \X PCB)
  BY <1>0, r = q \cup {<<x, p>> : x \in (Elems(q) \ behind) \cup {p}}
                 \cup {<<p, y>> : y \in behind} DEF IsQueue
<1>4. \A x, y \in PCB : <<x, y>> \in q => x \in Elems(q) /\ y \in Elems(q)
  BY DEF IsQueue
<1>5. \A x \in ahead, y \in behind : <<x, y>> \in q
  BY Total
<1>6. \A x, y \in PCB : <<x, y>> \in r => x \in Elems(r) /\ y \in Elems(r)
  BY <1>1, <1>2, <1>4
<1>7. \A x, y \in PCB : <<x, y>> \in r /\ <<y, x>> \in r => x = y
  BY <1>0, <1>1, <1>4 DEF IsQueue
<1>8. \A x, y, z \in PCB :
        <<x, y>> \in r /\ <<y, z>> \in r => <<x, z>> \in r
  <2> SUFFICES ASSUME NEW x \in PCB, NEW y \in PCB, NEW z \in PCB,
                      <<x, y>> \in r, <<y, z>> \in r
               PROVE  <<x, z>> \in r
    OBVIOUS
  <2>1. CASE <<x, y>> \in q /\ <<y, z>> \in q
    BY <1>1, <2>1 DEF IsQueue
  <2>2. CASE <<x, y>> \in q /\ <<y, z>> \notin q
    BY <1>0, <1>1, <1>4, <2>2
  <2>3. CASE <<x, y>> \notin q /\ <<y, z>> \in q
    BY <1>0, <1>1, <1>4, <1>5, <2>3
  <2>4. CASE <<x, y>> \notin q /\ <<y, z>> \notin q
    BY <1>0, <1>1, <1>5, <2>4
  <2> QED
    BY <2>1, <2>2, <2>3, <2>4
<1>9. \A S \in SUBSET Elems(r) :
        S # {} => \E h \in S : \A x \in S : <<h, x>> \in r
  <2> SUFFICES ASSUME NEW S \in SUBSET Elems(r), S # {}
               PROVE  \E h \in S : \A x \in S : <<h, x>> \in r
    OBVIOUS
  <2>0. S \subseteq PCB
    BY <1>0, <1>2
  <2>1. CASE S \cap Elems(q) = {}
    BY <1>1, <1>2, <2>1
  <2>2. CASE S \cap Elems(q) # {}
    <3> DEFINE T == S \cap Elems(q)
    <3>1. PICK h \in T : \A x \in T : <<h, x>> \in q
      BY <2>2, FirstOfGroup
    <3>2. CASE p \notin S \/ h \in ahead
      BY <1>1, <1>2, <2>0, <3>1, <3>2
    <3>3. CASE p \in S /\ h \in behind
      <4>1. \A x \in S \cap Elems(q) : x \in behind
        BY <3>1, <3>3
      <4> QED
        BY <1>1, <1>2, <2>0, <3>3, <4>1
    <3> QED
      BY <3>2, <3>3
  <2> QED
    BY <2>1, <2>2
<1> QED
  BY <1>2, <1>3, <1>6, <1>7, <1>8, <1>9 DEF IsQueue

\* list_add_tail adds its argument, and nobody else.
LEMMA InsertTailQueue ==
  ASSUME NEW q, IsQueue(q), NEW p \in PCB \ Elems(q)
  PROVE  IsQueue(InsertTail(q, p)) /\ Elems(InsertTail(q, p)) = Elems(q) \cup {p}
<1> DEFINE behind == {}
<1>1. InsertTail(q, p) = q \cup {<<x, p>> : x \in (Elems(q) \ behind) \cup {p}}
                           \cup {<<p, y>> : y \in behind}
  BY DEF InsertTail
<1>2. behind \in SUBSET Elems(q)
  OBVIOUS
<1>3. \A x, y \in Elems(q) : x \in behind /\ <<x, y>> \in q => y \in behind
  OBVIOUS
<1> HIDE DEF behind
<1> QED
  BY <1>1, <1>2, <1>3, InsertionQueue

\* insertProcQ adds its argument, and nobody else.
LEMMA InsertProcQueue ==
  ASSUME NEW q, IsQueue(q), NEW p \in PCB \ Elems(q), NEW prio
  PROVE  /\ IsQueue(insertProcQ(q, p, prio))
         /\ Elems(insertProcQ(q, p, prio)) = Elems(q) \cup {p}
<1> DEFINE behind == Overtaken(q, p, prio)
<1>1. behind \in SUBSET Elems(q)
  BY DEF Overtaken
<1>2. \A x, y \in Elems(q) : x \in behind /\ <<x, y>> \in q => y \in behind
  <2> SUFFICES ASSUME NEW x \in Elems(q), NEW y \in Elems(q),
                      x \in behind, <<x, y>> \in q
               PROVE  y \in behind
    OBVIOUS
  <2>1. PICK z \in Elems(q) : prio[p] > prio[z] /\ <<z, x>> \in q
    BY DEF Overtaken
  <2>2. <<z, y>> \in q
    BY <2>1 DEF IsQueue, Elems
  <2> QED
    BY <2>1, <2>2 DEF Overtaken
<1>3. insertProcQ(q, p, prio)
        = q \cup {<<x, p>> : x \in (Elems(q) \ behind) \cup {p}}
            \cup {<<p, y>> : y \in behind}
  BY DEF insertProcQ
<1> HIDE DEF behind
<1> QED
  BY <1>1, <1>2, <1>3, InsertionQueue

\* insertProcQ keeps a sorted queue sorted.
LEMMA InsertProcSorted ==
  ASSUME NEW q, IsQueue(q), NEW p \in PCB \ Elems(q),
         NEW prio \in [PCB -> Nat], IsSorted(q, prio)
  PROVE  IsSorted(insertProcQ(q, p, prio), prio)
<1> SUFFICES ASSUME NEW x \in PCB, NEW y \in PCB,
                    <<x, y>> \in insertProcQ(q, p, prio)
             PROVE  prio[x] >= prio[y]
  BY DEF IsSorted
<1>1. \/ <<x, y>> \in q
      \/ y = p /\ x \in (Elems(q) \ Overtaken(q, p, prio)) \cup {p}
      \/ x = p /\ y \in Overtaken(q, p, prio)
  BY DEF insertProcQ
<1>2. CASE <<x, y>> \in q
  BY <1>2 DEF IsSorted
<1>3. CASE y = p /\ x \in (Elems(q) \ Overtaken(q, p, prio)) \cup {p}
  <2>1. x = p \/ ~(prio[p] > prio[x])
    BY <1>3 DEF Overtaken, Elems
  <2> QED
    BY <1>3, <2>1
<1>4. CASE x = p /\ y \in Overtaken(q, p, prio)
  <2>1. PICK z \in Elems(q) : prio[p] > prio[z] /\ <<z, y>> \in q
    BY <1>4 DEF Overtaken
  <2>2. z \in PCB /\ prio[z] >= prio[y]
    BY <2>1 DEF IsSorted, Elems
  <2> QED
    BY <1>4, <2>1, <2>2
<1> QED
  BY <1>1, <1>2, <1>3, <1>4

\* A sorted queue stays sorted when members leave.
LEMMA WithoutSorted ==
  ASSUME NEW q, NEW D, NEW prio, IsSorted(q, prio)
  PROVE  IsSorted(Without(q, D), prio)
BY DEF IsSorted, Without

\* A finite group of processes has one of the highest priority.
LEMMA HasMax ==
  ASSUME IsFiniteSet(PCB), NEW prio \in [PCB -> Nat],
         NEW S \in SUBSET PCB, S # {}
  PROVE  \E m \in S : \A x \in S : prio[m] >= prio[x]
<1> DEFINE Top(T) == \E m \in T : \A x \in T : prio[m] >= prio[x]
           Bad == {T \in SUBSET PCB : T # {} /\ ~Top(T)}
<1> SUFFICES ASSUME Bad # {} PROVE FALSE
  OBVIOUS
<1>1. Bad \subseteq FiniteSubsetsOf(PCB)
  BY FS_FiniteSubsetsOfFinite
<1>2. PICK T \in Bad : \A U \in Bad : <<U, T>> \notin StrictSubsetOrdering(PCB)
  <2>1. IsWellFoundedOn(StrictSubsetOrdering(PCB), FiniteSubsetsOf(PCB))
    BY FS_StrictSubsetOrderingWellFounded
  <2> HIDE DEF Bad
  <2> QED
    BY <1>1, <2>1, WFMin
<1>3. PICK t \in T : TRUE
  BY <1>2
<1> DEFINE U == T \ {t}
<1>4. U # {}
  BY <1>2, <1>3
<1>5. U \notin Bad
  BY <1>2, <1>3 DEF StrictSubsetOrdering
<1>6. PICK m \in U : \A x \in U : prio[m] >= prio[x]
  BY <1>2, <1>4, <1>5
<1>7. prio[m] \in Nat /\ prio[t] \in Nat /\ \A x \in T : prio[x] \in Nat
  BY <1>2, <1>3
<1>8. CASE prio[m] >= prio[t]
  BY <1>2, <1>6, <1>8
<1>9. CASE prio[t] >= prio[m]
  <2>1. \A x \in T : prio[t] >= prio[x]
    BY <1>6, <1>7, <1>9
  <2> QED
    BY <1>2, <1>3, <2>1
<1> QED
  BY <1>7, <1>8, <1>9

\* A tick of the clock adds everybody who waited, and nobody else, and leaves
\* the queue sorted.
LEMMA InsertAllQueue ==
  ASSUME IsFiniteSet(PCB), NEW q, IsQueue(q), NEW w, IsQueue(w),
         Elems(q) \cap Elems(w) = {}, NEW prio \in [PCB -> Nat]
  PROVE  /\ IsQueue(InsertAll(q, w, prio))
         /\ Elems(InsertAll(q, w, prio)) = Elems(q) \cup Elems(w)
         /\ IsSorted(InsertAll(q, w, prio), prio)
<1> DEFINE all == Elems(q) \cup Elems(w)
           r == InsertAll(q, w, prio)
<1>0. all \subseteq PCB /\ \A x \in PCB : prio[x] \in Nat
  BY DEF Elems
<1>a. /\ \A x, y \in PCB : <<x, y>> \in q => x \in Elems(q) /\ y \in Elems(q)
      /\ \A x, y \in PCB : <<x, y>> \in w => x \in Elems(w) /\ y \in Elems(w)
  BY DEF IsQueue
<1>1. \A x, y : <<x, y>> \in r <=>
        /\ x \in all /\ y \in all
        /\ \/ prio[x] > prio[y]
           \/ /\ prio[x] = prio[y]
              /\ \/ <<x, y>> \in q \/ <<x, y>> \in w
                 \/ x \in Elems(q) /\ y \in Elems(w)
  BY DEF InsertAll
<1>2. Elems(r) = all
  <2>1. \A x \in all : <<x, x>> \in q \/ <<x, x>> \in w
    BY DEF Elems
  <2>2. \A x \in all : <<x, x>> \in r
    BY <1>0, <1>1, <2>1
  <2> QED
    BY <1>0, <1>1, <2>2 DEF Elems
<1>3. r \in SUBSET (PCB \X PCB)
  BY <1>0 DEF InsertAll
<1>4. \A x, y \in PCB : <<x, y>> \in r => x \in Elems(r) /\ y \in Elems(r)
  BY <1>1, <1>2
<1>5. \A x, y \in PCB : <<x, y>> \in r /\ <<y, x>> \in r => x = y
  <2> SUFFICES ASSUME NEW x \in PCB, NEW y \in PCB,
                      <<x, y>> \in r, <<y, x>> \in r
               PROVE  x = y
    OBVIOUS
  <2>1. prio[x] = prio[y]
    BY <1>0, <1>1
  <2>2. /\ <<x, y>> \in q \/ <<x, y>> \in w \/ (x \in Elems(q) /\ y \in Elems(w))
        /\ <<y, x>> \in q \/ <<y, x>> \in w \/ (y \in Elems(q) /\ x \in Elems(w))
    BY <1>0, <1>1, <2>1
  <2>3. (<<x, y>> \in q /\ <<y, x>> \in q) \/ (<<x, y>> \in w /\ <<y, x>> \in w)
    BY <1>a, <2>2
  <2> QED
    BY <2>3 DEF IsQueue
<1>6. \A x, y, z \in PCB : <<x, y>> \in r /\ <<y, z>> \in r => <<x, z>> \in r
  <2> SUFFICES ASSUME NEW x \in PCB, NEW y \in PCB, NEW z \in PCB,
                      <<x, y>> \in r, <<y, z>> \in r
               PROVE  <<x, z>> \in r
    OBVIOUS
  <2>1. x \in all /\ z \in all /\ prio[x] >= prio[y] /\ prio[y] >= prio[z]
    BY <1>0, <1>1
  <2>2. CASE prio[x] > prio[z]
    BY <1>1, <2>1, <2>2
  <2>3. CASE prio[x] = prio[z]
    <3>1. prio[x] = prio[y] /\ prio[y] = prio[z]
      BY <1>0, <2>1, <2>3
    <3>2. /\ <<x, y>> \in q \/ <<x, y>> \in w \/ (x \in Elems(q) /\ y \in Elems(w))
          /\ <<y, z>> \in q \/ <<y, z>> \in w \/ (y \in Elems(q) /\ z \in Elems(w))
      BY <1>0, <1>1, <3>1
    <3>3. <<x, z>> \in q \/ <<x, z>> \in w \/ (x \in Elems(q) /\ z \in Elems(w))
      <4>1. CASE <<x, y>> \in q /\ <<y, z>> \in q
        BY <4>1 DEF IsQueue
      <4>2. CASE <<x, y>> \in w /\ <<y, z>> \in w
        BY <4>2 DEF IsQueue
      <4> QED
        BY <1>a, <3>2, <4>1, <4>2
    <3> QED
      BY <1>1, <2>1, <2>3, <3>3
  <2> QED
    BY <1>0, <2>1, <2>2, <2>3
<1>7. \A S \in SUBSET Elems(r) :
        S # {} => \E h \in S : \A x \in S : <<h, x>> \in r
  <2> SUFFICES ASSUME NEW S \in SUBSET Elems(r), S # {}
               PROVE  \E h \in S : \A x \in S : <<h, x>> \in r
    OBVIOUS
  <2>1. S \in SUBSET PCB /\ S \subseteq all
    BY <1>0, <1>2
  <2>2. PICK m \in S : \A x \in S : prio[m] >= prio[x]
    BY <2>1, HasMax
  <2> DEFINE T == {x \in S : prio[x] = prio[m]}
  <2>3. CASE T \cap Elems(q) # {}
    <3> DEFINE Q == T \cap Elems(q)
    <3>0. Q \subseteq Elems(q) /\ Q # {}
      BY <2>3
    <3>1. PICK h \in Q : \A x \in Q : <<h, x>> \in q
      <4> HIDE DEF Q
      <4> QED
        BY <3>0, FirstOfGroup
    <3>2. \A x \in S : <<h, x>> \in r
      <4> SUFFICES ASSUME NEW x \in S PROVE <<h, x>> \in r
        OBVIOUS
      <4>1. prio[h] > prio[x] \/ x \in T
        BY <1>0, <2>1, <2>2
      <4> QED
        BY <1>1, <2>1, <3>1, <4>1
    <3> QED
      BY <3>2
  <2>4. CASE T \cap Elems(q) = {}
    <3>1. T \subseteq Elems(w) /\ T # {}
      BY <2>1, <2>2, <2>4
    <3>2. PICK h \in T : \A x \in T : <<h, x>> \in w
      BY <3>1, FirstOfGroup
    <3>3. \A x \in S : <<h, x>> \in r
      <4> SUFFICES ASSUME NEW x \in S PROVE <<h, x>> \in r
        OBVIOUS
      <4>1. prio[h] > prio[x] \/ x \in T
        BY <1>0, <2>1, <2>2
      <4> QED
        BY <1>1, <2>1, <3>2, <4>1
    <3> QED
      BY <3>3
  <2> QED
    BY <2>3, <2>4
<1>8. IsSorted(r, prio)
  BY <1>0, <1>1 DEF IsSorted
<1> QED
  BY <1>2, <1>3, <1>4, <1>5, <1>6, <1>7, <1>8 DEF IsQueue

\* Who stands before whom after the insertions.
LEMMA InsertAllPairs ==
  ASSUME NEW q, NEW w, NEW prio, NEW x, NEW y
  PROVE  <<x, y>> \in InsertAll(q, w, prio) <=>
           /\ x \in Elems(q) \cup Elems(w) /\ y \in Elems(q) \cup Elems(w)
           /\ \/ prio[x] > prio[y]
              \/ /\ prio[x] = prio[y]
                 /\ \/ <<x, y>> \in q \/ <<x, y>> \in w
                    \/ x \in Elems(q) /\ y \in Elems(w)
BY DEF InsertAll

\* InsertAll makes a set of pairs.
LEMMA InsertAllType ==
  ASSUME NEW q, NEW w, NEW prio
  PROVE  InsertAll(q, w, prio) \in SUBSET (PCB \X PCB)
BY DEF InsertAll, Elems

\* Nothing happens to a sorted queue when nobody waits.
LEMMA InsertNobody ==
  ASSUME NEW q, IsQueue(q), NEW w, IsQueue(w), Elems(w) = {},
         NEW prio \in [PCB -> Nat], IsSorted(q, prio)
  PROVE  InsertAll(q, w, prio) = q
<1>1. \A x, y \in PCB : <<x, y>> \notin w
  BY DEF IsQueue
<1>2. \A x, y \in PCB : <<x, y>> \in q <=> <<x, y>> \in InsertAll(q, w, prio)
  <2> SUFFICES ASSUME NEW x \in PCB, NEW y \in PCB
               PROVE  <<x, y>> \in q <=> <<x, y>> \in InsertAll(q, w, prio)
    OBVIOUS
  <2>1. ASSUME <<x, y>> \in q PROVE <<x, y>> \in InsertAll(q, w, prio)
    <3>1. x \in Elems(q) /\ y \in Elems(q) /\ prio[x] >= prio[y]
      BY <2>1 DEF IsQueue, IsSorted
    <3>2. prio[x] > prio[y] \/ prio[x] = prio[y]
      BY <3>1
    <3> QED
      BY <2>1, <3>1, <3>2, InsertAllPairs
  <2>2. ASSUME <<x, y>> \in InsertAll(q, w, prio) PROVE <<x, y>> \in q
    <3>1. /\ x \in Elems(q) /\ y \in Elems(q)
          /\ prio[x] > prio[y] \/ <<x, y>> \in q
      BY <1>1, <2>2, InsertAllPairs
    <3>2. CASE prio[x] > prio[y]
      <4>1. ~(prio[y] >= prio[x])
        BY <3>2
      <4>2. <<y, x>> \notin q
        BY <4>1 DEF IsSorted
      <4> QED
        BY <3>1, <4>2, Total
    <3> QED
      BY <3>1, <3>2
  <2> QED
    BY <2>1, <2>2
<1>3. q \in SUBSET (PCB \X PCB) /\ InsertAll(q, w, prio) \in SUBSET (PCB \X PCB)
  BY InsertAllType DEF IsQueue
<1> QED
  BY <1>2, <1>3

\* Inserting the first of those who wait, and then the others, is inserting all.
LEMMA InsertFirst ==
  ASSUME NEW q, IsQueue(q), NEW w, IsQueue(w), NEW prio \in [PCB -> Nat],
         IsSorted(q, prio), Elems(w) \cap Elems(q) = {},
         NEW h \in Elems(w), \A x \in Elems(w) : <<h, x>> \in w
  PROVE  InsertAll(insertProcQ(q, h, prio), Without(w, {h}), prio)
           = InsertAll(q, w, prio)
<1> DEFINE r == insertProcQ(q, h, prio)
           v == Without(w, {h})
           ahead == Elems(q) \ Overtaken(q, h, prio)
<1>0. h \in PCB \ Elems(q) /\ Elems(q) \subseteq PCB /\ Elems(w) \subseteq PCB
  BY DEF Elems
<1>1. IsQueue(r) /\ Elems(r) = Elems(q) \cup {h} /\ IsSorted(r, prio)
  BY <1>0, InsertProcQueue, InsertProcSorted
<1>2. IsQueue(v) /\ Elems(v) = Elems(w) \ {h}
  BY WithoutQueue
<1>3. \A x, y \in PCB : <<x, y>> \in v <=> <<x, y>> \in w /\ x # h /\ y # h
  BY DEF Without
<1>4. \A x, y \in PCB : <<x, y>> \in r <=>
        \/ <<x, y>> \in q
        \/ y = h /\ x \in ahead \cup {h}
        \/ x = h /\ y \in Overtaken(q, h, prio)
  BY DEF insertProcQ
<1>5. \A x \in Elems(q) : x \in Overtaken(q, h, prio) <=> prio[h] > prio[x]
  <2> SUFFICES ASSUME NEW x \in Elems(q)
               PROVE  x \in Overtaken(q, h, prio) <=> prio[h] > prio[x]
    OBVIOUS
  <2>1. <<x, x>> \in q
    BY DEF Elems
  <2>2. ASSUME NEW z \in Elems(q), prio[h] > prio[z], <<z, x>> \in q
        PROVE  prio[h] > prio[x]
    <3>1. prio[z] >= prio[x] /\ prio[z] \in Nat /\ prio[x] \in Nat /\ prio[h] \in Nat
      BY <1>0, <2>2 DEF IsSorted
    <3> QED
      BY <2>2, <3>1
  <2> QED
    BY <2>1, <2>2 DEF Overtaken
<1>6. \A x, y \in PCB :
        /\ <<x, y>> \in q => x \in Elems(q) /\ y \in Elems(q)
        /\ <<x, y>> \in w => x \in Elems(w) /\ y \in Elems(w)
  BY DEF IsQueue
<1> HIDE DEF r, v
<1>7. ASSUME NEW x \in PCB, NEW y \in PCB
      PROVE  <<x, y>> \in InsertAll(r, v, prio) <=> <<x, y>> \in InsertAll(q, w, prio)
  <2>0. prio[x] \in Nat /\ prio[y] \in Nat /\ prio[h] \in Nat
    BY <1>0
  <2>1. Elems(r) \cup Elems(v) = Elems(q) \cup Elems(w)
    BY <1>1, <1>2
  <2> SUFFICES ASSUME x \in Elems(q) \cup Elems(w), y \in Elems(q) \cup Elems(w),
                      prio[x] = prio[y]
               PROVE  (\/ <<x, y>> \in r \/ <<x, y>> \in v
                       \/ x \in Elems(r) /\ y \in Elems(v))
                      <=> (\/ <<x, y>> \in q \/ <<x, y>> \in w
                           \/ x \in Elems(q) /\ y \in Elems(w))
    BY <2>0, <2>1, InsertAllPairs
  <2>2. CASE x # h /\ y # h
    BY <1>1, <1>2, <1>3, <1>4, <2>2
  <2>3. CASE x = h /\ y = h
    BY <1>4, <1>6, <2>3
  <2>4. CASE x = h /\ y # h
    <3>1. <<x, y>> \in r <=> y \in Elems(q) /\ prio[h] > prio[y]
      BY <1>0, <1>4, <1>5, <1>6, <2>4 DEF Overtaken
    <3>2. ~(prio[h] > prio[y])
      BY <2>0, <2>4
    <3>3. <<x, y>> \notin v /\ <<x, y>> \notin q /\ x \notin Elems(q)
      BY <1>0, <1>3, <1>6, <2>4
    <3>4. <<x, y>> \in w <=> y \in Elems(w)
      BY <1>6, <2>4
    <3>5. x \in Elems(r) /\ (y \in Elems(v) <=> y \in Elems(w))
      BY <1>1, <1>2, <2>4
    <3> QED
      BY <3>1, <3>2, <3>3, <3>4, <3>5
  <2>5. CASE x # h /\ y = h
    <3>1. y \notin Elems(v) /\ <<x, y>> \notin v /\ <<x, y>> \notin q /\ y \in Elems(w)
      BY <1>0, <1>2, <1>3, <1>6, <2>5
    <3>2. <<x, y>> \in r <=> x \in Elems(q) /\ ~(prio[h] > prio[x])
      BY <1>0, <1>4, <1>5, <2>5, <3>1
    <3>3. ~(prio[h] > prio[x])
      BY <2>0, <2>5
    <3>4. <<x, y>> \notin w
      <4>1. ASSUME <<x, h>> \in w PROVE FALSE
        <5>1. x \in Elems(w) /\ <<h, x>> \in w
          BY <1>0, <1>6, <4>1
        <5> QED
          BY <1>0, <2>5, <4>1, <5>1 DEF IsQueue
      <4> QED
        BY <2>5, <4>1
    <3> QED
      BY <3>1, <3>2, <3>3, <3>4
  <2> QED
    BY <2>2, <2>3, <2>4, <2>5
<1>8. InsertAll(r, v, prio) = InsertAll(q, w, prio)
  <2>1. /\ InsertAll(r, v, prio) \in SUBSET (PCB \X PCB)
        /\ InsertAll(q, w, prio) \in SUBSET (PCB \X PCB)
    BY InsertAllType
  <2> QED
    BY <1>7, <2>1
<1> QED
  BY <1>8 DEF r, v
=============================================================================
