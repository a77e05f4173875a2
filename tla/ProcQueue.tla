----------------------------- MODULE ProcQueue -----------------------------
(***************************************************************************)
(* The process queues of phase1/pcb.c.  A queue of PCBs (the ready queue,  *)
(* or the s_procq of a semaphore descriptor) is the relation "x stands at  *)
(* or before y": a set of pairs that is a linear order of its members.     *)
(* The circular list of the C code is this order written with pointers;    *)
(* positions are not observable, who stands before whom is.                *)
(***************************************************************************)
EXTENDS Naturals

CONSTANT PCB        \* the table pcbFree_table, MAXPROC process control blocks

\* The members of a queue.
Elems(q) == {x \in PCB : <<x, x>> \in q}

\* What a value has to be to stand for a queue: an order of its members in
\* which every group of members has a first one.
IsQueue(q) ==
  /\ q \in SUBSET (PCB \X PCB)
  /\ \A x, y \in PCB : <<x, y>> \in q => x \in Elems(q) /\ y \in Elems(q)
  /\ \A x, y \in PCB : <<x, y>> \in q /\ <<y, x>> \in q => x = y
  /\ \A x, y, z \in PCB : <<x, y>> \in q /\ <<y, z>> \in q => <<x, z>> \in q
  /\ \A S \in SUBSET Elems(q) :
       S # {} => \E h \in S : \A x \in S : <<h, x>> \in q

\* No process stands before one of a higher priority.
IsSorted(q, prio) == \A x, y \in PCB : <<x, y>> \in q => prio[x] >= prio[y]

mkEmptyProcQ == {}

emptyProcQ(q) == Elems(q) = {}

headProcQ(q) == CHOOSE h \in Elems(q) : \A x \in Elems(q) : <<h, x>> \in q

\* The queue without the members of D; what outProcQ does for one process.
Without(q, D) == q \cap ((PCB \ D) \X (PCB \ D))

outProcQ(q, p) == Without(q, {p})

removeProcQ(q) == outProcQ(q, headProcQ(q))

\* list_add_tail on the head of a queue.
InsertTail(q, p) == q \cup {<<x, p>> : x \in Elems(q) \cup {p}}

\* Mutant: p is linked before the first member of its own priority or less.
OvertakenEqual(q, p, prio) ==
  {y \in Elems(q) : \E x \in Elems(q) : prio[p] >= prio[x] /\ <<x, y>> \in q}

\* insertProcQ walks the list to the first member of a lower priority and
\* links p before it: that member and all those behind it end up behind p.
Overtaken(q, p, prio) ==
  {y \in Elems(q) : \E x \in Elems(q) : prio[p] > prio[x] /\ <<x, y>> \in q}

insertProcQ(q, p, prio) ==
  LET behind == Overtaken(q, p, prio)
  IN  q \cup {<<x, p>> : x \in (Elems(q) \ behind) \cup {p}}
        \cup {<<p, y>> : y \in behind}

\* Mutant: the members of w go to the tail, whatever their priority.
InsertAllTail(q, w, prio) == q \cup w \cup (Elems(q) \X Elems(w))

\* The members of w inserted in q one after the other, head of w first, as
\* the loop of ITInterrupt does; q is sorted by priority.
InsertAll(q, w, prio) ==
  LET all == Elems(q) \cup Elems(w)
      First(x, y) == \/ prio[x] > prio[y]
                     \/ /\ prio[x] = prio[y]
                        /\ \/ <<x, y>> \in q \cup w
                           \/ x \in Elems(q) /\ y \in Elems(w)
  IN  {xy \in all \X all : First(xy[1], xy[2])}
=============================================================================
