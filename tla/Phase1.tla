------------------------------- MODULE Phase1 -------------------------------
(***************************************************************************)
(* phase1/pcb.c and phase1/asl.c with their pointers: the free list of the *)
(* PCBs, the process queues, the children lists of the process tree, and   *)
(* the active semaphore list (ASL) with its descriptors.                   *)
(*                                                                         *)
(* A memory m is a record of the C globals: the links next and prev of     *)
(* DList, the fields of the PCBs, s_key of the descriptors, next_pid.      *)
(* Where a C function changes the memory and returns a PCB there are two   *)
(* operators: one for the memory, one for the PCB.                         *)
(***************************************************************************)
EXTENDS Integers, Sequences, FiniteSets

CONSTANTS
  PCB,    \* pcbFree_table
  Semd,   \* semd_table
  Null    \* the C null pointer, also as the address of a semaphore

(* The nodes, written <<field, owner>>.  The links of the table entries and *)
(* the four heads that are variables of their own.                          *)
p_list(p)   == <<"p_list", p>>
p_child(p)  == <<"p_child", p>>
p_sib(p)    == <<"p_sib", p>>
procq(d)    == <<"s_procq", d>>
s_link(d)   == <<"s_link", d>>
pcbFree_h   == <<"pcbFree_h", Null>>
readyQueue  == <<"readyQueue", Null>>
semdFree_h  == <<"semdFree_h", Null>>
semd_h      == <<"semd_h", Null>>

Node == ({"p_list", "p_child", "p_sib"} \X PCB) \cup
        ({"s_procq", "s_link"} \X Semd) \cup
        {pcbFree_h, readyQueue, semdFree_h, semd_h}

NoNode == <<>>   \* the null pointer, as a link

INSTANCE DList

container_of(node) == node[2]

-----------------------------------------------------------------------------
(* pcb.c: the free list *)

\* The table entries are pushed one after the other on the empty list.
initPcbs(m, pcbFree_table) ==
  LET after[i \in 0 .. Len(pcbFree_table)] ==
        IF i = 0 THEN INIT_LIST_HEAD(m, pcbFree_h)
        ELSE list_add(after[i - 1], p_list(pcbFree_table[i]), pcbFree_h)
  IN  after[Len(pcbFree_table)]

freePcb(m, p) == list_add(m, p_list(p), pcbFree_h)

\* The PCB allocPcb returns.
allocated(m) ==
  IF list_empty(m, pcbFree_h) THEN Null ELSE container_of(m.next[pcbFree_h])

\* It leaves the free list, its links and its fields are reset, and it gets a
\* pid that no process had before.  (p_time and p_s: module ProcState.)
allocPcb(m) ==
  LET p == allocated(m)
      m1 == list_del(m, p_list(p))
      m2 == INIT_LIST_HEAD(INIT_LIST_HEAD(m1, p_child(p)), p_sib(p))
  IN  [m2 EXCEPT !.p_parent[p] = Null, !.p_semAdd[p] = Null, !.p_prio[p] = 0,
                 !.p_pid[p] = m.next_pid, !.next_pid = @ + 1]

-----------------------------------------------------------------------------
(* pcb.c: the process queues *)

mkEmptyProcQ(m, head) == INIT_LIST_HEAD(m, head)

emptyProcQ(m, head) == list_empty(m, head)

\* p is linked before the first member of a lower priority, or at the tail.
insertProcQ(m, head, p) ==
  LET lower == {p_list(x) : x \in {y \in PCB : m.p_prio[p] > m.p_prio[y]}}
  IN  list_add_tail(m, p_list(p), list_for_each(m, head, lower))

headProcQ(m, head) ==
  IF emptyProcQ(m, head) THEN Null ELSE container_of(m.next[head])

removeProcQ(m, head) == list_del(m, m.next[head])

\* Whether outProcQ finds p in the queue; it unlinks p only then.
inProcQ(m, head, p) == OnList(m, p_list(p), head)

outProcQ(m, head, p) ==
  IF inProcQ(m, head, p) THEN list_del(m, p_list(p)) ELSE m

-----------------------------------------------------------------------------
(* pcb.c: the process tree *)

emptyChild(m, p) == list_empty(m, p_child(p))

\* The child removeChild returns.
firstChild(m, p) == container_of(m.next[p_child(p)])

insertChild(m, prnt, p) ==
  IF m.p_parent[p] # Null THEN m
  ELSE list_add_tail([m EXCEPT !.p_parent[p] = prnt], p_sib(p), p_child(prnt))

removeChild(m, p) ==
  [list_del(m, m.next[p_child(p)]) EXCEPT !.p_parent[firstChild(m, p)] = Null]

outChild(m, p) ==
  IF m.p_parent[p] = Null THEN m
  ELSE [list_del(m, p_sib(p)) EXCEPT !.p_parent[p] = Null]

-----------------------------------------------------------------------------
(* asl.c *)

initASL(m, semd_table) ==
  LET after[i \in 0 .. Len(semd_table)] ==
        IF i = 0 THEN INIT_LIST_HEAD(INIT_LIST_HEAD(m, semdFree_h), semd_h)
        ELSE list_add(after[i - 1], s_link(semd_table[i]), semdFree_h)
  IN  after[Len(semd_table)]

\* The loop over the ASL stops at the first key that is not smaller.
getSemd(m, key) ==
  LET stop == list_for_each(m, semd_h,
                {s_link(x) : x \in {d \in Semd : m.s_key[d] >= key}})
  IN  IF stop = semd_h \/ m.s_key[container_of(stop)] # key
      THEN Null ELSE container_of(stop)

\* Mutant: the descriptor is linked at the tail of the ASL.
ActivateTail(m, key) ==
  LET d  == container_of(m.next[semdFree_h])
      m1 == INIT_LIST_HEAD([list_del(m, s_link(d)) EXCEPT !.s_key[d] = key],
                           procq(d))
  IN  list_add_tail(m1, s_link(d), semd_h)

\* The first free descriptor is linked in the ASL before the first larger key.
Activate(m, key) ==
  LET d  == container_of(m.next[semdFree_h])
      m1 == INIT_LIST_HEAD([list_del(m, s_link(d)) EXCEPT !.s_key[d] = key],
                           procq(d))
      larger == {s_link(x) : x \in {y \in Semd : m1.s_key[y] > key}}
  IN  list_add_tail(m1, s_link(d), list_for_each(m1, semd_h, larger))

\* When there is neither a descriptor nor a free one nothing changes.
insertBlocked(m, semAdd, p) ==
  IF getSemd(m, semAdd) = Null /\ list_empty(m, semdFree_h) THEN m
  ELSE LET new == getSemd(m, semAdd) = Null
           d   == IF new THEN container_of(m.next[semdFree_h])
                  ELSE getSemd(m, semAdd)
           m1  == IF new THEN Activate(m, semAdd) ELSE m
       IN  list_add_tail([m1 EXCEPT !.p_semAdd[p] = semAdd],
                         p_list(p), procq(d))

\* p leaves the queue of descriptor d; an empty descriptor is released, at the
\* tail of the free ones.
Unblock(m, d, p) ==
  LET m1 == list_del(m, p_list(p))
  IN  IF ~emptyProcQ(m1, procq(d)) THEN m1
      ELSE list_add_tail(list_del(m1, s_link(d)), s_link(d), semdFree_h)

headBlocked(m, semAdd) ==
  LET d == getSemd(m, semAdd)
  IN  IF d = Null \/ list_next(m, procq(d)) = NoNode THEN Null
      ELSE container_of(list_next(m, procq(d)))

removeBlocked(m, semAdd) ==
  IF headBlocked(m, semAdd) = Null THEN m
  ELSE Unblock(m, getSemd(m, semAdd), headBlocked(m, semAdd))

\* Whether outBlocked returns p: it has looked for a descriptor of p_semAdd,
\* and unlinks p from whatever list p is in.
isBlocked(m, p) == getSemd(m, m.p_semAdd[p]) # Null

outBlocked(m, p) ==
  IF ~isBlocked(m, p) THEN m
  ELSE [Unblock(m, getSemd(m, m.p_semAdd[p]), p) EXCEPT !.p_semAdd[p] = Null]
=============================================================================
