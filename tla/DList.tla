------------------------------- MODULE DList -------------------------------
(***************************************************************************)
(* headers/listx.h: circular doubly linked lists.  A list head and the     *)
(* element of a list are the same thing, a struct list_head, here a node.  *)
(* A memory is a record; of its fields the operators below read and write  *)
(* next and prev, functions from nodes to nodes (or NoNode).  Every function *)
(* of the C code is an operator from memory to memory.                     *)
(***************************************************************************)
EXTENDS Naturals, Sequences, FiniteSets

CONSTANTS
  Node,   \* every struct list_head of the program
  NoNode  \* the null pointer, as a link

INIT_LIST_HEAD(m, list) == [m EXCEPT !.next[list] = list, !.prev[list] = list]

\* __list_add: new is linked between prev and next.
LinkBetween(m, new, prev, next) ==
  [m EXCEPT !.prev[next] = new, !.next[new] = next,
            !.prev[new] = prev, !.next[prev] = new]

list_add(m, new, head) == LinkBetween(m, new, head, m.next[head])

list_add_tail(m, new, head) == LinkBetween(m, new, m.prev[head], head)

\* __list_del: what stands between prev and next is cut out.
CutBetween(m, prev, next) == [m EXCEPT !.prev[next] = prev, !.next[prev] = next]

list_del(m, entry) ==
  INIT_LIST_HEAD(CutBetween(m, m.prev[entry], m.next[entry]), entry)

list_empty(m, head) == m.next[head] = head

list_next(m, current) ==
  IF list_empty(m, current) THEN NoNode ELSE m.next[current]

\* Where a loop over the list of head ends that has come to the node start: at
\* the first node of S, where its body leaves it, or back at the head.  (No
\* node of a list has a null link.)
LoopEnd(m, head, S, start) ==
  LET from[n \in Node \cup {NoNode}] ==
        IF n \in S \cup {head, NoNode} THEN n ELSE from[m.next[n]]
  IN  from[start]

list_for_each(m, head, S) == LoopEnd(m, head, S, m.next[head])

OnList(m, node, head) == list_for_each(m, head, {node}) = node

\* Every initialised node is pointed back to from both sides.
Mirrored(m) ==
  \A n \in Node : m.next[n] # NoNode =>
    m.prev[m.next[n]] = n /\ m.next[m.prev[n]] = n
=============================================================================
