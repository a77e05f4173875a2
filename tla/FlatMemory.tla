----------------------------- MODULE FlatMemory -----------------------------
(***************************************************************************)
(* What the pager promises: each program that lives has an address space   *)
(* of its own, in which a load finds what was last stored there, and the   *)
(* pages of the program text are never stored to.  There are no frames, no *)
(* TLB and no page faults here.                                            *)
(***************************************************************************)
CONSTANTS Asid, Page, Text, Val

VARIABLES
  mem,      \* program that lives -> page -> its contents
  loaded    \* the last value loaded

vars == <<mem, loaded>>

Init == /\ \E A \in SUBSET Asid : mem \in [A -> [Page -> Val]]
        /\ loaded \in Val

Load(a, p) == loaded' = mem[a][p] /\ UNCHANGED mem

Store(a, p, v) ==
  /\ p \notin Text
  /\ mem' = [mem EXCEPT ![a][p] = v]
  /\ UNCHANGED loaded

\* A program starts with what its backing store holds.
Start(a) ==
  /\ a \notin DOMAIN mem
  /\ \E image \in [Page -> Val] :
       mem' = [b \in DOMAIN mem \cup {a} |-> IF b = a THEN image ELSE mem[b]]
  /\ UNCHANGED loaded

\* Its address space goes with it; those of the others stay as they are.
End(A) ==
  /\ mem' = [b \in DOMAIN mem \ A |-> mem[b]]
  /\ UNCHANGED loaded

Next ==
  \/ \E a \in DOMAIN mem, p \in Page :
       Load(a, p) \/ \E v \in Val : Store(a, p, v)
  \/ \E a \in Asid : Start(a)
  \/ \E A \in SUBSET DOMAIN mem : End(A)

Spec == Init /\ [][Next]_vars
=============================================================================
