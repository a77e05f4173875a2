------------------------- MODULE AddressSpaceProofs -------------------------
(* The refill handler and the pager agree on the page a number stands for,  *)
(* whatever the size of the page table and where the stack is.              *)
EXTENDS AddressSpace, TLAPS

\* The numbers in the page table are those of the address space, each one once,
\* and both handlers go back from them to the index.
LEMMA EntryVpnFacts ==
  ASSUME NEW i \in Index
  PROVE  /\ EntryVpn(i) \in Space
         /\ RefillIndex(EntryVpn(i)) = i
         /\ PagerIndex(EntryVpn(i)) = i
  BY SizeAssumption DEF Index, EntryVpn, Space, RefillIndex, PagerIndex

\* For every page number: the pager refuses exactly what is outside the address
\* space; inside it, the two handlers compute the same index.
THEOREM IndexAgreement ==
  ASSUME NEW v \in Nat
  PROVE  /\ PagerIndex(v) = -1 <=> v \notin Space
         /\ v \in Space => /\ RefillIndex(v) = PagerIndex(v)
                           /\ RefillIndex(v) \in Index
                           /\ EntryVpn(RefillIndex(v)) = v
  BY SizeAssumption DEF Index, EntryVpn, Space, RefillIndex, PagerIndex

\* An index the refill handler accepts, of a page number that is not refused.
LEMMA OutsideIndex ==
  ASSUME NEW v \in Nat, v >= FirstVpn, RefillIndex(v) \notin Index
  PROVE  PagerIndex(v) = -1
  BY SizeAssumption DEF Index, RefillIndex, PagerIndex

IInv == TypeOK /\ SamePage /\ SpaceSurvives

LEMMA InitInv == Init => IInv
  BY SizeAssumption DEF Init, IInv, TypeOK, SamePage, SpaceSurvives

LEMMA VpnFacts ==
  ASSUME TypeOK
  PROVE  vpn \in Nat /\ vpn >= FirstVpn
  BY SizeAssumption, VpnAssumption DEF TypeOK

\* A copy of the entry that the pager fills for v may be put under v.
LEMMA TLBWRInv ==
  ASSUME IInv, NEW v \in Vpn \cup {EntryVpn(i) : i \in Index},
         TLBWR(v, PagerIndex(v)), PagerIndex(v) \in Index \cup {-1},
         UNCHANGED <<mode, vpn, present>>
  PROVE  IInv'
<1> DEFINE e == PagerIndex(v)
<1>1. PICK lost \in {{}} \cup {{w} : w \in DOMAIN tlb} :
        /\ tlb' = [w \in (DOMAIN tlb \ lost) \cup {v} |-> IF w = v THEN e ELSE tlb[w]]
        /\ tlbValid' = (tlbValid \ (lost \cup {v}))
                         \cup (IF e \in present THEN {v} ELSE {})
  BY DEF TLBWR
<1>2. /\ DOMAIN tlb' = (DOMAIN tlb \ lost) \cup {v}
      /\ \A w \in DOMAIN tlb' : tlb'[w] = IF w = v THEN e ELSE tlb[w]
  BY <1>1
<1>3. TypeOK'
  BY <1>1, <1>2 DEF IInv, TypeOK
<1>4. SamePage'
  BY <1>1, <1>2 DEF IInv, TypeOK, SamePage
<1> QED
  BY <1>3, <1>4 DEF IInv, SpaceSurvives

LEMMA RefillInv ==
  ASSUME IInv, uTLB_RefillHandler
  PROVE  IInv'
<1> DEFINE p == RefillIndex(vpn)
<1>1. UNCHANGED <<mode, vpn, present>>
  BY DEF uTLB_RefillHandler
<1>2. CASE p \notin Index
  <2>1. TLBWR(vpn, -1) /\ PagerIndex(vpn) = -1
    BY <1>2, VpnFacts, OutsideIndex DEF IInv, uTLB_RefillHandler
  <2>2. vpn \in Vpn \cup {EntryVpn(i) : i \in Index}
    <3>1. StackVpn = EntryVpn(MAXPAGES - 1) /\ MAXPAGES - 1 \in Index
      BY SizeAssumption DEF EntryVpn, Index
    <3> QED
      BY <3>1 DEF IInv, TypeOK
  <2> QED
    BY <1>1, <2>1, <2>2, TLBWRInv
<1>3. CASE p \in Index
  <2>1. TLBWR(EntryVpn(p), p) /\ PagerIndex(EntryVpn(p)) = p
    BY <1>3, EntryVpnFacts DEF uTLB_RefillHandler
  <2> QED
    BY <1>1, <1>3, <2>1, TLBWRInv
<1> QED
  BY <1>2, <1>3

LEMMA PagerInv ==
  ASSUME IInv, Pager
  PROVE  IInv'
<1> DEFINE p == PagerIndex(vpn)
<1>1. CASE p = -1
  <2>1. vpn \notin Space
    BY <1>1, VpnFacts, IndexAgreement DEF IInv
  <2>2. mode' = "dead" /\ UNCHANGED <<vpn, present, tlb, tlbValid>>
    BY <1>1 DEF Pager
  <2> QED
    BY <2>1, <2>2 DEF IInv, TypeOK, SamePage, SpaceSurvives
<1>2. CASE p # -1
  <2>1. PICK gone \in {{}} \cup {{i} : i \in present \ {p}} :
          present' = (present \ gone) \cup {p} /\ tlbValid' = Updated(gone, p)
    BY <1>2 DEF Pager
  <2>2. p \in Index /\ p \notin gone
    BY <1>2, <2>1, VpnFacts, IndexAgreement DEF IInv
  <2>3. UNCHANGED <<mode, vpn, tlb>>
    BY <1>2 DEF Pager
  <2>4. TypeOK'
    BY <2>1, <2>2, <2>3 DEF IInv, TypeOK, Updated
  <2>5. SamePage'
    BY <2>1, <2>2, <2>3 DEF IInv, SamePage, Updated
  <2> QED
    BY <2>3, <2>4, <2>5 DEF IInv, SpaceSurvives
<1> QED
  BY <1>1, <1>2

LEMMA NextInv == IInv /\ [Next]_vars => IInv'
<1> SUFFICES ASSUME IInv, [Next]_vars PROVE IInv'
  OBVIOUS
<1> USE DEF IInv, TypeOK, SamePage, SpaceSurvives
<1>1. ASSUME NEW v \in Vpn, Access(v) PROVE IInv'
  BY <1>1 DEF Access
<1>2. CASE Hit
  BY <1>2 DEF Hit
<1>3. CASE UNCHANGED vars
  BY <1>3 DEF vars
<1> QED
  BY <1>1, <1>2, <1>3, RefillInv, PagerInv DEF Next, Dead

\* The invariant of the address space holds.
THEOREM Inductive == Spec => []IInv
  BY InitInv, NextInv, PTL DEF Spec

\* Type correctness.
THEOREM TypeOKHolds == Spec => []TypeOK
<1>1. IInv => TypeOK
  BY DEF IInv
<1> QED
  BY <1>1, Inductive, PTL

\* What the TLB holds under a page number is the entry that the pager fills for
\* it, with its present valid bit.
THEOREM SamePageHolds == Spec => []SamePage
<1>1. IInv => SamePage
  BY DEF IInv
<1> QED
  BY <1>1, Inductive, PTL

\* A program that stays in its address space is never killed for a page of it.
THEOREM SpaceSurvivesHolds == Spec => []SpaceSurvives
<1>1. IInv => SpaceSurvives
  BY DEF IInv
<1> QED
  BY <1>1, Inductive, PTL
=============================================================================
