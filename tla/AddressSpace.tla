----------------------------- MODULE AddressSpace -----------------------------
(***************************************************************************)
(* From the page number of an address to an entry of the page table: the   *)
(* TLB refill handler (nucleus) and the pager (support level) compute it   *)
(* each on its own.  One program and its accesses to memory; the page is   *)
(* found, or brought in, or the program dies.                              *)
(***************************************************************************)
EXTENDS Integers

CONSTANTS
  Vpn,         \* the page numbers that the program uses
  FirstVpn,    \* 0x80000, the first page of text and data
  StackVpn,    \* 0xBFFFF, the page of the stack
  MAXPAGES     \* entries of a page table; the last one is the stack's

ASSUME SizeAssumption == /\ FirstVpn \in Nat /\ StackVpn \in Nat
                         /\ MAXPAGES \in Nat \ {0}
                         /\ FirstVpn + MAXPAGES <= StackVpn
\* Below KUSEG the hardware refuses the access.
ASSUME VpnAssumption == Vpn \subseteq {v \in Nat : v >= FirstVpn}

Index == 0 .. MAXPAGES - 1

VARIABLES
  mode,        \* "run", "access" (at page vpn), "dead"
  vpn,
  present,     \* the indices of the pages in memory (valid bit of the entry)
  tlb,         \* page number in the TLB -> the index of the entry it is a copy
               \* of (-1: entryLO 0)
  tlbValid     \* those whose valid bit is on in the TLB

vars == <<mode, vpn, present, tlb, tlbValid>>

\* Mutant: the stack is an ordinary page of the table.
EntryVpnPlain(i) == FirstVpn + i

\* sup_privatePgTbl[i].pte_entryHI
EntryVpn(i) == IF i = MAXPAGES - 1 THEN StackVpn ELSE FirstVpn + i

Init ==
  /\ mode = "run" /\ vpn = StackVpn
  /\ present = {} /\ tlb = [v \in {} |-> 0] /\ tlbValid = {}

Access(v) ==
  /\ mode = "run"
  /\ mode' = "access" /\ vpn' = v
  /\ UNCHANGED <<present, tlb, tlbValid>>

Hit ==
  /\ mode = "access" /\ vpn \in tlbValid
  /\ mode' = "run"
  /\ UNCHANGED <<vpn, present, tlb, tlbValid>>

\* Mutant: the stack has no case of its own.
RefillIndexPlain(v) == v - FirstVpn

RefillIndex(v) == IF v = StackVpn THEN MAXPAGES - 1 ELSE v - FirstVpn

\* A copy of entry i under the number v, in the place of another one or not.
TLBWR(v, i) ==
  \E lost \in {{}} \cup {{w} : w \in DOMAIN tlb} :
    /\ tlb' = [w \in (DOMAIN tlb \ lost) \cup {v} |-> IF w = v THEN i ELSE tlb[w]]
    /\ tlbValid' = (tlbValid \ (lost \cup {v}))
                     \cup (IF i \in present THEN {v} ELSE {})

\* Out of range: an entry that is not valid, under the missing page number.
\* Else the page table's, under the number that stands there.
uTLB_RefillHandler ==
  LET p == RefillIndex(vpn) IN
  /\ mode = "access" /\ vpn \notin DOMAIN tlb
  /\ \/ p \notin Index /\ TLBWR(vpn, -1)
     \/ p \in Index /\ TLBWR(EntryVpn(p), p)
  /\ UNCHANGED <<mode, vpn, present>>

\* Mutants: no upper bound; the last page of data left out.
PagerIndexUnbounded(v) ==
  CASE v = StackVpn -> MAXPAGES - 1
    [] FirstVpn <= v /\ v # StackVpn -> v - FirstVpn
    [] OTHER -> -1
PagerIndexShort(v) ==
  CASE v = StackVpn -> MAXPAGES - 1
    [] FirstVpn <= v /\ v < FirstVpn + MAXPAGES - 2 -> v - FirstVpn
    [] OTHER -> -1

PagerIndex(v) ==
  CASE v = StackVpn -> MAXPAGES - 1
    [] FirstVpn <= v /\ v < FirstVpn + MAXPAGES - 1 -> v - FirstVpn
    [] OTHER -> -1

\* The valid bits in the TLB after the pager has put out the pages of the set
\* gone and brought in p.
Updated(gone, p) ==
  {w \in DOMAIN tlb : tlb[w] = p \/ (w \in tlbValid /\ tlb[w] \notin gone)}

\* An entry that is not valid: the pager brings the page in, perhaps in the
\* place of another one, and updates page table and TLB; or the program dies.
Pager ==
  LET p == PagerIndex(vpn) IN
  /\ mode = "access" /\ vpn \in DOMAIN tlb \ tlbValid
  /\ \/ /\ p = -1
        /\ mode' = "dead"
        /\ UNCHANGED <<present, tlbValid>>
     \/ /\ p # -1
        /\ \E gone \in {{}} \cup {{i} : i \in present \ {p}} :
             /\ present' = (present \ gone) \cup {p}
             /\ tlbValid' = Updated(gone, p)
        /\ UNCHANGED mode
  /\ UNCHANGED <<vpn, tlb>>

Dead == mode = "dead" /\ UNCHANGED vars

Next == (\E v \in Vpn : Access(v)) \/ Hit \/ uTLB_RefillHandler \/ Pager \/ Dead

Spec == Init /\ [][Next]_vars

\* The processor and the flash devices run; the program need not.
FairSpec == Spec /\ WF_vars(Hit \/ uTLB_RefillHandler \/ Pager)

-----------------------------------------------------------------------------
(* Properties *)

\* The logical address space (vmSupport.c:130-132): 31 pages of text and data,
\* and the stack.
Space == (FirstVpn .. FirstVpn + MAXPAGES - 2) \cup {StackVpn}

\* Every variable has its type.
TypeOK ==
  /\ mode \in {"run", "access", "dead"} /\ vpn \in Vpn \cup {StackVpn}
  /\ present \in SUBSET Index
  /\ DOMAIN tlb \subseteq Vpn \cup {EntryVpn(i) : i \in Index}
  /\ \A v \in DOMAIN tlb : tlb[v] \in Index \cup {-1}
  /\ tlbValid \subseteq DOMAIN tlb

\* The two handlers mean the same page: what the TLB holds under a page number
\* is a copy of the entry that the pager fills for that number, with its
\* present valid bit, whatever was evicted since.
SamePage ==
  \A v \in DOMAIN tlb : /\ tlb[v] = PagerIndex(v)
                        /\ v \in tlbValid <=> tlb[v] \in present

\* Only a program that leaves its address space dies for it.
SpaceSurvives == mode = "dead" => vpn \notin Space

\* An access ends: the page is found, or the program dies (vmSupport.c:140).
AccessEnds == mode = "access" ~> mode # "access"
=============================================================================
