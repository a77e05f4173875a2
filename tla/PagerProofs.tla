---------------------------- MODULE PagerProofs ----------------------------
(***************************************************************************)
(* For any number of programs, pages and frames: the pager keeps frames    *)
(* private and the TLB coherent, whatever flash operations fail; as long   *)
(* as none fails, the swap pool says what each frame holds, and what a     *)
(* program reads is what it last wrote (module FlatMemory).                *)
(***************************************************************************)
EXTENDS Pager, TLAPS

USE DEF Owner, Frame

LEMMA InitInv == Init => IInv
  BY AsidAssumption, PageAssumption, SizeAssumption
  DEF Init, IInv, TypeOK, FramesPrivate, TlbCoherent, Turns, Valid, InitialEntry,
      Entry, EmptyTlb, Free

\* What a page fault does to the TLB, of an entry it changes in the page table.
LEMMA CachedUpdateFacts ==
  ASSUME TypeOK, NEW o \in Owner, NEW e \in Entry
  PROVE  /\ DOMAIN CachedUpdate(o, e) = DOMAIN tlb
         /\ \A q \in DOMAIN tlb : CachedUpdate(o, e)[q] \in Entry
         /\ o \in DOMAIN tlb => CachedUpdate(o, e)[o] = e
         /\ \A q \in DOMAIN tlb : q # o => CachedUpdate(o, e)[q] = tlb[q]
  BY DEF TypeOK, CachedUpdate

\* A step that touches neither the tables nor the programs.
LEMMA Untouched ==
  ASSUME IInv, TypeOK', UNCHANGED <<progVars, tabVars>>,
         phase' # "user" => phase # "user" /\ frameIndex' = frameIndex
  PROVE  IInv'
  BY DEF IInv, FramesPrivate, TlbCoherent, Turns, Valid, progVars, tabVars

LEMMA LoadInv ==
  ASSUME IInv, NEW a \in Asid, NEW p \in Page, Load(a, p)
  PROVE  IInv'
<1>1. ram[tlb[<<a, p>>].frame] \in Val
  BY DEF IInv, TypeOK, Load, Hit, Entry
<1>2. TypeOK'
  BY <1>1 DEF IInv, TypeOK, Load, progVars, tabVars, pagerVars
<1> QED
  BY <1>2, Untouched DEF Load, pagerVars

LEMMA StoreInv ==
  ASSUME IInv, NEW a \in Asid, NEW p \in Page, NEW v \in Val, Store(a, p, v)
  PROVE  IInv'
<1>1. TypeOK'
  BY DEF IInv, TypeOK, Store, progVars, tabVars, pagerVars
<1> QED
  BY <1>1, Untouched DEF Store, pagerVars

LEMMA RefillInv ==
  ASSUME IInv, NEW a \in Asid, NEW p \in Page, uTLB_RefillHandler(a, p)
  PROVE  IInv'
<1> DEFINE k == <<a, p>>
<1>1. PICK lost \in {{}} \cup {{o} : o \in DOMAIN tlb} :
        tlb' = [o \in (DOMAIN tlb \cup {k}) \ lost |->
                  IF o = k THEN pte[o] ELSE tlb[o]]
  BY DEF uTLB_RefillHandler
<1>2. /\ DOMAIN tlb' \subseteq DOMAIN tlb \cup {k}
      /\ \A o \in DOMAIN tlb' : tlb'[o] = IF o = k THEN pte[o] ELSE tlb[o]
  BY <1>1
<1>3. k \in Owner /\ a \in alive /\ pte[k] \in Entry
  BY AsidAssumption DEF IInv, TypeOK, uTLB_RefillHandler, User
<1>4. TypeOK'
  BY <1>2, <1>3 DEF IInv, TypeOK, uTLB_RefillHandler, progVars, pagerVars
<1>5. FramesPrivate'
  BY DEF IInv, FramesPrivate, Valid, uTLB_RefillHandler, progVars, pagerVars
<1>6. TlbCoherent' /\ Turns'
  BY <1>2, <1>3 DEF IInv, TlbCoherent, Turns, uTLB_RefillHandler, progVars
<1> QED
  BY <1>4, <1>5, <1>6 DEF IInv

\* The frame the pager takes holds no page that is mapped when it is done.
LEMMA PageFaultInv ==
  ASSUME IInv, NEW a \in Asid, NEW p \in Page, PageFault(a, p)
  PROVE  IInv'
<1> USE DEF progVars
<1>1. /\ phase = "user" /\ active = a
      /\ missing' = <<a, p>> /\ missing' \in Owner
      /\ UNCHANGED <<progVars, swapPool, ram, flash, loaded>>
  BY DEF PageFault, User
<1>2. CASE \E f \in FreeFrames :
             /\ frameIndex' = f /\ phase' = "read"
             /\ UNCHANGED <<pte, tlb, fifo_ptr>>
  <2>1. frameIndex' \in Frame /\ swapPool[frameIndex'] = Free /\ phase' = "read"
    BY <1>2 DEF FreeFrames
  <2>2. TypeOK'
    BY <1>1, <1>2, <2>1 DEF IInv, TypeOK
  <2>3. FramesPrivate'
    BY <1>1, <1>2, <2>1, AsidAssumption DEF IInv, FramesPrivate, Valid, Free
  <2> QED
    BY <1>1, <1>2, <2>2, <2>3 DEF IInv, TlbCoherent, Turns
<1>3. CASE /\ FreeFrames = {}
           /\ frameIndex' = fifo_ptr /\ phase' = "write"
           /\ fifo_ptr' = NextInTurn
           /\ pte' = [pte EXCEPT ![swapPool[fifo_ptr]] = Invalidated(swapPool[fifo_ptr])]
           /\ tlb' = CachedUpdate(swapPool[fifo_ptr], Invalidated(swapPool[fifo_ptr]))
  <2> DEFINE victim == swapPool[fifo_ptr]
  <2>1. victim \in Owner /\ fifo_ptr \in Frame
    BY <1>3 DEF IInv, TypeOK, FreeFrames
  <2>2. Invalidated(victim) \in Entry /\ Invalidated(victim).frame = -1
    BY <2>1 DEF IInv, TypeOK, Invalidated, Entry
  <2>3. fifo_ptr' \in Frame
    BY <1>3, <2>1, SizeAssumption DEF NextInTurn
  <2>4. /\ pte' \in [Owner -> Entry]
        /\ pte'[victim] = Invalidated(victim)
        /\ \A o \in Owner : o # victim => pte'[o] = pte[o]
    BY <1>3, <2>1, <2>2 DEF IInv, TypeOK
  <2>5. /\ DOMAIN tlb' = DOMAIN tlb
        /\ \A o \in DOMAIN tlb : tlb'[o] \in Entry
        /\ victim \in DOMAIN tlb => tlb'[victim] = Invalidated(victim)
        /\ \A o \in DOMAIN tlb : o # victim => tlb'[o] = tlb[o]
    BY <1>3, <2>1, <2>2, CachedUpdateFacts DEF IInv
  <2>6. TypeOK'
    BY <1>1, <1>3, <2>1, <2>3, <2>4, <2>5 DEF IInv, TypeOK
  <2>7. FramesPrivate'
    BY <1>1, <1>3, <2>1, <2>2, <2>4 DEF IInv, FramesPrivate, Valid
  <2>8. TlbCoherent'
    <3> SUFFICES ASSUME NEW o \in DOMAIN tlb', o[1] \in alive' PROVE tlb'[o] = pte'[o]
      BY DEF TlbCoherent
    <3>1. o \in Owner /\ o \in DOMAIN tlb
      BY <2>5 DEF IInv, TypeOK
    <3> QED
      BY <1>1, <2>4, <2>5, <3>1 DEF IInv, TlbCoherent
  <2>9. Turns'
    BY <1>1, <2>5 DEF IInv, Turns
  <2> QED
    BY <2>6, <2>7, <2>8, <2>9 DEF IInv
<1> QED
  BY <1>2, <1>3 DEF PageFault

LEMMA TransferInv ==
  ASSUME IInv, WritePage \/ ReadPage
  PROVE  IInv'
<1>1. CASE WritePage
  <2>1. TypeOK'
    BY <1>1 DEF IInv, TypeOK, WritePage, progVars, tabVars
  <2> QED
    BY <1>1, <2>1, Untouched DEF WritePage
<1>2. CASE ReadPage
  <2>1. TypeOK'
    BY <1>2 DEF IInv, TypeOK, ReadPage, progVars, tabVars
  <2> QED
    BY <1>2, <2>1, Untouched DEF ReadPage
<1> QED
  BY <1>1, <1>2

LEMMA MapPageInv ==
  ASSUME IInv, MapPage
  PROVE  IInv'
<1> DEFINE e == MappedEntry(missing)
<1>1. missing \in Owner /\ missing[1] = active /\ frameIndex \in Frame
  BY DEF IInv, TypeOK, MapPage
<1>2. e \in Entry /\ e.frame = frameIndex
  BY <1>1 DEF IInv, TypeOK, MappedEntry, Entry
<1>3. /\ pte' \in [Owner -> Entry] /\ pte'[missing] = e
      /\ \A o \in Owner : o # missing => pte'[o] = pte[o]
      /\ swapPool' \in [Frame -> Owner \cup {Free}] /\ swapPool'[frameIndex] = missing
      /\ \A f \in Frame : f # frameIndex => swapPool'[f] = swapPool[f]
  BY <1>1, <1>2 DEF IInv, TypeOK, MapPage
<1>4. /\ DOMAIN tlb' = DOMAIN tlb
      /\ \A o \in DOMAIN tlb : tlb'[o] \in Entry
      /\ missing \in DOMAIN tlb => tlb'[missing] = e
      /\ \A o \in DOMAIN tlb : o # missing => tlb'[o] = tlb[o]
  BY <1>1, <1>2, CachedUpdateFacts DEF IInv, MapPage
<1>5. TypeOK'
  BY <1>3, <1>4, SizeAssumption DEF IInv, TypeOK, MapPage, progVars
<1>6. FramesPrivate'
  <2> SUFFICES ASSUME NEW o \in Owner, Valid(o)' PROVE swapPool'[pte'[o].frame] = o
    BY DEF FramesPrivate, MapPage
  <2>1. CASE o = missing
    BY <1>2, <1>3, <2>1
  <2>2. CASE o # missing
    <3>1. /\ Valid(o) /\ pte'[o] = pte[o] /\ pte[o].frame \in Frame
          /\ phase # "user"
      BY <1>3, <2>2 DEF IInv, TypeOK, Valid, MapPage, progVars, Entry
    <3> QED
      BY <1>3, <3>1 DEF IInv, FramesPrivate
  <2> QED
    BY <2>1, <2>2
<1>7. TlbCoherent'
  <2> SUFFICES ASSUME NEW o \in DOMAIN tlb', o[1] \in alive' PROVE tlb'[o] = pte'[o]
    BY DEF TlbCoherent
  <2>1. o \in Owner /\ o \in DOMAIN tlb /\ o[1] \in alive
    BY <1>4 DEF IInv, TypeOK, MapPage, progVars
  <2> QED
    BY <1>3, <1>4, <2>1 DEF IInv, TlbCoherent
<1>8. Turns'
  BY <1>4 DEF IInv, Turns, MapPage, progVars
<1> QED
  BY <1>5, <1>6, <1>7, <1>8 DEF IInv

LEMMA TrapInv ==
  ASSUME IInv, NEW a \in Asid, ProgramTrapHandler(a)
  PROVE  IInv'
<1>1. alive' \subseteq {1} /\ a \notin alive' /\ alive' \subseteq alive
  BY DEF IInv, Turns, ProgramTrapHandler
<1>2. active' \in alive' \cup {0} /\ (active' # 0 => 1 \in alive')
  BY AsidAssumption DEF IInv, TypeOK, Turns, ProgramTrapHandler
<1>3. swapPool' \in [Frame -> Owner \cup {Free}]
  BY DEF IInv, TypeOK, ProgramTrapHandler, SwapPoolWithout
<1>4. TypeOK'
  BY <1>1, <1>2, <1>3, SizeAssumption DEF IInv, TypeOK, ProgramTrapHandler
<1>5. FramesPrivate'
  <2> SUFFICES ASSUME NEW o \in Owner, Valid(o)' PROVE swapPool'[pte'[o].frame] = o
    BY DEF FramesPrivate, ProgramTrapHandler
  <2>1. Valid(o) /\ o[1] # a /\ pte[o].frame \in Frame /\ pte' = pte
    BY <1>1 DEF IInv, TypeOK, Valid, ProgramTrapHandler, Entry
  <2> QED
    BY <2>1 DEF IInv, FramesPrivate, ProgramTrapHandler, SwapPoolWithout
<1>6. TlbCoherent'
  BY <1>1 DEF IInv, TlbCoherent, ProgramTrapHandler
<1>7. Turns'
  BY <1>1, <1>2 DEF IInv, Turns, ProgramTrapHandler
<1> QED
  BY <1>4, <1>5, <1>6, <1>7 DEF IInv

LEMMA ClearInv ==
  ASSUME IInv, NEW a \in Asid, TLBCLR(a)
  PROVE  IInv'
<1>1. tlb' = EmptyTlb /\ DOMAIN tlb' = {}
  BY DEF TLBCLR, EmptyTlb
<1> QED
  BY <1>1 DEF IInv, TypeOK, FramesPrivate, TlbCoherent, Turns, Valid, TLBCLR, pagerVars

\* The page table is made anew, and the TLB holds nothing of an earlier program.
LEMMA ExecuteInv ==
  ASSUME IInv, NEW a \in Asid, EXECUTE(a)
  PROVE  IInv'
<1>1. /\ \A o \in Owner : o[1] = a => pte'[o] = InitialEntry(o[2])
      /\ \A o \in Owner : o[1] # a => pte'[o] = pte[o]
      /\ \A o \in Owner : InitialEntry(o[2]) \in Entry
  BY DEF EXECUTE, InitialEntry, Entry
<1>2. pte' \in [Owner -> Entry]
  BY <1>1 DEF IInv, TypeOK, EXECUTE
<1>3. TypeOK'
  BY <1>2 DEF IInv, TypeOK, EXECUTE, User, pagerVars
<1>4. FramesPrivate'
  BY <1>1 DEF IInv, FramesPrivate, Valid, EXECUTE, User, InitialEntry, pagerVars
<1>5. TlbCoherent'
  <2> SUFFICES ASSUME NEW o \in DOMAIN tlb, o[1] \in alive' PROVE tlb[o] = pte'[o]
    BY DEF TlbCoherent, EXECUTE
  <2>1. o \in Owner /\ o[1] # a
    BY DEF IInv, TypeOK, Turns, EXECUTE
  <2> QED
    BY <1>1, <2>1 DEF IInv, TlbCoherent, EXECUTE
<1>6. Turns'
  BY AsidAssumption DEF IInv, TypeOK, Turns, EXECUTE, User
<1> QED
  BY <1>3, <1>4, <1>5, <1>6 DEF IInv

LEMMA NextInv == IInv /\ [Next]_vars => IInv'
<1> SUFFICES ASSUME IInv, [Next]_vars PROVE IInv'
  OBVIOUS
<1>1. CASE UNCHANGED vars
  BY <1>1 DEF IInv, TypeOK, FramesPrivate, TlbCoherent, Turns, Valid, vars,
              progVars, tabVars, pagerVars
<1>2. CASE Next
  BY <1>1, <1>2, LoadInv, StoreInv, RefillInv, PageFaultInv, TransferInv, MapPageInv,
     TrapInv, ClearInv, ExecuteInv
  DEF Next, Halted
<1> QED
  BY <1>1, <1>2

\* The invariant of the tables holds.
THEOREM Inductive == Spec => []IInv
  BY InitInv, NextInv, PTL DEF Spec

\* Type correctness of the pager.
THEOREM TypeOKHolds == Spec => []TypeOK
<1>1. IInv => TypeOK
  BY DEF IInv
<1> QED
  BY <1>1, Inductive, PTL

\* Whatever flash operations fail, no two pages of living programs share a frame
\* and none is in the frame that the pager is filling.
THEOREM FramesPrivateHolds == Spec => []FramesPrivate
<1>1. IInv => FramesPrivate
  BY DEF IInv
<1> QED
  BY <1>1, Inductive, PTL

\* The selective updates of the TLB are enough: it never contradicts the page
\* table of a living program.
THEOREM TlbCoherentHolds == Spec => []TlbCoherent
<1>1. IInv => TlbCoherent
  BY DEF IInv
<1> QED
  BY <1>1, Inductive, PTL

-----------------------------------------------------------------------------
(* The swap pool and the contents of the pages, when flash operations do    *)
(* not fail                                                                 *)

\* Every frame but the one the pager is filling is where its page is mapped.
RegisteredMapped ==
  \A f \in Frame : swapPool[f] # Free /\ (phase # "user" => f # frameIndex) =>
    swapPool[f][1] \in alive /\ pte[swapPool[f]].frame = f

\* What the pager has in hand: the missing page is nowhere in memory, nor is
\* the page it is writing, and what it has read is what it will map.
InHand ==
  /\ phase # "user" => pte[missing].frame = -1
  /\ phase = "write" => /\ swapPool[frameIndex] \in Owner
                        /\ pte[swapPool[frameIndex]].frame = -1
  /\ phase = "map" => ram[frameIndex] = flash[missing]

\* No page of the program text may be stored to.
TextClean == \A o \in Owner : pte[o].dirty => o[2] \notin Text

DataInv == RegisteredMapped /\ InHand /\ TextClean

\* A fresh entry.
LEMMA FreshEntry ==
  \A p \in Page : InitialEntry(p).frame = -1 /\ (InitialEntry(p).dirty => p \notin Text)
BY DEF InitialEntry

LEMMA DataInit == Init => DataInv
<1> SUFFICES ASSUME Init PROVE DataInv
  OBVIOUS
<1>1. phase = "user" /\ \A f \in Frame : swapPool[f] = Free
  BY DEF Init
<1>2. \A o \in Owner : o[2] \in Page /\ pte[o] = InitialEntry(o[2])
  BY DEF Init
<1>3. TextClean
  BY <1>2, FreshEntry DEF TextClean
<1> QED
  BY <1>1, <1>3 DEF DataInv, RegisteredMapped, InHand

\* A step of a program or of the refill handler, or TLBCLR: the tables that say
\* where pages are, and the pager, stay.
LEMMA SameData ==
  ASSUME DataInv, UNCHANGED <<alive, pte, swapPool, flash, pagerVars>>,
         phase = "map" => ram' = ram
  PROVE  DataInv'
BY DEF DataInv, RegisteredMapped, InHand, TextClean, pagerVars

LEMMA PageFaultData ==
  ASSUME IInv, DataInv, NEW a \in Asid, NEW p \in Page, PageFault(a, p)
  PROVE  DataInv'
<1> DEFINE k == <<a, p>>
<1>1. /\ phase = "user" /\ active = a /\ missing' = k /\ k \in Owner
      /\ k \in DOMAIN tlb /\ tlb[k].frame = -1
      /\ UNCHANGED <<alive, swapPool, ram, flash>>
  BY DEF PageFault, User, progVars
<1>2. pte[k].frame = -1
  <2>1. a \in alive
    BY <1>1, AsidAssumption DEF IInv, TypeOK
  <2> QED
    BY <1>1, <2>1 DEF IInv, TlbCoherent
<1>3. CASE \E f \in FreeFrames :
             /\ frameIndex' = f /\ phase' = "read"
             /\ UNCHANGED <<pte, tlb, fifo_ptr>>
  BY <1>1, <1>2, <1>3 DEF DataInv, RegisteredMapped, InHand, TextClean
<1>4. CASE /\ FreeFrames = {}
           /\ frameIndex' = fifo_ptr /\ phase' = "write"
           /\ pte' = [pte EXCEPT ![swapPool[fifo_ptr]] = Invalidated(swapPool[fifo_ptr])]
  <2> DEFINE v == swapPool[fifo_ptr]
  <2>1. v \in Owner /\ fifo_ptr \in Frame /\ v # Free
    BY <1>4 DEF IInv, TypeOK, FreeFrames
  <2>2. pte \in [Owner -> Entry]
    BY DEF IInv, TypeOK
  <2>3. /\ pte'[v].frame = -1 /\ pte'[v].dirty = pte[v].dirty
        /\ \A o \in Owner : o # v => pte'[o] = pte[o]
    BY <1>4, <2>1, <2>2 DEF Invalidated, Entry
  <2>4. RegisteredMapped'
    <3> SUFFICES ASSUME NEW f \in Frame, swapPool[f] # Free, f # fifo_ptr
                 PROVE  swapPool[f][1] \in alive /\ pte'[swapPool[f]].frame = f
      BY <1>1, <1>4 DEF RegisteredMapped
    <3>1. /\ swapPool[f] \in Owner /\ swapPool[f][1] \in alive
          /\ pte[swapPool[f]].frame = f /\ pte[v].frame = fifo_ptr
      BY <1>1, <2>1 DEF IInv, TypeOK, DataInv, RegisteredMapped
    <3> QED
      BY <2>3, <3>1
  <2>5. InHand'
    BY <1>1, <1>2, <1>4, <2>1, <2>3 DEF InHand
  <2>6. TextClean'
    BY <2>1, <2>3 DEF DataInv, TextClean
  <2> QED
    BY <2>4, <2>5, <2>6 DEF DataInv
<1> QED
  BY <1>3, <1>4 DEF PageFault

LEMMA TransferData ==
  ASSUME IInv, DataInv, WritePage \/ ReadPage
  PROVE  DataInv'
<1>1. /\ phase \in {"write", "read"} /\ phase' \in {"read", "map"}
      /\ UNCHANGED <<alive, pte, swapPool, missing, frameIndex>>
  BY DEF WritePage, ReadPage, progVars, tabVars
<1>2. phase' = "map" => ram'[frameIndex] = flash'[missing]
  BY DEF WritePage, ReadPage, IInv, TypeOK
<1>3. InHand'
  BY <1>1, <1>2 DEF DataInv, InHand
<1> QED
  BY <1>1, <1>3 DEF DataInv, RegisteredMapped, TextClean

LEMMA MapPageData ==
  ASSUME IInv, DataInv, MapPage
  PROVE  DataInv'
<1>1. /\ missing \in Owner /\ missing[1] = active /\ frameIndex \in Frame
      /\ phase = "map" /\ phase' = "user" /\ alive' = alive
  BY DEF IInv, TypeOK, MapPage, progVars
<1>2. active \in alive
  BY <1>1, AsidAssumption DEF IInv, TypeOK
<1>3. /\ pte'[missing].frame = frameIndex /\ pte'[missing].dirty = pte[missing].dirty
      /\ \A o \in Owner : o # missing => pte'[o] = pte[o]
      /\ swapPool'[frameIndex] = missing
      /\ \A f \in Frame : f # frameIndex => swapPool'[f] = swapPool[f]
  BY <1>1 DEF IInv, TypeOK, MapPage, MappedEntry, Entry
<1>4. ASSUME NEW f \in Frame, swapPool'[f] # Free
      PROVE  swapPool'[f][1] \in alive /\ pte'[swapPool'[f]].frame = f
  <2>1. CASE f = frameIndex
    BY <1>1, <1>2, <1>3, <2>1
  <2>2. CASE f # frameIndex
    <3>1. /\ swapPool'[f] = swapPool[f] /\ swapPool[f] \in Owner
          /\ swapPool[f][1] \in alive /\ pte[swapPool[f]].frame = f
      BY <1>1, <1>3, <1>4, <2>2 DEF IInv, TypeOK, DataInv, RegisteredMapped
    <3>2. swapPool[f] # missing
      BY <1>1, <3>1 DEF DataInv, InHand
    <3> QED
      BY <1>3, <3>1, <3>2
  <2> QED
    BY <2>1, <2>2
<1>5. RegisteredMapped'
  BY <1>1, <1>4 DEF RegisteredMapped
<1>6. InHand'
  BY <1>1 DEF InHand
<1>7. TextClean'
  BY <1>1, <1>3 DEF DataInv, TextClean
<1> QED
  BY <1>5, <1>6, <1>7 DEF DataInv

LEMMA TrapData ==
  ASSUME IInv, DataInv, FlashFails = FALSE, NEW a \in Asid, ProgramTrapHandler(a)
  PROVE  DataInv'
<1>1. /\ phase = "user" /\ phase' = "user" /\ active = a /\ pte' = pte
      /\ swapPool' = SwapPoolWithout(a)
      /\ alive' = IF a = 1 THEN {} ELSE alive \ {a}
  BY DEF ProgramTrapHandler
<1>2. alive \subseteq {1, a}
  BY <1>1 DEF IInv, Turns
<1>3. ASSUME NEW f \in Frame, swapPool'[f] # Free
      PROVE  swapPool'[f][1] \in alive' /\ pte[swapPool'[f]].frame = f
  <2>1. swapPool'[f] = swapPool[f] /\ swapPool[f][1] # a /\ swapPool[f] # Free
    BY <1>1, <1>3 DEF SwapPoolWithout
  <2>2. swapPool[f][1] \in alive /\ pte[swapPool[f]].frame = f
    BY <1>1, <2>1 DEF DataInv, RegisteredMapped
  <2> QED
    BY <1>1, <1>2, <2>1, <2>2
<1> QED
  BY <1>1, <1>3 DEF DataInv, RegisteredMapped, InHand, TextClean

LEMMA ExecuteData ==
  ASSUME IInv, DataInv, NEW a \in Asid, EXECUTE(a)
  PROVE  DataInv'
<1>1. /\ phase = "user" /\ UNCHANGED <<swapPool, ram, flash, pagerVars>>
      /\ a \notin alive /\ alive' = alive \cup {a}
      /\ \A o \in Owner : pte'[o] = IF o[1] = a THEN InitialEntry(o[2]) ELSE pte[o]
  BY DEF EXECUTE, User
<1>2. ASSUME NEW f \in Frame, swapPool[f] # Free
      PROVE  swapPool[f][1] \in alive' /\ pte'[swapPool[f]].frame = f
  <2>1. /\ swapPool[f] \in Owner /\ swapPool[f][1] \in alive
        /\ pte[swapPool[f]].frame = f
    BY <1>1, <1>2 DEF IInv, TypeOK, DataInv, RegisteredMapped
  <2> QED
    BY <1>1, <2>1
<1>3. TextClean'
  <2> SUFFICES ASSUME NEW o \in Owner, pte'[o].dirty PROVE o[2] \notin Text
    BY DEF TextClean
  <2>1. CASE o[1] = a
    <3>1. pte'[o] = InitialEntry(o[2]) /\ o[2] \in Page
      BY <1>1, <2>1
    <3> QED
      BY <3>1, FreshEntry
  <2>2. CASE o[1] # a
    <3>1. pte'[o] = pte[o]
      BY <1>1, <2>2
    <3> QED
      BY <3>1 DEF DataInv, TextClean
  <2> QED
    BY <2>1, <2>2
<1> QED
  BY <1>1, <1>2, <1>3 DEF DataInv, RegisteredMapped, InHand, pagerVars

LEMMA DataStep ==
  ASSUME FlashFails = FALSE
  PROVE  IInv /\ DataInv /\ [Next]_vars => DataInv'
<1> SUFFICES ASSUME IInv, DataInv, [Next]_vars PROVE DataInv'
  OBVIOUS
<1>1. ASSUME NEW a \in Asid, NEW p \in Page,
             Load(a, p) \/ uTLB_RefillHandler(a, p) \/ \E v \in Val : Store(a, p, v)
      PROVE  DataInv'
  BY <1>1, SameData DEF Load, Store, uTLB_RefillHandler, Hit, User, progVars, tabVars
<1>2. ASSUME NEW a \in Asid, TLBCLR(a) PROVE DataInv'
  BY <1>2, SameData DEF TLBCLR
<1>3. CASE UNCHANGED vars
  BY <1>3, SameData DEF vars, progVars, tabVars
<1> QED
  BY <1>1, <1>2, <1>3, PageFaultData, TransferData, MapPageData, TrapData, ExecuteData
     DEF Next, Halted

LEMMA DataHolds ==
  ASSUME FlashFails = FALSE
  PROVE  Spec => []DataInv
BY DataInit, DataStep, Inductive, PTL DEF Spec

\* When flash operations do not fail, the swap pool says what each frame holds:
\* outside of a page fault a registered page is mapped there, in a program that
\* lives.
THEOREM SwapPoolExactHolds ==
  ASSUME FlashFails = FALSE
  PROVE  Spec => []SwapPoolExact
<1>1. DataInv => SwapPoolExact
  BY DEF DataInv, RegisteredMapped, SwapPoolExact
<1> QED
  BY <1>1, DataHolds, PTL

-----------------------------------------------------------------------------
(* The refinement: step by step, what paging does to the contents *)

\* The address spaces that the programs see.
Mem == [a \in alive |-> [p \in Page |-> Contents(<<a, p>>)]]

\* Two steps that leave the contents of every living page, or all but one.
LEMMA SameContents ==
  ASSUME alive' = alive, \A a \in alive, p \in Page : Contents(<<a, p>>)' = Contents(<<a, p>>)
  PROVE  Mem' = Mem
BY DEF Mem

LEMMA LiveOwner ==
  ASSUME IInv
  PROVE  /\ \A a \in alive, p \in Page : <<a, p>> \in Owner
         /\ \A o \in Owner : o = <<o[1], o[2]>>
         /\ \A o \in Owner : pte[o].frame \in Frame \cup {-1}
         /\ \A o \in Owner : Contents(o) \in Val
<1>1. \A o \in Owner : pte[o].frame \in Frame \cup {-1}
  BY DEF IInv, TypeOK, Entry
<1> QED
  BY <1>1 DEF IInv, TypeOK, Contents

LEMMA LoadMem ==
  ASSUME IInv, NEW a \in Asid, NEW p \in Page, Load(a, p)
  PROVE  a \in alive /\ Mem' = Mem /\ loaded' = Mem[a][p]
<1>1. a \in alive /\ <<a, p>> \in Owner
  BY AsidAssumption DEF IInv, TypeOK, Load, Hit, User
<1>2. tlb[<<a, p>>] = pte[<<a, p>>] /\ pte[<<a, p>>].frame # -1
  BY <1>1 DEF IInv, TlbCoherent, Load, Hit
<1>3. loaded' = Contents(<<a, p>>)
  BY <1>2 DEF Load, Contents
<1>4. Mem' = Mem
  BY SameContents DEF Load, Contents, progVars, tabVars, pagerVars
<1> QED
  BY <1>1, <1>3, <1>4 DEF Mem

LEMMA StoreMem ==
  ASSUME IInv, DataInv, NEW a \in Asid, NEW p \in Page, NEW v \in Val, Store(a, p, v)
  PROVE  /\ a \in alive /\ p \notin Text
         /\ Mem' = [Mem EXCEPT ![a][p] = v] /\ loaded' = loaded
<1> DEFINE k == <<a, p>>
<1>1. a \in alive /\ k \in Owner
  BY AsidAssumption DEF IInv, TypeOK, Store, Hit, User
<1>2. tlb[k] = pte[k] /\ pte[k].frame \in Frame /\ pte[k].dirty
  BY <1>1, LiveOwner DEF IInv, TlbCoherent, Store, Hit
<1>3. p \notin Text
  BY <1>1, <1>2 DEF DataInv, TextClean
<1>4. /\ ram'[pte[k].frame] = v
      /\ \A f \in Frame : f # pte[k].frame => ram'[f] = ram[f]
      /\ UNCHANGED <<alive, pte, flash, swapPool, phase, frameIndex>> /\ phase = "user"
  BY <1>2 DEF Store, Hit, User, IInv, TypeOK, progVars, tabVars, pagerVars
<1>5. \A b \in alive, q \in Page : <<b, q>> # k => pte[<<b, q>>].frame # pte[k].frame
  BY <1>1, <1>2, LiveOwner DEF IInv, FramesPrivate, Valid
<1>6. \A b \in alive, q \in Page :
        Contents(<<b, q>>)' = IF <<b, q>> = k THEN v ELSE Contents(<<b, q>>)
  <2> SUFFICES ASSUME NEW b \in alive, NEW q \in Page
               PROVE  Contents(<<b, q>>)' = IF <<b, q>> = k THEN v ELSE Contents(<<b, q>>)
    BY <1>4
  <2>0. -1 \notin Frame /\ <<b, q>> \in Owner
    BY LiveOwner
  <2>1. CASE <<b, q>> = k
    BY <1>2, <1>4, <2>0, <2>1 DEF Contents
  <2>2. CASE <<b, q>> # k
    <3>1. pte[<<b, q>>].frame \in Frame \cup {-1} /\ pte[<<b, q>>].frame # pte[k].frame
      BY <1>5, <2>0, <2>2, LiveOwner
    <3> QED
      BY <1>4, <2>2, <3>1 DEF Contents
  <2> QED
    BY <2>1, <2>2
<1>7. Mem' = [Mem EXCEPT ![a][p] = v]
  <2>1. Mem' = [b \in alive |-> [q \in Page |-> IF <<b, q>> = k THEN v ELSE Contents(<<b, q>>)]]
    BY <1>4, <1>6 DEF Mem
  <2> QED
    BY <1>1, <2>1 DEF Mem
<1> QED
  BY <1>1, <1>3, <1>7 DEF Store

\* The eviction begins: the page is still where it was.
LEMMA PageFaultMem ==
  ASSUME IInv, DataInv, NEW a \in Asid, NEW p \in Page, PageFault(a, p)
  PROVE  Mem' = Mem /\ loaded' = loaded
<1>1. /\ phase = "user" /\ UNCHANGED <<alive, swapPool, ram, flash, loaded>>
  BY DEF PageFault, User, progVars
<1>2. CASE phase' = "read" /\ UNCHANGED pte
  BY <1>1, <1>2, SameContents DEF Contents
<1>3. CASE /\ FreeFrames = {}
           /\ frameIndex' = fifo_ptr /\ phase' = "write"
           /\ pte' = [pte EXCEPT ![swapPool[fifo_ptr]] = Invalidated(swapPool[fifo_ptr])]
  <2> DEFINE v == swapPool[fifo_ptr]
  <2>1. v \in Owner /\ fifo_ptr \in Frame /\ v # Free /\ pte \in [Owner -> Entry]
    BY <1>3 DEF IInv, TypeOK, FreeFrames
  <2>2. pte[v].frame = fifo_ptr
    BY <1>1, <2>1 DEF DataInv, RegisteredMapped
  <2>3. /\ pte'[v].frame = -1
        /\ \A o \in Owner : o # v => pte'[o] = pte[o]
    BY <1>3, <2>1 DEF Invalidated, Entry
  <2>4. fifo_ptr # -1
    BY <2>1
  <2>5. \A o \in Owner : Contents(o)' = Contents(o)
    <3> SUFFICES ASSUME NEW o \in Owner PROVE Contents(o)' = Contents(o)
      OBVIOUS
    <3>1. CASE o = v
      BY <1>1, <1>3, <2>2, <2>3, <2>4, <3>1 DEF Contents
    <3>2. CASE o # v
      BY <1>1, <1>3, <2>3, <3>2 DEF Contents
    <3> QED
      BY <3>1, <3>2
  <2> QED
    BY <1>1, <2>5, LiveOwner, SameContents
<1> QED
  BY <1>1, <1>2, <1>3 DEF PageFault

\* The write, the read and the mapping move a page and change none.
LEMMA ServeMem ==
  ASSUME IInv, DataInv, WritePage \/ ReadPage \/ MapPage
  PROVE  Mem' = Mem /\ loaded' = loaded
<1>0. loaded' = loaded /\ alive' = alive
  BY DEF WritePage, ReadPage, MapPage, progVars
<1> SUFFICES ASSUME NEW a \in alive, NEW p \in Page
             PROVE  Contents(<<a, p>>)' = Contents(<<a, p>>)
  BY <1>0, SameContents
<1> DEFINE o == <<a, p>>
<1>1. o \in Owner /\ o[1] \in alive /\ pte[o].frame \in Frame \cup {-1}
      /\ frameIndex \in Frame /\ phase # "user" /\ missing \in Owner
  BY LiveOwner DEF IInv, TypeOK, WritePage, ReadPage, MapPage
<1>2. pte[o].frame # -1 => pte[o].frame # frameIndex
  BY <1>1 DEF IInv, FramesPrivate, Valid
<1>3. CASE WritePage
  <2>1. /\ flash'[swapPool[frameIndex]] = ram[frameIndex]
        /\ \A q \in Owner : q # swapPool[frameIndex] => flash'[q] = flash[q]
        /\ phase = "write" /\ phase' = "read" /\ UNCHANGED <<pte, swapPool, ram>>
    BY <1>3 DEF WritePage, WrittenBlock, tabVars, DataInv, InHand, IInv, TypeOK
  <2> QED
    BY <1>1, <2>1 DEF Contents
<1>4. CASE ReadPage
  <2>1. /\ \A f \in Frame : f # frameIndex => ram'[f] = ram[f]
        /\ phase = "read" /\ phase' = "map" /\ UNCHANGED <<pte, flash>>
    BY <1>4 DEF ReadPage, tabVars, IInv, TypeOK
  <2> QED
    BY <1>1, <1>2, <2>1 DEF Contents
<1>5. CASE MapPage
  <2>1. /\ pte'[missing].frame = frameIndex
        /\ \A q \in Owner : q # missing => pte'[q] = pte[q]
        /\ phase = "map" /\ phase' = "user" /\ UNCHANGED <<ram, flash>>
    BY <1>1, <1>5 DEF MapPage, MappedEntry, IInv, TypeOK, Entry
  <2>2. pte[missing].frame = -1 /\ ram[frameIndex] = flash[missing]
    BY <2>1 DEF DataInv, InHand
  <2>3. frameIndex # -1
    BY <1>1
  <2>4. CASE o = missing
    BY <2>1, <2>2, <2>3, <2>4 DEF Contents
  <2>5. CASE o # missing
    BY <1>1, <2>1, <2>5 DEF Contents
  <2> QED
    BY <2>4, <2>5
<1> QED
  BY <1>3, <1>4, <1>5

\* The end of a program takes its address space and leaves the others.
LEMMA TrapMem ==
  ASSUME IInv, FlashFails = FALSE, NEW a \in Asid, ProgramTrapHandler(a)
  PROVE  /\ alive' \subseteq alive /\ alive' = alive \ (alive \ alive')
         /\ Mem' = [b \in alive' |-> Mem[b]] /\ loaded' = loaded
<1>1. /\ phase = "user" /\ phase' = "user" /\ UNCHANGED <<pte, ram, flash, loaded>>
      /\ alive' \subseteq alive
  BY DEF ProgramTrapHandler
<1>2. \A b \in alive', p \in Page : Contents(<<b, p>>)' = Contents(<<b, p>>)
  BY <1>1 DEF Contents
<1> QED
  BY <1>1, <1>2 DEF Mem

\* A program that starts has what is on its flash device.
LEMMA ExecuteMem ==
  ASSUME IInv, NEW a \in Asid, EXECUTE(a)
  PROVE  /\ a \notin alive /\ loaded' = loaded
         /\ \E image \in [Page -> Val] :
              Mem' = [b \in alive \cup {a} |-> IF b = a THEN image ELSE Mem[b]]
<1>1. /\ phase = "user" /\ UNCHANGED <<swapPool, ram, flash, phase, frameIndex, loaded>>
      /\ a \notin alive /\ alive' = alive \cup {a}
      /\ \A o \in Owner : pte'[o] = IF o[1] = a THEN InitialEntry(o[2]) ELSE pte[o]
  BY DEF EXECUTE, User, pagerVars
<1> DEFINE image == [p \in Page |-> flash[<<a, p>>]]
<1>2. image \in [Page -> Val]
  BY DEF IInv, TypeOK
<1>3. \A p \in Page : Contents(<<a, p>>)' = flash[<<a, p>>]
  <2> SUFFICES ASSUME NEW p \in Page PROVE Contents(<<a, p>>)' = flash[<<a, p>>]
    OBVIOUS
  <2>1. pte'[<<a, p>>].frame = -1
    BY <1>1, FreshEntry
  <2> QED
    BY <1>1, <2>1 DEF Contents
<1>4. ASSUME NEW b \in alive, NEW p \in Page
      PROVE  Contents(<<b, p>>)' = Contents(<<b, p>>)
  <2>1. <<b, p>> \in Owner /\ b # a /\ <<b, p>>[1] = b
    BY <1>1, LiveOwner
  <2>2. pte'[<<b, p>>] = pte[<<b, p>>]
    BY <1>1, <2>1
  <2>3. UNCHANGED <<swapPool, ram, flash, phase, frameIndex>>
    BY <1>1
  <2> QED
    BY ONLY <2>2, <2>3 DEF Contents
<1>5. Mem' = [b \in alive \cup {a} |-> IF b = a THEN image ELSE Mem[b]]
  <2>1. Mem' = [b \in alive \cup {a} |-> [p \in Page |-> Contents(<<b, p>>)']]
    BY <1>1 DEF Mem
  <2>2. ASSUME NEW b \in alive \cup {a}
        PROVE  [p \in Page |-> Contents(<<b, p>>)'] = IF b = a THEN image ELSE Mem[b]
    <3>1. CASE b = a
      BY <1>3, <3>1
    <3>2. CASE b # a
      <4>1. Mem[b] = [p \in Page |-> Contents(<<b, p>>)]
        BY <3>2 DEF Mem
      <4> QED
        BY <1>4, <3>2, <4>1
    <3> QED
      BY <3>1, <3>2
  <2> QED
    BY ONLY <2>1, <2>2
<1> QED
  BY <1>1, <1>2, <1>5

\* What does not touch the tables, the frames, the blocks or the pager.
LEMMA SameMem ==
  ASSUME UNCHANGED <<alive, pte, swapPool, ram, flash, pagerVars>>
  PROVE  Mem' = Mem
BY SameContents DEF Contents, pagerVars

\* The steps of the pager and of the programs are steps of FlatMemory.
LEMMA MemoryStep ==
  ASSUME FlashFails = FALSE, IInv, DataInv, [Next]_vars
  PROVE  [Memory!Next]_Memory!vars
<1>0. DOMAIN Mem = alive
  BY DEF Mem
<1> DEFINE Unseen == Mem' = Mem /\ loaded' = loaded
<1>1. ASSUME NEW a \in Asid, NEW p \in Page, Load(a, p)
      PROVE  Memory!Next
  BY <1>1, LoadMem DEF Memory!Next, Memory!Load, Mem
<1>2. ASSUME NEW a \in Asid, NEW p \in Page, NEW v \in Val, Store(a, p, v)
      PROVE  Memory!Next
  <2>1. /\ a \in alive /\ p \notin Text
        /\ Mem' = [Mem EXCEPT ![a][p] = v] /\ loaded' = loaded
    BY <1>2, StoreMem
  <2>2. Memory!Store(a, p, v)
    BY <2>1, Zenon DEF Memory!Store, Mem
  <2> QED
    BY <2>1, <2>2 DEF Memory!Next
<1>3. ASSUME NEW a \in Asid, ProgramTrapHandler(a)
      PROVE  Memory!Next
  <2>1. Memory!End(alive \ alive')
    BY <1>3, TrapMem DEF Memory!End, Mem
  <2> QED
    BY <2>1 DEF Memory!Next
<1>4. ASSUME NEW a \in Asid, EXECUTE(a)
      PROVE  Memory!Next
  <2>1. Memory!Start(a)
    BY <1>4, ExecuteMem DEF Memory!Start, Mem
  <2> QED
    BY <2>1 DEF Memory!Next
<1>5. ASSUME NEW a \in Asid, NEW p \in Page,
             uTLB_RefillHandler(a, p) \/ PageFault(a, p)
      PROVE  Unseen
  BY <1>5, SameMem, PageFaultMem DEF uTLB_RefillHandler, progVars
<1>6. ASSUME NEW a \in Asid, TLBCLR(a) PROVE Unseen
  BY <1>6, SameMem DEF TLBCLR
<1>7. ASSUME WritePage \/ ReadPage \/ MapPage PROVE Unseen
  BY <1>7, ServeMem
<1>8. ASSUME UNCHANGED vars PROVE Unseen
  BY <1>8, SameMem DEF vars, progVars, tabVars
<1>9. Unseen => UNCHANGED Memory!vars
  BY DEF Memory!vars, Mem
<1> HIDE DEF Unseen
<1>10. CASE Next
  BY <1>1, <1>2, <1>3, <1>4, <1>5, <1>6, <1>7, <1>8, <1>9, <1>10 DEF Next, Halted
<1> QED
  BY <1>8, <1>9, <1>10

LEMMA MemoryInit == Init => Memory!Init
<1> SUFFICES ASSUME Init PROVE Memory!Init
  OBVIOUS
<1>1. IInv
  BY InitInv
<1>2. loaded \in Val /\ alive \in SUBSET Asid
  BY <1>1 DEF IInv, TypeOK
<1>3. Mem \in [alive -> [Page -> Val]]
  BY <1>1, LiveOwner DEF Mem
<1> QED
  BY <1>2, <1>3 DEF Memory!Init, Mem

\* Paging cannot be seen: when flash operations do not fail, every step of the
\* programs, of the refill handler and of the pager is a step of FlatMemory or
\* changes nothing there.
THEOREM ImplementsFlatMemoryHolds ==
  ASSUME FlashFails = FALSE
  PROVE  Spec => ImplementsFlatMemory
BY MemoryInit, MemoryStep, Inductive, DataHolds, PTL
   DEF Spec, ImplementsFlatMemory, Memory!Spec
==========================================================================
