------------------------------- MODULE Pager -------------------------------
(***************************************************************************)
(* Demand paging in MultiPandOS (phase 3, vmSupport.c): private page       *)
(* tables, TLB and its refill handler, swap pool and backing store on      *)
(* flash.  One program at a time is active, the shell or the program that  *)
(* it executes (SupportLevel!OneActive), and the pager runs under a mutex  *)
(* (SupportLevel!MutexExact): here a fault is served in four steps, one    *)
(* for each flash operation and the work around it.                        *)
(*                                                                         *)
(* A page is known by its index in the page table; its contents are one    *)
(* value.  A page table entry is the frame of entryLO, or -1 when its      *)
(* valid bit is off, and the bit that allows stores.                       *)
(***************************************************************************)
EXTENDS Integers

CONSTANTS
  Asid,        \* address spaces; 1 is the shell's
  Page,        \* indices of the pages of a program
  Text,        \* the pages of the program text
  POOLSIZE,    \* frames of the swap pool
  Val,         \* contents of a page
  FlashFails   \* whether a flash operation may end with an error

ASSUME AsidAssumption == Asid \subseteq Nat \ {0} /\ 1 \in Asid
ASSUME PageAssumption == Text \subseteq Page /\ Page \subseteq Nat
ASSUME SizeAssumption ==
  POOLSIZE \in Nat \ {0} /\ FlashFails \in BOOLEAN /\ Val # {}

Frame == 0 .. POOLSIZE - 1
Entry == [frame : Frame \cup {-1}, dirty : BOOLEAN]
Owner == Asid \X Page
Free == <<-1, -1>>
EmptyTlb == [o \in {} |-> 0]

VARIABLES
  alive,       \* the programs that live
  active,      \* the one whose turn it is (0: the system has halted)
  dying,       \* the programs that are dead but for their TLBCLR
  pte,         \* <<program, page>> -> its entry in sup_privatePgTbl
  tlb,         \* the TLB: some <<program, page>> -> entry
  swapPool,    \* frame -> <<sw_asid, sw_pageNo>>; sw_pte is their entry
  fifo_ptr,
  ram,         \* frame -> contents
  flash,       \* <<program, page>> -> contents of its block
  phase,       \* "user", or what the pager does next: "write", "read", "map"
  missing,     \* <<asid, pageIndex>> of the fault
  frameIndex,
  loaded       \* the last value a program has loaded

progVars == <<alive, active, dying>>
tabVars == <<pte, tlb, swapPool, fifo_ptr>>
pagerVars == <<phase, missing, frameIndex>>
vars == <<progVars, tabVars, ram, flash, pagerVars, loaded>>

\* The page table EXECUTE and test() prepare: nothing in memory, no stores to
\* the text.
InitialEntry(p) == [frame |-> -1, dirty |-> p \notin Text]

Init ==
  /\ alive = {1} /\ active = 1 /\ dying = {}
  /\ pte = [o \in Owner |-> InitialEntry(o[2])]
  /\ tlb = EmptyTlb
  /\ swapPool = [f \in Frame |-> Free]
  /\ fifo_ptr = 0
  /\ ram = [f \in Frame |-> CHOOSE v \in Val : TRUE]
  /\ flash \in [Owner -> Val]
  /\ phase = "user" /\ missing = Free /\ frameIndex = 0
  /\ loaded = CHOOSE v \in Val : TRUE

-----------------------------------------------------------------------------
(* The program and the hardware *)

User(a) == active = a /\ phase = "user"

\* The program finds an entry for page p with its valid bit on.
Hit(a, p) == User(a) /\ <<a, p>> \in DOMAIN tlb /\ tlb[<<a, p>>].frame # -1

Load(a, p) ==
  /\ Hit(a, p)
  /\ loaded' = ram[tlb[<<a, p>>].frame]
  /\ UNCHANGED <<progVars, tabVars, ram, flash, pagerVars>>

Store(a, p, v) ==
  /\ Hit(a, p) /\ tlb[<<a, p>>].dirty
  /\ ram' = [ram EXCEPT ![tlb[<<a, p>>].frame] = v]
  /\ UNCHANGED <<progVars, tabVars, flash, pagerVars, loaded>>

\* The entry is copied from the page table, valid or not; TLBWR may replace one.
uTLB_RefillHandler(a, p) ==
  /\ User(a) /\ <<a, p>> \notin DOMAIN tlb
  /\ \E lost \in {{}} \cup {{o} : o \in DOMAIN tlb} :
       tlb' = [o \in (DOMAIN tlb \cup {<<a, p>>}) \ lost |->
                 IF o = <<a, p>> THEN pte[o] ELSE tlb[o]]
  /\ UNCHANGED <<progVars, pte, swapPool, fifo_ptr, ram, flash, pagerVars, loaded>>

-----------------------------------------------------------------------------
(* The pager *)

\* Mutant: what the TLB holds of the page is left there.
CachedUpdateNone(o, e) == tlb

\* TLBP and TLBWI: the entry of o in the TLB becomes e, if there is one.
CachedUpdate(o, e) == IF o \in DOMAIN tlb THEN [tlb EXCEPT ![o] = e] ELSE tlb

FreeFrames == {f \in Frame : swapPool[f] = Free}

\* Mutant: a page of the same program goes without its entry being invalidated.
InvalidatedOwn(o) ==
  IF o[1] = active THEN pte[o] ELSE [pte[o] EXCEPT !.frame = -1]

Invalidated(o) == [pte[o] EXCEPT !.frame = -1]

\* Mutant: the index does not wrap.
NextInTurnPast == fifo_ptr + 1

NextInTurn == (fifo_ptr + 1) % POOLSIZE

\* A frame is taken, the first free one or the next in turn.  The page in it is
\* unmapped before anything else, page table and TLB together.
PageFault(a, p) ==
  /\ User(a) /\ <<a, p>> \in DOMAIN tlb /\ tlb[<<a, p>>].frame = -1
  /\ missing' = <<a, p>>
  /\ \/ \E f \in FreeFrames :
           /\ \A g \in FreeFrames : f <= g
           /\ frameIndex' = f /\ phase' = "read"
           /\ UNCHANGED <<pte, tlb, fifo_ptr>>
     \/ LET victim == swapPool[fifo_ptr]
        IN  /\ FreeFrames = {}
            /\ frameIndex' = fifo_ptr /\ phase' = "write"
            /\ fifo_ptr' = NextInTurn
            /\ pte' = [pte EXCEPT ![victim] = Invalidated(victim)]
            /\ tlb' = CachedUpdate(victim, Invalidated(victim))
  /\ UNCHANGED <<progVars, swapPool, ram, flash, loaded>>

\* Mutant: the block of the missing page is written.
WrittenBlockMissing == missing

WrittenBlock == swapPool[frameIndex]

WritePage ==
  /\ phase = "write"
  /\ flash' = [flash EXCEPT ![WrittenBlock] = ram[frameIndex]]
  /\ phase' = "read"
  /\ UNCHANGED <<progVars, tabVars, ram, missing, frameIndex, loaded>>

ReadPage ==
  /\ phase = "read"
  /\ ram' = [ram EXCEPT ![frameIndex] = flash[missing]]
  /\ phase' = "map"
  /\ UNCHANGED <<progVars, tabVars, flash, missing, frameIndex, loaded>>

\* Mutant: every page that comes in may be stored to.
MappedEntryDirty(o) == [frame |-> frameIndex, dirty |-> TRUE]

MappedEntry(o) == [frame |-> frameIndex, dirty |-> pte[o].dirty]

MapPage ==
  /\ phase = "map"
  /\ swapPool' = [swapPool EXCEPT ![frameIndex] = missing]
  /\ pte' = [pte EXCEPT ![missing] = MappedEntry(missing)]
  /\ tlb' = CachedUpdate(missing, MappedEntry(missing))
  /\ phase' = "user" /\ missing' = Free /\ frameIndex' = 0
  /\ UNCHANGED <<progVars, fifo_ptr, ram, flash, loaded>>

-----------------------------------------------------------------------------
(* Beginning and end of the programs *)

\* Mutant: the frames of the dead program stay its own.
SwapPoolWithoutNone(a) == swapPool

\* ProgramTrapHandler: the frames of the dying program are free.
SwapPoolWithout(a) ==
  [f \in Frame |-> IF swapPool[f][1] = a THEN Free ELSE swapPool[f]]

\* The active program ends, in user mode or because a flash operation of its
\* page fault has failed (and has changed nothing).  The shell goes on before the TLB is cleared; the end
\* of the shell is the end of the system.
ProgramTrapHandler(a) ==
  /\ active = a
  /\ phase \in {"user"} \cup (IF FlashFails THEN {"write", "read"} ELSE {})
  /\ swapPool' = SwapPoolWithout(a)
  /\ alive' = IF a = 1 THEN {} ELSE alive \ {a}
  /\ active' = IF a = 1 THEN 0 ELSE 1
  /\ dying' = dying \cup {a}
  /\ phase' = "user" /\ missing' = Free /\ frameIndex' = 0
  /\ UNCHANGED <<pte, tlb, fifo_ptr, ram, flash, loaded>>

TLBCLR(a) ==
  /\ a \in dying
  /\ dying' = dying \ {a}
  /\ tlb' = EmptyTlb
  /\ UNCHANGED <<alive, active, pte, swapPool, fifo_ptr, ram, flash, pagerVars,
                 loaded>>

\* EXECUTE of the shell; the program executed before is dead (AsidExclusive).
EXECUTE(a) ==
  /\ User(1)
  /\ a \notin alive \cup dying
  /\ alive' = alive \cup {a} /\ active' = a
  /\ pte' = [o \in Owner |-> IF o[1] = a THEN InitialEntry(o[2]) ELSE pte[o]]
  /\ UNCHANGED <<dying, tlb, swapPool, fifo_ptr, ram, flash, pagerVars, loaded>>

Halted == alive = {} /\ dying = {} /\ UNCHANGED vars

Next ==
  \/ \E a \in Asid, p \in Page :
       \/ Load(a, p)
       \/ \E v \in Val : Store(a, p, v)
       \/ uTLB_RefillHandler(a, p)
       \/ PageFault(a, p)
  \/ WritePage \/ ReadPage \/ MapPage
  \/ \E a \in Asid : ProgramTrapHandler(a) \/ TLBCLR(a) \/ EXECUTE(a)
  \/ Halted

Spec == Init /\ [][Next]_vars

-----------------------------------------------------------------------------
(* Properties *)

\* Every variable has its type, and the pager works for the active program.
TypeOK ==
  /\ alive \in SUBSET Asid /\ active \in alive \cup {0} /\ dying \in SUBSET Asid
  /\ pte \in [Owner -> Entry]
  /\ DOMAIN tlb \subseteq Owner /\ \A o \in DOMAIN tlb : tlb[o] \in Entry
  /\ swapPool \in [Frame -> Owner \cup {Free}] /\ fifo_ptr \in Frame
  /\ ram \in [Frame -> Val] /\ flash \in [Owner -> Val] /\ loaded \in Val
  /\ phase \in {"user", "write", "read", "map"} /\ frameIndex \in Frame
  /\ IF phase = "user" THEN missing = Free
     ELSE missing \in Owner /\ missing[1] = active

Valid(o) == o[1] \in alive /\ pte[o].frame # -1

\* Whatever flash operations fail: a page that a living program has in memory is
\* in a frame registered to it, hence no two pages are in one frame, and never
\* in the frame that the pager is filling (sections 5.2 and 5.3 of Pager).
FramesPrivate ==
  \A o \in Owner : Valid(o) =>
    /\ swapPool[pte[o].frame] = o
    /\ phase # "user" => pte[o].frame # frameIndex

\* What the TLB holds of a living program is what its page table says: the
\* selective updates (vmSupport.c:190-196, 299-305) miss nothing, and nothing
\* is left from a dead program of the same ASID.
TlbCoherent ==
  \A o \in DOMAIN tlb : o[1] \in alive => tlb[o] = pte[o]

\* The shell lives as long as anybody, beside it only the active program, and the
\* TLB holds nothing of programs whose TLBCLR is done.
Turns ==
  /\ alive \subseteq {1, active}
  /\ active # 0 => 1 \in alive
  /\ \A o \in DOMAIN tlb : o[1] \in alive \cup dying

IInv == TypeOK /\ FramesPrivate /\ TlbCoherent /\ Turns

\* The swap pool says what each frame holds (initProc.c:8): outside of a page
\* fault, a frame registered to a page is where that page is mapped.
SwapPoolExact ==
  phase = "user" =>
    \A f \in Frame : swapPool[f] # Free =>
      /\ swapPool[f][1] \in alive
      /\ pte[swapPool[f]].frame = f

\* Each entry of the swap pool registers the page that is in the frame
\* (initProc.c:8-12): no page is registered in two frames.
PageOnce ==
  \A f, g \in Frame : f # g /\ swapPool[f] # Free => swapPool[f] # swapPool[g]

\* Where the contents of a page are.
Contents(o) ==
  IF pte[o].frame # -1 THEN ram[pte[o].frame]
  ELSE IF phase = "write" /\ swapPool[frameIndex] = o THEN ram[frameIndex]
  ELSE flash[o]

Memory == INSTANCE FlatMemory
  WITH mem <- [a \in alive |-> [p \in Page |-> Contents(<<a, p>>)]]

\* Paging cannot be seen: as long as flash operations do not fail, the programs
\* have the memory of FlatMemory, through evictions, reloads and the ends of
\* other programs.
ImplementsFlatMemory == Memory!Spec
=============================================================================
