------------------------- MODULE SupportLevelProofs -------------------------
(***************************************************************************)
(* The support level, for any number of PCBs, address spaces and frames:   *)
(* the mutexes exclude and are released on every path out of a handler, no *)
(* frame outlives its owner, and at most one program is active.  If a time *)
(* slice is enough for the seven steps that a dead program has left, no    *)
(* two processes have one ASID.  If no slice ends inside an operation on   *)
(* the list of the free support structures, none is lost or used twice.    *)
(*                                                                         *)
(* The argument is that of the code: apart from who leaves, one process of *)
(* the support level is active, so that what the others hold is at most    *)
(* the transmitter that a dying program has kept.                          *)
(***************************************************************************)
EXTENDS SupportLevel, ProcQueueProofs

InstLabels == {"header", "shellEnd", "halt"}
ExLabels == {"exArg", "exHead", "exLinks", "exPrev", "exNext", "exDel1", "exDel2",
             "exDel3", "exDel4", "exP", "exRead", "exV", "exStat",
             "exAdd1", "exAdd2", "exAdd3", "exAdd4", "exWait"}

\* Where EXECUTE has a structure; where it is still on the list; where it has
\* the ASID of the program.
TakenLabels == {"exLinks", "exPrev", "exNext", "exDel1", "exDel2", "exDel3", "exDel4"}
AsidLabels == {"exP", "exRead", "exV", "exStat", "exAdd1", "exAdd2", "exAdd3", "exAdd4"}
NewLabels == TakenLabels \cup AsidLabels
HoldLabels == PagerLabels \ {"pgP", "pgHold", "pgV"}
WriteLabels == {"pgWrP", "pgWr", "pgWrV"}

\* Where the processes may be in the code.
LabelsInv ==
  /\ pc \in [PCB -> Labels]
  /\ pc[Inst] \in InstLabels \cup {"none"}
  /\ \A p \in Uproc : pc[p] \notin InstLabels
  /\ \A c \in Child : pc[c] \notin ExLabels
  /\ ret \in [PCB -> {"user", "txLoop", "rxStore"}]
  /\ \A p \in PCB : ret[p] # "user" => pc[p] \in PagerLabels \cup DyingLabels
  /\ \A p \in PCB : pc[p] = "trRxV" => ret[p] = "rxStore"

\* The processes that run or are ready, and those that wait for a semaphore.
Runnable == Elems(readyQueue) \cup ({currProc} \cap PCB)
Blocked == {p \in PCB : Waits(p)}

\* Who waits, and where.
WaitsAt(s, p) ==
  \/ s = MasterSem /\ p = Inst /\ pc[p] = "halt"
  \/ s = ShellSem /\ p = Shell /\ pc[p] = "return"
  \/ s = Transm /\ p \in Uproc /\ pc[p] = "txLoop"

QueuesInv ==
  /\ IsQueue(readyQueue) /\ IsSorted(readyQueue, p_prio)
  /\ s_procq \in [Sem -> SUBSET (PCB \X PCB)] /\ \A s \in Sem : IsQueue(s_procq[s])
  /\ currProc \in PCB \cup {Null} /\ currProc \notin Elems(readyQueue)
  /\ io \in SUBSET PCB
  /\ Live = Runnable \cup io \cup Blocked
  /\ Runnable \cap io = {} /\ Runnable \cap Blocked = {} /\ io \cap Blocked = {}
  /\ \A s \in Sem : \A p \in Elems(s_procq[s]) : WaitsAt(s, p)

\* Past its last use of what the processes share.
Gone == {"none", "trGive", "trAdd1", "trAdd2", "trAdd3", "trAdd4", "trTlb", "trTerm"}
Asleep == pc[Shell] = "exWait" \/ Shell \in Elems(s_procq[ShellSem])
Busy(p) == p \in Uproc /\ pc[p] \notin Gone /\ (p = Shell => ~Asleep)

ActiveInv ==
  /\ \A c \in Child : pc[c] \notin Gone => Asleep /\ sem[ShellSem] = 0
  /\ \A c, d \in Child : pc[c] \notin Gone /\ pc[d] \notin Gone => c = d
  /\ sem[ShellSem] # 0 => pc[Shell] = "exWait"
  /\ Shell \in Elems(s_procq[ShellSem]) => sem[ShellSem] = 0
  /\ pc[Shell] \notin Gone => sem[MasterSem] = 0
  /\ pc[Inst] = "header" => /\ \A p \in Uproc : pc[p] = "none"
                            /\ sem[MasterSem] = 0
  /\ pc[Inst] = "halt" /\ Inst \notin Elems(s_procq[MasterSem]) => pc[Shell] \in Gone
  /\ Elems(s_procq[MasterSem]) # {} => sem[MasterSem] = 0

\* The mutexes that a process has acquired, by where it is.
Keeps(l, r) ==
  (IF l \in (PagerLabels \ {"pgP"}) \cup {"trFree", "trV"} THEN {Swap} ELSE {})
  \cup (IF \/ l \in {"txLoop", "txStat", "txV"}
           \/ r = "txLoop" /\ l \in PagerLabels \cup DyingLabels
        THEN {Transm} ELSE {})
  \cup (IF \/ l \in {"rxLoop", "rxStat", "rxStore", "rxV"}
           \/ /\ r = "rxStore"
              /\ l \in PagerLabels \cup {"trap", "trFree", "trV", "trRx", "trRxV"}
        THEN {Recv} ELSE {})

KeepsFlash(l, victim, own, new) ==
  IF l \in {"pgWr", "pgWrV"} THEN {victim}
  ELSE IF l \in {"pgRd", "pgRdV"} THEN {own}
  ELSE IF l \in {"exRead", "exV"} THEN {new} ELSE {}

FlashHeld(p) ==
  KeepsFlash(pc[p], Flash(swapPool[frame[p]]), Flash(sup_asid[sup[p]]), Flash(sup_asid[newSup]))

Own(p) == Keeps(pc[p], ret[p]) \cup FlashHeld(p)
Held(p) == IF p \in Blocked THEN {} ELSE Own(p)

MutexInv ==
  /\ sem \in [Sem -> {0, 1}]
  /\ \A s \in Mutex \ {Transm} : sem[s] = 0 <=> \E p \in PCB : s \in Held(p)
  /\ \A p \in PCB : Transm \in Held(p) => sem[Transm] = 0
  /\ \A p, q \in PCB : Transm \in Held(p) /\ Transm \in Held(q) => p = q

CoreInv == LabelsInv /\ QueuesInv /\ ActiveInv /\ MutexInv

Starting == pc[Inst] = "header" /\ ~panic

\* The links that lead to structure t.
LinksTo(t) ==
  \/ \E n \in Node \ {t} : next[n] = t \/ prev[n] = t
  \/ \E p \in PCB : nextArg[p] = t \/ prevArg[p] = t

\* The shell's structure is apart: nobody else has it and no link leads to it,
\* whatever the others make of the free list.
SupportsInv ==
  /\ sup \in [PCB -> 0 .. UPROCMAX] /\ asid \in [PCB -> 0 .. UPROCMAX]
  /\ newSup \in 0 .. UPROCMAX /\ sup_asid \in [Support -> 0 .. UPROCMAX]
  /\ next \in [Node -> Node] /\ prev \in [Node -> Node]
  /\ nextArg \in [PCB -> Node] /\ prevArg \in [PCB -> Node]
  /\ \A p \in PCB : pc[p] = "none" \/ p = Inst => sup[p] = 0 /\ asid[p] = 0
  /\ \A p \in Uproc : pc[p] # "none" => sup[p] \in Support
  /\ \A p \in Uproc : pc[p] \notin Gone => sup_asid[sup[p]] = asid[p]
  /\ pc[Shell] # "none" => asid[Shell] = 1 /\ sup[Shell] = UPROCMAX
  /\ \A c \in Child : pc[c] # "none" => asid[c] \in Program /\ sup[c] # UPROCMAX
  /\ pc[Shell] \in NewLabels => newSup \in Support \ {UPROCMAX}
  /\ pc[Shell] \in AsidLabels => sup_asid[newSup] \in Program
  /\ Starting => newSup = UPROCMAX /\ sup_asid[newSup] = 1
  /\ pc[Shell] \notin NewLabels /\ ~Starting => newSup = 0
  /\ pc[Shell] = "exHead" => next[supStructs_freeList] # supStructs_freeList
  /\ pc[Shell] \notin Gone \/ Starting => ~LinksTo(UPROCMAX)

FramesInv ==
  /\ frame \in [PCB -> 0 .. POOLSIZE - 1] /\ fifo_ptr \in 0 .. POOLSIZE - 1
  /\ page_mutex_holder \in -1 .. UPROCMAX
  /\ swapPool \in [0 .. POOLSIZE - 1 -> {-1} \cup Support]
  /\ \A p \in PCB : pc[p] \in WriteLabels => swapPool[frame[p]] \in Support
  /\ page_mutex_holder # -1 => \E p \in Uproc : pc[p] \in HoldLabels
  /\ FramesOwned

\* Where a process waits for a device.
IoLabels == {"header", "txStat", "rxStat", "exV", "pgWrV", "pgRdV"}

TimerInv ==
  /\ slice \in 0 .. SliceSteps /\ panic \in BOOLEAN
  /\ \A p \in io : pc[p] \in IoLabels

IInv == /\ LabelsInv /\ QueuesInv /\ ActiveInv /\ MutexInv /\ SupportsInv /\ FramesInv
        /\ TimerInv

\* How many steps a dead program has left.
Left(l) == CASE l = "trGive" -> 7
             [] l = "trAdd1" -> 6 [] l = "trAdd2" -> 5 [] l = "trAdd3" -> 4
             [] l = "trAdd4" -> 3 [] l = "trTlb" -> 2 [] l = "trTerm" -> 1
             [] OTHER -> 0

\* There is one program at a time: when the shell has read the header of the
\* next, the last one is gone or has the processor, and a slice that it will not
\* use up.
LeaversInv ==
  /\ \A c, d \in Child : pc[c] # "none" /\ pc[d] # "none" => c = d
  /\ pc[Shell] \in {"exV", "exStat"} => \A c \in Child : pc[c] # "none" =>
       /\ pc[Shell] = "exV" /\ currProc = c /\ slice >= Left(pc[c])

-----------------------------------------------------------------------------
(* Queues and the processor *)

\* scheduler dispatches the first of a queue and leaves the others in it.
LEMMA Dispatch ==
  ASSUME NEW q, IsQueue(q), IsSorted(q, p_prio), scheduler(q)
  PROVE  /\ IsQueue(readyQueue') /\ IsSorted(readyQueue', p_prio)
         /\ currProc' \in PCB \cup {Null} /\ currProc' \notin Elems(readyQueue')
         /\ Runnable' = Elems(q)
         /\ Elems(q) # {} => currProc' = headProcQ(q)
<1>1. CASE emptyProcQ(q)
  <2>1. currProc' = Null /\ readyQueue' = q /\ Elems(q) = {}
    BY <1>1 DEF scheduler, emptyProcQ
  <2> QED
    BY <2>1, ProcAssumption DEF Runnable
<1>2. CASE ~emptyProcQ(q)
  <2> DEFINE h == headProcQ(q)
  <2>1. currProc' = h /\ readyQueue' = Without(q, {h}) /\ Elems(q) # {}
    BY <1>2 DEF scheduler, emptyProcQ, removeProcQ, outProcQ
  <2>2. h \in Elems(q)
    BY <2>1, HeadFirst
  <2>3. IsQueue(Without(q, {h})) /\ Elems(Without(q, {h})) = Elems(q) \ {h}
    BY WithoutQueue
  <2>4. IsSorted(Without(q, {h}), p_prio)
    BY WithoutSorted
  <2>5. h \in PCB
    BY <2>2 DEF Elems
  <2> QED
    BY <2>1, <2>2, <2>3, <2>4, <2>5 DEF Runnable
<1> QED
  BY <1>1, <1>2

\* The priorities are numbers.
LEMMA PrioType == p_prio \in [PCB -> Nat]
BY DEF p_prio

\* A process that is neither running nor ready becomes one or the other.
LEMMA Readied ==
  ASSUME QueuesInv, NEW p \in PCB \ Runnable, MakeReady(p)
  PROVE  /\ IsQueue(readyQueue') /\ IsSorted(readyQueue', p_prio)
         /\ currProc' \in PCB \cup {Null} /\ currProc' \notin Elems(readyQueue')
         /\ Runnable' = Runnable \cup {p}
         /\ currProc # Null => currProc' = currProc
<1>1. CASE currProc = Null
  <2>1. currProc' = p /\ readyQueue' = readyQueue
    BY <1>1 DEF MakeReady
  <2> QED
    BY <1>1, <2>1, ProcAssumption DEF QueuesInv, Runnable
<1>2. CASE currProc # Null
  <2>1. currProc' = currProc /\ readyQueue' = insertProcQ(readyQueue, p, p_prio)
    BY <1>2 DEF MakeReady
  <2>2. p \in PCB \ Elems(readyQueue) /\ currProc \in PCB /\ p # currProc
    BY <1>2 DEF Runnable, QueuesInv
  <2>3. /\ IsQueue(readyQueue') /\ Elems(readyQueue') = Elems(readyQueue) \cup {p}
        /\ IsSorted(readyQueue', p_prio)
    BY <2>1, <2>2, PrioType, InsertProcQueue, InsertProcSorted DEF QueuesInv
  <2> QED
    BY <2>1, <2>2, <2>3 DEF Runnable, QueuesInv
<1> QED
  BY <1>1, <1>2

\* Who waits, from the queues of the semaphores.
LEMMA BlockedIn ==
  ASSUME QueuesInv
  PROVE  /\ \A p \in PCB, s \in Sem : p \in Elems(s_procq[s]) => p \in Blocked
         /\ \A p \in Blocked, s, t \in Sem :
              p \in Elems(s_procq[s]) /\ p \in Elems(s_procq[t]) => s = t
         /\ \A s \in Mutex \ {Transm} : Elems(s_procq[s]) = {}
         /\ \A s \in Sem : Elems(s_procq[s]) \subseteq PCB
<1>1. \A s \in Sem : Elems(s_procq[s]) \subseteq PCB
  BY DEF Elems
<1>2. MasterSem # ShellSem /\ Transm # MasterSem /\ Transm # ShellSem
  BY DEF MasterSem, ShellSem, Transm
<1>3. \A s \in Mutex : s # MasterSem /\ s # ShellSem /\ s \in Sem
  BY DEF MasterSem, ShellSem, Transm, Mutex, Flash, Recv, Swap, Sem
<1> QED
  BY <1>1, <1>2, <1>3, ProcAssumption DEF QueuesInv, Blocked, Waits, WaitsAt, Uproc

\* The steps below are those of the running process p, which goes to label m.
Moves(p, m) == /\ p \in PCB /\ currProc = p /\ pc[p] # "none" /\ m # "none"
               /\ pc \in [PCB -> Labels] /\ Goto(p, m)

\* It alone moves; it is in no queue.
LEMMA Movement ==
  ASSUME QueuesInv, NEW p, NEW m, Moves(p, m)
  PROVE  /\ pc'[p] = m /\ \A q \in PCB : q # p => pc'[q] = pc[q]
         /\ Live' = Live /\ p \in Live /\ p \in Runnable
         /\ p \notin Elems(readyQueue) /\ p \notin io /\ p \notin Blocked
         /\ \A s \in Sem : p \notin Elems(s_procq[s])
<1>1. pc'[p] = m /\ \A q \in PCB : q # p => pc'[q] = pc[q]
  BY DEF Moves, Goto
<1>2. Live' = Live /\ p \in Live
  BY <1>1 DEF Live, Moves
<1>3. p \in Runnable /\ p \notin Elems(readyQueue)
  BY DEF Runnable, QueuesInv, Moves
<1>4. p \notin io /\ p \notin Blocked
  BY <1>3 DEF QueuesInv
<1>5. \A s \in Sem : p \notin Elems(s_procq[s])
  BY <1>4, BlockedIn DEF Moves
<1> QED
  BY <1>1, <1>2, <1>3, <1>4, <1>5

\* It goes on.
LEMMA StayQueues ==
  ASSUME QueuesInv, NEW p, NEW m, Moves(p, m),
         UNCHANGED <<io, currProc, readyQueue, s_procq>>
  PROVE  QueuesInv' /\ Runnable' = Runnable /\ Blocked' = Blocked
<1>1. Runnable' = Runnable /\ Blocked' = Blocked /\ Live' = Live
  BY Movement DEF Runnable, Blocked, Waits
<1>2. ASSUME NEW s \in Sem, NEW q \in Elems(s_procq[s])
      PROVE  WaitsAt(s, q)'
  <2>1. q \in PCB /\ q # p /\ pc'[q] = pc[q]
    BY Movement, BlockedIn
  <2> QED
    BY <2>1 DEF QueuesInv, WaitsAt
<1> QED
  BY <1>1, <1>2 DEF QueuesInv

\* It waits at a semaphore.
LEMMA BlockQueues ==
  ASSUME QueuesInv, NEW p, NEW m, Moves(p, m), NEW s \in Sem, WaitsAt(s, p)',
         s_procq' = [s_procq EXCEPT ![s] = InsertTail(@, p)],
         scheduler(readyQueue), UNCHANGED io
  PROVE  /\ QueuesInv'
         /\ Runnable' = Runnable \ {p} /\ Blocked' = Blocked \cup {p}
         /\ Elems(s_procq'[s]) = Elems(s_procq[s]) \cup {p}
         /\ \A t \in Sem : t # s => s_procq'[t] = s_procq[t]
<1>1. /\ IsQueue(s_procq'[s]) /\ Elems(s_procq'[s]) = Elems(s_procq[s]) \cup {p}
      /\ \A t \in Sem : t # s => s_procq'[t] = s_procq[t]
  BY Movement, InsertTailQueue DEF QueuesInv, Moves
<1>2. s_procq' \in [Sem -> SUBSET (PCB \X PCB)]
  <2>1. IsQueue(s_procq'[s]) => s_procq'[s] \in SUBSET (PCB \X PCB)
    BY DEF IsQueue
  <2> QED
    BY <1>1, <2>1 DEF QueuesInv
<1>3. /\ IsQueue(readyQueue') /\ IsSorted(readyQueue', p_prio)
      /\ currProc' \in PCB \cup {Null} /\ currProc' \notin Elems(readyQueue')
      /\ Runnable' = Elems(readyQueue)
  BY Dispatch DEF QueuesInv
<1>4. Runnable' = Runnable \ {p}
  BY <1>3, Movement DEF Runnable, Moves
<1>5. Blocked' = Blocked \cup {p}
  BY <1>1 DEF Blocked, Waits, Moves
<1>6. ASSUME NEW t \in Sem, NEW q \in Elems(s_procq'[t])
      PROVE  WaitsAt(t, q)'
  <2>1. CASE q = p
    <3>1. t = s
      BY <1>1, <2>1, Movement
    <3> QED
      BY <2>1, <3>1
  <2>2. CASE q # p
    <3>1. q \in Elems(s_procq[t]) /\ q \in PCB /\ pc'[q] = pc[q]
      BY <1>1, <2>2, Movement, BlockedIn
    <3> QED
      BY <3>1 DEF QueuesInv, WaitsAt
  <2> QED
    BY <2>1, <2>2
<1>7. Live' = Live /\ p \in Live /\ p \in Runnable /\ p \notin io /\ io' = io
  BY Movement
<1>8. Live' = Runnable' \cup io' \cup Blocked'
  BY <1>4, <1>5, <1>7 DEF QueuesInv
<1>9. Runnable' \cap io' = {} /\ Runnable' \cap Blocked' = {} /\ io' \cap Blocked' = {}
  BY <1>4, <1>5, <1>7 DEF QueuesInv
<1> QED
  BY <1>1, <1>2, <1>3, <1>4, <1>5, <1>6, <1>7, <1>8, <1>9 DEF QueuesInv

\* PASSEREN, whether or not the process waits.
LEMMA PassQueues ==
  ASSUME QueuesInv, NEW p, NEW m, Moves(p, m), NEW s \in Sem, PASSEREN(p, s),
         sem[s] = 0 => WaitsAt(s, p)'
  PROVE  QueuesInv'
BY StayQueues, BlockQueues DEF PASSEREN, Stay

\* It waits for a device.
LEMMA DeviceQueues ==
  ASSUME QueuesInv, NEW p, NEW m, Moves(p, m), DOIO(p)
  PROVE  /\ QueuesInv'
         /\ Elems(readyQueue) # {} => currProc' = headProcQ(readyQueue)
<1>1. /\ IsQueue(readyQueue') /\ IsSorted(readyQueue', p_prio)
      /\ currProc' \in PCB \cup {Null} /\ currProc' \notin Elems(readyQueue')
      /\ Runnable' = Elems(readyQueue)
      /\ Elems(readyQueue) # {} => currProc' = headProcQ(readyQueue)
  BY Dispatch DEF QueuesInv, DOIO
<1>2. Runnable' = Runnable \ {p}
  BY <1>1, Movement DEF Runnable, Moves
<1>3. io' = io \cup {p} /\ s_procq' = s_procq /\ Blocked' = Blocked
  BY DEF DOIO, semVars, Blocked, Waits
<1>4. ASSUME NEW s \in Sem, NEW q \in Elems(s_procq[s])
      PROVE  WaitsAt(s, q)'
  <2>1. q \in PCB /\ q # p /\ pc'[q] = pc[q]
    BY Movement, BlockedIn
  <2> QED
    BY <2>1 DEF QueuesInv, WaitsAt
<1>5. /\ Live' = Live /\ p \in Live /\ p \in Runnable /\ p \notin io /\ p \notin Blocked
      /\ p \in PCB
  BY Movement DEF Moves
<1>6. Live' = Runnable' \cup io' \cup Blocked'
  BY <1>2, <1>3, <1>5 DEF QueuesInv
<1>7. Runnable' \cap io' = {} /\ Runnable' \cap Blocked' = {} /\ io' \cap Blocked' = {}
  BY <1>2, <1>3, <1>5 DEF QueuesInv
<1> QED
  BY <1>1, <1>3, <1>4, <1>5, <1>6, <1>7 DEF QueuesInv

\* The first process in the queue of a semaphore is woken.
LEMMA WakeQueues ==
  ASSUME QueuesInv, NEW p, NEW m, Moves(p, m), NEW s \in Sem,
         Elems(s_procq[s]) # {},
         s_procq' = [s_procq EXCEPT ![s] = removeProcQ(@)],
         MakeReady(headProcQ(s_procq[s])), UNCHANGED io
  PROVE  /\ QueuesInv' /\ currProc' = p
         /\ Elems(s_procq'[s]) = Elems(s_procq[s]) \ {headProcQ(s_procq[s])}
         /\ \A t \in Sem : t # s => s_procq'[t] = s_procq[t]
<1> DEFINE h == headProcQ(s_procq[s])
<1>1. h \in Elems(s_procq[s]) /\ h \in PCB
  BY HeadFirst DEF QueuesInv, Elems
<1>2. h \in Blocked /\ h \notin Runnable /\ h # p /\ h \in Live
  BY <1>1, BlockedIn, Movement DEF QueuesInv
<1>3. /\ s_procq'[s] = Without(s_procq[s], {h})
      /\ \A t \in Sem : t # s => s_procq'[t] = s_procq[t]
  BY DEF removeProcQ, outProcQ, QueuesInv
<1>4. IsQueue(s_procq'[s]) /\ Elems(s_procq'[s]) = Elems(s_procq[s]) \ {h}
  BY <1>3, WithoutQueue DEF QueuesInv
<1>5. s_procq' \in [Sem -> SUBSET (PCB \X PCB)]
  <2>1. IsQueue(s_procq'[s]) => s_procq'[s] \in SUBSET (PCB \X PCB)
    BY DEF IsQueue
  <2> QED
    BY <1>3, <1>4, <2>1 DEF QueuesInv
<1>6. /\ IsQueue(readyQueue') /\ IsSorted(readyQueue', p_prio)
      /\ currProc' \in PCB \cup {Null} /\ currProc' \notin Elems(readyQueue')
      /\ Runnable' = Runnable \cup {h}
      /\ currProc # Null => currProc' = currProc
  BY <1>1, <1>2, Readied
<1>7. currProc' = p
  BY <1>6, ProcAssumption DEF Moves
<1>8. Blocked' = Blocked \ {h}
  <2>1. \A q \in PCB, t \in Sem : q # h => (q \in Elems(s_procq'[t]) <=> q \in Elems(s_procq[t]))
    BY <1>3, <1>4
  <2>2. \A t \in Sem : h \notin Elems(s_procq'[t])
    BY <1>1, <1>2, <1>3, <1>4, BlockedIn
  <2> QED
    BY <2>1, <2>2 DEF Blocked, Waits
<1>9. ASSUME NEW t \in Sem, NEW q \in Elems(s_procq'[t])
      PROVE  WaitsAt(t, q)'
  <2>1. q \in Elems(s_procq[t])
    BY <1>3, <1>4
  <2>2. q \in PCB /\ q # p /\ pc'[q] = pc[q]
    BY <2>1, Movement, BlockedIn
  <2> QED
    BY <2>1, <2>2 DEF QueuesInv, WaitsAt
<1>10. Live' = Live /\ io' = io
  BY Movement
<1>11. Live' = Runnable' \cup io' \cup Blocked'
  BY <1>2, <1>6, <1>8, <1>10 DEF QueuesInv
<1>12. Runnable' \cap io' = {} /\ Runnable' \cap Blocked' = {} /\ io' \cap Blocked' = {}
  BY <1>2, <1>6, <1>8, <1>10 DEF QueuesInv
<1> QED
  BY <1>3, <1>4, <1>5, <1>6, <1>7, <1>9, <1>10, <1>11, <1>12 DEF QueuesInv

\* VERHOGEN, whether or not a process is woken.
LEMMA VerhQueues ==
  ASSUME QueuesInv, NEW p, NEW m, Moves(p, m), NEW s \in Sem, VERHOGEN(s)
  PROVE  QueuesInv' /\ currProc' = p
BY StayQueues, WakeQueues DEF VERHOGEN, Stay, emptyProcQ, Moves

\* A new process is ready.
LEMMA CreateQueues ==
  ASSUME QueuesInv, NEW p \in PCB, currProc = p, pc[p] # "none",
         pc \in [PCB -> Labels], NEW m, m # "none",
         NEW q \in PCB, pc[q] = "none", NEW x, CREATEPROCESS(p, q, x, m)
  PROVE  QueuesInv' /\ currProc' = p
<1>1. /\ pc'[p] = m /\ pc'[q] = "user" /\ p # q
      /\ \A r \in PCB \ {p, q} : pc'[r] = pc[r]
      /\ UNCHANGED <<s_procq, io>>
  BY DEF CREATEPROCESS, semVars
<1>2. Live' = Live \cup {q} /\ q \notin Live /\ p \in Live
  BY <1>1 DEF Live
<1>3. q \notin Runnable /\ q \notin io /\ q \notin Blocked
  BY <1>2 DEF QueuesInv
<1>4. /\ IsQueue(readyQueue') /\ IsSorted(readyQueue', p_prio)
      /\ currProc' \in PCB \cup {Null} /\ currProc' \notin Elems(readyQueue')
      /\ Runnable' = Runnable \cup {q}
      /\ currProc # Null => currProc' = currProc
  BY <1>3, Readied DEF CREATEPROCESS
<1>5. currProc' = p
  BY <1>4, ProcAssumption
<1>6. p \in Runnable /\ p \notin Blocked
  BY DEF Runnable, QueuesInv
<1>7. Blocked' = Blocked
  BY <1>1 DEF Blocked, Waits
<1>8. ASSUME NEW s \in Sem, NEW r \in Elems(s_procq[s])
      PROVE  WaitsAt(s, r)'
  <2>1. r \in PCB /\ r \in Blocked
    BY BlockedIn
  <2>2. pc'[r] = pc[r]
    BY <1>1, <1>3, <1>6, <2>1
  <2> QED
    BY <2>2 DEF QueuesInv, WaitsAt
<1>9. Live' = Runnable' \cup io' \cup Blocked'
  BY <1>1, <1>2, <1>4, <1>7 DEF QueuesInv
<1>10. Runnable' \cap io' = {} /\ Runnable' \cap Blocked' = {} /\ io' \cap Blocked' = {}
  BY <1>1, <1>3, <1>4, <1>7 DEF QueuesInv
<1> QED
  BY <1>1, <1>4, <1>5, <1>8, <1>9, <1>10 DEF QueuesInv

\* Whoever dies is in no queue afterwards.
LEMMA TermQueues ==
  ASSUME QueuesInv, NEW p \in PCB, currProc = p, pc[p] # "none", TERMPROCESS(p)
  PROVE  /\ QueuesInv' /\ Live' = Live \ Offspring(p) /\ p \in Offspring(p)
         /\ \A q \in PCB : pc'[q] = IF q \in Offspring(p) THEN "none" ELSE pc[q]
         /\ \A s \in Sem : Elems(s_procq'[s]) = Elems(s_procq[s]) \ Offspring(p)
<1> DEFINE D == Offspring(p)
<1>1. /\ \A q \in PCB : pc'[q] = IF q \in D THEN "none" ELSE pc[q]
      /\ io' = io \ D /\ scheduler(Without(readyQueue, D))
      /\ s_procq' = [s \in Sem |-> Without(s_procq[s], D)]
  BY DEF TERMPROCESS
<1>2. p \in D
  BY ProcAssumption DEF Offspring, Live
<1>3. Live' = Live \ D
  BY <1>1 DEF Live
<1>4. /\ IsQueue(Without(readyQueue, D)) /\ IsSorted(Without(readyQueue, D), p_prio)
      /\ Elems(Without(readyQueue, D)) = Elems(readyQueue) \ D
  BY WithoutQueue, WithoutSorted DEF QueuesInv
<1>5. /\ IsQueue(readyQueue') /\ IsSorted(readyQueue', p_prio)
      /\ currProc' \in PCB \cup {Null} /\ currProc' \notin Elems(readyQueue')
      /\ Runnable' = Elems(readyQueue) \ D
  BY <1>1, <1>4, Dispatch
<1>6. Runnable' = Runnable \ D
  BY <1>2, <1>5 DEF Runnable
<1>7. \A s \in Sem : /\ IsQueue(s_procq'[s])
                     /\ Elems(s_procq'[s]) = Elems(s_procq[s]) \ D
  BY <1>1, WithoutQueue DEF QueuesInv
<1>8. s_procq' \in [Sem -> SUBSET (PCB \X PCB)]
  BY <1>1 DEF Without
<1>9. Blocked' = Blocked \ D
  BY <1>7 DEF Blocked, Waits
<1>10. ASSUME NEW s \in Sem, NEW q \in Elems(s_procq'[s])
       PROVE  WaitsAt(s, q)'
  <2>1. q \in Elems(s_procq[s]) /\ q \notin D /\ q \in PCB
    BY <1>7, BlockedIn
  <2>2. pc'[q] = pc[q]
    BY <1>1, <2>1
  <2> QED
    BY <2>1, <2>2 DEF QueuesInv, WaitsAt
<1>11. Live' = Runnable' \cup io' \cup Blocked'
  BY <1>1, <1>3, <1>6, <1>9 DEF QueuesInv
<1>12. Runnable' \cap io' = {} /\ Runnable' \cap Blocked' = {} /\ io' \cap Blocked' = {}
  BY <1>1, <1>6, <1>9 DEF QueuesInv
<1>13. io' \in SUBSET PCB
  BY <1>1 DEF QueuesInv
<1> QED
  BY <1>1, <1>2, <1>3, <1>5, <1>7, <1>8, <1>10, <1>11, <1>12, <1>13 DEF QueuesInv

\* A device answers, a time slice ends.
LEMMA IoDoneQueues ==
  ASSUME QueuesInv, NEW p \in PCB, IoDone(p)
  PROVE  /\ QueuesInv' /\ UNCHANGED <<pc, s_procq>>
         /\ currProc # Null => currProc' = currProc
<1>1. p \in io /\ io' = io \ {p} /\ MakeReady(p) /\ UNCHANGED <<pc, s_procq>>
  BY DEF IoDone, semVars
<1>2. p \notin Runnable /\ p \notin Blocked
  BY <1>1 DEF QueuesInv
<1>3. /\ IsQueue(readyQueue') /\ IsSorted(readyQueue', p_prio)
      /\ currProc' \in PCB \cup {Null} /\ currProc' \notin Elems(readyQueue')
      /\ Runnable' = Runnable \cup {p}
      /\ currProc # Null => currProc' = currProc
  BY <1>1, <1>2, Readied
<1>4. Blocked' = Blocked /\ Live' = Live
  BY <1>1 DEF Blocked, Waits, Live
<1>5. Live' = Runnable' \cup io' \cup Blocked'
  BY <1>1, <1>3, <1>4 DEF QueuesInv
<1>6. Runnable' \cap io' = {} /\ Runnable' \cap Blocked' = {} /\ io' \cap Blocked' = {}
  BY <1>1, <1>2, <1>3, <1>4 DEF QueuesInv
<1>7. \A s \in Sem : \A q \in Elems(s_procq'[s]) : WaitsAt(s, q)'
  BY <1>1 DEF QueuesInv, WaitsAt
<1> QED
  BY <1>1, <1>3, <1>5, <1>6, <1>7 DEF QueuesInv

\* A time slice ends.
LEMMA SliceQueues ==
  ASSUME QueuesInv, NEW p \in PCB, PLTInterrupt(p)
  PROVE  QueuesInv' /\ UNCHANGED <<pc, s_procq>>
<1>1. /\ currProc = p /\ scheduler(insertProcQ(readyQueue, p, p_prio))
      /\ UNCHANGED <<pc, s_procq, io>>
  BY DEF PLTInterrupt, Running, semVars
<1>2. p \in PCB \ Elems(readyQueue)
  BY <1>1 DEF QueuesInv
<1>3. LET q == insertProcQ(readyQueue, p, p_prio)
      IN  IsQueue(q) /\ IsSorted(q, p_prio) /\ Elems(q) = Elems(readyQueue) \cup {p}
  BY <1>2, PrioType, InsertProcQueue, InsertProcSorted DEF QueuesInv
<1>4. /\ IsQueue(readyQueue') /\ IsSorted(readyQueue', p_prio)
      /\ currProc' \in PCB \cup {Null} /\ currProc' \notin Elems(readyQueue')
      /\ Runnable' = Elems(readyQueue) \cup {p}
  BY <1>1, <1>3, Dispatch
<1>5. Runnable' = Runnable /\ Blocked' = Blocked /\ Live' = Live
  BY <1>1, <1>4 DEF Runnable, Blocked, Waits, Live
<1>6. \A s \in Sem : \A q \in Elems(s_procq'[s]) : WaitsAt(s, q)'
  BY <1>1 DEF QueuesInv, WaitsAt
<1> QED
  BY <1>1, <1>4, <1>5, <1>6 DEF QueuesInv

\* The queues are empty, and the instantiator waits for its device.
LEMMA QueuesInit == Init => QueuesInv
<1> SUFFICES ASSUME Init PROVE QueuesInv
  OBVIOUS
<1>1. /\ readyQueue = {} /\ s_procq = [s \in Sem |-> {}] /\ currProc = Null /\ io = {Inst}
      /\ pc = [p \in PCB |-> IF p = Inst THEN "header" ELSE "none"]
  BY DEF Init, mkEmptyProcQ
<1>2. IsQueue({}) /\ Elems({}) = {}
  BY EmptyIsQueue
<1>3. Runnable = {} /\ Blocked = {} /\ Live = {Inst}
  BY <1>1, <1>2, ProcAssumption DEF Runnable, Blocked, Waits, Live
<1> QED
  BY <1>1, <1>2, <1>3, ProcAssumption DEF QueuesInv, IsSorted

-----------------------------------------------------------------------------
(* One process at a time, and its mutexes *)

\* Where a process may hold a mutex other than the transmitter's.
InnerLabels ==
  PagerLabels \cup {"trap", "trFree", "trV", "trRx", "trRxV", "exRead", "exV",
                    "rxLoop", "rxStat", "rxStore", "rxV"}

\* The semaphores are different from one another.
LEMMA SemFacts ==
  /\ Swap # Transm /\ Swap # Recv /\ Recv # Transm
  /\ \A a : Flash(a) # Swap /\ Flash(a) # Recv /\ Flash(a) # Transm
            /\ Flash(a) # ShellSem /\ Flash(a) # MasterSem
  /\ \A a, b : Flash(a) = Flash(b) => a = b
  /\ \A s \in {Swap, Recv, Transm} : s # ShellSem /\ s # MasterSem
  /\ ShellSem # MasterSem
  /\ {Swap, Recv, Transm} \subseteq Mutex
  /\ \A a \in Support : Flash(a) \in Mutex
  /\ \A s \in Mutex : s # ShellSem /\ s # MasterSem /\ s \in Sem
  /\ {ShellSem, MasterSem} \subseteq Sem
BY DEF Swap, Transm, Recv, Flash, ShellSem, MasterSem, Mutex, Sem, Support

\* The mutexes by label.
LEMMA KeepsFacts ==
  ASSUME NEW l, NEW r, NEW v, NEW o, NEW n
  PROVE  /\ l \notin InnerLabels => Keeps(l, r) \subseteq {Transm}
         /\ l \notin InnerLabels => KeepsFlash(l, v, o, n) = {}
         /\ l \in {"user", "return", "halt", "shellEnd", "header", "none", "exStat", "exWait"}
              => Keeps(l, r) = {} /\ KeepsFlash(l, v, o, n) = {}
BY DEF Keeps, KeepsFlash, InnerLabels, PagerLabels, DyingLabels

\* While a process of the support level is active, no other is, and what the
\* others hold is at most the transmitter.
LEMMA OthersIdle ==
  ASSUME LabelsInv, QueuesInv, ActiveInv, NEW p \in Uproc, currProc = p,
         pc[p] \notin Gone, pc[p] # "exWait"
  PROVE  /\ Busy(p)
         /\ \A q \in PCB : q # p => /\ ~Busy(q) /\ pc[q] \notin InnerLabels
                                    /\ q \in Uproc => pc[q] # "txLoop"
<1>1. p \notin Blocked /\ p \in PCB
  BY DEF QueuesInv, Runnable, Uproc
<1>2. Shell \in Elems(s_procq[ShellSem]) => Shell \in Blocked /\ pc[Shell] = "return"
  BY ProcAssumption, BlockedIn, SemFacts DEF QueuesInv, WaitsAt
<1>3. Busy(p)
  BY <1>1, <1>2 DEF Busy, Asleep
<1>4. ASSUME NEW q \in PCB, q # p, Busy(q) PROVE FALSE
  <2>1. CASE p = Shell
    BY <1>3, <1>4, <2>1 DEF Busy, ActiveInv, Child
  <2>2. CASE q = Shell
    BY <1>3, <1>4, <2>2 DEF Busy, ActiveInv, Child
  <2>3. CASE p # Shell /\ q # Shell
    BY <1>3, <1>4, <2>3 DEF Busy, ActiveInv, Child
  <2> QED
    BY <2>1, <2>2, <2>3
<1>5. ASSUME NEW q \in PCB, pc[q] \in InnerLabels \/ (q \in Uproc /\ pc[q] = "txLoop")
      PROVE  Busy(q)
  <2>1. q # Inst
    BY <1>5 DEF LabelsInv, InnerLabels, PagerLabels, InstLabels, Uproc
  <2>2. pc[q] \notin Gone /\ pc[q] # "exWait" /\ pc[q] # "return"
    BY <1>5 DEF InnerLabels, PagerLabels, Gone
  <2> QED
    BY <1>2, <2>1, <2>2 DEF Busy, Asleep, Uproc
<1> QED
  BY <1>3, <1>4, <1>5

\* What the others hold does not depend on what p does.
LEMMA HeldByOthers ==
  ASSUME LabelsInv, QueuesInv, ActiveInv, NEW p \in Uproc, currProc = p,
         pc[p] \notin Gone, pc[p] # "exWait",
         \A q \in PCB : q # p => pc'[q] = pc[q] /\ ret'[q] = ret[q]
                                 /\ (q \in Blocked' <=> q \in Blocked)
  PROVE  \A q \in PCB : q # p => Held(q)' = Held(q) /\ Held(q) \subseteq {Transm}
<1> SUFFICES ASSUME NEW q \in PCB, q # p
             PROVE  Held(q)' = Held(q) /\ Held(q) \subseteq {Transm}
  OBVIOUS
<1>1. pc[q] \notin InnerLabels /\ pc'[q] = pc[q] /\ ret'[q] = ret[q]
  BY OthersIdle
<1>2. FlashHeld(q) = {} /\ FlashHeld(q)' = {}
  BY <1>1, KeepsFacts DEF FlashHeld
<1> QED
  BY <1>1, <1>2, KeepsFacts DEF Held, Own

\* The active process goes to label m and stays active.
Enters(p, m) ==
  /\ p \in Uproc /\ Moves(p, m)
  /\ pc[p] \notin Gone \cup {"exWait"}
  /\ m \in Labels \ (Gone \cup {"exWait"} \cup InstLabels)
  /\ p \in Child => m \notin ExLabels
  /\ ret' \in [PCB -> {"user", "txLoop", "rxStore"}]
  /\ \A q \in PCB : q # p => ret'[q] = ret[q]
  /\ ret'[p] # "user" => m \in PagerLabels \cup DyingLabels
  /\ m = "trRxV" => ret'[p] = "rxStore"

\* What it acquires was free, what it releases it held.
LEMMA InnerStep ==
  ASSUME CoreInv, QueuesInv', NEW p, NEW m, Enters(p, m),
         \A q \in PCB : q # p => (q \in Blocked' <=> q \in Blocked),
         sem' \in [Sem -> {0, 1}],
         \A s \in {ShellSem, MasterSem} :
           sem'[s] = sem[s] /\ Elems(s_procq'[s]) = Elems(s_procq[s]),
         \A s \in Mutex \ {Transm} : sem[s] = 0 <=> s \in Held(p)
           => (sem'[s] = 0 <=> s \in Held(p)'),
         Transm \in Held(p)' => /\ sem'[Transm] = 0
                                /\ Transm \in Held(p) \/ sem[Transm] # 0,
         Transm \notin Held(p) => sem'[Transm] = 0 \/ sem'[Transm] = sem[Transm]
  PROVE  LabelsInv' /\ ActiveInv' /\ MutexInv'
<1> USE DEF Enters
<1>1. /\ pc' \in [PCB -> Labels] /\ pc'[p] = m /\ \A q \in PCB : q # p => pc'[q] = pc[q]
      /\ p \in PCB
  BY Movement DEF Moves, Goto, CoreInv
<1>2. LabelsInv'
  <2>1. pc'[Inst] \in InstLabels \cup {"none"}
    BY <1>1, ProcAssumption DEF CoreInv, LabelsInv, Uproc
  <2>2. \A q \in Uproc : pc'[q] \notin InstLabels
    BY <1>1 DEF CoreInv, LabelsInv, Uproc
  <2>3. \A c \in Child : pc'[c] \notin ExLabels
    BY <1>1 DEF CoreInv, LabelsInv, Uproc, Child
  <2>4. \A q \in PCB : ret'[q] # "user" => pc'[q] \in PagerLabels \cup DyingLabels
    BY <1>1 DEF CoreInv, LabelsInv
  <2>5. \A q \in PCB : pc'[q] = "trRxV" => ret'[q] = "rxStore"
    BY <1>1 DEF CoreInv, LabelsInv
  <2> QED
    BY <1>1, <2>1, <2>2, <2>3, <2>4, <2>5 DEF LabelsInv
<1>3. pc[p] \notin Gone /\ pc'[p] \notin Gone /\ pc[p] # "exWait" /\ pc'[p] # "exWait"
  BY <1>1
<1>4. Busy(p) /\ \A q \in PCB : q # p => ~Busy(q)
  BY <1>3, OthersIdle DEF CoreInv, Moves
<1>5. ActiveInv'
  <2>1. p # Inst /\ p \notin Elems(s_procq[ShellSem])
    BY Movement, SemFacts DEF Uproc, CoreInv
  <2>2. /\ sem'[ShellSem] = sem[ShellSem] /\ sem'[MasterSem] = sem[MasterSem]
        /\ Elems(s_procq'[ShellSem]) = Elems(s_procq[ShellSem])
        /\ Elems(s_procq'[MasterSem]) = Elems(s_procq[MasterSem])
    OBVIOUS
  <2>3. /\ pc'[Inst] = pc[Inst] /\ Inst \in PCB /\ Shell \in PCB
        /\ \A q \in PCB : pc'[q] \notin Gone <=> pc[q] \notin Gone
        /\ \A q \in PCB : pc'[q] = "exWait" <=> pc[q] = "exWait"
    BY <1>1, <1>3, <2>1, ProcAssumption
  <2>4. Child \subseteq PCB /\ Uproc \subseteq PCB
    BY DEF Child, Uproc
  <2>5. pc[Inst] # "header"
    BY <1>3 DEF CoreInv, ActiveInv, Gone
  <2>6. Asleep' = Asleep
    BY <2>2, <2>3 DEF Asleep
  <2> QED
    BY <2>2, <2>3, <2>4, <2>5, <2>6 DEF CoreInv, ActiveInv
<1>6. \A q \in PCB : q # p => Held(q)' = Held(q) /\ Held(q) \subseteq {Transm}
  BY <1>1, <1>3, HeldByOthers DEF CoreInv, Moves
<1>7. MutexInv'
  <2>1. ASSUME NEW s \in Mutex \ {Transm}
        PROVE  sem'[s] = 0 <=> \E q \in PCB : s \in Held(q)'
    <3>1. sem[s] = 0 <=> s \in Held(p)
      BY <1>1, <1>6 DEF CoreInv, MutexInv
    <3> QED
      BY <1>1, <1>6, <3>1
  <2>2. ASSUME NEW q \in PCB, Transm \in Held(q)' PROVE sem'[Transm] = 0
    BY <1>1, <1>6, <2>2, SemFacts DEF CoreInv, MutexInv
  <2>3. ASSUME NEW q \in PCB, NEW r \in PCB, Transm \in Held(q)', Transm \in Held(r)'
        PROVE  q = r
    BY <1>1, <1>6, <2>3 DEF CoreInv, MutexInv
  <2> QED
    BY <2>1, <2>2, <2>3 DEF MutexInv
<1> QED
  BY <1>2, <1>5, <1>7

\* What the active process holds, before and after.
LEMMA OwnHeld ==
  ASSUME CoreInv, NEW p, NEW m, Enters(p, m)
  PROVE  /\ Held(p) = Own(p) /\ p \in PCB
         /\ \A s \in Mutex \ {Transm} : sem[s] = 0 <=> s \in Own(p)
         /\ Transm \in Own(p) => sem[Transm] = 0
         /\ \A s \in Mutex : s \in Own(p) => Elems(s_procq[s]) = {}
<1>1. p \in PCB /\ p \notin Blocked /\ currProc = p
  BY Movement DEF Enters, Moves, CoreInv
<1>2. Held(p) = Own(p)
  BY <1>1 DEF Held
<1>3. \A q \in PCB : q # p => pc[q] \notin InnerLabels /\ (q \in Uproc => pc[q] # "txLoop")
  BY <1>1, OthersIdle DEF Enters, CoreInv
<1>4. \A q \in PCB : q # p => Held(q) \subseteq {Transm}
  BY <1>3, KeepsFacts DEF Held, Own, FlashHeld
<1>5. \A s \in Mutex \ {Transm} : sem[s] = 0 <=> s \in Own(p)
  BY <1>1, <1>2, <1>4 DEF CoreInv, MutexInv
<1>6. Transm \in Own(p) => sem[Transm] = 0
  BY <1>1, <1>2 DEF CoreInv, MutexInv
<1>7. Elems(s_procq[Transm]) = {}
  <2> SUFFICES ASSUME NEW q \in Elems(s_procq[Transm]) PROVE FALSE
    OBVIOUS
  <2>1. q \in PCB /\ q \in Blocked /\ q \in Uproc /\ pc[q] = "txLoop"
    BY BlockedIn, SemFacts DEF CoreInv, QueuesInv, WaitsAt
  <2> QED
    BY <1>1, <1>3, <2>1
<1>8. \A s \in Mutex \ {Transm} : Elems(s_procq[s]) = {}
  BY BlockedIn DEF CoreInv
<1> QED
  BY <1>1, <1>2, <1>5, <1>6, <1>7, <1>8

\* It does nothing about mutexes.
LEMMA LocalCore ==
  ASSUME CoreInv, NEW p, NEW m, Enters(p, m), UNCHANGED <<sem, s_procq>>,
         UNCHANGED <<io, currProc, readyQueue>> \/ DOIO(p),
         Own(p)' = Own(p)
  PROVE  CoreInv'
<1>1. QueuesInv' /\ Blocked' = Blocked /\ p \notin Blocked
  BY StayQueues, DeviceQueues, Movement DEF Enters, CoreInv, Blocked, Waits
<1>2. Held(p)' = Held(p)
  BY <1>1 DEF Held
<1> QED
  BY <1>1, <1>2, InnerStep, OwnHeld DEF CoreInv, MutexInv

\* It acquires a mutex, or waits for the transmitter.
LEMMA PassCore ==
  ASSUME CoreInv, NEW p, NEW m, Enters(p, m), NEW s \in Mutex, PASSEREN(p, s),
         s \notin Own(p), Own(p)' = Own(p) \cup {s},
         s = Transm => m = "txLoop" /\ Own(p) = {}
  PROVE  CoreInv'
<1>0. Moves(p, m) /\ p \in Uproc /\ QueuesInv /\ s \in Sem /\ s # ShellSem /\ s # MasterSem
  BY SemFacts DEF Enters, CoreInv
<1>1. pc'[p] = m /\ p \notin Blocked /\ p \in PCB
  BY <1>0, Movement DEF Moves
<1>2. CASE sem[s] = 0
  <2>1. s = Transm /\ m = "txLoop" /\ Own(p) = {}
    BY <1>2, OwnHeld
  <2>2. WaitsAt(s, p)'
    BY <1>0, <1>1, <2>1 DEF WaitsAt
  <2>3. /\ s_procq' = [s_procq EXCEPT ![s] = InsertTail(@, p)]
        /\ scheduler(readyQueue) /\ UNCHANGED io /\ sem' = sem
    BY <1>2 DEF PASSEREN
  <2>4. /\ QueuesInv' /\ Blocked' = Blocked \cup {p}
        /\ \A t \in Sem : t # s => s_procq'[t] = s_procq[t]
    BY <1>0, <2>2, <2>3, BlockQueues
  <2>5. Held(p)' = {} /\ Held(p) = {}
    BY <1>1, <2>1, <2>4 DEF Held
  <2> QED
    BY <1>0, <1>2, <2>1, <2>3, <2>4, <2>5, SemFacts, InnerStep DEF CoreInv, MutexInv
<1>3. CASE sem[s] # 0
  <2>1. /\ sem' = [sem EXCEPT ![s] = @ - 1] /\ s_procq' = s_procq
        /\ UNCHANGED <<io, currProc, readyQueue>>
    BY <1>3 DEF PASSEREN, Stay
  <2>2. QueuesInv' /\ Blocked' = Blocked
    BY <1>0, <2>1, StayQueues
  <2>3. sem' \in [Sem -> {0, 1}] /\ sem'[s] = 0 /\ \A t \in Sem : t # s => sem'[t] = sem[t]
    BY <1>0, <1>3, <2>1 DEF CoreInv, MutexInv
  <2>4. Held(p)' = Own(p) \cup {s} /\ Held(p) = Own(p)
    BY <1>1, <2>2 DEF Held
  <2> QED
    BY <1>0, <1>3, <2>1, <2>2, <2>3, <2>4, OwnHeld, SemFacts, InnerStep DEF CoreInv
<1> QED
  BY <1>2, <1>3

\* It releases a mutex; nobody waits for it.
LEMMA VerhCore ==
  ASSUME CoreInv, NEW p, NEW m, Enters(p, m), NEW s \in Mutex, VERHOGEN(s),
         s \in Own(p), Own(p)' = Own(p) \ {s}
  PROVE  CoreInv'
<1>0. Moves(p, m) /\ p \in Uproc /\ QueuesInv /\ s \in Sem /\ s # ShellSem /\ s # MasterSem
  BY SemFacts DEF Enters, CoreInv
<1>1. pc'[p] = m /\ p \notin Blocked /\ p \in PCB
  BY <1>0, Movement DEF Moves
<1>2. sem[s] = 0 /\ Elems(s_procq[s]) = {}
  BY OwnHeld
<1>3. /\ sem' = [sem EXCEPT ![s] = @ + 1] /\ s_procq' = s_procq
      /\ UNCHANGED <<io, currProc, readyQueue>>
  BY <1>2 DEF VERHOGEN, Stay, emptyProcQ
<1>4. QueuesInv' /\ Blocked' = Blocked
  BY <1>0, <1>3, StayQueues
<1>5. sem' \in [Sem -> {0, 1}] /\ sem'[s] = 1 /\ \A t \in Sem : t # s => sem'[t] = sem[t]
  BY <1>0, <1>2, <1>3 DEF CoreInv, MutexInv
<1>6. Held(p)' = Own(p) \ {s} /\ Held(p) = Own(p)
  BY <1>1, <1>4 DEF Held
<1> QED
  BY <1>0, <1>2, <1>3, <1>4, <1>5, <1>6, OwnHeld, SemFacts, InnerStep DEF CoreInv

\* How a running process of the support level enters a label.
LEMMA Entering ==
  ASSUME CoreInv, NEW p \in Uproc, NEW l, NEW m, At(p, l), Goto(p, m), ret' = ret,
         l \notin Gone \cup {"exWait"},
         m \in Labels \ (Gone \cup {"exWait"} \cup InstLabels),
         p \in Child => m \notin ExLabels,
         l \in PagerLabels \cup DyingLabels => m \in PagerLabels \cup DyingLabels,
         m = "trRxV" => ret[p] = "rxStore"
  PROVE  /\ Enters(p, m) /\ Moves(p, m) /\ p \in PCB /\ pc[p] = l /\ pc'[p] = m
         /\ ret[p] \in {"user", "txLoop", "rxStore"}
         /\ l \notin PagerLabels \cup DyingLabels => ret[p] = "user"
<1>1. p \in PCB /\ pc[p] = l /\ currProc = p
  BY DEF Uproc, At, Running
<1>2. l # "none" /\ m # "none"
  BY DEF Gone
<1>3. Moves(p, m)
  BY <1>1, <1>2 DEF Moves, CoreInv, LabelsInv
<1>4. pc'[p] = m
  BY <1>3, Movement DEF CoreInv
<1> QED
  BY <1>1, <1>3, <1>4 DEF Enters, CoreInv, LabelsInv

\* What a process at label l of a code that was entered from r holds.
LEMMA OwnAt ==
  ASSUME NEW p, NEW l, pc[p] = l
  PROVE  Own(p) = Keeps(l, ret[p]) \cup
                  KeepsFlash(l, Flash(swapPool[frame[p]]), Flash(sup_asid[sup[p]]),
                             Flash(sup_asid[newSup]))
BY DEF Own, FlashHeld

\* The same after a step.
LEMMA OwnAtNext ==
  ASSUME NEW p, NEW m, pc'[p] = m
  PROVE  Own(p)' = Keeps(m, ret'[p]) \cup
                   KeepsFlash(m, Flash(swapPool'[frame'[p]]), Flash(sup_asid'[sup'[p]]),
                              Flash(sup_asid'[newSup']))
BY DEF Own, FlashHeld

\* The steps of the operations on the list of the free support structures.
TakeArrows ==
  {<<"exArg", "exHead">>, <<"exHead", "exLinks">>, <<"exLinks", "exPrev">>,
   <<"exLinks", "exNext">>, <<"exPrev", "exDel1">>, <<"exNext", "exDel1">>,
   <<"exDel1", "exDel2">>, <<"exDel2", "exDel3">>, <<"exDel3", "exDel4">>,
   <<"exDel4", "exP">>}
GiveArrows ==
  {<<"exStat", "exAdd1">>, <<"exAdd1", "exAdd2">>, <<"exAdd2", "exAdd3">>,
   <<"exAdd3", "exAdd4">>, <<"exAdd4", "return">>}
LeaveArrows ==
  {<<"trGive", "trAdd1">>, <<"trAdd1", "trAdd2">>, <<"trAdd2", "trAdd3">>,
   <<"trAdd3", "trAdd4">>, <<"trAdd4", "trTlb">>}

\* Each step of an operation follows one of them.
LEMMA ListSteps ==
  ASSUME NEW p
  PROVE  /\ allocateSupport(p) =>
              /\ UNCHANGED <<procVars, poolVars, panic>>
              /\ \E l, m : <<l, m>> \in TakeArrows /\ At(p, l) /\ Local(p, m)
         /\ Abandon(p) =>
              /\ UNCHANGED <<procVars, poolVars, panic>>
              /\ \E l, m : <<l, m>> \in GiveArrows /\ At(p, l) /\ Local(p, m)
         /\ deallocateSupport(p, sup[p], ProcessGives) =>
              \E l, m : <<l, m>> \in LeaveArrows /\ At(p, l) /\ Local(p, m)
<1>1. ASSUME allocateSupport(p)
      PROVE  /\ UNCHANGED <<procVars, poolVars, panic>>
             /\ \E l, m : <<l, m>> \in TakeArrows /\ At(p, l) /\ Local(p, m)
  BY <1>1 DEF allocateSupport, TakeArrows
<1>2. ASSUME Abandon(p)
      PROVE  /\ UNCHANGED <<procVars, poolVars, panic>>
             /\ \E l, m : <<l, m>> \in GiveArrows /\ At(p, l) /\ Local(p, m)
  BY <1>2 DEF Abandon, deallocateSupport, ExecuteGives, GiveArrows
<1>3. ASSUME deallocateSupport(p, sup[p], ProcessGives)
      PROVE  \E l, m : <<l, m>> \in LeaveArrows /\ At(p, l) /\ Local(p, m)
  BY <1>3 DEF deallocateSupport, ProcessGives, LeaveArrows
<1> QED
  BY <1>1, <1>2, <1>3

\* Where the operations are.
LEMMA ListPlaces ==
  ASSUME NEW p
  PROVE  /\ allocateSupport(p) =>
              pc[p] \in {"exArg", "exHead"} \cup TakenLabels
         /\ Abandon(p) => pc[p] \in {"exStat", "exAdd1", "exAdd2", "exAdd3", "exAdd4"}
         /\ deallocateSupport(p, sup[p], ProcessGives) =>
              pc[p] \in {"trGive", "trAdd1", "trAdd2", "trAdd3", "trAdd4"}
<1>1. \A l, m : /\ <<l, m>> \in TakeArrows => l \in {"exArg", "exHead"} \cup TakenLabels
                /\ <<l, m>> \in GiveArrows =>
                     l \in {"exStat", "exAdd1", "exAdd2", "exAdd3", "exAdd4"}
                /\ <<l, m>> \in LeaveArrows =>
                     l \in {"trGive", "trAdd1", "trAdd2", "trAdd3", "trAdd4"}
  BY DEF TakeArrows, GiveArrows, LeaveArrows, TakenLabels
<1> QED
  BY <1>1, ListSteps DEF At

\* The steps between places where the same mutexes are held.
QuietArrows ==
  {<<"user", "trap">>, <<"user", "txP">>, <<"user", "rxP">>, <<"user", "exArg">>,
   <<"txLoop", "txStat">>, <<"txLoop", "txV">>, <<"txStat", "txLoop">>,
   <<"txStat", "txV">>,
   <<"rxLoop", "rxStat">>, <<"rxStat", "rxStore">>, <<"rxStat", "rxV">>,
   <<"rxStore", "rxLoop">>, <<"rxStore", "rxV">>,
   <<"exArg", "return">>,
   <<"return", "user">>,
   <<"pgHold", "pgSelect">>, <<"pgSelect", "pgFail">>, <<"pgSelect", "pgRdP">>,
   <<"pgSelect", "pgWrP">>, <<"pgSet", "pgV">>, <<"trFree", "trV">>}

\* The same, where the mutex of a flash device is held.
QuietFlash == {<<"exRead", "exV">>, <<"pgWr", "pgWrV">>, <<"pgRd", "pgRdV">>}

\* Along such a step nothing is acquired or released.
LEMMA QuietKeeps ==
  ASSUME NEW l, NEW m, NEW r, NEW v, NEW o, NEW n,
         l \notin PagerLabels \cup DyingLabels => r = "user"
  PROVE  /\ <<l, m>> \in QuietArrows \cup TakeArrows \cup GiveArrows =>
              /\ Keeps(l, r) = Keeps(m, r)
              /\ KeepsFlash(l, v, o, n) = {} /\ KeepsFlash(m, v, o, n) = {}
              /\ l \notin Gone \cup {"exWait"}
              /\ m \in Labels \ (Gone \cup {"exWait"} \cup InstLabels)
              /\ l \in PagerLabels \cup DyingLabels => m \in PagerLabels \cup DyingLabels
              /\ m # "trRxV"
         /\ <<l, m>> \in QuietFlash =>
              /\ Keeps(l, r) = Keeps(m, r)
              /\ KeepsFlash(l, v, o, n) = KeepsFlash(m, v, o, n)
              /\ l \notin Gone \cup {"exWait"}
              /\ m \in Labels \ (Gone \cup {"exWait"} \cup InstLabels)
              /\ l \in PagerLabels \cup DyingLabels => m \in PagerLabels \cup DyingLabels
              /\ m # "trRxV"
<1>1. ASSUME <<l, m>> \in QuietArrows
      PROVE  /\ Keeps(l, r) = Keeps(m, r)
             /\ KeepsFlash(l, v, o, n) = {} /\ KeepsFlash(m, v, o, n) = {}
  BY <1>1 DEF QuietArrows, Keeps, KeepsFlash, PagerLabels, DyingLabels
<1>2. ASSUME <<l, m>> \in QuietFlash
      PROVE  /\ Keeps(l, r) = Keeps(m, r)
             /\ KeepsFlash(l, v, o, n) = KeepsFlash(m, v, o, n)
  BY <1>2 DEF QuietFlash, Keeps, KeepsFlash, PagerLabels, DyingLabels
<1>4. ASSUME <<l, m>> \in TakeArrows \cup GiveArrows
      PROVE  /\ Keeps(l, r) = Keeps(m, r)
             /\ KeepsFlash(l, v, o, n) = {} /\ KeepsFlash(m, v, o, n) = {}
             /\ l \notin Gone \cup {"exWait"}
             /\ m \in Labels \ (Gone \cup {"exWait"} \cup InstLabels)
             /\ l \notin PagerLabels \cup DyingLabels /\ m # "trRxV"
  <2>1. {l, m} \subseteq {"exArg", "exHead", "exP", "exStat", "exAdd1", "exAdd2", "exAdd3",
                         "exAdd4", "return"} \cup TakenLabels
    BY <1>4 DEF TakeArrows, GiveArrows, TakenLabels
  <2>2. \A k \in {l, m} :
          /\ k \notin PagerLabels \cup DyingLabels /\ KeepsFlash(k, v, o, n) = {}
          /\ Keeps(k, "user") = {} /\ k \notin Gone \cup {"exWait"} \cup InstLabels
    BY <2>1 DEF TakenLabels, PagerLabels, DyingLabels, KeepsFlash, Keeps, Gone, InstLabels
  <2>3. m \in Labels /\ m # "trRxV"
    BY <2>1 DEF TakenLabels, Labels
  <2> QED
    BY <2>2, <2>3
<1>3. ASSUME <<l, m>> \in QuietArrows \cup QuietFlash
      PROVE  /\ l \notin Gone \cup {"exWait"}
             /\ m \in Labels \ (Gone \cup {"exWait"} \cup InstLabels)
             /\ l \in PagerLabels \cup DyingLabels => m \in PagerLabels \cup DyingLabels
             /\ m # "trRxV"
  BY <1>3 DEF QuietArrows, QuietFlash, Gone, InstLabels, Labels, PagerLabels, DyingLabels
<1> QED
  BY <1>1, <1>2, <1>3, <1>4

\* A quiet step preserves the control.
LEMMA QuietCore ==
  ASSUME CoreInv, NEW p \in Uproc, NEW l, NEW m, At(p, l), Goto(p, m), ret' = ret,
         UNCHANGED <<sem, s_procq>>, UNCHANGED <<io, currProc, readyQueue>> \/ DOIO(p),
         p \in Child => m \notin ExLabels,
         \/ <<l, m>> \in QuietArrows \cup TakeArrows \cup GiveArrows
         \/ <<l, m>> \in QuietFlash /\ UNCHANGED <<swapPool, frame, sup, sup_asid, newSup>>
  PROVE  CoreInv'
<1>1. p \in PCB /\ (l \notin PagerLabels \cup DyingLabels => ret[p] = "user")
  BY DEF Uproc, At, CoreInv, LabelsInv
<1>2. Enters(p, m) /\ pc[p] = l /\ pc'[p] = m
  BY <1>1, QuietKeeps, Entering
<1> DEFINE v == Flash(swapPool[frame[p]])
           o == Flash(sup_asid[sup[p]])
           n == Flash(sup_asid[newSup])
<1>3. Own(p) = Keeps(l, ret[p]) \cup KeepsFlash(l, v, o, n)
  BY <1>2, OwnAt
<1>4. Own(p)' = Keeps(m, ret[p]) \cup KeepsFlash(m, v', o', n')
  BY <1>2, OwnAtNext
<1> HIDE DEF v, o, n
<1>5. CASE <<l, m>> \in QuietArrows \cup TakeArrows \cup GiveArrows
  <2>1. KeepsFlash(l, v, o, n) = {} /\ KeepsFlash(m, v', o', n') = {}
    BY <1>1, <1>5, QuietKeeps
  <2>2. Keeps(l, ret[p]) = Keeps(m, ret[p])
    BY <1>1, <1>5, QuietKeeps
  <2>3. Own(p)' = Own(p)
    BY <1>3, <1>4, <2>1, <2>2
  <2> QED
    BY <1>2, <2>3, LocalCore
<1>6. CASE <<l, m>> \in QuietFlash /\ UNCHANGED <<swapPool, frame, sup, sup_asid, newSup>>
  <2>1. v' = v /\ o' = o /\ n' = n
    BY <1>6 DEF v, o, n
  <2>2. /\ KeepsFlash(l, v, o, n) = KeepsFlash(m, v, o, n)
        /\ Keeps(l, ret[p]) = Keeps(m, ret[p])
    BY <1>1, <1>6, QuietKeeps
  <2>3. Own(p)' = Own(p)
    BY <1>3, <1>4, <2>1, <2>2
  <2> QED
    BY <1>2, <2>3, LocalCore
<1> QED
  BY <1>5, <1>6

\* The steps that acquire a mutex, with that mutex or, in the second set, with
\* the one of a flash device.
PassArrows ==
  {<<"txP", "txLoop", Transm>>, <<"rxP", "rxLoop", Recv>>,
   <<"pgP", "pgHold", Swap>>, <<"trap", "trFree", Swap>>}
PassFlash == {<<"pgWrP", "pgWr">>, <<"pgRdP", "pgRd">>, <<"exP", "exRead">>}

\* A step from l to m, in code that was entered from r, that acquires s.
Acquires(l, m, s, r, v, o, n) ==
  /\ KeepsFlash(l, v, o, n) = {} /\ s \notin Keeps(l, r)
  /\ Keeps(m, r) \cup KeepsFlash(m, v, o, n) = Keeps(l, r) \cup {s}
  /\ s = Transm => m = "txLoop" /\ Keeps(l, r) = {}
  /\ l \notin Gone \cup {"exWait"}
  /\ m \in Labels \ (Gone \cup {"exWait"} \cup InstLabels)
  /\ l \in PagerLabels \cup DyingLabels => m \in PagerLabels \cup DyingLabels
  /\ m # "trRxV" /\ (m \in ExLabels => l \in ExLabels)

\* Along such a step s is acquired, and nothing else changes hands.
LEMMA PassKeeps ==
  ASSUME NEW l, NEW m, NEW s, NEW r, NEW v, NEW o, NEW n,
         l \notin PagerLabels \cup DyingLabels => r = "user",
         \/ <<l, m, s>> \in PassArrows
         \/ /\ <<l, m>> \in PassFlash /\ s \notin {Swap, Transm, Recv}
            /\ KeepsFlash(m, v, o, n) = {s}
  PROVE  Acquires(l, m, s, r, v, o, n)
<1>1. KeepsFlash(l, v, o, n) = {}
  BY DEF PassArrows, PassFlash, KeepsFlash
<1>2. s \notin Keeps(l, r) /\ (s = Transm => m = "txLoop" /\ Keeps(l, r) = {})
  BY SemFacts DEF PassArrows, PassFlash, Keeps, PagerLabels, DyingLabels
<1>3. Keeps(m, r) \cup KeepsFlash(m, v, o, n) = Keeps(l, r) \cup {s}
  <2>1. CASE <<l, m, s>> \in PassArrows
    BY <2>1, SemFacts DEF PassArrows, KeepsFlash, Keeps, PagerLabels, DyingLabels
  <2>2. CASE <<l, m>> \in PassFlash /\ KeepsFlash(m, v, o, n) = {s}
    <3>1. Keeps(m, r) = Keeps(l, r)
      BY <2>2 DEF PassFlash, Keeps, PagerLabels, DyingLabels
    <3> QED
      BY <2>2, <3>1
  <2> QED
    BY <2>1, <2>2
<1>4. /\ l \notin Gone \cup {"exWait"}
      /\ m \in Labels \ (Gone \cup {"exWait"} \cup InstLabels)
      /\ l \in PagerLabels \cup DyingLabels => m \in PagerLabels \cup DyingLabels
      /\ m # "trRxV" /\ (m \in ExLabels => l \in ExLabels)
  BY DEF PassArrows, PassFlash, Gone, InstLabels, Labels, PagerLabels, DyingLabels, ExLabels
<1> QED
  BY <1>1, <1>2, <1>3, <1>4 DEF Acquires

\* A step that acquires preserves the control.
LEMMA PassArrow ==
  ASSUME CoreInv, NEW p \in Uproc, NEW l, NEW m, At(p, l), Goto(p, m), ret' = ret,
         UNCHANGED <<swapPool, frame, sup, sup_asid, newSup>>,
         NEW s \in Mutex, PASSEREN(p, s),
         \/ <<l, m, s>> \in PassArrows
         \/ /\ <<l, m>> \in PassFlash /\ s \notin {Swap, Transm, Recv}
            /\ KeepsFlash(m, Flash(swapPool[frame[p]]), Flash(sup_asid[sup[p]]),
                          Flash(sup_asid[newSup])) = {s}
  PROVE  CoreInv'
<1> DEFINE v == Flash(swapPool[frame[p]])
           o == Flash(sup_asid[sup[p]])
           n == Flash(sup_asid[newSup])
<1>1. /\ p \in PCB /\ pc[p] = l /\ (l \notin PagerLabels \cup DyingLabels => ret[p] = "user")
      /\ (p \in Child => l \notin ExLabels)
  BY DEF Uproc, At, CoreInv, LabelsInv
<1>0. \/ <<l, m, s>> \in PassArrows
      \/ <<l, m>> \in PassFlash /\ s \notin {Swap, Transm, Recv} /\ KeepsFlash(m, v, o, n) = {s}
  OBVIOUS
<1>4. Own(p) = Keeps(l, ret[p]) \cup KeepsFlash(l, v, o, n)
  BY <1>1, OwnAt
<1>5. pc'[p] = m => Own(p)' = Keeps(m, ret[p]) \cup KeepsFlash(m, v, o, n)
  BY OwnAtNext
<1> HIDE DEF v, o, n
<1>2. Acquires(l, m, s, ret[p], v, o, n)
  BY <1>0, <1>1, PassKeeps
<1>3. Enters(p, m) /\ pc'[p] = m
  BY <1>1, <1>2, Entering DEF Acquires
<1>6. Own(p)' = Own(p) \cup {s} /\ s \notin Own(p) /\ (s = Transm => m = "txLoop" /\ Own(p) = {})
  BY <1>2, <1>3, <1>4, <1>5 DEF Acquires
<1> QED
  BY <1>3, <1>6, PassCore

\* The steps that release one.
VerhArrows ==
  {<<"txV", "return", Transm>>, <<"rxV", "return", Recv>>, <<"rxLoop", "trap", Recv>>,
   <<"trV", "trRx", Swap>>, <<"trRxV", "trSync", Recv>>, <<"pgFail", "trap", Swap>>}
VerhFlash ==
  {<<"pgWrV", "pgRdP">>, <<"pgWrV", "pgFail">>, <<"pgRdV", "pgSet">>,
   <<"pgRdV", "pgFail">>, <<"exV", "exStat">>}

\* A step that releases s.
Releases(l, m, s, r, v, o, n) ==
  /\ \A v2, o2, n2 : KeepsFlash(m, v2, o2, n2) = {}
  /\ s \in Keeps(l, r) \cup KeepsFlash(l, v, o, n)
  /\ (Keeps(l, r) \cup KeepsFlash(l, v, o, n)) \ {s} = Keeps(m, r)
  /\ l \notin Gone \cup {"exWait"}
  /\ m \in Labels \ (Gone \cup {"exWait"} \cup InstLabels)
  /\ l \in PagerLabels \cup DyingLabels => m \in PagerLabels \cup DyingLabels
  /\ m # "trRxV" /\ (m \in ExLabels => l \in ExLabels)

\* Along such a step s is released, and nothing else changes hands.
LEMMA VerhKeeps ==
  ASSUME NEW l, NEW m, NEW s, NEW r, NEW v, NEW o, NEW n,
         l \notin PagerLabels \cup DyingLabels => r = "user",
         l = "trRxV" => r = "rxStore",
         \/ <<l, m, s>> \in VerhArrows
         \/ /\ <<l, m>> \in VerhFlash /\ s \notin {Swap, Transm, Recv}
            /\ KeepsFlash(l, v, o, n) = {s}
  PROVE  Releases(l, m, s, r, v, o, n)
<1>1. \A v2, o2, n2 : KeepsFlash(m, v2, o2, n2) = {}
  BY DEF VerhArrows, VerhFlash, KeepsFlash
<1>2. ASSUME <<l, m, s>> \in VerhArrows
      PROVE  /\ s \in Keeps(l, r) \cup KeepsFlash(l, v, o, n)
             /\ (Keeps(l, r) \cup KeepsFlash(l, v, o, n)) \ {s} = Keeps(m, r)
  <2>1. KeepsFlash(l, v, o, n) = {}
    BY <1>2 DEF VerhArrows, KeepsFlash
  <2>2. s \in Keeps(l, r) /\ Keeps(l, r) \ {s} = Keeps(m, r)
    BY <1>2, SemFacts DEF VerhArrows, Keeps, PagerLabels, DyingLabels
  <2> QED
    BY <2>1, <2>2
<1>3. ASSUME <<l, m>> \in VerhFlash, s \notin {Swap, Transm, Recv},
             KeepsFlash(l, v, o, n) = {s}
      PROVE  /\ s \in Keeps(l, r) \cup KeepsFlash(l, v, o, n)
             /\ (Keeps(l, r) \cup KeepsFlash(l, v, o, n)) \ {s} = Keeps(m, r)
  <2>1. Keeps(m, r) = Keeps(l, r) /\ s \notin Keeps(l, r)
    BY <1>3 DEF VerhFlash, Keeps, PagerLabels, DyingLabels
  <2> QED
    BY <1>3, <2>1
<1>4. /\ l \notin Gone \cup {"exWait"}
      /\ m \in Labels \ (Gone \cup {"exWait"} \cup InstLabels)
      /\ l \in PagerLabels \cup DyingLabels => m \in PagerLabels \cup DyingLabels
      /\ m # "trRxV" /\ (m \in ExLabels => l \in ExLabels)
  BY DEF VerhArrows, VerhFlash, Gone, InstLabels, Labels, PagerLabels, DyingLabels, ExLabels
<1> QED
  BY <1>1, <1>2, <1>3, <1>4 DEF Releases

\* A step that releases preserves the control.
LEMMA VerhArrow ==
  ASSUME CoreInv, NEW p \in Uproc, NEW l, NEW m, At(p, l), Goto(p, m), ret' = ret,
         NEW s \in Mutex, VERHOGEN(s),
         \/ <<l, m, s>> \in VerhArrows
         \/ /\ <<l, m>> \in VerhFlash /\ s \notin {Swap, Transm, Recv}
            /\ KeepsFlash(l, Flash(swapPool[frame[p]]), Flash(sup_asid[sup[p]]),
                          Flash(sup_asid[newSup])) = {s}
  PROVE  CoreInv'
<1> DEFINE v == Flash(swapPool[frame[p]])
           o == Flash(sup_asid[sup[p]])
           n == Flash(sup_asid[newSup])
<1>1. /\ p \in PCB /\ pc[p] = l /\ (l \notin PagerLabels \cup DyingLabels => ret[p] = "user")
      /\ (p \in Child => l \notin ExLabels) /\ (l = "trRxV" => ret[p] = "rxStore")
  BY DEF Uproc, At, CoreInv, LabelsInv
<1>0. \/ <<l, m, s>> \in VerhArrows
      \/ <<l, m>> \in VerhFlash /\ s \notin {Swap, Transm, Recv} /\ KeepsFlash(l, v, o, n) = {s}
  OBVIOUS
<1>4. Own(p) = Keeps(l, ret[p]) \cup KeepsFlash(l, v, o, n)
  BY <1>1, OwnAt
<1> HIDE DEF v, o, n
<1>2. Releases(l, m, s, ret[p], v, o, n)
  BY <1>0, <1>1, VerhKeeps
<1>3. Enters(p, m) /\ pc'[p] = m
  BY <1>1, <1>2, Entering DEF Releases
<1>5. Own(p)' = Keeps(m, ret[p])
  BY <1>2, <1>3, OwnAtNext DEF Releases
<1>6. Own(p)' = Own(p) \ {s} /\ s \in Own(p)
  BY <1>2, <1>4, <1>5 DEF Releases
<1> QED
  BY <1>3, <1>6, VerhCore

-----------------------------------------------------------------------------
(* The control: what every step preserves *)

\* Which process can be at a label.
LEMMA WhoIsAt ==
  ASSUME CoreInv, NEW p \in PCB, NEW l, At(p, l)
  PROVE  /\ l \notin InstLabels => p \in Uproc
         /\ l \in InstLabels => p = Inst
         /\ l \in ExLabels => p = Shell
         /\ pc[p] = l /\ currProc = p /\ ~panic /\ p \notin Blocked /\ l # "none"
<1>1. pc[p] = l /\ currProc = p /\ ~panic
  BY DEF At, Running
<1>2. p \in Runnable
  BY <1>1 DEF Runnable
<1>3. l # "none" /\ p \notin Blocked
  BY <1>1, <1>2 DEF CoreInv, QueuesInv, Live
<1>4. l \in ExLabels => l \notin InstLabels
  BY DEF ExLabels, InstLabels
<1> QED
  BY <1>1, <1>3, <1>4 DEF CoreInv, LabelsInv, Uproc, Child

\* WRITETERMINAL preserves the control.
LEMMA WriteCore ==
  ASSUME CoreInv, NEW p \in PCB, WRITETERMINAL(p)
  PROVE  CoreInv'
<1>1. p \in Uproc
  BY WhoIsAt DEF WRITETERMINAL, InstLabels
<1>2. UNCHANGED <<ret, sup, frame, newSup, sup_asid, swapPool>>
  BY DEF WRITETERMINAL, unchangedCall, procVars, callVars, poolVars
<1>3. CASE At(p, "txP") /\ PASSEREN(p, Transm) /\ Goto(p, "txLoop")
  BY <1>1, <1>2, <1>3, PassArrow, SemFacts DEF PassArrows
<1>4. CASE At(p, "txLoop") /\ DOIO(p) /\ Goto(p, "txStat")
  BY <1>1, <1>2, <1>4, QuietCore DEF QuietArrows, DOIO, semVars, ExLabels
<1>5. ASSUME NEW l, NEW m, At(p, l), Local(p, m),
             <<l, m>> \in {<<"txLoop", "txV">>, <<"txStat", "txLoop">>, <<"txStat", "txV">>}
      PROVE  CoreInv'
  BY <1>1, <1>2, <1>5, QuietCore DEF QuietArrows, Local, Stay, semVars, ExLabels
<1>6. CASE At(p, "txV") /\ VERHOGEN(Transm) /\ Goto(p, "return")
  BY <1>1, <1>2, <1>6, VerhArrow, SemFacts DEF VerhArrows
<1> QED
  BY <1>3, <1>4, <1>5, <1>6 DEF WRITETERMINAL

\* READTERMINAL preserves the control.
LEMMA ReadCore ==
  ASSUME CoreInv, NEW p \in PCB, READTERMINAL(p)
  PROVE  CoreInv'
<1>1. p \in Uproc
  BY WhoIsAt DEF READTERMINAL, InstLabels
<1>2. UNCHANGED <<ret, sup, frame, newSup, sup_asid, swapPool>>
  BY DEF READTERMINAL, unchangedCall, procVars, callVars, poolVars
<1>3. CASE At(p, "rxP") /\ PASSEREN(p, Recv) /\ Goto(p, "rxLoop")
  BY <1>1, <1>2, <1>3, PassArrow, SemFacts DEF PassArrows
<1>4. CASE At(p, "rxLoop") /\ DOIO(p) /\ Goto(p, "rxStat")
  BY <1>1, <1>2, <1>4, QuietCore DEF QuietArrows, DOIO, semVars, ExLabels
<1>5. ASSUME NEW l, NEW m, At(p, l), Local(p, m),
             <<l, m>> \in {<<"rxStat", "rxStore">>, <<"rxStat", "rxV">>,
                           <<"rxStore", "rxLoop">>, <<"rxStore", "rxV">>}
      PROVE  CoreInv'
  BY <1>1, <1>2, <1>5, QuietCore DEF QuietArrows, Local, Stay, semVars, ExLabels
<1>6. ASSUME NEW l, NEW m, At(p, l), VERHOGEN(Recv), Goto(p, m),
             <<l, m>> \in {<<"rxLoop", "trap">>, <<"rxV", "return">>}
      PROVE  CoreInv'
  <2>1. <<l, m, Recv>> \in VerhArrows
    BY <1>6 DEF VerhArrows
  <2> QED
    BY <1>1, <1>2, <1>6, <2>1, VerhArrow, SemFacts
<1> QED
  BY <1>3, <1>4, <1>5, <1>6 DEF READTERMINAL

\* The return to user mode preserves the control.
LEMMA ReturnCore ==
  ASSUME CoreInv, NEW p \in PCB, Return(p)
  PROVE  CoreInv'
<1>1. p \in Uproc
  BY WhoIsAt DEF Return, InstLabels
<1> QED
  BY <1>1, QuietCore DEF Return, unchangedCall, procVars, QuietArrows, Local, Stay, semVars,
     ExLabels

\* EXECUTE is the shell's alone.
LEMMA ShellExecutes ==
  ASSUME CoreInv, SupportsInv, NEW p \in Uproc, At(p, "user"), sup_asid[sup[p]] = 1
  PROVE  p = Shell
<1>1. pc[p] = "user" /\ p \in PCB
  BY DEF At, Uproc
<1>2. asid[p] = 1
  BY <1>1 DEF SupportsInv, Gone
<1>3. p \in Child => asid[p] \in Program
  BY <1>1 DEF SupportsInv
<1> QED
  BY <1>2, <1>3, SizeAssumption DEF Child, Program

\* So does an exception in user mode.
LEMMA ExceptionCore ==
  ASSUME CoreInv, SupportsInv, NEW p \in Uproc, GeneralExceptionHandler(p)
  PROVE  CoreInv'
<1>1. UNCHANGED <<ret, sup, frame, newSup, sup_asid, swapPool>> /\ At(p, "user")
  BY DEF GeneralExceptionHandler, unchangedCall, procVars, callVars, poolVars
<1>2. ASSUME NEW m \in {"trap", "txP", "rxP", "exArg"}, Local(p, m), p \in Child => m # "exArg"
      PROVE  CoreInv'
  BY <1>1, <1>2, QuietCore DEF QuietArrows, Local, Stay, semVars, ExLabels
<1>3. sup_asid[sup[p]] = 1 => p \notin Child
  BY <1>1, ShellExecutes DEF Child
<1> QED
  BY <1>2, <1>3 DEF GeneralExceptionHandler

\* The pager keeps what the system call that it interrupts has acquired.
LEMMA FaultCore ==
  ASSUME CoreInv, NEW p \in Uproc, PageFault(p)
  PROVE  CoreInv'
<1>1. /\ p \in PCB /\ pc[p] \in {"user", "txLoop", "rxStore"} /\ currProc = p
      /\ ret' = [ret EXCEPT ![p] = pc[p]] /\ ret[p] = "user"
      /\ ret \in [PCB -> {"user", "txLoop", "rxStore"}]
  BY DEF PageFault, Running, Uproc, CoreInv, LabelsInv, PagerLabels, DyingLabels
<1>2. PICK m \in {"trap", "pgP"} : Local(p, m)
  BY DEF PageFault
<1>3. Moves(p, m)
  BY <1>1, <1>2 DEF Moves, Local, CoreInv, LabelsInv
<1>4. ret'[p] = pc[p] /\ \A q \in PCB : q # p => ret'[q] = ret[q]
  BY <1>1
<1>5. Enters(p, m)
  <2>1. ret' \in [PCB -> {"user", "txLoop", "rxStore"}]
    BY <1>1
  <2> QED
    BY <1>1, <1>2, <1>3, <1>4, <2>1
       DEF Enters, Gone, InstLabels, ExLabels, Labels, PagerLabels, DyingLabels
<1>6. Own(p)' = Own(p)
  <2>1. FlashHeld(p) = {} /\ FlashHeld(p)' = {}
    BY <1>1, <1>2 DEF FlashHeld, KeepsFlash, Local, Goto, CoreInv, LabelsInv
  <2>2. pc'[p] = m
    BY <1>1, <1>2 DEF Local, Goto, CoreInv, LabelsInv
  <2>3. Keeps(m, pc[p]) = Keeps(pc[p], "user")
    BY <1>1, <1>2 DEF Keeps, PagerLabels, DyingLabels
  <2> QED
    BY <1>1, <1>4, <2>1, <2>2, <2>3 DEF Own
<1> QED
  BY <1>2, <1>5, <1>6, LocalCore DEF Local, Stay, semVars

\* The mutex of a flash device that a process asks for is one.
LEMMA FlashMutex ==
  ASSUME NEW a \in Support
  PROVE  Flash(a) \in Mutex /\ Flash(a) \notin {Swap, Transm, Recv} /\ Flash(a) \in Sem
BY SemFacts

\* EXECUTE starts the program.
Starts(p) ==
  /\ At(p, "exStat") /\ StartProgram(p)
  /\ newSup' = 0 /\ UNCHANGED <<sup_asid, listVars, poolVars, panic>>

\* The steps of EXECUTE that leave the shell active.
LEMMA ExecuteInner ==
  ASSUME CoreInv, SupportsInv, NEW p \in PCB, EXECUTE(p), pc[p] # "exWait",
         ~Starts(p)
  PROVE  CoreInv'
<1> DEFINE f == Flash(sup_asid[newSup])
<1>1. /\ p = Shell /\ p \in Uproc /\ (p \in Child => FALSE)
  BY WhoIsAt, ListSteps DEF EXECUTE, TakeArrows, GiveArrows, ExLabels, InstLabels, Child
<1>2. pc[p] \in AsidLabels => f \in Mutex /\ f \notin {Swap, Transm, Recv}
  <2>1. pc[p] \in AsidLabels => sup_asid[newSup] \in Support
    BY <1>1 DEF SupportsInv, Program, Support
  <2> QED
    BY <2>1, FlashMutex
<1>3. ret' = ret
  BY ListSteps DEF EXECUTE, Starts, At, unchangedCall, procVars
<1>4. ASSUME NEW l, NEW m, At(p, l), Local(p, m),
             <<l, m>> \in QuietArrows \cup TakeArrows \cup GiveArrows
      PROVE  CoreInv'
  BY <1>1, <1>3, <1>4, QuietCore DEF Local, Stay, semVars
<1>5. CASE At(p, "exP") /\ PASSEREN(p, f) /\ Goto(p, "exRead") /\ unchangedCall
  <2>1. UNCHANGED <<swapPool, frame, sup, sup_asid, newSup>>
    BY <1>5 DEF unchangedCall, procVars, callVars, poolVars
  <2>2. KeepsFlash("exRead", Flash(swapPool[frame[p]]), Flash(sup_asid[sup[p]]), f) = {f}
    BY DEF KeepsFlash
  <2>3. f \in Mutex /\ f \notin {Swap, Transm, Recv} /\ <<"exP", "exRead">> \in PassFlash
    BY <1>2, <1>5 DEF At, AsidLabels, PassFlash
  <2> QED
    BY <1>1, <1>3, <1>5, <2>1, <2>2, <2>3, PassArrow
<1>6. CASE At(p, "exRead") /\ ReadHeader(p) /\ unchangedCall
  <2>1. DOIO(p) /\ Goto(p, "exV") /\ UNCHANGED <<swapPool, frame, sup, sup_asid, newSup>>
    BY <1>6 DEF ReadHeader, unchangedCall, procVars, callVars, poolVars
  <2> QED
    BY <1>1, <1>3, <1>6, <2>1, QuietCore DEF QuietFlash, DOIO, semVars
<1>7. CASE At(p, "exV") /\ VERHOGEN(f) /\ Goto(p, "exStat")
  <2>2. KeepsFlash("exV", Flash(swapPool[frame[p]]), Flash(sup_asid[sup[p]]), f) = {f}
    BY DEF KeepsFlash
  <2>3. f \in Mutex /\ f \notin {Swap, Transm, Recv} /\ <<"exV", "exStat">> \in VerhFlash
    BY <1>2, <1>7 DEF At, AsidLabels, VerhFlash
  <2> QED
    BY <1>1, <1>3, <1>7, <2>2, <2>3, VerhArrow
<1>8. CASE At(p, "exArg") /\ Refuse(p)
  BY <1>4, <1>8 DEF Refuse, QuietArrows
<1>9. CASE allocateSupport(p) \/ Abandon(p)
  BY <1>4, <1>9, ListSteps
<1> QED
  BY <1>5, <1>6, <1>7, <1>8, <1>9 DEF EXECUTE, At, Starts

\* Who stays where it was holds what it held.
LEMMA HeldSame ==
  ASSUME NEW q, pc'[q] = pc[q], ret'[q] = ret[q], q \in Blocked' <=> q \in Blocked,
         \/ UNCHANGED <<swapPool, frame, sup, sup_asid, newSup>>
         \/ pc[q] \notin InnerLabels
  PROVE  Held(q)' = Held(q)
<1>1. FlashHeld(q)' = FlashHeld(q)
  <2>1. CASE UNCHANGED <<swapPool, frame, sup, sup_asid, newSup>>
    BY <2>1 DEF FlashHeld
  <2>2. CASE pc[q] \notin InnerLabels
    BY <2>2, KeepsFacts DEF FlashHeld
  <2> QED
    BY <2>1, <2>2
<1> QED
  BY <1>1 DEF Held, Own

\* The values of the mutexes stay right when nobody acquires or releases one,
\* apart from a transmitter that is abandoned.
LEMMA MutexKept ==
  ASSUME MutexInv, sem' \in [Sem -> {0, 1}], \A s \in Mutex : sem'[s] = sem[s],
         \A q \in PCB : /\ Held(q)' \subseteq Held(q)
                        /\ Held(q) \subseteq Held(q)' \cup {Transm}
  PROVE  MutexInv'
<1>1. \A q \in PCB, s \in Mutex \ {Transm} : s \in Held(q)' <=> s \in Held(q)
  OBVIOUS
<1>2. \A q \in PCB : Transm \in Held(q)' => Transm \in Held(q)
  OBVIOUS
<1>3. sem'[Transm] = sem[Transm]
  BY SemFacts
<1> QED
  BY <1>1, <1>2, <1>3 DEF MutexInv

\* The shell starts a program.
LEMMA StartCore ==
  ASSUME CoreInv, NEW p \in PCB, Starts(p)
  PROVE  CoreInv'
<1>1. p = Shell /\ p \in Uproc /\ pc[p] = "exStat" /\ currProc = p /\ p \notin Blocked
  BY WhoIsAt DEF Starts, ExLabels, InstLabels
<1>2. PICK q \in Child : pc[q] = "none" /\ CREATEPROCESS(p, q, newSup, "exWait")
  BY DEF Starts, StartProgram
<1>3. q \in PCB /\ q \in Uproc /\ q # p /\ q # Inst /\ pc \in [PCB -> Labels]
  BY <1>1, <1>2 DEF Child, Uproc, CoreInv, LabelsInv
<1>4. /\ pc' = [pc EXCEPT ![p] = "exWait", ![q] = "user"]
      /\ UNCHANGED <<ret, frame, sem, s_procq>>
  BY <1>2 DEF CREATEPROCESS, semVars
<1>5. /\ pc'[p] = "exWait" /\ pc'[q] = "user"
      /\ \A r \in PCB \ {p, q} : pc'[r] = pc[r]
  BY <1>3, <1>4
<1>6. QueuesInv'
  BY <1>1, <1>2, <1>3, CreateQueues DEF CoreInv
<1>7. LabelsInv'
  <2>1. ret[q] = "user" /\ ret[p] = "user" /\ {"exWait", "user"} \subseteq Labels
    BY <1>1, <1>2, <1>3 DEF CoreInv, LabelsInv, PagerLabels, DyingLabels, Labels
  <2>2. pc' \in [PCB -> Labels] /\ Inst \in PCB \ {p, q}
    BY <1>1, <1>3, <1>4, <2>1, ProcAssumption
  <2>3. /\ \A r \in Uproc : pc'[r] \notin InstLabels
        /\ \A c \in Child : pc'[c] \notin ExLabels
    BY <1>1, <1>3, <1>5 DEF CoreInv, LabelsInv, Uproc, Child, InstLabels, ExLabels
  <2>4. \A r \in PCB : pc'[r] = "trRxV" => ret'[r] = "rxStore"
    BY <1>1, <1>3, <1>4, <1>5 DEF CoreInv, LabelsInv
  <2>5. \A r \in PCB : ret'[r] # "user" => pc'[r] \in PagerLabels \cup DyingLabels
    BY <1>1, <1>3, <1>4, <1>5, <2>1 DEF CoreInv, LabelsInv
  <2> QED
    BY <1>4, <1>5, <2>2, <2>3, <2>4, <2>5 DEF CoreInv, LabelsInv
<1>8. ActiveInv'
  <2>1. Shell \notin Elems(s_procq[ShellSem]) /\ pc[p] \notin Gone
    BY <1>1, BlockedIn, SemFacts DEF CoreInv, Gone
  <2>2. \A c \in Child : pc[c] \in Gone
    BY <1>1, <2>1 DEF CoreInv, ActiveInv, Asleep
  <2>3. sem[ShellSem] = 0 /\ sem[MasterSem] = 0 /\ pc[Inst] # "header"
    BY <1>1, <2>1 DEF CoreInv, ActiveInv
  <2>4. Asleep' /\ Inst \in PCB \ {p, q}
    BY <1>1, <1>3, <1>5, ProcAssumption DEF Asleep
  <2>5. \A c \in Child : pc'[c] \notin Gone => c = q
    BY <1>1, <1>5, <2>2 DEF Child, Uproc
  <2> QED
    BY <1>1, <1>4, <1>5, <2>1, <2>2, <2>3, <2>4, <2>5 DEF CoreInv, ActiveInv
<1>9. \A r \in PCB : Held(r)' = Held(r)
  <2>1. Blocked' = Blocked
    BY <1>4 DEF Blocked, Waits
  <2>2. CASE pc[p] = "exStat"
    <3>1. ASSUME NEW r \in PCB \ {p, q} PROVE Held(r)' = Held(r)
      <4>1. pc[r] \notin InnerLabels
        BY <1>1, OthersIdle DEF CoreInv, Gone
      <4> QED
        BY <1>4, <1>5, <2>1, <4>1, HeldSame
    <3>2. ret[q] = "user" /\ ret[p] = "user"
      BY <1>1, <1>2, <1>3 DEF CoreInv, LabelsInv, PagerLabels, DyingLabels
    <3>3. /\ ret'[q] = "user" /\ ret'[p] = "user" /\ pc[q] = "none"
          /\ pc'[p] = "exWait" /\ pc'[q] = "user"
      BY <1>2, <1>4, <1>5, <3>2
    <3>4. Own(p) = {} /\ Own(q) = {}
      BY <1>1, <3>3, KeepsFacts DEF Own, FlashHeld
    <3>5. Own(p)' = {} /\ Own(q)' = {}
      BY <3>3, KeepsFacts DEF Own, FlashHeld
    <3> QED
      BY <3>1, <3>4, <3>5 DEF Held
  <2> QED
    BY <1>1, <2>2
<1>10. MutexInv'
  BY <1>4, <1>9, MutexKept DEF CoreInv, MutexInv
<1> QED
  BY <1>6, <1>7, <1>8, <1>10 DEF CoreInv

\* The shell waits for the program to end.
LEMMA AwaitCore ==
  ASSUME CoreInv, NEW p \in PCB, At(p, "exWait"), PASSEREN(p, ShellSem), Goto(p, "return"),
         unchangedCall
  PROVE  CoreInv'
<1>1. p = Shell /\ p \in Uproc /\ pc[p] = "exWait" /\ currProc = p /\ p \notin Blocked
  BY WhoIsAt DEF ExLabels, InstLabels
<1>2. Moves(p, "return") /\ UNCHANGED <<ret, swapPool, frame, sup, sup_asid, newSup>>
  BY <1>1 DEF Moves, CoreInv, LabelsInv, unchangedCall, procVars, callVars, poolVars
<1>3. /\ pc'[p] = "return" /\ (\A q \in PCB : q # p => pc'[q] = pc[q])
      /\ p \notin Elems(s_procq[ShellSem])
  BY <1>2, Movement, SemFacts DEF CoreInv
<1>4. LabelsInv'
  <2>1. ret[p] = "user" /\ "return" \in Labels
    BY <1>1 DEF CoreInv, LabelsInv, PagerLabels, DyingLabels, Labels
  <2>2. pc' \in [PCB -> Labels] /\ Inst \in PCB \ {p}
    BY <1>1, <2>1, ProcAssumption DEF Goto, CoreInv, LabelsInv
  <2> QED
    BY <1>1, <1>2, <1>3, <2>1, <2>2
       DEF CoreInv, LabelsInv, Uproc, Child, InstLabels, ExLabels
<1>5. pc[Inst] # "header" /\ sem[MasterSem] = 0 /\ Inst \in PCB \ {p}
  BY <1>1, ProcAssumption DEF CoreInv, ActiveInv, Gone, Uproc
<1>6. \A q \in PCB : pc'[q] \in Gone <=> pc[q] \in Gone
  BY <1>1, <1>3 DEF Gone
<1>7. Own(p) = {} /\ Own(p)' = {}
  BY <1>1, <1>2, <1>3 DEF Own, FlashHeld, KeepsFlash, Keeps, CoreInv, LabelsInv,
     PagerLabels, DyingLabels
<1>8. \A q \in PCB : q # p => pc'[q] = pc[q] /\ ret'[q] = ret[q]
  BY <1>2, <1>3
<1>9. CASE sem[ShellSem] = 0
  <2>1. /\ s_procq' = [s_procq EXCEPT ![ShellSem] = InsertTail(@, p)]
        /\ scheduler(readyQueue) /\ UNCHANGED io /\ sem' = sem
    BY <1>9 DEF PASSEREN
  <2>2. WaitsAt(ShellSem, p)'
    BY <1>1, <1>3 DEF WaitsAt
  <2>3. /\ QueuesInv' /\ Blocked' = Blocked \cup {p}
        /\ Elems(s_procq'[ShellSem]) = Elems(s_procq[ShellSem]) \cup {p}
        /\ s_procq'[MasterSem] = s_procq[MasterSem]
    BY <1>2, <2>1, <2>2, BlockQueues, SemFacts DEF CoreInv
  <2>4. Asleep'
    BY <1>1, <2>3 DEF Asleep
  <2>5. ActiveInv'
    BY <1>1, <1>3, <1>5, <1>6, <1>9, <2>1, <2>3, <2>4 DEF CoreInv, ActiveInv, Child, Uproc
  <2>6. \A q \in PCB : Held(q)' = Held(q)
    BY <1>2, <1>7, <1>8, <2>3, HeldSame DEF Held
  <2>7. MutexInv'
    BY <2>1, <2>6, MutexKept DEF CoreInv, MutexInv
  <2> QED
    BY <1>4, <2>3, <2>5, <2>7 DEF CoreInv
<1>10. CASE sem[ShellSem] # 0
  <2>1. /\ sem' = [sem EXCEPT ![ShellSem] = @ - 1] /\ s_procq' = s_procq
        /\ UNCHANGED <<io, currProc, readyQueue>>
    BY <1>10 DEF PASSEREN, Stay
  <2>2. QueuesInv' /\ Blocked' = Blocked
    BY <1>2, <2>1, StayQueues DEF CoreInv
  <2>3. /\ sem' \in [Sem -> {0, 1}] /\ sem'[ShellSem] = 0 /\ sem'[MasterSem] = sem[MasterSem]
        /\ \A s \in Mutex : sem'[s] = sem[s]
    BY <1>10, <2>1, SemFacts DEF CoreInv, MutexInv
  <2>4. \A c \in Child : pc[c] \in Gone
    BY <1>10 DEF CoreInv, ActiveInv
  <2>5. ActiveInv'
    <3>1. \A c \in Child : pc'[c] \in Gone
      BY <1>6, <2>4 DEF Child, Uproc
    <3> QED
      BY <1>1, <1>3, <1>5, <1>6, <2>1, <2>3, <3>1 DEF CoreInv, ActiveInv
  <2>6. \A q \in PCB : Held(q)' = Held(q)
    BY <1>2, <1>7, <1>8, <2>2, HeldSame DEF Held
  <2>7. MutexInv'
    BY <2>3, <2>6, MutexKept DEF CoreInv
  <2> QED
    BY <1>4, <2>2, <2>5, <2>7 DEF CoreInv
<1> QED
  BY <1>9, <1>10

\* EXECUTE preserves the control.
LEMMA ExecuteCore ==
  ASSUME CoreInv, SupportsInv, NEW p \in PCB, EXECUTE(p)
  PROVE  CoreInv'
<1>1. CASE At(p, "exWait") /\ PASSEREN(p, ShellSem) /\ Goto(p, "return") /\ unchangedCall
  BY <1>1, AwaitCore
<1>2. CASE Starts(p)
  BY <1>2, StartCore
<1>3. CASE pc[p] # "exWait" /\ ~Starts(p)
  BY <1>3, ExecuteInner
<1> QED
  BY <1>1, <1>2, <1>3, ListSteps DEF EXECUTE, At, TakeArrows, GiveArrows

\* The ASID of a process that has not given its support structure back.
LEMMA AsidOf ==
  ASSUME SupportsInv, NEW p \in Uproc, pc[p] \notin Gone
  PROVE  /\ sup[p] \in Support /\ sup_asid[sup[p]] = asid[p]
         /\ asid[p] \in Support /\ asid[p] \in 0 .. UPROCMAX
         /\ asid[p] = 1 <=> p = Shell
<1>1. sup[p] \in Support /\ sup_asid[sup[p]] = asid[p] /\ asid[p] \in 0 .. UPROCMAX
  BY DEF SupportsInv, Uproc, Gone
<1>2. p = Shell => asid[p] = 1
  BY DEF SupportsInv, Gone
<1>3. p # Shell => asid[p] \in Program
  BY DEF SupportsInv, Child, Gone
<1> QED
  BY <1>1, <1>2, <1>3, SizeAssumption DEF Support, Program

\* Nobody is in the pager while another process dies or runs.
LEMMA PoolIsFree ==
  ASSUME CoreInv, FramesInv, NEW p \in Uproc, currProc = p,
         pc[p] \notin Gone \cup {"exWait"} \cup HoldLabels
  PROVE  page_mutex_holder = -1
<1> SUFFICES ASSUME NEW q \in Uproc, pc[q] \in HoldLabels PROVE FALSE
  BY DEF FramesInv
<1>1. q # p /\ q \in PCB
  BY DEF Uproc
<1>2. pc[q] \notin InnerLabels
  BY <1>1, OthersIdle DEF CoreInv
<1> QED
  BY <1>2 DEF InnerLabels, HoldLabels

\* ProgramTrapHandler takes the swap pool, unless the pager has it already.
LEMMA TrapTakes ==
  ASSUME CoreInv, SupportsInv, FramesInv, NEW p \in PCB, ProgramTrapHandler(p), At(p, "trap")
  PROVE  CoreInv'
<1>1. p \in Uproc /\ pc[p] = "trap" /\ currProc = p
  BY WhoIsAt DEF InstLabels
<1>2. page_mutex_holder = -1
  BY <1>1, PoolIsFree DEF Gone, HoldLabels, PagerLabels
<1>3. page_mutex_holder # sup_asid[sup[p]]
  BY <1>1, <1>2, AsidOf DEF Support, Gone
<1>4. /\ PASSEREN(p, Swap) /\ Goto(p, "trFree")
      /\ UNCHANGED <<ret, swapPool, frame, sup, sup_asid, newSup>>
  BY <1>1, <1>3, ListPlaces DEF ProgramTrapHandler, At, unchangedCall, procVars, callVars, poolVars
<1> QED
  BY <1>1, <1>4, PassArrow, SemFacts DEF PassArrows

\* The receiver is taken only if it is the dying process that holds it.
LEMMA TrapLooks ==
  ASSUME CoreInv, NEW p \in PCB, ProgramTrapHandler(p), At(p, "trRx")
  PROVE  CoreInv'
<1>1. p \in Uproc /\ pc[p] = "trRx" /\ currProc = p /\ p \notin Blocked
  BY WhoIsAt DEF InstLabels
<1> DEFINE m == IF ReceiverHeld THEN "trRxV" ELSE "trSync"
<1>2. Local(p, m) /\ UNCHANGED ret
  BY <1>1, ListPlaces DEF ProgramTrapHandler, At, unchangedCall, procVars
<1>3. sem[Recv] = 0 <=> ret[p] = "rxStore"
  <2>1. \A q \in PCB : q # p => Recv \notin Held(q)
    <3> SUFFICES ASSUME NEW q \in PCB, q # p PROVE Recv \notin Held(q)
      OBVIOUS
    <3>1. pc[q] \notin InnerLabels
      BY <1>1, OthersIdle DEF CoreInv, Gone
    <3> QED
      BY <3>1, KeepsFacts, SemFacts DEF Held, Own, FlashHeld
  <2>2. Recv \in Held(p) <=> ret[p] = "rxStore"
    BY <1>1, SemFacts DEF Held, Own, FlashHeld, Keeps, KeepsFlash, PagerLabels
  <2>3. Recv \in Mutex \ {Transm}
    BY SemFacts
  <2> QED
    BY <2>1, <2>2, <2>3 DEF CoreInv, MutexInv
<1>4. m = "trRxV" => ret[p] = "rxStore"
  BY <1>3 DEF ReceiverHeld
<1>5. Enters(p, m) /\ pc'[p] = m
  BY <1>1, <1>2, <1>4, Entering
     DEF Local, Gone, InstLabels, Labels, PagerLabels, DyingLabels, ExLabels
<1>6. Own(p)' = Own(p)
  <2>1. Own(p) = Keeps("trRx", ret[p])
    BY <1>1 DEF Own, FlashHeld, KeepsFlash
  <2>2. Own(p)' = Keeps(m, ret[p])
    BY <1>2, <1>5 DEF Own, FlashHeld, KeepsFlash
  <2>3. Keeps(m, ret[p]) = Keeps("trRx", ret[p])
    BY <1>3 DEF Keeps, ReceiverHeld, PagerLabels, DyingLabels
  <2> QED
    BY <2>1, <2>2, <2>3
<1> QED
  BY <1>2, <1>5, <1>6, LocalCore DEF Local, Stay, semVars

\* The steps of ProgramTrapHandler up to the release of the receiver.
LEMMA TrapInner ==
  ASSUME CoreInv, NEW p \in PCB, ProgramTrapHandler(p), pc[p] \in {"trFree", "trV", "trRxV"}
  PROVE  CoreInv'
<1>1. p \in Uproc
  BY WhoIsAt, ListPlaces DEF ProgramTrapHandler, At, InstLabels
<1>2. ret' = ret
  BY ListPlaces DEF ProgramTrapHandler, At, unchangedCall, procVars
<1>3. CASE At(p, "trFree") /\ Local(p, "trV")
  BY <1>1, <1>2, <1>3, QuietCore DEF QuietArrows, Local, Stay, semVars, ExLabels
<1>4. CASE At(p, "trV") /\ VERHOGEN(Swap) /\ Goto(p, "trRx")
  BY <1>1, <1>2, <1>4, VerhArrow, SemFacts DEF VerhArrows
<1>5. CASE At(p, "trRxV") /\ VERHOGEN(Recv) /\ Goto(p, "trSync")
  BY <1>1, <1>2, <1>5, VerhArrow, SemFacts DEF VerhArrows
<1> QED
  BY <1>3, <1>4, <1>5, ListPlaces DEF ProgramTrapHandler, At

\* A process that leaves goes through labels where nothing more is acquired.
LEMMA LeavesKeep ==
  ASSUME NEW r
  PROVE  \A l, m \in {"trSync"} \cup (Gone \ {"none"}) : Keeps(l, r) = Keeps(m, r)
BY DEF Keeps, Gone, PagerLabels, DyingLabels

\* What such a process holds does not change.
LEMMA LeavesHeld ==
  ASSUME CoreInv, NEW p \in PCB, NEW l \in {"trSync"} \cup (Gone \ {"none"}), At(p, l),
         NEW m \in Gone \ {"none"}, Goto(p, m), ret' = ret
  PROVE  /\ LabelsInv' /\ Moves(p, m) /\ p \in Uproc /\ p \notin Blocked
         /\ pc'[p] = m /\ \A q \in PCB : q # p => pc'[q] = pc[q]
         /\ Own(p)' = Own(p)
<1>1. p \in Uproc /\ pc[p] = l /\ currProc = p /\ p \notin Blocked
  BY WhoIsAt DEF InstLabels, Gone
<1>2. Moves(p, m)
  BY <1>1 DEF Moves, CoreInv, LabelsInv
<1>3. pc'[p] = m /\ \A q \in PCB : q # p => pc'[q] = pc[q]
  BY <1>2, Movement DEF CoreInv
<1>4. Inst # p /\ Inst \in PCB
  BY <1>1, ProcAssumption DEF Uproc
<1>5. pc' \in [PCB -> Labels] /\ ret' \in [PCB -> {"user", "txLoop", "rxStore"}]
  BY DEF Goto, CoreInv, LabelsInv, Labels, DyingLabels, Gone
<1>6. LabelsInv'
  BY <1>1, <1>3, <1>4, <1>5
     DEF CoreInv, LabelsInv, Gone, DyingLabels, InstLabels, ExLabels, Uproc, Child
<1>7. Own(p) = Keeps(l, ret[p]) /\ Own(p)' = Keeps(m, ret[p])
  BY <1>1, <1>3 DEF Own, FlashHeld, KeepsFlash, Gone
<1> QED
  BY <1>1, <1>2, <1>3, <1>6, <1>7, LeavesKeep

\* The steps of ProgramTrapHandler after it has signalled.
LEMMA TrapLeaves ==
  ASSUME CoreInv, NEW p \in PCB, NEW l \in Gone \ {"none"}, At(p, l),
         NEW m \in Gone \ {"none"}, Local(p, m),
         UNCHANGED <<procVars, newSup, sup_asid, poolVars>>
  PROVE  CoreInv'
<1>1. Goto(p, m) /\ UNCHANGED <<io, currProc, readyQueue, s_procq, sem, ret>>
  BY DEF Local, Stay, semVars, procVars
<1>2. /\ LabelsInv' /\ Moves(p, m) /\ p \in Uproc
      /\ pc'[p] = m /\ \A q \in PCB : q # p => pc'[q] = pc[q]
      /\ Own(p)' = Own(p) /\ pc[p] = l
  BY <1>1, LeavesHeld DEF At
<1>3. QueuesInv' /\ Blocked' = Blocked
  BY <1>1, <1>2, StayQueues DEF CoreInv
<1>4. /\ \A q \in PCB : pc'[q] \in Gone <=> pc[q] \in Gone
      /\ \A q \in PCB : q = p \/ pc'[q] = pc[q]
      /\ pc[p] # "exWait" /\ pc'[p] # "exWait" /\ pc[Inst] # "header"
      /\ p # Inst /\ Inst \in PCB /\ Shell \in PCB /\ Child \subseteq PCB /\ Uproc \subseteq PCB
  BY <1>2, ProcAssumption DEF Gone, CoreInv, ActiveInv, Uproc, Child
<1>5. ActiveInv'
  <2>1. Asleep' = Asleep
    BY <1>1, <1>4 DEF Asleep
  <2> QED
    BY <1>1, <1>4, <2>1 DEF CoreInv, ActiveInv
<1>6. \A q \in PCB : Held(q)' = Held(q)
  BY <1>1, <1>2, <1>3, HeldSame DEF Held, procVars, poolVars
<1>7. MutexInv'
  BY <1>1, <1>6, MutexKept DEF CoreInv, MutexInv
<1> QED
  BY <1>2, <1>3, <1>5, <1>7 DEF CoreInv

\* The end of the shell is awaited by the instantiator alone, that of a program
\* by the shell alone; whoever is woken holds nothing.
LEMMA TrapSignals ==
  ASSUME CoreInv, SupportsInv, NEW p \in PCB, ProgramTrapHandler(p), At(p, "trSync")
  PROVE  CoreInv'
<1> DEFINE s == EndSem(sup_asid[sup[p]])
<1>1. /\ VERHOGEN(s) /\ Goto(p, "trGive")
      /\ UNCHANGED <<ret, sup, frame, newSup, sup_asid, swapPool>>
  BY ListPlaces DEF ProgramTrapHandler, At, unchangedCall, procVars, callVars, poolVars
<1>2. /\ LabelsInv' /\ Moves(p, "trGive") /\ p \in Uproc /\ p \notin Blocked
      /\ pc'[p] = "trGive" /\ (\A q \in PCB : q # p => pc'[q] = pc[q])
      /\ Own(p)' = Own(p) /\ pc[p] = "trSync" /\ currProc = p
  BY <1>1, LeavesHeld DEF At, Running, Gone
<1>3. s = IF p = Shell THEN MasterSem ELSE ShellSem
  BY <1>2, AsidOf DEF EndSem, Gone
<1>4. QueuesInv' /\ s \in Sem
  BY <1>1, <1>2, <1>3, VerhQueues, SemFacts DEF CoreInv
<1>5. sem[s] = 0 /\ pc[Inst] # "header"
  BY <1>2, <1>3 DEF CoreInv, ActiveInv, Gone, Child, Uproc
<1>6. \A q \in Elems(s_procq[s]) : pc[q] \in {"halt", "return"} /\ q \in PCB /\ q # p
  BY <1>2, <1>3, <1>4, BlockedIn, SemFacts DEF CoreInv, QueuesInv, WaitsAt
<1>7. /\ sem' \in [Sem -> {0, 1}]
      /\ \A t \in Sem : t # s => sem'[t] = sem[t] /\ Elems(s_procq'[t]) = Elems(s_procq[t])
      /\ Elems(s_procq'[s]) \subseteq Elems(s_procq[s])
      /\ sem'[s] = 0 \/ (Elems(s_procq[s]) = {} /\ Elems(s_procq'[s]) = {})
      /\ sem'[s] = 0 => Elems(s_procq[s]) # {}
      /\ Elems(s_procq[s]) # {} =>
           Elems(s_procq'[s]) = Elems(s_procq[s]) \ {headProcQ(s_procq[s])}
  <2>1. CASE emptyProcQ(s_procq[s])
    <3>1. sem' = [sem EXCEPT ![s] = @ + 1] /\ s_procq' = s_procq
      BY <1>1, <2>1 DEF VERHOGEN
    <3>2. Elems(s_procq[s]) = {}
      BY <2>1 DEF emptyProcQ
    <3> QED
      BY <1>4, <1>5, <3>1, <3>2 DEF CoreInv, MutexInv
  <2>2. CASE ~emptyProcQ(s_procq[s])
    <3>1. /\ s_procq' = [s_procq EXCEPT ![s] = removeProcQ(@)]
          /\ MakeReady(headProcQ(s_procq[s])) /\ UNCHANGED <<sem, io>>
      BY <1>1, <1>5, <2>2 DEF VERHOGEN
    <3>2. Elems(s_procq[s]) # {}
      BY <2>2 DEF emptyProcQ
    <3>3. /\ Elems(s_procq'[s]) = Elems(s_procq[s]) \ {headProcQ(s_procq[s])}
          /\ \A t \in Sem : t # s => s_procq'[t] = s_procq[t]
      BY <1>2, <1>4, <3>1, <3>2, WakeQueues DEF CoreInv
    <3> QED
      BY <1>5, <3>1, <3>2, <3>3 DEF CoreInv, MutexInv
  <2> QED
    BY <2>1, <2>2
<1>8. \A q \in PCB : pc[q] \notin {"halt", "return"} => (q \in Blocked' <=> q \in Blocked)
  <2> SUFFICES ASSUME NEW q \in PCB, pc[q] \notin {"halt", "return"}, NEW t \in Sem
               PROVE  q \in Elems(s_procq'[t]) <=> q \in Elems(s_procq[t])
    BY DEF Blocked, Waits
  <2>1. CASE t = s
    BY <1>6, <1>7, <2>1
  <2>2. CASE t # s
    BY <1>7, <2>2
  <2> QED
    BY <2>1, <2>2
<1>9. \A q \in PCB : Held(q)' = Held(q)
  <2> SUFFICES ASSUME NEW q \in PCB PROVE Held(q)' = Held(q)
    OBVIOUS
  <2>1. CASE q = p
    BY <1>2, <1>8, <2>1 DEF Held
  <2>2. CASE q # p /\ pc[q] \in {"halt", "return"}
    <3>1. Keeps(pc[q], ret[q]) = {} /\ FlashHeld(q) = {}
      BY <2>2, KeepsFacts DEF FlashHeld
    <3>2. Keeps(pc[q], ret[q])' = {} /\ FlashHeld(q)' = {}
      BY <1>2, <2>2, KeepsFacts DEF FlashHeld
    <3> QED
      BY <3>1, <3>2 DEF Held, Own
  <2>3. CASE q # p /\ pc[q] \notin {"halt", "return"}
    BY <1>1, <1>2, <1>8, <2>3, HeldSame
  <2> QED
    BY <2>1, <2>2, <2>3
<1>10. MutexInv'
  <2>1. \A t \in Mutex : sem'[t] = sem[t]
    BY <1>3, <1>7, SemFacts
  <2> QED
    BY <1>7, <1>9, <2>1, MutexKept DEF CoreInv
<1>11. Shell \in PCB /\ Inst \in PCB /\ p # Inst /\ Child \subseteq PCB /\ Shell \notin Child
  BY <1>2, ProcAssumption DEF Uproc, Child
<1>12. ActiveInv'
  <2>1. CASE p = Shell
    <3>1. s = MasterSem /\ ~Asleep
      BY <1>2, <1>3, <2>1, BlockedIn, SemFacts DEF Asleep, CoreInv
    <3>2. \A c \in Child : pc'[c] \in Gone
      BY <1>2, <1>11, <2>1, <3>1 DEF CoreInv, ActiveInv
    <3>3. /\ sem'[ShellSem] = sem[ShellSem] /\ sem[ShellSem] = 0
          /\ Elems(s_procq'[ShellSem]) = Elems(s_procq[ShellSem])
      BY <1>2, <1>7, <2>1, <3>1, SemFacts DEF CoreInv, ActiveInv
    <3>4. Elems(s_procq'[MasterSem]) # {} => sem'[MasterSem] = 0
      BY <1>7, <3>1
    <3>5. pc'[Shell] \in Gone /\ pc'[Inst] = pc[Inst]
      BY <1>2, <1>11, <2>1 DEF Gone
    <3> QED
      BY <1>5, <3>2, <3>3, <3>4, <3>5 DEF ActiveInv
  <2>2. CASE p # Shell
    <3>1. s = ShellSem /\ p \in Child /\ pc[p] \notin Gone
      BY <1>2, <1>3, <2>2 DEF Child, Gone
    <3>2. \A c \in Child : pc'[c] \in Gone
      BY <1>2, <1>11, <3>1 DEF CoreInv, ActiveInv, Gone
    <3>3. /\ sem'[MasterSem] = sem[MasterSem]
          /\ Elems(s_procq'[MasterSem]) = Elems(s_procq[MasterSem])
          /\ pc'[Shell] = pc[Shell] /\ pc'[Inst] = pc[Inst]
      BY <1>2, <1>7, <1>11, <2>2, <3>1, SemFacts
    <3>4. sem'[ShellSem] # 0 => pc'[Shell] = "exWait"
      <4>1. sem'[ShellSem] # 0 => Elems(s_procq[ShellSem]) = {}
        BY <1>7, <3>1
      <4>2. Asleep
        BY <3>1 DEF CoreInv, ActiveInv
      <4> QED
        BY <3>3, <4>1, <4>2 DEF Asleep
    <3>5. Shell \in Elems(s_procq'[ShellSem]) => sem'[ShellSem] = 0
      BY <1>7, <3>1
    <3> QED
      BY <1>5, <3>2, <3>3, <3>4, <3>5 DEF CoreInv, ActiveInv
  <2> QED
    BY <2>1, <2>2
<1> QED
  BY <1>2, <1>4, <1>10, <1>12 DEF CoreInv

\* ProgramTrapHandler, up to TERMPROCESS, preserves the control.
LEMMA TrapCore ==
  ASSUME CoreInv, SupportsInv, FramesInv, NEW p \in PCB, ProgramTrapHandler(p),
         pc[p] # "trTerm"
  PROVE  CoreInv'
<1>1. CASE /\ deallocateSupport(p, sup[p], ProcessGives)
           /\ UNCHANGED <<procVars, newSup, sup_asid, poolVars, panic>>
  <2>1. PICK l, m : <<l, m>> \in LeaveArrows /\ At(p, l) /\ Local(p, m)
    BY <1>1, ListSteps
  <2>2. {l, m} \subseteq Gone \ {"none"}
    BY <2>1 DEF LeaveArrows, Gone
  <2> QED
    BY <1>1, <2>1, <2>2, TrapLeaves
<1>2. CASE At(p, "trTlb") /\ Local(p, "trTerm") /\ unchangedCall
  BY <1>2, TrapLeaves DEF unchangedCall, callVars, Gone
<1>3. CASE At(p, "trap")
  BY <1>3, TrapTakes
<1>4. CASE At(p, "trRx")
  BY <1>4, TrapLooks
<1>5. CASE At(p, "trSync")
  BY <1>5, TrapSignals
<1>6. CASE pc[p] \in {"trFree", "trV", "trRxV"}
  BY <1>6, TrapInner
<1> QED
  BY <1>1, <1>2, <1>3, <1>4, <1>5, <1>6 DEF ProgramTrapHandler, At

\* The pager ends, and the code it interrupted goes on with what it had acquired.
LEMMA PagerReturns ==
  ASSUME CoreInv, NEW p \in PCB, Pager(p), At(p, "pgV")
  PROVE  CoreInv'
<1>1. /\ p \in Uproc /\ pc[p] = "pgV" /\ currProc = p
      /\ ret \in [PCB -> {"user", "txLoop", "rxStore"}]
  BY WhoIsAt DEF InstLabels, CoreInv, LabelsInv
<1>2. VERHOGEN(Swap) /\ Goto(p, ret[p]) /\ ret' = [ret EXCEPT ![p] = "user"]
  BY <1>1 DEF Pager, At
<1>3. ret[p] \in {"user", "txLoop", "rxStore"}
  BY <1>1
<1>4. Moves(p, ret[p])
  BY <1>1, <1>2, <1>3 DEF Moves, CoreInv, LabelsInv
<1>5. pc'[p] = ret[p] /\ ret'[p] = "user" /\ \A q \in PCB : q # p => ret'[q] = ret[q]
  BY <1>1, <1>2, <1>4, Movement DEF CoreInv
<1>6. Enters(p, ret[p])
  <2>1. ret' \in [PCB -> {"user", "txLoop", "rxStore"}]
    BY <1>1, <1>2
  <2> QED
    BY <1>1, <1>3, <1>4, <1>5, <2>1
       DEF Enters, Gone, InstLabels, ExLabels, Labels
<1>7. Own(p) = Keeps("pgV", ret[p]) /\ Own(p)' = Keeps(ret[p], "user")
  BY <1>1, <1>3, <1>5 DEF Own, FlashHeld, KeepsFlash
<1>8. Swap \in Own(p) /\ Own(p)' = Own(p) \ {Swap}
  BY <1>3, <1>7, SemFacts DEF Keeps, PagerLabels, DyingLabels
<1> QED
  BY <1>2, <1>6, <1>8, SemFacts, VerhCore

\* The pager preserves the control.
LEMMA PagerCore ==
  ASSUME CoreInv, SupportsInv, FramesInv, NEW p \in PCB, Pager(p)
  PROVE  CoreInv'
<1> DEFINE o == Flash(sup_asid[sup[p]])
           v == Flash(swapPool[frame[p]])
           n == Flash(sup_asid[newSup])
<1>1. p \in Uproc /\ pc[p] \in PagerLabels /\ (pc[p] # "pgV" => ret' = ret)
  BY WhoIsAt DEF Pager, At, InstLabels, PagerLabels, unchangedCall, procVars
<1>2. o \in Mutex /\ o \notin {Swap, Transm, Recv}
  BY <1>1, AsidOf, FlashMutex DEF PagerLabels, Gone
<1>3. pc[p] \in WriteLabels => v \in Mutex /\ v \notin {Swap, Transm, Recv}
  BY <1>1, FlashMutex DEF FramesInv
<1>4. /\ KeepsFlash("pgWr", v, o, n) = {v} /\ KeepsFlash("pgWrV", v, o, n) = {v}
      /\ KeepsFlash("pgRd", v, o, n) = {o} /\ KeepsFlash("pgRdV", v, o, n) = {o}
  BY DEF KeepsFlash
<1> HIDE DEF n
<1>5. CASE At(p, "pgP") /\ PASSEREN(p, Swap) /\ Goto(p, "pgHold") /\ unchangedCall
  BY <1>1, <1>5, PassArrow, SemFacts
     DEF PassArrows, unchangedCall, procVars, callVars, poolVars
<1>6. ASSUME NEW l, NEW m, At(p, l), Local(p, m), pc[p] # "pgV", <<l, m>> \in QuietArrows
      PROVE  CoreInv'
  <2>1. m \notin ExLabels
    BY <1>1, <1>6 DEF At, QuietArrows, PagerLabels, ExLabels
  <2> QED
    BY <1>1, <1>6, <2>1, QuietCore DEF Local, Stay, semVars
<1>7. CASE At(p, "pgHold") /\ Local(p, "pgSelect")
  BY <1>6, <1>7 DEF QuietArrows, At
<1>8. CASE At(p, "pgSelect") /\ \E m \in {"pgFail", "pgRdP", "pgWrP"} : Local(p, m)
  BY <1>6, <1>8 DEF QuietArrows, At
<1>9. CASE At(p, "pgWrP") /\ PASSEREN(p, v) /\ Goto(p, "pgWr") /\ unchangedCall
  <2>1. v \in Mutex /\ v \notin {Swap, Transm, Recv} /\ <<"pgWrP", "pgWr">> \in PassFlash
    BY <1>3, <1>9 DEF At, WriteLabels, PassFlash
  <2>2. ret' = ret /\ UNCHANGED <<swapPool, frame, sup, sup_asid, newSup>>
    BY <1>9 DEF unchangedCall, procVars, callVars, poolVars
  <2> QED
    BY <1>1, <1>4, <1>9, <2>1, <2>2, PassArrow DEF n
<1>10. CASE At(p, "pgRdP") /\ PASSEREN(p, o) /\ Goto(p, "pgRd") /\ unchangedCall
  <2>1. o \in Mutex /\ o \notin {Swap, Transm, Recv} /\ <<"pgRdP", "pgRd">> \in PassFlash
    BY <1>2 DEF PassFlash
  <2>2. ret' = ret /\ UNCHANGED <<swapPool, frame, sup, sup_asid, newSup>>
    BY <1>10 DEF unchangedCall, procVars, callVars, poolVars
  <2> QED
    BY <1>1, <1>4, <1>10, <2>1, <2>2, PassArrow DEF n
<1>11. ASSUME NEW l, NEW m, At(p, l), DOIO(p), Goto(p, m), unchangedCall,
              <<l, m>> \in {<<"pgWr", "pgWrV">>, <<"pgRd", "pgRdV">>}
       PROVE  CoreInv'
  <2>1. /\ m \notin ExLabels /\ <<l, m>> \in QuietFlash
        /\ ret' = ret /\ UNCHANGED <<swapPool, frame, sup, sup_asid, newSup>>
        /\ UNCHANGED <<sem, s_procq>>
    BY <1>11 DEF QuietFlash, ExLabels, unchangedCall, procVars, callVars, poolVars, DOIO, semVars
  <2> QED
    BY <1>1, <1>11, <2>1, QuietCore
<1>12. ASSUME NEW m \in {"pgRdP", "pgFail"}, At(p, "pgWrV"), VERHOGEN(v), Goto(p, m)
       PROVE  CoreInv'
  <2>1. v \in Mutex /\ v \notin {Swap, Transm, Recv} /\ <<"pgWrV", m>> \in VerhFlash
    BY <1>3, <1>12 DEF At, WriteLabels, VerhFlash
  <2>2. ret' = ret
    BY <1>1, <1>12 DEF At
  <2> QED
    BY <1>1, <1>4, <1>12, <2>1, <2>2, VerhArrow DEF n
<1>13. ASSUME NEW m \in {"pgSet", "pgFail"}, At(p, "pgRdV"), VERHOGEN(o), Goto(p, m)
       PROVE  CoreInv'
  <2>1. o \in Mutex /\ o \notin {Swap, Transm, Recv} /\ <<"pgRdV", m>> \in VerhFlash
    BY <1>2, <1>13 DEF VerhFlash
  <2>2. ret' = ret
    BY <1>1, <1>13 DEF At
  <2> QED
    BY <1>1, <1>4, <1>13, <2>1, <2>2, VerhArrow DEF n
<1>14. CASE At(p, "pgSet") /\ Local(p, "pgV")
  BY <1>6, <1>14 DEF QuietArrows, At
<1>15. CASE At(p, "pgFail") /\ VERHOGEN(Swap) /\ Goto(p, "trap")
  <2>1. ret' = ret
    BY <1>1, <1>15 DEF At
  <2> QED
    BY <1>1, <1>15, <2>1, VerhArrow, SemFacts DEF VerhArrows
<1>16. CASE At(p, "pgV")
  BY <1>16, PagerReturns
<1> QED
  BY <1>5, <1>7, <1>8, <1>9, <1>10, <1>11, <1>12, <1>13, <1>14, <1>15, <1>16
     DEF Pager, SelectFrame, EndWrite

\* Whoever dies has nothing but, at most, the transmitter.
LEMMA WhoDies ==
  ASSUME CoreInv, NEW p \in PCB, At(p, "trTerm") \/ At(p, "halt")
  PROVE  /\ \A q \in Offspring(p) : q \in PCB /\ pc[q] \notin InnerLabels
         /\ \A q \in Offspring(p) \cap Uproc : pc[q] \in Gone
         /\ Shell \in Offspring(p) => \A c \in Child : pc[c] = "none" \/ c \in Offspring(p)
<1>1. pc[p] \in {"trTerm", "halt"} /\ currProc = p /\ p \notin Blocked
  BY WhoIsAt
<1>2. (pc[p] = "halt" <=> p = Inst) /\ Shell \in PCB \ {Inst} /\ Child \subseteq Uproc
      /\ Uproc = PCB \ {Inst}
  BY <1>1, WhoIsAt, ProcAssumption DEF InstLabels, Uproc, Child
<1>3. p \notin Child => pc[Shell] \in Gone
  <2>1. CASE p = Inst
    BY <1>1, <1>2, <2>1, BlockedIn, SemFacts DEF CoreInv, ActiveInv
  <2>2. CASE p = Shell
    BY <1>1, <1>2, <2>2 DEF Gone
  <2> QED
    BY <1>2, <2>1, <2>2 DEF Child
<1>4. pc[Shell] \in Gone => \A c \in Child : pc[c] \in Gone
  <2>1. pc[Shell] \in Gone => pc[Shell] # "exWait" /\ pc[Shell] # "return"
    BY DEF Gone
  <2>2. pc[Shell] \in Gone => ~Asleep
    BY <2>1, SemFacts DEF Asleep, CoreInv, QueuesInv, WaitsAt
  <2> QED
    BY <2>2 DEF CoreInv, ActiveInv
<1>5. \A q \in Offspring(p) \cap Uproc : pc[q] \in Gone
  <2>1. CASE p \in Child
    BY <1>1, <1>2, <2>1 DEF Offspring, Gone, Child
  <2>2. CASE p \notin Child
    BY <1>2, <1>3, <1>4, <2>2 DEF Child
  <2> QED
    BY <2>1, <2>2
<1>6. \A q \in Offspring(p) : q \in PCB
  BY DEF Offspring, Live
<1>7. \A q \in Offspring(p) : pc[q] \notin InnerLabels
  <2>1. pc[Inst] \notin InnerLabels
    BY DEF CoreInv, LabelsInv, InstLabels, InnerLabels, PagerLabels
  <2>2. \A q \in PCB : pc[q] \in Gone => pc[q] \notin InnerLabels
    BY DEF Gone, InnerLabels, PagerLabels
  <2> QED
    BY <1>2, <1>5, <1>6, <2>1, <2>2
<1>8. Shell \in Offspring(p) => \A c \in Child : pc[c] = "none" \/ c \in Offspring(p)
  BY <1>2 DEF Offspring, Live, Child
<1> QED
  BY <1>5, <1>6, <1>7, <1>8

\* TERMPROCESS preserves the control.
LEMMA TermCore ==
  ASSUME CoreInv, NEW p \in PCB, At(p, "trTerm") \/ At(p, "halt"), TERMPROCESS(p)
  PROVE  CoreInv'
<1> DEFINE D == Offspring(p)
<1>1. /\ QueuesInv' /\ p \in D
      /\ \A q \in PCB : pc'[q] = IF q \in D THEN "none" ELSE pc[q]
      /\ \A s \in Sem : Elems(s_procq'[s]) = Elems(s_procq[s]) \ D
  BY WhoIsAt, TermQueues DEF CoreInv
<1>2. /\ pc' = [q \in PCB |-> IF q \in D THEN "none" ELSE pc[q]]
      /\ ret' = [q \in PCB |-> IF q \in D THEN "user" ELSE ret[q]]
      /\ frame' = [q \in PCB |-> IF q \in D THEN 0 ELSE frame[q]]
      /\ sup' = [q \in PCB |-> IF q \in D THEN 0 ELSE sup[q]]
      /\ UNCHANGED <<sem, newSup, sup_asid, swapPool>>
  BY DEF TERMPROCESS, callVars, poolVars
<1>3. /\ \A q \in D : q \in PCB /\ pc[q] \notin InnerLabels
      /\ \A q \in D \cap Uproc : pc[q] \in Gone
      /\ Shell \in D => \A c \in Child : pc[c] = "none" \/ c \in D
  BY WhoDies
<1> HIDE DEF D
<1>4. LabelsInv'
  <2>1. pc' \in [PCB -> Labels] /\ ret' \in [PCB -> {"user", "txLoop", "rxStore"}]
    BY <1>2 DEF CoreInv, LabelsInv, Labels
  <2> QED
    BY <1>1, <1>2, <2>1, ProcAssumption
       DEF CoreInv, LabelsInv, InstLabels, ExLabels, Uproc, Child
<1>5. ActiveInv'
  <2>1. /\ Shell \in PCB /\ Inst \in PCB /\ Child \subseteq PCB /\ Child \subseteq Uproc
        /\ Shell \in Uproc /\ Uproc \subseteq PCB /\ "none" \in Gone
    BY ProcAssumption DEF Uproc, Child, Gone
  <2>2. \A c \in PCB : pc'[c] \notin Gone => c \notin D /\ pc'[c] = pc[c]
    BY <1>1, <2>1
  <2>3. /\ Elems(s_procq'[ShellSem]) = Elems(s_procq[ShellSem]) \ D
        /\ Elems(s_procq'[MasterSem]) = Elems(s_procq[MasterSem]) \ D
    BY <1>1, SemFacts
  <2>4. \A c \in Child : pc'[c] \notin Gone => Asleep' /\ sem'[ShellSem] = 0
    <3> SUFFICES ASSUME NEW c \in Child, pc'[c] \notin Gone
                 PROVE  Asleep' /\ sem'[ShellSem] = 0
      OBVIOUS
    <3>1. c \notin D /\ pc[c] \notin Gone
      BY <2>1, <2>2
    <3>2. Shell \notin D
      BY <1>3, <2>1, <3>1
    <3> QED
      BY <1>1, <1>2, <2>1, <2>3, <3>1, <3>2 DEF CoreInv, ActiveInv, Asleep
  <2>5. sem'[ShellSem] # 0 => pc'[Shell] = "exWait"
    <3>1. pc[Shell] = "exWait" => Shell \notin D
      BY <1>3, <2>1 DEF Gone
    <3> QED
      BY <1>1, <1>2, <2>1, <3>1 DEF CoreInv, ActiveInv
  <2>6. pc'[Inst] = "header" => (\A q \in Uproc : pc'[q] = "none") /\ sem'[MasterSem] = 0
    BY <1>1, <1>2, <2>1 DEF CoreInv, ActiveInv
  <2>7. pc'[Inst] = "halt" /\ Inst \notin Elems(s_procq'[MasterSem]) => pc'[Shell] \in Gone
    BY <1>1, <2>1, <2>3 DEF CoreInv, ActiveInv
  <2> QED
    BY <1>2, <2>1, <2>2, <2>3, <2>4, <2>5, <2>6, <2>7 DEF CoreInv, ActiveInv
<1>6. \A q \in PCB : /\ Held(q)' \subseteq Held(q)
                     /\ Held(q) \subseteq Held(q)' \cup {Transm}
  <2> SUFFICES ASSUME NEW q \in PCB
               PROVE  /\ Held(q)' \subseteq Held(q)
                      /\ Held(q) \subseteq Held(q)' \cup {Transm}
    OBVIOUS
  <2>1. CASE q \in D
    <3>1. pc'[q] = "none"
      BY <1>1, <2>1
    <3>2. Own(q)' = {}
      BY <3>1, KeepsFacts DEF Own, FlashHeld
    <3>3. Own(q) \subseteq {Transm}
      BY <1>3, <2>1, KeepsFacts DEF Own, FlashHeld
    <3> QED
      BY <3>2, <3>3 DEF Held
  <2>2. CASE q \notin D
    <3>1. pc'[q] = pc[q] /\ ret'[q] = ret[q] /\ frame'[q] = frame[q] /\ sup'[q] = sup[q]
      BY <1>2, <2>2
    <3>2. Own(q)' = Own(q)
      BY <1>2, <3>1 DEF Own, FlashHeld
    <3>3. q \in Blocked' <=> q \in Blocked
      BY <1>1, <2>2 DEF Blocked, Waits
    <3> QED
      BY <3>2, <3>3 DEF Held
  <2> QED
    BY <2>1, <2>2
<1>7. MutexInv'
  BY <1>2, <1>6, MutexKept DEF CoreInv, MutexInv
<1> QED
  BY <1>1, <1>4, <1>5, <1>7 DEF CoreInv

\* Nothing but the processor changes hands.
LEMMA IdleCore ==
  ASSUME CoreInv, QueuesInv', UNCHANGED <<pc, ret, sem, s_procq>>,
         \/ UNCHANGED <<swapPool, frame, sup, sup_asid, newSup>>
         \/ \A q \in PCB : pc[q] \notin InnerLabels
  PROVE  CoreInv'
<1>1. Blocked' = Blocked
  BY DEF Blocked, Waits
<1>2. \A q \in PCB : Held(q)' = Held(q)
  BY <1>1, HeldSame
<1>3. MutexInv'
  BY <1>2, MutexKept DEF CoreInv, MutexInv
<1>4. ActiveInv'
  BY DEF CoreInv, ActiveInv, Asleep
<1>5. LabelsInv'
  BY DEF CoreInv, LabelsInv
<1> QED
  BY <1>3, <1>4, <1>5 DEF CoreInv

\* Before the shell is started there is nobody else.
LEMMA HeaderAlone ==
  ASSUME CoreInv, pc[Inst] = "header"
  PROVE  /\ \A q \in Uproc : pc[q] = "none" /\ ret[q] = "user"
         /\ \A q \in PCB : pc[q] \notin InnerLabels
         /\ Shell \notin Elems(s_procq[ShellSem])
<1>1. \A q \in Uproc : pc[q] = "none"
  BY DEF CoreInv, ActiveInv
<1>2. \A q \in Uproc : ret[q] = "user"
  BY <1>1 DEF CoreInv, LabelsInv, PagerLabels, DyingLabels, Uproc
<1>3. \A q \in PCB : pc[q] \notin InnerLabels
  BY <1>1 DEF Uproc, InnerLabels, PagerLabels
<1>4. Shell \notin Elems(s_procq[ShellSem])
  BY <1>1, SemFacts, ProcAssumption DEF CoreInv, QueuesInv, WaitsAt, Uproc
<1> QED
  BY <1>1, <1>2, <1>3, <1>4

\* The instantiator starts the shell, or calls PANIC.
LEMMA HeaderCore ==
  ASSUME CoreInv, NEW p \in PCB, At(p, "header"), CREATEPROCESS(p, Shell, newSup, "shellEnd")
  PROVE  CoreInv'
<1>1. p = Inst /\ pc[p] = "header" /\ currProc = p /\ pc \in [PCB -> Labels]
  BY WhoIsAt DEF InstLabels, CoreInv, LabelsInv
<1>2. Shell \in PCB /\ Shell # Inst /\ Shell \in Uproc /\ Inst \in PCB /\ Uproc = PCB \ {Inst}
  BY ProcAssumption DEF Uproc
<1>3. /\ \A q \in Uproc : pc[q] = "none" /\ ret[q] = "user"
      /\ \A q \in PCB : pc[q] \notin InnerLabels
      /\ Shell \notin Elems(s_procq[ShellSem])
  BY <1>1, HeaderAlone
<1>4. /\ pc' = [pc EXCEPT ![p] = "shellEnd", ![Shell] = "user"]
      /\ UNCHANGED <<ret, frame, sem, s_procq>>
  BY DEF CREATEPROCESS, semVars
<1>5. /\ pc'[Inst] = "shellEnd" /\ pc'[Shell] = "user"
      /\ \A q \in PCB \ {Inst, Shell} : pc'[q] = pc[q]
  BY <1>1, <1>2, <1>4
<1>6. QueuesInv'
  BY <1>1, <1>2, <1>3, CreateQueues DEF CoreInv
<1>7. LabelsInv'
  <2>1. pc' \in [PCB -> Labels]
    BY <1>1, <1>4 DEF Labels
  <2>2. ret[Inst] = "user"
    BY <1>1, <1>2 DEF CoreInv, LabelsInv, PagerLabels, DyingLabels
  <2>3. \A q \in PCB : ret'[q] = "user"
    BY <1>2, <1>3, <1>4, <2>2
  <2>4. \A q \in Uproc : pc'[q] \in {"none", "user"}
    BY <1>2, <1>3, <1>5
  <2>5. /\ \A q \in Uproc : pc'[q] \notin InstLabels
        /\ \A q \in Uproc : pc'[q] \notin ExLabels
        /\ \A q \in PCB : pc'[q] # "trRxV"
    BY <1>2, <1>5, <2>4 DEF InstLabels, ExLabels
  <2> QED
    BY <1>4, <1>5, <2>1, <2>3, <2>5 DEF CoreInv, LabelsInv, InstLabels, Child
<1>8. ActiveInv'
  <2>1. \A c \in Child : pc'[c] \in Gone
    BY <1>2, <1>3, <1>5 DEF Child, Gone
  <2>2. sem[MasterSem] = 0 /\ sem[ShellSem] = 0
    BY <1>1, <1>2, <1>3 DEF CoreInv, ActiveInv
  <2> QED
    BY <1>2, <1>3, <1>4, <1>5, <2>1, <2>2 DEF ActiveInv
<1>9. \A q \in PCB : Held(q)' = Held(q)
  <2>1. Blocked' = Blocked
    BY <1>4 DEF Blocked, Waits
  <2>2. \A q \in PCB \ {Inst, Shell} : Held(q)' = Held(q)
    BY <1>3, <1>4, <1>5, <2>1, HeldSame
  <2>3. ASSUME NEW q \in {Inst, Shell} PROVE Own(q) = {} /\ Own(q)' = {}
    <3>1. pc[q] \in {"header", "none"} /\ pc'[q] \in {"shellEnd", "user"}
      BY <1>1, <1>2, <1>3, <1>5
    <3> QED
      BY <3>1, KeepsFacts DEF Own, FlashHeld
  <2> QED
    BY <2>2, <2>3 DEF Held
<1>10. MutexInv'
  BY <1>4, <1>9, MutexKept DEF CoreInv, MutexInv
<1> QED
  BY <1>6, <1>7, <1>8, <1>10 DEF CoreInv

\* The instantiator waits for the end of the shell.
LEMMA ShellEndCore ==
  ASSUME CoreInv, NEW p \in PCB, At(p, "shellEnd"), PASSEREN(p, MasterSem), Goto(p, "halt"),
         UNCHANGED <<procVars, callVars, poolVars, panic>>
  PROVE  CoreInv'
<1>1. p = Inst /\ pc[p] = "shellEnd" /\ currProc = p /\ p \notin Blocked
  BY WhoIsAt DEF InstLabels
<1>2. Moves(p, "halt") /\ UNCHANGED <<ret, swapPool, frame, sup, sup_asid, newSup>>
  BY <1>1 DEF Moves, CoreInv, LabelsInv, procVars, callVars, poolVars
<1>3. pc'[p] = "halt" /\ (\A q \in PCB : q # p => pc'[q] = pc[q])
  BY <1>2, Movement DEF CoreInv
<1>4. LabelsInv'
  <2>1. ret[p] = "user" /\ "halt" \in Labels
    BY <1>1 DEF CoreInv, LabelsInv, PagerLabels, DyingLabels, Labels
  <2>2. pc' \in [PCB -> Labels]
    BY <2>1 DEF Goto, CoreInv, LabelsInv
  <2> QED
    BY <1>1, <1>2, <1>3, <2>1, <2>2 DEF CoreInv, LabelsInv, Uproc, Child, InstLabels
<1>5. Own(p) = {} /\ Own(p)' = {}
  BY <1>1, <1>3, KeepsFacts DEF Own, FlashHeld
<1>6. Shell \in PCB \ {p} /\ Child \subseteq PCB \ {p} /\ Uproc = PCB \ {p} /\ p \in PCB
  BY <1>1, ProcAssumption DEF Child, Uproc
<1>7. CASE sem[MasterSem] = 0
  <2>1. /\ s_procq' = [s_procq EXCEPT ![MasterSem] = InsertTail(@, p)]
        /\ scheduler(readyQueue) /\ UNCHANGED io /\ sem' = sem
    BY <1>7 DEF PASSEREN
  <2>2. WaitsAt(MasterSem, p)'
    BY <1>1, <1>3, <1>6 DEF WaitsAt
  <2>0. MasterSem \in Sem /\ {MasterSem, ShellSem} \subseteq Sem /\ MasterSem # ShellSem /\ QueuesInv
    BY SemFacts DEF CoreInv
  <2>3. /\ QueuesInv' /\ Blocked' = Blocked \cup {p}
        /\ Elems(s_procq'[MasterSem]) = Elems(s_procq[MasterSem]) \cup {p}
        /\ s_procq'[ShellSem] = s_procq[ShellSem]
    <3> DEFINE m == MasterSem
    <3>1. /\ m \in Sem /\ WaitsAt(m, p)' /\ QueuesInv /\ Moves(p, "halt")
          /\ s_procq' = [s_procq EXCEPT ![m] = InsertTail(@, p)]
          /\ scheduler(readyQueue) /\ UNCHANGED io
      BY <1>2, <2>0, <2>1, <2>2
    <3> HIDE DEF m
    <3>2. /\ QueuesInv' /\ Blocked' = Blocked \cup {p}
          /\ Elems(s_procq'[m]) = Elems(s_procq[m]) \cup {p}
          /\ \A t \in Sem : t # m => s_procq'[t] = s_procq[t]
      BY <3>1, BlockQueues
    <3> QED
      BY <2>0, <3>2 DEF m
  <2>4. ActiveInv'
    <3>1. Asleep' = Asleep
      BY <1>3, <1>6, <2>3 DEF Asleep
    <3> QED
      BY <1>1, <1>3, <1>6, <1>7, <2>1, <2>3, <3>1 DEF CoreInv, ActiveInv
  <2>5. \A q \in PCB : Held(q)' = Held(q)
    <3>1. \A q \in PCB : q # p => Held(q)' = Held(q)
      BY <1>2, <1>3, <2>3, HeldSame
    <3> QED
      BY <1>5, <3>1 DEF Held
  <2>6. MutexInv'
    BY <2>1, <2>5, MutexKept DEF CoreInv, MutexInv
  <2> QED
    BY <1>4, <2>3, <2>4, <2>6 DEF CoreInv
<1>8. CASE sem[MasterSem] # 0
  <2>1. /\ sem' = [sem EXCEPT ![MasterSem] = @ - 1] /\ s_procq' = s_procq
        /\ UNCHANGED <<io, currProc, readyQueue>>
    BY <1>8 DEF PASSEREN, Stay
  <2>2. QueuesInv' /\ Blocked' = Blocked
    BY <1>2, <2>1, StayQueues DEF CoreInv
  <2>3. /\ sem' \in [Sem -> {0, 1}] /\ sem'[MasterSem] = 0 /\ sem'[ShellSem] = sem[ShellSem]
        /\ \A s \in Mutex : sem'[s] = sem[s]
    BY <1>8, <2>1, SemFacts DEF CoreInv, MutexInv
  <2>4. ActiveInv'
    <3>1. Asleep' = Asleep
      BY <1>3, <1>6, <2>1 DEF Asleep
    <3>2. pc[Shell] \in Gone
      BY <1>8 DEF CoreInv, ActiveInv
    <3> QED
      BY <1>1, <1>3, <1>6, <1>8, <2>1, <2>3, <3>1, <3>2 DEF CoreInv, ActiveInv
  <2>5. \A q \in PCB : Held(q)' = Held(q)
    <3>1. \A q \in PCB : q # p => Held(q)' = Held(q)
      BY <1>2, <1>3, <2>2, HeldSame
    <3> QED
      BY <1>5, <3>1 DEF Held
  <2>6. MutexInv'
    BY <2>3, <2>5, MutexKept DEF CoreInv
  <2> QED
    BY <1>4, <2>2, <2>4, <2>6 DEF CoreInv
<1> QED
  BY <1>7, <1>8

\* test preserves the control.
LEMMA TestCore ==
  ASSUME CoreInv, NEW p \in PCB, test(p)
  PROVE  CoreInv'
<1>1. CASE At(p, "header") /\ CREATEPROCESS(p, Shell, newSup, "shellEnd")
  BY <1>1, HeaderCore
<1>2. CASE At(p, "header") /\ UNCHANGED <<pc, procVars, semVars, cpuVars>>
  <2>1. p = Inst /\ pc[Inst] = "header"
    BY <1>2, WhoIsAt DEF InstLabels
  <2>2. UNCHANGED <<pc, ret, sem, s_procq, io, currProc, readyQueue>>
    BY <1>2 DEF procVars, semVars, cpuVars
  <2>3. QueuesInv'
    BY <2>2 DEF CoreInv, QueuesInv, Runnable, Blocked, Waits, Live, WaitsAt
  <2> QED
    BY <2>1, <2>2, <2>3, HeaderAlone, IdleCore
<1>3. CASE /\ At(p, "shellEnd") /\ PASSEREN(p, MasterSem) /\ Goto(p, "halt")
           /\ UNCHANGED <<procVars, callVars, poolVars, panic>>
  BY <1>3, ShellEndCore
<1>4. CASE At(p, "halt") /\ TERMPROCESS(p)
  BY <1>4, TermCore
<1> QED
  BY <1>1, <1>2, <1>3, <1>4 DEF test

\* Devices and the timer preserve the control.
LEMMA DeviceCore ==
  ASSUME CoreInv, NEW p \in PCB, IoDone(p) \/ PLTInterrupt(p)
  PROVE  CoreInv'
<1>1. QueuesInv'
  BY IoDoneQueues, SliceQueues DEF CoreInv
<1>2. UNCHANGED <<pc, ret, sem, s_procq>> /\ UNCHANGED <<swapPool, frame, sup, sup_asid, newSup>>
  BY DEF IoDone, PLTInterrupt, procVars, callVars, poolVars, semVars
<1> QED
  BY <1>1, <1>2, IdleCore

\* Every handler preserves the control.
LEMMA HandlerCore ==
  ASSUME CoreInv, SupportsInv, FramesInv, NEW p \in PCB, Handler(p)
  PROVE  CoreInv'
<1>1. CASE test(p)
  BY <1>1, TestCore
<1>2. CASE WRITETERMINAL(p) \/ READTERMINAL(p) \/ Return(p)
  BY <1>2, WriteCore, ReadCore, ReturnCore
<1>3. CASE EXECUTE(p)
  BY <1>3, ExecuteCore
<1>4. CASE ProgramTrapHandler(p)
  <2>1. CASE pc[p] = "trTerm"
    <3>1. At(p, "trTerm") /\ TERMPROCESS(p)
      BY <1>4, <2>1, ListPlaces DEF ProgramTrapHandler, At
    <3> QED
      BY <3>1, TermCore
  <2> QED
    BY <1>4, <2>1, TrapCore
<1>5. CASE Pager(p)
  BY <1>5, PagerCore
<1> QED
  BY <1>1, <1>2, <1>3, <1>4, <1>5 DEF Handler

\* Every step preserves the control.
LEMMA NextCore ==
  ASSUME CoreInv, SupportsInv, FramesInv, [Next]_vars
  PROVE  CoreInv'
<1>1. ASSUME NEW p \in PCB, Handler(p) PROVE CoreInv'
  BY <1>1, HandlerCore
<1>2. ASSUME NEW p \in PCB, IoDone(p) \/ PLTInterrupt(p) PROVE CoreInv'
  BY <1>2, DeviceCore
<1>3. ASSUME NEW p \in Uproc, PageFault(p) \/ GeneralExceptionHandler(p) PROVE CoreInv'
  BY <1>3, FaultCore, ExceptionCore
<1>4. CASE UNCHANGED vars
  <2>1. /\ UNCHANGED <<pc, ret, sem, s_procq, io, currProc, readyQueue>>
        /\ UNCHANGED <<swapPool, frame, sup, sup_asid, newSup>>
    BY <1>4 DEF vars, procVars, callVars, poolVars, semVars, cpuVars
  <2>2. QueuesInv'
    BY <2>1 DEF CoreInv, QueuesInv, Runnable, Blocked, Waits, Live, WaitsAt
  <2> QED
    BY <2>1, <2>2, IdleCore
<1> QED
  BY <1>1, <1>2, <1>3, <1>4 DEF Next, Stopped

-----------------------------------------------------------------------------
(* The frames of the swap pool *)

\* A set of numbers has a least one.
LEMMA Least ==
  ASSUME NEW T \in SUBSET Nat, T # {}
  PROVE  \E f \in T : \A g \in T : f <= g
<1> DEFINE R == {ss \in Nat \X Nat : ss[1] < ss[2]}
<1>1. IsWellFoundedOn(R, Nat)
  BY NatLessThanWellFounded DEF OpToRel
<1>2. PICK f \in T : \A g \in T : ~(<<g, f>> \in R)
  BY <1>1, WFMin
<1>3. \A g \in T : f <= g
  <2> SUFFICES ASSUME NEW g \in T, ~(f <= g) PROVE FALSE
    OBVIOUS
  <2>1. g \in Nat /\ f \in Nat /\ g < f
    OBVIOUS
  <2>2. <<g, f>> \in R
    BY <2>1
  <2> QED
    BY <1>2, <2>2
<1> QED
  BY <1>3

\* The first free frame exists.
LEMMA FirstFree ==
  ASSUME NEW T \in SUBSET Nat, T # {}
  PROVE  LET h == CHOOSE f \in T : \A g \in T : f <= g IN h \in T
BY Least

\* Frames that nobody takes, and that go only when their owner may not have any.
LEMMA FramesKept ==
  ASSUME FramesInv, UNCHANGED <<swapPool, fifo_ptr>>,
         frame' \in [PCB -> 0 .. POOLSIZE - 1],
         page_mutex_holder' \in {page_mutex_holder, -1},
         \A q \in PCB : pc'[q] \in WriteLabels => pc[q] \in WriteLabels /\ frame'[q] = frame[q],
         \A q \in Uproc : pc[q] \in HoldLabels =>
           pc'[q] \in HoldLabels \/ page_mutex_holder' = -1,
         \A q \in Uproc : asid[q] # 0 /\ pc[q] \notin DyingLabels \ {"trap", "trFree"} =>
           asid'[q] = asid[q] /\ pc'[q] \notin DyingLabels \ {"trap", "trFree"}
  PROVE  FramesInv'
<1>1. \A q \in PCB : pc'[q] \in WriteLabels => swapPool'[frame'[q]] \in Support
  BY DEF FramesInv
<1>2. page_mutex_holder' # -1 => \E q \in Uproc : pc'[q] \in HoldLabels
  BY DEF FramesInv
<1>3. FramesOwned'
  <2> SUFFICES ASSUME NEW f \in DOMAIN swapPool, swapPool[f] # -1
               PROVE  \E q \in Uproc : /\ asid'[q] = swapPool[f]
                                       /\ pc'[q] \notin DyingLabels \ {"trap", "trFree"}
    BY DEF FramesOwned
  <2>1. PICK q \in Uproc : /\ asid[q] = swapPool[f]
                           /\ pc[q] \notin DyingLabels \ {"trap", "trFree"}
    BY DEF FramesInv, FramesOwned
  <2>2. swapPool[f] \in Support
    BY DEF FramesInv
  <2>3. asid[q] # 0
    BY <2>1, <2>2 DEF Support
  <2> QED
    BY <2>1, <2>3
<1>4. page_mutex_holder' \in -1 .. UPROCMAX
  BY SizeAssumption DEF FramesInv
<1> QED
  BY <1>1, <1>2, <1>3, <1>4 DEF FramesInv

\* A process that moves on without touching the pool.
LEMMA FramesMoved ==
  ASSUME FramesInv, pc \in [PCB -> Labels], UNCHANGED <<swapPool, fifo_ptr, asid>>,
         NEW p \in PCB, NEW m, Goto(p, m),
         frame' \in [PCB -> 0 .. POOLSIZE - 1],
         \A q \in PCB : q # p => frame'[q] = frame[q],
         m \in WriteLabels => pc[p] \in WriteLabels /\ frame'[p] = frame[p],
         page_mutex_holder' \in {page_mutex_holder, -1},
         pc[p] \in HoldLabels => m \in HoldLabels \/ page_mutex_holder' = -1,
         m \in DyingLabels \ {"trap", "trFree"} => pc[p] \in DyingLabels \ {"trap", "trFree"}
  PROVE  FramesInv'
<1>1. pc'[p] = m /\ \A q \in PCB : q # p => pc'[q] = pc[q]
  BY DEF Goto
<1>2. Uproc \subseteq PCB
  BY DEF Uproc
<1>3. \A q \in PCB : pc'[q] \in WriteLabels => pc[q] \in WriteLabels /\ frame'[q] = frame[q]
  BY <1>1
<1>4. \A q \in PCB : pc[q] \in HoldLabels => pc'[q] \in HoldLabels \/ page_mutex_holder' = -1
  BY <1>1
<1>5. \A q \in PCB : pc[q] \notin DyingLabels \ {"trap", "trFree"} =>
        asid'[q] = asid[q] /\ pc'[q] \notin DyingLabels \ {"trap", "trFree"}
  BY <1>1
<1> QED
  BY <1>2, <1>3, <1>4, <1>5, FramesKept

\* The pager registers frames only to the process it works for.
LEMMA PagerFrames ==
  ASSUME CoreInv, SupportsInv, FramesInv, NEW p \in PCB, Pager(p)
  PROVE  FramesInv'
<1>1. /\ p \in Uproc /\ pc[p] \in PagerLabels /\ currProc = p /\ pc \in [PCB -> Labels]
      /\ pc[p] \notin Gone
  BY WhoIsAt DEF Pager, At, Running, InstLabels, PagerLabels, Gone, CoreInv, LabelsInv
<1>2. /\ sup_asid[sup[p]] = asid[p] /\ asid[p] \in Support /\ asid[p] \in 0 .. UPROCMAX
  BY <1>1, AsidOf
<1>3. UNCHANGED asid
  BY DEF Pager, unchangedCall, procVars
<1>4. ASSUME NEW m, Goto(p, m), UNCHANGED <<frame, swapPool, fifo_ptr, page_mutex_holder>>,
             m \in WriteLabels => pc[p] \in WriteLabels, pc[p] \in HoldLabels => m \in HoldLabels,
             m \notin DyingLabels
      PROVE  FramesInv'
  BY <1>1, <1>3, <1>4, FramesMoved DEF FramesInv
<1>5. CASE At(p, "pgHold") /\ page_mutex_holder' = sup_asid[sup[p]] /\ Local(p, "pgSelect")
           /\ UNCHANGED <<procVars, callVars, swapPool, fifo_ptr, panic>>
  <2>1. pc'[p] = "pgSelect" /\ (\A q \in PCB : q # p => pc'[q] = pc[q]) /\ pc[p] = "pgHold"
    BY <1>1, <1>5 DEF Local, Goto, At
  <2>2. page_mutex_holder' = asid[p] /\ UNCHANGED <<frame, swapPool, fifo_ptr>>
    BY <1>2, <1>5 DEF procVars
  <2>3. page_mutex_holder' \in -1 .. UPROCMAX /\ pc'[p] \in HoldLabels
    BY <1>2, <2>1, <2>2 DEF HoldLabels, PagerLabels
  <2>4. \A q \in PCB : pc'[q] \in WriteLabels => swapPool'[frame'[q]] \in Support
    BY <2>1, <2>2 DEF FramesInv, WriteLabels
  <2>5. FramesOwned'
    <3>1. \A q \in Uproc : pc[q] \notin DyingLabels \ {"trap", "trFree"} =>
            asid'[q] = asid[q] /\ pc'[q] \notin DyingLabels \ {"trap", "trFree"}
      BY <1>3, <2>1 DEF DyingLabels, Uproc
    <3> QED
      BY <2>2, <3>1 DEF FramesInv, FramesOwned
  <2> QED
    BY <1>1, <2>2, <2>3, <2>4, <2>5 DEF FramesInv
<1>6. CASE At(p, "pgSelect") /\ SelectFrame(p)
           /\ UNCHANGED <<ret, sup, asid, callVars, page_mutex_holder, swapPool, panic>>
  <2>1. PICK m \in {"pgRdP", "pgWrP"}, f \in 0 .. POOLSIZE - 1 :
          /\ Goto(p, m) /\ frame' = [frame EXCEPT ![p] = f]
          /\ fifo_ptr' \in 0 .. POOLSIZE - 1
          /\ m = "pgWrP" => swapPool[f] \in Support
    <3>1. CASE Free # {}
      <4>1. Free \in SUBSET Nat /\ Free \subseteq 0 .. POOLSIZE - 1
        BY SizeAssumption DEF Free, FramesInv
      <4> DEFINE h == CHOOSE f \in Free : \A g \in Free : f <= g
      <4>2. h \in Free
        BY <3>1, <4>1, FirstFree
      <4>3. Goto(p, "pgRdP") /\ frame' = [frame EXCEPT ![p] = h] /\ fifo_ptr' = fifo_ptr
        BY <1>6, <3>1 DEF SelectFrame, Local
      <4> HIDE DEF h
      <4> QED
        BY <4>1, <4>2, <4>3 DEF FramesInv
    <3>2. CASE Free = {}
      <4>1. /\ Goto(p, "pgWrP") /\ frame' = [frame EXCEPT ![p] = fifo_ptr]
            /\ fifo_ptr' = (fifo_ptr + 1) % POOLSIZE
        BY <1>6, <3>2 DEF SelectFrame, Local
      <4>2. fifo_ptr \in 0 .. POOLSIZE - 1 /\ swapPool[fifo_ptr] # -1
        BY <3>2 DEF Free, FramesInv
      <4>3. fifo_ptr' \in 0 .. POOLSIZE - 1
        BY <4>1, <4>2, SizeAssumption
      <4>4. swapPool[fifo_ptr] \in Support
        BY <4>2 DEF FramesInv
      <4> QED
        BY <4>1, <4>2, <4>3, <4>4
    <3> QED
      BY <3>1, <3>2
  <2>2. /\ pc'[p] = m /\ \A q \in PCB : q # p => pc'[q] = pc[q] /\ frame'[q] = frame[q]
        /\ frame'[p] = f /\ frame' \in [PCB -> 0 .. POOLSIZE - 1]
    BY <1>1, <2>1 DEF Goto, FramesInv
  <2>3. \A q \in PCB : pc'[q] \in WriteLabels => swapPool'[frame'[q]] \in Support
    BY <1>6, <2>1, <2>2 DEF FramesInv, WriteLabels
  <2>4. page_mutex_holder' # -1 => \E q \in Uproc : pc'[q] \in HoldLabels
    <3>1. pc'[p] \in HoldLabels
      BY <2>1, <2>2 DEF HoldLabels, PagerLabels
    <3> QED
      BY <1>1, <3>1
  <2>5. FramesOwned'
    <3>1. \A q \in Uproc : pc[q] \notin DyingLabels \ {"trap", "trFree"} =>
            asid'[q] = asid[q] /\ pc'[q] \notin DyingLabels \ {"trap", "trFree"}
      BY <1>3, <2>1, <2>2 DEF DyingLabels, Uproc
    <3> QED
      BY <1>6, <3>1 DEF FramesInv, FramesOwned
  <2> QED
    BY <1>6, <2>1, <2>2, <2>3, <2>4, <2>5 DEF FramesInv
<1>7. CASE /\ At(p, "pgSet")
           /\ swapPool' = [swapPool EXCEPT ![frame[p]] = sup_asid[sup[p]]]
           /\ page_mutex_holder' = -1 /\ Local(p, "pgV")
           /\ UNCHANGED <<procVars, callVars, fifo_ptr, panic>>
  <2>1. pc'[p] = "pgV" /\ (\A q \in PCB : q # p => pc'[q] = pc[q]) /\ frame' = frame
    BY <1>1, <1>7 DEF Local, Goto, procVars
  <2>2. /\ swapPool' \in [0 .. POOLSIZE - 1 -> {-1} \cup Support]
        /\ \A f \in 0 .. POOLSIZE - 1 : swapPool'[f] \in {swapPool[f], asid[p]}
    BY <1>2, <1>7 DEF FramesInv
  <2>3. \A q \in PCB : pc'[q] \in WriteLabels => swapPool'[frame'[q]] \in Support
    BY <1>2, <2>1, <2>2 DEF FramesInv, WriteLabels
  <2>4. FramesOwned'
    <3> SUFFICES ASSUME NEW f \in 0 .. POOLSIZE - 1, swapPool'[f] # -1
                 PROVE  \E q \in Uproc : /\ asid'[q] = swapPool'[f]
                                         /\ pc'[q] \notin DyingLabels \ {"trap", "trFree"}
      BY <2>2 DEF FramesOwned
    <3>1. CASE swapPool'[f] = asid[p]
      BY <1>1, <1>3, <2>1, <3>1 DEF DyingLabels
    <3>2. CASE swapPool'[f] = swapPool[f]
      <4>1. PICK q \in Uproc : /\ asid[q] = swapPool[f]
                               /\ pc[q] \notin DyingLabels \ {"trap", "trFree"}
        BY <3>2 DEF FramesInv, FramesOwned
      <4>2. pc'[q] \notin DyingLabels \ {"trap", "trFree"}
        BY <2>1, <4>1 DEF DyingLabels, Uproc
      <4> QED
        BY <1>3, <3>2, <4>1, <4>2
    <3> QED
      BY <2>2, <3>1, <3>2
  <2> QED
    BY <1>7, <2>1, <2>2, <2>3, <2>4, SizeAssumption DEF FramesInv
<1>8. CASE At(p, "pgV") /\ Goto(p, ret[p]) /\ frame' = [frame EXCEPT ![p] = 0]
           /\ UNCHANGED poolVars
  <2>1. ret[p] \in {"user", "txLoop", "rxStore"}
    BY <1>1 DEF CoreInv, LabelsInv
  <2>2. /\ ret[p] \notin WriteLabels /\ ret[p] \notin DyingLabels /\ pc[p] \notin HoldLabels
        /\ UNCHANGED <<swapPool, fifo_ptr, page_mutex_holder>>
    BY <1>8, <2>1 DEF WriteLabels, DyingLabels, HoldLabels, At, poolVars
  <2>3. frame' \in [PCB -> 0 .. POOLSIZE - 1] /\ \A q \in PCB : q # p => frame'[q] = frame[q]
    BY <1>8, SizeAssumption DEF FramesInv
  <2> QED
    BY <1>1, <1>3, <1>8, <2>2, <2>3, FramesMoved
<1>9. CASE At(p, "pgFail") /\ page_mutex_holder' = -1 /\ Goto(p, "trap")
           /\ frame' = [frame EXCEPT ![p] = 0] /\ UNCHANGED <<swapPool, fifo_ptr>>
  <2>1. frame' \in [PCB -> 0 .. POOLSIZE - 1] /\ \A q \in PCB : q # p => frame'[q] = frame[q]
    BY <1>9, SizeAssumption DEF FramesInv
  <2>2. "trap" \notin WriteLabels /\ "trap" \notin DyingLabels \ {"trap", "trFree"}
    BY DEF WriteLabels
  <2> QED
    BY <1>1, <1>3, <1>9, <2>1, <2>2, FramesMoved
<1>10. CASE \E m \in {"pgHold", "pgWr", "pgWrV", "pgRdP", "pgFail", "pgRd", "pgRdV", "pgSet"} :
              /\ Goto(p, m) /\ UNCHANGED <<frame, swapPool, fifo_ptr, page_mutex_holder>>
              /\ m \in WriteLabels => pc[p] \in WriteLabels
              /\ pc[p] \in HoldLabels => m \in HoldLabels
  BY <1>4, <1>10 DEF DyingLabels
<1>11. CASE \/ At(p, "pgP") /\ Goto(p, "pgHold")
            \/ At(p, "pgWrP") /\ Goto(p, "pgWr")
            \/ At(p, "pgWr") /\ Goto(p, "pgWrV")
            \/ At(p, "pgWrV") /\ \E m \in {"pgRdP", "pgFail"} : Goto(p, m)
            \/ At(p, "pgRdP") /\ Goto(p, "pgRd")
            \/ At(p, "pgRd") /\ Goto(p, "pgRdV")
            \/ At(p, "pgRdV") /\ \E m \in {"pgSet", "pgFail"} : Goto(p, m)
  <2>1. UNCHANGED <<frame, swapPool, fifo_ptr, page_mutex_holder>>
    BY <1>11 DEF Pager, At, unchangedCall, procVars, poolVars
  <2> QED
    BY <1>10, <1>11, <2>1 DEF At, WriteLabels, HoldLabels, PagerLabels
<1>12. CASE At(p, "pgSelect") /\ Local(p, "pgFail") /\ UNCHANGED <<frame, fifo_ptr>>
            /\ UNCHANGED <<page_mutex_holder, swapPool>>
  BY <1>10, <1>12 DEF Local, At, WriteLabels, HoldLabels, PagerLabels
<1> QED
  BY <1>5, <1>6, <1>7, <1>8, <1>9, <1>11, <1>12 DEF Pager, Local

\* Handlers that have nothing to do with the pool.
LEMMA FramesApart ==
  ASSUME CoreInv, FramesInv, NEW p \in PCB,
         \/ WRITETERMINAL(p) \/ READTERMINAL(p) \/ Return(p)
         \/ PageFault(p) \/ GeneralExceptionHandler(p)
         \/ EXECUTE(p) /\ ~Starts(p)
         \/ test(p) /\ pc[p] = "shellEnd"
  PROVE  FramesInv'
<1>1. /\ UNCHANGED <<asid, frame, poolVars>> /\ pc \in [PCB -> Labels]
      /\ frame \in [PCB -> 0 .. POOLSIZE - 1]
  BY ListSteps DEF WRITETERMINAL, READTERMINAL, Return, PageFault, GeneralExceptionHandler,
     EXECUTE, Starts, test, unchangedCall, procVars, poolVars, At, CoreInv, LabelsInv, FramesInv
<1>2. ASSUME NEW m, Goto(p, m), m \notin WriteLabels, pc[p] \notin HoldLabels,
             m \notin DyingLabels \ {"trap", "trFree"}
      PROVE  FramesInv'
  BY <1>1, <1>2, FramesMoved DEF poolVars
<1>3. CASE WRITETERMINAL(p) \/ READTERMINAL(p) \/ Return(p)
  <2>1. \E m \in {"txLoop", "txStat", "txV", "return", "rxLoop", "rxStat", "trap", "rxStore",
                  "rxV", "user"} : Goto(p, m)
    BY <1>3 DEF WRITETERMINAL, READTERMINAL, Return, Local
  <2>2. pc[p] \notin HoldLabels
    BY <1>3 DEF WRITETERMINAL, READTERMINAL, Return, At, HoldLabels, PagerLabels
  <2> QED
    BY <1>2, <2>1, <2>2 DEF WriteLabels, DyingLabels
<1>4. CASE PageFault(p) \/ GeneralExceptionHandler(p)
  <2>1. \E m \in {"trap", "pgP", "txP", "rxP", "exArg"} : Goto(p, m)
    BY <1>4 DEF PageFault, GeneralExceptionHandler, Local
  <2>2. pc[p] \notin HoldLabels
    BY <1>4 DEF PageFault, GeneralExceptionHandler, At, HoldLabels, PagerLabels
  <2> QED
    BY <1>2, <2>1, <2>2 DEF WriteLabels, DyingLabels
<1>5. CASE EXECUTE(p) /\ ~Starts(p)
  <2>1. \E m : Goto(p, m) /\ m \in ExLabels \cup {"return"}
    <3>1. \A l, m : <<l, m>> \in TakeArrows \cup GiveArrows => m \in ExLabels \cup {"return"}
      BY DEF TakeArrows, GiveArrows, ExLabels
    <3>2. CASE allocateSupport(p) \/ Abandon(p)
      BY <3>1, <3>2, ListSteps DEF Local
    <3>3. CASE ~(allocateSupport(p) \/ Abandon(p))
      BY <1>5, <3>3 DEF EXECUTE, Starts, Local, Refuse, ReadHeader, ExLabels
    <3> QED
      BY <3>2, <3>3
  <2>2. pc[p] \notin HoldLabels
    <3>1. pc[p] \in ExLabels
      BY <1>5, ListPlaces DEF EXECUTE, At, ExLabels, TakenLabels
    <3> QED
      BY <3>1 DEF ExLabels, HoldLabels, PagerLabels
  <2> QED
    BY <1>2, <2>1, <2>2 DEF ExLabels, WriteLabels, DyingLabels
<1>6. CASE test(p) /\ pc[p] = "shellEnd"
  <2>1. Goto(p, "halt")
    BY <1>6 DEF test, At
  <2>2. pc[p] \notin HoldLabels
    BY <1>6 DEF HoldLabels, PagerLabels
  <2> QED
    BY <1>2, <2>1, <2>2 DEF WriteLabels, DyingLabels
<1> QED
  BY <1>3, <1>4, <1>5, <1>6

\* A new process has no frames.
LEMMA CreateFrames ==
  ASSUME CoreInv, SupportsInv, FramesInv, NEW p \in PCB, pc[p] \in {"header", "exStat"},
         NEW q \in Uproc, pc[q] = "none", NEW s, NEW m \in {"shellEnd", "exWait"},
         CREATEPROCESS(p, q, s, m), UNCHANGED poolVars
  PROVE  FramesInv'
<1>1. /\ p # q /\ q \in PCB /\ Uproc \subseteq PCB /\ pc \in [PCB -> Labels]
      /\ asid \in [PCB -> 0 .. UPROCMAX] /\ frame' = frame
  BY DEF Uproc, CoreInv, LabelsInv, SupportsInv, CREATEPROCESS
<1>2. /\ pc'[p] = m /\ pc'[q] = "user" /\ \A r \in PCB \ {p, q} : pc'[r] = pc[r]
      /\ \A r \in PCB : r # q => asid'[r] = asid[r]
  BY <1>1 DEF CREATEPROCESS
<1>3. asid[q] = 0
  BY <1>1 DEF SupportsInv
<1>4. \A r \in PCB : pc'[r] \in WriteLabels => pc[r] \in WriteLabels
  BY <1>2 DEF WriteLabels
<1>5. \A r \in PCB : pc[r] \in HoldLabels => pc'[r] \in HoldLabels
  BY <1>2 DEF HoldLabels, PagerLabels
<1>6. \A r \in PCB : asid[r] # 0 /\ pc[r] \notin DyingLabels \ {"trap", "trFree"} =>
           asid'[r] = asid[r] /\ pc'[r] \notin DyingLabels \ {"trap", "trFree"}
  BY <1>2, <1>3 DEF DyingLabels
<1> QED
  BY <1>1, <1>4, <1>5, <1>6, FramesKept DEF FramesInv, poolVars

\* Whoever dies has given its frames back.
LEMMA TermFrames ==
  ASSUME CoreInv, SupportsInv, FramesInv, NEW p \in PCB, At(p, "trTerm") \/ At(p, "halt"),
         TERMPROCESS(p)
  PROVE  FramesInv'
<1> DEFINE D == Offspring(p)
<1>1. /\ \A q \in D \cap Uproc : pc[q] \in Gone
      /\ Uproc \subseteq PCB
  BY WhoDies DEF Uproc
<1>2. /\ pc' = [q \in PCB |-> IF q \in D THEN "none" ELSE pc[q]]
      /\ asid' = [q \in PCB |-> IF q \in D THEN 0 ELSE asid[q]]
      /\ frame' = [q \in PCB |-> IF q \in D THEN 0 ELSE frame[q]]
      /\ UNCHANGED poolVars
  BY DEF TERMPROCESS
<1> HIDE DEF D
<1>3. frame' \in [PCB -> 0 .. POOLSIZE - 1]
  BY <1>2, SizeAssumption DEF FramesInv
<1>4. \A q \in PCB : pc'[q] \in WriteLabels => pc[q] \in WriteLabels /\ frame'[q] = frame[q]
  BY <1>2 DEF WriteLabels
<1>5. \A q \in Uproc : pc[q] \in HoldLabels => pc'[q] \in HoldLabels
  BY <1>1, <1>2 DEF HoldLabels, PagerLabels, Gone
<1>6. ASSUME NEW q \in Uproc, asid[q] # 0, pc[q] \notin DyingLabels \ {"trap", "trFree"}
      PROVE  asid'[q] = asid[q] /\ pc'[q] \notin DyingLabels \ {"trap", "trFree"}
  <2>1. pc[q] # "none"
    BY <1>1, <1>6 DEF SupportsInv
  <2>2. q \notin D
    BY <1>1, <1>6, <2>1 DEF Gone, DyingLabels
  <2> QED
    BY <1>1, <1>2, <1>6, <2>2
<1> QED
  BY <1>2, <1>3, <1>4, <1>5, <1>6, FramesKept DEF poolVars

\* ProgramTrapHandler frees the frames of its process.
LEMMA TrapFrames ==
  ASSUME CoreInv, SupportsInv, FramesInv, NEW p \in PCB, ProgramTrapHandler(p),
         pc[p] # "trTerm"
  PROVE  FramesInv'
<1>1. /\ p \in Uproc /\ pc[p] \in DyingLabels /\ currProc = p /\ pc \in [PCB -> Labels]
  <2>1. pc[p] \in DyingLabels /\ At(p, pc[p])
    BY ListPlaces, ListSteps DEF ProgramTrapHandler, At, DyingLabels
  <2> QED
    BY <2>1, WhoIsAt DEF InstLabels, DyingLabels, CoreInv, LabelsInv
<1>2. UNCHANGED <<asid, frame, fifo_ptr>> /\ frame \in [PCB -> 0 .. POOLSIZE - 1]
  BY DEF ProgramTrapHandler, At, unchangedCall, procVars, poolVars, FramesInv
<1>3. CASE pc[p] # "trFree"
  <2>1. \E m \in DyingLabels :
          /\ Goto(p, m)
          /\ m \in DyingLabels \ {"trap", "trFree"} => pc[p] \in DyingLabels \ {"trap", "trFree"}
    <3>1. \A l, m : <<l, m>> \in LeaveArrows => {l, m} \subseteq DyingLabels \ {"trap", "trFree"}
      BY DEF LeaveArrows, DyingLabels
    <3>2. CASE deallocateSupport(p, sup[p], ProcessGives)
      BY <3>1, <3>2, ListSteps DEF At, Local
    <3>3. CASE ~deallocateSupport(p, sup[p], ProcessGives)
      BY <1>3, <3>3 DEF ProgramTrapHandler, At, Local, DyingLabels
    <3> QED
      BY <3>2, <3>3
  <2>2. UNCHANGED <<swapPool, page_mutex_holder>>
    BY <1>3 DEF ProgramTrapHandler, At, unchangedCall, poolVars
  <2>3. pc[p] \notin HoldLabels
    BY <1>1 DEF DyingLabels, HoldLabels, PagerLabels
  <2> QED
    BY <1>1, <1>2, <2>1, <2>2, <2>3, FramesMoved DEF WriteLabels, DyingLabels
<1>4. CASE pc[p] = "trFree"
  <2>1. /\ swapPool' = FreeFrames(asid[p]) /\ page_mutex_holder' = -1 /\ Goto(p, "trV")
    BY <1>1, <1>4, AsidOf, ListPlaces DEF ProgramTrapHandler, At, Local, Gone
  <2>2. pc'[p] = "trV" /\ \A q \in PCB : q # p => pc'[q] = pc[q] /\ pc[q] \notin InnerLabels
    BY <1>1, <1>4, <2>1, OthersIdle DEF Goto, CoreInv, Gone
  <2>3. \A q \in PCB : pc'[q] \notin WriteLabels
    BY <2>2 DEF WriteLabels, InnerLabels, PagerLabels
  <2>4. /\ swapPool' \in [0 .. POOLSIZE - 1 -> {-1} \cup Support]
        /\ \A f \in 0 .. POOLSIZE - 1 : swapPool'[f] # -1 =>
             swapPool[f] # -1 /\ swapPool'[f] = swapPool[f] /\ swapPool[f] # asid[p]
    BY <2>1 DEF FreeFrames, FramesInv
  <2>5. FramesOwned'
    <3> SUFFICES ASSUME NEW f \in 0 .. POOLSIZE - 1, swapPool'[f] # -1
                 PROVE  \E q \in Uproc : /\ asid'[q] = swapPool'[f]
                                         /\ pc'[q] \notin DyingLabels \ {"trap", "trFree"}
      BY <2>4 DEF FramesOwned
    <3>1. PICK q \in Uproc : /\ asid[q] = swapPool[f]
                             /\ pc[q] \notin DyingLabels \ {"trap", "trFree"}
      BY <2>4 DEF FramesInv, FramesOwned
    <3>2. q # p /\ q \in PCB
      BY <2>4, <3>1 DEF Uproc
    <3> QED
      BY <1>2, <2>2, <2>4, <3>1, <3>2
  <2> QED
    BY <1>2, <2>1, <2>3, <2>4, <2>5, SizeAssumption DEF FramesInv
<1> QED
  BY <1>3, <1>4

\* Steps that change neither the pool nor where the processes are.
LEMMA IdleFrames ==
  ASSUME FramesInv, UNCHANGED <<pc, asid, frame, poolVars>>
  PROVE  FramesInv'
BY DEF FramesInv, FramesOwned, poolVars

\* Every step preserves the ownership of the frames.
LEMMA NextFrames ==
  ASSUME CoreInv, SupportsInv, FramesInv, [Next]_vars
  PROVE  FramesInv'
<1>1. ASSUME NEW p \in PCB, test(p) PROVE FramesInv'
  <2>1. CASE At(p, "header")
    <3>1. pc[Inst] = "header" /\ Shell \in Uproc
      BY <2>1, WhoIsAt, ProcAssumption DEF InstLabels, Uproc
    <3>2. pc[Shell] = "none" /\ pc[p] = "header"
      BY <2>1, <3>1, HeaderAlone DEF At
    <3>3. CASE CREATEPROCESS(p, Shell, newSup, "shellEnd") /\ UNCHANGED poolVars
      BY <3>1, <3>2, <3>3, CreateFrames
    <3>4. CASE UNCHANGED <<pc, procVars, semVars, cpuVars>> /\ UNCHANGED poolVars
      BY <3>4, IdleFrames DEF procVars
    <3> QED
      BY <1>1, <3>2, <3>3, <3>4 DEF test, At
  <2>2. CASE At(p, "shellEnd")
    BY <1>1, <2>2, FramesApart DEF At
  <2>3. CASE At(p, "halt") /\ TERMPROCESS(p)
    BY <2>3, TermFrames
  <2> QED
    BY <1>1, <2>1, <2>2, <2>3 DEF test
<1>2. ASSUME NEW p \in PCB, EXECUTE(p) PROVE FramesInv'
  <2>1. CASE Starts(p)
    <3>1. PICK q \in Child : pc[q] = "none" /\ CREATEPROCESS(p, q, newSup, "exWait")
      BY <2>1 DEF Starts, StartProgram
    <3>2. q \in Uproc /\ pc[p] = "exStat" /\ UNCHANGED poolVars
      BY <2>1 DEF Starts, Child, At
    <3> QED
      BY <3>1, <3>2, CreateFrames
  <2> QED
    BY <1>2, <2>1, FramesApart
<1>3. ASSUME NEW p \in PCB, ProgramTrapHandler(p) PROVE FramesInv'
  <2>1. CASE pc[p] = "trTerm"
    <3>1. At(p, "trTerm") /\ TERMPROCESS(p)
      BY <1>3, <2>1, ListPlaces DEF ProgramTrapHandler, At
    <3> QED
      BY <3>1, TermFrames
  <2> QED
    BY <1>3, <2>1, TrapFrames
<1>4. ASSUME NEW p \in PCB, Handler(p) PROVE FramesInv'
  BY <1>1, <1>2, <1>3, <1>4, FramesApart, PagerFrames DEF Handler
<1>5. ASSUME NEW p \in PCB, IoDone(p) \/ PLTInterrupt(p) PROVE FramesInv'
  BY <1>5, IdleFrames DEF IoDone, PLTInterrupt, procVars
<1>6. ASSUME NEW p \in Uproc, PageFault(p) \/ GeneralExceptionHandler(p) PROVE FramesInv'
  BY <1>6, FramesApart DEF Uproc
<1>7. CASE UNCHANGED vars
  BY <1>7, IdleFrames DEF vars, procVars
<1> QED
  BY <1>4, <1>5, <1>6, <1>7 DEF Next, Stopped

-----------------------------------------------------------------------------
(* The support structures *)

\* Steps that leave the support structures to their owners.
LEMMA SupportsKept ==
  ASSUME SupportsInv, UNCHANGED <<sup, asid, newSup, sup_asid, listVars>>,
         \A q \in PCB : pc'[q] = "none" <=> pc[q] = "none",
         \A q \in PCB : pc[q] \in Gone => pc'[q] \in Gone,
         pc'[Shell] \in NewLabels <=> pc[Shell] \in NewLabels,
         pc'[Shell] \in AsidLabels => pc[Shell] \in AsidLabels,
         pc'[Shell] = "exHead" => next[supStructs_freeList] # supStructs_freeList,
         Starting' = Starting
  PROVE  SupportsInv'
<1>1. Uproc \subseteq PCB /\ Child \subseteq PCB /\ Shell \in PCB
  BY ProcAssumption DEF Uproc, Child
<1>2. UNCHANGED <<next, prev, nextArg, prevArg>>
  BY DEF listVars
<1>3. LinksTo(UPROCMAX)' <=> LinksTo(UPROCMAX)
  BY <1>2 DEF LinksTo
<1>4. \A q \in Uproc : /\ pc'[q] # "none" => sup'[q] \in Support
                       /\ pc'[q] \notin Gone => sup_asid'[sup'[q]] = asid'[q]
  BY <1>1 DEF SupportsInv
<1> QED
  BY <1>1, <1>2, <1>3, <1>4 DEF SupportsInv

\* A process that moves on without touching the structures.
LEMMA SupportsMoved ==
  ASSUME SupportsInv, pc \in [PCB -> Labels],
         UNCHANGED <<sup, asid, newSup, sup_asid, listVars, panic>>,
         NEW p \in PCB, NEW m, Goto(p, m), pc[p] # "none", m # "none",
         pc[p] \in Gone => m \in Gone,
         p = Shell => (m \in NewLabels <=> pc[p] \in NewLabels),
         m \in AsidLabels => pc[p] \in AsidLabels,
         m = "exHead" => next[supStructs_freeList] # supStructs_freeList,
         pc[p] # "header", m # "header"
  PROVE  SupportsInv'
<1>1. pc'[p] = m /\ \A q \in PCB : q # p => pc'[q] = pc[q]
  BY DEF Goto
<1>2. Starting' = Starting
  BY <1>1, ProcAssumption DEF Starting
<1>3. /\ pc'[Shell] \in NewLabels <=> pc[Shell] \in NewLabels
      /\ pc'[Shell] \in AsidLabels => pc[Shell] \in AsidLabels
      /\ pc'[Shell] = "exHead" => next[supStructs_freeList] # supStructs_freeList
  BY <1>1, ProcAssumption DEF SupportsInv
<1>4. /\ \A q \in PCB : pc'[q] = "none" <=> pc[q] = "none"
      /\ \A q \in PCB : pc[q] \in Gone => pc'[q] \in Gone
  BY <1>1
<1> QED
  BY <1>2, <1>3, <1>4, SupportsKept

\* Handlers that have nothing to do with the structures, and where they go.
Apart(p) ==
  \/ WRITETERMINAL(p) \/ READTERMINAL(p) \/ Return(p)
  \/ PageFault(p) \/ GeneralExceptionHandler(p) \/ Pager(p)
  \/ EXECUTE(p) /\ ~Starts(p) /\ ~allocateSupport(p) /\ ~Abandon(p)
  \/ /\ ProgramTrapHandler(p) /\ pc[p] # "trTerm"
     /\ ~deallocateSupport(p, sup[p], ProcessGives)
  \/ test(p) /\ pc[p] = "shellEnd"

ApartTo(p, m) ==
  /\ Running(p) /\ Goto(p, m)
  /\ UNCHANGED <<sup, asid, newSup, sup_asid, listVars, panic>>
  /\ {pc[p], m} \cap (ListLabels \cup {"none", "header"}) = {}
  /\ pc[p] \in Gone => m \in Gone
  /\ m \in {"trTlb", "trTerm"} <=> pc[p] \in {"trTlb", "trTerm"}
  /\ m \in NewLabels <=> pc[p] \in NewLabels
  /\ m \in AsidLabels => pc[p] \in AsidLabels

LEMMA ApartSteps ==
  ASSUME CoreInv, NEW p \in PCB, Apart(p)
  PROVE  \E m : ApartTo(p, m)
<1>1. /\ UNCHANGED <<sup, asid, newSup, sup_asid, listVars, panic>>
      /\ pc \in [PCB -> Labels] /\ ret \in [PCB -> {"user", "txLoop", "rxStore"}]
      /\ Running(p)
  BY DEF WRITETERMINAL, READTERMINAL, Return, PageFault, GeneralExceptionHandler, EXECUTE,
     Pager, ProgramTrapHandler, test, unchangedCall, procVars, callVars, At, CoreInv, LabelsInv,
     Starts, Apart
<1>2. ASSUME NEW m, Goto(p, m), {pc[p], m} \cap (ListLabels \cup {"none", "header"}) = {},
             pc[p] \in Gone => m \in Gone,
             m \in {"trTlb", "trTerm"} <=> pc[p] \in {"trTlb", "trTerm"},
             m \in NewLabels <=> pc[p] \in NewLabels, m \in AsidLabels => pc[p] \in AsidLabels
      PROVE  \E k : ApartTo(p, k)
  BY <1>1, <1>2 DEF ApartTo
<1>3. CASE WRITETERMINAL(p) \/ READTERMINAL(p) \/ Return(p)
  <2>1. \E m \in {"txLoop", "txStat", "txV", "return", "rxLoop", "rxStat", "trap", "rxStore",
                  "rxV", "user"} : Goto(p, m)
    BY <1>3 DEF WRITETERMINAL, READTERMINAL, Return, Local
  <2>2. pc[p] \in {"txP", "txLoop", "txStat", "txV", "return", "rxP", "rxLoop", "rxStat",
                   "rxStore", "rxV"}
    BY <1>3 DEF WRITETERMINAL, READTERMINAL, Return, At
  <2> QED
    BY <1>2, <2>1, <2>2 DEF NewLabels, TakenLabels, AsidLabels, Gone, ListLabels
<1>4. CASE PageFault(p) \/ GeneralExceptionHandler(p)
  <2>1. \E m \in {"trap", "pgP", "txP", "rxP", "exArg"} : Goto(p, m)
    BY <1>4 DEF PageFault, GeneralExceptionHandler, Local
  <2>2. pc[p] \in {"user", "txLoop", "rxStore"}
    BY <1>4 DEF PageFault, GeneralExceptionHandler, At
  <2> QED
    BY <1>2, <2>1, <2>2 DEF NewLabels, TakenLabels, AsidLabels, Gone, ListLabels
<1>5. CASE Pager(p)
  <2>1. \E m \in PagerLabels \cup {"user", "txLoop", "rxStore", "trap"} : Goto(p, m)
    BY <1>1, <1>5 DEF Pager, SelectFrame, Local, PagerLabels
  <2>2. pc[p] \in PagerLabels
    BY <1>5 DEF Pager, At, PagerLabels
  <2> QED
    BY <1>2, <2>1, <2>2 DEF NewLabels, TakenLabels, AsidLabels, Gone, ListLabels, PagerLabels
<1>6. CASE EXECUTE(p) /\ ~Starts(p) /\ ~allocateSupport(p) /\ ~Abandon(p)
  <2>1. \/ pc[p] \in {"exP", "exRead", "exV"} /\ \E m \in {"exRead", "exV", "exStat"} : Goto(p, m)
        \/ pc[p] \in {"exArg", "exWait"} /\ Goto(p, "return")
    BY <1>6 DEF EXECUTE, At, ReadHeader, Refuse, Local, Starts
  <2> QED
    BY <1>2, <2>1 DEF NewLabels, TakenLabels, AsidLabels, Gone, ListLabels
<1>7. CASE /\ ProgramTrapHandler(p) /\ pc[p] # "trTerm"
           /\ ~deallocateSupport(p, sup[p], ProcessGives)
  <2>1. \/ /\ pc[p] \in {"trap", "trFree", "trV", "trRx", "trRxV", "trSync"}
           /\ \E m \in {"trFree", "trV", "trRx", "trRxV", "trSync", "trGive"} : Goto(p, m)
        \/ pc[p] = "trTlb" /\ Goto(p, "trTerm")
    BY <1>7 DEF ProgramTrapHandler, At, Local
  <2> QED
    BY <1>2, <2>1 DEF NewLabels, TakenLabels, AsidLabels, Gone, ListLabels
<1>8. CASE test(p) /\ pc[p] = "shellEnd"
  <2>1. Goto(p, "halt")
    BY <1>8 DEF test, At
  <2> QED
    BY <1>2, <1>8, <2>1 DEF NewLabels, TakenLabels, AsidLabels, Gone, ListLabels
<1> QED
  BY <1>3, <1>4, <1>5, <1>6, <1>7, <1>8 DEF Apart

LEMMA SupportsApart ==
  ASSUME CoreInv, SupportsInv, NEW p \in PCB, Apart(p)
  PROVE  SupportsInv'
<1>1. PICK m : ApartTo(p, m)
  BY ApartSteps
<1>2. {pc[p], m} \cap {"none", "header", "exHead"} = {}
  BY <1>1 DEF ApartTo, ListLabels
<1> QED
  BY <1>1, <1>2, SupportsMoved DEF ApartTo, CoreInv, LabelsInv

\* A step inside an operation on the list, of a process that is not at its start.
LEMMA SupportsLinked ==
  ASSUME CoreInv, SupportsInv, NEW p \in Uproc, NEW m, Goto(p, m), pc[p] # "none",
         m \notin {"none", "header"}, pc[p] \in Gone => m \in Gone,
         UNCHANGED <<sup, asid, panic>>,
         next' \in [Node -> Node], prev' \in [Node -> Node],
         nextArg' \in [PCB -> Node], prevArg' \in [PCB -> Node],
         newSup' \in 0 .. UPROCMAX, sup_asid' \in [Support -> 0 .. UPROCMAX],
         \A q \in Uproc : pc[q] \notin Gone => sup_asid'[sup[q]] = sup_asid[sup[q]],
         p # Shell => UNCHANGED <<newSup, sup_asid>>,
         p = Shell => /\ m \in NewLabels => newSup' \in Support \ {UPROCMAX}
                      /\ m \notin NewLabels => newSup' = 0
                      /\ m \in AsidLabels => sup_asid'[newSup'] \in Program,
         (p = Shell /\ m = "exHead") \/ (p # Shell /\ pc[Shell] = "exHead") =>
           next'[supStructs_freeList] # supStructs_freeList,
         pc[Shell] \notin Gone => ~LinksTo(UPROCMAX)'
  PROVE  SupportsInv'
<1>1. Uproc \subseteq PCB /\ Child \subseteq Uproc /\ Shell \in Uproc /\ p \in PCB /\ p # Inst
  BY ProcAssumption DEF Uproc, Child
<1>2. pc'[p] = m /\ \A q \in PCB : q # p => pc'[q] = pc[q]
  BY <1>1 DEF Goto, CoreInv, LabelsInv
<1>3. ~Starting /\ ~Starting'
  <2>1. pc[Inst] # "header" /\ pc'[Inst] = pc[Inst]
    BY <1>1, <1>2, ProcAssumption DEF CoreInv, ActiveInv
  <2> QED
    BY <2>1 DEF Starting
<1>4. \A q \in PCB : /\ pc'[q] = "none" <=> pc[q] = "none"
                     /\ pc'[q] \notin Gone => pc[q] \notin Gone
  BY <1>2
<1>5. /\ sup' \in [PCB -> 0 .. UPROCMAX] /\ asid' \in [PCB -> 0 .. UPROCMAX]
      /\ \A q \in PCB : pc'[q] = "none" \/ q = Inst => sup'[q] = 0 /\ asid'[q] = 0
      /\ \A q \in Uproc : pc'[q] # "none" => sup'[q] \in Support
      /\ pc'[Shell] # "none" => asid'[Shell] = 1 /\ sup'[Shell] = UPROCMAX
      /\ \A c \in Child : pc'[c] # "none" => asid'[c] \in Program /\ sup'[c] # UPROCMAX
  BY <1>1, <1>4 DEF SupportsInv
<1>6. \A q \in Uproc : pc'[q] \notin Gone => sup_asid'[sup'[q]] = asid'[q]
  BY <1>1, <1>4 DEF SupportsInv
<1>7. /\ pc'[Shell] \in NewLabels => newSup' \in Support \ {UPROCMAX}
      /\ pc'[Shell] \notin NewLabels => newSup' = 0
      /\ pc'[Shell] \in AsidLabels => sup_asid'[newSup'] \in Program
      /\ pc'[Shell] = "exHead" => next'[supStructs_freeList] # supStructs_freeList
  <2>1. CASE p = Shell
    BY <1>2, <2>1
  <2>2. CASE p # Shell
    <3>1. pc'[Shell] = pc[Shell] /\ UNCHANGED <<newSup, sup_asid>>
      BY <1>1, <1>2, <2>2
    <3>2. /\ pc[Shell] \in NewLabels => newSup \in Support \ {UPROCMAX}
          /\ pc[Shell] \notin NewLabels => newSup = 0
          /\ pc[Shell] \in AsidLabels => sup_asid[newSup] \in Program
      BY <1>3 DEF SupportsInv
    <3> QED
      BY <2>2, <3>1, <3>2
  <2> QED
    BY <2>1, <2>2
<1>8. pc'[Shell] \notin Gone => ~LinksTo(UPROCMAX)'
  BY <1>1, <1>4
<1> QED
  BY <1>3, <1>5, <1>6, <1>7, <1>8 DEF SupportsInv

\* list_add of a structure leads to no other one that no link led to, and does
\* not empty the list.
LEMMA AddLinks ==
  ASSUME SupportsInv, NEW p \in PCB, NEW new \in Support, NEW l, deallocateSupport(p, new, l)
  PROVE  /\ next' \in [Node -> Node] /\ prev' \in [Node -> Node]
         /\ nextArg' \in [PCB -> Node] /\ prevArg' \in [PCB -> Node]
         /\ next[supStructs_freeList] # supStructs_freeList =>
              next'[supStructs_freeList] # supStructs_freeList
         /\ \A t \in Support \ {new} : ~LinksTo(t) => ~LinksTo(t)'
<1>1. /\ next \in [Node -> Node] /\ prev \in [Node -> Node]
      /\ nextArg \in [PCB -> Node] /\ prevArg \in [PCB -> Node]
      /\ supStructs_freeList \in Node /\ new \in Node /\ new # supStructs_freeList
      /\ \A t \in Support : t # supStructs_freeList /\ t \in Node
  BY DEF SupportsInv, Node, Support, supStructs_freeList
<1>2. \/ nextArg' = [nextArg EXCEPT ![p] = next[supStructs_freeList]]
           /\ UNCHANGED <<next, prev>>
      \/ prev' = [prev EXCEPT ![nextArg[p]] = new] /\ UNCHANGED <<next, nextArg>>
      \/ /\ next' = [next EXCEPT ![new] = nextArg[p]] /\ nextArg' = [nextArg EXCEPT ![p] = 0]
         /\ UNCHANGED prev
      \/ prev' = [prev EXCEPT ![new] = supStructs_freeList] /\ UNCHANGED <<next, nextArg>>
      \/ next' = [next EXCEPT ![supStructs_freeList] = new] /\ UNCHANGED <<prev, nextArg>>
  BY DEF deallocateSupport, link, LinkHead
<1>3. prevArg' = prevArg /\ 0 = supStructs_freeList
  BY DEF deallocateSupport, supStructs_freeList
<1>4. /\ next' \in [Node -> Node] /\ prev' \in [Node -> Node]
      /\ nextArg' \in [PCB -> Node] /\ prevArg' \in [PCB -> Node]
  BY <1>1, <1>2, <1>3
<1>5. next[supStructs_freeList] # supStructs_freeList =>
        next'[supStructs_freeList] # supStructs_freeList
  BY <1>1, <1>2
<1>6. ASSUME NEW t \in Support \ {new}, ~LinksTo(t) PROVE ~LinksTo(t)'
  <2>1. /\ \A n \in Node \ {t} : next[n] # t /\ prev[n] # t
        /\ \A q \in PCB : nextArg[q] # t /\ prevArg[q] # t
        /\ t # supStructs_freeList
    BY <1>1, <1>6 DEF LinksTo
  <2>2. /\ \A n \in Node \ {t} : next'[n] # t /\ prev'[n] # t
        /\ \A q \in PCB : nextArg'[q] # t /\ prevArg'[q] # t
    BY <1>1, <1>2, <1>3, <2>1
  <2> QED
    BY <2>2 DEF LinksTo
<1> QED
  BY <1>4, <1>5, <1>6

\* So does the removal of the structure that EXECUTE has read.
LEMMA DelLinks ==
  ASSUME SupportsInv, NEW p \in PCB, allocateSupport(p), pc[p] \in TakenLabels => newSup \in Support
  PROVE  /\ next' \in [Node -> Node] /\ prev' \in [Node -> Node]
         /\ nextArg' \in [PCB -> Node] /\ prevArg' \in [PCB -> Node]
         /\ \A t \in Support \ {newSup} : ~LinksTo(t) => ~LinksTo(t)'
<1>1. /\ next \in [Node -> Node] /\ prev \in [Node -> Node]
      /\ nextArg \in [PCB -> Node] /\ prevArg \in [PCB -> Node]
      /\ \A t \in Support : t # 0 /\ t \in Node
      /\ 0 \in Node
  BY DEF SupportsInv, Node, Support, supStructs_freeList
<1>2. \/ UNCHANGED <<next, prev, nextArg, prevArg>>
      \/ /\ newSup \in Support
         /\ \/ nextArg' = [nextArg EXCEPT ![p] = next[newSup]] /\ UNCHANGED <<next, prev, prevArg>>
            \/ prevArg' = [prevArg EXCEPT ![p] = prev[newSup]] /\ UNCHANGED <<next, prev, nextArg>>
            \/ prev' = [prev EXCEPT ![nextArg[p]] = prevArg[p]]
                 /\ UNCHANGED <<next, nextArg, prevArg>>
            \/ /\ next' = [next EXCEPT ![prevArg[p]] = nextArg[p]]
               /\ nextArg' = [nextArg EXCEPT ![p] = 0] /\ prevArg' = [prevArg EXCEPT ![p] = 0]
               /\ UNCHANGED prev
            \/ next' = [next EXCEPT ![newSup] = newSup] /\ UNCHANGED <<prev, nextArg, prevArg>>
            \/ prev' = [prev EXCEPT ![newSup] = newSup] /\ UNCHANGED <<next, nextArg, prevArg>>
  BY DEF allocateSupport, link, At, TakenLabels, listVars
<1>3. /\ next' \in [Node -> Node] /\ prev' \in [Node -> Node]
      /\ nextArg' \in [PCB -> Node] /\ prevArg' \in [PCB -> Node]
  BY <1>1, <1>2
<1>4. ASSUME NEW t \in Support \ {newSup}, ~LinksTo(t) PROVE ~LinksTo(t)'
  <2>1. /\ \A n \in Node \ {t} : next[n] # t /\ prev[n] # t
        /\ \A q \in PCB : nextArg[q] # t /\ prevArg[q] # t
        /\ t # 0
    BY <1>1, <1>4 DEF LinksTo
  <2>2. /\ \A n \in Node \ {t} : next'[n] # t /\ prev'[n] # t
        /\ \A q \in PCB : nextArg'[q] # t /\ prevArg'[q] # t
    BY <1>1, <1>2, <1>4, <2>1
  <2> QED
    BY <2>2 DEF LinksTo
<1> QED
  BY <1>3, <1>4

\* EXECUTE takes a structure for the program.
LEMMA AllocateSupports ==
  ASSUME CoreInv, SupportsInv, NEW p \in PCB, allocateSupport(p)
  PROVE  SupportsInv'
<1>1. PICK l, m : <<l, m>> \in TakeArrows /\ At(p, l) /\ Local(p, m)
  BY ListSteps
<1>2. /\ UNCHANGED <<sup, asid, panic>> /\ pc[p] = l /\ Goto(p, m)
      /\ p = Shell /\ p \in Uproc /\ l \notin Gone
      /\ m \in TakenLabels \cup {"exHead", "exP"}
  <2>1. l \in ExLabels /\ l \notin Gone /\ m \in TakenLabels \cup {"exHead", "exP"}
    BY <1>1 DEF TakeArrows, ExLabels, Gone, TakenLabels
  <2> QED
    BY <1>1, <2>1, ListSteps, WhoIsAt DEF procVars, At, Local, ExLabels, InstLabels
<1>3. Shell \in Uproc /\ Uproc \subseteq PCB /\ UPROCMAX \in Support /\ UPROCMAX # 0
  BY ProcAssumption, SizeAssumption DEF Uproc, Support
<1>4. pc[p] \in TakenLabels => newSup \in Support \ {UPROCMAX}
  BY <1>2 DEF SupportsInv, NewLabels
<1>5. ~LinksTo(UPROCMAX) /\ ~Starting
  <2>1. pc[Inst] # "header"
    BY <1>2, <1>3 DEF CoreInv, ActiveInv, Gone
  <2> QED
    BY <1>2, <2>1 DEF SupportsInv, Starting
<1>6. newSup # UPROCMAX
  BY <1>2, <1>3, <1>5 DEF SupportsInv
<1>7. /\ next' \in [Node -> Node] /\ prev' \in [Node -> Node]
      /\ nextArg' \in [PCB -> Node] /\ prevArg' \in [PCB -> Node] /\ ~LinksTo(UPROCMAX)'
  BY <1>3, <1>4, <1>5, <1>6, DelLinks
<1>8. /\ newSup' \in 0 .. UPROCMAX
      /\ m \in NewLabels => newSup' \in Support \ {UPROCMAX}
      /\ m \notin NewLabels => newSup' = 0
      /\ m = "exHead" => next'[supStructs_freeList] # supStructs_freeList
  <2>1. CASE pc[p] = "exArg"
    <3>1. newSup' = newSup /\ m = "exHead" /\ next' = next /\ newSup = 0
          /\ next[supStructs_freeList] # supStructs_freeList
      BY <1>2, <1>5, <2>1, ListPlaces DEF allocateSupport, At, listVars, Local, Goto, SupportsInv,
         NewLabels, TakenLabels, AsidLabels, CoreInv, LabelsInv
    <3> QED
      BY <3>1, SizeAssumption DEF NewLabels, TakenLabels, AsidLabels
  <2>2. CASE pc[p] = "exHead"
    <3>1. newSup' = next[supStructs_freeList] /\ m = "exLinks"
      BY <1>1, <1>2, <2>2 DEF allocateSupport, At, TakeArrows
    <3>2. next[supStructs_freeList] \in Support \ {UPROCMAX}
      <4>1. next[supStructs_freeList] \in Node /\ 0 \in Node \ {UPROCMAX}
        BY <1>3 DEF SupportsInv, Node, supStructs_freeList
      <4>2. next[supStructs_freeList] # UPROCMAX
        BY <1>5, <4>1 DEF LinksTo, supStructs_freeList
      <4> QED
        BY <1>2, <2>2, <4>1, <4>2 DEF SupportsInv, Node
    <3> QED
      BY <3>1, <3>2, SizeAssumption DEF Support, NewLabels, TakenLabels
  <2>3. CASE pc[p] \in TakenLabels
    <3>1. newSup' = newSup /\ m \in NewLabels /\ m # "exHead"
      BY <1>1, <1>2, <2>3 DEF allocateSupport, At, TakeArrows, TakenLabels, NewLabels, AsidLabels
    <3> QED
      BY <1>4, <2>3, <3>1, SizeAssumption DEF Support
  <2> QED
    BY <2>1, <2>2, <2>3, ListPlaces
<1>9. /\ sup_asid' \in [Support -> 0 .. UPROCMAX]
      /\ \A q \in Uproc : pc[q] \notin Gone => sup_asid'[sup[q]] = sup_asid[sup[q]]
      /\ m \in AsidLabels => sup_asid'[newSup'] \in Program
  <2>1. sup_asid \in [Support -> 0 .. UPROCMAX]
    BY DEF SupportsInv
  <2>2. CASE pc[p] = "exDel4"
    <3>1. PICK a \in Program : sup_asid' = [sup_asid EXCEPT ![newSup] = a]
      BY <2>2 DEF allocateSupport, At
    <3>2. newSup' = newSup /\ newSup \in Support \ {UPROCMAX} /\ a \in 0 .. UPROCMAX
      BY <1>4, <2>2 DEF allocateSupport, At, TakenLabels, Program
    <3>3. ASSUME NEW q \in Uproc, pc[q] \notin Gone PROVE sup[q] # newSup
      <4>1. ~Asleep
        BY <1>2, <2>2, SemFacts DEF Asleep, CoreInv, QueuesInv, WaitsAt
      <4>2. q = Shell
        BY <3>3, <4>1 DEF CoreInv, ActiveInv, Child
      <4>3. sup[q] = UPROCMAX
        BY <1>2, <2>2, <4>2 DEF SupportsInv
      <4> QED
        BY <3>2, <4>3
    <3> QED
      BY <2>1, <3>1, <3>2, <3>3
  <2>3. CASE pc[p] # "exDel4"
    <3>1. sup_asid' = sup_asid
      BY <2>3 DEF allocateSupport, At
    <3>2. m \notin AsidLabels
      BY <1>1, <1>2, <2>3 DEF TakeArrows, AsidLabels
    <3> QED
      BY <2>1, <3>1, <3>2
  <2> QED
    BY <2>2, <2>3
<1>10. pc[p] # "none" /\ m \notin {"none", "header"}
  BY <1>2 DEF Gone, TakenLabels
<1> QED
  BY <1>2, <1>7, <1>8, <1>9, <1>10, SupportsLinked

\* EXECUTE gives it back.
LEMMA AbandonSupports ==
  ASSUME CoreInv, SupportsInv, NEW p \in PCB, Abandon(p)
  PROVE  SupportsInv'
<1>1. PICK l, m : <<l, m>> \in GiveArrows /\ At(p, l) /\ Local(p, m)
  BY ListSteps
<1>2. /\ UNCHANGED <<sup, asid, panic>> /\ pc[p] = l /\ Goto(p, m)
      /\ p = Shell /\ p \in Uproc /\ l \notin Gone
      /\ l \in AsidLabels /\ l # "none" /\ m \notin {"none", "header", "exHead"}
      /\ m \in AsidLabels <=> l # "exAdd4"
      /\ m \in NewLabels <=> l # "exAdd4"
  <2>1. /\ l \in ExLabels /\ l \notin Gone /\ l \in AsidLabels
        /\ l # "none" /\ m \notin {"none", "header", "exHead"}
        /\ m \in AsidLabels <=> l # "exAdd4"
        /\ m \in NewLabels <=> l # "exAdd4"
    BY <1>1 DEF GiveArrows, ExLabels, Gone, AsidLabels, NewLabels, TakenLabels
  <2> QED
    BY <1>1, <2>1, ListSteps, WhoIsAt DEF procVars, At, Local, ExLabels, InstLabels
<1>3. /\ newSup \in Support \ {UPROCMAX} /\ sup_asid[newSup] \in Program
      /\ UPROCMAX \in Support /\ ~LinksTo(UPROCMAX)
  BY <1>2, SizeAssumption DEF SupportsInv, NewLabels, Support
<1>4. /\ next' \in [Node -> Node] /\ prev' \in [Node -> Node]
      /\ nextArg' \in [PCB -> Node] /\ prevArg' \in [PCB -> Node] /\ ~LinksTo(UPROCMAX)'
  <2>1. PICK new \in Support \ {UPROCMAX} : new = newSup
    BY <1>3
  <2>2. deallocateSupport(p, new, ExecuteGives)
    BY <2>1 DEF Abandon, deallocateSupport, link, LinkHead
  <2> QED
    BY <1>3, <2>2, AddLinks
<1>5. /\ sup_asid' = sup_asid /\ newSup' = IF l = "exAdd4" THEN 0 ELSE newSup
      /\ 0 \in 0 .. UPROCMAX /\ newSup \in 0 .. UPROCMAX
      /\ sup_asid \in [Support -> 0 .. UPROCMAX]
  BY <1>2, SizeAssumption DEF Abandon, SupportsInv
<1> QED
  BY <1>2, <1>3, <1>4, <1>5, SupportsLinked

\* A dead program gives its structure back.
LEMMA GiveSupports ==
  ASSUME CoreInv, SupportsInv, NEW p \in PCB, deallocateSupport(p, sup[p], ProcessGives),
         UNCHANGED <<procVars, newSup, sup_asid, panic>>
  PROVE  SupportsInv'
<1>1. PICK l, m : <<l, m>> \in LeaveArrows /\ At(p, l) /\ Local(p, m)
  BY ListSteps
<1>2. /\ UNCHANGED <<sup, asid, panic>> /\ pc[p] = l /\ Goto(p, m) /\ p \in Uproc
      /\ l \in Gone /\ m \in Gone /\ l # "none" /\ m \notin {"none", "header"} \cup ExLabels
  <2>1. /\ l \in Gone /\ m \in Gone /\ l \notin {"none"} \cup InstLabels
        /\ m \notin {"none", "header"} \cup ExLabels
    BY <1>1 DEF LeaveArrows, InstLabels, ExLabels, Gone
  <2> QED
    BY <1>1, <2>1, WhoIsAt DEF procVars, At, Local, InstLabels
<1>3. sup[p] \in Support /\ UPROCMAX \in Support
  BY <1>2, SizeAssumption DEF SupportsInv, Support
<1>4. /\ next' \in [Node -> Node] /\ prev' \in [Node -> Node]
      /\ nextArg' \in [PCB -> Node] /\ prevArg' \in [PCB -> Node]
      /\ next[supStructs_freeList] # supStructs_freeList =>
           next'[supStructs_freeList] # supStructs_freeList
      /\ \A t \in Support \ {sup[p]} : ~LinksTo(t) => ~LinksTo(t)'
  <2>1. PICK new \in Support : new = sup[p]
    BY <1>3
  <2>2. deallocateSupport(p, new, ProcessGives)
    BY <2>1 DEF deallocateSupport, link, LinkHead
  <2> QED
    BY <2>1, <2>2, AddLinks
<1>5. pc[Shell] \notin Gone => ~LinksTo(UPROCMAX)'
  <2> SUFFICES ASSUME pc[Shell] \notin Gone PROVE ~LinksTo(UPROCMAX)'
    OBVIOUS
  <2>1. p \in Child
    BY <1>2 DEF Child
  <2>2. sup[p] # UPROCMAX /\ ~LinksTo(UPROCMAX)
    BY <1>2, <2>1 DEF SupportsInv
  <2> QED
    BY <1>3, <1>4, <2>2
<1>6. pc[Shell] = "exHead" => next'[supStructs_freeList] # supStructs_freeList
  BY <1>4 DEF SupportsInv
<1>7. /\ newSup' \in 0 .. UPROCMAX /\ sup_asid' \in [Support -> 0 .. UPROCMAX]
      /\ p = Shell => m \notin NewLabels /\ m \notin AsidLabels /\ m # "exHead" /\ newSup' = 0
  <2>1. p = Shell => pc[Shell] \notin NewLabels /\ ~Starting
    BY <1>2, ProcAssumption DEF NewLabels, TakenLabels, AsidLabels, Gone, CoreInv, ActiveInv, Starting
  <2>2. m \notin NewLabels /\ m \notin AsidLabels /\ m # "exHead"
    BY <1>2 DEF NewLabels, TakenLabels, AsidLabels, ExLabels
  <2> QED
    BY <2>1, <2>2 DEF SupportsInv
<1> QED
  BY <1>2, <1>4, <1>5, <1>6, <1>7, SupportsLinked

\* A new process gets the structure that was prepared for it.
LEMMA CreateSupports ==
  ASSUME CoreInv, SupportsInv, NEW p \in PCB,
         NEW m, \/ At(p, "header") /\ m = "shellEnd"
                \/ At(p, "exStat") /\ m = "exWait",
         NEW q \in Uproc, pc[q] = "none", q = Shell <=> pc[p] = "header",
         CREATEPROCESS(p, q, newSup, m), newSup' = 0, UNCHANGED <<sup_asid, listVars, panic>>
  PROVE  SupportsInv'
<1>1. /\ pc[p] \in {"header", "exStat"} /\ m \in {"shellEnd", "exWait"}
      /\ ~panic /\ pc \in [PCB -> Labels]
      /\ pc[p] = "header" => p = Inst
      /\ pc[p] = "exStat" => p = Shell
  BY WhoIsAt DEF At, Running, InstLabels, ExLabels, CoreInv, LabelsInv
<1>2. p # q /\ q \in PCB /\ Uproc = PCB \ {Inst} /\ Shell \in Uproc /\ Child = Uproc \ {Shell}
  BY <1>1, ProcAssumption DEF Uproc, Child
<1>3. /\ pc'[p] = m /\ pc'[q] = "user" /\ \A r \in PCB \ {p, q} : pc'[r] = pc[r]
      /\ sup' = [sup EXCEPT ![q] = newSup] /\ asid' = [asid EXCEPT ![q] = sup_asid[newSup]]
      /\ UNCHANGED <<next, prev, nextArg, prevArg>>
  BY <1>1, <1>2 DEF CREATEPROCESS, listVars
<1>4. /\ newSup \in Support /\ (newSup = UPROCMAX <=> q = Shell)
      /\ sup_asid[newSup] \in IF q = Shell THEN {1} ELSE Program
      /\ ~LinksTo(UPROCMAX) /\ UPROCMAX \in Support
  <2>1. UPROCMAX \in Support
    BY SizeAssumption DEF Support
  <2>2. CASE pc[p] = "header"
    <3>1. Starting
      BY <1>1, <2>2 DEF Starting
    <3> QED
      BY <1>2, <2>1, <2>2, <3>1 DEF SupportsInv
  <2>3. CASE pc[p] = "exStat"
    <3>1. pc[Shell] \in AsidLabels /\ pc[Shell] \in NewLabels /\ pc[Shell] \notin Gone
          /\ q # Shell
      BY <1>1, <1>2, <2>3 DEF AsidLabels, NewLabels, Gone
    <3> QED
      BY <2>1, <3>1 DEF SupportsInv
  <2> QED
    BY <1>1, <2>2, <2>3
<1>5. newSup \in 0 .. UPROCMAX /\ sup_asid[newSup] \in 0 .. UPROCMAX /\ 0 \in 0 .. UPROCMAX
  BY <1>4, SizeAssumption DEF SupportsInv
<1>6. /\ sup' \in [PCB -> 0 .. UPROCMAX] /\ asid' \in [PCB -> 0 .. UPROCMAX]
      /\ sup'[q] = newSup /\ asid'[q] = sup_asid[newSup]
      /\ \A r \in PCB : r # q => sup'[r] = sup[r] /\ asid'[r] = asid[r]
  BY <1>2, <1>3, <1>5 DEF SupportsInv
<1>7. \A r \in PCB : r # q => (pc'[r] \in Gone <=> pc[r] \in Gone)
                               /\ (pc'[r] = "none" <=> pc[r] = "none")
  <2>1. m \notin Gone /\ pc[p] \notin Gone /\ "none" \in Gone
    BY <1>1 DEF Gone
  <2> QED
    BY <1>3, <2>1
<1>8. /\ \A r \in Uproc : pc'[r] # "none" => sup'[r] \in Support
      /\ \A r \in Uproc : pc'[r] \notin Gone => sup_asid'[sup'[r]] = asid'[r]
      /\ \A r \in PCB : pc'[r] = "none" \/ r = Inst => sup'[r] = 0 /\ asid'[r] = 0
  BY <1>2, <1>3, <1>4, <1>6, <1>7 DEF SupportsInv
<1>9. pc'[Shell] \in {"user", "exWait"} /\ pc'[Inst] # "header"
  <2>1. CASE pc[p] = "header"
    BY <1>1, <1>2, <1>3, <2>1
  <2>2. CASE pc[p] = "exStat"
    <3>1. pc[Inst] # "header"
      BY <1>1, <1>2, <2>2 DEF CoreInv, ActiveInv
    <3>2. p = Shell /\ m = "exWait" /\ q # Inst /\ p # Inst /\ Inst \in PCB
      BY <1>1, <1>2, <2>2, ProcAssumption DEF Uproc, Child, At
    <3> QED
      BY <1>2, <1>3, <3>1, <3>2
  <2> QED
    BY <1>1, <2>1, <2>2
<1>10. /\ pc'[Shell] \notin NewLabels /\ pc'[Shell] \notin AsidLabels /\ pc'[Shell] # "exHead"
       /\ ~Starting'
  BY <1>9 DEF Starting, NewLabels, TakenLabels, AsidLabels
<1>11. /\ pc'[Shell] # "none" => asid'[Shell] = 1 /\ sup'[Shell] = UPROCMAX
       /\ \A c \in Child : pc'[c] # "none" => asid'[c] \in Program /\ sup'[c] # UPROCMAX
  BY <1>2, <1>3, <1>4, <1>6, <1>7 DEF SupportsInv
<1>12. ~LinksTo(UPROCMAX)'
  BY <1>3, <1>4 DEF LinksTo
<1>13. /\ next' \in [Node -> Node] /\ prev' \in [Node -> Node]
       /\ nextArg' \in [PCB -> Node] /\ prevArg' \in [PCB -> Node]
       /\ sup_asid' \in [Support -> 0 .. UPROCMAX]
  BY <1>3 DEF SupportsInv
<1> QED
  BY <1>5, <1>6, <1>8, <1>10, <1>11, <1>12, <1>13 DEF SupportsInv

\* Whoever dies has given its structure back.
LEMMA TermSupports ==
  ASSUME CoreInv, SupportsInv, NEW p \in PCB, At(p, "trTerm") \/ At(p, "halt"),
         TERMPROCESS(p)
  PROVE  SupportsInv'
<1> DEFINE D == Offspring(p)
<1>1. /\ \A q \in D \cap Uproc : pc[q] \in Gone
      /\ Uproc = PCB \ {Inst} /\ Shell \in Uproc /\ Child = Uproc \ {Shell} /\ Inst \in PCB
      /\ pc[p] \in {"trTerm", "halt"}
  BY WhoDies, ProcAssumption DEF Uproc, Child, At
<1>2. /\ pc' = [q \in PCB |-> IF q \in D THEN "none" ELSE pc[q]]
      /\ asid' = [q \in PCB |-> IF q \in D THEN 0 ELSE asid[q]]
      /\ sup' = [q \in PCB |-> IF q \in D THEN 0 ELSE sup[q]]
      /\ nextArg' = [q \in PCB |-> IF q \in D THEN 0 ELSE nextArg[q]]
      /\ prevArg' = [q \in PCB |-> IF q \in D THEN 0 ELSE prevArg[q]]
      /\ UNCHANGED <<newSup, sup_asid, next, prev, panic>>
  BY DEF TERMPROCESS
<1> HIDE DEF D
<1>3. /\ \A q \in PCB : q \notin D => pc'[q] = pc[q] /\ sup'[q] = sup[q] /\ asid'[q] = asid[q]
      /\ \A q \in PCB : q \in D => pc'[q] = "none" /\ sup'[q] = 0 /\ asid'[q] = 0
  BY <1>2
<1>4. /\ sup' \in [PCB -> 0 .. UPROCMAX] /\ asid' \in [PCB -> 0 .. UPROCMAX]
      /\ nextArg' \in [PCB -> Node] /\ prevArg' \in [PCB -> Node]
  <2>1. 0 \in 0 .. UPROCMAX /\ 0 \in Node
    BY SizeAssumption DEF Node, supStructs_freeList
  <2> QED
    BY <1>2, <2>1 DEF SupportsInv
<1>5. /\ \A q \in PCB : pc'[q] = "none" \/ q = Inst => sup'[q] = 0 /\ asid'[q] = 0
      /\ \A q \in Uproc : /\ pc'[q] # "none" => sup'[q] \in Support
                          /\ pc'[q] \notin Gone => sup_asid'[sup'[q]] = asid'[q]
      /\ pc'[Shell] # "none" => asid'[Shell] = 1 /\ sup'[Shell] = UPROCMAX
      /\ \A c \in Child : pc'[c] # "none" => asid'[c] \in Program /\ sup'[c] # UPROCMAX
  <2>1. "none" \in Gone
    BY DEF Gone
  <2> QED
    BY <1>1, <1>2, <1>3, <2>1 DEF SupportsInv
<1>6. ~Starting /\ ~Starting'
  <2>1. pc[Inst] = "header" => p = Inst
    BY <1>1 DEF CoreInv, ActiveInv
  <2>2. pc[Inst] # "header"
    BY <1>1, <2>1
  <2> QED
    BY <1>1, <1>3, <2>2 DEF Starting
<1>7. /\ pc'[Shell] \in NewLabels <=> pc[Shell] \in NewLabels
      /\ pc'[Shell] \in AsidLabels <=> pc[Shell] \in AsidLabels
      /\ pc'[Shell] = "exHead" <=> pc[Shell] = "exHead"
      /\ pc'[Shell] \notin Gone => pc[Shell] \notin Gone
  BY <1>1, <1>3 DEF NewLabels, TakenLabels, AsidLabels, Gone
<1>8. ~LinksTo(UPROCMAX) => ~LinksTo(UPROCMAX)'
  <2>1. UPROCMAX # 0
    BY SizeAssumption
  <2> QED
    BY <1>2, <2>1 DEF LinksTo
<1> QED
  BY <1>2, <1>4, <1>5, <1>6, <1>7, <1>8 DEF SupportsInv

\* Every step preserves whose the structures are.
LEMMA NextSupports ==
  ASSUME CoreInv, SupportsInv, [Next]_vars
  PROVE  SupportsInv'
<1>1. ASSUME NEW p \in PCB, test(p) PROVE SupportsInv'
  <2>1. CASE At(p, "header")
    <3>1. p = Inst /\ pc[Inst] = "header" /\ Shell \in Uproc /\ pc[p] = "header"
      BY <2>1, WhoIsAt, ProcAssumption DEF InstLabels, Uproc, At
    <3>2. \A q \in Uproc : pc[q] = "none"
      BY <3>1 DEF CoreInv, ActiveInv
    <3>3. newSup' = 0 /\ UNCHANGED <<sup_asid, listVars>>
      BY <1>1, <3>1 DEF test, At
    <3>4. CASE CREATEPROCESS(p, Shell, newSup, "shellEnd") /\ UNCHANGED panic
      BY <2>1, <3>1, <3>2, <3>3, <3>4, CreateSupports
    <3>5. CASE panic' = TRUE /\ UNCHANGED <<pc, procVars, semVars, cpuVars>>
      <4>1. UNCHANGED <<pc, sup, asid, next, prev, nextArg, prevArg>> /\ ~Starting'
        BY <3>3, <3>5 DEF procVars, listVars, Starting
      <4>2. pc'[Shell] = "none"
        BY <3>1, <3>2, <4>1
      <4>3. /\ pc'[Shell] \notin NewLabels /\ pc'[Shell] \notin AsidLabels
            /\ pc'[Shell] # "exHead" /\ pc'[Shell] \in Gone
        BY <4>2 DEF NewLabels, TakenLabels, AsidLabels, Gone
      <4> QED
        BY <3>2, <3>3, <4>1, <4>3, SizeAssumption DEF SupportsInv
    <3> QED
      BY <1>1, <3>1, <3>4, <3>5 DEF test, At
  <2>2. CASE At(p, "shellEnd")
    BY <1>1, <2>2, SupportsApart DEF At, Apart
  <2>3. CASE At(p, "halt") /\ TERMPROCESS(p)
    BY <2>3, TermSupports
  <2> QED
    BY <1>1, <2>1, <2>2, <2>3 DEF test
<1>2. ASSUME NEW p \in PCB, EXECUTE(p) PROVE SupportsInv'
  <2>1. CASE Starts(p)
    <3>1. PICK q \in Child : pc[q] = "none" /\ CREATEPROCESS(p, q, newSup, "exWait")
      BY <2>1 DEF Starts, StartProgram
    <3>2. q \in Uproc /\ q # Shell /\ pc[p] = "exStat"
      BY <2>1 DEF Child, Starts, At
    <3>3. At(p, "exStat") /\ newSup' = 0 /\ UNCHANGED <<sup_asid, listVars, panic>>
      BY <2>1 DEF Starts
    <3> QED
      BY <3>1, <3>2, <3>3, CreateSupports
  <2> QED
    BY <1>2, <2>1, SupportsApart, AllocateSupports, AbandonSupports DEF Apart
<1>3. ASSUME NEW p \in PCB, ProgramTrapHandler(p) PROVE SupportsInv'
  <2>1. CASE pc[p] = "trTerm"
    <3>1. At(p, "trTerm") /\ TERMPROCESS(p)
      BY <1>3, <2>1 DEF ProgramTrapHandler, At, deallocateSupport, ProcessGives
    <3> QED
      BY <3>1, TermSupports
  <2>2. CASE deallocateSupport(p, sup[p], ProcessGives)
    <3>1. UNCHANGED <<procVars, newSup, sup_asid, panic>>
      BY <1>3, <2>2, ListPlaces DEF ProgramTrapHandler, At
    <3> QED
      BY <2>2, <3>1, GiveSupports
  <2> QED
    BY <1>3, <2>1, <2>2, SupportsApart DEF Apart
<1>4. ASSUME NEW p \in PCB, Handler(p) PROVE SupportsInv'
  BY <1>1, <1>2, <1>3, <1>4, SupportsApart DEF Handler, Apart
<1>5. ASSUME NEW p \in PCB, IoDone(p) \/ PLTInterrupt(p) PROVE SupportsInv'
  <2>1. UNCHANGED <<pc, sup, asid, newSup, sup_asid, listVars, panic>>
    BY <1>5 DEF IoDone, PLTInterrupt, procVars, callVars
  <2> QED
    BY <2>1, SupportsKept DEF Starting, SupportsInv
<1>6. ASSUME NEW p \in Uproc, PageFault(p) \/ GeneralExceptionHandler(p) PROVE SupportsInv'
  BY <1>6, SupportsApart DEF Uproc, Apart
<1>7. CASE UNCHANGED vars
  <2>1. UNCHANGED <<pc, sup, asid, newSup, sup_asid, listVars, panic>>
    BY <1>7 DEF vars, procVars, callVars
  <2> QED
    BY <2>1, SupportsKept DEF Starting, SupportsInv
<1> QED
  BY <1>4, <1>5, <1>6, <1>7 DEF Next, Stopped

-----------------------------------------------------------------------------
(* The initial states, and the invariant *)

\* Initially nobody holds anything.
LEMMA CoreInit == Init => CoreInv
<1> SUFFICES ASSUME Init PROVE CoreInv
  OBVIOUS
<1>1. /\ pc = [p \in PCB |-> IF p = Inst THEN "header" ELSE "none"]
      /\ ret = [p \in PCB |-> "user"] /\ s_procq = [s \in Sem |-> {}]
      /\ sem = [s \in Sem |-> IF s \in Mutex THEN 1 ELSE 0]
  BY DEF Init, mkEmptyProcQ
<1>2. QueuesInv
  BY QueuesInit
<1>3. pc[Inst] = "header" /\ \A p \in Uproc : pc[p] = "none"
  BY <1>1, ProcAssumption DEF Uproc
<1>4. LabelsInv
  <2>1. pc \in [PCB -> Labels] /\ \A p \in PCB : pc[p] # "trRxV"
    BY <1>1 DEF Labels
  <2> QED
    BY <1>1, <1>3, <2>1 DEF LabelsInv, InstLabels, ExLabels, Child
<1>5. /\ sem[ShellSem] = 0 /\ sem[MasterSem] = 0 /\ sem \in [Sem -> {0, 1}]
      /\ \A s \in Mutex : sem[s] = 1
      /\ Elems(s_procq[ShellSem]) = {} /\ Elems(s_procq[MasterSem]) = {}
  <2>1. Elems({}) = {}
    BY EmptyIsQueue
  <2> QED
    BY <1>1, <2>1, SemFacts
<1>6. ActiveInv
  BY <1>3, <1>5, ProcAssumption DEF ActiveInv, Gone, Child, Uproc
<1>7. \A p \in PCB : Held(p) = {}
  <2>1. \A p \in PCB : pc[p] \in {"header", "none"}
    BY <1>1
  <2> QED
    BY <2>1, KeepsFacts DEF Held, Own, FlashHeld
<1>8. MutexInv
  BY <1>5, <1>7 DEF MutexInv
<1> QED
  BY <1>2, <1>4, <1>6, <1>8 DEF CoreInv

\* Initially the shell's structure is prepared, and the others are free.
LEMMA SupportsInit == Init => SupportsInv
<1> SUFFICES ASSUME Init PROVE SupportsInv
  OBVIOUS
<1>1. /\ pc = [p \in PCB |-> IF p = Inst THEN "header" ELSE "none"] /\ ~panic
      /\ sup = [p \in PCB |-> 0] /\ asid = [p \in PCB |-> 0] /\ newSup = UPROCMAX
      /\ sup_asid = [s \in Support |-> IF s = UPROCMAX THEN 1 ELSE 0]
      /\ next = [n \in Node |-> IF n = UPROCMAX THEN n
                                ELSE IF n = 0 THEN UPROCMAX - 1 ELSE n - 1]
      /\ prev = [n \in Node |-> IF n = UPROCMAX THEN n
                                ELSE IF n = UPROCMAX - 1 THEN 0 ELSE n + 1]
      /\ nextArg = [p \in PCB |-> 0] /\ prevArg = [p \in PCB |-> 0]
  BY DEF Init
<1>2. pc[Inst] = "header" /\ (\A p \in Uproc : pc[p] = "none") /\ Shell \in Uproc
  BY <1>1, ProcAssumption DEF Uproc
<1>3. UPROCMAX \in Nat /\ UPROCMAX >= 1 /\ newSup \in Support /\ sup_asid[newSup] = 1
      /\ newSup \in 0 .. UPROCMAX
  BY <1>1, SizeAssumption DEF Support
<1>4. Node = 0 .. UPROCMAX
  BY <1>3 DEF Node, Support, supStructs_freeList
<1>5. /\ sup \in [PCB -> 0 .. UPROCMAX] /\ asid \in [PCB -> 0 .. UPROCMAX]
      /\ sup_asid \in [Support -> 0 .. UPROCMAX]
      /\ nextArg \in [PCB -> Node] /\ prevArg \in [PCB -> Node]
  BY <1>1, <1>3, <1>4
<1>6. next \in [Node -> Node] /\ prev \in [Node -> Node]
  BY <1>1, <1>3, <1>4
<1>7. ~LinksTo(UPROCMAX)
  <2>1. \A n \in Node \ {UPROCMAX} : next[n] # UPROCMAX /\ prev[n] # UPROCMAX
    BY <1>1, <1>3, <1>4
  <2> QED
    BY <1>1, <1>3, <2>1 DEF LinksTo
<1>8. Starting /\ pc[Shell] = "none"
  BY <1>1, <1>2 DEF Starting
<1>9. /\ pc[Shell] \notin NewLabels /\ pc[Shell] \notin AsidLabels /\ pc[Shell] # "exHead"
      /\ \A p \in Uproc : pc[p] \in Gone
  BY <1>2, <1>8 DEF NewLabels, TakenLabels, AsidLabels, Gone
<1>10. /\ \A p \in PCB : sup[p] = 0 /\ asid[p] = 0
       /\ \A c \in Child : c \in Uproc
  BY <1>1 DEF Child
<1> QED
  BY <1>1, <1>2, <1>3, <1>5, <1>6, <1>7, <1>8, <1>9, <1>10 DEF SupportsInv

\* Initially all frames are free.
LEMMA FramesInit == Init => FramesInv
<1> SUFFICES ASSUME Init PROVE FramesInv
  OBVIOUS
<1>1. /\ frame = [p \in PCB |-> 0] /\ fifo_ptr = 0 /\ page_mutex_holder = -1
      /\ swapPool = [f \in 0 .. POOLSIZE - 1 |-> -1]
      /\ pc = [p \in PCB |-> IF p = Inst THEN "header" ELSE "none"]
  BY DEF Init
<1>2. \A p \in PCB : pc[p] \notin WriteLabels
  BY <1>1 DEF WriteLabels
<1>3. FramesOwned
  BY <1>1 DEF FramesOwned
<1> QED
  BY <1>1, <1>2, <1>3, SizeAssumption DEF FramesInv

-----------------------------------------------------------------------------
(* Devices and time slices *)

\* A step of the running process p that nobody is created or killed by.
Step(p) ==
  /\ Running(p) /\ pc[p] \notin {"none", "trTerm"} /\ pc'[p] # "none"
  /\ \A q \in PCB : q # p => pc'[q] = pc[q]
  /\ slice' \in 0 .. SliceSteps /\ panic' = panic
  /\ io' = io \/ (io' = io \cup {p} /\ pc'[p] \in IoLabels)
  /\ pc'[p] = "exV" => pc[p] = "exRead" /\ DOIO(p) /\ Goto(p, "exV")
  /\ pc'[p] = "exStat" => pc[p] = "exV"
  /\ pc[p] \in Gone => Left(pc'[p]) = Left(pc[p]) - 1 /\ Stay

Ran == slice' \in 0 .. SliceSteps /\ io' = io

\* What the calls to the nucleus do to the slice and to the devices.
LEMMA CallsRun ==
  ASSUME CoreInv, TimerInv, NEW p \in PCB
  PROVE  /\ Stay => Ran
         /\ \A s : PASSEREN(p, s) => Ran
         /\ \A s : VERHOGEN(s) => Ran
         /\ DOIO(p) => slice' \in 0 .. SliceSteps /\ io' = io \cup {p}
         /\ \A l : Local(p, l) => Goto(p, l) /\ Stay /\ Ran
         /\ \A l : Goto(p, l) => pc'[p] = l /\ \A q \in PCB : q # p => pc'[q] = pc[q]
<1>1. slice \in 0 .. SliceSteps /\ SliceSteps \in Nat
  BY SizeAssumption DEF TimerInv
<1>2. Tick => slice' \in 0 .. SliceSteps
  BY <1>1 DEF Tick
<1>3. \A q : scheduler(q) => slice' \in 0 .. SliceSteps
  BY <1>1 DEF scheduler
<1>4. Stay => Ran
  BY <1>2 DEF Stay, Ran
<1>5. \A l : Goto(p, l) => pc'[p] = l /\ \A q \in PCB : q # p => pc'[q] = pc[q]
  BY DEF Goto, CoreInv, LabelsInv
<1>6. DOIO(p) => slice' \in 0 .. SliceSteps /\ io' = io \cup {p}
  BY <1>3 DEF DOIO
<1>7. \A s : PASSEREN(p, s) => Ran
  BY <1>3, <1>4 DEF PASSEREN, Ran
<1>8. \A s : VERHOGEN(s) => Ran
  BY <1>2, <1>4 DEF VERHOGEN, Ran
<1>9. \A l : Local(p, l) => Goto(p, l) /\ Stay /\ Ran
  BY <1>4 DEF Local
<1> QED
  BY <1>4, <1>5, <1>6, <1>7, <1>8, <1>9

\* A step that is not a system call, from l to m.
LEMMA LocalSteps ==
  ASSUME CoreInv, TimerInv, NEW p \in PCB, NEW l, NEW m, At(p, l), Local(p, m), panic' = panic,
         l \notin {"none", "trTerm"}, m \notin {"none", "exV"},
         m = "exStat" => l = "exV", l \in Gone => Left(m) = Left(l) - 1
  PROVE  Step(p)
BY CallsRun DEF Step, Ran, At

\* The handlers of the terminal go on, or wait for the terminal.
LEMMA TerminalSteps ==
  ASSUME CoreInv, TimerInv, NEW p \in PCB,
         WRITETERMINAL(p) \/ READTERMINAL(p) \/ Return(p)
  PROVE  Step(p)
<1>1. CASE WRITETERMINAL(p)
  BY <1>1, CallsRun DEF WRITETERMINAL, unchangedCall, Step, Ran, IoLabels, At, Gone
<1>2. CASE READTERMINAL(p)
  BY <1>2, CallsRun DEF READTERMINAL, unchangedCall, Step, Ran, IoLabels, At, Gone
<1>3. CASE Return(p)
  BY <1>3, CallsRun DEF Return, unchangedCall, Step, Ran, IoLabels, At, Gone
<1> QED
  BY <1>1, <1>2, <1>3

\* EXECUTE goes on, or waits for the flash device.
LEMMA ExecuteSteps ==
  ASSUME CoreInv, TimerInv, NEW p \in PCB, EXECUTE(p), ~Starts(p)
  PROVE  Step(p)
<1>1. CASE allocateSupport(p) \/ Abandon(p)
  <2>1. PICK l, m : <<l, m>> \in TakeArrows \cup GiveArrows /\ At(p, l) /\ Local(p, m)
    BY <1>1, ListSteps
  <2>2. l \notin {"none", "trTerm"} \cup Gone /\ m \notin {"none", "exV", "exStat"}
    BY <2>1 DEF TakeArrows, GiveArrows, Gone
  <2>3. panic' = panic
    BY <1>1, ListSteps
  <2> QED
    BY <2>1, <2>2, <2>3, LocalSteps
<1>2. CASE ~allocateSupport(p) /\ ~Abandon(p)
  BY <1>2, CallsRun
  DEF EXECUTE, Starts, Refuse, ReadHeader, unchangedCall, Step, Ran, IoLabels, At, Gone
<1> QED
  BY <1>1, <1>2

\* ProgramTrapHandler goes on.
LEMMA TrapSteps ==
  ASSUME CoreInv, TimerInv, NEW p \in PCB, ProgramTrapHandler(p), pc[p] # "trTerm"
  PROVE  Step(p)
<1>1. CASE deallocateSupport(p, sup[p], ProcessGives)
  <2>1. PICK l, m : <<l, m>> \in LeaveArrows /\ At(p, l) /\ Local(p, m)
    BY <1>1, ListSteps
  <2>2. /\ l \notin {"none", "trTerm"} /\ m \notin {"none", "exV", "exStat"}
        /\ Left(m) = Left(l) - 1
    BY <2>1 DEF LeaveArrows, Left
  <2>3. panic' = panic
    BY <1>1, ListPlaces DEF ProgramTrapHandler, At, unchangedCall
  <2> QED
    BY <2>1, <2>2, <2>3, LocalSteps
<1>2. CASE At(p, "trTlb") /\ Local(p, "trTerm") /\ unchangedCall
  <2>1. Left("trTerm") = Left("trTlb") - 1
    BY DEF Left
  <2> QED
    BY <1>2, <2>1, LocalSteps DEF unchangedCall
<1>3. CASE ~deallocateSupport(p, sup[p], ProcessGives) /\ pc[p] # "trTlb"
  BY <1>3, CallsRun DEF ProgramTrapHandler, unchangedCall, Step, Ran, IoLabels, At, Gone
<1> QED
  BY <1>1, <1>2, <1>3 DEF ProgramTrapHandler, At

\* The pager goes on, or waits for a flash device.
LEMMA PagerSteps ==
  ASSUME CoreInv, TimerInv, NEW p \in PCB, Pager(p)
  PROVE  Step(p)
<1>1. ret[p] \in {"user", "txLoop", "rxStore"}
  BY DEF CoreInv, LabelsInv
<1>2. \A l : Goto(p, l) /\ l \in {"user", "txLoop", "rxStore"} => pc'[p] \in {"user", "txLoop", "rxStore"}
  BY CallsRun
<1>3. EndWrite(p) => Ran
  BY CallsRun DEF EndWrite
<1>4. pc[p] \notin Gone
  BY DEF Pager, At, Gone
<1> QED
  BY <1>1, <1>2, <1>3, <1>4, CallsRun
  DEF Pager, SelectFrame, unchangedCall, Step, Ran, IoLabels, At

\* Exceptions and page faults end a step.
LEMMA FaultSteps ==
  ASSUME CoreInv, TimerInv, NEW p \in Uproc, PageFault(p) \/ GeneralExceptionHandler(p)
  PROVE  Step(p)
<1>1. p \in PCB
  BY DEF Uproc
<1> QED
  BY <1>1, CallsRun
  DEF PageFault, GeneralExceptionHandler, unchangedCall, Step, Ran, IoLabels, At, Gone

\* Such a step leaves every process that waits for a device where it is.
LEMMA StepTimer ==
  ASSUME CoreInv, TimerInv, NEW p \in PCB, Step(p)
  PROVE  TimerInv'
<1>1. p \notin io
  BY DEF Step, Running, CoreInv, QueuesInv, Runnable
<1>2. io \subseteq PCB
  BY DEF CoreInv, QueuesInv
<1> QED
  BY <1>1, <1>2 DEF Step, TimerInv

\* So does the creation of a process,
LEMMA CreateTimer ==
  ASSUME CoreInv, TimerInv, NEW p \in PCB, NEW q \in PCB, NEW s, NEW l,
         Running(p), pc[q] = "none", CREATEPROCESS(p, q, s, l), panic' = panic
  PROVE  TimerInv'
<1>1. p \notin io /\ q \notin io /\ io \subseteq PCB
  BY DEF Running, CoreInv, QueuesInv, Runnable, Live
<1>2. \A r \in io : pc'[r] = pc[r]
  BY <1>1 DEF CREATEPROCESS, CoreInv, LabelsInv
<1>3. io' = io
  BY DEF CREATEPROCESS
<1>4. slice' \in 0 .. SliceSteps
  BY SizeAssumption DEF CREATEPROCESS, Tick, TimerInv
<1> QED
  BY <1>2, <1>3, <1>4 DEF TimerInv

\* and the end of some.
LEMMA TermTimer ==
  ASSUME CoreInv, TimerInv, NEW p \in PCB, TERMPROCESS(p)
  PROVE  TimerInv'
<1>1. slice' \in 0 .. SliceSteps /\ panic' = panic
  BY SizeAssumption DEF TERMPROCESS, scheduler
<1>2. io' = io \ Offspring(p) /\ io \subseteq PCB
      /\ pc' = [q \in PCB |-> IF q \in Offspring(p) THEN "none" ELSE pc[q]]
  BY DEF TERMPROCESS, CoreInv, QueuesInv
<1> QED
  BY <1>1, <1>2 DEF TimerInv

\* The steps of a handler, apart from those that create or kill a process.
LEMMA HandlerSteps ==
  ASSUME CoreInv, SupportsInv, FramesInv, TimerInv, NEW p \in PCB, Handler(p)
  PROVE  \/ Step(p)
         \/ At(p, "header") /\ pc[Shell] = "none"
              /\ CREATEPROCESS(p, Shell, newSup, "shellEnd") /\ panic' = panic
         \/ panic' = TRUE /\ UNCHANGED <<pc, cpuVars>> /\ pc[Shell] = "none"
         \/ Starts(p)
         \/ (At(p, "halt") \/ At(p, "trTerm")) /\ TERMPROCESS(p)
<1>1. CASE test(p)
  <2>1. pc[p] = "header" => pc[Shell] = "none"
    <3>1. pc[p] = "header" => p = Inst
      BY DEF CoreInv, LabelsInv, InstLabels, Uproc
    <3> QED
      BY <3>1, ProcAssumption DEF CoreInv, ActiveInv, Uproc
  <2>2. CASE At(p, "shellEnd")
    <3>1. PASSEREN(p, MasterSem) /\ Goto(p, "halt") /\ panic' = panic
      BY <1>1, <2>2 DEF test, At
    <3> QED
      BY <2>2, <3>1, CallsRun DEF Step, Ran, At, Gone
  <2> QED
    BY <1>1, <2>1, <2>2 DEF test, At
<1>2. CASE WRITETERMINAL(p) \/ READTERMINAL(p) \/ Return(p)
  BY <1>2, TerminalSteps
<1>3. CASE EXECUTE(p)
  BY <1>3, ExecuteSteps
<1>4. CASE ProgramTrapHandler(p)
  <2>1. CASE pc[p] = "trTerm"
    BY <1>4, <2>1, ListPlaces DEF ProgramTrapHandler, At
  <2> QED
    BY <1>4, <2>1, TrapSteps
<1>5. CASE Pager(p)
  BY <1>5, PagerSteps
<1> QED
  BY <1>1, <1>2, <1>3, <1>4, <1>5 DEF Handler

\* A process waits for a device where its code waits for one.
LEMMA NextTimer ==
  ASSUME CoreInv, SupportsInv, FramesInv, TimerInv, [Next]_vars
  PROVE  TimerInv'
<1>1. ASSUME NEW p \in PCB, Handler(p) PROVE TimerInv'
  <2>1. CASE Step(p)
    BY <2>1, StepTimer
  <2>2. CASE /\ At(p, "header") /\ pc[Shell] = "none"
             /\ CREATEPROCESS(p, Shell, newSup, "shellEnd") /\ panic' = panic
    BY <2>2, CreateTimer, ProcAssumption DEF At
  <2>3. CASE panic' = TRUE /\ UNCHANGED <<pc, cpuVars>>
    BY <2>3 DEF TimerInv, cpuVars
  <2>4. CASE Starts(p)
    BY <2>4, CreateTimer DEF Starts, StartProgram, At, Child, Uproc
  <2>5. CASE (At(p, "halt") \/ At(p, "trTerm")) /\ TERMPROCESS(p)
    BY <2>5, TermTimer
  <2> QED
    BY <1>1, <2>1, <2>2, <2>3, <2>4, <2>5, HandlerSteps
<1>2. ASSUME NEW p \in PCB, IoDone(p) PROVE TimerInv'
  BY <1>2 DEF IoDone, TimerInv
<1>3. ASSUME NEW p \in PCB, PLTInterrupt(p) PROVE TimerInv'
  BY <1>3, SizeAssumption DEF PLTInterrupt, scheduler, TimerInv
<1>4. ASSUME NEW p \in Uproc, PageFault(p) \/ GeneralExceptionHandler(p) PROVE TimerInv'
  <2>1. p \in PCB
    BY DEF Uproc
  <2> QED
    BY <1>4, <2>1, FaultSteps, StepTimer
<1>5. CASE UNCHANGED vars
  BY <1>5 DEF vars, cpuVars, TimerInv
<1> QED
  BY <1>1, <1>2, <1>3, <1>4, <1>5 DEF Next, Stopped

-----------------------------------------------------------------------------
(* One program at a time *)

\* While the shell is in EXECUTE no program does more than leave.
LEMMA LeaverGone ==
  ASSUME CoreInv, pc[Shell] \in NewLabels, NEW c \in Child, pc[c] # "none"
  PROVE  /\ pc[c] \in Gone \ {"none"} /\ c \in PCB /\ c # Shell /\ c # Inst
         /\ Left(pc[c]) \in 1 .. 7
<1>1. c \in PCB /\ c # Shell /\ c # Inst
  BY DEF Child, Uproc
<1>2. ~Asleep
  BY SemFacts DEF NewLabels, TakenLabels, AsidLabels, Asleep, CoreInv, QueuesInv, WaitsAt
<1>3. pc[c] \in Gone
  BY <1>2 DEF CoreInv, ActiveInv
<1> QED
  BY <1>1, <1>3 DEF Gone, Left

\* It gets the processor when the shell reads the header, with a whole slice: of
\* those that are ready, it alone has the priority of the support level.
LEMMA Handover ==
  ASSUME CoreInv, TimerInv, LeaversInv, currProc = Shell, pc[Shell] = "exRead",
         DOIO(Shell), Goto(Shell, "exV"), NEW c \in Child, pc[c] # "none"
  PROVE  currProc' = c /\ slice' = SliceSteps
<1>1. pc[c] \in Gone \ {"none"} /\ c \in PCB /\ c # Shell /\ c # Inst
  BY LeaverGone DEF NewLabels, AsidLabels
<1>2. c \notin io
  BY <1>1 DEF TimerInv, IoLabels, Gone
<1>3. c \notin Blocked
  BY <1>1, SemFacts DEF Blocked, Waits, CoreInv, QueuesInv, WaitsAt, Gone
<1>4. c \in Elems(readyQueue) /\ Elems(readyQueue) # {}
  BY <1>1, <1>2, <1>3 DEF CoreInv, QueuesInv, Live, Runnable
<1> DEFINE h == headProcQ(readyQueue)
<1>5. h \in Elems(readyQueue) /\ <<h, c>> \in readyQueue
  BY <1>4, HeadFirst DEF CoreInv, QueuesInv
<1>6. h \in PCB /\ h # Shell /\ pc[h] # "none"
  BY <1>5 DEF CoreInv, QueuesInv, Live, Runnable, Elems
<1>7. p_prio[h] >= p_prio[c]
  BY <1>1, <1>5, <1>6 DEF CoreInv, QueuesInv, IsSorted
<1>8. h # Inst
  BY <1>1, <1>6, <1>7 DEF p_prio
<1>9. h = c
  BY <1>6, <1>8 DEF LeaversInv, Child, Uproc
<1>10. Moves(Shell, "exV")
  BY ProcAssumption DEF Moves, CoreInv, LabelsInv
<1>11. currProc' = c
  BY <1>4, <1>9, <1>10, DeviceQueues DEF CoreInv
<1>12. slice' = SliceSteps
  BY DEF DOIO, scheduler
<1> QED
  BY <1>11, <1>12

\* A step of the leaving program brings it nearer to its end; one of the shell
\* is at most the one that hands the processor over.
LEMMA StepLeavers ==
  ASSUME SliceSteps >= 7, CoreInv, TimerInv, LeaversInv, NEW p \in PCB, Step(p)
  PROVE  LeaversInv'
<1>1. /\ currProc = p /\ pc[p] \notin {"none", "trTerm"} /\ pc'[p] # "none"
      /\ \A q \in PCB : q # p => pc'[q] = pc[q]
      /\ Child \subseteq PCB /\ Shell \in PCB /\ Shell \notin Child
  BY ProcAssumption DEF Step, Running, Child, Uproc
<1>2. \A c \in Child : pc'[c] # "none" <=> pc[c] # "none"
  BY <1>1
<1>3. \A c, d \in Child : pc'[c] # "none" /\ pc'[d] # "none" => c = d
  BY <1>2 DEF LeaversInv
<1>4. ASSUME pc'[Shell] \in {"exV", "exStat"}, NEW c \in Child, pc'[c] # "none"
      PROVE  pc'[Shell] = "exV" /\ currProc' = c /\ slice' >= Left(pc'[c])
  <2>1. pc[c] # "none" /\ c # Shell
    BY <1>1, <1>2, <1>4
  <2>2. CASE p = Shell
    <3>1. pc'[Shell] # "exStat"
      BY <1>1, <2>1, <2>2 DEF Step, LeaversInv
    <3>2. pc[Shell] = "exRead" /\ DOIO(Shell) /\ Goto(Shell, "exV")
      BY <1>4, <2>2, <3>1 DEF Step
    <3>3. currProc' = c /\ slice' = SliceSteps
      BY <1>1, <2>1, <2>2, <3>2, Handover
    <3>4. pc'[c] = pc[c] /\ Left(pc[c]) \in 1 .. 7
      BY <1>1, <2>1, <2>2, <3>2, LeaverGone DEF NewLabels, AsidLabels
    <3> QED
      BY <1>4, <3>1, <3>3, <3>4, SizeAssumption
  <2>3. CASE p # Shell
    <3>1. pc[Shell] \in {"exV", "exStat"} /\ pc'[Shell] = pc[Shell]
      BY <1>1, <1>4, <2>3
    <3>2. pc[Shell] = "exV" /\ p = c /\ slice >= Left(pc[c])
      BY <1>1, <2>1, <3>1 DEF LeaversInv
    <3>3. pc[c] \in Gone /\ Left(pc[c]) \in 1 .. 7
      BY <1>1, <2>1, <3>1, <3>2, LeaverGone DEF NewLabels, AsidLabels
    <3>4. Stay /\ Left(pc'[c]) = Left(pc[c]) - 1
      BY <3>2, <3>3 DEF Step
    <3>5. slice' = IF slice = 0 THEN 0 ELSE slice - 1
      BY <3>4 DEF Stay, Tick
    <3>6. currProc' = c
      BY <1>1, <3>2, <3>4 DEF Stay
    <3>7. slice' >= Left(pc'[c])
      BY <3>2, <3>3, <3>4, <3>5, SizeAssumption DEF TimerInv
    <3> QED
      BY <3>1, <3>2, <3>6, <3>7
  <2> QED
    BY <2>2, <2>3
<1> QED
  BY <1>3, <1>4 DEF LeaversInv

\* A program is started when there is none.
LEMMA StartLeavers ==
  ASSUME CoreInv, LeaversInv, NEW p \in PCB, At(p, "exStat"), StartProgram(p)
  PROVE  LeaversInv'
<1>1. p = Shell /\ pc[Shell] = "exStat" /\ Shell \notin Child
  BY WhoIsAt DEF ExLabels, Child
<1>2. \A c \in Child : pc[c] = "none"
  BY <1>1 DEF LeaversInv
<1>3. PICK q \in Child : CREATEPROCESS(p, q, newSup, "exWait")
  BY DEF StartProgram
<1>4. pc' = [pc EXCEPT ![Shell] = "exWait", ![q] = "user"] /\ Shell \in PCB /\ q # Shell
      /\ Child \subseteq PCB /\ pc \in [PCB -> Labels]
  BY <1>1, <1>3, ProcAssumption DEF CREATEPROCESS, Child, Uproc, CoreInv, LabelsInv
<1>5. pc'[Shell] = "exWait" /\ \A c \in Child : pc'[c] # "none" => c = q
  BY <1>1, <1>2, <1>4
<1> QED
  BY <1>5 DEF LeaversInv

\* Whoever dies is gone.
LEMMA TermLeavers ==
  ASSUME CoreInv, LeaversInv, NEW p \in PCB, currProc = p, TERMPROCESS(p)
  PROVE  LeaversInv'
<1>1. pc' = [q \in PCB |-> IF q \in Offspring(p) THEN "none" ELSE pc[q]]
      /\ Child \subseteq PCB /\ Shell \in PCB
  BY ProcAssumption DEF TERMPROCESS, Child, Uproc
<1>2. p \in Child => p \in Offspring(p)
  BY DEF Offspring, Child, Uproc
<1>3. \A c \in Child : pc'[c] # "none" => pc[c] # "none" /\ c # p
  BY <1>1, <1>2
<1>4. pc'[Shell] \in {"exV", "exStat"} => pc[Shell] \in {"exV", "exStat"}
  BY <1>1
<1> QED
  BY <1>3, <1>4 DEF LeaversInv

\* Every step preserves that there is one program at a time.
LEMMA NextLeavers ==
  ASSUME SliceSteps >= 7, CoreInv, SupportsInv, FramesInv, TimerInv, LeaversInv, [Next]_vars
  PROVE  LeaversInv'
<1>1. ASSUME NEW p \in PCB, Handler(p) PROVE LeaversInv'
  <2>1. CASE Step(p)
    BY <2>1, StepLeavers
  <2>2. CASE pc[Shell] = "none" /\ CREATEPROCESS(p, Shell, newSup, "shellEnd") /\ At(p, "header")
    <3>1. p = Inst /\ pc \in [PCB -> Labels] /\ Inst # Shell
      BY <2>2, WhoIsAt, ProcAssumption DEF InstLabels, CoreInv, LabelsInv
    <3>2. pc'[Shell] = "user" /\ \A c \in Child : pc'[c] = pc[c]
      BY <2>2, <3>1, ProcAssumption DEF CREATEPROCESS, Child, Uproc
    <3> QED
      BY <3>2 DEF LeaversInv
  <2>3. CASE UNCHANGED <<pc, cpuVars>> /\ pc[Shell] = "none"
    BY <2>3 DEF LeaversInv
  <2>4. CASE Starts(p)
    BY <2>4, StartLeavers DEF Starts
  <2>5. CASE (At(p, "halt") \/ At(p, "trTerm")) /\ TERMPROCESS(p)
    BY <2>5, TermLeavers DEF At, Running
  <2> QED
    BY <1>1, <2>1, <2>2, <2>3, <2>4, <2>5, HandlerSteps
<1>2. ASSUME NEW p \in PCB, IoDone(p) PROVE LeaversInv'
  <2>1. UNCHANGED <<pc, slice>> /\ MakeReady(p)
    BY <1>2 DEF IoDone
  <2>2. currProc # Null => currProc' = currProc
    BY <2>1 DEF MakeReady
  <2>3. \A c \in Child : c # Null
    BY ProcAssumption DEF Child, Uproc
  <2> QED
    BY <2>1, <2>2, <2>3 DEF LeaversInv
<1>3. ASSUME NEW p \in PCB, PLTInterrupt(p) PROVE LeaversInv'
  <2>1. pc' = pc /\ currProc = p /\ (pc[p] = "user" \/ slice = 0)
    BY <1>3 DEF PLTInterrupt, Running
  <2>2. \A c \in Child : pc[c] # "none" /\ pc[Shell] \in {"exV", "exStat"}
          => c # p \/ slice < Left(pc[c])
    BY <2>1, LeaverGone, SizeAssumption DEF NewLabels, AsidLabels, Gone, TimerInv
  <2>3. \A c \in Child : pc[c] # "none" => pc[Shell] \notin {"exV", "exStat"}
    <3> SUFFICES ASSUME NEW c \in Child, pc[c] # "none", pc[Shell] \in {"exV", "exStat"}
                 PROVE  FALSE
      OBVIOUS
    <3>1. Left(pc[c]) \in 1 .. 7 /\ slice \in Nat
      BY LeaverGone, SizeAssumption DEF NewLabels, AsidLabels, TimerInv
    <3> QED
      BY <2>1, <2>2, <3>1 DEF LeaversInv
  <2> QED
    BY <2>1, <2>3 DEF LeaversInv
<1>4. ASSUME NEW p \in Uproc, PageFault(p) \/ GeneralExceptionHandler(p) PROVE LeaversInv'
  <2>1. p \in PCB
    BY DEF Uproc
  <2> QED
    BY <1>4, <2>1, FaultSteps, StepLeavers
<1>5. CASE UNCHANGED vars
  BY <1>5 DEF vars, cpuVars, LeaversInv
<1> QED
  BY <1>1, <1>2, <1>3, <1>4, <1>5 DEF Next, Stopped

-----------------------------------------------------------------------------
(* The free list, when no operation on it is preempted *)

\* Links N, P that are a ring through the head and the structures F, and no other.
Ring(N, P, F) ==
  /\ \A n \in F \cup {0} : /\ N[n] \in F \cup {0} /\ P[n] \in F \cup {0}
                           /\ P[N[n]] = n /\ N[P[n]] = n
  /\ \A T \in SUBSET Node : 0 \in T /\ (\A n \in T : N[n] \in T) => F \subseteq T

\* How far the list_add of x is from the ring N, P, by where p is in ls.
Adding(p, x, ls, N, P) ==
  \/ pc[p] = ls[2] /\ next = N /\ prev = P /\ nextArg[p] = N[0]
  \/ /\ pc[p] = ls[3] /\ nextArg[p] = N[0]
     /\ next = N /\ prev = [P EXCEPT ![N[0]] = x]
  \/ pc[p] = ls[4] /\ next = [N EXCEPT ![x] = N[0]] /\ prev = [P EXCEPT ![N[0]] = x]
  \/ /\ pc[p] = ls[5]
     /\ next = [N EXCEPT ![x] = N[0]] /\ prev = [P EXCEPT ![N[0]] = x, ![x] = 0]

\* And the list_del of the first structure x.
Deleting(p, x, N, P) ==
  /\ x = N[0] /\ x # 0
  /\ \/ pc[p] = "exLinks" /\ next = N /\ prev = P
     \/ pc[p] = "exPrev" /\ next = N /\ prev = P /\ nextArg[p] = N[x]
     \/ pc[p] = "exNext" /\ next = N /\ prev = P /\ prevArg[p] = 0
     \/ /\ pc[p] = "exDel1" /\ nextArg[p] = N[x] /\ prevArg[p] = 0
        /\ next = N /\ prev = P
     \/ /\ pc[p] = "exDel2" /\ nextArg[p] = N[x] /\ prevArg[p] = 0
        /\ next = N /\ prev = [P EXCEPT ![N[x]] = 0]
     \/ pc[p] = "exDel3" /\ next = [N EXCEPT ![0] = N[x]] /\ prev = [P EXCEPT ![N[x]] = 0]
     \/ /\ pc[p] = "exDel4"
        /\ next = [N EXCEPT ![0] = N[x], ![x] = x] /\ prev = [P EXCEPT ![N[x]] = 0]

LinksAt(p, N, P) ==
  /\ currProc = p
  /\ \/ pc[p] = "exHead" /\ next = N /\ prev = P
     \/ Deleting(p, newSup, N, P)
     \/ Adding(p, newSup, ExecuteGives, N, P)
     \/ Adding(p, sup[p], ProcessGives, N, P)

LinksInv(N, P) ==
  /\ Quiet => next = N /\ prev = P
  /\ \A p \in Uproc : pc[p] \in ListLabels => LinksAt(p, N, P)

\* The structures of the list F, the one being prepared and those of the
\* processes: each is in one place.
Owns(p, s) == sup[p] = s /\ pc[p] \notin {"trTlb", "trTerm"}
Prepared == IF pc[Shell] \in TakenLabels THEN 0 ELSE newSup

OwnedOnce(F) ==
  /\ \A s \in Support : s \in F \/ Prepared = s \/ \E p \in Uproc : Owns(p, s)
  /\ \A s \in F : Prepared # s /\ \A p \in Uproc : ~Owns(p, s)
  /\ \A p \in Uproc, s \in Support : Owns(p, s) => Prepared # s
  /\ \A p, q \in Uproc, s \in Support : Owns(p, s) /\ Owns(q, s) => p = q

ShellLives == pc[Shell] # "none" \/ Starting

Listed(N, P, F) == Ring(N, P, F) /\ LinksInv(N, P) /\ OwnedOnce(F)

ExactInv ==
  ShellLives => \E N, P \in [Node -> Node], F \in SUBSET Support : Listed(N, P, F)

\* The nodes.
LEMMA NodeFacts ==
  /\ supStructs_freeList = 0 /\ 0 \in Node /\ Support \subseteq Node /\ 0 \notin Support
  /\ Node = Support \cup {0}
BY DEF supStructs_freeList, Node, Support

\* list_add makes the ring longer.
LEMMA RingAdd ==
  ASSUME NEW N \in [Node -> Node], NEW P \in [Node -> Node], NEW F \in SUBSET Support,
         Ring(N, P, F), NEW x \in Support \ F
  PROVE  Ring([[N EXCEPT ![x] = N[0]] EXCEPT ![0] = x],
              [[P EXCEPT ![N[0]] = x] EXCEPT ![x] = 0], F \cup {x})
<1> DEFINE M == [[N EXCEPT ![x] = N[0]] EXCEPT ![0] = x]
           Q == [[P EXCEPT ![N[0]] = x] EXCEPT ![x] = 0]
           G == F \cup {x}
<1>1. x \in Node /\ x # 0 /\ 0 \in Node /\ F \subseteq Node /\ 0 \notin F /\ x \notin F
  BY NodeFacts
<1>2. /\ M[0] = x /\ M[x] = N[0] /\ \A n \in Node \ {0, x} : M[n] = N[n]
      /\ Q[x] = 0 /\ \A n \in Node \ {N[0], x} : Q[n] = P[n]
      /\ N[0] \in F \cup {0} /\ Q[N[0]] = x
  BY <1>1 DEF Ring
<1>3. \A n \in F \cup {0} : /\ N[n] \in F \cup {0} /\ P[n] \in F \cup {0}
                            /\ P[N[n]] = n /\ N[P[n]] = n
  BY DEF Ring
<1> HIDE DEF M, Q
<1>4. ASSUME NEW n \in G \cup {0}
      PROVE  M[n] \in G \cup {0} /\ Q[n] \in G \cup {0} /\ Q[M[n]] = n /\ M[Q[n]] = n
  <2>1. CASE n = x
    BY <1>1, <1>2, <2>1
  <2>2. CASE n = 0
    <3>1. CASE N[0] = 0
      BY <1>1, <1>2, <2>2, <3>1
    <3>2. CASE N[0] # 0
      <4>1. Q[0] = P[0] /\ P[0] \in F \cup {0} /\ N[P[0]] = 0
        BY <1>1, <1>2, <1>3, <3>2
      <4>2. P[0] # 0
        BY <3>2, <4>1
      <4> QED
        BY <1>1, <1>2, <2>2, <4>1, <4>2
    <3> QED
      BY <3>1, <3>2
  <2>3. CASE n \in F
    <3>1. /\ M[n] = N[n] /\ N[n] \in F \cup {0} /\ P[n] \in F \cup {0}
          /\ P[N[n]] = n /\ N[P[n]] = n /\ n \notin {0, x}
      BY <1>1, <1>2, <1>3, <2>3
    <3>2. N[n] # N[0]
      BY <1>3, <3>1
    <3>3. Q[M[n]] = n
      BY <1>1, <1>2, <3>1, <3>2
    <3>4. CASE n = N[0]
      BY <1>1, <1>2, <3>1, <3>3, <3>4
    <3>5. CASE n # N[0]
      <4>1. Q[n] = P[n] /\ P[n] # 0
        BY <1>1, <1>2, <3>1, <3>5
      <4> QED
        BY <1>1, <1>2, <3>1, <3>3, <4>1
    <3> QED
      BY <3>4, <3>5
  <2> QED
    BY <2>1, <2>2, <2>3
<1>5. ASSUME NEW T \in SUBSET Node, 0 \in T, \A n \in T : M[n] \in T
      PROVE  G \subseteq T
  <2> DEFINE U == T \cap (F \cup {0})
  <2>1. x \in T /\ N[0] \in T
    BY <1>2, <1>5
  <2>2. \A n \in U : N[n] \in U
    BY <1>1, <1>2, <1>3, <1>5, <2>1
  <2>3. F \subseteq U
    BY <1>5, <2>2 DEF Ring
  <2> QED
    BY <2>1, <2>3
<1>6. Ring(M, Q, G)
  BY <1>4, <1>5 DEF Ring
<1> QED
  BY <1>6 DEF M, Q

\* list_del of the first structure makes it shorter.
LEMMA RingDel ==
  ASSUME NEW N \in [Node -> Node], NEW P \in [Node -> Node], NEW F \in SUBSET Support,
         Ring(N, P, F), NEW x, x = N[0], x # 0
  PROVE  /\ x \in F /\ P[x] = 0
         /\ Ring([[N EXCEPT ![0] = N[x]] EXCEPT ![x] = x],
                 [[P EXCEPT ![N[x]] = 0] EXCEPT ![x] = x], F \ {x})
<1> DEFINE M == [[N EXCEPT ![0] = N[x]] EXCEPT ![x] = x]
           Q == [[P EXCEPT ![N[x]] = 0] EXCEPT ![x] = x]
           G == F \ {x}
<1>1. \A n \in F \cup {0} : /\ N[n] \in F \cup {0} /\ P[n] \in F \cup {0}
                            /\ P[N[n]] = n /\ N[P[n]] = n
  BY DEF Ring
<1>2. x \in F /\ P[x] = 0 /\ x \in Node /\ 0 \in Node /\ F \subseteq Node /\ 0 \notin F
  BY <1>1, NodeFacts
<1>3. N[x] # x
  BY <1>1, <1>2
<1>4. /\ M[0] = N[x] /\ M[x] = x /\ \A n \in Node \ {0, x} : M[n] = N[n]
      /\ Q[N[x]] = 0 /\ Q[x] = x /\ \A n \in Node \ {N[x], x} : Q[n] = P[n]
  BY <1>2, <1>3
<1> HIDE DEF M, Q
<1>5. ASSUME NEW n \in G \cup {0}
      PROVE  M[n] \in G \cup {0} /\ Q[n] \in G \cup {0} /\ Q[M[n]] = n /\ M[Q[n]] = n
  <2>1. n \in F \cup {0} /\ n # x /\ n \in Node /\ N[n] \in Node /\ P[n] \in Node
    BY <1>2
  <2>2. CASE n = 0
    <3>1. N[x] \in G \cup {0}
      BY <1>1, <1>2, <1>3
    <3>2. M[n] = N[x] /\ Q[M[n]] = n
      BY <1>4, <2>2
    <3>3. CASE N[x] = 0
      BY <1>4, <2>2, <3>1, <3>2, <3>3
    <3>4. CASE N[x] # 0
      <4>1. Q[0] = P[0] /\ P[0] \in F \cup {0} /\ N[P[0]] = 0
        BY <1>1, <1>2, <1>4, <3>4
      <4>2. P[0] # 0 /\ P[0] # x
        BY <3>4, <4>1, <1>2
      <4> QED
        BY <1>2, <1>4, <2>2, <3>1, <3>2, <4>1, <4>2
    <3> QED
      BY <3>3, <3>4
  <2>3. CASE n \in F /\ n # x
    <3>1. M[n] = N[n] /\ N[n] \in F \cup {0} /\ P[N[n]] = n /\ n # 0
      BY <1>1, <1>2, <1>4, <2>3
    <3>2. N[n] # x /\ N[n] # N[x]
      BY <1>1, <1>2, <2>3, <3>1
    <3>3. Q[M[n]] = n /\ M[n] \in G \cup {0}
      BY <1>2, <1>4, <2>1, <3>1, <3>2
    <3>4. CASE n = N[x]
      BY <1>2, <1>4, <3>3, <3>4
    <3>5. CASE n # N[x]
      <4>1. Q[n] = P[n] /\ P[n] \in F \cup {0} /\ N[P[n]] = n
        BY <1>1, <1>2, <1>4, <2>3, <3>5
      <4>2. P[n] # 0 /\ P[n] # x
        BY <2>3, <3>5, <4>1
      <4> QED
        BY <1>2, <1>4, <3>3, <4>1, <4>2
    <3> QED
      BY <3>4, <3>5
  <2> QED
    BY <2>2, <2>3
<1>6. ASSUME NEW T \in SUBSET Node, 0 \in T, \A n \in T : M[n] \in T
      PROVE  G \subseteq T
  <2> DEFINE U == T \cup {x}
  <2>1. \A n \in U : N[n] \in U
    <3> SUFFICES ASSUME NEW n \in U PROVE N[n] \in U
      OBVIOUS
    <3>1. CASE n = 0
      BY <3>1
    <3>2. CASE n = x
      BY <1>4, <1>6, <3>2
    <3>3. CASE n \in T /\ n # 0 /\ n # x
      BY <1>4, <1>6, <3>3
    <3> QED
      BY <3>1, <3>2, <3>3
  <2>2. U \in SUBSET Node /\ 0 \in U
    BY <1>2, <1>6
  <2> HIDE DEF U
  <2>3. F \subseteq U
    BY <2>1, <2>2 DEF Ring
  <2> QED
    BY <2>3 DEF U
<1>7. Ring(M, Q, G)
  BY <1>5, <1>6 DEF Ring
<1> QED
  BY <1>2, <1>7 DEF M, Q

\* What a walk along a ring meets.
LEMMA RingFree ==
  ASSUME NEW P \in [Node -> Node], NEW F \in SUBSET Support, Ring(next, P, F)
  PROVE  FreeStructs = F
<1>1. F \cup {0} \in SUBSET Node /\ \A n \in F \cup {0} : next[n] \in F \cup {0}
  BY NodeFacts DEF Ring
<1>2. \A s \in FreeStructs : s \in F
  <2> SUFFICES ASSUME NEW s \in FreeStructs PROVE s \in F
    OBVIOUS
  <2>1. s \in Support /\ s \in F \cup {0}
    BY <1>1, NodeFacts DEF FreeStructs
  <2> QED
    BY <2>1, NodeFacts
<1>3. \A s \in F : s \in FreeStructs
  BY NodeFacts DEF FreeStructs, Ring
<1> QED
  BY <1>2, <1>3

\* A handler that has a structure's list to itself leaves it to its ring.
LEMMA OthersOut ==
  ASSUME NEW N, NEW P, LinksInv(N, P), NEW p, Running(p)
  PROVE  /\ \A q \in Uproc : q # p => pc[q] \notin ListLabels
         /\ pc[p] \notin ListLabels => next = N /\ prev = P
<1>1. \A q \in Uproc : q # p => pc[q] \notin ListLabels
  BY DEF LinksInv, LinksAt, Running
<1> QED
  BY <1>1 DEF LinksInv, Quiet

\* p goes on, and the links are where it says.
LEMMA LinksMoved ==
  ASSUME pc \in [PCB -> Labels], NEW p \in Uproc, Running(p), NEW m, Goto(p, m),
         currProc' = currProc, \A q \in Uproc : q # p => pc[q] \notin ListLabels,
         NEW N, NEW P,
         m \in ListLabels => LinksAt(p, N, P)',
         m \notin ListLabels => next' = N /\ prev' = P
  PROVE  LinksInv(N, P)'
<1>1. p \in PCB /\ Uproc \subseteq PCB
  BY DEF Uproc
<1>2. pc'[p] = m /\ \A q \in PCB : q # p => pc'[q] = pc[q]
  BY <1>1 DEF Goto
<1>3. \A q \in Uproc : pc'[q] \in ListLabels => q = p /\ m \in ListLabels
  BY <1>1, <1>2
<1>4. Quiet' => m \notin ListLabels
  BY <1>2 DEF Quiet
<1> QED
  BY <1>3, <1>4 DEF LinksInv

\* The owners stay.
LEMMA OwnersStay ==
  ASSUME NEW F, OwnedOnce(F), sup' = sup, Prepared' = Prepared,
         \A q \in Uproc : pc'[q] \in {"trTlb", "trTerm"} <=> pc[q] \in {"trTlb", "trTerm"}
  PROVE  OwnedOnce(F)'
<1>1. \A q \in Uproc, s \in Support : Owns(q, s)' <=> Owns(q, s)
  BY DEF Owns
<1>2. \A q \in Uproc : \A s \in F : Owns(q, s)' <=> Owns(q, s)
  BY DEF Owns
<1> QED
  BY <1>1, <1>2 DEF OwnedOnce

\* Steps that have nothing to do with the list.
LEMMA ExactKept ==
  ASSUME ExactInv, UNCHANGED <<sup, newSup, listVars>>, ShellLives' => ShellLives,
         \A q \in Uproc : pc'[q] \in ListLabels <=> pc[q] \in ListLabels,
         \A q \in Uproc : pc[q] \in ListLabels =>
           pc'[q] = pc[q] /\ (currProc = q /\ ShellLives => currProc' = q),
         \A q \in Uproc : pc'[q] \in {"trTlb", "trTerm"} <=> pc[q] \in {"trTlb", "trTerm"}
  PROVE  ExactInv'
<1> SUFFICES ASSUME ShellLives'
             PROVE  \E N, P \in [Node -> Node], F \in SUBSET Support : Listed(N, P, F)'
  BY DEF ExactInv
<1>1. PICK N \in [Node -> Node], P \in [Node -> Node], F \in SUBSET Support : Listed(N, P, F)
  BY DEF ExactInv
<1>2. UNCHANGED <<next, prev, nextArg, prevArg>>
  BY DEF listVars
<1>3. LinksInv(N, P)'
  <2>1. Quiet' <=> Quiet
    BY DEF Quiet
  <2>2. ASSUME NEW q \in Uproc, pc'[q] \in ListLabels PROVE LinksAt(q, N, P)'
    <3>1. LinksAt(q, N, P) /\ pc'[q] = pc[q]
      BY <1>1, <2>2 DEF Listed, LinksInv
    <3>2. currProc' = q
      BY <2>2, <3>1 DEF LinksAt
    <3> QED
      BY <1>2, <3>1, <3>2 DEF LinksAt, Deleting, Adding
  <2> QED
    BY <1>1, <1>2, <2>1, <2>2 DEF Listed, LinksInv
<1>4. Prepared' = Prepared
  <2>1. TakenLabels \subseteq ListLabels /\ Shell \in Uproc
    BY ProcAssumption DEF TakenLabels, ListLabels, Uproc
  <2> QED
    BY <2>1 DEF Prepared
<1>5. OwnedOnce(F)'
  BY <1>1, <1>4, OwnersStay DEF Listed
<1> QED
  BY <1>1, <1>3, <1>5 DEF Listed

\* A process that moves on outside the operations.
LEMMA ExactMoved ==
  ASSUME ExactInv, pc \in [PCB -> Labels],
         UNCHANGED <<sup, newSup, listVars, panic>>,
         NEW p \in PCB, Running(p), NEW m, Goto(p, m),
         {pc[p], m} \cap (ListLabels \cup {"none", "header"}) = {},
         m \in {"trTlb", "trTerm"} <=> pc[p] \in {"trTlb", "trTerm"}
  PROVE  ExactInv'
<1>1. Uproc \subseteq PCB /\ Shell \in Uproc /\ Inst \in PCB
  BY ProcAssumption DEF Uproc
<1>2. pc'[p] = m /\ \A q \in PCB : q # p => pc'[q] = pc[q]
  BY DEF Goto
<1>3. ShellLives' <=> ShellLives
  BY <1>1, <1>2 DEF ShellLives, Starting
<1>4. \A q \in Uproc : /\ pc'[q] \in ListLabels <=> pc[q] \in ListLabels
                       /\ pc'[q] \in {"trTlb", "trTerm"} <=> pc[q] \in {"trTlb", "trTerm"}
  BY <1>1, <1>2
<1>5. \A q \in Uproc : pc[q] \in ListLabels => pc'[q] = pc[q] /\ currProc # q
  BY <1>1, <1>2 DEF Running
<1> QED
  BY <1>3, <1>4, <1>5, ExactKept

\* EXECUTE takes a structure.
LEMMA ExactTakes ==
  ASSUME CoreInv, SupportsInv, ExactInv, NEW p \in PCB, allocateSupport(p)
  PROVE  ExactInv'
<1>1. PICK l, m : <<l, m>> \in TakeArrows /\ At(p, l) /\ Local(p, m)
  BY ListSteps
<1>2. /\ p = Shell /\ p \in Uproc /\ pc[p] = l /\ Goto(p, m) /\ Running(p)
      /\ currProc' = currProc /\ currProc = p /\ sup' = sup /\ pc \in [PCB -> Labels]
      /\ pc'[p] = m /\ \A q \in PCB : q # p => pc'[q] = pc[q]
      /\ l \notin {"none", "trTlb", "trTerm"} /\ m \notin {"none", "trTlb", "trTerm"}
  <2>1. l \in ExLabels /\ l \notin {"none", "trTlb", "trTerm"} /\ m \notin {"none", "trTlb", "trTerm"}
    BY <1>1 DEF TakeArrows, ExLabels
  <2> QED
    BY <1>1, <2>1, ListSteps, WhoIsAt
    DEF procVars, At, Running, Local, Stay, Goto, ExLabels, InstLabels, CoreInv, LabelsInv
<1>3. Uproc \subseteq PCB
  BY DEF Uproc
<1>4. PICK N \in [Node -> Node], P \in [Node -> Node], F \in SUBSET Support : Listed(N, P, F)
  BY <1>2 DEF ExactInv, ShellLives
<1>5. /\ \A q \in Uproc : q # p => pc[q] \notin ListLabels
      /\ pc[p] = "exArg" => next = N /\ prev = P
      /\ pc[p] # "exArg" => LinksAt(p, N, P) /\ pc[p] \in ListLabels
  <2>1. "exArg" \notin ListLabels /\ (l # "exArg" => l \in ListLabels)
    BY <1>1 DEF ListLabels, TakeArrows
  <2> QED
    BY <1>2, <1>4, <2>1, OthersOut DEF Listed, LinksInv
<1>6. \A q \in Uproc : pc'[q] \in {"trTlb", "trTerm"} <=> pc[q] \in {"trTlb", "trTerm"}
  BY <1>2, <1>3
<1>7. /\ 0 \in Node /\ supStructs_freeList = 0 /\ Support \subseteq Node
      /\ next \in [Node -> Node] /\ prev \in [Node -> Node]
      /\ nextArg \in [PCB -> Node] /\ prevArg \in [PCB -> Node]
  BY NodeFacts DEF SupportsInv
<1>8. CASE l # "exDel4"
  <2>1. LinksAt(p, N, P)'
    <3>1. CASE l = "exArg"
      <4>1. m = "exHead" /\ next' = N /\ prev' = P
        BY <1>1, <1>2, <1>5, <3>1 DEF TakeArrows, allocateSupport, At, listVars
      <4> QED
        BY <1>2, <4>1 DEF LinksAt
    <3>2. CASE l = "exHead"
      <4>1. next = N /\ prev = P
        BY <1>2, <1>5, <3>2 DEF LinksAt, Deleting, Adding, ExecuteGives, ProcessGives
      <4>2. m = "exLinks" /\ next' = N /\ prev' = P /\ newSup' = N[0] /\ N[0] # 0
        BY <1>1, <1>2, <1>7, <3>2, <4>1
        DEF TakeArrows, allocateSupport, At, listVars, SupportsInv
      <4> QED
        BY <1>2, <4>2 DEF LinksAt, Deleting
    <3>3. CASE l \notin {"exArg", "exHead"}
      <4>1. /\ Deleting(p, newSup, N, P) /\ newSup' = newSup
            /\ newSup = N[0] /\ newSup # 0 /\ newSup \in Node
        <5>1. l \in {"exLinks", "exPrev", "exNext", "exDel1", "exDel2", "exDel3"}
          BY <1>1, <1>8, <3>3 DEF TakeArrows
        <5> QED
          BY <1>2, <1>5, <1>7, <5>1
          DEF LinksAt, Deleting, Adding, ExecuteGives, ProcessGives, allocateSupport, At
      <4>2. P[newSup] = 0
        BY <1>4, <4>1, RingDel DEF Listed
      <4>3. CASE l = "exLinks"
        <5>1. next = N /\ prev = P
          BY <1>2, <4>1, <4>3 DEF Deleting
        <5>2. next' = next /\ prev' = prev
              /\ \/ m = "exPrev" /\ nextArg' = [nextArg EXCEPT ![p] = next[newSup]]
                 \/ m = "exNext" /\ prevArg' = [prevArg EXCEPT ![p] = prev[newSup]]
          BY <1>2, <4>3 DEF allocateSupport, At, Local, Goto, link
        <5> QED
          BY <1>2, <1>7, <4>1, <4>2, <5>1, <5>2 DEF Deleting, LinksAt
      <4>4. CASE l \in {"exPrev", "exNext"}
        <5>1. /\ next = N /\ prev = P
              /\ l = "exPrev" => nextArg[p] = N[newSup]
              /\ l = "exNext" => prevArg[p] = 0
          BY <1>2, <4>1, <4>4 DEF Deleting
        <5>2. /\ m = "exDel1" /\ next' = next /\ prev' = prev
              /\ l = "exNext" => nextArg' = [nextArg EXCEPT ![p] = next[newSup]]
                                   /\ prevArg' = prevArg
              /\ l = "exPrev" => prevArg' = [prevArg EXCEPT ![p] = prev[newSup]]
                                   /\ nextArg' = nextArg
          BY <1>2, <4>4 DEF allocateSupport, At, Local, Goto, link
        <5>3. nextArg'[p] = N[newSup] /\ prevArg'[p] = 0
          BY <1>7, <4>2, <4>4, <5>1, <5>2
        <5> QED
          BY <1>2, <4>1, <5>1, <5>2, <5>3 DEF Deleting, LinksAt
      <4>5. CASE l = "exDel1"
        <5>1. next = N /\ prev = P /\ nextArg[p] = N[newSup] /\ prevArg[p] = 0
          BY <1>2, <4>1, <4>5 DEF Deleting
        <5>2. m = "exDel2" /\ UNCHANGED <<next, nextArg, prevArg>>
              /\ prev' = [prev EXCEPT ![nextArg[p]] = prevArg[p]]
          BY <1>2, <4>5 DEF allocateSupport, At, Local, Goto, link
        <5> QED
          BY <1>2, <4>1, <5>1, <5>2 DEF Deleting, LinksAt
      <4>6. CASE l = "exDel2"
        <5>1. /\ next = N /\ prev = [P EXCEPT ![N[newSup]] = 0]
              /\ nextArg[p] = N[newSup] /\ prevArg[p] = 0
          BY <1>2, <4>1, <4>6 DEF Deleting
        <5>2. m = "exDel3" /\ UNCHANGED prev
              /\ next' = [next EXCEPT ![prevArg[p]] = nextArg[p]]
          BY <1>2, <4>6 DEF allocateSupport, At, Local, Goto, link
        <5> QED
          BY <1>2, <4>1, <5>1, <5>2 DEF Deleting, LinksAt
      <4>7. CASE l = "exDel3"
        <5>1. next = [N EXCEPT ![0] = N[newSup]] /\ prev = [P EXCEPT ![N[newSup]] = 0]
          BY <1>2, <4>1, <4>7 DEF Deleting
        <5>2. m = "exDel4" /\ UNCHANGED prev /\ next' = [next EXCEPT ![newSup] = newSup]
          BY <1>2, <4>7 DEF allocateSupport, At, Local, Goto, link
        <5> QED
          BY <1>2, <4>1, <5>1, <5>2 DEF Deleting, LinksAt
      <4>8. l \in {"exLinks", "exPrev", "exNext", "exDel1", "exDel2", "exDel3"}
        BY <1>1, <1>8, <3>3 DEF TakeArrows
      <4> QED
        BY <4>3, <4>4, <4>5, <4>6, <4>7, <4>8
    <3> QED
      BY <3>1, <3>2, <3>3
  <2>2. m \in ListLabels
    BY <1>1, <1>8 DEF TakeArrows, ListLabels
  <2>3. LinksInv(N, P)'
    BY <1>2, <1>5, <2>1, <2>2, LinksMoved
  <2>4. Prepared' = Prepared
    <3>1. CASE l = "exArg"
      <4>1. newSup' = newSup /\ m = "exHead"
        BY <1>1, <1>2, <3>1 DEF TakeArrows, allocateSupport, At
      <4> QED
        BY <1>2, <3>1, <4>1 DEF Prepared, TakenLabels
    <3>2. CASE l = "exHead"
      <4>1. newSup = 0 /\ m = "exLinks"
        <5>1. pc[Inst] # "header"
          BY <1>2 DEF CoreInv, ActiveInv
        <5> QED
          BY <1>1, <1>2, <3>2, <5>1
          DEF TakeArrows, SupportsInv, NewLabels, TakenLabels, AsidLabels, Starting
      <4> QED
        BY <1>2, <3>2, <4>1 DEF Prepared, TakenLabels
    <3>3. CASE l \notin {"exArg", "exHead"}
      BY <1>1, <1>2, <1>8, <3>3 DEF Prepared, TakenLabels, TakeArrows
    <3> QED
      BY <3>1, <3>2, <3>3
  <2>5. OwnedOnce(F)'
    BY <1>2, <1>4, <1>6, <2>4, OwnersStay DEF Listed
  <2>6. Listed(N, P, F)'
    BY <1>4, <2>3, <2>5 DEF Listed
  <2> QED
    BY <1>4, <2>6 DEF ExactInv
<1>9. CASE l = "exDel4"
  <2> DEFINE x == newSup
             M == [[N EXCEPT ![0] = N[N[0]]] EXCEPT ![N[0]] = N[0]]
             Q == [[P EXCEPT ![N[N[0]]] = 0] EXCEPT ![N[0]] = N[0]]
             G == F \ {N[0]}
  <2>1. /\ x = N[0] /\ x # 0 /\ next = [N EXCEPT ![0] = N[x], ![x] = x]
        /\ prev = [P EXCEPT ![N[x]] = 0]
    BY <1>2, <1>5, <1>9 DEF LinksAt, Deleting, Adding, ExecuteGives, ProcessGives
  <2>2. /\ m = "exP" /\ next' = next /\ prev' = [prev EXCEPT ![x] = x]
        /\ newSup' = newSup
    BY <1>1, <1>2, <1>9 DEF TakeArrows, allocateSupport, At, link
  <2>3. x \in F /\ Ring(M, Q, G)
    BY <1>4, <2>1, RingDel DEF Listed
  <2>4. M \in [Node -> Node] /\ Q \in [Node -> Node] /\ G \in SUBSET Support
    BY <1>7
  <2>5. next' = M /\ prev' = Q
    BY <1>7, <2>1, <2>2
  <2> HIDE DEF M, Q
  <2>6. LinksInv(M, Q)'
    BY <1>2, <1>5, <2>2, <2>5, LinksMoved DEF ListLabels
  <2>7. Prepared = 0 /\ Prepared' = x
    BY <1>2, <1>9, <2>2 DEF Prepared, TakenLabels
  <2>8. OwnedOnce(G)'
    <3>1. \A q \in Uproc, s \in Support : Owns(q, s)' <=> Owns(q, s)
      BY <1>2, <1>6 DEF Owns
    <3>2. \A q \in Uproc : \A s \in G : Owns(q, s)' <=> Owns(q, s)
      BY <3>1, <2>4
    <3>3. OwnedOnce(F) /\ x \in Support /\ G = F \ {x}
      BY <1>4, <2>1, <2>3 DEF Listed
    <3> HIDE DEF G
    <3> QED
      BY <2>1, <2>3, <2>7, <3>1, <3>2, <3>3, NodeFacts DEF OwnedOnce
  <2>9. Listed(M, Q, G)'
    BY <2>3, <2>6, <2>8 DEF Listed
  <2> QED
    BY <2>4, <2>9 DEF ExactInv
<1> QED
  BY <1>8, <1>9

\* A step of list_add brings the links nearer to the longer ring.
LEMMA AddSteps ==
  ASSUME NEW p \in PCB, pc \in [PCB -> Labels], next \in [Node -> Node],
         prev \in [Node -> Node], nextArg \in [PCB -> Node],
         NEW x \in Support, NEW ls \in {ExecuteGives, ProcessGives}, deallocateSupport(p, x, ls),
         NEW N \in [Node -> Node], NEW P \in [Node -> Node],
         pc[p] = ls[1] => next = N /\ prev = P,
         pc[p] # ls[1] => Adding(p, x, ls, N, P)
  PROVE  \/ pc[p] # ls[5] /\ pc'[p] # ls[6] /\ Adding(p, x, ls, N, P)'
         \/ /\ pc[p] = ls[5] /\ pc'[p] = ls[6]
            /\ next' = [[N EXCEPT ![x] = N[0]] EXCEPT ![0] = x]
            /\ prev' = [[P EXCEPT ![N[0]] = x] EXCEPT ![x] = 0]
<1>1. /\ \A i, j \in {1, 2, 3, 4, 5, 6} : ls[i] = ls[j] => i = j
      /\ supStructs_freeList = 0 /\ 0 \in Node /\ x \in Node /\ x # 0
  BY NodeFacts DEF ExecuteGives, ProcessGives
<1> USE DEF Local, Goto, link, At
<1>2. CASE At(p, ls[1]) /\ Local(p, ls[2])
  <2>1. /\ next = N /\ prev = P /\ pc'[p] = ls[2]
        /\ nextArg' = [nextArg EXCEPT ![p] = next[0]] /\ UNCHANGED <<next, prev>>
    BY <1>1, <1>2 DEF deallocateSupport
  <2> QED
    BY <1>1, <1>2, <2>1 DEF Adding
<1>3. CASE At(p, ls[2]) /\ Local(p, ls[3])
  <2>1. /\ next = N /\ prev = P /\ nextArg[p] = N[0] /\ pc'[p] = ls[3]
        /\ prev' = [prev EXCEPT ![nextArg[p]] = x] /\ UNCHANGED <<next, nextArg>>
    BY <1>1, <1>3 DEF deallocateSupport, Adding
  <2> QED
    BY <1>1, <1>3, <2>1 DEF Adding
<1>4. CASE At(p, ls[3]) /\ Local(p, ls[4])
  <2>1. /\ nextArg[p] = N[0] /\ next = N /\ prev = [P EXCEPT ![N[0]] = x] /\ pc'[p] = ls[4]
        /\ next' = [next EXCEPT ![x] = nextArg[p]] /\ UNCHANGED prev
    BY <1>1, <1>4 DEF deallocateSupport, Adding
  <2> QED
    BY <1>1, <1>4, <2>1 DEF Adding
<1>5. CASE At(p, ls[4]) /\ Local(p, ls[5])
  <2>1. /\ next = [N EXCEPT ![x] = N[0]] /\ prev = [P EXCEPT ![N[0]] = x] /\ pc'[p] = ls[5]
        /\ prev' = [prev EXCEPT ![x] = 0] /\ UNCHANGED next
    BY <1>1, <1>5 DEF deallocateSupport, Adding
  <2> QED
    BY <1>1, <1>5, <2>1 DEF Adding
<1>6. CASE At(p, ls[5]) /\ Local(p, ls[6]) /\ LinkHead(x)
  <2>1. /\ next = [N EXCEPT ![x] = N[0]] /\ prev = [P EXCEPT ![N[0]] = x, ![x] = 0]
        /\ pc[p] = ls[5] /\ pc'[p] = ls[6]
    BY <1>1, <1>6 DEF Adding
  <2>2. next' = [next EXCEPT ![0] = x] /\ prev' = prev
    BY <1>1, <1>6 DEF LinkHead
  <2> QED
    BY <1>1, <2>1, <2>2
<1> QED
  BY <1>2, <1>3, <1>4, <1>5, <1>6 DEF deallocateSupport

\* Who gives a structure back: EXECUTE its new one, a process that ends its own.
Gives(p, x, ls) ==
  \/ x = newSup /\ ls = ExecuteGives /\ Abandon(p)
  \/ /\ x = sup[p] /\ ls = ProcessGives /\ deallocateSupport(p, sup[p], ProcessGives)
     /\ UNCHANGED <<procVars, newSup, panic>>

\* The structure is back on the list, and nobody has it any more.
LEMMA ExactGives ==
  ASSUME CoreInv, SupportsInv, ExactInv, NEW p \in PCB, NEW x, NEW ls, Gives(p, x, ls)
  PROVE  ExactInv'
<1>1. /\ deallocateSupport(p, x, ls) /\ ls \in {ExecuteGives, ProcessGives}
      /\ UNCHANGED <<sup, panic>>
  BY ListSteps DEF Gives, Abandon, deallocateSupport, link, LinkHead, procVars
<1>2. PICK l, m : /\ <<l, m>> \in IF ls = ExecuteGives THEN GiveArrows ELSE LeaveArrows
                  /\ At(p, l) /\ Local(p, m)
  <2>1. ExecuteGives # ProcessGives
    BY DEF ExecuteGives, ProcessGives
  <2>2. CASE ls = ExecuteGives
    BY <1>1, <2>1, <2>2, ListSteps DEF Gives
  <2>3. CASE ls = ProcessGives
    BY <1>1, <2>1, <2>3, ListSteps DEF Gives
  <2> QED
    BY <1>1, <2>2, <2>3
<1>3. /\ p \in Uproc /\ pc[p] = l /\ Goto(p, m) /\ Running(p)
      /\ currProc' = currProc /\ currProc = p /\ pc \in [PCB -> Labels]
      /\ pc'[p] = m /\ \A q \in PCB : q # p => pc'[q] = pc[q]
      /\ ls = ExecuteGives => p = Shell /\ pc[p] \in AsidLabels
      /\ ls = ProcessGives => pc[p] \notin ExLabels /\ m \notin ExLabels
      /\ l \notin {"none", "trTlb", "trTerm"} /\ l \notin TakenLabels
      /\ m \notin TakenLabels
      /\ l \in {ls[1], ls[2], ls[3], ls[4], ls[5]}
      /\ m \in {ls[2], ls[3], ls[4], ls[5], ls[6]}
  <2>1. CASE ls = ExecuteGives
    <3>1. /\ l \in AsidLabels /\ l \in ExLabels /\ l \notin TakenLabels /\ m \notin TakenLabels
          /\ l \notin {"none", "trTlb", "trTerm"}
          /\ l \in {ls[1], ls[2], ls[3], ls[4], ls[5]}
          /\ m \in {ls[2], ls[3], ls[4], ls[5], ls[6]}
          /\ ls # ProcessGives
      BY <1>2, <2>1
      DEF GiveArrows, AsidLabels, ExLabels, TakenLabels, ExecuteGives, ProcessGives
    <3> QED
      BY <1>2, <3>1, WhoIsAt
      DEF At, Running, Local, Stay, Goto, ExLabels, InstLabels, CoreInv, LabelsInv
  <2>2. CASE ls = ProcessGives
    <3>1. ls # ExecuteGives
      BY <2>2 DEF ExecuteGives, ProcessGives
    <3>2. /\ l \notin ExLabels /\ m \notin ExLabels /\ l \notin InstLabels
          /\ l \notin TakenLabels /\ m \notin TakenLabels
          /\ l \notin {"none", "trTlb", "trTerm"}
          /\ l \in {ls[1], ls[2], ls[3], ls[4], ls[5]}
          /\ m \in {ls[2], ls[3], ls[4], ls[5], ls[6]}
      BY <1>2, <2>2, <3>1 DEF LeaveArrows, ExLabels, InstLabels, TakenLabels, ProcessGives
    <3> QED
      BY <1>2, <3>1, <3>2, WhoIsAt
      DEF At, Running, Local, Stay, Goto, InstLabels, CoreInv, LabelsInv
  <2> QED
    BY <1>1, <2>1, <2>2
<1>4. Uproc \subseteq PCB /\ Shell \in Uproc
  BY ProcAssumption DEF Uproc
<1>5. pc[Inst] # "header" /\ pc'[Inst] = pc[Inst]
  BY <1>3, ProcAssumption DEF CoreInv, ActiveInv, Uproc
<1> SUFFICES ASSUME ShellLives'
             PROVE  \E N, P \in [Node -> Node], F \in SUBSET Support : Listed(N, P, F)'
  BY DEF ExactInv
<1>6. ShellLives
  BY <1>3, <1>4, <1>5 DEF ShellLives, Starting
<1>7. PICK N \in [Node -> Node], P \in [Node -> Node], F \in SUBSET Support : Listed(N, P, F)
  BY <1>6 DEF ExactInv
<1>8. /\ 0 \in Node /\ Support \subseteq Node /\ 0 \notin Support
      /\ next \in [Node -> Node] /\ prev \in [Node -> Node] /\ nextArg \in [PCB -> Node]
  BY NodeFacts DEF SupportsInv
<1>9. Prepared = newSup /\ Prepared' = newSup'
  <2>1. pc[Shell] \in TakenLabels => p = Shell
    <3>1. TakenLabels \subseteq ListLabels
      BY DEF TakenLabels, ListLabels
    <3> QED
      BY <1>3, <1>4, <1>7, <3>1, OthersOut DEF Listed
  <2>2. pc'[Shell] \in TakenLabels => p = Shell
    BY <1>3, <1>4, <2>1
  <2> QED
    BY <1>3, <2>1, <2>2 DEF Prepared
<1>10. x \in Support \ F
  <2>1. CASE ls = ExecuteGives
    <3>1. x = newSup
      BY <2>1 DEF Gives, ExecuteGives, ProcessGives
    <3>2. newSup \in Support
      BY <1>3, <2>1 DEF SupportsInv, NewLabels
    <3> QED
      BY <1>7, <1>9, <3>1, <3>2 DEF Listed, OwnedOnce
  <2>2. CASE ls = ProcessGives
    <3>1. x = sup[p]
      BY <2>2 DEF Gives, ExecuteGives, ProcessGives
    <3>2. x \in Support /\ Owns(p, x)
      BY <1>3, <3>1 DEF SupportsInv, Owns
    <3> QED
      BY <1>3, <1>7, <3>2 DEF Listed, OwnedOnce
  <2> QED
    BY <1>1, <2>1, <2>2
<1>11. /\ \A q \in Uproc : q # p => pc[q] \notin ListLabels
       /\ pc[p] = ls[1] => next = N /\ prev = P
       /\ pc[p] # ls[1] => Adding(p, x, ls, N, P)
  <2>1. LinksInv(N, P)
    BY <1>7 DEF Listed
  <2>2. \A q \in Uproc : q # p => pc[q] \notin ListLabels
    BY <1>3, <2>1, OthersOut
  <2>3. ls[1] \notin ListLabels /\ \A i \in {2, 3, 4, 5} : ls[i] \in ListLabels
    BY <1>1 DEF ListLabels, ExecuteGives, ProcessGives
  <2>4. pc[p] = ls[1] => next = N /\ prev = P
    BY <1>3, <2>1, <2>3, OthersOut
  <2>5. ASSUME pc[p] # ls[1] PROVE Adding(p, x, ls, N, P)
    <3>1. LinksAt(p, N, P)
      BY <1>3, <2>1, <2>3, <2>5 DEF LinksInv
    <3>2. CASE ls = ExecuteGives
      <4>1. x = newSup /\ pc[p] \in {"exAdd1", "exAdd2", "exAdd3", "exAdd4"}
        BY <1>3, <2>5, <3>2 DEF Gives, ExecuteGives, ProcessGives
      <4>2. ~Deleting(p, newSup, N, P) /\ ~Adding(p, sup[p], ProcessGives, N, P)
        BY <4>1 DEF Deleting, Adding, ProcessGives
      <4> QED
        BY <3>1, <3>2, <4>1, <4>2 DEF LinksAt
    <3>3. CASE ls = ProcessGives
      <4>1. x = sup[p] /\ pc[p] \in {"trAdd1", "trAdd2", "trAdd3", "trAdd4"}
        BY <1>3, <2>5, <3>3 DEF Gives, ExecuteGives, ProcessGives
      <4>2. ~Deleting(p, newSup, N, P) /\ ~Adding(p, newSup, ExecuteGives, N, P)
        BY <4>1 DEF Deleting, Adding, ExecuteGives
      <4> QED
        BY <3>1, <3>3, <4>1, <4>2 DEF LinksAt
    <3> QED
      BY <1>1, <3>2, <3>3
  <2> QED
    BY <2>2, <2>4, <2>5
<1>12. \/ pc[p] # ls[5] /\ pc'[p] # ls[6] /\ Adding(p, x, ls, N, P)'
       \/ /\ pc[p] = ls[5] /\ pc'[p] = ls[6]
          /\ next' = [[N EXCEPT ![x] = N[0]] EXCEPT ![0] = x]
          /\ prev' = [[P EXCEPT ![N[0]] = x] EXCEPT ![x] = 0]
  BY <1>1, <1>3, <1>8, <1>10, <1>11, AddSteps
<1>13. CASE pc[p] # ls[5] /\ pc'[p] # ls[6] /\ Adding(p, x, ls, N, P)'
  <2>1. newSup' = newSup /\ m \in ListLabels /\ m \notin {"trTlb", "trTerm"}
    <3>1. CASE ls = ExecuteGives
      BY <1>3, <1>13, <3>1 DEF Gives, Abandon, ExecuteGives, ProcessGives, ListLabels
    <3>2. CASE ls = ProcessGives
      BY <1>3, <1>13, <3>2 DEF Gives, ExecuteGives, ProcessGives, ListLabels
    <3> QED
      BY <1>1, <3>1, <3>2
  <2>2. LinksAt(p, N, P)'
    <3>1. CASE ls = ExecuteGives
      <4>1. newSup' = x
        BY <2>1, <3>1 DEF Gives, ExecuteGives, ProcessGives
      <4> QED
        BY <1>3, <1>13, <3>1, <4>1 DEF LinksAt
    <3>2. CASE ls = ProcessGives
      <4>1. sup'[p] = x
        BY <1>1, <3>2 DEF Gives, ExecuteGives, ProcessGives
      <4> QED
        BY <1>3, <1>13, <3>2, <4>1 DEF LinksAt
    <3> QED
      BY <1>1, <3>1, <3>2
  <2>3. LinksInv(N, P)'
    BY <1>3, <1>11, <2>1, <2>2, LinksMoved
  <2>4. \A q \in Uproc : pc'[q] \in {"trTlb", "trTerm"} <=> pc[q] \in {"trTlb", "trTerm"}
    BY <1>3, <1>4, <2>1
  <2>5. OwnedOnce(F)'
    BY <1>1, <1>7, <1>9, <2>1, <2>4, OwnersStay DEF Listed
  <2> QED
    BY <1>7, <2>3, <2>5 DEF Listed
<1>14. CASE /\ pc[p] = ls[5] /\ pc'[p] = ls[6]
            /\ next' = [[N EXCEPT ![x] = N[0]] EXCEPT ![0] = x]
            /\ prev' = [[P EXCEPT ![N[0]] = x] EXCEPT ![x] = 0]
  <2> DEFINE M == [[N EXCEPT ![x] = N[0]] EXCEPT ![0] = x]
             Q == [[P EXCEPT ![N[0]] = x] EXCEPT ![x] = 0]
             G == F \cup {x}
  <2>1. Ring(M, Q, G)
    BY <1>7, <1>10, RingAdd DEF Listed
  <2>2. M \in [Node -> Node] /\ Q \in [Node -> Node] /\ G \in SUBSET Support
    BY <1>8, <1>10
  <2>3. next' = M /\ prev' = Q
    BY <1>14
  <2> HIDE DEF M, Q
  <2>4. m \notin ListLabels
    BY <1>1, <1>3, <1>14 DEF ExecuteGives, ProcessGives, ListLabels
  <2>5. LinksInv(M, Q)'
    BY <1>3, <1>11, <2>3, <2>4, LinksMoved
  <2>6. OwnedOnce(G)'
    <3>1. OwnedOnce(F)
      BY <1>7 DEF Listed
    <3> HIDE DEF G
    <3>2. CASE ls = ExecuteGives
      <4>1. newSup = x /\ newSup' = 0 /\ pc[p] = "exAdd4" /\ pc'[p] = "return"
        BY <1>14, <3>2 DEF Gives, Abandon, ExecuteGives, ProcessGives
      <4>2. \A q \in Uproc, s \in Support : Owns(q, s)' <=> Owns(q, s)
        BY <1>1, <1>3, <1>4, <4>1 DEF Owns
      <4>3. \A s \in G : s \in Support /\ (s \in F \/ s = x)
        BY <1>10 DEF G
      <4>4. F \subseteq G /\ x \in G
        BY DEF G
      <4> QED
        BY <1>8, <1>9, <1>10, <3>1, <4>1, <4>2, <4>3, <4>4 DEF OwnedOnce
    <3>3. CASE ls = ProcessGives
      <4>1. sup[p] = x /\ newSup' = newSup /\ pc[p] = "trAdd4" /\ pc'[p] = "trTlb"
        BY <1>14, <3>3 DEF Gives, ExecuteGives, ProcessGives
      <4>2. \A q \in Uproc, s \in Support : Owns(q, s)' <=> Owns(q, s) /\ q # p
        BY <1>1, <1>3, <1>4, <4>1 DEF Owns
      <4>3. \A s \in G : s \in Support /\ (s \in F \/ s = x)
        BY <1>10 DEF G
      <4>4. F \subseteq G /\ x \in G /\ Owns(p, x) /\ Prepared' = Prepared
        BY <1>9, <4>1 DEF G, Owns
      <4>5. \A s \in Support : s # x => ~Owns(p, s)
        BY <4>1 DEF Owns
      <4>6. Prepared # x /\ \A q \in Uproc : q # p => ~Owns(q, x)
        BY <1>3, <1>10, <3>1, <4>4 DEF OwnedOnce
      <4>7. \A s \in Support : s \in G \/ Prepared' = s \/ \E q \in Uproc : Owns(q, s)'
        <5> SUFFICES ASSUME NEW s \in Support, s \notin G, Prepared # s
                     PROVE  \E q \in Uproc : Owns(q, s)'
          BY <4>4
        <5>1. PICK q \in Uproc : Owns(q, s)
          BY <3>1, <4>4 DEF OwnedOnce
        <5>2. q # p
          BY <4>4, <4>5, <5>1
        <5> QED
          BY <4>2, <5>1, <5>2
      <4>8. \A s \in G : Prepared' # s /\ \A q \in Uproc : ~Owns(q, s)'
        BY <3>1, <4>2, <4>3, <4>4, <4>6 DEF OwnedOnce
      <4> QED
        BY <3>1, <4>2, <4>4, <4>7, <4>8 DEF OwnedOnce
    <3> QED
      BY <1>1, <3>2, <3>3
  <2>7. Listed(M, Q, G)'
    BY <2>1, <2>5, <2>6 DEF Listed
  <2> QED
    BY <2>2, <2>7
<1> QED
  BY <1>12, <1>13, <1>14

\* A new process owns the structure that was prepared for it.
LEMMA ExactCreates ==
  ASSUME CoreInv, SupportsInv, ExactInv, NEW p \in PCB,
         NEW m, \/ At(p, "header") /\ m = "shellEnd"
                \/ At(p, "exStat") /\ m = "exWait",
         NEW q \in Uproc, pc[q] = "none", q = Shell <=> pc[p] = "header",
         CREATEPROCESS(p, q, newSup, m), newSup' = 0, UNCHANGED <<listVars, panic>>
  PROVE  ExactInv'
<1>1. /\ pc[p] \in {"header", "exStat"} /\ m \in {"shellEnd", "exWait"}
      /\ ~panic /\ pc \in [PCB -> Labels] /\ Running(p)
      /\ pc[p] = "header" => p = Inst
      /\ pc[p] = "exStat" => p = Shell
  BY WhoIsAt DEF At, Running, InstLabels, ExLabels, CoreInv, LabelsInv
<1>2. p # q /\ q \in PCB /\ Uproc \subseteq PCB /\ Shell \in Uproc
  BY <1>1, ProcAssumption DEF Uproc
<1>3. /\ pc'[p] = m /\ pc'[q] = "user" /\ \A r \in PCB \ {p, q} : pc'[r] = pc[r]
      /\ sup' = [sup EXCEPT ![q] = newSup] /\ UNCHANGED <<next, prev, nextArg, prevArg>>
  BY <1>1, <1>2 DEF CREATEPROCESS, listVars
<1>4. ShellLives /\ newSup \in Support
  <2>1. CASE pc[p] = "header"
    <3>1. Starting /\ UPROCMAX \in Support
      BY <1>1, <2>1, SizeAssumption DEF Starting, Support
    <3> QED
      BY <3>1 DEF SupportsInv, ShellLives
  <2>2. CASE pc[p] = "exStat"
    <3>1. pc[Shell] \in NewLabels /\ pc[Shell] # "none"
      BY <1>1, <2>2 DEF AsidLabels, NewLabels
    <3> QED
      BY <3>1 DEF SupportsInv, ShellLives
  <2> QED
    BY <1>1, <2>1, <2>2
<1>5. PICK N \in [Node -> Node], P \in [Node -> Node], F \in SUBSET Support : Listed(N, P, F)
  BY <1>4 DEF ExactInv
<1>6. /\ \A r \in Uproc : pc[r] \notin ListLabels
      /\ next = N /\ prev = P
  <2>1. pc[p] \notin ListLabels
    BY <1>1 DEF ListLabels
  <2> QED
    BY <1>1, <1>5, <2>1, OthersOut DEF Listed
<1>7. /\ \A r \in Uproc : pc'[r] \notin ListLabels
      /\ \A r \in Uproc : pc'[r] \in {"trTlb", "trTerm"} <=> pc[r] \in {"trTlb", "trTerm"}
  <2>1. {m, "user", pc[p], "none"} \cap (ListLabels \cup {"trTlb", "trTerm"}) = {}
    BY <1>1 DEF ListLabels
  <2> QED
    BY <1>2, <1>3, <1>6, <2>1
<1>8. LinksInv(N, P)'
  BY <1>3, <1>6, <1>7 DEF LinksInv
<1>9. Prepared = newSup /\ Prepared' = 0
  <2>1. TakenLabels \subseteq ListLabels
    BY DEF TakenLabels, ListLabels
  <2> QED
    BY <1>2, <1>6, <1>7, <2>1 DEF Prepared
<1>10. ASSUME NEW r \in Uproc, NEW s \in Support
       PROVE  Owns(r, s)' <=> Owns(r, s) \/ (r = q /\ s = newSup)
  <2>1. sup \in [PCB -> 0 .. UPROCMAX] /\ sup[q] = 0 /\ r \in PCB
    BY <1>2 DEF SupportsInv
  <2>2. CASE r = q
    BY <1>2, <1>3, <2>1, <2>2, NodeFacts DEF Owns
  <2>3. CASE r # q
    BY <1>2, <1>3, <1>7, <2>1, <2>3 DEF Owns
  <2> QED
    BY <2>2, <2>3
<1>11. OwnedOnce(F)'
  <2>1. OwnedOnce(F)
    BY <1>5 DEF Listed
  <2> QED
    BY <1>4, <1>9, <1>10, <2>1, NodeFacts DEF OwnedOnce
<1>12. Listed(N, P, F)'
  BY <1>5, <1>8, <1>11 DEF Listed
<1> QED
  BY <1>5, <1>12 DEF ExactInv

\* Who dies has given its structure back, unless the shell dies too.
LEMMA ExactEnds ==
  ASSUME CoreInv, SupportsInv, ExactInv, NEW p \in PCB, At(p, "trTerm") \/ At(p, "halt"),
         TERMPROCESS(p)
  PROVE  ExactInv'
<1> SUFFICES ASSUME ShellLives'
             PROVE  \E N, P \in [Node -> Node], F \in SUBSET Support : Listed(N, P, F)'
  BY DEF ExactInv
<1> DEFINE D == Offspring(p)
<1>1. /\ pc[p] \in {"trTerm", "halt"} /\ Running(p)
      /\ Uproc \subseteq PCB /\ Shell \in Uproc /\ Inst \in PCB
      /\ pc[p] = "halt" => p = Inst
  BY WhoIsAt, ProcAssumption DEF Uproc, At, InstLabels, Running
<1>2. /\ pc' = [q \in PCB |-> IF q \in D THEN "none" ELSE pc[q]]
      /\ sup' = [q \in PCB |-> IF q \in D THEN 0 ELSE sup[q]]
      /\ UNCHANGED <<newSup, next, prev>>
  BY DEF TERMPROCESS
<1>3. pc[Inst] # "header"
  <2>1. pc[Inst] = "header" => p = Inst
    BY <1>1, ProcAssumption DEF CoreInv, ActiveInv, Uproc
  <2> QED
    BY <1>1, <2>1
<1>4. Shell \notin D /\ pc[Shell] # "none"
  <2>1. ~Starting'
    BY <1>1, <1>2, <1>3 DEF Starting
  <2> QED
    BY <1>1, <1>2, <2>1 DEF ShellLives
<1>5. D = {p} /\ pc[p] = "trTerm"
  <2>1. p # Inst /\ p # Shell
    BY <1>1, <1>4 DEF Offspring, Live, Uproc
  <2> QED
    BY <1>1, <2>1 DEF Offspring
<1> HIDE DEF D
<1>6. /\ pc'[p] = "none" /\ sup'[p] = 0
      /\ \A q \in PCB : q # p => pc'[q] = pc[q] /\ sup'[q] = sup[q]
  BY <1>2, <1>5
<1>7. PICK N \in [Node -> Node], P \in [Node -> Node], F \in SUBSET Support : Listed(N, P, F)
  BY <1>4 DEF ExactInv, ShellLives
<1>8. (\A q \in Uproc : pc[q] \notin ListLabels) /\ next = N /\ prev = P
  <2>1. pc[p] \notin ListLabels
    BY <1>5 DEF ListLabels
  <2> QED
    BY <1>1, <1>7, <2>1, OthersOut DEF Listed
<1>9. \A q \in Uproc : pc'[q] \notin ListLabels
  <2>1. "none" \notin ListLabels
    BY DEF ListLabels
  <2> QED
    BY <1>1, <1>6, <1>8, <2>1
<1>10. LinksInv(N, P)'
  BY <1>2, <1>8, <1>9 DEF LinksInv
<1>11. Prepared' = Prepared
  <2>1. TakenLabels \subseteq ListLabels
    BY DEF TakenLabels, ListLabels
  <2> QED
    BY <1>1, <1>2, <1>8, <1>9, <2>1 DEF Prepared
<1>12. ASSUME NEW q \in Uproc, NEW s \in Support PROVE Owns(q, s)' <=> Owns(q, s)
  BY <1>1, <1>5, <1>6, NodeFacts DEF Owns
<1>13. OwnedOnce(F)'
  <2>1. OwnedOnce(F) /\ \A s \in F : s \in Support
    BY <1>7 DEF Listed
  <2> QED
    BY <1>11, <1>12, <2>1 DEF OwnedOnce
<1> QED
  BY <1>7, <1>10, <1>13 DEF Listed

\* Handlers that have nothing to do with the list.
LEMMA ExactApart ==
  ASSUME CoreInv, SupportsInv, ExactInv, NEW p \in PCB, Apart(p)
  PROVE  ExactInv'
<1>1. PICK m : ApartTo(p, m)
  BY ApartSteps
<1> QED
  BY <1>1, ExactMoved DEF ApartTo, CoreInv, LabelsInv

\* Every step keeps the list, if none of its operations is preempted.
LEMMA NextExact ==
  ASSUME ListsPreempted = FALSE, CoreInv, SupportsInv, ExactInv, [Next]_vars
  PROVE  ExactInv'
<1>1. ASSUME NEW p \in PCB, test(p) PROVE ExactInv'
  <2>1. CASE At(p, "header")
    <3>1. p = Inst /\ pc[Inst] = "header" /\ Shell \in Uproc /\ pc[p] = "header"
      BY <2>1, WhoIsAt, ProcAssumption DEF InstLabels, Uproc, At
    <3>2. pc[Shell] = "none"
      BY <3>1 DEF CoreInv, ActiveInv
    <3>3. newSup' = 0 /\ UNCHANGED listVars
      BY <1>1, <3>1 DEF test, At
    <3>4. CASE CREATEPROCESS(p, Shell, newSup, "shellEnd") /\ UNCHANGED panic
      BY <2>1, <3>1, <3>2, <3>3, <3>4, ExactCreates
    <3>5. CASE panic' = TRUE /\ UNCHANGED <<pc, procVars, semVars, cpuVars>>
      BY <3>2, <3>5 DEF ExactInv, ShellLives, Starting
    <3> QED
      BY <1>1, <3>1, <3>4, <3>5 DEF test, At
  <2>2. CASE At(p, "shellEnd")
    BY <1>1, <2>2, ExactApart DEF At, Apart
  <2>3. CASE At(p, "halt") /\ TERMPROCESS(p)
    BY <2>3, ExactEnds
  <2> QED
    BY <1>1, <2>1, <2>2, <2>3 DEF test
<1>2. ASSUME NEW p \in PCB, EXECUTE(p) PROVE ExactInv'
  <2>1. CASE Starts(p)
    <3>1. PICK q \in Child : pc[q] = "none" /\ CREATEPROCESS(p, q, newSup, "exWait")
      BY <2>1 DEF Starts, StartProgram
    <3>2. q \in Uproc /\ q # Shell /\ pc[p] = "exStat"
      BY <2>1 DEF Child, Starts, At
    <3>3. At(p, "exStat") /\ newSup' = 0 /\ UNCHANGED <<listVars, panic>>
      BY <2>1 DEF Starts
    <3> QED
      BY <3>1, <3>2, <3>3, ExactCreates
  <2>2. CASE Abandon(p)
    <3>1. PICK x : x = newSup
      OBVIOUS
    <3>2. Gives(p, x, ExecuteGives)
      BY <2>2, <3>1 DEF Gives
    <3> QED
      BY <3>2, ExactGives
  <2> QED
    BY <1>2, <2>1, <2>2, ExactApart, ExactTakes DEF Apart
<1>3. ASSUME NEW p \in PCB, ProgramTrapHandler(p) PROVE ExactInv'
  <2>1. CASE pc[p] = "trTerm"
    <3>1. At(p, "trTerm") /\ TERMPROCESS(p)
      BY <1>3, <2>1 DEF ProgramTrapHandler, At, deallocateSupport, ProcessGives
    <3> QED
      BY <3>1, ExactEnds
  <2>2. CASE deallocateSupport(p, sup[p], ProcessGives)
    <3>1. UNCHANGED <<procVars, newSup, panic>>
      BY <1>3, <2>2, ListPlaces DEF ProgramTrapHandler, At
    <3>2. PICK x : x = sup[p]
      OBVIOUS
    <3>3. Gives(p, x, ProcessGives)
      BY <2>2, <3>1, <3>2 DEF Gives
    <3> QED
      BY <3>3, ExactGives
  <2> QED
    BY <1>3, <2>1, <2>2, ExactApart DEF Apart
<1>4. ASSUME NEW p \in PCB, Handler(p) PROVE ExactInv'
  BY <1>1, <1>2, <1>3, <1>4, ExactApart DEF Handler, Apart
<1>5. ASSUME NEW p \in PCB, IoDone(p) \/ PLTInterrupt(p) PROVE ExactInv'
  <2>1. UNCHANGED <<pc, sup, newSup, listVars, panic>>
    BY <1>5 DEF IoDone, PLTInterrupt, procVars, callVars
  <2>2. ShellLives' <=> ShellLives
    BY <2>1 DEF ShellLives, Starting
  <2>3. ASSUME NEW q \in Uproc, pc[q] \in ListLabels, currProc = q PROVE currProc' = q
    <3>1. CASE IoDone(p)
      BY <2>3, <3>1, ProcAssumption DEF IoDone, MakeReady, Uproc
    <3>2. CASE PLTInterrupt(p)
      BY <2>3, <3>2 DEF PLTInterrupt, Running
    <3> QED
      BY <1>5, <3>1, <3>2
  <2> QED
    BY <2>1, <2>2, <2>3, ExactKept
<1>6. ASSUME NEW p \in Uproc, PageFault(p) \/ GeneralExceptionHandler(p) PROVE ExactInv'
  BY <1>6, ExactApart DEF Uproc, Apart
<1>7. CASE UNCHANGED vars
  <2>1. UNCHANGED <<pc, sup, newSup, listVars, panic, currProc>>
    BY <1>7 DEF vars, procVars, callVars, cpuVars
  <2> QED
    BY <2>1, ExactKept DEF ShellLives, Starting
<1> QED
  BY <1>4, <1>5, <1>6, <1>7 DEF Next, Stopped

\* Initially the list has all structures but the shell's, from the last one down.
LEMMA ExactInit == Init => ExactInv
<1> SUFFICES ASSUME Init PROVE ExactInv
  OBVIOUS
<1> DEFINE F == 1 .. UPROCMAX - 1
<1>1. /\ pc = [p \in PCB |-> IF p = Inst THEN "header" ELSE "none"]
      /\ sup = [p \in PCB |-> 0] /\ newSup = UPROCMAX
      /\ next = [n \in Node |-> IF n = UPROCMAX THEN n
                                ELSE IF n = 0 THEN UPROCMAX - 1 ELSE n - 1]
      /\ prev = [n \in Node |-> IF n = UPROCMAX THEN n
                                ELSE IF n = UPROCMAX - 1 THEN 0 ELSE n + 1]
  BY DEF Init
<1>2. /\ UPROCMAX \in Nat /\ UPROCMAX >= 1 /\ Node = 0 .. UPROCMAX /\ Support = 1 .. UPROCMAX
      /\ F \in SUBSET Support
  BY SizeAssumption DEF Node, Support, supStructs_freeList
<1>3. next \in [Node -> Node] /\ prev \in [Node -> Node]
  BY SupportsInit DEF SupportsInv
<1>4. ASSUME NEW n \in F \cup {0}
      PROVE  /\ next[n] \in F \cup {0} /\ prev[n] \in F \cup {0}
             /\ prev[next[n]] = n /\ next[prev[n]] = n
  <2>1. F \cup {0} = 0 .. UPROCMAX - 1
    BY <1>2
  <2>2. /\ n \in 0 .. UPROCMAX - 1
        /\ next[n] = IF n = 0 THEN UPROCMAX - 1 ELSE n - 1
        /\ prev[n] = IF n = UPROCMAX - 1 THEN 0 ELSE n + 1
    BY <1>1, <1>2, <2>1
  <2>3. next[n] \in 0 .. UPROCMAX - 1 /\ prev[n] \in 0 .. UPROCMAX - 1
    BY <1>2, <2>2
  <2>4. /\ prev[next[n]] = IF next[n] = UPROCMAX - 1 THEN 0 ELSE next[n] + 1
        /\ next[prev[n]] = IF prev[n] = 0 THEN UPROCMAX - 1 ELSE prev[n] - 1
    BY <1>1, <1>2, <2>3
  <2> QED
    BY <1>2, <2>1, <2>2, <2>3, <2>4
<1>5. ASSUME NEW T \in SUBSET Node, 0 \in T, \A n \in T : next[n] \in T
      PROVE  F \subseteq T
  <2> DEFINE K == {k \in Nat : UPROCMAX - 1 - k \in F \ T}
  <2> SUFFICES ASSUME NEW s \in F, s \notin T PROVE FALSE
    OBVIOUS
  <2>1. UPROCMAX - 1 - s \in K
    BY <1>2
  <2>2. PICK k \in K : \A j \in K : k <= j
    BY <2>1, Least
  <2>3. k \in Nat /\ UPROCMAX - 1 - k \in F /\ UPROCMAX - 1 - k \notin T
    OBVIOUS
  <2> HIDE DEF K
  <2>4. next[0] = UPROCMAX - 1 /\ next[0] \in T
    <3>1. 0 \in Node /\ 0 # UPROCMAX
      BY <1>2
    <3>2. next[0] = UPROCMAX - 1
      BY <1>1, <3>1
    <3> QED
      BY <1>5, <3>2
  <2>5. k # 0 /\ k - 1 \in Nat
    BY <1>2, <2>3, <2>4
  <2>6. k - 1 \notin K
    BY <2>2, <2>3, <2>5
  <2>7. UPROCMAX - 1 - (k - 1) \in F
    BY <1>2, <2>3, <2>5
  <2>8. UPROCMAX - 1 - (k - 1) \in T
    BY <2>5, <2>6, <2>7 DEF K
  <2>9. next[UPROCMAX - 1 - (k - 1)] = UPROCMAX - 1 - k
    BY <1>1, <1>2, <2>3, <2>7
  <2> QED
    BY <1>5, <2>3, <2>8, <2>9
<1>6. Ring(next, prev, F)
  BY <1>4, <1>5 DEF Ring
<1>7. \A p \in Uproc : pc[p] = "none" /\ sup[p] = 0
  BY <1>1 DEF Uproc
<1>8. LinksInv(next, prev)
  BY <1>7 DEF LinksInv, ListLabels
<1>9. OwnedOnce(F)
  <2>1. Prepared = UPROCMAX /\ \A p \in Uproc, s \in Support : ~Owns(p, s)
    BY <1>1, <1>2, <1>7, ProcAssumption DEF Prepared, Owns, TakenLabels, Uproc
  <2> QED
    BY <1>2, <2>1 DEF OwnedOnce
<1>10. Listed(next, prev, F)
  BY <1>6, <1>8, <1>9 DEF Listed
<1> QED
  BY <1>2, <1>3, <1>10 DEF ExactInv

-----------------------------------------------------------------------------
(* The theorems *)

\* The invariant holds: where everyone is in the code and in the queues, who may
\* be active, what everyone holds, whose the support structures and the frames are.
THEOREM Invariant == Spec => []IInv
<1>1. Init => IInv
  <2>1. Init => TimerInv
    <3>1. Init => slice = SliceSteps /\ panic = FALSE /\ io = {Inst} /\ pc[Inst] = "header"
      BY ProcAssumption DEF Init
    <3>2. SliceSteps \in 0 .. SliceSteps
      BY SizeAssumption
    <3> QED
      BY <3>1, <3>2 DEF TimerInv, IoLabels
  <2> QED
    BY <2>1, CoreInit, SupportsInit, FramesInit DEF IInv, CoreInv
<1>2. IInv /\ [Next]_vars => IInv'
  BY NextCore, NextSupports, NextFrames, NextTimer DEF IInv, CoreInv
<1> QED
  BY <1>1, <1>2, PTL DEF Spec

\* A set without two elements has none or one.
LEMMA AtMostOne ==
  ASSUME NEW S, \A x, y \in S : x = y
  PROVE  /\ S = {} => Cardinality(S) = 0
         /\ S # {} => Cardinality(S) = 1
<1>1. S # {} => \E x : S = {x}
  OBVIOUS
<1> QED
  BY <1>1, FS_EmptySet, FS_Singleton

\* What a process is inside of is what it holds.
LEMMA InsideHeld ==
  ASSUME CoreInv, NEW p \in PCB, NEW s \in Mutex
  PROVE  Inside(p, s) <=> s \in Held(p)
<1>1. Inside(p, s) => p \notin Blocked
  BY DEF Inside, Blocked
<1>2. s \in Held(p) => p \notin Blocked
  BY DEF Held
<1>3. ASSUME p \notin Blocked
      PROVE  /\ Held(p) = Keeps(pc[p], ret[p]) \cup FlashHeld(p)
             /\ ~Waits(p)
  BY <1>3 DEF Held, Own, Blocked
<1>4. \A a : Flash(a) \notin Keeps(pc[p], ret[p])
  BY SemFacts DEF Keeps
<1>5. Swap \notin FlashHeld(p) /\ Transm \notin FlashHeld(p) /\ Recv \notin FlashHeld(p)
  BY SemFacts DEF FlashHeld, KeepsFlash
<1>6. CASE s = Swap
  BY <1>1, <1>2, <1>3, <1>5, <1>6, SemFacts DEF Inside, Keeps
<1>7. CASE s = Transm
  BY <1>1, <1>2, <1>3, <1>5, <1>7, SemFacts DEF Inside, Keeps
<1>8. CASE s = Recv
  BY <1>1, <1>2, <1>3, <1>5, <1>8, SemFacts DEF Inside, Keeps
<1>9. CASE s \notin {Swap, Transm, Recv}
  <2>1. s \notin Keeps(pc[p], ret[p])
    BY <1>9 DEF Keeps
  <2>2. s \in FlashHeld(p) <=>
           \/ pc[p] \in {"pgWr", "pgWrV"} /\ s = Flash(swapPool[frame[p]])
           \/ pc[p] \in {"pgRd", "pgRdV"} /\ s = Flash(sup_asid[sup[p]])
           \/ pc[p] \in {"exRead", "exV"} /\ s = Flash(sup_asid[newSup])
    BY DEF FlashHeld, KeepsFlash
  <2> QED
    BY <1>1, <1>2, <1>3, <1>9, <2>1, <2>2 DEF Inside
<1> QED
  BY <1>6, <1>7, <1>8, <1>9

\* No two processes hold a mutex.
LEMMA HeldByOne ==
  ASSUME CoreInv, NEW s \in Mutex, NEW p \in PCB, NEW q \in PCB, s \in Held(p), s \in Held(q)
  PROVE  p = q
<1>1. CASE s = Transm
  BY <1>1 DEF CoreInv, MutexInv
<1>2. CASE s # Transm
  <2>1. ASSUME NEW r \in PCB, s \in Held(r) PROVE Busy(r)
    <3>1. pc[r] \in InnerLabels
      BY <1>2, <2>1, KeepsFacts DEF Held, Own, FlashHeld
    <3>2. r # Inst
      BY <3>1 DEF CoreInv, LabelsInv, InnerLabels, PagerLabels, InstLabels
    <3>3. pc[r] \notin Gone /\ pc[r] # "exWait" /\ pc[r] # "return"
      BY <3>1 DEF InnerLabels, PagerLabels, Gone
    <3>4. Shell \in Elems(s_procq[ShellSem]) => pc[Shell] = "return"
      BY SemFacts DEF CoreInv, QueuesInv, WaitsAt
    <3> QED
      BY <3>2, <3>3, <3>4 DEF Busy, Asleep, Uproc
  <2>2. Busy(p) /\ Busy(q)
    BY <2>1
  <2> QED
    BY <2>2 DEF Busy, CoreInv, ActiveInv, Child
<1> QED
  BY <1>1, <1>2

\* Mutual exclusion; and every mutex but the transmitter's is free whenever
\* nobody is inside, whatever path the process left by.
THEOREM MutexExactHolds == Spec => []MutexExact
<1>1. IInv => MutexExact
  <2> SUFFICES ASSUME IInv PROVE MutexExact
    OBVIOUS
  <2>1. CoreInv
    BY DEF IInv, CoreInv
  <2> DEFINE In(s) == {p \in PCB : Inside(p, s)}
  <2>2. ASSUME NEW s \in Mutex
        PROVE  /\ \A x, y \in In(s) : x = y
               /\ In(s) # {} <=> \E p \in PCB : s \in Held(p)
    BY <2>1, <2>2, InsideHeld, HeldByOne
  <2>3. ASSUME NEW s \in Mutex
        PROVE  Users(s) = IF \E p \in PCB : s \in Held(p) THEN 1 ELSE 0
    BY <2>2, <2>3, AtMostOne DEF Users
  <2>4. \A s \in Mutex : sem[s] \in {0, 1}
    BY <2>1, SemFacts DEF CoreInv, MutexInv
  <2>5. \A s \in Mutex \ {Transm} : sem[s] + Users(s) = 1
    BY <2>1, <2>3, <2>4 DEF CoreInv, MutexInv
  <2>6. sem[Transm] + Users(Transm) <= 1
    BY <2>1, <2>3, <2>4, SemFacts DEF CoreInv, MutexInv
  <2> QED
    BY <2>5, <2>6 DEF MutexExact
<1> QED
  BY <1>1, Invariant, PTL

\* If no time slice ends inside an operation on the free list, no support structure
\* is lost or used twice while the shell lives, and the list is sound.
THEOREM SupportsExactHolds ==
  ASSUME ListsPreempted = FALSE
  PROVE  Spec => []SupportsExact
<1>1. IInv /\ ExactInv => SupportsExact
  <2> SUFFICES ASSUME IInv, ExactInv, pc[Shell] # "none", Quiet PROVE
         /\ \A s \in Support :
              (IF s \in FreeStructs THEN 1 ELSE 0) + Cardinality(UsersOf(s))
                + (IF newSup = s THEN 1 ELSE 0) = 1
         /\ \A n \in FreeStructs \cup {supStructs_freeList} :
              prev[next[n]] = n /\ next[prev[n]] = n
    BY DEF SupportsExact
  <2>1. PICK N \in [Node -> Node], P \in [Node -> Node], F \in SUBSET Support : Listed(N, P, F)
    BY DEF ExactInv, ShellLives
  <2>2. next = N /\ prev = P
    BY <2>1 DEF Listed, LinksInv
  <2>3. FreeStructs = F
    BY <2>1, <2>2, RingFree DEF Listed
  <2>4. \A n \in FreeStructs \cup {supStructs_freeList} : prev[next[n]] = n /\ next[prev[n]] = n
    BY <2>1, <2>2, <2>3, NodeFacts DEF Listed, Ring
  <2>5. Prepared = newSup
    BY ProcAssumption DEF Prepared, Quiet, TakenLabels, ListLabels, Uproc
  <2>6. ASSUME NEW s \in Support
        PROVE  (IF s \in F THEN 1 ELSE 0) + Cardinality(UsersOf(s))
                 + (IF newSup = s THEN 1 ELSE 0) = 1
    <3>1. OwnedOnce(F)
      BY <2>1 DEF Listed
    <3>2. UsersOf(s) # {} <=> \E p \in Uproc : Owns(p, s)
      BY DEF UsersOf, Owns
    <3>3. \A x, y \in UsersOf(s) : x = y
      BY <3>1 DEF OwnedOnce, Owns, UsersOf
    <3>4. Cardinality(UsersOf(s)) = IF \E p \in Uproc : Owns(p, s) THEN 1 ELSE 0
      BY <3>2, <3>3, AtMostOne
    <3> QED
      BY <2>5, <3>1, <3>4 DEF OwnedOnce
  <2> QED
    BY <2>3, <2>4, <2>6
<1>2. IInv /\ ExactInv /\ [Next]_vars => ExactInv'
  BY NextExact DEF IInv, CoreInv
<1> QED
  BY <1>1, <1>2, ExactInit, Invariant, PTL DEF Spec

\* A frame is registered only to a process that has not yet freed its frames.
THEOREM FramesOwnedHolds == Spec => []FramesOwned
<1>1. IInv => FramesOwned
  BY DEF IInv, FramesInv
<1> QED
  BY <1>1, Invariant, PTL

\* While a program may use the terminal or the pager, the shell waits for it.
THEOREM OneActiveHolds == Spec => []OneActive
<1>1. LeavingLabels \cup {"none"} = Gone
  BY DEF LeavingLabels, DyingLabels, Gone
<1>2. IInv => OneActive
  BY <1>1 DEF IInv, ActiveInv, OneActive, Asleep
<1> QED
  BY <1>2, Invariant, PTL

\* No two processes with one ASID, if a slice is enough for the steps that a dead
\* program has left.
THEOREM AsidExclusiveHolds ==
  ASSUME SliceSteps >= 7
  PROVE  Spec => []AsidExclusive
<1>1. Init => LeaversInv
  BY ProcAssumption DEF Init, LeaversInv, Child, Uproc
<1>2. IInv /\ LeaversInv /\ [Next]_vars => LeaversInv'
  BY NextLeavers DEF IInv, CoreInv
<1>3. IInv /\ LeaversInv => AsidExclusive
  <2> SUFFICES ASSUME IInv, LeaversInv, NEW p \in Uproc, NEW q \in Uproc,
                      p # q, pc[p] # "none", pc[q] # "none"
               PROVE  asid[p] # asid[q]
    BY DEF AsidExclusive
  <2>1. p \notin Child \/ q \notin Child
    BY DEF LeaversInv
  <2>2. \A r \in Uproc : pc[r] # "none" => asid[r] \in IF r = Shell THEN {1} ELSE Program
    BY DEF IInv, SupportsInv, Child
  <2>3. 1 \notin Program
    BY DEF Program
  <2> QED
    BY <2>1, <2>2, <2>3 DEF Child
<1> QED
  BY <1>1, <1>2, <1>3, Invariant, PTL DEF Spec

\* The places of a process are where it runs, is ready, or waits.
LEMMA PlacesOf ==
  ASSUME NEW p \in PCB, NEW x
  PROVE  x \in Places(p) <=>
           \/ x = <<"running", 0>> /\ p = currProc
           \/ x = <<"ready", 0>> /\ p \in Elems(readyQueue)
           \/ x = <<"io", 0>> /\ p \in io
           \/ x \in Sem /\ p \in Elems(s_procq[x])
<1>1. \A s \in Sem : s[1] \notin {"running", "ready", "io"}
  BY DEF Sem, Mutex, Flash, Transm, Recv, Swap, ShellSem, MasterSem
<1>2. ASSUME x \in Sem PROVE x \in Places(p) <=> p \in Elems(s_procq[x])
  BY <1>1, <1>2 DEF Places
<1>3. CASE x \notin Sem
  <2>1. x \in Places(p) <=>
          /\ x \in {"running", "ready", "io"} \X {0}
          /\ x[1] = "running" => p = currProc
          /\ x[1] = "ready" => p \in Elems(readyQueue)
          /\ x[1] = "io" => p \in io
    BY <1>3 DEF Places
  <2> QED
    BY <1>3, <2>1
<1>4. CASE x \in Sem
  <2>1. x # <<"running", 0>> /\ x # <<"ready", 0>> /\ x # <<"io", 0>>
    BY <1>1, <1>4
  <2> QED
    BY <1>2, <1>4, <2>1
<1> QED
  BY <1>3, <1>4

\* The types, and that a process is in exactly one place.
THEOREM TypeOKHolds == Spec => []TypeOK
<1>1. IInv => TypeOK
  <2> SUFFICES ASSUME IInv PROVE TypeOK
    OBVIOUS
  <2>1. /\ pc \in [PCB -> Labels] /\ ret \in [PCB -> {"user", "txLoop", "rxStore"}]
        /\ sup \in [PCB -> 0 .. UPROCMAX] /\ asid \in [PCB -> 0 .. UPROCMAX]
        /\ frame \in [PCB -> 0 .. POOLSIZE - 1] /\ fifo_ptr \in 0 .. POOLSIZE - 1
        /\ newSup \in 0 .. UPROCMAX /\ sup_asid \in [Support -> 0 .. UPROCMAX]
        /\ next \in [Node -> Node] /\ prev \in [Node -> Node]
        /\ nextArg \in [PCB -> Node] /\ prevArg \in [PCB -> Node]
        /\ sem \in [Sem -> {0, 1}]
        /\ page_mutex_holder \in -1 .. UPROCMAX
        /\ io \in SUBSET PCB /\ slice \in 0 .. SliceSteps /\ panic \in BOOLEAN
        /\ currProc \in PCB \cup {Null}
        /\ s_procq \in [Sem -> SUBSET (PCB \X PCB)]
    BY DEF IInv, LabelsInv, QueuesInv, MutexInv, SupportsInv, FramesInv, TimerInv
  <2>2. swapPool \in [0 .. POOLSIZE - 1 -> -1 .. UPROCMAX]
    <3>1. {-1} \cup Support \subseteq -1 .. UPROCMAX
      BY SizeAssumption DEF Support
    <3> QED
      BY <3>1 DEF IInv, FramesInv
  <2>3. readyQueue \in SUBSET (PCB \X PCB)
    BY DEF IInv, QueuesInv, IsQueue
  <2>4. ASSUME NEW p \in PCB
        PROVE  Cardinality(Places(p)) = IF pc[p] = "none" THEN 0 ELSE 1
    <3>1. QueuesInv /\ Null \notin PCB
      BY ProcAssumption DEF IInv
    <3>2. /\ p \in Runnable <=> p = currProc \/ p \in Elems(readyQueue)
          /\ ~(p = currProc /\ p \in Elems(readyQueue))
      BY <3>1 DEF Runnable, QueuesInv
    <3>3. p \in Blocked <=> \E s \in Sem : p \in Elems(s_procq[s])
      BY DEF Blocked, Waits
    <3>4. \A s, t \in Sem : p \in Elems(s_procq[s]) /\ p \in Elems(s_procq[t]) => s = t
      BY <3>1, <3>3, BlockedIn
    <3>5. pc[p] # "none" <=> p \in Runnable \/ p \in io \/ p \in Blocked
      BY <3>1 DEF QueuesInv, Live
    <3>6. /\ ~(p \in Runnable /\ p \in io) /\ ~(p \in Runnable /\ p \in Blocked)
          /\ ~(p \in io /\ p \in Blocked)
      BY <3>1 DEF QueuesInv
    <3>7. \A x, y \in Places(p) : x = y
      BY <3>2, <3>3, <3>4, <3>6, PlacesOf
    <3>8. Places(p) # {} <=> pc[p] # "none"
      <4>1. p = currProc => <<"running", 0>> \in Places(p)
        BY PlacesOf
      <4>2. p \in Elems(readyQueue) => <<"ready", 0>> \in Places(p)
        BY PlacesOf
      <4>3. p \in io => <<"io", 0>> \in Places(p)
        BY PlacesOf
      <4>4. \A s \in Sem : p \in Elems(s_procq[s]) => s \in Places(p)
        BY PlacesOf
      <4>5. pc[p] # "none" => Places(p) # {}
        BY <3>2, <3>3, <3>5, <4>1, <4>2, <4>3, <4>4
      <4>6. Places(p) # {} => pc[p] # "none"
        BY <3>2, <3>3, <3>5, PlacesOf
      <4> QED
        BY <4>5, <4>6
    <3> QED
      BY <3>7, <3>8, AtMostOne
  <2> QED
    BY <2>1, <2>2, <2>3, <2>4 DEF TypeOK
<1> QED
  BY <1>1, Invariant, PTL
=============================================================================
