---------------------------- MODULE SupportLevel ----------------------------
(***************************************************************************)
(* The support level of MultiPandOS (phase 3): the instantiator, the shell *)
(* and the programs it executes, one at a time; their system calls and     *)
(* program traps, and the control flow of the pager (module Pager has its  *)
(* data).  The handlers run in kernel mode with interrupts enabled, so a   *)
(* step ends at each system call to the nucleus and at each access to a    *)
(* variable that the processes share, each link of the list of the free    *)
(* support structures included.                                            *)
(*                                                                         *)
(* The nucleus appears as what it does to its callers (module Nucleus):    *)
(* PASSEREN, VERHOGEN, DOIO, CREATEPROCESS, TERMPROCESS and the queue of   *)
(* the processor.  What a program asks for, whether it finds its pages in  *)
(* memory, and the status of an I/O operation are arbitrary.               *)
(***************************************************************************)
EXTENDS Integers, Sequences, FiniteSets, ProcQueue

CONSTANTS
  Null,        \* the C null pointer
  Inst,        \* the PCB of the instantiator process
  Shell,       \* the PCB of the shell; the others are left for the programs
  UPROCMAX,    \* address spaces: 1 is the shell's, 2 .. UPROCMAX the programs'
  POOLSIZE,    \* frames of the swap pool
  SliceSteps,  \* steps of a handler that fit in any time slice
  ListsPreempted  \* whether a slice may end inside an operation on a list

Uproc == PCB \ {Inst}
Child == Uproc \ {Shell}
Support == 1 .. UPROCMAX              \* supStructs
Program == 2 .. UPROCMAX

\* The nodes of the free list: the s_list of each structure, and the head.
supStructs_freeList == 0
Node == Support \cup {supStructs_freeList}

\* The semaphores: devSemaphores[8 + a - 1], [40] and [32], and the three others.
Flash(a) == <<"flash", a>>
Transm == <<"transm", 0>>
Recv == <<"recv", 0>>
Swap == <<"swap", 0>>
ShellSem == <<"shell", 0>>
MasterSem == <<"master", 0>>
Mutex == {Flash(a) : a \in 1 .. UPROCMAX} \cup {Transm, Recv, Swap}
Sem == Mutex \cup {ShellSem, MasterSem}

ASSUME ProcAssumption == {Inst, Shell} \subseteq PCB /\ Inst # Shell /\ Null \notin PCB
ASSUME SizeAssumption == /\ UPROCMAX \in Nat \ {0} /\ POOLSIZE \in Nat \ {0}
                         /\ SliceSteps \in Nat /\ ListsPreempted \in BOOLEAN

VARIABLES
  pc,          \* process -> where it is; "none" when its PCB is free
  ret,         \* process -> where the page fault it is in, or died in, was
  sup,         \* process -> its support structure (0: none)
  asid,        \* process -> the ASID in its EntryHi, and of its handlers' stacks
  frame,       \* process -> frameIndex of its pager (0 outside)
  newSup,      \* newSupport of the shell's EXECUTE (0 outside)
  sup_asid,    \* support structure -> sup_asid
  next, prev,  \* the links of each node
  nextArg,     \* process -> argument next of its __list_add or __list_del
  prevArg,     \* process -> argument prev of its __list_del
  sem,         \* semaphore -> its value
  s_procq,     \* semaphore -> the queue of the processes that wait
  page_mutex_holder,
  swapPool,    \* frame -> sw_asid, -1 when free
  fifo_ptr,
  io,          \* the processes that wait for a device
  currProc,    \* the running process, or Null
  readyQueue,
  slice,       \* steps the running process is still sure to make in its slice
  panic        \* whether PANIC() was called

procVars == <<ret, sup, asid, frame>>
listVars == <<next, prev, nextArg, prevArg>>
callVars == <<newSup, sup_asid, listVars>>
poolVars == <<page_mutex_holder, swapPool, fifo_ptr>>
semVars  == <<sem, s_procq>>
cpuVars  == <<io, currProc, readyQueue, slice>>
vars == <<pc, procVars, callVars, poolVars, semVars, cpuVars, panic>>

Live == {p \in PCB : pc[p] # "none"}

-----------------------------------------------------------------------------
(* The nucleus, seen by its callers *)

Running(p) == ~panic /\ currProc = p
At(p, l) == Running(p) /\ pc[p] = l
Goto(p, l) == pc' = [pc EXCEPT ![p] = l]

\* The instantiator has the lower priority.
p_prio == [p \in PCB |-> IF p = Inst THEN 0 ELSE 1]

\* p becomes ready; a processor that waits for interrupts dispatches it at once.
MakeReady(p) ==
  \/ currProc = Null /\ currProc' = p /\ UNCHANGED readyQueue
  \/ /\ currProc # Null
     /\ readyQueue' = insertProcQ(readyQueue, p, p_prio)
     /\ UNCHANGED currProc

\* One step less of the slice.
Tick == slice' = IF slice = 0 THEN 0 ELSE slice - 1

\* The running process goes on.
Stay == Tick /\ UNCHANGED <<io, currProc, readyQueue>>

\* The first of the queue q, if any, gets the processor and a whole slice.
scheduler(q) ==
  /\ \/ emptyProcQ(q) /\ currProc' = Null /\ readyQueue' = q
     \/ ~emptyProcQ(q) /\ currProc' = headProcQ(q) /\ readyQueue' = removeProcQ(q)
  /\ slice' = SliceSteps

PASSEREN(p, s) ==
  \/ /\ sem[s] = 0
     /\ s_procq' = [s_procq EXCEPT ![s] = InsertTail(@, p)]
     /\ scheduler(readyQueue)
     /\ UNCHANGED <<sem, io>>
  \/ /\ sem[s] # 0
     /\ sem' = [sem EXCEPT ![s] = @ - 1]
     /\ Stay
     /\ UNCHANGED s_procq

VERHOGEN(s) ==
  \/ /\ sem[s] = 0 /\ ~emptyProcQ(s_procq[s])
     /\ s_procq' = [s_procq EXCEPT ![s] = removeProcQ(@)]
     /\ MakeReady(headProcQ(s_procq[s]))
     /\ Tick
     /\ UNCHANGED <<sem, io>>
  \/ /\ sem[s] # 0 \/ emptyProcQ(s_procq[s])
     /\ sem' = [sem EXCEPT ![s] = @ + 1]
     /\ Stay
     /\ UNCHANGED s_procq

DOIO(p) ==
  /\ io' = io \cup {p}
  /\ scheduler(readyQueue)
  /\ UNCHANGED semVars

\* A step of p that is not a system call.
Local(p, l) == Goto(p, l) /\ Stay /\ UNCHANGED semVars

\* The children of a process, as CREATEPROCESS has linked them.
Offspring(p) ==
  CASE p = Inst  -> Live
    [] p = Shell -> Live \ {Inst}
    [] OTHER     -> {p}

\* TERMPROCESS of the running process: it dies with what it created.
TERMPROCESS(p) ==
  LET dead == Offspring(p)
  IN  /\ pc' = [q \in PCB |-> IF q \in dead THEN "none" ELSE pc[q]]
      /\ sup' = [q \in PCB |-> IF q \in dead THEN 0 ELSE sup[q]]
      /\ asid' = [q \in PCB |-> IF q \in dead THEN 0 ELSE asid[q]]
      /\ scheduler(Without(readyQueue, dead))
      /\ s_procq' = [s \in Sem |-> Without(s_procq[s], dead)]
      /\ io' = io \ dead
      /\ ret' = [q \in PCB |-> IF q \in dead THEN "user" ELSE ret[q]]
      /\ frame' = [q \in PCB |-> IF q \in dead THEN 0 ELSE frame[q]]
      /\ nextArg' = [q \in PCB |-> IF q \in dead THEN 0 ELSE nextArg[q]]
      /\ prevArg' = [q \in PCB |-> IF q \in dead THEN 0 ELSE prevArg[q]]
      /\ UNCHANGED <<sem, newSup, sup_asid, next, prev, poolVars, panic>>

-----------------------------------------------------------------------------
(* initProc.c *)

\* test() up to the DOIO that reads the header of the shell.  deallocateSupport
\* has put the structures on the list one before the other, so that the shell
\* has taken the last one.
Init ==
  /\ pc = [p \in PCB |-> IF p = Inst THEN "header" ELSE "none"]
  /\ ret = [p \in PCB |-> "user"]
  /\ sup = [p \in PCB |-> 0]
  /\ asid = [p \in PCB |-> 0]
  /\ frame = [p \in PCB |-> 0]
  /\ newSup = UPROCMAX
  /\ sup_asid = [s \in Support |-> IF s = UPROCMAX THEN 1 ELSE 0]
  /\ next = [n \in Node |-> IF n = UPROCMAX THEN n
                            ELSE IF n = 0 THEN UPROCMAX - 1 ELSE n - 1]
  /\ prev = [n \in Node |-> IF n = UPROCMAX THEN n
                            ELSE IF n = UPROCMAX - 1 THEN 0 ELSE n + 1]
  /\ nextArg = [p \in PCB |-> 0] /\ prevArg = [p \in PCB |-> 0]
  /\ sem = [s \in Sem |-> IF s \in Mutex THEN 1 ELSE 0]
  /\ s_procq = [s \in Sem |-> mkEmptyProcQ]
  /\ page_mutex_holder = -1
  /\ swapPool = [f \in 0 .. POOLSIZE - 1 |-> -1]
  /\ fifo_ptr = 0
  /\ io = {Inst}
  /\ currProc = Null /\ readyQueue = mkEmptyProcQ
  /\ slice = SliceSteps
  /\ panic = FALSE

\* CREATEPROCESS: q starts in user mode with support structure s.
CREATEPROCESS(p, q, s, l) ==
  /\ pc' = [pc EXCEPT ![p] = l, ![q] = "user"]
  /\ sup' = [sup EXCEPT ![q] = s]
  /\ asid' = [asid EXCEPT ![q] = sup_asid[s]]
  /\ MakeReady(q)
  /\ Tick
  /\ UNCHANGED <<ret, frame, semVars, io>>

test(p) ==
  \/ /\ At(p, "header")
     /\ \/ CREATEPROCESS(p, Shell, newSup, "shellEnd") /\ UNCHANGED panic
        \/ /\ panic' = TRUE
           /\ UNCHANGED <<pc, procVars, semVars, cpuVars>>
     /\ newSup' = 0
     /\ UNCHANGED <<sup_asid, listVars, poolVars>>
  \/ /\ At(p, "shellEnd")
     /\ PASSEREN(p, MasterSem) /\ Goto(p, "halt")
     /\ UNCHANGED <<procVars, callVars, poolVars, panic>>
  \/ /\ At(p, "halt") /\ TERMPROCESS(p)

-----------------------------------------------------------------------------
(* initProc.c: the list of the free support structures *)

link(f, n, m) == f' = [f EXCEPT ![n] = m]

\* Mutant: the last store is missing.
LinkHeadNot(new) == UNCHANGED <<next, prev, nextArg>>

LinkHead(new) == link(next, supStructs_freeList, new) /\ UNCHANGED <<prev, nextArg>>

\* list_add of structure new, as the labels l: head->next is read, then come the
\* four stores of __list_add.
deallocateSupport(p, new, l) ==
  /\ \/ /\ At(p, l[1]) /\ Local(p, l[2])
        /\ link(nextArg, p, next[supStructs_freeList])
        /\ UNCHANGED <<next, prev>>
     \/ /\ At(p, l[2]) /\ Local(p, l[3])
        /\ link(prev, nextArg[p], new)
        /\ UNCHANGED <<next, nextArg>>
     \/ /\ At(p, l[3]) /\ Local(p, l[4])
        /\ link(next, new, nextArg[p]) /\ link(nextArg, p, 0)
        /\ UNCHANGED prev
     \/ /\ At(p, l[4]) /\ Local(p, l[5])
        /\ link(prev, new, supStructs_freeList)
        /\ UNCHANGED <<next, nextArg>>
     \/ At(p, l[5]) /\ Local(p, l[6]) /\ LinkHead(new)
  /\ UNCHANGED prevArg

(* sysSupport.c: the system calls *)

unchangedCall == UNCHANGED <<procVars, callVars, poolVars, panic>>

\* An exception in user mode, or a page that WRITETERMINAL or READTERMINAL
\* finds absent: TLB-Modification is fatal at once, anything else is paged in.
PageFault(p) ==
  /\ Running(p) /\ pc[p] \in {"user", "txLoop", "rxStore"}
  /\ ret' = [ret EXCEPT ![p] = pc[p]]
  /\ \E l \in {"trap", "pgP"} : Local(p, l)
  /\ UNCHANGED <<sup, asid, frame, callVars, poolVars, panic>>

\* GeneralExceptionHandler and the switch of SyscallExceptionHandler: TERMINATE,
\* an unknown call, a wrong argument and every other exception are fatal;
\* EXECUTE is the shell's alone.
GeneralExceptionHandler(p) ==
  /\ At(p, "user")
  /\ \/ \E l \in {"trap", "txP", "rxP"} : Local(p, l)
     \/ sup_asid[sup[p]] = 1 /\ Local(p, "exArg")
  /\ unchangedCall

WRITETERMINAL(p) ==
  \/ At(p, "txP") /\ PASSEREN(p, Transm) /\ Goto(p, "txLoop") /\ unchangedCall
  \/ /\ At(p, "txLoop")
     /\ DOIO(p) /\ Goto(p, "txStat") /\ unchangedCall
  \/ At(p, "txLoop") /\ Local(p, "txV") /\ unchangedCall       \* nsent = len
  \/ /\ At(p, "txStat")                               \* transmitted, or error
     /\ \E l \in {"txLoop", "txV"} : Local(p, l)
     /\ unchangedCall
  \/ At(p, "txV") /\ VERHOGEN(Transm) /\ Goto(p, "return") /\ unchangedCall

READTERMINAL(p) ==
  \/ At(p, "rxP") /\ PASSEREN(p, Recv) /\ Goto(p, "rxLoop") /\ unchangedCall
  \/ /\ At(p, "rxLoop")                     \* the buffer is in the user space
     /\ DOIO(p) /\ Goto(p, "rxStat") /\ unchangedCall
  \/ /\ At(p, "rxLoop")                     \* or it is not
     /\ VERHOGEN(Recv) /\ Goto(p, "trap") /\ unchangedCall
  \/ /\ At(p, "rxStat")                               \* received, or error
     /\ \E l \in {"rxStore", "rxV"} : Local(p, l)
     /\ unchangedCall
  \/ /\ At(p, "rxStore")                              \* a newline ends the line
     /\ \E l \in {"rxLoop", "rxV"} : Local(p, l)
     /\ unchangedCall
  \/ At(p, "rxV") /\ VERHOGEN(Recv) /\ Goto(p, "return") /\ unchangedCall

\* EXECUTE gives up (-1 in a0).
Refuse(p) == Local(p, "return")

\* Where EXECUTE and the end of a process are in deallocateSupport.
ExecuteGives == <<"exStat", "exAdd1", "exAdd2", "exAdd3", "exAdd4", "return">>
ProcessGives == <<"trGive", "trAdd1", "trAdd2", "trAdd3", "trAdd4", "trTlb">>

\* EXECUTE gives up after allocateSupport: the structure goes back.
Abandon(p) ==
  /\ deallocateSupport(p, newSup, ExecuteGives)
  /\ newSup' = IF pc[p] = "exAdd4" THEN 0 ELSE newSup
  /\ UNCHANGED <<procVars, sup_asid, poolVars, panic>>

\* allocateSupport: list_empty, the read of the head, and list_del, whose two
\* arguments may be read in either order.  The structure gets the ASID.
allocateSupport(p) ==
  LET l == newSup IN
  /\ \/ /\ At(p, "exArg") /\ next[supStructs_freeList] # supStructs_freeList
        /\ Local(p, "exHead")
        /\ UNCHANGED <<newSup, sup_asid, listVars>>
     \/ /\ At(p, "exHead") /\ Local(p, "exLinks")
        /\ newSup' = next[supStructs_freeList]
        /\ UNCHANGED <<sup_asid, listVars>>
     \/ /\ \/ At(p, "exLinks") /\ Local(p, "exPrev")
           \/ At(p, "exNext") /\ Local(p, "exDel1")
        /\ link(nextArg, p, next[l])
        /\ UNCHANGED <<newSup, sup_asid, next, prev, prevArg>>
     \/ /\ \/ At(p, "exLinks") /\ Local(p, "exNext")
           \/ At(p, "exPrev") /\ Local(p, "exDel1")
        /\ link(prevArg, p, prev[l])
        /\ UNCHANGED <<newSup, sup_asid, next, prev, nextArg>>
     \/ /\ At(p, "exDel1") /\ Local(p, "exDel2")
        /\ link(prev, nextArg[p], prevArg[p])
        /\ UNCHANGED <<newSup, sup_asid, next, nextArg, prevArg>>
     \/ /\ At(p, "exDel2") /\ Local(p, "exDel3")
        /\ link(next, prevArg[p], nextArg[p])
        /\ link(nextArg, p, 0) /\ link(prevArg, p, 0)
        /\ UNCHANGED <<newSup, sup_asid, prev>>
     \/ /\ At(p, "exDel3") /\ Local(p, "exDel4")
        /\ link(next, l, l)
        /\ UNCHANGED <<newSup, sup_asid, prev, nextArg, prevArg>>
     \/ /\ At(p, "exDel4") /\ Local(p, "exP")
        /\ link(prev, l, l)
        /\ \E a \in Program : sup_asid' = [sup_asid EXCEPT ![l] = a]
        /\ UNCHANGED <<newSup, next, nextArg, prevArg>>
  /\ UNCHANGED <<procVars, poolVars, panic>>

\* Mutant: the header is taken from the buffer, without an operation.
ReadHeaderBuffered(p) == Local(p, "exV")

ReadHeader(p) == DOIO(p) /\ Goto(p, "exV")

\* Mutant: the shell does not wait for the program.
StartProgramOnly(p) ==
  \E q \in Child : pc[q] = "none" /\ CREATEPROCESS(p, q, newSup, "return")

StartProgram(p) ==
  \E q \in Child : pc[q] = "none" /\ CREATEPROCESS(p, q, newSup, "exWait")

EXECUTE(p) ==
  LET flash == Flash(sup_asid[newSup]) IN
  \/ At(p, "exArg") /\ Refuse(p) /\ unchangedCall  \* wrong ASID, or none is free
  \/ allocateSupport(p)
  \/ At(p, "exP") /\ PASSEREN(p, flash) /\ Goto(p, "exRead") /\ unchangedCall
  \/ At(p, "exRead") /\ ReadHeader(p) /\ unchangedCall
  \/ At(p, "exV") /\ VERHOGEN(flash) /\ Goto(p, "exStat") /\ unchangedCall
  \/ /\ At(p, "exStat")
     /\ StartProgram(p)
     /\ newSup' = 0
     /\ UNCHANGED <<sup_asid, listVars, poolVars, panic>>
  \/ Abandon(p)                                    \* I/O error, or no free PCB
  \/ At(p, "exWait") /\ PASSEREN(p, ShellSem) /\ Goto(p, "return") /\ unchangedCall

\* Back in user mode, after the system call.
Return(p) == At(p, "return") /\ Local(p, "user") /\ unchangedCall

-----------------------------------------------------------------------------
(* sysSupport.c: the end of a process *)

\* Mutant: the last frame is left out.
FreeFramesShort(a) ==
  [f \in DOMAIN swapPool |->
     IF swapPool[f] = a /\ f < POOLSIZE - 1 THEN -1 ELSE swapPool[f]]

FreeFrames(a) ==
  [f \in DOMAIN swapPool |-> IF swapPool[f] = a THEN -1 ELSE swapPool[f]]

\* Mutants: the receiver is released always, or never.
ReceiverHeldAlways == TRUE
ReceiverHeldNever == FALSE

ReceiverHeld == sem[Recv] = 0

\* Mutants: one semaphore for all.
EndSemShell(a) == ShellSem
EndSemMaster(a) == MasterSem

\* The semaphore of who waits for the end of the process with ASID a.
EndSem(a) == IF a = 1 THEN MasterSem ELSE ShellSem

ProgramTrapHandler(p) ==
  \/ /\ At(p, "trap")
     /\ IF page_mutex_holder # sup_asid[sup[p]]
        THEN PASSEREN(p, Swap) /\ Goto(p, "trFree")
        ELSE Local(p, "trFree")
     /\ unchangedCall
  \/ /\ At(p, "trFree")
     /\ swapPool' = FreeFrames(sup_asid[sup[p]])
     /\ page_mutex_holder' = -1
     /\ Local(p, "trV")
     /\ UNCHANGED <<procVars, callVars, fifo_ptr, panic>>
  \/ At(p, "trV") /\ VERHOGEN(Swap) /\ Goto(p, "trRx") /\ unchangedCall
  \/ /\ At(p, "trRx")
     /\ Local(p, IF ReceiverHeld THEN "trRxV" ELSE "trSync")
     /\ unchangedCall
  \/ At(p, "trRxV") /\ VERHOGEN(Recv) /\ Goto(p, "trSync") /\ unchangedCall
  \/ /\ At(p, "trSync")
     /\ VERHOGEN(EndSem(sup_asid[sup[p]]))
     /\ Goto(p, "trGive") /\ unchangedCall
  \/ /\ deallocateSupport(p, sup[p], ProcessGives)
     /\ UNCHANGED <<procVars, newSup, sup_asid, poolVars, panic>>
  \/ At(p, "trTlb") /\ Local(p, "trTerm") /\ unchangedCall
  \/ At(p, "trTerm") /\ TERMPROCESS(p)

-----------------------------------------------------------------------------
(* vmSupport.c: the control flow of the pager *)

Free == {f \in DOMAIN swapPool : swapPool[f] = -1}

\* The first free frame; or the next one in turn, whose page has to go.
SelectFrame(p) ==
  IF Free # {}
  THEN /\ frame' = [frame EXCEPT ![p] = CHOOSE f \in Free : \A g \in Free : f <= g]
       /\ Local(p, "pgRdP")
       /\ UNCHANGED fifo_ptr
  ELSE /\ frame' = [frame EXCEPT ![p] = fifo_ptr]
       /\ fifo_ptr' = (fifo_ptr + 1) % POOLSIZE
       /\ Local(p, "pgWrP")

\* Mutant: the mutex of the victim's flash device is kept.
EndWriteKept(p) == Stay /\ UNCHANGED semVars

EndWrite(p) == VERHOGEN(Flash(swapPool[frame[p]]))

Pager(p) ==
  LET own    == Flash(sup_asid[sup[p]])
      victim == Flash(swapPool[frame[p]])
  IN
  \/ At(p, "pgP") /\ PASSEREN(p, Swap) /\ Goto(p, "pgHold") /\ unchangedCall
  \/ /\ At(p, "pgHold")
     /\ page_mutex_holder' = sup_asid[sup[p]]
     /\ Local(p, "pgSelect")
     /\ UNCHANGED <<procVars, callVars, swapPool, fifo_ptr, panic>>
  \/ /\ At(p, "pgSelect")
     /\ \/ Local(p, "pgFail") /\ UNCHANGED <<frame, fifo_ptr>>  \* no such page
        \/ SelectFrame(p)
     /\ UNCHANGED <<ret, sup, asid, callVars, page_mutex_holder,
                    swapPool, panic>>
  \/ At(p, "pgWrP") /\ PASSEREN(p, victim) /\ Goto(p, "pgWr") /\ unchangedCall
  \/ At(p, "pgWr") /\ DOIO(p) /\ Goto(p, "pgWrV") /\ unchangedCall
  \/ /\ At(p, "pgWrV") /\ EndWrite(p)
     /\ \E l \in {"pgRdP", "pgFail"} : Goto(p, l)
     /\ unchangedCall
  \/ At(p, "pgRdP") /\ PASSEREN(p, own) /\ Goto(p, "pgRd") /\ unchangedCall
  \/ At(p, "pgRd") /\ DOIO(p) /\ Goto(p, "pgRdV") /\ unchangedCall
  \/ /\ At(p, "pgRdV") /\ VERHOGEN(own)
     /\ \E l \in {"pgSet", "pgFail"} : Goto(p, l)
     /\ unchangedCall
  \/ /\ At(p, "pgSet")
     /\ swapPool' = [swapPool EXCEPT ![frame[p]] = sup_asid[sup[p]]]
     /\ page_mutex_holder' = -1
     /\ Local(p, "pgV")
     /\ UNCHANGED <<procVars, callVars, fifo_ptr, panic>>
  \/ /\ At(p, "pgV")
     /\ VERHOGEN(Swap) /\ Goto(p, ret[p])
     /\ ret' = [ret EXCEPT ![p] = "user"]
     /\ frame' = [frame EXCEPT ![p] = 0]
     /\ UNCHANGED <<sup, asid, callVars, poolVars, panic>>
  \/ /\ At(p, "pgFail")
     /\ page_mutex_holder' = -1
     /\ VERHOGEN(Swap) /\ Goto(p, "trap")
     /\ frame' = [frame EXCEPT ![p] = 0]
     /\ UNCHANGED <<ret, sup, asid, callVars, swapPool, fifo_ptr, panic>>

-----------------------------------------------------------------------------
(* Devices and timer *)

\* An operation ends and the process that waits for it is made ready.
IoDone(p) ==
  /\ ~panic
  /\ p \in io
  /\ io' = io \ {p}
  /\ MakeReady(p)
  /\ UNCHANGED <<pc, ret, sup, asid, frame, callVars, poolVars, semVars, slice,
                 panic>>

\* Inside allocateSupport or deallocateSupport.
ListLabels == {"exHead", "exLinks", "exPrev", "exNext", "exDel1", "exDel2", "exDel3",
               "exDel4", "exAdd1", "exAdd2", "exAdd3", "exAdd4",
               "trAdd1", "trAdd2", "trAdd3", "trAdd4"}

\* The time slice ends: at once in user mode, in a handler not before
\* SliceSteps steps since the process was dispatched.
PLTInterrupt(p) ==
  /\ Running(p)
  /\ pc[p] = "user" \/ slice = 0
  /\ pc[p] \in ListLabels => ListsPreempted
  /\ scheduler(insertProcQ(readyQueue, p, p_prio))
  /\ UNCHANGED <<pc, procVars, callVars, poolVars, semVars, io, panic>>

\* HALT, PANIC or a deadlock, for which the scheduler panics.
Halted == Live = {}
Deadlocked == Live # {} /\ currProc = Null /\ io = {}
Stopped == (panic \/ Halted \/ Deadlocked) /\ UNCHANGED vars

Handler(p) ==
  \/ test(p)
  \/ WRITETERMINAL(p) \/ READTERMINAL(p) \/ EXECUTE(p) \/ Return(p)
  \/ ProgramTrapHandler(p)
  \/ Pager(p)

Next ==
  \/ \E p \in PCB : Handler(p) \/ IoDone(p) \/ PLTInterrupt(p)
  \/ \E p \in Uproc : PageFault(p) \/ GeneralExceptionHandler(p)
  \/ Stopped

Spec == Init /\ [][Next]_vars

\* The processor runs, devices answer and the local timer fires; a program may
\* stay in user mode for ever.
Fairness ==
  \A p \in PCB : WF_vars(Handler(p)) /\ WF_vars(IoDone(p)) /\ WF_vars(PLTInterrupt(p))

FairSpec == Spec /\ Fairness

-----------------------------------------------------------------------------
(* Properties *)

Waits(p) == \E s \in Sem : p \in Elems(s_procq[s])

\* The places where a process may be: running, ready, waiting for a device, or
\* in the queue of a semaphore.
Places(p) ==
  {q \in {"running", "ready", "io"} \X {0} \cup Sem :
     CASE q[1] = "running" -> p = currProc
       [] q[1] = "ready"   -> p \in Elems(readyQueue)
       [] q[1] = "io"      -> p \in io
       [] OTHER            -> p \in Elems(s_procq[q])}

PagerLabels == {"pgP", "pgHold", "pgSelect", "pgWrP", "pgWr", "pgWrV", "pgRdP",
                "pgRd", "pgRdV", "pgSet", "pgV", "pgFail"}
DyingLabels == {"trap", "trFree", "trV", "trRx", "trRxV", "trSync",
                "trGive", "trAdd1", "trAdd2", "trAdd3", "trAdd4", "trTlb", "trTerm"}
LeavingLabels == DyingLabels \ {"trap", "trFree", "trV", "trRx", "trRxV", "trSync"}
Labels == PagerLabels \cup DyingLabels
  \cup {"none", "header", "shellEnd", "halt", "user", "return",
        "txP", "txLoop", "txStat", "txV",
        "rxP", "rxLoop", "rxStat", "rxStore", "rxV",
        "exArg", "exHead", "exLinks", "exPrev", "exNext", "exDel1", "exDel2", "exDel3",
        "exDel4", "exP", "exRead", "exV", "exStat", "exAdd1", "exAdd2", "exAdd3",
        "exAdd4", "exWait"}

\* Every variable has its type, semaphores are binary, and a process is in one
\* place: the processor's queue, a semaphore's queue or waiting for a device.
TypeOK ==
  /\ pc \in [PCB -> Labels]
  /\ ret \in [PCB -> {"user", "txLoop", "rxStore"}]
  /\ sup \in [PCB -> 0 .. UPROCMAX] /\ asid \in [PCB -> 0 .. UPROCMAX]
  /\ frame \in [PCB -> 0 .. POOLSIZE - 1] /\ fifo_ptr \in 0 .. POOLSIZE - 1
  /\ newSup \in 0 .. UPROCMAX /\ sup_asid \in [Support -> 0 .. UPROCMAX]
  /\ next \in [Node -> Node] /\ prev \in [Node -> Node]
  /\ nextArg \in [PCB -> Node] /\ prevArg \in [PCB -> Node]
  /\ sem \in [Sem -> {0, 1}]
  /\ page_mutex_holder \in -1 .. UPROCMAX
  /\ swapPool \in [0 .. POOLSIZE - 1 -> -1 .. UPROCMAX]
  /\ io \in SUBSET PCB /\ slice \in 0 .. SliceSteps /\ panic \in BOOLEAN
  /\ currProc \in PCB \cup {Null} /\ readyQueue \in SUBSET (PCB \X PCB)
  /\ s_procq \in [Sem -> SUBSET (PCB \X PCB)]
  /\ \A p \in PCB : Cardinality(Places(p)) = IF pc[p] = "none" THEN 0 ELSE 1

\* p has acquired mutex s and not yet released it.
Inside(p, s) ==
  /\ ~Waits(p)
  /\ CASE s = Swap ->
            pc[p] \in (PagerLabels \ {"pgP"}) \cup {"trFree", "trV"}
       [] s = Transm ->
            \/ pc[p] \in {"txLoop", "txStat", "txV"}
            \/ ret[p] = "txLoop" /\ pc[p] \in PagerLabels \cup DyingLabels
       [] s = Recv ->
            \/ pc[p] \in {"rxLoop", "rxStat", "rxStore", "rxV"}
            \/ /\ ret[p] = "rxStore"
               /\ pc[p] \in PagerLabels \cup {"trap", "trFree", "trV", "trRx", "trRxV"}
       [] OTHER ->
            \/ pc[p] \in {"pgWr", "pgWrV"} /\ s = Flash(swapPool[frame[p]])
            \/ pc[p] \in {"pgRd", "pgRdV"} /\ s = Flash(sup_asid[sup[p]])
            \/ pc[p] \in {"exRead", "exV"} /\ s = Flash(sup_asid[newSup])

Users(s) == Cardinality({p \in PCB : Inside(p, s)})

\* Swap pool, flash devices, terminal: never two processes inside.  All but the
\* transmitter's mutex are also free whenever nobody is inside, whatever path
\* the process left by (I/O error, wrong address, death in the pager): the
\* receiver's, which ProgramTrapHandler releases on the sole evidence that its
\* value is 0 (sysSupport.c:470), is released by its holder alone.
MutexExact ==
  /\ sem[Transm] + Users(Transm) <= 1
  /\ \A s \in Mutex \ {Transm} : sem[s] + Users(s) = 1

\* The structures that a walk along the free list meets.
FreeStructs ==
  {s \in Support : \A N \in SUBSET Node :
     supStructs_freeList \in N /\ (\A n \in N : next[n] \in N) => s \in N}

\* The structures in use: of processes that have not given them back, or being
\* prepared.
UsersOf(s) == {p \in Uproc : sup[p] = s /\ pc[p] \notin {"trTlb", "trTerm"}}
Quiet == \A p \in Uproc : pc[p] \notin ListLabels

\* While the shell lives and nobody is inside an operation on the free list no
\* support structure is lost or used twice: each one is on the list, or belongs
\* to one process that has not given it back, or is being prepared
\* (sysSupport.c:280-386, 490); and the list is sound in both directions.
SupportsExact ==
  pc[Shell] # "none" /\ Quiet =>
    /\ \A s \in Support :
         (IF s \in FreeStructs THEN 1 ELSE 0) + Cardinality(UsersOf(s))
           + (IF newSup = s THEN 1 ELSE 0) = 1
    /\ \A n \in FreeStructs \cup {supStructs_freeList} :
         prev[next[n]] = n /\ next[prev[n]] = n

\* supStructs_freeList is the list of the free structures (initProc.c:28): when
\* nobody is inside an operation on it, none that is in use is on it.
FreeStructsOnly ==
  Quiet => \A s \in FreeStructs : UsersOf(s) = {} /\ newSup # s

\* A frame is registered only to a process that lives and has not yet freed its
\* frames: nothing a dying process or its pager does registers one afterwards.
FramesOwned ==
  \A f \in DOMAIN swapPool : swapPool[f] # -1 =>
    \E p \in Uproc : /\ asid[p] = swapPool[f]
                     /\ pc[p] \notin (DyingLabels \ {"trap", "trFree"})

\* At most one process of the support level is active (the comment at
\* sysSupport.c:466): as long as a program may use the terminal or the pager the
\* shell is in EXECUTE, about to wait for it or waiting.
OneActive ==
  \A c \in Child : pc[c] \notin LeavingLabels \cup {"none"} =>
    pc[Shell] = "exWait" \/ Shell \in Elems(s_procq[ShellSem])

\* No two processes with one ASID, hence none on the handlers' stacks or with
\* the TLB entries of another (sysSupport.c:293-297): the program executed
\* before is dead when a new one starts, although the shell is woken earlier.
AsidExclusive ==
  \A p, q \in Uproc :
    p # q /\ pc[p] # "none" /\ pc[q] # "none" => asid[p] # asid[q]

\* ProgramTrapHandler releases what the dying process holds (sysSupport.c:428):
\* while the shell lives, also the transmitter of the terminal is free when
\* nobody is inside.
TransmitterReleased ==
  pc[Shell] # "none" => sem[Transm] + Users(Transm) = 1

\* The end of the shell, for whatever reason, is the end of the system: HALT.
ShellEndHalts == pc[Shell] = "trap" ~> Halted

\* The end of a program lets the shell return from EXECUTE.
ChildEndResumesShell ==
  (\E c \in Child : pc[c] = "trap") ~> (pc[Shell] = "return" /\ ~Waits(Shell))

\* A page fault ends, and the pager is left by everybody: the program or the
\* handler the fault happened in goes on, or the process dies in order.
FaultResolved ==
  (\E p \in Uproc : pc[p] \in PagerLabels) ~> (\A p \in Uproc : pc[p] \notin PagerLabels)
=============================================================================
