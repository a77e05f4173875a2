---------------------------- MODULE NucleusLists ----------------------------
(***************************************************************************)
(* The nucleus on the data structures it is written with: the lists of     *)
(* Phase1, the recursions over the process tree, the loop that wakes those *)
(* who wait for the clock.  Nucleus, where a queue is an order and a kill  *)
(* takes a set of processes, is its specification: see ImplementsNucleus.  *)
(*                                                                         *)
(* No device is used (what an interrupt of a device does to the lists,     *)
(* VERHOGEN does as well) and no process has a support structure.          *)
(***************************************************************************)
EXTENDS Phase1

CONSTANTS
  UserSem, Clock,   \* addresses of semaphores; Clock is the last of subDevice
  Prio,             \* priorities the processes ask for
  MaxPid, MaxVal    \* bounds, as in Nucleus

Sem == UserSem \cup {Clock}

\* MAXPROC, the length of both tables.
MaxProc == Cardinality(PCB)

ASSUME TableAssumption == /\ IsFiniteSet(PCB) /\ PCB # {} /\ Null \notin PCB \cup Semd
                          /\ IsFiniteSet(Semd) /\ Cardinality(Semd) = MaxProc
ASSUME AddressAssumption == /\ Sem \subseteq Nat \ {0} /\ Null = 0
                            /\ Sem \cap PCB = {} /\ Clock \notin UserSem
ASSUME PrioAssumption == Prio \subseteq Nat
ASSUME BoundAssumption == MaxPid \in Nat \ {0} /\ MaxVal \in Nat \ {0}

VARIABLES
  mem,      \* the memory: what Phase1 needs, currProc and the counters
  semVal,   \* semaphore -> its value
  cpu       \* "run" | "wait" | "halt" | "panic"

vars == <<mem, semVal, cpu>>

Running == cpu = "run"

-----------------------------------------------------------------------------
(* scheduler.c, and the end of an interrupt handler *)

scheduler(m) ==
  \/ /\ ~emptyProcQ(m, readyQueue)
     /\ mem' = [removeProcQ(m, readyQueue) EXCEPT
                  !.currProc = headProcQ(m, readyQueue)]
     /\ cpu' = "run"
  \/ /\ emptyProcQ(m, readyQueue)
     /\ mem' = m
     /\ \/ m.processCount = 0 /\ cpu' = "halt"
        \/ m.processCount > 0 /\ m.softBlockCount > 0 /\ cpu' = "wait"
        \/ m.processCount > 0 /\ m.softBlockCount = 0 /\ cpu' = "panic"

Resume(m) ==
  IF m.currProc # Null THEN mem' = m /\ UNCHANGED cpu ELSE scheduler(m)

-----------------------------------------------------------------------------
(* initial.c *)

\* Static memory: all zero.
Zero ==
  [next |-> [n \in Node |-> NoNode], prev |-> [n \in Node |-> NoNode],
   p_parent |-> [p \in PCB |-> Null], p_semAdd |-> [p \in PCB |-> Null],
   p_prio |-> [p \in PCB |-> 0], p_pid |-> [p \in PCB |-> 0],
   s_key |-> [d \in Semd |-> Null], next_pid |-> 1,
   currProc |-> Null, processCount |-> 0, softBlockCount |-> 0]

\* The ways the entries of S may stand in a table.
Tables(S) ==
  {t \in [1 .. MaxProc -> S] : \A x \in S : \E i \in 1 .. MaxProc : t[i] = x}

\* main.  Which entry stands where in the two tables does not matter.
Init ==
  \E pcbs \in Tables(PCB), semds \in Tables(Semd) :
    LET m == mkEmptyProcQ(initASL(initPcbs(Zero, pcbs), semds), readyQueue)
        p == allocated(m)
    IN  /\ mem = [removeProcQ(insertProcQ(allocPcb(m), readyQueue, p), readyQueue)
                    EXCEPT !.currProc = p, !.processCount = 1]
        /\ semVal \in {v \in [Sem -> 0 .. MaxVal] : v[Clock] = 0}
        /\ cpu = "run"

-----------------------------------------------------------------------------
(* exceptions.c: the recursions over the process tree *)

\* root, or else what the first child's search finds that finds something.
find_pcb_recursive(m, root, pid) ==
  LET find[p \in PCB] ==
        IF m.p_pid[p] = pid THEN p
        ELSE LET hits == {c \in PCB : /\ OnList(m, p_sib(c), p_child(p))
                                      /\ find[c] # Null}
                 stop == list_for_each(m, p_child(p), {p_sib(c) : c \in hits})
             IN  IF hits = {} THEN Null ELSE find[container_of(stop)]
  IN  find[root]

Progenitor(m, p) ==
  LET climb[x \in PCB] ==
        IF m.p_parent[x] = Null THEN x ELSE climb[m.p_parent[x]]
  IN  climb[p]

find_pcb(m, pid) == find_pcb_recursive(m, Progenitor(m, m.currProc), pid)

\* Mutant: the ready queue is not looked at.
LeaveSemaphoreOnly(m, p) ==
  IF ~isBlocked(m, p) THEN m
  ELSE [outBlocked(m, p) EXCEPT
          !.softBlockCount = @ - (IF m.p_semAdd[p] = Clock THEN 1 ELSE 0)]

\* A process that is not running leaves the ready queue or its semaphore.
LeaveQueue(m, p) ==
  IF inProcQ(m, readyQueue, p) THEN outProcQ(m, readyQueue, p)
  ELSE IF ~isBlocked(m, p) THEN m
  ELSE [outBlocked(m, p) EXCEPT
          !.softBlockCount = @ - (IF m.p_semAdd[p] = Clock THEN 1 ELSE 0)]

\* The process itself, when its children are gone.
Bury(m, p) ==
  LET m1 == outChild(m, p)
      m2 == IF p = m.currProc THEN [m1 EXCEPT !.currProc = Null]
            ELSE LeaveQueue(m1, p)
  IN  [freePcb(m2, p) EXCEPT !.processCount = @ - 1]

\* Mutant: the children are unlinked but not killed.
AbandonChild(x) ==
  LET m == x[1]
      calls == x[2]
      p == Head(calls)
  IN  IF calls = <<>> THEN x
      ELSE IF emptyChild(m, p) THEN <<Bury(m, p), Tail(calls)>>
      ELSE <<removeChild(m, p), calls>>

\* A step of the recursion: x is the memory and the calls of
\* recursive_terminate that have not returned, the innermost first.  While its
\* process has a child the first one is removed and killed, then it is buried.
TerminateStep(x) ==
  LET m == x[1]
      calls == x[2]
      p == Head(calls)
  IN  IF calls = <<>> THEN x
      ELSE IF emptyChild(m, p) THEN <<Bury(m, p), Tail(calls)>>
      ELSE <<removeChild(m, p), <<firstChild(m, p)>> \o calls>>

\* There is a call for each process that dies, so at most 2 * MAXPROC steps.
recursive_terminate(m, p) ==
  LET after[i \in 0 .. 2 * MaxProc] ==
        IF i = 0 THEN <<m, <<p>>>> ELSE TerminateStep(after[i - 1])
  IN  after[2 * MaxProc][1]

-----------------------------------------------------------------------------
(* exceptions.c: the system calls, and the death of who has no handler *)

CreateProcess(prio) ==
  /\ Running
  /\ mem.next_pid <= MaxPid
  /\ allocated(mem) # Null
  /\ LET p == allocated(mem)
         m == [allocPcb(mem) EXCEPT !.p_prio[p] = prio, !.processCount = @ + 1]
     IN  mem' = insertProcQ(insertChild(m, mem.currProc, p), readyQueue, p)
  /\ UNCHANGED <<semVal, cpu>>

TerminateProcess(pid) ==
  LET target == IF pid = 0 THEN mem.currProc ELSE find_pcb(mem, pid)
      m == IF target = Null THEN mem ELSE recursive_terminate(mem, target)
  IN  /\ Running
      /\ scheduler(IF m.currProc = Null THEN m
                   ELSE [insertProcQ(m, readyQueue, m.currProc)
                           EXCEPT !.currProc = Null])
      /\ UNCHANGED semVal

Die ==
  /\ Running
  /\ scheduler(recursive_terminate(mem, mem.currProc))
  /\ UNCHANGED semVal

Block(s, soft) ==
  LET p == mem.currProc
      m == insertBlocked([mem EXCEPT !.p_semAdd[p] = s], s, p)
  IN  scheduler([m EXCEPT !.softBlockCount = @ + soft, !.currProc = Null])

Passeren(s) ==
  /\ Running
  /\ \/ semVal[s] = 0 /\ Block(s, 0) /\ UNCHANGED semVal
     \/ /\ semVal[s] # 0
        /\ semVal' = [semVal EXCEPT ![s] = @ - 1]
        /\ UNCHANGED <<mem, cpu>>

ClockWait == Running /\ Block(Clock, 1) /\ UNCHANGED semVal

\* The first process that waits on s becomes ready.
Wake(m, s) ==
  LET p == headBlocked(m, s)
  IN  insertProcQ([removeBlocked(m, s) EXCEPT !.p_semAdd[p] = Null],
                  readyQueue, p)

Verhogen(s) ==
  /\ Running
  /\ \/ /\ semVal[s] = 0 /\ headBlocked(mem, s) # Null
        /\ mem' = Wake(mem, s)
        /\ UNCHANGED semVal
     \/ /\ semVal[s] # 0 \/ headBlocked(mem, s) = Null
        /\ semVal[s] < MaxVal
        /\ semVal' = [semVal EXCEPT ![s] = @ + 1]
        /\ UNCHANGED mem
  /\ UNCHANGED cpu

\* YIELD, and PLTInterrupt.
Requeue ==
  /\ Running
  /\ scheduler([insertProcQ(mem, readyQueue, mem.currProc)
                  EXCEPT !.currProc = Null])
  /\ UNCHANGED semVal

-----------------------------------------------------------------------------
(* interrupts.c *)

\* The body of the loop of ITInterrupt, and its at most MAXPROC rounds.
WakeFirst(m) ==
  IF headBlocked(m, Clock) = Null THEN m
  ELSE [Wake(m, Clock) EXCEPT !.softBlockCount = @ - 1]

WakeAll(m) ==
  LET after[i \in 0 .. MaxProc] == IF i = 0 THEN m ELSE WakeFirst(after[i - 1])
  IN  after[MaxProc]

ITInterrupt ==
  /\ cpu \in {"run", "wait"}
  /\ Resume(WakeAll(mem))
  /\ semVal' = [semVal EXCEPT ![Clock] = 0]

Stopped == cpu \in {"halt", "panic"} /\ UNCHANGED vars

Next ==
  \/ \E prio \in Prio : CreateProcess(prio)
  \/ \E pid \in 0 .. MaxPid : TerminateProcess(pid)
  \/ Die
  \/ \E s \in UserSem : Passeren(s) \/ Verhogen(s)
  \/ ClockWait
  \/ Requeue
  \/ ITInterrupt
  \/ Stopped

Spec == Init /\ [][Next]_vars

-----------------------------------------------------------------------------
(* Properties *)

Free == {p \in PCB : OnList(mem, p_list(p), pcbFree_h)}
Active == {d \in Semd : OnList(mem, s_link(d), semd_h)}

\* The lists of the memory, as Nucleus has them: x stands at or before y when
\* the links lead from x to y and not over the head.
Order(head) ==
  LET members == {x \in PCB : OnList(mem, p_list(x), head)}
  IN  {xy \in members \X members :
         LoopEnd(mem, head, {p_list(xy[2])}, p_list(xy[1])) = p_list(xy[2])}

SemQueue(s) ==
  IF getSemd(mem, s) = Null THEN {} ELSE Order(procq(getSemd(mem, s)))

N == INSTANCE Nucleus WITH
  Device <- {},
  pcbFree <- Free,
  p_parent <- mem.p_parent,
  p_semAdd <- mem.p_semAdd,
  p_prio <- [p \in PCB |-> IF p \in Free THEN 0 ELSE mem.p_prio[p]],
  p_pid <- [p \in PCB |-> IF p \in Free THEN 0 ELSE mem.p_pid[p]],
  p_supportStruct <- [p \in PCB |-> FALSE],
  next_pid <- mem.next_pid,
  readyQueue <- Order(readyQueue),
  s_procq <- [s \in Sem |-> SemQueue(s)],
  processCount <- mem.processCount,
  softBlockCount <- mem.softBlockCount,
  currProc <- mem.currProc,
  io <- [d \in {} |-> "idle"]

\* Linking and unlinking PCBs in three kinds of lists, killing subtrees by
\* recursion and waking the clock's queue in a loop does exactly what Nucleus
\* says: every step is a step of Nucleus on the orders and sets the lists are.
ImplementsNucleus == N!Init /\ [][N!Next]_(N!vars)

\* No handler leaves a list broken: links are mirrored, the p_list of a PCB is
\* on one list (on none while it runs), and the children list of a process
\* holds those whose p_parent it is.
ListsSound ==
  /\ Mirrored(mem)
  /\ \A p \in PCB :
       LET on == {h \in {pcbFree_h, readyQueue} \cup {procq(d) : d \in Active} :
                    OnList(mem, p_list(p), h)}
       IN  IF p = mem.currProc THEN on = {} ELSE Cardinality(on) = 1
  /\ \A p, q \in PCB \ Free :
       OnList(mem, p_sib(p), p_child(q)) <=> mem.p_parent[p] = q

\* The ASL is ordered by key without repetition, so that the search of getSemd
\* may stop early; a descriptor is in it while somebody waits on the semaphore
\* and is free otherwise, so that MAXPROC descriptors are always enough.
AslExact ==
  /\ \A d, e \in Active :
       d # e /\ LoopEnd(mem, semd_h, {s_link(e)}, s_link(d)) = s_link(e)
         => mem.s_key[d] < mem.s_key[e]
  /\ \A d \in Semd : d \in Active <=> ~OnList(mem, s_link(d), semdFree_h)
  /\ \A d \in Active : ~emptyProcQ(mem, procq(d))
=============================================================================
