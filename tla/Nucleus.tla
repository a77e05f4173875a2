------------------------------ MODULE Nucleus ------------------------------
(***************************************************************************)
(* The nucleus of MultiPandOS (phase 1 and phase 2): process tree, ready   *)
(* queue, semaphores, the ten system calls, pass-up-or-die, the three      *)
(* kinds of interrupt and the scheduler.                                   *)
(*                                                                         *)
(* There is one processor and the nucleus runs with interrupts disabled,   *)
(* so a step is a whole exception handler, from the exception to the LDST  *)
(* (or WAIT, HALT, PANIC) that ends it.  What the processes ask for, and   *)
(* when devices complete, is arbitrary.                                    *)
(*                                                                         *)
(* Left out: the processor state p_s, the contents of the support          *)
(* structure (only whether there is one matters here) and CPU time.        *)
(***************************************************************************)
EXTENDS Naturals, FiniteSets, ProcQueue

CONSTANTS
  Null,      \* the C null pointer
  UserSem,   \* semaphores of the processes (any int outside subDevice)
  Device,    \* device semaphores in use: subDevice[0 .. NRSEMAPHORES-2]
  Clock,     \* the pseudo-clock: subDevice[NRSEMAPHORES-1]
  Prio,      \* priorities the processes ask for
  MaxPid,    \* bound: processes created in a behaviour
  MaxVal     \* bound: value of a semaphore

SubDevice == Device \cup {Clock}
Sem == UserSem \cup SubDevice

ASSUME PCBAssumption == IsFiniteSet(PCB) /\ PCB # {} /\ Null \notin PCB \cup Sem
ASSUME SemAssumption == /\ UserSem \cap SubDevice = {}
                        /\ Clock \notin Device
ASSUME PrioAssumption == Prio \subseteq Nat
ASSUME BoundAssumption == MaxPid \in Nat \ {0} /\ MaxVal \in Nat \ {0}

VARIABLES
  pcbFree,          \* PCBs on the free list
  p_parent,         \* PCB -> its parent, or Null
  p_prio,           \* PCB -> priority
  p_pid,            \* PCB -> process id (0 when free)
  p_semAdd,         \* PCB -> the semaphore it waits on, or Null
  p_supportStruct,  \* PCB -> whether it has a support structure
  next_pid,         \* static counter of allocPcb
  readyQueue,       \* the queue of the ready processes
  s_procq,          \* semaphore -> the queue of its descriptor in the ASL
  semVal,           \* semaphore -> its value
  processCount, softBlockCount,
  currProc,         \* the running process, or Null
  cpu,              \* "run" | "wait" | "halt" | "panic"
  io                \* device -> "idle" | "busy" | "done" (interrupt pending)

pcbVars   == <<pcbFree, p_parent, p_prio, p_pid, p_supportStruct, next_pid>>
countVars == <<processCount, softBlockCount>>
vars == <<pcbVars, p_semAdd, readyQueue, s_procq, semVal, countVars, currProc,
          cpu, io>>

Live == PCB \ pcbFree

-----------------------------------------------------------------------------
(* phase 1: the free list *)

\* Mutant: the pid is the number of processes, not a counter of its own.
allocPcbCount(p) ==
  /\ pcbFree' = pcbFree \ {p}
  /\ p_pid' = [p_pid EXCEPT ![p] = processCount + 1]
  /\ next_pid' = next_pid + 1

\* p leaves the free list with a new pid; its other fields are reset, which
\* leaves them as recursive_terminate below has put them.
allocPcb(p) ==
  /\ pcbFree' = pcbFree \ {p}
  /\ p_pid' = [p_pid EXCEPT ![p] = next_pid]
  /\ next_pid' = next_pid + 1

-----------------------------------------------------------------------------
(* phase 1: the process tree and the active semaphore list *)

\* The smallest set that holds r and the children of its members: what the
\* recursions of find_pcb_recursive and recursive_terminate visit.
Subtree(r) ==
  {q \in Live : \A S \in SUBSET Live :
     /\ r \in S
     /\ \A c \in Live : p_parent[c] \in S => c \in S
     => q \in S}

\* find_pcb climbs from the running process to the process without a parent
\* and looks for the pid below it.
Root(p) == CHOOSE r \in Live : p_parent[r] = Null /\ p \in Subtree(r)

find_pcb(pid) == {q \in Subtree(Root(currProc)) : p_pid[q] = pid}

\* The semaphores that hold a descriptor.
ActiveSem == {s \in Sem : ~emptyProcQ(s_procq[s])}

\* Mutant: one semaphore descriptor less.
NoFreeSemdShort == Cardinality(ActiveSem) >= Cardinality(PCB) - 1

\* There are MAXPROC semaphore descriptors, as many as PCBs.
NoFreeSemd == Cardinality(ActiveSem) >= Cardinality(PCB)

\* When no descriptor is left insertBlocked links p nowhere (and returns TRUE,
\* which no caller looks at).
insertBlocked(s, p) ==
  IF emptyProcQ(s_procq[s]) /\ NoFreeSemd
  THEN s_procq
  ELSE [s_procq EXCEPT ![s] = InsertTail(@, p)]

removeBlocked(s) == [s_procq EXCEPT ![s] = removeProcQ(@)]

headBlocked(s) == headProcQ(s_procq[s])

\* outBlocked for every process of D: it leaves the queue its p_semAdd names.
outBlocked(D) ==
  [s \in Sem |-> Without(s_procq[s], {p \in D : p_semAdd[p] = s})]

-----------------------------------------------------------------------------
(* phase 2: scheduler.c *)

\* With the ready queue rq, and n processes of which k wait for a device or
\* the clock: dispatch the first one, or stop the processor.
scheduler(rq, n, k) ==
  \/ /\ ~emptyProcQ(rq)
     /\ currProc' = headProcQ(rq)
     /\ readyQueue' = removeProcQ(rq)
     /\ cpu' = "run"
  \/ /\ emptyProcQ(rq)
     /\ currProc' = Null
     /\ readyQueue' = rq
     /\ \/ n = 0 /\ cpu' = "halt"
        \/ n > 0 /\ k > 0 /\ cpu' = "wait"
        \/ n > 0 /\ k = 0 /\ cpu' = "panic"

\* Mutant: a handler that interrupted WAIT goes back to WAIT.
ResumeOnly(rq, n, k) == readyQueue' = rq /\ UNCHANGED <<currProc, cpu>>

\* Where a handler ends that was entered with or without a running process
\* and leaves the ready queue rq.
Resume(rq, n, k) ==
  IF currProc # Null
  THEN readyQueue' = rq /\ UNCHANGED <<currProc, cpu>>
  ELSE scheduler(rq, n, k)

Running == cpu = "run"

-----------------------------------------------------------------------------
(* phase 2: initial.c *)

\* main up to its call of the scheduler, which dispatches the one process.
\* The semaphores of the processes start with any value in the bounds.
Init ==
  \E p \in PCB :
    /\ pcbFree = PCB \ {p}
    /\ p_parent = [x \in PCB |-> Null]
    /\ p_prio = [x \in PCB |-> 0]
    /\ p_pid = [x \in PCB |-> IF x = p THEN 1 ELSE 0]
    /\ p_semAdd = [x \in PCB |-> Null]
    /\ p_supportStruct = [x \in PCB |-> FALSE]
    /\ next_pid = 2
    /\ readyQueue = mkEmptyProcQ
    /\ s_procq = [s \in Sem |-> mkEmptyProcQ]
    /\ semVal \in {v \in [Sem -> 0 .. MaxVal] : \A s \in SubDevice : v[s] = 0}
    /\ processCount = 1
    /\ softBlockCount = 0
    /\ currProc = p
    /\ cpu = "run"
    /\ io = [d \in Device |-> "idle"]

-----------------------------------------------------------------------------
(* phase 2: exceptions.c, the system calls *)

\* A PCB is taken from the free list and becomes a ready child of the caller.
\* (When none is free the caller gets -1 and nothing changes.)
CreateProcess(prio, support) ==
  /\ Running
  /\ next_pid <= MaxPid
  /\ \E p \in pcbFree :
       /\ allocPcb(p)
       /\ p_prio' = [p_prio EXCEPT ![p] = prio]
       /\ p_supportStruct' = [p_supportStruct EXCEPT ![p] = support]
       /\ p_parent' = [p_parent EXCEPT ![p] = currProc]
       /\ p_semAdd' = [p_semAdd EXCEPT ![p] = Null]
       /\ readyQueue' = insertProcQ(readyQueue, p, p_prio')
  /\ processCount' = processCount + 1
  /\ UNCHANGED <<s_procq, semVal, softBlockCount, currProc, cpu, io>>

\* Mutant: a killed process that waited for a semaphore of the processes is
\* counted as one that waited for a device.
SoftBlockedInAny(D) ==
  {p \in D \ Elems(readyQueue) : p # currProc /\ p_semAdd[p] \in Sem}

\* Mutant: the last element of subDevice, the clock, is not looked at.
SoftBlockedInShort(D) ==
  {p \in D \ Elems(readyQueue) : p # currProc /\ p_semAdd[p] \in Device}

\* The processes of D that recursive_terminate finds in the queue of a device
\* or of the clock: neither running nor ready.
SoftBlockedIn(D) ==
  {p \in D \ Elems(readyQueue) : p # currProc /\ p_semAdd[p] \in SubDevice}

\* recursive_terminate of every process of D: each leaves the tree and the
\* queue it is in, the counters follow, the PCB goes back to the free list.
\* The fields of a free PCB are set to those allocPcb will give them.
recursive_terminate(D) ==
  /\ pcbFree' = pcbFree \cup D
  /\ p_parent' = [p \in PCB |-> IF p \in D THEN Null ELSE p_parent[p]]
  /\ p_semAdd' = [p \in PCB |-> IF p \in D THEN Null ELSE p_semAdd[p]]
  /\ p_pid'  = [p \in PCB |-> IF p \in D THEN 0 ELSE p_pid[p]]
  /\ p_prio' = [p \in PCB |-> IF p \in D THEN 0 ELSE p_prio[p]]
  /\ p_supportStruct' = [p \in PCB |-> p \notin D /\ p_supportStruct[p]]
  /\ s_procq' = outBlocked(D \ Elems(readyQueue))
  /\ processCount' = processCount - Cardinality(D)
  /\ softBlockCount' = softBlockCount - Cardinality(SoftBlockedIn(D))

\* Mutant: the children of the target are not killed.
DoomedAlone(pid) == IF pid = 0 THEN {currProc} ELSE find_pcb(pid)

\* Whom TERMPROCESS kills: the target and its progeny.  pid 0 is the caller;
\* nobody when no process has the pid.
Doomed(pid) ==
  UNION {Subtree(t) : t \in IF pid = 0 THEN {currProc} ELSE find_pcb(pid)}

\* A caller that survives is ready again.
TerminateProcess(pid) ==
  LET D    == Doomed(pid)
      left == Without(readyQueue, D)
  IN  /\ Running
      /\ recursive_terminate(D)
      /\ scheduler(IF currProc \in D THEN left
                   ELSE insertProcQ(left, currProc, p_prio),
                   processCount', softBlockCount')
      /\ UNCHANGED <<next_pid, semVal, io>>

\* The caller goes to the queue of s and the processor to another process.
Block(s, soft) ==
  /\ p_semAdd' = [p_semAdd EXCEPT ![currProc] = s]
  /\ s_procq' = insertBlocked(s, currProc)
  /\ softBlockCount' = softBlockCount + soft
  /\ scheduler(readyQueue, processCount, softBlockCount')
  /\ UNCHANGED <<pcbVars, processCount>>

Passeren(s) ==
  /\ Running
  /\ \/ /\ semVal[s] = 0
        /\ Block(s, 0)
        /\ UNCHANGED semVal
     \/ /\ semVal[s] # 0
        /\ semVal' = [semVal EXCEPT ![s] = @ - 1]
        /\ UNCHANGED <<pcbVars, p_semAdd, readyQueue, s_procq, countVars,
                       currProc, cpu>>
  /\ UNCHANGED io

\* Mutant: the waiting processes are expected to show as a negative value.
WakesNegative(s) == semVal[s] < 0 /\ ~emptyProcQ(s_procq[s])

\* Whether VERHOGEN wakes a process or increments the value.
Wakes(s) == semVal[s] = 0 /\ ~emptyProcQ(s_procq[s])

\* A waiting process takes the token at once; the caller keeps the processor.
Verhogen(s) ==
  /\ Running
  /\ \/ /\ Wakes(s)
        /\ LET p == headBlocked(s)
           IN  /\ s_procq' = removeBlocked(s)
               /\ p_semAdd' = [p_semAdd EXCEPT ![p] = Null]
               /\ readyQueue' = insertProcQ(readyQueue, p, p_prio)
        /\ UNCHANGED semVal
     \/ /\ ~Wakes(s)
        /\ semVal[s] < MaxVal
        /\ semVal' = [semVal EXCEPT ![s] = @ + 1]
        /\ UNCHANGED <<p_semAdd, readyQueue, s_procq>>
  /\ UNCHANGED <<pcbVars, countVars, currProc, cpu, io>>

\* Mutant: no command is written when a completion has been saved.
IssueUnlessSaved(d) ==
  io' = [io EXCEPT ![d] = IF semVal[d] > 0 THEN @ ELSE "busy"]

\* The command is written in the register: it acknowledges a pending interrupt
\* and starts an operation; a busy device ignores it and stays busy.
Issue(d) == io' = [io EXCEPT ![d] = "busy"]

\* The caller always waits, whatever the value of the semaphore, and then the
\* command is written.  Processes use a device one at a time (by a mutex of
\* theirs), so nobody else waits for d; but a process killed while it waited
\* leaves its operation running.
DoIO(d) ==
  /\ Running
  /\ emptyProcQ(s_procq[d])
  /\ Block(d, 1)
  /\ Issue(d)
  /\ UNCHANGED semVal

ClockWait ==
  /\ Running
  /\ Block(Clock, 1)
  /\ UNCHANGED <<semVal, io>>

\* The running process goes to the ready queue: YIELD, and the end of a slice.
Requeue ==
  /\ Running
  /\ scheduler(insertProcQ(readyQueue, currProc, p_prio),
               processCount, softBlockCount)
  /\ UNCHANGED <<pcbVars, p_semAdd, s_procq, semVal, countVars, io>>

Yield == Requeue

\* A program trap, an unknown or forbidden system call, or a TLB exception:
\* with a support structure the process goes on in its own handler, which
\* changes nothing here; without one it dies with its progeny.
PassUpOrDie ==
  LET D == Subtree(currProc)
  IN  /\ Running
      /\ \/ p_supportStruct[currProc] /\ UNCHANGED vars
         \/ /\ ~p_supportStruct[currProc]
            /\ recursive_terminate(D)
            /\ scheduler(Without(readyQueue, D), processCount', softBlockCount')
            /\ UNCHANGED <<next_pid, semVal, io>>

-----------------------------------------------------------------------------
(* the devices and phase 2: interrupts.c *)

InterruptsEnabled == cpu \in {"run", "wait"}

\* External: a device completes the operation it was given.
DeviceDone(d) ==
  /\ InterruptsEnabled
  /\ io[d] = "busy"
  /\ io' = [io EXCEPT ![d] = "done"]
  /\ UNCHANGED <<pcbVars, p_semAdd, readyQueue, s_procq, semVal, countVars,
                 currProc, cpu>>

\* The interrupt is acknowledged and the waiting process made ready; when
\* nobody waits (it was killed) the semaphore counts the completion.
DeviceInterrupt(d) ==
  /\ InterruptsEnabled
  /\ io[d] = "done"
  /\ io' = [io EXCEPT ![d] = "idle"]
  /\ \/ /\ ~emptyProcQ(s_procq[d])
        /\ LET p == headBlocked(d)
           IN  /\ s_procq' = removeBlocked(d)
               /\ p_semAdd' = [p_semAdd EXCEPT ![p] = Null]
               /\ softBlockCount' = softBlockCount - 1
               /\ Resume(insertProcQ(readyQueue, p, p_prio),
                         processCount, softBlockCount')
        /\ UNCHANGED semVal
     \/ /\ emptyProcQ(s_procq[d])
        /\ semVal[d] < MaxVal
        /\ semVal' = [semVal EXCEPT ![d] = @ + 1]
        /\ Resume(readyQueue, processCount, softBlockCount)
        /\ UNCHANGED <<s_procq, p_semAdd, softBlockCount>>
  /\ UNCHANGED <<pcbVars, processCount>>

\* The end of a time slice.  The local timer is masked while the processor
\* waits, so there is always a running process.
PLTInterrupt == Requeue

\* Mutant: the clock is looked at only when the processor waits.
WokenWhenIdle == IF currProc = Null THEN s_procq[Clock] ELSE mkEmptyProcQ

\* The processes a tick of the interval timer wakes.
Woken == s_procq[Clock]

\* The interval timer: everybody who waits for the clock becomes ready.
ITInterrupt ==
  /\ InterruptsEnabled
  /\ s_procq' = [s_procq EXCEPT ![Clock] = Without(@, Elems(Woken))]
  /\ p_semAdd' = [p \in PCB |-> IF p \in Elems(Woken) THEN Null
                                ELSE p_semAdd[p]]
  /\ softBlockCount' = softBlockCount - Cardinality(Elems(Woken))
  /\ semVal' = [semVal EXCEPT ![Clock] = 0]
  /\ Resume(InsertAll(readyQueue, Woken, p_prio),
            processCount, softBlockCount')
  /\ UNCHANGED <<pcbVars, processCount, io>>

-----------------------------------------------------------------------------
Stopped == cpu \in {"halt", "panic"} /\ UNCHANGED vars

SystemCall ==
  \/ \E prio \in Prio, support \in BOOLEAN : CreateProcess(prio, support)
  \/ \E pid \in 0 .. MaxPid : TerminateProcess(pid)
  \/ \E s \in UserSem : Passeren(s)
  \/ \E s \in UserSem : Verhogen(s)
  \/ \E d \in Device : DoIO(d)
  \/ ClockWait
  \/ Yield

Next ==
  \/ SystemCall
  \/ PassUpOrDie
  \/ PLTInterrupt
  \/ ITInterrupt
  \/ \E d \in Device : DeviceDone(d) \/ DeviceInterrupt(d)
  \/ Stopped

Spec == Init /\ [][Next]_vars

\* The hardware: the timers run, a device completes what it was given and its
\* interrupt is taken.  Nothing is assumed of what the processes do.
Fairness ==
  /\ WF_vars(ITInterrupt)
  /\ \A p \in PCB : WF_vars(PLTInterrupt /\ currProc = p)
  /\ \A d \in Device : WF_vars(DeviceDone(d)) /\ WF_vars(DeviceInterrupt(d))

FairSpec == Spec /\ Fairness

-----------------------------------------------------------------------------
(* Properties *)

Ready == Elems(readyQueue)
Waiting(s) == Elems(s_procq[s])
SoftBlocked == UNION {Waiting(s) : s \in SubDevice}

\* The types of the variables.
TypeOK ==
  /\ pcbFree \subseteq PCB
  /\ p_parent \in [PCB -> PCB \cup {Null}]
  /\ p_prio \in [PCB -> Nat]
  /\ p_pid \in [PCB -> Nat]
  /\ p_semAdd \in [PCB -> Sem \cup {Null}]
  /\ p_supportStruct \in [PCB -> BOOLEAN]
  /\ next_pid \in Nat
  /\ IsQueue(readyQueue)
  /\ DOMAIN s_procq = Sem /\ \A s \in Sem : IsQueue(s_procq[s])
  /\ semVal \in [Sem -> Nat]
  /\ processCount \in Nat /\ softBlockCount \in Nat
  /\ currProc \in PCB \cup {Null}
  /\ cpu \in {"run", "wait", "halt", "panic"} /\ (cpu = "run" <=> currProc # Null)
  /\ io \in [Device -> {"idle", "busy", "done"}]

\* A PCB is linked by its one p_list field in exactly one place: the free list,
\* the ready queue, the queue of the one semaphore its p_semAdd names, or it is
\* the running process.  A PCB in two lists would corrupt both; one in none
\* would be lost, as happens when insertBlocked finds no free descriptor.
OnePlace ==
  /\ pcbFree \cap Ready = {}
  /\ currProc \notin pcbFree \cup Ready
  /\ \A p \in PCB, s \in Sem : p \in Waiting(s) <=> p_semAdd[p] = s
  /\ \A p \in PCB : p_semAdd[p] # Null <=> p \in Live \ (Ready \cup {currProc})

\* processCount is the number of processes and softBlockCount the number of
\* those that wait for a device or the clock, after every kill, wake-up and
\* failed creation: the scheduler decides HALT, WAIT and PANIC from them alone.
CountersExact ==
  /\ processCount = Cardinality(Live)
  /\ softBlockCount = Cardinality(SoftBlocked)

\* The processes form one tree: find_pcb, which starts from the running
\* process, reaches every process, and nobody survives its parent.
SingleTree ==
  \A p \in Live : /\ p_parent[p] \in Live \cup {Null}
                  /\ \E r \in Live : p_parent[r] = Null /\ Live = Subtree(r)

\* Live processes have different pids, all given out by allocPcb: a PCB that
\* is used again never answers to the pid of the process that died in it.
PidsDistinct ==
  /\ \A p \in Live : p_pid[p] \in 1 .. next_pid - 1
  /\ \A p, q \in Live : p_pid[p] = p_pid[q] => p = q

\* The ready queue is ordered by priority, so that its head is a process of
\* the highest one, also after the clock has woken everybody at once.
ReadySorted == IsSorted(readyQueue, p_prio)

\* Nobody waits on a semaphore that has a token: no wake-up is lost between
\* PASSEREN and VERHOGEN, not even when the first waiting process is killed.
NoLostWakeup == \A s \in UserSem : Waiting(s) # {} => semVal[s] = 0

\* The scheduler halts when there is no process, panics when every process
\* waits on a semaphore only another process could release, and waits only
\* for a process that a device or the clock will wake.
StopJustified ==
  /\ cpu = "halt" => Live = {}
  /\ cpu = "panic" => Live # {} /\ Live = UNION {Waiting(s) : s \in UserSem}
  /\ cpu = "wait" => Ready = {} /\ SoftBlocked # {}

\* The strengthening that is inductive: the scheduler may stop only because the
\* counters are right, and they are because every PCB is in one place.
IInv == TypeOK /\ OnePlace /\ CountersExact /\ StopJustified

\* Whoever waits for a device waits for an operation that is in progress or
\* whose interrupt is pending, also when the process that started it is dead.
DeviceWaiterServed == \A d \in Device : Waiting(d) # {} => io[d] # "idle"

\* Queues are first come, first served: of two processes that stay in a queue
\* none overtakes the other, and a newcomer stands behind everyone of its
\* priority or more (in a semaphore queue: behind everyone).
StaysInOrder(q, r, Behind(_, _)) ==
  \A x \in Elems(q) \cap Elems(r) : \A y \in Elems(r) :
    \/ y \in Elems(q) /\ (<<x, y>> \in q <=> <<x, y>> \in r)
    \/ y \notin Elems(q) /\ (Behind(x, y) => <<x, y>> \in r)

FirstComeFirstServed ==
  [][/\ StaysInOrder(readyQueue, readyQueue',
                     LAMBDA x, y : p_prio[x] >= p_prio[y]')
     /\ \A s \in Sem : StaysInOrder(s_procq[s], s_procq[s]', LAMBDA x, y : TRUE)
    ]_vars

\* A process that waits for the clock or a device is woken (or killed).
ClockWaiterWoken == \A p \in PCB : p_semAdd[p] = Clock ~> p_semAdd[p] # Clock
DeviceWaiterWoken ==
  \A p \in PCB, d \in Device : p_semAdd[p] = d ~> p_semAdd[p] # d

\* A ready process gets the processor (or is killed): true of processes of the
\* same priority, whatever the running ones do.
ReadyRuns == \A p \in PCB : p \in Ready ~> p \notin Ready
=============================================================================
