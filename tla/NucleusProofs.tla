--------------------------- MODULE NucleusProofs ---------------------------
(***************************************************************************)
(* For every set of PCBs, semaphores and devices: each process is in one   *)
(* place, the two counters are exact, and the scheduler stops the          *)
(* processor for the right reason.  From this follow, one after the other: *)
(* the processes form one tree with distinct pids, no wake-up is lost, the *)
(* devices serve whoever waits, the ready queue is sorted and every queue  *)
(* is first come, first served.                                            *)
(*                                                                         *)
(* A handler changes queues and counters and then ends in the scheduler.   *)
(* Settled states what holds of them in between: R are the processes that  *)
(* are ready or running.                                                   *)
(***************************************************************************)
EXTENDS Nucleus, ProcQueueProofs

\* The processes that wait for a device or the clock.
Soft(a) == {p \in PCB : a[p] \in SubDevice}

Settled(R, free, a, q, n, k) ==
  /\ R \subseteq PCB /\ free \subseteq PCB /\ R \cap free = {}
  /\ a \in [PCB -> Sem \cup {Null}]
  /\ DOMAIN q = Sem /\ \A s \in Sem : IsQueue(q[s])
  /\ \A p \in PCB, s \in Sem : p \in Elems(q[s]) <=> a[p] = s
  /\ \A p \in PCB : a[p] # Null <=> p \notin free \cup R
  /\ n = Cardinality(PCB \ free)
  /\ k = Cardinality(Soft(a))

\* The processes that are ready or running.
Active == Ready \cup ({currProc} \ {Null})

-----------------------------------------------------------------------------
\* The members of a queue are PCBs, none of them Null; no semaphore is Null.
LEMMA NotNull == Null \notin PCB /\ Null \notin Sem /\ \A q : Elems(q) \subseteq PCB
BY PCBAssumption DEF Elems

\* Before a handler.
LEMMA BeforeHandler ==
  ASSUME IInv
  PROVE  /\ Settled(Active, pcbFree, p_semAdd, s_procq, processCount, softBlockCount)
         /\ currProc \notin Ready
         /\ IsQueue(readyQueue)
<1>1. SoftBlocked = {p \in PCB : p_semAdd[p] \in SubDevice}
  <2>1. \A p \in PCB : p \in SoftBlocked <=> p_semAdd[p] \in SubDevice
    BY DEF SoftBlocked, Waiting, IInv, OnePlace, SubDevice, Sem
  <2>2. SoftBlocked \subseteq PCB
    BY NotNull DEF SoftBlocked, Waiting
  <2> QED
    BY <2>1, <2>2
<1>2. \A p \in PCB : p_semAdd[p] # Null <=> p \notin pcbFree \cup Active
  BY NotNull DEF IInv, OnePlace, Live, Active
<1>3. Active \subseteq PCB /\ Active \cap pcbFree = {}
  BY NotNull DEF Active, IInv, OnePlace, TypeOK, Ready
<1>4. \A p \in PCB, s \in Sem : p \in Elems(s_procq[s]) <=> p_semAdd[p] = s
  BY DEF IInv, OnePlace, Waiting
<1> QED
  BY <1>1, <1>2, <1>3, <1>4 DEF IInv, TypeOK, OnePlace, CountersExact, Live, Settled, Soft

\* What the scheduler, or the return to the interrupted process, makes of the
\* ready queue: whoever was active before it is afterwards.
LEMMA SchedulerMoves ==
  ASSUME NEW rq, IsQueue(rq), NEW n, NEW k, scheduler(rq, n, k)
  PROVE  /\ IsQueue(readyQueue')
         /\ Active' = Elems(rq)
         /\ currProc' \notin Ready'
         /\ currProc' \in PCB \cup {Null}
         /\ \/ cpu' = "run" /\ currProc' # Null
            \/ /\ Elems(rq) = {} /\ currProc' = Null
               /\ \/ n = 0 /\ cpu' = "halt"
                  \/ n > 0 /\ k > 0 /\ cpu' = "wait"
                  \/ n > 0 /\ k = 0 /\ cpu' = "panic"
<1>1. CASE /\ ~emptyProcQ(rq)
           /\ currProc' = headProcQ(rq)
           /\ readyQueue' = removeProcQ(rq)
           /\ cpu' = "run"
  <2>1. headProcQ(rq) \in Elems(rq)
    BY <1>1, HeadFirst DEF emptyProcQ
  <2>2. IsQueue(readyQueue') /\ Elems(readyQueue') = Elems(rq) \ {headProcQ(rq)}
    BY <1>1, WithoutQueue DEF removeProcQ, outProcQ
  <2> QED
    BY <1>1, <2>1, <2>2, NotNull DEF Active, Ready
<1>2. CASE /\ emptyProcQ(rq)
           /\ currProc' = Null
           /\ readyQueue' = rq
           /\ \/ n = 0 /\ cpu' = "halt"
              \/ n > 0 /\ k > 0 /\ cpu' = "wait"
              \/ n > 0 /\ k = 0 /\ cpu' = "panic"
  BY <1>2, NotNull DEF Active, Ready, emptyProcQ
<1> QED
  BY <1>1, <1>2 DEF scheduler

\* After a handler.
LEMMA AfterHandler ==
  ASSUME IsQueue(readyQueue'), currProc' \notin Ready',
         currProc' \in PCB \cup {Null},
         Settled(Active', pcbFree', p_semAdd', s_procq', processCount', softBlockCount')
  PROVE  OnePlace' /\ CountersExact'
<1>1. \A p \in PCB, s \in Sem : p \in Waiting(s)' <=> p_semAdd'[p] = s
  BY DEF Settled, Waiting
<1>2. (SoftBlocked)' = {p \in PCB : p_semAdd'[p] \in SubDevice}
  <2>1. \A p \in PCB : p \in SoftBlocked' <=> p_semAdd'[p] \in SubDevice
    BY <1>1 DEF SoftBlocked, SubDevice, Sem
  <2>2. SoftBlocked' \subseteq PCB
    BY NotNull DEF SoftBlocked, Waiting
  <2> QED
    BY <2>1, <2>2
<1>3. /\ pcbFree' \cap Ready' = {}
      /\ currProc' \notin pcbFree' \cup Ready'
  BY NotNull DEF Settled, Active
<1>4. \A p \in PCB : p_semAdd'[p] # Null <=> p \in Live' \ (Ready' \cup {currProc'})
  BY NotNull DEF Settled, Active, Live
<1>5. CountersExact'
  BY <1>2 DEF Settled, CountersExact, Live, Soft
<1> QED
  BY <1>1, <1>3, <1>4, <1>5 DEF OnePlace

\* The part of the invariant that the scheduler restores ...
Handled ==
  /\ OnePlace /\ CountersExact /\ StopJustified
  /\ IsQueue(readyQueue)
  /\ currProc \in PCB \cup {Null}
  /\ cpu \in {"run", "wait", "halt", "panic"} /\ (cpu = "run" <=> currProc # Null)
  /\ pcbFree \subseteq PCB
  /\ p_semAdd \in [PCB -> Sem \cup {Null}]
  /\ DOMAIN s_procq = Sem /\ \A s \in Sem : IsQueue(s_procq[s])
  /\ processCount \in Nat /\ softBlockCount \in Nat

\* ... and the types it does not touch.
Fields ==
  /\ p_parent \in [PCB -> PCB \cup {Null}]
  /\ p_prio \in [PCB -> Nat]
  /\ p_pid \in [PCB -> Nat]
  /\ p_supportStruct \in [PCB -> BOOLEAN]
  /\ next_pid \in Nat
  /\ semVal \in [Sem -> Nat]
  /\ io \in [Device -> {"idle", "busy", "done"}]

LEMMA Parts == (IInv <=> Handled /\ Fields) /\ (IInv' <=> Handled' /\ Fields')
BY DEF IInv, Handled, Fields, TypeOK

\* The counters are natural numbers.
LEMMA CountersNat ==
  ASSUME NEW R, NEW free, NEW a, NEW q, NEW n, NEW k, Settled(R, free, a, q, n, k)
  PROVE  /\ n \in Nat /\ (n = 0 <=> PCB = free)
         /\ k \in Nat /\ (k = 0 <=> \A p \in PCB : a[p] \notin SubDevice)
<1>1. IsFiniteSet(PCB \ free) /\ IsFiniteSet(Soft(a))
  BY PCBAssumption, FS_Subset DEF Soft
<1>2. n \in Nat /\ (n = 0 <=> PCB \ free = {})
  BY <1>1, FS_CardinalityType, FS_EmptySet DEF Settled
<1>3. k \in Nat /\ (k = 0 <=> Soft(a) = {})
  BY <1>1, FS_CardinalityType, FS_EmptySet DEF Settled
<1> QED
  BY <1>2, <1>3 DEF Settled, Soft

\* A handler that ends in the scheduler.
LEMMA AfterScheduler ==
  ASSUME NEW rq, IsQueue(rq),
         Settled(Elems(rq), pcbFree', p_semAdd', s_procq', processCount', softBlockCount'),
         scheduler(rq, processCount', softBlockCount')
  PROVE  Handled'
<1>1. /\ IsQueue(readyQueue')
      /\ Active' = Elems(rq)
      /\ currProc' \notin Ready'
      /\ currProc' \in PCB \cup {Null}
      /\ \/ cpu' = "run" /\ currProc' # Null
         \/ /\ Elems(rq) = {} /\ currProc' = Null
            /\ \/ processCount' = 0 /\ cpu' = "halt"
               \/ processCount' > 0 /\ softBlockCount' > 0 /\ cpu' = "wait"
               \/ processCount' > 0 /\ softBlockCount' = 0 /\ cpu' = "panic"
  BY SchedulerMoves
<1>2. OnePlace' /\ CountersExact'
  BY <1>1, AfterHandler
<1>3. /\ processCount' \in Nat /\ (processCount' = 0 <=> PCB = pcbFree')
      /\ softBlockCount' \in Nat
      /\ softBlockCount' = 0 <=> \A p \in PCB : p_semAdd'[p] \notin SubDevice
  BY CountersNat
<1>4. StopJustified'
  <2>0. \A p \in PCB, s \in Sem : p \in Waiting(s)' <=> p_semAdd'[p] = s
    BY <1>2 DEF OnePlace
  <2>1. CASE cpu' = "run"
    BY <2>1 DEF StopJustified
  <2>2. CASE Elems(rq) = {} /\ currProc' = Null /\ processCount' = 0 /\ cpu' = "halt"
    BY <1>3, <2>2 DEF StopJustified, Live
  <2>3. CASE /\ Elems(rq) = {} /\ processCount' > 0 /\ softBlockCount' > 0
             /\ cpu' = "wait"
    <3>1. PICK p \in PCB : p_semAdd'[p] \in SubDevice
      BY <1>3, <2>3
    <3>2. p \in SoftBlocked'
      BY <2>0, <3>1 DEF SoftBlocked, SubDevice, Sem
    <3>3. Ready' = {}
      BY <1>1, <2>3 DEF Active
    <3> QED
      BY <2>3, <3>2, <3>3 DEF StopJustified
  <2>4. CASE /\ Elems(rq) = {} /\ currProc' = Null
             /\ processCount' > 0 /\ softBlockCount' = 0 /\ cpu' = "panic"
    <3>1. Live' # {}
      BY <1>3, <2>4 DEF Live, Settled, Soft
    <3>2. \A p \in PCB : p \in Live' <=> p_semAdd'[p] # Null
      BY <2>4 DEF Settled, Live
    <3>3. \A p \in PCB : p_semAdd'[p] # Null <=> p_semAdd'[p] \in UserSem
      BY <1>3, <2>4, NotNull DEF Settled, Sem
    <3>4. \A p \in PCB : p \in Live' <=> \E s \in UserSem : p \in Waiting(s)'
      BY <2>0, <3>2, <3>3 DEF Sem
    <3>5. Live' \subseteq PCB /\ \A s \in UserSem : Waiting(s)' \subseteq PCB
      BY NotNull DEF Live, Waiting
    <3>6. Live' = (UNION {Waiting(s) : s \in UserSem})'
      BY <3>4, <3>5
    <3> QED
      BY <2>4, <3>1, <3>6 DEF StopJustified
  <2> QED
    BY <1>1, <2>1, <2>2, <2>3, <2>4
<1> QED
  BY <1>1, <1>2, <1>3, <1>4 DEF Handled, Settled

\* A handler that goes on with the process it interrupted, if there was one.
LEMMA AfterResume ==
  ASSUME NEW rq, IsQueue(rq), currProc \in PCB \cup {Null}, currProc \notin Elems(rq),
         cpu = "run" <=> currProc # Null,
         Settled(Elems(rq) \cup ({currProc} \ {Null}), pcbFree', p_semAdd', s_procq',
                 processCount', softBlockCount'),
         Resume(rq, processCount', softBlockCount')
  PROVE  Handled'
<1>1. CASE currProc = Null
  <2>1. Elems(rq) \cup ({currProc} \ {Null}) = Elems(rq)
    BY <1>1
  <2>2. scheduler(rq, processCount', softBlockCount')
    BY <1>1 DEF Resume
  <2> QED
    BY <2>1, <2>2, AfterScheduler
<1>2. CASE currProc # Null
  <2>1. readyQueue' = rq /\ currProc' = currProc /\ cpu' = cpu /\ cpu = "run"
    BY <1>2 DEF Resume
  <2>2. Active' = Elems(rq) \cup ({currProc} \ {Null})
    BY <2>1 DEF Active, Ready
  <2>3. OnePlace' /\ CountersExact'
    BY <2>1, <2>2, AfterHandler DEF Ready
  <2>4. StopJustified'
    BY <2>1 DEF StopJustified
  <2>5. processCount' \in Nat /\ softBlockCount' \in Nat
    BY CountersNat
  <2> QED
    BY <1>2, <2>1, <2>3, <2>4, <2>5 DEF Handled, Settled
<1> QED
  BY <1>1, <1>2

-----------------------------------------------------------------------------
(* The steps of the handlers that move a process from a place to another *)

\* The counter of the waiting processes when one stops or begins to wait.
LEMMA SoftCount ==
  ASSUME NEW a, NEW b, NEW p \in PCB, \A x \in PCB \ {p} : b[x] = a[x]
  PROVE  /\ a[p] \in SubDevice /\ b[p] \notin SubDevice =>
              Cardinality(Soft(b)) = Cardinality(Soft(a)) - 1
         /\ a[p] \notin SubDevice /\ b[p] \in SubDevice =>
              Cardinality(Soft(b)) = Cardinality(Soft(a)) + 1
         /\ (a[p] \in SubDevice <=> b[p] \in SubDevice) =>
              Cardinality(Soft(b)) = Cardinality(Soft(a))
<1>1. IsFiniteSet(Soft(a)) /\ IsFiniteSet(Soft(b))
  BY PCBAssumption, FS_Subset DEF Soft
<1>3. ASSUME a[p] \in SubDevice, b[p] \notin SubDevice
      PROVE  Cardinality(Soft(b)) = Cardinality(Soft(a)) - 1
  <2>1. Soft(b) = Soft(a) \ {p} /\ p \in Soft(a)
    BY <1>3 DEF Soft
  <2> QED
    BY <1>1, <2>1, FS_RemoveElement
<1>4. ASSUME a[p] \notin SubDevice, b[p] \in SubDevice
      PROVE  Cardinality(Soft(b)) = Cardinality(Soft(a)) + 1
  <2>1. Soft(b) = Soft(a) \cup {p} /\ p \notin Soft(a)
    BY <1>4 DEF Soft
  <2> QED
    BY <1>1, <2>1, FS_AddElement
<1>5. ASSUME a[p] \in SubDevice <=> b[p] \in SubDevice
      PROVE  Cardinality(Soft(b)) = Cardinality(Soft(a))
  <2>1. Soft(a) = Soft(b)
    BY <1>5 DEF Soft
  <2> QED
    BY <2>1
<1> QED
  BY <1>3, <1>4, <1>5

\* A waiting process becomes ready.
LEMMA WakeSettles ==
  ASSUME NEW R, NEW free, NEW a, NEW q, NEW n, NEW k, Settled(R, free, a, q, n, k),
         NEW s \in Sem, NEW p \in Elems(q[s])
  PROVE  /\ p \in PCB /\ p \notin R
         /\ Settled(R \cup {p}, free, [a EXCEPT ![p] = Null],
                    [q EXCEPT ![s] = Without(@, {p})],
                    n, IF s \in SubDevice THEN k - 1 ELSE k)
<1> DEFINE b == [a EXCEPT ![p] = Null]
           r == [q EXCEPT ![s] = Without(@, {p})]
<1>1. p \in PCB /\ a[p] = s /\ p \notin R /\ p \notin free
  BY NotNull DEF Settled
<1>2. \A x \in PCB : b[x] = IF x = p THEN Null ELSE a[x]
  BY DEF Settled
<1>3. IsQueue(q[s])
  BY DEF Settled
<1>4. r[s] = Without(q[s], {p}) /\ \A t \in Sem \ {s} : r[t] = q[t]
  BY DEF Settled
<1>5. DOMAIN r = Sem /\ \A t \in Sem : IsQueue(r[t])
  BY <1>3, <1>4, WithoutQueue DEF Settled
<1>6. \A x \in PCB, t \in Sem : x \in Elems(r[t]) <=> b[x] = t
  <2> SUFFICES ASSUME NEW x \in PCB, NEW t \in Sem
               PROVE  x \in Elems(r[t]) <=> b[x] = t
    OBVIOUS
  <2>1. Elems(r[s]) = Elems(q[s]) \ {p}
    BY <1>3, <1>4, WithoutQueue
  <2>2. x \in Elems(q[t]) <=> a[x] = t
    BY DEF Settled
  <2> QED
    BY <1>1, <1>2, <1>4, <2>1, <2>2, NotNull
<1>7. Cardinality(Soft(b)) = IF s \in SubDevice THEN k - 1 ELSE k
  <2>1. Null \notin SubDevice
    BY NotNull DEF Sem
  <2>2. k = Cardinality(Soft(a)) /\ a \in [PCB -> Sem \cup {Null}]
    BY DEF Settled
  <2>3. /\ s \in SubDevice => Cardinality(Soft(b)) = Cardinality(Soft(a)) - 1
        /\ s \notin SubDevice => Cardinality(Soft(b)) = Cardinality(Soft(a))
    <3> HIDE DEF b
    <3> QED
      BY <1>1, <1>2, <2>1, SoftCount
  <2> QED
    BY <2>2, <2>3
<1>8. \A x \in PCB : b[x] # Null <=> x \notin free \cup (R \cup {p})
  BY <1>1, <1>2 DEF Settled
<1>9. b \in [PCB -> Sem \cup {Null}]
  BY DEF Settled
<1> HIDE DEF b, r
<1>10. Settled(R \cup {p}, free, b, r, n, IF s \in SubDevice THEN k - 1 ELSE k)
  BY <1>1, <1>5, <1>6, <1>7, <1>8, <1>9 DEF Settled
<1> QED
  BY <1>1, <1>10 DEF b, r

\* There is a free descriptor for the semaphore an active process waits on:
\* the other semaphores in use have each a process of their own.
LEMMA FreeDescriptor ==
  ASSUME NEW R, Settled(R, pcbFree, p_semAdd, s_procq, processCount, softBlockCount),
         NEW p \in R
  PROVE  ~NoFreeSemd
<1> DEFINE W == {x \in PCB : p_semAdd[x] # Null}
           f == [x \in W |-> p_semAdd[x]]
<1>1. W \subseteq PCB \ {p} /\ p \in PCB
  BY DEF Settled
<1>2. \A x \in W : p_semAdd[x] \in ActiveSem
  BY NotNull DEF Settled, ActiveSem, emptyProcQ
<1>3. \A s \in ActiveSem : \E x \in W : p_semAdd[x] = s
  BY NotNull DEF Settled, ActiveSem, emptyProcQ
<1>4. f \in Surjection(W, ActiveSem)
  BY <1>2, <1>3 DEF Surjection
<1>5. /\ IsFiniteSet(PCB \ {p}) /\ Cardinality(PCB \ {p}) = Cardinality(PCB) - 1
      /\ Cardinality(PCB) \in Nat
  BY <1>1, PCBAssumption, FS_RemoveElement, FS_CardinalityType
<1>6. IsFiniteSet(W) /\ Cardinality(W) <= Cardinality(PCB \ {p})
  BY <1>1, <1>5, FS_Subset
<1>7. IsFiniteSet(ActiveSem) /\ Cardinality(ActiveSem) <= Cardinality(W)
  <2> HIDE DEF W, f
  <2> QED
    BY <1>4, <1>6, FS_Surjection
<1>8. Cardinality(ActiveSem) \in Nat /\ Cardinality(W) \in Nat
  BY <1>6, <1>7, FS_CardinalityType
<1> QED
  BY <1>5, <1>6, <1>7, <1>8 DEF NoFreeSemd

\* An active process begins to wait.
LEMMA BlockSettles ==
  ASSUME NEW R, Settled(R, pcbFree, p_semAdd, s_procq, processCount, softBlockCount),
         NEW p \in R, NEW s \in Sem
  PROVE  Settled(R \ {p}, pcbFree, [p_semAdd EXCEPT ![p] = s], insertBlocked(s, p),
                 processCount,
                 IF s \in SubDevice THEN softBlockCount + 1 ELSE softBlockCount)
<1> DEFINE b == [p_semAdd EXCEPT ![p] = s]
           r == [s_procq EXCEPT ![s] = InsertTail(@, p)]
<1>1. insertBlocked(s, p) = r
  BY FreeDescriptor DEF insertBlocked
<1>2. p \in PCB /\ p_semAdd[p] = Null /\ p \notin Elems(s_procq[s])
  BY NotNull DEF Settled
<1>3. \A x \in PCB : b[x] = IF x = p THEN s ELSE p_semAdd[x]
  BY DEF Settled
<1>4. r[s] = InsertTail(s_procq[s], p) /\ \A t \in Sem \ {s} : r[t] = s_procq[t]
  BY DEF Settled
<1>5. IsQueue(r[s]) /\ Elems(r[s]) = Elems(s_procq[s]) \cup {p}
  BY <1>2, <1>4, InsertTailQueue DEF Settled
<1>6. DOMAIN r = Sem /\ \A t \in Sem : IsQueue(r[t])
  BY <1>4, <1>5 DEF Settled
<1>7. \A x \in PCB, t \in Sem : x \in Elems(r[t]) <=> b[x] = t
  <2> SUFFICES ASSUME NEW x \in PCB, NEW t \in Sem
               PROVE  x \in Elems(r[t]) <=> b[x] = t
    OBVIOUS
  <2>1. x \in Elems(s_procq[t]) <=> p_semAdd[x] = t
    BY DEF Settled
  <2> QED
    BY <1>2, <1>3, <1>4, <1>5, <2>1, NotNull
<1>8. Cardinality(Soft(b)) = IF s \in SubDevice THEN softBlockCount + 1 ELSE softBlockCount
  <2>1. Null \notin SubDevice
    BY NotNull DEF Sem
  <2>2. /\ softBlockCount = Cardinality(Soft(p_semAdd))
        /\ p_semAdd \in [PCB -> Sem \cup {Null}]
    BY DEF Settled
  <2>3. /\ s \in SubDevice =>
             Cardinality(Soft(b)) = Cardinality(Soft(p_semAdd)) + 1
        /\ s \notin SubDevice => Cardinality(Soft(b)) = Cardinality(Soft(p_semAdd))
    <3> HIDE DEF b
    <3> QED
      BY <1>2, <1>3, <2>1, SoftCount
  <2> QED
    BY <2>2, <2>3
<1>9. \A x \in PCB : b[x] # Null <=> x \notin pcbFree \cup (R \ {p})
  BY <1>2, <1>3, NotNull DEF Settled
<1> QED
  BY <1>1, <1>6, <1>7, <1>8, <1>9 DEF Settled

\* A PCB is taken from the free list.
LEMMA AllocSettles ==
  ASSUME NEW R, NEW free, NEW a, NEW q, NEW n, NEW k, Settled(R, free, a, q, n, k),
         NEW p \in free
  PROVE  /\ p \in PCB /\ p \notin R
         /\ Settled(R \cup {p}, free \ {p}, [a EXCEPT ![p] = Null], q, n + 1, k)
<1>1. p \in PCB /\ p \notin R /\ a[p] = Null
  BY DEF Settled
<1>2. [a EXCEPT ![p] = Null] = a
  BY <1>1 DEF Settled
<1>3. PCB \ (free \ {p}) = (PCB \ free) \cup {p}
  BY <1>1
<1>4. Cardinality(PCB \ (free \ {p})) = n + 1
  <2>1. IsFiniteSet(PCB \ free)
    BY PCBAssumption, FS_Subset
  <2>2. p \notin PCB \ free
    OBVIOUS
  <2> QED
    BY <1>3, <2>1, <2>2, FS_AddElement DEF Settled
<1> QED
  BY <1>1, <1>2, <1>4 DEF Settled

\* Processes die: each leaves the place it is in, and the counters follow.
LEMMA KillSettles ==
  ASSUME IInv, NEW D, D \subseteq Live, recursive_terminate(D)
  PROVE  Settled(Active \ D, pcbFree', p_semAdd', s_procq', processCount', softBlockCount')
<1>0. Settled(Active, pcbFree, p_semAdd, s_procq, processCount, softBlockCount)
  BY BeforeHandler
<1>1. /\ pcbFree' = pcbFree \cup D
      /\ p_semAdd' = [p \in PCB |-> IF p \in D THEN Null ELSE p_semAdd[p]]
      /\ s_procq' = outBlocked(D \ Elems(readyQueue))
      /\ processCount' = processCount - Cardinality(D)
      /\ softBlockCount' = softBlockCount - Cardinality(SoftBlockedIn(D))
  BY DEF recursive_terminate
<1>2. D \subseteq PCB /\ D \cap pcbFree = {}
  BY DEF Live
<1>3. \A p \in PCB : p_semAdd'[p] = IF p \in D THEN Null ELSE p_semAdd[p]
  BY <1>1
<1>4. /\ DOMAIN s_procq' = Sem
      /\ \A s \in Sem : IsQueue(s_procq'[s]) /\ Elems(s_procq'[s]) = Elems(s_procq[s]) \ D
  <2>1. DOMAIN s_procq' = Sem
    BY <1>1 DEF outBlocked
  <2> SUFFICES ASSUME NEW s \in Sem
               PROVE  /\ IsQueue(s_procq'[s])
                      /\ Elems(s_procq'[s]) = Elems(s_procq[s]) \ D
    BY <2>1
  <2> DEFINE E == {p \in D \ Elems(readyQueue) : p_semAdd[p] = s}
  <2>2. s_procq'[s] = Without(s_procq[s], E)
    BY <1>1 DEF outBlocked
  <2>3. IsQueue(s_procq[s])
    BY <1>0 DEF Settled
  <2>4. \A p \in Elems(s_procq[s]) : p \in E <=> p \in D
    BY <1>0, NotNull DEF Settled, Active, Ready
  <2> HIDE DEF E
  <2>5. IsQueue(s_procq'[s]) /\ Elems(s_procq'[s]) = Elems(s_procq[s]) \ E
    BY <2>2, <2>3, WithoutQueue
  <2> QED
    BY <2>4, <2>5
<1>5. \A p \in PCB, s \in Sem : p \in Elems(s_procq'[s]) <=> p_semAdd'[p] = s
  BY <1>0, <1>3, <1>4, NotNull DEF Settled
<1>6. \A p \in PCB : p_semAdd'[p] # Null <=> p \notin pcbFree' \cup (Active \ D)
  BY <1>0, <1>1, <1>3 DEF Settled
<1>7. processCount' = Cardinality(PCB \ pcbFree')
  <2>1. IsFiniteSet(PCB \ pcbFree)
    BY PCBAssumption, FS_Subset
  <2>2. Cardinality((PCB \ pcbFree) \ D)
          = Cardinality(PCB \ pcbFree) - Cardinality((PCB \ pcbFree) \cap D)
    BY <2>1, FS_Difference
  <2>3. (PCB \ pcbFree) \ D = PCB \ pcbFree' /\ (PCB \ pcbFree) \cap D = D
    BY <1>1, <1>2
  <2> QED
    BY <1>0, <1>1, <2>2, <2>3 DEF Settled
<1>8. softBlockCount' = Cardinality(Soft(p_semAdd'))
  <2>1. IsFiniteSet(Soft(p_semAdd))
    BY PCBAssumption, FS_Subset DEF Soft
  <2>2. Cardinality(Soft(p_semAdd) \ D)
          = Cardinality(Soft(p_semAdd)) - Cardinality(Soft(p_semAdd) \cap D)
    BY <2>1, FS_Difference
  <2>3. Soft(p_semAdd) \cap D = SoftBlockedIn(D)
    <3>1. \A p \in PCB : p_semAdd[p] \in SubDevice => p \notin Active
      BY <1>0, NotNull DEF Settled, Sem
    <3> QED
      BY <1>2, <3>1, NotNull DEF Soft, SoftBlockedIn, Active, Ready
  <2>4. Soft(p_semAdd) \ D = Soft(p_semAdd')
    BY <1>3, NotNull DEF Soft, Sem
  <2> QED
    BY <1>0, <1>1, <2>2, <2>3, <2>4 DEF Settled
<1>9. /\ Active \ D \subseteq PCB /\ pcbFree' \subseteq PCB
      /\ (Active \ D) \cap pcbFree' = {}
      /\ p_semAdd' \in [PCB -> Sem \cup {Null}]
  BY <1>0, <1>1, <1>2 DEF Settled
<1> QED
  BY <1>4, <1>5, <1>6, <1>7, <1>8, <1>9 DEF Settled

\* The clock: everybody who waits for it becomes ready.
LEMMA TickSettles ==
  ASSUME IInv,
         s_procq' = [s_procq EXCEPT ![Clock] = Without(@, Elems(Woken))],
         p_semAdd' = [p \in PCB |-> IF p \in Elems(Woken) THEN Null
                                    ELSE p_semAdd[p]],
         softBlockCount' = softBlockCount - Cardinality(Elems(Woken)),
         UNCHANGED <<pcbFree, processCount>>
  PROVE  /\ Active \cap Elems(Woken) = {}
         /\ Settled(Active \cup Elems(Woken), pcbFree', p_semAdd', s_procq',
                    processCount', softBlockCount')
<1> DEFINE T == Elems(Woken)
<1>0. Settled(Active, pcbFree, p_semAdd, s_procq, processCount, softBlockCount)
  BY BeforeHandler
<1>1. Clock \in Sem /\ Clock \in SubDevice /\ Null \notin SubDevice
  BY NotNull DEF Sem, SubDevice
<1>2. T \subseteq PCB /\ \A p \in PCB : p \in T <=> p_semAdd[p] = Clock
  BY <1>0, <1>1, NotNull DEF Settled, Woken
<1>3. \A p \in PCB : p_semAdd'[p] = IF p \in T THEN Null ELSE p_semAdd[p]
  OBVIOUS
<1>4. T \cap Active = {} /\ T \cap pcbFree = {}
  BY <1>0, <1>1, <1>2, NotNull DEF Settled
<1>5. s_procq'[Clock] = Without(s_procq[Clock], T)
      /\ \A s \in Sem \ {Clock} : s_procq'[s] = s_procq[s]
  BY <1>0, <1>1 DEF Settled
<1>6. IsQueue(s_procq'[Clock]) /\ Elems(s_procq'[Clock]) = {}
  <2>1. IsQueue(s_procq[Clock])
    BY <1>0, <1>1 DEF Settled
  <2>2. IsQueue(Without(s_procq[Clock], T))
        /\ Elems(Without(s_procq[Clock], T)) = Elems(s_procq[Clock]) \ T
    BY <2>1, WithoutQueue
  <2> QED
    BY <1>5, <2>2 DEF Woken
<1>7. DOMAIN s_procq' = Sem /\ \A s \in Sem : IsQueue(s_procq'[s])
  BY <1>0, <1>5, <1>6 DEF Settled
<1>8. \A p \in PCB, s \in Sem : p \in Elems(s_procq'[s]) <=> p_semAdd'[p] = s
  <2> HIDE DEF T
  <2> QED
    BY <1>0, <1>2, <1>3, <1>5, <1>6, NotNull DEF Settled
<1>9. softBlockCount' = Cardinality(Soft(p_semAdd'))
  <2>1. IsFiniteSet(Soft(p_semAdd))
    BY PCBAssumption, FS_Subset DEF Soft
  <2>2. Soft(p_semAdd) \cap T = T
    BY <1>1, <1>2 DEF Soft
  <2>3. Soft(p_semAdd') = Soft(p_semAdd) \ T
    BY <1>1, <1>2, <1>3 DEF Soft
  <2>4. Cardinality(Soft(p_semAdd) \ T)
          = Cardinality(Soft(p_semAdd)) - Cardinality(Soft(p_semAdd) \cap T)
    BY <2>1, FS_Difference
  <2> QED
    BY <1>0, <2>2, <2>3, <2>4 DEF Settled
<1>10. \A p \in PCB : p_semAdd'[p] # Null <=> p \notin pcbFree' \cup (Active \cup T)
  <2> HIDE DEF T
  <2> QED
    BY <1>0, <1>2, <1>3, <1>4 DEF Settled
<1>11. p_semAdd' \in [PCB -> Sem \cup {Null}]
  BY <1>0 DEF Settled
<1> HIDE DEF T
<1>12. Settled(Active \cup T, pcbFree', p_semAdd', s_procq', processCount', softBlockCount')
  BY <1>0, <1>2, <1>4, <1>7, <1>8, <1>9, <1>10, <1>11 DEF Settled
<1> QED
  BY <1>4, <1>12 DEF T

-----------------------------------------------------------------------------
(* The initial states and the actions *)

LEMMA InitInv == Init => IInv
<1> SUFFICES ASSUME Init PROVE IInv
  OBVIOUS
<1>1. PICK p \in PCB :
        /\ pcbFree = PCB \ {p}
        /\ p_parent = [x \in PCB |-> Null]
        /\ p_prio = [x \in PCB |-> 0]
        /\ p_pid = [x \in PCB |-> IF x = p THEN 1 ELSE 0]
        /\ p_semAdd = [x \in PCB |-> Null]
        /\ p_supportStruct = [x \in PCB |-> FALSE]
        /\ next_pid = 2
        /\ readyQueue = mkEmptyProcQ
        /\ s_procq = [s \in Sem |-> mkEmptyProcQ]
        /\ semVal \in {v \in [Sem -> 0 .. MaxVal] : \A s \in SubDevice : v[s] = 0}
        /\ processCount = 1
        /\ softBlockCount = 0
        /\ currProc = p
        /\ cpu = "run"
        /\ io = [d \in Device |-> "idle"]
  BY DEF Init
<1>2. Ready = {} /\ IsQueue(readyQueue) /\ \A s \in Sem : Waiting(s) = {} /\ IsQueue(s_procq[s])
  BY <1>1, EmptyIsQueue DEF Ready, Waiting, mkEmptyProcQ
<1>3. TypeOK
  <2>1. semVal \in [Sem -> Nat] /\ p # Null
    BY <1>1, NotNull, BoundAssumption
  <2> QED
    BY <1>1, <1>2, <2>1 DEF TypeOK
<1>4. OnePlace
  BY <1>1, <1>2, NotNull DEF OnePlace, Live
<1>5. CountersExact
  <2>1. Live = {p} /\ SoftBlocked = {}
    BY <1>1, <1>2 DEF Live, SoftBlocked, SubDevice, Sem
  <2> QED
    BY <1>1, <2>1, FS_EmptySet, FS_Singleton DEF CountersExact
<1>6. StopJustified
  BY <1>1 DEF StopJustified
<1> QED
  BY <1>3, <1>4, <1>5, <1>6 DEF IInv

LEMMA CreateProcessInv ==
  ASSUME IInv, NEW prio \in Prio, NEW support \in BOOLEAN,
         CreateProcess(prio, support)
  PROVE  IInv'
<1>0. Handled /\ Fields /\ currProc \in PCB /\ currProc # Null
  BY Parts, NotNull DEF Handled, CreateProcess, Running
<1>1. PICK p \in pcbFree :
        /\ allocPcb(p)
        /\ p_prio' = [p_prio EXCEPT ![p] = prio]
        /\ p_supportStruct' = [p_supportStruct EXCEPT ![p] = support]
        /\ p_parent' = [p_parent EXCEPT ![p] = currProc]
        /\ p_semAdd' = [p_semAdd EXCEPT ![p] = Null]
        /\ readyQueue' = insertProcQ(readyQueue, p, p_prio')
  BY DEF CreateProcess
<1>2. /\ processCount' = processCount + 1
      /\ UNCHANGED <<s_procq, semVal, softBlockCount, currProc, cpu, io>>
  BY DEF CreateProcess
<1>3. Fields'
  <2>1. prio \in Nat /\ p \in PCB
    BY <1>0, PrioAssumption DEF Handled
  <2>2. p_prio' \in [PCB -> Nat] /\ p_parent' \in [PCB -> PCB \cup {Null}]
    BY <1>0, <1>1, <2>1 DEF Fields
  <2>3. p_supportStruct' \in [PCB -> BOOLEAN]
    BY <1>0, <1>1, <2>1 DEF Fields
  <2>4. p_pid' \in [PCB -> Nat] /\ next_pid' \in Nat
    BY <1>0, <1>1, <2>1 DEF Fields, allocPcb
  <2> QED
    BY <1>0, <1>2, <2>2, <2>3, <2>4 DEF Fields
<1>4. /\ p \in PCB /\ p \notin Active
      /\ Settled(Active \cup {p}, pcbFree', p_semAdd', s_procq', processCount', softBlockCount')
  BY <1>1, <1>2, BeforeHandler, AllocSettles DEF allocPcb
<1>5. IsQueue(readyQueue') /\ Elems(readyQueue') = Ready \cup {p}
  BY <1>1, <1>4, BeforeHandler, InsertProcQueue DEF Active, Ready
<1>6. currProc \notin Elems(readyQueue')
  BY <1>0, <1>4, <1>5, BeforeHandler DEF Active
<1>7. Elems(readyQueue') \cup ({currProc} \ {Null}) = Active \cup {p}
  BY <1>5 DEF Active
<1>8. Resume(readyQueue', processCount', softBlockCount')
  BY <1>0, <1>2 DEF Resume
<1>9. Handled'
  BY <1>0, <1>4, <1>5, <1>6, <1>7, <1>8, AfterResume DEF CreateProcess, Running
<1> QED
  BY <1>3, <1>9, Parts

\* The types that a kill does not disturb.
LEMMA KillFields ==
  ASSUME Fields, NEW D, recursive_terminate(D), UNCHANGED <<next_pid, semVal, io>>
  PROVE  Fields'
BY DEF Fields, recursive_terminate

LEMMA TerminateProcessInv ==
  ASSUME IInv, NEW pid, TerminateProcess(pid)
  PROVE  IInv'
<1> DEFINE D    == Doomed(pid)
           left == Without(readyQueue, D)
           rq   == IF currProc \in D THEN left
                   ELSE insertProcQ(left, currProc, p_prio)
<1>0. /\ Fields /\ currProc \in PCB /\ currProc # Null /\ currProc \notin Ready
      /\ IsQueue(readyQueue)
  BY Parts, NotNull, BeforeHandler DEF Handled, TerminateProcess, Running
<1>1. /\ recursive_terminate(D) /\ scheduler(rq, processCount', softBlockCount')
      /\ UNCHANGED <<next_pid, semVal, io>>
  BY DEF TerminateProcess
<1>2. D \subseteq Live
  BY DEF Doomed, Subtree
<1> HIDE DEF D
<1>3. Settled(Active \ D, pcbFree', p_semAdd', s_procq', processCount', softBlockCount')
  BY <1>1, <1>2, KillSettles
<1>4. IsQueue(left) /\ Elems(left) = Ready \ D
  BY <1>0, WithoutQueue DEF Ready
<1>5. IsQueue(rq) /\ Elems(rq) = Active \ D
  <2>1. CASE currProc \in D
    BY <1>4, <2>1 DEF Active
  <2>2. CASE currProc \notin D
    <3>1. currProc \in PCB \ Elems(left)
      BY <1>0, <1>4
    <3> HIDE DEF left
    <3>2. /\ IsQueue(insertProcQ(left, currProc, p_prio))
          /\ Elems(insertProcQ(left, currProc, p_prio)) = Elems(left) \cup {currProc}
      BY <1>4, <3>1, InsertProcQueue
    <3> QED
      BY <1>0, <1>4, <2>2, <3>2 DEF Active
  <2> QED
    BY <2>1, <2>2
<1> HIDE DEF rq
<1>6. Handled'
  BY <1>1, <1>3, <1>5, AfterScheduler
<1>7. Fields'
  BY <1>0, <1>1, KillFields
<1> QED
  BY <1>6, <1>7, Parts

\* The caller waits for s and the processor goes to another process.
LEMMA BlockHandled ==
  ASSUME IInv, Running, NEW s \in Sem, NEW soft,
         soft = IF s \in SubDevice THEN 1 ELSE 0, Block(s, soft)
  PROVE  Handled'
<1>0. /\ currProc \in PCB /\ currProc # Null /\ currProc \notin Ready
      /\ IsQueue(readyQueue) /\ softBlockCount \in Nat
  BY Parts, BeforeHandler, NotNull DEF Handled, Running
<1>1. /\ p_semAdd' = [p_semAdd EXCEPT ![currProc] = s]
      /\ s_procq' = insertBlocked(s, currProc)
      /\ softBlockCount' = softBlockCount + soft
      /\ scheduler(readyQueue, processCount', softBlockCount')
      /\ pcbFree' = pcbFree /\ processCount' = processCount
  BY DEF Block, pcbVars
<1>2. currProc \in Active /\ Active \ {currProc} = Elems(readyQueue)
  BY <1>0 DEF Active, Ready
<1>3. softBlockCount' = IF s \in SubDevice THEN softBlockCount + 1 ELSE softBlockCount
  BY <1>0, <1>1
<1>4. Settled(Active \ {currProc}, pcbFree, [p_semAdd EXCEPT ![currProc] = s],
              insertBlocked(s, currProc), processCount,
              IF s \in SubDevice THEN softBlockCount + 1 ELSE softBlockCount)
  BY <1>2, BeforeHandler, BlockSettles
<1>5. Settled(Elems(readyQueue), pcbFree', p_semAdd', s_procq', processCount', softBlockCount')
  BY <1>1, <1>2, <1>3, <1>4
<1> QED
  BY <1>0, <1>1, <1>5, AfterScheduler

\* The first process that waits for s becomes ready.
LEMMA WakeHandled ==
  ASSUME IInv, NEW s \in Sem, ~emptyProcQ(s_procq[s]),
         NEW p, p = headBlocked(s),
         s_procq' = removeBlocked(s),
         p_semAdd' = [p_semAdd EXCEPT ![p] = Null],
         softBlockCount' = IF s \in SubDevice THEN softBlockCount - 1
                           ELSE softBlockCount,
         pcbFree' = pcbFree /\ processCount' = processCount,
         Resume(insertProcQ(readyQueue, p, p_prio), processCount', softBlockCount')
  PROVE  Handled'
<1>0. /\ Settled(Active, pcbFree, p_semAdd, s_procq, processCount, softBlockCount)
      /\ currProc \notin Ready /\ IsQueue(readyQueue)
      /\ currProc \in PCB \cup {Null} /\ cpu = "run" <=> currProc # Null
  BY Parts, BeforeHandler DEF Handled
<1>1. p \in Elems(s_procq[s])
  <2>1. IsQueue(s_procq[s])
    BY <1>0 DEF Settled
  <2> QED
    BY <2>1, HeadFirst DEF emptyProcQ, headBlocked
<1>2. s_procq' = [s_procq EXCEPT ![s] = Without(@, {p})]
  BY DEF removeBlocked, removeProcQ, outProcQ, headBlocked
<1>3. /\ p \in PCB /\ p \notin Active
      /\ Settled(Active \cup {p}, pcbFree, [p_semAdd EXCEPT ![p] = Null],
                 [s_procq EXCEPT ![s] = Without(@, {p})], processCount,
                 IF s \in SubDevice THEN softBlockCount - 1 ELSE softBlockCount)
  BY <1>0, <1>1, WakeSettles
<1>4. Settled(Active \cup {p}, pcbFree', p_semAdd', s_procq', processCount', softBlockCount')
  BY <1>2, <1>3
<1> DEFINE rq == insertProcQ(readyQueue, p, p_prio)
<1>5. IsQueue(rq) /\ Elems(rq) = Ready \cup {p}
  BY <1>0, <1>3, InsertProcQueue DEF Active, Ready
<1> HIDE DEF rq
<1>6. Elems(rq) \cup ({currProc} \ {Null}) = Active \cup {p}
  BY <1>5 DEF Active
<1>7. currProc \notin Elems(rq)
  BY <1>0, <1>3, <1>5, NotNull DEF Active
<1>8. Resume(rq, processCount', softBlockCount')
  BY DEF rq
<1> QED
  BY <1>0, <1>4, <1>5, <1>6, <1>7, <1>8, AfterResume

\* No process moves.
LEMMA NobodyMoves ==
  ASSUME IInv, UNCHANGED <<pcbFree, p_semAdd, s_procq, countVars, readyQueue, currProc, cpu>>
  PROVE  Handled'
<1>1. Handled
  BY Parts
<1>2. OnePlace'
  BY <1>1 DEF Handled, OnePlace, Live, Ready, Waiting
<1>3. CountersExact'
  BY <1>1 DEF Handled, CountersExact, countVars, Live, SoftBlocked, Waiting
<1>4. StopJustified'
  BY <1>1 DEF Handled, StopJustified, Live, Ready, SoftBlocked, Waiting
<1> QED
  BY <1>1, <1>2, <1>3, <1>4 DEF Handled, countVars

\* No PCB is allocated or freed.
LEMMA SameProcesses ==
  ASSUME Fields, UNCHANGED pcbVars, semVal' \in [Sem -> Nat],
         io' \in [Device -> {"idle", "busy", "done"}]
  PROVE  Fields'
BY DEF Fields, pcbVars

LEMMA PasserenInv ==
  ASSUME IInv, NEW s \in UserSem, Passeren(s)
  PROVE  IInv'
<1>0. Fields /\ s \in Sem /\ s \notin SubDevice
  BY Parts, SemAssumption DEF Sem
<1>1. CASE semVal[s] = 0 /\ Block(s, 0) /\ UNCHANGED semVal
  <2>1. Handled'
    BY <1>0, <1>1, BlockHandled DEF Passeren
  <2>2. Fields'
    BY <1>0, <1>1, SameProcesses DEF Passeren, Block, Fields
  <2> QED
    BY <2>1, <2>2, Parts
<1>2. CASE /\ semVal[s] # 0
           /\ semVal' = [semVal EXCEPT ![s] = @ - 1]
           /\ UNCHANGED <<pcbVars, p_semAdd, readyQueue, s_procq, countVars,
                          currProc, cpu>>
  <2>1. Handled'
    BY <1>2, NobodyMoves DEF pcbVars
  <2>2. semVal' \in [Sem -> Nat]
    BY <1>0, <1>2 DEF Fields
  <2>3. Fields'
    BY <1>0, <1>2, <2>2, SameProcesses DEF Passeren, Fields
  <2> QED
    BY <2>1, <2>3, Parts
<1> QED
  BY <1>1, <1>2 DEF Passeren

LEMMA VerhogenInv ==
  ASSUME IInv, NEW s \in UserSem, Verhogen(s)
  PROVE  IInv'
<1>0. /\ Fields /\ s \in Sem /\ s \notin SubDevice
      /\ currProc # Null
  BY Parts, SemAssumption DEF Sem, Verhogen, Running, Handled
<1>a. UNCHANGED <<pcbVars, countVars, currProc, cpu, io>>
  BY DEF Verhogen
<1>1. CASE Wakes(s)
  <2> DEFINE p == headBlocked(s)
  <2>1. /\ s_procq' = removeBlocked(s)
        /\ p_semAdd' = [p_semAdd EXCEPT ![p] = Null]
        /\ readyQueue' = insertProcQ(readyQueue, p, p_prio)
        /\ semVal' = semVal
    BY <1>1 DEF Verhogen
  <2> HIDE DEF p
  <2>2. Resume(insertProcQ(readyQueue, p, p_prio), processCount', softBlockCount')
    BY <1>0, <1>a, <2>1 DEF Resume
  <2>3. Handled'
    BY <1>0, <1>1, <1>a, <2>1, <2>2, WakeHandled DEF p, Wakes, pcbVars, countVars
  <2>4. Fields'
    BY <1>0, <1>a, <2>1, SameProcesses DEF Fields
  <2> QED
    BY <2>3, <2>4, Parts
<1>2. CASE /\ semVal' = [semVal EXCEPT ![s] = @ + 1]
           /\ UNCHANGED <<p_semAdd, readyQueue, s_procq>>
  <2>1. Handled'
    BY <1>a, <1>2, NobodyMoves DEF pcbVars
  <2>2. semVal' \in [Sem -> Nat]
    BY <1>0, <1>2 DEF Fields
  <2>3. Fields'
    BY <1>0, <1>a, <2>2, SameProcesses DEF Fields
  <2> QED
    BY <2>1, <2>3, Parts
<1> QED
  BY <1>1, <1>2 DEF Verhogen

LEMMA DoIOInv ==
  ASSUME IInv, NEW d \in Device, DoIO(d)
  PROVE  IInv'
<1>0. Fields /\ d \in Sem /\ d \in SubDevice
  BY Parts DEF Sem, SubDevice
<1>1. Handled'
  BY <1>0, BlockHandled DEF DoIO
<1>2. Fields'
  BY <1>0, SameProcesses DEF DoIO, Block, Issue, Fields
<1> QED
  BY <1>1, <1>2, Parts

LEMMA ClockWaitInv ==
  ASSUME IInv, ClockWait
  PROVE  IInv'
<1>0. Fields /\ Clock \in Sem /\ Clock \in SubDevice
  BY Parts DEF Sem, SubDevice
<1>1. Handled'
  BY <1>0, BlockHandled DEF ClockWait
<1>2. Fields'
  BY <1>0, SameProcesses DEF ClockWait, Block, Fields
<1> QED
  BY <1>1, <1>2, Parts

LEMMA RequeueInv ==
  ASSUME IInv, Requeue
  PROVE  IInv'
<1> DEFINE rq == insertProcQ(readyQueue, currProc, p_prio)
<1>0. /\ Fields /\ currProc \in PCB /\ currProc # Null /\ currProc \notin Ready
      /\ IsQueue(readyQueue)
      /\ Settled(Active, pcbFree, p_semAdd, s_procq, processCount, softBlockCount)
  BY Parts, BeforeHandler, NotNull DEF Handled, Requeue, Running
<1>1. /\ scheduler(rq, processCount', softBlockCount')
      /\ UNCHANGED <<pcbVars, p_semAdd, s_procq, semVal, countVars, io>>
  BY DEF Requeue, countVars
<1>2. IsQueue(rq) /\ Elems(rq) = Active
  BY <1>0, InsertProcQueue DEF Active, Ready
<1> HIDE DEF rq
<1>3. Settled(Elems(rq), pcbFree', p_semAdd', s_procq', processCount', softBlockCount')
  BY <1>0, <1>1, <1>2 DEF pcbVars, countVars
<1>4. Handled'
  BY <1>1, <1>2, <1>3, AfterScheduler
<1>5. Fields'
  BY <1>0, <1>1, SameProcesses DEF Fields
<1> QED
  BY <1>4, <1>5, Parts

LEMMA PassUpOrDieInv ==
  ASSUME IInv, PassUpOrDie
  PROVE  IInv'
<1> DEFINE D == Subtree(currProc)
<1>0. Fields /\ currProc \in PCB /\ currProc # Null /\ IsQueue(readyQueue)
  BY Parts, BeforeHandler, NotNull DEF Handled, PassUpOrDie, Running
<1>1. CASE UNCHANGED vars
  <2>1. Handled'
    BY <1>1, NobodyMoves DEF vars, pcbVars
  <2>2. Fields'
    BY <1>0, <1>1, SameProcesses DEF vars, Fields
  <2> QED
    BY <2>1, <2>2, Parts
<1>2. CASE /\ recursive_terminate(D)
           /\ scheduler(Without(readyQueue, D), processCount', softBlockCount')
           /\ UNCHANGED <<next_pid, semVal, io>>
  <2>1. D \subseteq Live
    BY DEF Subtree
  <2>2. currProc \in D
    BY <1>0, Parts DEF Subtree, Handled, OnePlace, Live
  <2> HIDE DEF D
  <2>3. IsQueue(Without(readyQueue, D)) /\ Elems(Without(readyQueue, D)) = Active \ D
    BY <1>0, <2>2, WithoutQueue DEF Active, Ready
  <2>4. Settled(Active \ D, pcbFree', p_semAdd', s_procq', processCount', softBlockCount')
    BY <1>2, <2>1, KillSettles
  <2>5. Handled'
    BY <1>2, <2>3, <2>4, AfterScheduler
  <2>6. Fields'
    BY <1>0, <1>2, KillFields
  <2> QED
    BY <2>5, <2>6, Parts
<1> QED
  BY <1>1, <1>2 DEF PassUpOrDie

LEMMA DeviceDoneInv ==
  ASSUME IInv, NEW d \in Device, DeviceDone(d)
  PROVE  IInv'
<1>1. Handled'
  BY NobodyMoves DEF DeviceDone, pcbVars
<1>2. Fields'
  BY Parts, SameProcesses DEF DeviceDone, Fields
<1> QED
  BY <1>1, <1>2, Parts

LEMMA DeviceInterruptInv ==
  ASSUME IInv, NEW d \in Device, DeviceInterrupt(d)
  PROVE  IInv'
<1>0. /\ Handled /\ Fields /\ d \in Sem /\ d \in SubDevice
  BY Parts DEF Sem, SubDevice
<1>a. UNCHANGED <<pcbVars, processCount>>
  BY DEF DeviceInterrupt
<1>b. io' \in [Device -> {"idle", "busy", "done"}]
  BY <1>0 DEF DeviceInterrupt, Fields
<1>1. CASE ~emptyProcQ(s_procq[d])
  <2> DEFINE p == headBlocked(d)
  <2>1. /\ s_procq' = removeBlocked(d)
        /\ p_semAdd' = [p_semAdd EXCEPT ![p] = Null]
        /\ softBlockCount' = softBlockCount - 1
        /\ Resume(insertProcQ(readyQueue, p, p_prio), processCount', softBlockCount')
        /\ semVal' = semVal
    BY <1>1, <1>a DEF DeviceInterrupt
  <2> HIDE DEF p
  <2>2. Handled'
    BY <1>0, <1>1, <1>a, <2>1, WakeHandled DEF p, pcbVars
  <2>3. Fields'
    BY <1>0, <1>a, <1>b, <2>1, SameProcesses DEF Fields
  <2> QED
    BY <2>2, <2>3, Parts
<1>2. CASE emptyProcQ(s_procq[d])
  <2>1. /\ semVal' = [semVal EXCEPT ![d] = @ + 1]
        /\ Resume(readyQueue, processCount', softBlockCount')
        /\ UNCHANGED <<s_procq, p_semAdd, softBlockCount>>
    BY <1>2, <1>a DEF DeviceInterrupt
  <2>2. /\ Settled(Active, pcbFree, p_semAdd, s_procq, processCount, softBlockCount)
        /\ currProc \notin Ready /\ IsQueue(readyQueue)
    BY BeforeHandler
  <2>3. Settled(Elems(readyQueue) \cup ({currProc} \ {Null}), pcbFree', p_semAdd',
                s_procq', processCount', softBlockCount')
    BY <1>a, <2>1, <2>2 DEF Active, Ready, pcbVars
  <2>4. Handled'
    BY <1>0, <2>1, <2>2, <2>3, AfterResume DEF Handled, Ready
  <2>5. semVal' \in [Sem -> Nat]
    BY <1>0, <2>1 DEF Fields
  <2>6. Fields'
    BY <1>0, <1>a, <1>b, <2>5, SameProcesses
  <2> QED
    BY <2>4, <2>6, Parts
<1> QED
  BY <1>1, <1>2

LEMMA ITInterruptInv ==
  ASSUME IInv, ITInterrupt
  PROVE  IInv'
<1> DEFINE rq == InsertAll(readyQueue, Woken, p_prio)
<1>0. /\ Handled /\ Fields /\ Clock \in Sem
      /\ currProc \notin Ready /\ IsQueue(readyQueue) /\ IsQueue(Woken)
  BY Parts, BeforeHandler DEF Handled, Sem, SubDevice, Woken
<1>1. /\ s_procq' = [s_procq EXCEPT ![Clock] = Without(@, Elems(Woken))]
      /\ p_semAdd' = [p \in PCB |-> IF p \in Elems(Woken) THEN Null
                                    ELSE p_semAdd[p]]
      /\ softBlockCount' = softBlockCount - Cardinality(Elems(Woken))
      /\ semVal' = [semVal EXCEPT ![Clock] = 0]
      /\ UNCHANGED <<pcbVars, processCount, io>>
      /\ Resume(rq, processCount', softBlockCount')
  BY DEF ITInterrupt
<1>2. /\ Active \cap Elems(Woken) = {}
      /\ Settled(Active \cup Elems(Woken), pcbFree', p_semAdd', s_procq',
                 processCount', softBlockCount')
  BY <1>1, TickSettles DEF pcbVars
<1>3. IsQueue(rq) /\ Elems(rq) = Ready \cup Elems(Woken)
  <2>1. Elems(readyQueue) \cap Elems(Woken) = {} /\ p_prio \in [PCB -> Nat]
    BY <1>0, <1>2 DEF Active, Ready, Fields
  <2> QED
    BY <1>0, <2>1, PCBAssumption, InsertAllQueue DEF Ready
<1> HIDE DEF rq
<1>4. /\ Elems(rq) \cup ({currProc} \ {Null}) = Active \cup Elems(Woken)
      /\ currProc \notin Elems(rq)
  BY <1>0, <1>2, <1>3, NotNull DEF Active
<1>5. Handled'
  BY <1>0, <1>1, <1>2, <1>3, <1>4, AfterResume DEF Handled
<1>6. semVal' \in [Sem -> Nat]
  BY <1>0, <1>1 DEF Fields
<1>7. Fields'
  BY <1>0, <1>1, <1>6, SameProcesses DEF Fields
<1> QED
  BY <1>5, <1>7, Parts

\* Every step keeps the invariant.
LEMMA NextInv == IInv /\ [Next]_vars => IInv'
<1> SUFFICES ASSUME IInv, [Next]_vars PROVE IInv'
  OBVIOUS
<1>1. CASE SystemCall
  BY <1>1, CreateProcessInv, TerminateProcessInv, PasserenInv, VerhogenInv, DoIOInv,
     ClockWaitInv, RequeueInv DEF SystemCall, Yield
<1>2. CASE PassUpOrDie
  BY <1>2, PassUpOrDieInv
<1>3. CASE PLTInterrupt
  BY <1>3, RequeueInv DEF PLTInterrupt
<1>4. CASE ITInterrupt
  BY <1>4, ITInterruptInv
<1>5. ASSUME NEW d \in Device, DeviceDone(d) \/ DeviceInterrupt(d) PROVE IInv'
  BY <1>5, DeviceDoneInv, DeviceInterruptInv
<1>6. CASE Stopped \/ UNCHANGED vars
  <2>1. UNCHANGED vars
    BY <1>6 DEF Stopped
  <2>2. Handled'
    BY <2>1, NobodyMoves DEF vars, pcbVars
  <2>3. Fields'
    BY <2>1, Parts, SameProcesses DEF vars, Fields
  <2> QED
    BY <2>2, <2>3, Parts
<1> QED
  BY <1>1, <1>2, <1>3, <1>4, <1>5, <1>6 DEF Next

-----------------------------------------------------------------------------
(* Theorems *)

\* The strengthened invariant holds in every reachable state.
THEOREM Inductive == Spec => []IInv
BY InitInv, NextInv, PTL DEF Spec

\* Type correctness: the queues stay queues and the counters never go below 0.
THEOREM TypeOKHolds == Spec => []TypeOK
<1>1. IInv => TypeOK
  BY DEF IInv
<1> QED
  BY <1>1, Inductive, PTL

\* Every PCB is in exactly one place: free, running, ready, or in the queue of
\* the semaphore it waits on.
THEOREM OnePlaceHolds == Spec => []OnePlace
<1>1. IInv => OnePlace
  BY DEF IInv
<1> QED
  BY <1>1, Inductive, PTL

\* processCount and softBlockCount are exact, whatever is killed, and wherever
\* it waits.
THEOREM CountersExactHolds == Spec => []CountersExact
<1>1. IInv => CountersExact
  BY DEF IInv
<1> QED
  BY <1>1, Inductive, PTL

\* HALT, WAIT and PANIC come only when they are justified.
THEOREM StopJustifiedHolds == Spec => []StopJustified
<1>1. IInv => StopJustified
  BY DEF IInv
<1> QED
  BY <1>1, Inductive, PTL
-----------------------------------------------------------------------------
(* The process tree *)

\* A group of processes that holds the children of its members.
ChildClosed(S) == \A c \in Live : p_parent[c] \in S => c \in S

\* What TERMPROCESS kills is such a group: nobody survives its parent.
LEMMA SubtreeClosed ==
  ASSUME NEW r
  PROVE  /\ Subtree(r) \subseteq Live /\ ChildClosed(Subtree(r))
         /\ r \in Live => r \in Subtree(r)
         /\ \A S \in SUBSET Live : r \in S /\ ChildClosed(S) => Subtree(r) \subseteq S
BY DEF Subtree, ChildClosed

LEMMA DoomedClosed ==
  ASSUME NEW pid
  PROVE  Doomed(pid) \subseteq Live /\ ChildClosed(Doomed(pid))
<1>1. \A t : Subtree(t) \subseteq Live /\ ChildClosed(Subtree(t))
  BY SubtreeClosed
<1> QED
  BY <1>1 DEF Doomed, ChildClosed

\* What a step does to the table of processes: nothing, or it takes one PCB
\* for a child of the running process, or it kills a group.
Creates(p) ==
  /\ currProc \in Live
  /\ allocPcb(p)
  /\ p_parent' = [p_parent EXCEPT ![p] = currProc]

Kills(D) ==
  /\ D \subseteq Live /\ ChildClosed(D)
  /\ recursive_terminate(D)
  /\ next_pid' = next_pid

LEMMA TreeStep ==
  ASSUME IInv, [Next]_vars
  PROVE  UNCHANGED pcbVars \/ (\E p \in pcbFree : Creates(p)) \/ (\E D : Kills(D))
<1>1. ASSUME NEW prio, NEW support, CreateProcess(prio, support)
      PROVE  \E p \in pcbFree : Creates(p)
  <2>1. currProc \in Live
    BY <1>1, NotNull DEF CreateProcess, Running, IInv, TypeOK, OnePlace, Live
  <2> QED
    BY <1>1, <2>1 DEF CreateProcess, Creates
<1>2. ASSUME NEW pid, TerminateProcess(pid) PROVE \E D : Kills(D)
  BY <1>2, DoomedClosed DEF TerminateProcess, Kills
<1>3. ASSUME PassUpOrDie PROVE UNCHANGED pcbVars \/ \E D : Kills(D)
  BY <1>3, SubtreeClosed DEF PassUpOrDie, Kills, vars
<1>4. ASSUME NEW s \in UserSem, Passeren(s) \/ Verhogen(s) PROVE UNCHANGED pcbVars
  BY <1>4 DEF Passeren, Verhogen, Block
<1>5. ASSUME NEW d \in Device, DoIO(d) \/ DeviceDone(d) \/ DeviceInterrupt(d)
      PROVE  UNCHANGED pcbVars
  BY <1>5 DEF DoIO, Block, DeviceDone, DeviceInterrupt
<1>6. ASSUME ClockWait \/ Requeue \/ ITInterrupt \/ Stopped \/ UNCHANGED vars
      PROVE  UNCHANGED pcbVars
  BY <1>6 DEF ClockWait, Block, Requeue, ITInterrupt, Stopped, vars
<1> QED
  BY <1>1, <1>2, <1>3, <1>4, <1>5, <1>6 DEF Next, SystemCall, Yield, PLTInterrupt

\* A new process is a leaf below the running one.
LEMMA CreatesTree ==
  ASSUME SingleTree, pcbFree \subseteq PCB, p_parent \in [PCB -> PCB \cup {Null}],
         NEW p \in pcbFree, Creates(p)
  PROVE  SingleTree'
<1>1. Live' = Live \cup {p} /\ p \notin Live /\ currProc \in Live
  BY DEF Creates, allocPcb, Live
<1>2. \A c \in Live' : p_parent'[c] = IF c = p THEN currProc ELSE p_parent[c]
  BY <1>1 DEF Creates, Live
<1>3. PICK r \in Live : p_parent[r] = Null /\ Live = Subtree(r)
  BY <1>1 DEF SingleTree
<1>4. \A c \in Live' : p_parent'[c] \in Live' \cup {Null}
  BY <1>1, <1>2 DEF SingleTree
<1>5. p_parent'[r] = Null
  BY <1>1, <1>2, <1>3
<1>6. ASSUME NEW S \in SUBSET Live', r \in S,
             \A c \in Live' : p_parent'[c] \in S => c \in S
      PROVE  S = Live'
  <2>1. ChildClosed(S \cap Live)
    BY <1>1, <1>2, <1>6 DEF ChildClosed
  <2>2. Live \subseteq S
    BY <1>3, <1>6, <2>1, SubtreeClosed
  <2>3. p \in S
    BY <1>1, <1>2, <1>6, <2>2
  <2> QED
    BY <1>1, <2>2, <2>3
<1>7. Live' = Subtree(r)'
  BY <1>6 DEF Subtree
<1> QED
  BY <1>1, <1>3, <1>4, <1>5, <1>7 DEF SingleTree

\* What is left when a group dies with its progeny is still one tree.
LEMMA KillsTree ==
  ASSUME SingleTree, NEW D, Kills(D)
  PROVE  SingleTree'
<1>1. Live' = Live \ D /\ D \subseteq Live /\ ChildClosed(D)
  BY DEF Kills, recursive_terminate, Live
<1>2. \A c \in Live' : p_parent'[c] = p_parent[c]
  BY <1>1 DEF Kills, recursive_terminate, Live
<1>3. \A c \in Live' : p_parent'[c] \in Live' \cup {Null}
  BY <1>1, <1>2 DEF SingleTree, ChildClosed
<1> SUFFICES ASSUME NEW p \in Live'
             PROVE  \E r \in Live' : p_parent'[r] = Null /\ Live' = Subtree(r)'
  BY <1>3 DEF SingleTree
<1>4. PICK r \in Live : p_parent[r] = Null /\ Live = Subtree(r)
  BY <1>1 DEF SingleTree
<1>5. r \notin D
  BY <1>1, <1>4, SubtreeClosed
<1>6. ASSUME NEW S \in SUBSET Live', r \in S,
             \A c \in Live' : p_parent'[c] \in S => c \in S
      PROVE  S = Live'
  <2>1. ChildClosed(S \cup D) /\ S \cup D \in SUBSET Live /\ r \in S \cup D
    BY <1>1, <1>2, <1>6 DEF ChildClosed
  <2>2. Live \subseteq S \cup D
    BY <1>4, <2>1, SubtreeClosed
  <2> QED
    BY <1>1, <2>2
<1>7. Live' = Subtree(r)'
  BY <1>6 DEF Subtree
<1> QED
  BY <1>1, <1>2, <1>4, <1>5, <1>7

\* Every step leaves one tree.
LEMMA TreeInv == IInv /\ SingleTree /\ [Next]_vars => SingleTree'
<1> SUFFICES ASSUME IInv, SingleTree, [Next]_vars PROVE SingleTree'
  OBVIOUS
<1>1. CASE UNCHANGED pcbVars
  BY <1>1 DEF pcbVars, SingleTree, Subtree, Live
<1>2. ASSUME NEW p \in pcbFree, Creates(p) PROVE SingleTree'
  BY <1>2, CreatesTree DEF IInv, TypeOK
<1>3. ASSUME NEW D, Kills(D) PROVE SingleTree'
  BY <1>3, KillsTree
<1> QED
  BY <1>1, <1>2, <1>3, TreeStep

LEMMA TreeInit == Init => SingleTree
<1> SUFFICES ASSUME Init PROVE SingleTree
  OBVIOUS
<1>1. PICK p \in PCB : pcbFree = PCB \ {p} /\ p_parent = [x \in PCB |-> Null]
  BY DEF Init
<1>2. Live = {p} /\ p_parent[p] = Null
  BY <1>1 DEF Live
<1>3. Subtree(p) = {p}
  BY <1>2, SubtreeClosed
<1> QED
  BY <1>2, <1>3 DEF SingleTree

\* The processes form one tree, whoever is created and whichever part of it
\* is killed: find_pcb reaches every process and nobody survives its parent.
THEOREM SingleTreeHolds == Spec => []SingleTree
BY TreeInit, TreeInv, Inductive, PTL DEF Spec

-----------------------------------------------------------------------------
(* Process ids *)

LEMMA PidsInit == Init => PidsDistinct
<1> SUFFICES ASSUME Init PROVE PidsDistinct
  OBVIOUS
<1>1. PICK p \in PCB : /\ pcbFree = PCB \ {p} /\ next_pid = 2
                       /\ p_pid = [x \in PCB |-> IF x = p THEN 1 ELSE 0]
  BY DEF Init
<1>2. Live = {p} /\ p_pid[p] = 1
  BY <1>1 DEF Live
<1> QED
  BY <1>1, <1>2 DEF PidsDistinct

\* A new process gets a pid that nobody has had; the others keep theirs.
LEMMA PidsInv == IInv /\ PidsDistinct /\ [Next]_vars => PidsDistinct'
<1> SUFFICES ASSUME IInv, PidsDistinct, [Next]_vars PROVE PidsDistinct'
  OBVIOUS
<1>0. next_pid \in Nat /\ p_pid \in [PCB -> Nat] /\ pcbFree \subseteq PCB
  BY DEF IInv, TypeOK
<1>1. CASE UNCHANGED pcbVars
  BY <1>1 DEF pcbVars, PidsDistinct, Live
<1>2. ASSUME NEW p \in pcbFree, Creates(p) PROVE PidsDistinct'
  <2>1. Live' = Live \cup {p} /\ p \notin Live /\ next_pid' = next_pid + 1
    BY <1>0, <1>2 DEF Creates, allocPcb, Live
  <2>2. \A q \in Live' : p_pid'[q] = IF q = p THEN next_pid ELSE p_pid[q]
    BY <1>0, <1>2, <2>1 DEF Creates, allocPcb, Live
  <2>3. next_pid > 1
    BY <1>0, <1>2 DEF Creates, PidsDistinct
  <2>4. \A q \in Live : p_pid[q] \in 1 .. next_pid - 1
    BY DEF PidsDistinct
  <2>5. \A q \in Live' : p_pid'[q] \in 1 .. next_pid' - 1
    BY <1>0, <2>1, <2>2, <2>3, <2>4
  <2>6. \A q, s \in Live' : p_pid'[q] = p_pid'[s] => q = s
    BY <1>0, <2>1, <2>2, <2>4 DEF PidsDistinct
  <2> QED
    BY <2>5, <2>6 DEF PidsDistinct
<1>3. ASSUME NEW D, Kills(D) PROVE PidsDistinct'
  <2>1. Live' = Live \ D /\ next_pid' = next_pid
    BY <1>3 DEF Kills, recursive_terminate, Live
  <2>2. \A q \in Live' : p_pid'[q] = p_pid[q]
    BY <1>3, <2>1 DEF Kills, recursive_terminate, Live
  <2> QED
    BY <2>1, <2>2 DEF PidsDistinct
<1> QED
  BY <1>1, <1>2, <1>3, TreeStep

\* No two processes have the same pid, and none has one that was not given out,
\* however often a PCB is freed and used again.
THEOREM PidsDistinctHolds == Spec => []PidsDistinct
BY PidsInit, PidsInv, Inductive, PTL DEF Spec

\* The tree has one root, and it is above every process.
LEMMA RootAboveAll ==
  ASSUME SingleTree, NEW p \in Live
  PROVE  Root(p) \in Live /\ p_parent[Root(p)] = Null /\ Subtree(Root(p)) = Live
<1>0. Null \notin Live
  BY NotNull DEF Live
<1>1. PICK r \in Live : p_parent[r] = Null /\ Live = Subtree(r)
  BY DEF SingleTree
<1>2. /\ Root(p) \in Live /\ p_parent[Root(p)] = Null
      /\ p \in Subtree(Root(p))
  BY <1>1 DEF Root
<1>3. Root(p) = r
  <2> SUFFICES ASSUME Root(p) # r PROVE FALSE
    OBVIOUS
  <2>1. ChildClosed(Live \ {Root(p)})
    BY <1>0, <1>2 DEF ChildClosed
  <2>2. Subtree(r) \subseteq Live \ {Root(p)}
    BY <1>1, <2>1, SubtreeClosed
  <2> QED
    BY <1>1, <1>2, <2>2
<1> QED
  BY <1>1, <1>2, <1>3

\* find_pcb, which only follows the links of the tree from the running process,
\* finds the process that has the pid whenever there is one, and TERMPROCESS
\* then kills that process with its progeny and nobody else.
FindPcbExact ==
  Running => \A pid \in Nat, t \in Live :
    p_pid[t] = pid => find_pcb(pid) = {t} /\ (pid # 0 => Doomed(pid) = Subtree(t))

\* find_pcb finds exactly the process that has the pid, and TERMPROCESS of that
\* pid kills exactly the subtree of that process.
THEOREM FindPcbExactHolds == Spec => []FindPcbExact
<1>1. IInv /\ SingleTree /\ PidsDistinct => FindPcbExact
  <2> SUFFICES ASSUME IInv, SingleTree, PidsDistinct, Running,
                      NEW t \in Live
               PROVE  /\ find_pcb(p_pid[t]) = {t}
                      /\ p_pid[t] # 0 => Doomed(p_pid[t]) = Subtree(t)
    BY DEF FindPcbExact
  <2>1. currProc \in Live
    BY NotNull DEF Running, IInv, TypeOK, OnePlace, Live
  <2>2. find_pcb(p_pid[t]) = {q \in Live : p_pid[q] = p_pid[t]}
    BY <2>1, RootAboveAll DEF find_pcb
  <2>3. find_pcb(p_pid[t]) = {t}
    BY <2>2 DEF PidsDistinct
  <2> QED
    BY <2>3 DEF Doomed
<1> QED
  BY <1>1, Inductive, SingleTreeHolds, PidsDistinctHolds, PTL

-----------------------------------------------------------------------------
(* The queues of the semaphores *)

\* Taking nobody out changes nothing.
LEMMA WithoutNobody ==
  ASSUME NEW q, IsQueue(q)
  PROVE  Without(q, {}) = q
BY DEF IsQueue, Without

\* What a step does to the queue of s: some leave it, or the running process,
\* which was in no queue, joins it at the tail.
Leaves(s) == \E E : s_procq'[s] = Without(s_procq[s], E)

Joins(s) ==
  /\ currProc \in PCB /\ currProc \notin Waiting(s)
  /\ s_procq'[s] = InsertTail(s_procq[s], currProc)
  /\ s \in UserSem => semVal[s] = 0 /\ semVal' = semVal
  /\ s \in Device => Waiting(s) = {} /\ io'[s] = "busy"

\* The queues that a step leaves alone.
LEMMA SameLeaves ==
  ASSUME IInv, NEW s \in Sem, s_procq'[s] = s_procq[s]
  PROVE  Leaves(s)
BY WithoutNobody DEF IInv, TypeOK, Leaves

\* The caller of a handler that blocks joins the queue, and no other.
LEMMA BlockJoins ==
  ASSUME IInv, Running, NEW s \in Sem, NEW soft, Block(s, soft)
  PROVE  /\ currProc \in PCB /\ currProc \notin Waiting(s)
         /\ s_procq'[s] = InsertTail(s_procq[s], currProc)
         /\ \A t \in Sem \ {s} : s_procq'[t] = s_procq[t]
<1>1. currProc \in PCB /\ currProc \in Active
  BY NotNull DEF IInv, TypeOK, Running, Active
<1>2. currProc \notin Waiting(s)
  BY <1>1, NotNull DEF IInv, OnePlace
<1>3. ~NoFreeSemd
  BY <1>1, BeforeHandler, FreeDescriptor
<1>4. s_procq' = [s_procq EXCEPT ![s] = InsertTail(@, currProc)]
  BY <1>3 DEF Block, insertBlocked
<1> QED
  BY <1>1, <1>2, <1>4 DEF IInv, TypeOK

\* A process that is woken leaves the queue, and no other.
LEMMA WakeLeaves ==
  ASSUME IInv, NEW s \in Sem, s_procq' = removeBlocked(s)
  PROVE  /\ s_procq'[s] = Without(s_procq[s], {headBlocked(s)})
         /\ \A t \in Sem : Leaves(t)
<1>1. /\ s_procq'[s] = Without(s_procq[s], {headBlocked(s)})
      /\ \A t \in Sem \ {s} : s_procq'[t] = s_procq[t]
  BY DEF IInv, TypeOK, removeBlocked, removeProcQ, outProcQ, headBlocked
<1> QED
  BY <1>1, SameLeaves DEF Leaves

LEMMA KillLeaves ==
  ASSUME NEW D, recursive_terminate(D), NEW s \in Sem
  PROVE  Leaves(s)
BY DEF recursive_terminate, outBlocked, Leaves

\* Every step, queue by queue.
LEMMA QueueStep ==
  ASSUME IInv, [Next]_vars, NEW s \in Sem
  PROVE  Leaves(s) \/ Joins(s)
<1>0. /\ UserSem \subseteq Sem /\ Device \subseteq Sem /\ Clock \in Sem
      /\ UserSem \cap Device = {} /\ Clock \notin UserSem /\ Clock \notin Device
  BY SemAssumption DEF Sem, SubDevice
<1>1. ASSUME NEW t \in UserSem, Passeren(t) PROVE Leaves(s) \/ Joins(s)
  <2>1. CASE semVal[t] = 0 /\ Block(t, 0) /\ UNCHANGED semVal
    <3>1. CASE s = t
      BY <1>0, <1>1, <2>1, <3>1, BlockJoins DEF Passeren, Joins
    <3>2. CASE s # t
      BY <1>0, <1>1, <2>1, <3>2, BlockJoins, SameLeaves DEF Passeren
    <3> QED
      BY <3>1, <3>2
  <2>2. CASE UNCHANGED s_procq
    BY <2>2, SameLeaves
  <2> QED
    BY <1>1, <2>1, <2>2 DEF Passeren
<1>2. ASSUME NEW d \in Device, DoIO(d) PROVE Leaves(s) \/ Joins(s)
  <2>1. Running /\ Block(d, 1) /\ Waiting(d) = {}
    BY <1>2 DEF DoIO, emptyProcQ, Waiting
  <2>2. io'[d] = "busy"
    BY <1>2 DEF DoIO, Issue, IInv, TypeOK
  <2>3. CASE s = d
    BY <1>0, <2>1, <2>2, <2>3, BlockJoins DEF Joins
  <2>4. CASE s # d
    BY <1>0, <2>1, <2>4, BlockJoins, SameLeaves
  <2> QED
    BY <2>3, <2>4
<1>3. ASSUME ClockWait PROVE Leaves(s) \/ Joins(s)
  <2>1. CASE s = Clock
    BY <1>0, <1>3, <2>1, BlockJoins DEF ClockWait, Joins
  <2>2. CASE s # Clock
    BY <1>0, <1>3, <2>2, BlockJoins, SameLeaves DEF ClockWait
  <2> QED
    BY <2>1, <2>2
<1>4. ASSUME NEW t \in UserSem, Verhogen(t) PROVE Leaves(s)
  BY <1>0, <1>4, WakeLeaves, SameLeaves DEF Verhogen
<1>5. ASSUME NEW d \in Device, DeviceInterrupt(d) PROVE Leaves(s)
  BY <1>0, <1>5, WakeLeaves, SameLeaves DEF DeviceInterrupt
<1>6. ASSUME ITInterrupt PROVE Leaves(s)
  <2>1. CASE s = Clock
    BY <1>0, <1>6, <2>1 DEF ITInterrupt, Leaves, IInv, TypeOK
  <2>2. CASE s # Clock
    BY <1>0, <1>6, <2>2, SameLeaves DEF ITInterrupt, IInv, TypeOK
  <2> QED
    BY <2>1, <2>2
<1>7. ASSUME NEW pid, TerminateProcess(pid) PROVE Leaves(s)
  BY <1>7, KillLeaves DEF TerminateProcess
<1>8. ASSUME PassUpOrDie PROVE Leaves(s)
  BY <1>8, KillLeaves, SameLeaves DEF PassUpOrDie, vars
<1>9. ASSUME NEW prio, NEW support, CreateProcess(prio, support) PROVE Leaves(s)
  BY <1>9, SameLeaves DEF CreateProcess
<1>10. ASSUME NEW d \in Device, DeviceDone(d) PROVE Leaves(s)
  BY <1>10, SameLeaves DEF DeviceDone
<1>11. ASSUME Requeue \/ Stopped \/ UNCHANGED vars PROVE Leaves(s)
  BY <1>11, SameLeaves DEF Requeue, Stopped, vars
<1> QED
  BY <1>1, <1>2, <1>3, <1>4, <1>5, <1>6, <1>7, <1>8, <1>9, <1>10, <1>11
     DEF Next, SystemCall, Yield, PLTInterrupt

\* The members of the queue of s after a step.
LEMMA QueueMembers ==
  ASSUME IInv, NEW s \in Sem
  PROVE  /\ Leaves(s) => Waiting(s)' \subseteq Waiting(s)
         /\ Joins(s) => Waiting(s)' = Waiting(s) \cup {currProc}
<1>1. IsQueue(s_procq[s])
  BY DEF IInv, TypeOK
<1>2. ASSUME Leaves(s) PROVE Waiting(s)' \subseteq Waiting(s)
  BY <1>1, <1>2, WithoutQueue DEF Leaves, Waiting
<1>3. ASSUME Joins(s) PROVE Waiting(s)' = Waiting(s) \cup {currProc}
  BY <1>1, <1>3, InsertTailQueue DEF Joins, Waiting
<1> QED
  BY <1>2, <1>3

-----------------------------------------------------------------------------
(* No wake-up is lost *)

\* A semaphore gets a token only when it has one or nobody waits for it.
LEMMA TokenStep ==
  ASSUME IInv, [Next]_vars, NEW s \in UserSem, semVal'[s] # 0
  PROVE  semVal[s] # 0 \/ Waiting(s) = {}
<1>0. UserSem \subseteq Sem /\ Device \subseteq Sem /\ Clock \in Sem /\ s \in Sem
      /\ UserSem \cap Device = {} /\ Clock \notin UserSem /\ semVal \in [Sem -> Nat]
  BY SemAssumption DEF Sem, SubDevice, IInv, TypeOK
<1>1. ASSUME NEW t \in UserSem, Passeren(t) PROVE semVal[s] # 0
  BY <1>0, <1>1 DEF Passeren
<1>2. ASSUME NEW t \in UserSem, Verhogen(t) PROVE semVal[s] # 0 \/ Waiting(s) = {}
  BY <1>0, <1>2 DEF Verhogen, Wakes, emptyProcQ, Waiting
<1>3. ASSUME NEW d \in Device, DeviceInterrupt(d) PROVE semVal'[s] = semVal[s]
  BY <1>0, <1>3 DEF DeviceInterrupt
<1>4. ASSUME ITInterrupt PROVE semVal'[s] = semVal[s]
  BY <1>0, <1>4 DEF ITInterrupt
<1>5. ASSUME NEW pid, TerminateProcess(pid) PROVE semVal' = semVal
  BY <1>5 DEF TerminateProcess
<1>6. ASSUME NEW prio, NEW support, CreateProcess(prio, support) PROVE semVal' = semVal
  BY <1>6 DEF CreateProcess
<1>7. ASSUME NEW d \in Device, DoIO(d) \/ DeviceDone(d) PROVE semVal' = semVal
  BY <1>7 DEF DoIO, DeviceDone
<1>8. ASSUME ClockWait \/ Requeue \/ PassUpOrDie \/ Stopped \/ UNCHANGED vars
      PROVE  semVal' = semVal
  BY <1>8 DEF ClockWait, Requeue, PassUpOrDie, Stopped, vars
<1> QED
  BY <1>1, <1>2, <1>3, <1>4, <1>5, <1>6, <1>7, <1>8
     DEF Next, SystemCall, Yield, PLTInterrupt

LEMMA WakeupInv == IInv /\ NoLostWakeup /\ [Next]_vars => NoLostWakeup'
<1> SUFFICES ASSUME IInv, NoLostWakeup, [Next]_vars, NEW s \in UserSem,
                    Waiting(s)' # {}, semVal'[s] # 0
             PROVE  FALSE
  BY DEF NoLostWakeup
<1>0. s \in Sem
  BY DEF Sem
<1>1. semVal[s] # 0 \/ Waiting(s) = {}
  BY TokenStep
<1>2. Waiting(s) = {}
  BY <1>1 DEF NoLostWakeup
<1>3. CASE Leaves(s)
  BY <1>0, <1>2, <1>3, QueueMembers
<1>4. CASE Joins(s)
  <2>1. semVal[s] = 0 /\ semVal' = semVal
    BY <1>4 DEF Joins
  <2> QED
    BY <2>1
<1> QED
  BY <1>0, <1>3, <1>4, QueueStep

\* What the semaphores and the devices are at the start.
LEMMA QuietInit ==
  Init => /\ \A s \in Sem : Waiting(s) = {}
          /\ readyQueue = {}
<1>1. Init => s_procq = [s \in Sem |-> {}] /\ readyQueue = {}
  BY DEF Init, mkEmptyProcQ
<1> QED
  BY <1>1 DEF Waiting, Elems

\* Nobody ever waits on a semaphore of the processes that has a token.
THEOREM NoLostWakeupHolds == Spec => []NoLostWakeup
<1>1. Init => NoLostWakeup
  BY QuietInit DEF NoLostWakeup, Sem
<1> QED
  BY <1>1, WakeupInv, Inductive, PTL DEF Spec

-----------------------------------------------------------------------------
(* The devices serve whoever waits for them *)

\* The strengthening: one process at a time waits for a device, so that the
\* interrupt that serves the first one leaves nobody behind.
OneDeviceWaiter == \A d \in Device : \A p, q \in Waiting(d) : p = q

ServedInv == DeviceWaiterServed /\ OneDeviceWaiter

\* A device is idle only when it was, or its interrupt has been served.
LEMMA DeviceStep ==
  ASSUME IInv, [Next]_vars, NEW d \in Device, io'[d] = "idle"
  PROVE  \/ io[d] = "idle" \/ Waiting(d) = {}
         \/ s_procq'[d] = Without(s_procq[d], {headBlocked(d)})
<1>0. Device \subseteq Sem /\ io \in [Device -> {"idle", "busy", "done"}]
  BY DEF Sem, SubDevice, IInv, TypeOK
<1>1. ASSUME NEW e \in Device, DeviceInterrupt(e)
      PROVE  \/ io[d] = "idle" \/ Waiting(d) = {}
             \/ s_procq'[d] = Without(s_procq[d], {headBlocked(d)})
  BY <1>0, <1>1, WakeLeaves DEF DeviceInterrupt, emptyProcQ, Waiting
<1>2. ASSUME NEW e \in Device, DeviceDone(e) \/ DoIO(e) PROVE io[d] = "idle"
  BY <1>0, <1>2 DEF DeviceDone, DoIO, Issue
<1>3. ASSUME NEW t \in UserSem, Passeren(t) \/ Verhogen(t) PROVE io' = io
  BY <1>3 DEF Passeren, Verhogen
<1>4. ASSUME NEW pid, TerminateProcess(pid) PROVE io' = io
  BY <1>4 DEF TerminateProcess
<1>5. ASSUME NEW prio, NEW support, CreateProcess(prio, support) PROVE io' = io
  BY <1>5 DEF CreateProcess
<1>6. ASSUME ClockWait \/ Requeue \/ ITInterrupt \/ PassUpOrDie \/ Stopped
             \/ UNCHANGED vars
      PROVE  io' = io
  BY <1>6 DEF ClockWait, Requeue, ITInterrupt, PassUpOrDie, Stopped, vars
<1> QED
  BY <1>1, <1>2, <1>3, <1>4, <1>5, <1>6 DEF Next, SystemCall, Yield, PLTInterrupt

LEMMA ServedStep == IInv /\ ServedInv /\ [Next]_vars => ServedInv'
<1> SUFFICES ASSUME IInv, ServedInv, [Next]_vars, NEW d \in Device
             PROVE  /\ Waiting(d)' # {} => io'[d] # "idle"
                    /\ \A p, q \in Waiting(d)' : p = q
  BY DEF ServedInv, DeviceWaiterServed, OneDeviceWaiter
<1>0. d \in Sem
  BY DEF Sem, SubDevice
<1>1. CASE Leaves(d)
  <2>1. Waiting(d)' \subseteq Waiting(d)
    BY <1>0, <1>1, QueueMembers
  <2>2. ASSUME Waiting(d)' # {}, io'[d] = "idle" PROVE FALSE
    <3>1. s_procq'[d] = Without(s_procq[d], {headBlocked(d)}) /\ Waiting(d) # {}
      BY <2>1, <2>2, DeviceStep DEF ServedInv, DeviceWaiterServed
    <3>2. IsQueue(s_procq[d])
      BY <1>0 DEF IInv, TypeOK
    <3>3. headBlocked(d) \in Waiting(d)
      BY <3>1, <3>2, HeadFirst DEF headBlocked, Waiting
    <3>4. Waiting(d)' = Waiting(d) \ {headBlocked(d)}
      BY <3>1, <3>2, WithoutQueue DEF Waiting
    <3> QED
      BY <2>2, <3>3, <3>4 DEF ServedInv, OneDeviceWaiter
  <2> QED
    BY <2>1, <2>2 DEF ServedInv, OneDeviceWaiter
<1>2. CASE Joins(d)
  <2>1. Waiting(d)' = {currProc} /\ io'[d] = "busy"
    BY <1>0, <1>2, QueueMembers DEF Joins
  <2> QED
    BY <2>1
<1> QED
  BY <1>0, <1>1, <1>2, QueueStep

\* Whoever waits for a device waits for an operation in progress or an
\* interrupt that is pending.
THEOREM DeviceWaiterServedHolds == Spec => []DeviceWaiterServed
<1>1. Init => ServedInv
  BY QuietInit DEF ServedInv, DeviceWaiterServed, OneDeviceWaiter, Sem, SubDevice
<1>2. ServedInv => DeviceWaiterServed
  BY DEF ServedInv
<1> QED
  BY <1>1, <1>2, ServedStep, Inductive, PTL DEF Spec

-----------------------------------------------------------------------------
(* The ready queue *)

\* A handler first builds a queue rq: some of the ready processes, or these
\* and a newcomer, or the ready processes and everybody who waited for the
\* clock; F are those it kills, whose priority is lost.  The scheduler then
\* takes the head out, or nobody.
BuiltBy(rq, F) ==
  \/ rq = Without(readyQueue, F)
  \/ \E p \in PCB \ Ready : rq = insertProcQ(Without(readyQueue, F), p, p_prio')
  \/ rq = InsertAll(readyQueue, Woken, p_prio) /\ p_prio' = p_prio

Built(rq) ==
  /\ p_prio' \in [PCB -> Nat]
  /\ \E F : /\ \A x \in Ready \ F : p_prio'[x] = p_prio[x]
            /\ BuiltBy(rq, F)

TakenFrom(rq) == \E E : readyQueue' = Without(rq, E)

\* What a handler builds is a queue.
LEMMA BuiltQueue ==
  ASSUME IInv, NEW rq, Built(rq)
  PROVE  IsQueue(rq)
<1>1. PICK F : BuiltBy(rq, F)
  BY DEF Built
<1>2. IsQueue(readyQueue) /\ IsQueue(Woken) /\ p_prio \in [PCB -> Nat]
  BY DEF IInv, TypeOK, Woken, Sem, SubDevice
<1>3. IsQueue(Without(readyQueue, F)) /\ Elems(Without(readyQueue, F)) \subseteq Ready
  BY <1>2, WithoutQueue DEF Ready
<1>4. Elems(readyQueue) \cap Elems(Woken) = {}
  <2>1. \A p \in PCB : p \in Elems(Woken) => p_semAdd[p] # Null /\ p \notin Ready
    BY NotNull DEF IInv, OnePlace, Waiting, Woken, Sem, SubDevice
  <2> QED
    BY <2>1, NotNull DEF Ready
<1>5. ASSUME NEW p \in PCB \ Ready, rq = insertProcQ(Without(readyQueue, F), p, p_prio')
      PROVE  IsQueue(rq)
  BY <1>3, <1>5, InsertProcQueue
<1>6. ASSUME rq = InsertAll(readyQueue, Woken, p_prio) PROVE IsQueue(rq)
  BY <1>2, <1>4, <1>6, InsertAllQueue, PCBAssumption
<1> QED
  BY <1>1, <1>3, <1>5, <1>6 DEF BuiltBy

\* The scheduler takes the head out, or nobody.
LEMMA SchedulerTakes ==
  ASSUME NEW rq, IsQueue(rq), NEW n, NEW k, scheduler(rq, n, k) \/ Resume(rq, n, k)
  PROVE  TakenFrom(rq)
<1>1. rq = Without(rq, {})
  BY WithoutNobody
<1> QED
  BY <1>1 DEF scheduler, Resume, TakenFrom, removeProcQ, outProcQ

\* insertProcQ looks at the priorities of the newcomer and of the members.
LEMMA SamePriorities ==
  ASSUME NEW q, NEW p, NEW f, NEW g, \A x \in Elems(q) \cup {p} : f[x] = g[x]
  PROVE  insertProcQ(q, p, f) = insertProcQ(q, p, g)
<1>1. Overtaken(q, p, f) = Overtaken(q, p, g)
  BY DEF Overtaken
<1> QED
  BY <1>1 DEF insertProcQ

\* The handlers that leave the table of processes alone.
LEMMA BuiltSame ==
  ASSUME IInv, p_prio' = p_prio
  PROVE  /\ Built(readyQueue)
         /\ \A p \in PCB \ Ready : Built(insertProcQ(readyQueue, p, p_prio))
         /\ Built(InsertAll(readyQueue, Woken, p_prio))
<1>1. readyQueue = Without(readyQueue, {}) /\ p_prio \in [PCB -> Nat]
  BY WithoutNobody DEF IInv, TypeOK
<1>2. /\ BuiltBy(readyQueue, {})
      /\ \A p \in PCB \ Ready : BuiltBy(insertProcQ(readyQueue, p, p_prio), {})
      /\ BuiltBy(InsertAll(readyQueue, Woken, p_prio), {})
  BY <1>1 DEF BuiltBy
<1> QED
  BY <1>1, <1>2 DEF Built

\* The handlers that kill.
LEMMA BuiltKill ==
  ASSUME IInv, NEW D, recursive_terminate(D)
  PROVE  /\ Built(Without(readyQueue, D))
         /\ currProc \in PCB \ (Ready \cup D) =>
              Built(insertProcQ(Without(readyQueue, D), currProc, p_prio))
<1>1. p_prio \in [PCB -> Nat] /\ IsQueue(readyQueue)
  BY DEF IInv, TypeOK
<1>2. \A x \in PCB : p_prio'[x] = IF x \in D THEN 0 ELSE p_prio[x]
  BY DEF recursive_terminate
<1>3. p_prio' \in [PCB -> Nat]
  BY <1>1 DEF recursive_terminate
<1>4. \A x \in Ready \ D : p_prio'[x] = p_prio[x]
  BY <1>2, NotNull DEF Ready
<1>5. ASSUME currProc \in PCB \ (Ready \cup D)
      PROVE  insertProcQ(Without(readyQueue, D), currProc, p_prio)
               = insertProcQ(Without(readyQueue, D), currProc, p_prio')
  <2>1. Elems(Without(readyQueue, D)) = Ready \ D
    BY <1>1, WithoutQueue DEF Ready
  <2>2. \A x \in Elems(Without(readyQueue, D)) \cup {currProc} : p_prio[x] = p_prio'[x]
    BY <1>2, <1>4, <1>5, <2>1
  <2> QED
    BY <2>2, SamePriorities
<1>6. BuiltBy(Without(readyQueue, D), D)
  BY DEF BuiltBy
<1>7. currProc \in PCB \ (Ready \cup D) =>
        BuiltBy(insertProcQ(Without(readyQueue, D), currProc, p_prio), D)
  BY <1>5 DEF BuiltBy
<1> QED
  BY <1>3, <1>4, <1>6, <1>7 DEF Built

\* Every step: a queue is built and the scheduler takes from it.
LEMMA ReadyStep ==
  ASSUME IInv, [Next]_vars
  PROVE  \E rq : Built(rq) /\ TakenFrom(rq)
<1>0. /\ IsQueue(readyQueue) /\ readyQueue = Without(readyQueue, {})
      /\ \A t \in UserSem : t \in Sem
      /\ \A d \in Device : d \in Sem
  BY WithoutNobody DEF IInv, TypeOK, Sem, SubDevice
<1>1. Running => currProc \in PCB \ Ready
  BY BeforeHandler, NotNull DEF IInv, TypeOK, Running
<1>2. ASSUME p_prio' = p_prio, readyQueue' = readyQueue
      PROVE  Built(readyQueue) /\ TakenFrom(readyQueue)
  BY <1>0, <1>2, BuiltSame DEF TakenFrom
<1>3. ASSUME NEW s, NEW soft, Block(s, soft)
      PROVE  Built(readyQueue) /\ TakenFrom(readyQueue)
  BY <1>0, <1>3, BuiltSame, SchedulerTakes DEF Block, pcbVars
<1>4. ASSUME NEW s \in Sem, ~emptyProcQ(s_procq[s]), p_prio' = p_prio,
             NEW n, NEW k, NEW rq, rq = insertProcQ(readyQueue, headBlocked(s), p_prio),
             readyQueue' = rq \/ Resume(rq, n, k)
      PROVE  Built(rq) /\ TakenFrom(rq)
  <2>1. headBlocked(s) \in Waiting(s)
    BY <1>4, HeadFirst DEF IInv, TypeOK, headBlocked, emptyProcQ, Waiting
  <2>2. headBlocked(s) \in PCB \ Ready
    BY <2>1, NotNull DEF IInv, OnePlace, Waiting
  <2>3. Built(rq)
    BY <1>4, <2>2, BuiltSame
  <2>4. IsQueue(rq) /\ rq = Without(rq, {})
    BY <2>3, BuiltQueue, WithoutNobody
  <2>5. CASE readyQueue' = rq
    BY <2>3, <2>4, <2>5 DEF TakenFrom
  <2>6. CASE Resume(rq, n, k)
    BY <2>3, <2>4, <2>6, SchedulerTakes
  <2> QED
    BY <1>4, <2>5, <2>6
<1>5. ASSUME NEW prio \in Prio, NEW support, CreateProcess(prio, support)
      PROVE  Built(readyQueue') /\ TakenFrom(readyQueue')
  <2>1. PICK p \in pcbFree : /\ p_prio' = [p_prio EXCEPT ![p] = prio]
                             /\ readyQueue' = insertProcQ(readyQueue, p, p_prio')
    BY <1>5 DEF CreateProcess
  <2>2. p \in PCB \ Ready /\ p_prio \in [PCB -> Nat]
    BY DEF IInv, TypeOK, OnePlace
  <2>3. p_prio' \in [PCB -> Nat] /\ \A x \in Ready : p_prio'[x] = p_prio[x]
    BY <2>1, <2>2, PrioAssumption, NotNull DEF Ready
  <2>4. BuiltBy(readyQueue', {})
    BY <1>0, <2>1, <2>2 DEF BuiltBy
  <2>5. Built(readyQueue')
    BY <2>3, <2>4 DEF Built
  <2>6. readyQueue' = Without(readyQueue', {})
    BY <2>5, BuiltQueue, WithoutNobody
  <2> QED
    BY <2>5, <2>6 DEF TakenFrom
<1>6. ASSUME NEW pid, TerminateProcess(pid)
      PROVE  \E rq : Built(rq) /\ TakenFrom(rq)
  <2> DEFINE D  == Doomed(pid)
             rq == IF currProc \in D THEN Without(readyQueue, D)
                   ELSE insertProcQ(Without(readyQueue, D), currProc, p_prio)
  <2>1. recursive_terminate(D) /\ scheduler(rq, processCount', softBlockCount') /\ Running
    BY <1>6 DEF TerminateProcess
  <2> HIDE DEF D
  <2>2. Built(rq)
    BY <1>1, <2>1, BuiltKill
  <2> HIDE DEF rq
  <2> QED
    BY <2>1, <2>2, BuiltQueue, SchedulerTakes
<1>7. ASSUME PassUpOrDie PROVE \E rq : Built(rq) /\ TakenFrom(rq)
  <2> DEFINE D  == Subtree(currProc)
             rq == Without(readyQueue, D)
  <2>1. CASE UNCHANGED vars
    BY <1>2, <2>1 DEF vars, pcbVars
  <2>2. CASE recursive_terminate(D) /\ scheduler(rq, processCount', softBlockCount')
    <3>1. Built(rq)
      BY <2>2, BuiltKill
    <3> HIDE DEF rq
    <3> QED
      BY <2>2, <3>1, BuiltQueue, SchedulerTakes
  <2> QED
    BY <1>7, <2>1, <2>2 DEF PassUpOrDie
<1>8. ASSUME NEW t \in UserSem, Passeren(t) PROVE Built(readyQueue) /\ TakenFrom(readyQueue)
  BY <1>2, <1>3, <1>8 DEF Passeren, pcbVars
<1>9. ASSUME NEW t \in UserSem, Verhogen(t) PROVE \E rq : Built(rq) /\ TakenFrom(rq)
  <2>1. CASE UNCHANGED readyQueue
    BY <1>2, <1>9, <2>1 DEF Verhogen, pcbVars
  <2>2. CASE /\ ~emptyProcQ(s_procq[t])
             /\ readyQueue' = insertProcQ(readyQueue, headBlocked(t), p_prio)
    BY <1>0, <1>4, <1>9, <2>2 DEF Verhogen, pcbVars
  <2> QED
    BY <1>9, <2>1, <2>2 DEF Verhogen, Wakes
<1>10. ASSUME NEW d \in Device, DeviceInterrupt(d) PROVE \E rq : Built(rq) /\ TakenFrom(rq)
  <2>0. p_prio' = p_prio
    BY <1>10 DEF DeviceInterrupt, pcbVars
  <2>1. CASE ~emptyProcQ(s_procq[d])
    <3>1. Resume(insertProcQ(readyQueue, headBlocked(d), p_prio), processCount, softBlockCount')
      BY <1>10, <2>1 DEF DeviceInterrupt
    <3> QED
      BY <1>0, <1>4, <2>0, <2>1, <3>1
  <2>2. CASE emptyProcQ(s_procq[d])
    <3>1. Resume(readyQueue, processCount, softBlockCount)
      BY <1>10, <2>2 DEF DeviceInterrupt
    <3> QED
      BY <1>0, <2>0, <3>1, BuiltSame, SchedulerTakes
  <2> QED
    BY <2>1, <2>2
<1>11. ASSUME ITInterrupt PROVE \E rq : Built(rq) /\ TakenFrom(rq)
  <2> DEFINE rq == InsertAll(readyQueue, Woken, p_prio)
  <2>1. Resume(rq, processCount, softBlockCount') /\ p_prio' = p_prio
    BY <1>11 DEF ITInterrupt, pcbVars
  <2>2. Built(rq)
    BY <2>1, BuiltSame
  <2> HIDE DEF rq
  <2> QED
    BY <2>1, <2>2, BuiltQueue, SchedulerTakes
<1>12. ASSUME NEW d \in Device, DoIO(d) PROVE Built(readyQueue) /\ TakenFrom(readyQueue)
  BY <1>3, <1>12 DEF DoIO
<1>13. ASSUME ClockWait PROVE Built(readyQueue) /\ TakenFrom(readyQueue)
  BY <1>3, <1>13 DEF ClockWait
<1>14. ASSUME Requeue PROVE \E rq : Built(rq) /\ TakenFrom(rq)
  <2> DEFINE rq == insertProcQ(readyQueue, currProc, p_prio)
  <2>1. scheduler(rq, processCount, softBlockCount) /\ p_prio' = p_prio /\ Running
    BY <1>14 DEF Requeue, pcbVars
  <2>2. Built(rq)
    BY <1>1, <2>1, BuiltSame
  <2> HIDE DEF rq
  <2> QED
    BY <2>1, <2>2, BuiltQueue, SchedulerTakes
<1>15. ASSUME NEW d \in Device, DeviceDone(d) PROVE Built(readyQueue) /\ TakenFrom(readyQueue)
  BY <1>2, <1>15 DEF DeviceDone, pcbVars
<1>16. ASSUME Stopped \/ UNCHANGED vars PROVE Built(readyQueue) /\ TakenFrom(readyQueue)
  BY <1>2, <1>16 DEF Stopped, vars, pcbVars
<1> QED
  BY <1>5, <1>6, <1>7, <1>8, <1>9, <1>10, <1>11, <1>12, <1>13, <1>14, <1>15, <1>16
     DEF Next, SystemCall, Yield, PLTInterrupt

\* A queue is sorted by the priorities of its members.
LEMMA SortedBySame ==
  ASSUME NEW q, IsQueue(q), NEW f, NEW g, IsSorted(q, f),
         \A x \in Elems(q) : f[x] = g[x]
  PROVE  IsSorted(q, g)
BY DEF IsQueue, IsSorted

\* What a handler builds from a sorted ready queue is sorted.
LEMMA BuiltSorted ==
  ASSUME IInv, ReadySorted, NEW rq, Built(rq)
  PROVE  IsSorted(rq, p_prio')
<1>1. PICK F : /\ \A x \in Ready \ F : p_prio'[x] = p_prio[x]
               /\ BuiltBy(rq, F)
  BY DEF Built
<1>2. /\ IsQueue(readyQueue) /\ IsQueue(Woken) /\ p_prio \in [PCB -> Nat]
      /\ p_prio' \in [PCB -> Nat]
  BY DEF IInv, TypeOK, Woken, Sem, SubDevice, Built
<1> DEFINE left == Without(readyQueue, F)
<1>3. IsQueue(left) /\ Elems(left) = Ready \ F
  BY <1>2, WithoutQueue DEF Ready
<1>4. IsSorted(left, p_prio')
  <2>1. IsSorted(left, p_prio)
    BY WithoutSorted DEF ReadySorted
  <2> HIDE DEF left
  <2> QED
    BY <1>1, <1>3, <2>1, SortedBySame
<1> HIDE DEF left
<1>5. ASSUME NEW p \in PCB \ Ready, rq = insertProcQ(left, p, p_prio')
      PROVE  IsSorted(rq, p_prio')
  BY <1>2, <1>3, <1>4, <1>5, InsertProcSorted
<1>6. ASSUME rq = InsertAll(readyQueue, Woken, p_prio), p_prio' = p_prio
      PROVE  IsSorted(rq, p_prio')
  <2>1. \A p \in PCB : p \in Elems(Woken) => p \notin Ready
    BY NotNull DEF IInv, OnePlace, Waiting, Woken, Sem, SubDevice
  <2>2. Elems(readyQueue) \cap Elems(Woken) = {}
    BY <2>1, NotNull DEF Ready
  <2> QED
    BY <1>2, <1>6, <2>2, InsertAllQueue, PCBAssumption
<1> QED
  BY <1>1, <1>4, <1>5, <1>6 DEF BuiltBy, left

LEMMA SortedInv == IInv /\ ReadySorted /\ [Next]_vars => ReadySorted'
<1> SUFFICES ASSUME IInv, ReadySorted, [Next]_vars PROVE ReadySorted'
  OBVIOUS
<1>1. PICK rq : Built(rq) /\ TakenFrom(rq)
  BY ReadyStep
<1>2. IsSorted(rq, p_prio')
  BY <1>1, BuiltSorted
<1> QED
  BY <1>1, <1>2, WithoutSorted DEF TakenFrom, ReadySorted

\* The ready queue is always ordered by priority: the scheduler dispatches a
\* process of the highest one.
THEOREM ReadySortedHolds == Spec => []ReadySorted
<1>1. Init => ReadySorted
  BY QuietInit DEF ReadySorted, IsSorted
<1> QED
  BY <1>1, SortedInv, Inductive, PTL DEF Spec

-----------------------------------------------------------------------------
(* First come, first served *)

\* A newcomer of a queue goes behind everybody, and nobody else moves.
LEMMA TailInOrder ==
  ASSUME NEW q, IsQueue(q), NEW p \in PCB \ Elems(q),
         NEW x \in Elems(q), NEW y \in Elems(q) \cup {p}
  PROVE  /\ y \in Elems(q) => (<<x, y>> \in q <=> <<x, y>> \in InsertTail(q, p))
         /\ y \notin Elems(q) => <<x, y>> \in InsertTail(q, p)
<1>1. x # p /\ (y \in Elems(q) => y # p)
  OBVIOUS
<1>2. <<x, y>> \in InsertTail(q, p) <=>
        <<x, y>> \in q \/ (y = p /\ x \in Elems(q) \cup {p})
  BY DEF InsertTail
<1> QED
  BY <1>1, <1>2

LEMMA SemQueueInOrder ==
  ASSUME IInv, [Next]_vars, NEW s \in Sem,
         NEW x \in Waiting(s), x \in Waiting(s)', NEW y \in Waiting(s)'
  PROVE  /\ y \in Waiting(s) => (<<x, y>> \in s_procq[s] <=> <<x, y>> \in s_procq'[s])
         /\ y \notin Waiting(s) => <<x, y>> \in s_procq'[s]
<1>0. IsQueue(s_procq[s]) /\ x \in PCB /\ y \in PCB
  BY NotNull DEF IInv, TypeOK, Waiting
<1>1. CASE Leaves(s)
  <2>1. PICK E : s_procq'[s] = Without(s_procq[s], E)
    BY <1>1 DEF Leaves
  <2>2. Waiting(s)' = Waiting(s) \ E
    BY <1>0, <2>1, WithoutQueue DEF Waiting
  <2> QED
    BY <1>0, <2>1, <2>2 DEF Without
<1>2. CASE Joins(s)
  <2>1. Waiting(s)' = Waiting(s) \cup {currProc}
    BY <1>2, QueueMembers
  <2> QED
    BY <1>0, <1>2, <2>1, TailInOrder DEF Joins, Waiting
<1> QED
  BY <1>1, <1>2, QueueStep

\* Where insertProcQ links the newcomer: behind everybody of its priority or
\* more.  Nobody else moves.
LEMMA InsertInOrder ==
  ASSUME NEW q, IsQueue(q), NEW prio \in [PCB -> Nat], IsSorted(q, prio),
         NEW p \in PCB \ Elems(q), NEW x \in Elems(q), NEW y \in Elems(q) \cup {p}
  PROVE  LET r == insertProcQ(q, p, prio)
         IN  /\ y \in Elems(q) => (<<x, y>> \in q <=> <<x, y>> \in r)
             /\ y \notin Elems(q) /\ prio[x] >= prio[y] => <<x, y>> \in r
<1> DEFINE behind == Overtaken(q, p, prio)
           r == insertProcQ(q, p, prio)
<1>0. x \in PCB /\ x # p /\ prio[p] \in Nat /\ \A z \in Elems(q) : z \in PCB /\ prio[z] \in Nat
  BY DEF Elems
<1>1. <<x, y>> \in r <=> <<x, y>> \in q \/ (y = p /\ x \in Elems(q) \ behind)
  BY <1>0 DEF insertProcQ
<1>2. ASSUME y = p, prio[x] >= prio[y] PROVE x \notin behind
  <2> SUFFICES ASSUME NEW z \in Elems(q), prio[p] > prio[z], <<z, x>> \in q
               PROVE  FALSE
    BY DEF Overtaken
  <2>1. prio[z] >= prio[x]
    BY <1>0 DEF IsSorted
  <2> QED
    BY <1>0, <1>2, <2>1
<1> HIDE DEF behind, r
<1>3. y \in Elems(q) => (<<x, y>> \in q <=> <<x, y>> \in r)
  BY <1>1
<1>4. y \notin Elems(q) /\ prio[x] >= prio[y] => <<x, y>> \in r
  BY <1>1, <1>2
<1> QED
  BY <1>3, <1>4 DEF r

\* The same of those the clock wakes: they go behind everybody of their
\* priority or more, and who was ready does not move.
LEMMA TickInOrder ==
  ASSUME NEW q, IsQueue(q), NEW w, IsQueue(w), Elems(q) \cap Elems(w) = {},
         NEW prio \in [PCB -> Nat], IsSorted(q, prio),
         NEW x \in Elems(q), NEW y \in Elems(q) \cup Elems(w)
  PROVE  LET r == InsertAll(q, w, prio)
         IN  /\ y \in Elems(q) => (<<x, y>> \in q <=> <<x, y>> \in r)
             /\ y \notin Elems(q) /\ prio[x] >= prio[y] => <<x, y>> \in r
<1> DEFINE r == InsertAll(q, w, prio)
<1>0. x \in PCB /\ y \in PCB /\ prio[x] \in Nat /\ prio[y] \in Nat
  BY DEF Elems
<1>1. <<x, y>> \in r <=> \/ prio[x] > prio[y]
                         \/ /\ prio[x] = prio[y]
                            /\ \/ <<x, y>> \in q \/ <<x, y>> \in w
                               \/ x \in Elems(q) /\ y \in Elems(w)
  BY DEF InsertAll
<1>2. <<x, y>> \notin w
  BY <1>0 DEF IsQueue
<1> HIDE DEF r
<1>3. ASSUME y \in Elems(q) PROVE <<x, y>> \in q <=> <<x, y>> \in r
  <2>1. <<x, y>> \in q => prio[x] >= prio[y]
    BY <1>0 DEF IsSorted
  <2>2. <<x, y>> \in q \/ <<y, x>> \in q
    BY <1>3, Total
  <2>3. <<y, x>> \in q => prio[y] >= prio[x]
    BY <1>0 DEF IsSorted
  <2>4. y \notin Elems(w)
    BY <1>3
  <2>5. CASE <<x, y>> \in q
    BY <1>0, <1>1, <2>1, <2>5
  <2>6. CASE <<x, y>> \notin q
    BY <1>0, <1>1, <1>2, <2>2, <2>3, <2>4, <2>6
  <2> QED
    BY <2>5, <2>6
<1>4. y \notin Elems(q) /\ prio[x] >= prio[y] => <<x, y>> \in r
  BY <1>0, <1>1
<1> QED
  BY <1>3, <1>4 DEF r

LEMMA BuiltInOrder ==
  ASSUME IInv, ReadySorted, NEW rq, Built(rq),
         NEW x \in Ready, x \in Elems(rq), NEW y \in Elems(rq)
  PROVE  /\ y \in Ready => (<<x, y>> \in readyQueue <=> <<x, y>> \in rq)
         /\ y \notin Ready /\ p_prio[x] >= p_prio'[y] => <<x, y>> \in rq
<1>1. PICK F : /\ \A z \in Ready \ F : p_prio'[z] = p_prio[z]
               /\ BuiltBy(rq, F)
  BY DEF Built
<1>2. /\ IsQueue(readyQueue) /\ IsQueue(Woken) /\ p_prio \in [PCB -> Nat]
      /\ p_prio' \in [PCB -> Nat] /\ x \in PCB /\ y \in PCB
  BY NotNull DEF IInv, TypeOK, Woken, Sem, SubDevice, Built
<1> DEFINE left == Without(readyQueue, F)
<1>3. /\ IsQueue(left) /\ Elems(left) = Ready \ F
      /\ \A z, v \in Ready \ F : <<z, v>> \in left <=> <<z, v>> \in readyQueue
  <2>1. IsQueue(left) /\ Elems(left) = Ready \ F
    BY <1>2, WithoutQueue DEF Ready
  <2> QED
    BY <2>1, NotNull DEF Without, Ready
<1>4. IsSorted(left, p_prio')
  <2>1. IsSorted(left, p_prio)
    BY WithoutSorted DEF ReadySorted
  <2> HIDE DEF left
  <2> QED
    BY <1>1, <1>3, <2>1, SortedBySame
<1> HIDE DEF left
<1>5. CASE rq = left
  BY <1>3, <1>5
<1>6. ASSUME NEW p \in PCB \ Ready, rq = insertProcQ(left, p, p_prio')
      PROVE  /\ y \in Ready => (<<x, y>> \in readyQueue <=> <<x, y>> \in rq)
             /\ y \notin Ready /\ p_prio[x] >= p_prio'[y] => <<x, y>> \in rq
  <2>1. Elems(rq) = (Ready \ F) \cup {p}
    BY <1>3, <1>6, InsertProcQueue
  <2>2. x \in Elems(left) /\ p_prio'[x] = p_prio[x] /\ y \in Elems(left) \cup {p}
    BY <1>1, <1>3, <2>1
  <2>3. /\ y \in Elems(left) => (<<x, y>> \in left <=> <<x, y>> \in rq)
        /\ y \notin Elems(left) /\ p_prio'[x] >= p_prio'[y] => <<x, y>> \in rq
    BY <1>2, <1>3, <1>4, <1>6, <2>2, InsertInOrder
  <2> QED
    BY <1>3, <2>2, <2>3
<1>7. ASSUME rq = InsertAll(readyQueue, Woken, p_prio), p_prio' = p_prio
      PROVE  /\ y \in Ready => (<<x, y>> \in readyQueue <=> <<x, y>> \in rq)
             /\ y \notin Ready /\ p_prio[x] >= p_prio'[y] => <<x, y>> \in rq
  <2>1. \A p \in PCB : p \in Elems(Woken) => p \notin Ready
    BY NotNull DEF IInv, OnePlace, Waiting, Woken, Sem, SubDevice
  <2>2. Elems(readyQueue) \cap Elems(Woken) = {}
    BY <2>1, NotNull DEF Ready
  <2>3. y \in Elems(readyQueue) \cup Elems(Woken)
    BY <1>2, <1>7, <2>2, InsertAllQueue, PCBAssumption
  <2> QED
    BY <1>2, <1>7, <2>2, <2>3, TickInOrder DEF Ready, ReadySorted
<1> QED
  BY <1>1, <1>5, <1>6, <1>7 DEF BuiltBy, left

LEMMA ReadyQueueInOrder ==
  ASSUME IInv, ReadySorted, [Next]_vars,
         NEW x \in Ready, x \in Ready', NEW y \in Ready'
  PROVE  /\ y \in Ready => (<<x, y>> \in readyQueue <=> <<x, y>> \in readyQueue')
         /\ y \notin Ready /\ p_prio[x] >= p_prio'[y] => <<x, y>> \in readyQueue'
<1>1. PICK rq : Built(rq) /\ TakenFrom(rq)
  BY ReadyStep
<1>2. PICK E : readyQueue' = Without(rq, E)
  BY <1>1 DEF TakenFrom
<1>3. Ready' = Elems(rq) \ E
  BY <1>1, <1>2, BuiltQueue, WithoutQueue DEF Ready
<1>4. <<x, y>> \in readyQueue' <=> <<x, y>> \in rq
  BY <1>2, <1>3, NotNull DEF Without
<1> QED
  BY <1>1, <1>3, <1>4, BuiltInOrder

\* Queues are first come, first served: nobody overtakes who stays in the same
\* queue, and a newcomer of the ready queue stands behind everybody of its
\* priority or more, in a semaphore's queue behind everybody.
THEOREM FirstComeFirstServedHolds == Spec => FirstComeFirstServed
<1> DEFINE Order ==
      /\ StaysInOrder(readyQueue, readyQueue',
                      LAMBDA x, y : p_prio[x] >= p_prio[y]')
      /\ \A s \in Sem : StaysInOrder(s_procq[s], s_procq[s]', LAMBDA x, y : TRUE)
<1>1. IInv /\ ReadySorted /\ [Next]_vars => Order
  <2> SUFFICES ASSUME IInv, ReadySorted, [Next]_vars PROVE Order
    OBVIOUS
  <2>1. StaysInOrder(readyQueue, readyQueue', LAMBDA x, y : p_prio[x] >= p_prio[y]')
    BY ReadyQueueInOrder DEF StaysInOrder, Ready
  <2>2. \A s \in Sem : StaysInOrder(s_procq[s], s_procq[s]', LAMBDA x, y : TRUE)
    BY SemQueueInOrder DEF StaysInOrder, Waiting
  <2> QED
    BY <2>1, <2>2
<1> HIDE DEF Order
<1>2. IInv /\ ReadySorted /\ [Next]_vars => [Order]_vars
  BY <1>1
<1>3. Spec => [][Order]_vars
  BY <1>2, Inductive, ReadySortedHolds, PTL DEF Spec
<1> QED
  BY <1>3 DEF FirstComeFirstServed, Order
=============================================================================
