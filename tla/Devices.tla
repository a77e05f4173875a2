------------------------------ MODULE Devices ------------------------------
(***************************************************************************)
(* How an operation finds its way back: DOIO derives the index of the      *)
(* device semaphore from the address of the command register it is given,  *)
(* deviceInterrupt derives it from the interrupt line, the bitmap of the   *)
(* pending interrupts and, for a terminal, the two status registers.  The  *)
(* two computations are translated number by number; a process is known    *)
(* here by the sub-device whose command register it wrote.                 *)
(***************************************************************************)
EXTENDS Integers, FiniteSets

CONSTANTS
  Line,      \* the interrupt lines in use: 3 disk, 4 flash, 5 network,
             \* 6 printer, 7 terminal
  DevNo,     \* the devices in use on each line
  Failing    \* the lines whose devices may end an operation with an error

ASSUME LineAssumption ==
  /\ Line \subseteq 3 .. 7
  /\ DevNo \subseteq 0 .. 7
  /\ Failing \subseteq Line

START_ADDR == 268435540     \* 0x10000054

\* A sub-device: a device, or one of the two halves of a terminal.
SubDev ==
  {[line |-> l, dev |-> d, sub |-> "dtp"] : l \in Line \ {7}, d \in DevNo}
  \cup {[line |-> l, dev |-> d, sub |-> b] :
          l \in Line \cap {7}, d \in DevNo, b \in {"transm", "recv"}}

\* The address of a command register: 0x80 bytes a line, 0x10 a device, the
\* command in the second word (transm_command of a terminal in the fourth).
CommandAddr(s) ==
  START_ADDR + (s.line - 3) * 128 + s.dev * 16
    + (IF s.sub = "transm" THEN 12 ELSE 4)

\* Mutant: the command offsets of the two halves of a terminal swapped.
DoIOIndexSwapped(addr) ==
  LET offset == addr - START_ADDR
      flat   == offset \div 16
  IN  IF flat < 32 THEN flat
      ELSE IF offset % 16 = 4 THEN 32 + (flat - 32) ELSE 40 + (flat - 32)

\* Mutant: a terminal has one semaphore for both halves.
DoIOIndexJoint(addr) ==
  LET flat == (addr - START_ADDR) \div 16
  IN  IF flat < 32 THEN flat ELSE 32 + (flat - 32)

\* The semaphore DOIO waits on, from the address in its first argument.
DoIOIndex(addr) ==
  LET offset == addr - START_ADDR
      flat   == offset \div 16
  IN  IF flat < 32 THEN flat
      ELSE IF offset % 16 = 12 THEN 32 + (flat - 32) ELSE 40 + (flat - 32)

\* The semaphore deviceInterrupt releases.
InterruptIndex(s) ==
  IF s.line # 7 THEN (s.line - 3) * 8 + s.dev
  ELSE IF s.sub = "transm" THEN 32 + s.dev ELSE 32 + s.dev + 8

VARIABLES
  status,    \* sub-device -> "ready" | "busy" | "done" | "error"
  waiting,   \* index of subDevice -> the processes in the queue
  panicked   \* the nucleus has called PANIC

vars == <<status, waiting, panicked>>

Init ==
  /\ status = [s \in SubDev |-> "ready"]
  /\ waiting = [i \in 0 .. 47 |-> {}]
  /\ panicked = FALSE

InterruptPending(s) == status[s] \in {"done", "error"}

\* DOIO by a process that has the use of s.  An operation of a process that
\* was killed may still be in progress, and then the command is ignored; a
\* pending interrupt is acknowledged by it.
DoIO(s) ==
  /\ ~panicked
  /\ \A i \in 0 .. 47 : s \notin waiting[i]
  /\ waiting' = [waiting EXCEPT ![DoIOIndex(CommandAddr(s))] = @ \cup {s}]
  /\ status' = [status EXCEPT ![s] = "busy"]
  /\ UNCHANGED panicked

\* The waiting process is killed: it leaves the queue, the operation goes on.
Kill(s) ==
  /\ ~panicked
  /\ \E i \in 0 .. 47 :
       /\ s \in waiting[i]
       /\ waiting' = [waiting EXCEPT ![i] = @ \ {s}]
  /\ UNCHANGED <<status, panicked>>

\* External: a device ends its operation.
Complete(s) ==
  /\ ~panicked
  /\ status[s] = "busy"
  /\ \E result \in {"done"} \cup (IF s.line \in Failing THEN {"error"} ELSE {}) :
       status' = [status EXCEPT ![s] = result]
  /\ UNCHANGED <<waiting, panicked>>

\* The bitmap word of a line has a bit for each of its devices.
BitmapWord(line) == {d \in DevNo : \E s \in SubDev :
                       s.line = line /\ s.dev = d /\ InterruptPending(s)}

\* Mutant: the receiver is looked at first, without its status.
ServedRecvFirst(line, d) ==
  {s \in SubDev : s.line = line /\ s.dev = d /\ s.sub \in {"dtp", "recv"}}

\* The sub-device deviceInterrupt serves when device d of the line is chosen:
\* of a terminal the transmitter if its status is 5 ("done"), else the
\* receiver if its status is 5, else none.
Served(line, d) ==
  {s \in SubDev : /\ s.line = line /\ s.dev = d
                  /\ \/ s.sub = "dtp"
                     \/ s.sub = "transm" /\ status[s] = "done"
                     \/ /\ s.sub = "recv" /\ status[s] = "done"
                        /\ status[[s EXCEPT !.sub = "transm"]] # "done"}

\* deviceInterrupt: the device with the lowest number is served, its interrupt
\* acknowledged and the process in the queue of its index released.
deviceInterrupt(line) ==
  /\ ~panicked
  /\ BitmapWord(line) # {}
  /\ LET d == CHOOSE d \in BitmapWord(line) : \A e \in BitmapWord(line) : d <= e
     IN  \/ /\ Served(line, d) = {}
            /\ panicked' = TRUE
            /\ UNCHANGED <<status, waiting>>
         \/ \E s \in Served(line, d) :
              /\ status' = [status EXCEPT ![s] = "ready"]
              /\ \/ /\ waiting[InterruptIndex(s)] = {}
                    /\ UNCHANGED waiting
                 \/ \E p \in waiting[InterruptIndex(s)] :
                      waiting' = [waiting EXCEPT ![InterruptIndex(s)] = @ \ {p}]
              /\ UNCHANGED panicked

Next ==
  \/ \E s \in SubDev : DoIO(s) \/ Kill(s) \/ Complete(s)
  \/ \E line \in Line : deviceInterrupt(line)
  \/ panicked /\ UNCHANGED vars

Spec == Init /\ [][Next]_vars

-----------------------------------------------------------------------------
TypeOK ==
  /\ status \in [SubDev -> {"ready", "busy", "done", "error"}]
  /\ waiting \in [0 .. 47 -> SUBSET SubDev]
  /\ panicked \in BOOLEAN

\* Inductive: a process that waits is where deviceInterrupt will look for it,
\* and waits for an operation that is in progress or still to be acknowledged.
IInv ==
  /\ TypeOK
  /\ \A i \in 0 .. 47 : \A s \in waiting[i] :
       i = InterruptIndex(s) /\ status[s] # "ready"

\* At most one process is in the queue of a device semaphore: no two command
\* registers of the 48 lead DOIO to the same semaphore, so the users' mutual
\* exclusion on a device is one on its semaphore too.
OneWaiter ==
  \A i \in 0 .. 47 : \A s, t \in waiting[i] : s = t

\* A process in a queue waits for an operation that is in progress or whose
\* interrupt is still to come: no interrupt was spent on somebody else.
WaiterServed ==
  \A i \in 0 .. 47 : \A s \in waiting[i] : status[s] # "ready"

\* A process that is released by an interrupt is the one that wrote the command
\* register whose status was read and acknowledged: terminal input never wakes
\* the writer of the terminal, nor a flash the reader of another one.
WokenByOwnDevice ==
  [][\A i \in 0 .. 47 : \A s \in waiting[i] \ waiting[i]' :
       status # status' => InterruptPending(s) /\ status'[s] = "ready"]_vars
=============================================================================
