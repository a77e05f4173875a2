------------------------------ MODULE CpuTime ------------------------------
(***************************************************************************)
(* The CPU time of the processes: processTimer, p_time and GETTIME, over a *)
(* time-of-day clock that wraps around.  Which process runs next is the    *)
(* business of Nucleus: here it may be any, or none.  Handlers take no     *)
(* time.                                                                   *)
(***************************************************************************)
EXTENDS Naturals

CONSTANTS
  PCB, Null,
  W,          \* the clock counts modulo W (2^32 microseconds)
  MaxUsed     \* bound: ticks a process runs for in a behaviour

ASSUME ClockAssumption == W \in Nat /\ MaxUsed \in 1 .. W - 1 /\ Null \notin PCB

VARIABLES
  tod,            \* the time-of-day clock, read by STCK
  processTimer,
  p_time,         \* PCB -> time charged to the process
  currProc,
  used            \* PCB -> time it has had the processor (no code: the truth)

vars == <<tod, processTimer, p_time, currProc, used>>

\* The time since processTimer was set.
Elapsed == (tod + W - processTimer) % W

\* What GETTIME answers to the running process.
GetTime == (p_time[currProc] + Elapsed) % W

Charge == p_time' = [p_time EXCEPT ![currProc] = GetTime]

\* Mutant: the time at which the process starts is not taken.
DispatchNoClock(next) == currProc' = next /\ UNCHANGED processTimer

\* scheduler: a process starts, or (next = Null) the processor waits.
Dispatch(next) ==
  /\ currProc' = next
  /\ processTimer' = IF next = Null THEN processTimer ELSE tod

\* The PCB of a dead process keeps nothing for the next one (allocPcb).
Forget(p) ==
  /\ p_time' = [p_time EXCEPT ![p] = 0]
  /\ used'   = [used EXCEPT ![p] = 0]

Init ==
  /\ tod \in 0 .. W - 1
  /\ processTimer = tod
  /\ p_time = [p \in PCB |-> 0]
  /\ currProc \in PCB
  /\ used = [p \in PCB |-> 0]

\* Time passes, for the running process if there is one.
Tick ==
  /\ tod' = (tod + 1) % W
  /\ \/ currProc = Null /\ UNCHANGED used
     \/ /\ currProc # Null
        /\ used[currProc] < MaxUsed
        /\ used' = [used EXCEPT ![currProc] = @ + 1]
  /\ UNCHANGED <<processTimer, p_time, currProc>>

\* A blocking system call, or the end of the time slice.
LeaveProcessor ==
  /\ currProc # Null
  /\ Charge
  /\ \E next \in PCB \cup {Null} : Dispatch(next)
  /\ UNCHANGED <<tod, used>>

\* An interrupt of a device or of the interval timer: the process goes on, and
\* its time starts from here; without one the scheduler is called.
Interrupt ==
  /\ \/ currProc # Null /\ processTimer' = tod /\ UNCHANGED currProc
     \/ currProc = Null /\ \E next \in PCB \cup {Null} : Dispatch(next)
  /\ UNCHANGED <<tod, p_time, used>>

\* An exception passed up: the handler of the process starts from here.
PassUp ==
  /\ currProc # Null
  /\ processTimer' = tod
  /\ UNCHANGED <<tod, p_time, currProc, used>>

\* Process p dies: the running one, or another.
Die(p) ==
  /\ Forget(p)
  /\ \/ /\ p = currProc
        /\ \E next \in (PCB \ {p}) \cup {Null} : Dispatch(next)
     \/ p # currProc /\ UNCHANGED <<processTimer, currProc>>
  /\ UNCHANGED tod

Next == Tick \/ LeaveProcessor \/ Interrupt \/ PassUp \/ \E p \in PCB : Die(p)

Spec == Init /\ [][Next]_vars

-----------------------------------------------------------------------------
\* Nobody is charged for the time of another process, of the processor waiting,
\* or of a dead process whose PCB it has, also when the clock wraps around
\* between the dispatch and the charge.
NeverOvercharged ==
  /\ \A p \in PCB : p_time[p] <= used[p]
  /\ currProc # Null => GetTime <= used[currProc]
=============================================================================
