----------------------------- MODULE ProcState -----------------------------
(***************************************************************************)
(* The processor states the nucleus and the support level save: p_s of a   *)
(* PCB, and the two slots sup_exceptState of a support structure, one for  *)
(* page faults and one for everything else.  CpuTime says who runs and is  *)
(* charged; each step below is a step of it with what it does to states.   *)
(*                                                                         *)
(* One process is watched, a U-proc with its support structure; the others *)
(* only take the processor from it.  A state is the code it executes (the  *)
(* program, the handler of its system calls, or the pager), a program      *)
(* counter modulo M and the register a0.  When the process dies its PCB    *)
(* and its support structure serve a new one.                              *)
(***************************************************************************)
EXTENDS CpuTime, Sequences

CONSTANTS
  Watched,    \* the PCB whose states are followed
  M,          \* program counters are taken modulo M
  Answer      \* what a system call or a device may leave in a0

ASSUME StateAssumption == Watched \in PCB /\ M \in Nat \ {0, 1} /\ 0 \in Answer

PGFAULTEXCEPT == 0
GENERALEXCEPT == 1

VARIABLES
  reg,              \* the state in the processor
  p_s,
  sup_exceptState,  \* slot -> saved state
  waits,            \* "no" | "sem" | "io": what the process is blocked on
  frames            \* no code: the program and the handlers that interrupt it,
                    \* each with the state it has to go on from

timeVars == <<tod, processTimer, p_time, currProc, used>>
stateVars == <<timeVars, reg, p_s, sup_exceptState, waits, frames>>

Entry(code) == [at |-> code, pc |-> 0, a0 |-> 0]
Other == Entry("other")     \* whatever else may be in the processor

\* The instruction after this one (WORDLEN further).
After(s) == [s EXCEPT !.pc = (@ + 1) % M]
Answered(s, r) == [s EXCEPT !.a0 = r]

Top(f) == f[Len(f)]
SetTop(f, s) == [f EXCEPT ![Len(f)] = s]
Pop(f) == SubSeq(f, 1, Len(f) - 1)

Own == currProc = Watched

\* LDST of the process the scheduler chose; a blocked one is never chosen.
Load ==
  /\ currProc' = Watched => waits' = "no"
  /\ reg' = IF currProc' = Watched THEN p_s' ELSE Other

StateInit ==
  /\ Init
  /\ p_s = Entry("program")
  /\ reg = IF Own THEN p_s ELSE Other
  /\ sup_exceptState = [slot \in {PGFAULTEXCEPT, GENERALEXCEPT} |-> Other]
  /\ waits = "no"
  /\ frames = <<Entry("program")>>

-----------------------------------------------------------------------------
\* Time passes and an instruction is executed.
Execute ==
  /\ Tick
  /\ IF Own THEN reg' = After(reg) /\ frames' = SetTop(frames, After(Top(frames)))
            ELSE UNCHANGED <<reg, frames>>
  /\ UNCHANGED <<p_s, sup_exceptState, waits>>

\* A system call of the nucleus that does not block: only handlers make one,
\* a program that tries is killed.
CallReturns(r) ==
  /\ Own /\ reg.at # "program"
  /\ reg' = Answered(After(reg), r)
  /\ frames' = SetTop(frames, Answered(After(Top(frames)), r))
  /\ UNCHANGED <<timeVars, p_s, sup_exceptState, waits>>

\* The exception state, with the program counter past the call.
StateAfterCall == After(reg)

\* YIELD and TERMPROCESS of another process ("no"), PASSEREN and CLOCKWAIT
\* ("sem"), DOIO ("io").
CallLeaves(why) ==
  /\ Own /\ reg.at # "program"
  /\ LeaveProcessor
  /\ p_s' = StateAfterCall
  /\ waits' = why
  /\ frames' = SetTop(frames, After(Top(frames)))
  /\ Load
  /\ UNCHANGED sup_exceptState

\* PLTInterrupt: the end of the time slice.
SliceEnds ==
  /\ Own
  /\ LeaveProcessor
  /\ p_s' = reg
  /\ UNCHANGED <<sup_exceptState, waits, frames>>
  /\ Load

\* Another process blocks, yields or ends its slice.
OtherLeaves ==
  /\ ~Own
  /\ LeaveProcessor
  /\ UNCHANGED <<p_s, sup_exceptState, waits, frames>>
  /\ Load

\* VERHOGEN by another process.
WokenByOther ==
  /\ ~Own /\ currProc # Null
  /\ waits = "sem"
  /\ waits' = "no"
  /\ UNCHANGED <<timeVars, reg, p_s, sup_exceptState, frames>>

\* Where an interrupt handler ends: the interrupted process goes on from the
\* exception state, or the scheduler chooses.
HandlerEnds == IF currProc # Null THEN UNCHANGED reg ELSE Load

\* ITInterrupt, and the interrupt of a device another process waits for.
InterruptOfOthers ==
  /\ Interrupt
  /\ waits' \in IF waits = "sem" THEN {"sem", "no"} ELSE {waits}
  /\ UNCHANGED <<p_s, sup_exceptState, frames>>
  /\ HandlerEnds

\* deviceInterrupt for the process: the status of the device is its answer.
DeviceAnswers(r) ==
  /\ waits = "io"
  /\ Interrupt
  /\ waits' = "no"
  /\ p_s' = Answered(p_s, r)
  /\ frames' = SetTop(frames, Answered(Top(frames), r))
  /\ HandlerEnds
  /\ UNCHANGED sup_exceptState

-----------------------------------------------------------------------------
(* Pass up, and the way back *)

\* Mutant: every exception is saved in the slot of the general ones.
OneSlot(code) == GENERALEXCEPT

Slot(code) == IF code = "pager" THEN PGFAULTEXCEPT ELSE GENERALEXCEPT

\* programTrapHandler (for a system call of the support level, whose program
\* counter syscallHandler has moved on and back) and tlbHandler.
PassUpTo(code) ==
  /\ Own
  /\ PassUp
  /\ sup_exceptState' = [sup_exceptState EXCEPT ![Slot(code)] = reg]
  /\ reg' = Entry(code)
  /\ frames' = Append(frames, Entry(code))
  /\ UNCHANGED <<p_s, waits>>

\* A program calls the support level.  (The handlers never do.)
SupportCall == Own /\ reg.at = "program" /\ PassUpTo("handler")

\* A page fault of the program, or of the handler that reads its strings.  The
\* pager touches no page of the program.
PageFault == Own /\ reg.at \in {"program", "handler"} /\ PassUpTo("pager")

\* SyscallExceptionHandler: past the call, with an answer.
HandlerReturns(r) ==
  /\ Own /\ reg.at = "handler"
  /\ reg' = Answered(After(sup_exceptState[GENERALEXCEPT]), r)
  /\ sup_exceptState' = [sup_exceptState EXCEPT ![GENERALEXCEPT] = reg']
  /\ frames' = LET f == Pop(frames)
               IN  SetTop(f, Answered(After(Top(f)), r))
  /\ UNCHANGED <<timeVars, p_s, waits>>

\* The pager: the instruction that faulted is executed again.
PagerReturns ==
  /\ Own /\ reg.at = "pager"
  /\ reg' = sup_exceptState[PGFAULTEXCEPT]
  /\ frames' = Pop(frames)
  /\ UNCHANGED <<timeVars, p_s, sup_exceptState, waits>>

\* A process dies.  If it is the watched one, allocPcb and CREATEPROCESS give
\* its PCB the state of a new program.
DieAnew(p) ==
  /\ Die(p)
  /\ IF p = Watched
     THEN p_s' = Entry("program") /\ frames' = <<p_s'>> /\ waits' = "no"
     ELSE UNCHANGED <<p_s, frames, waits>>
  /\ IF p = currProc THEN Load ELSE UNCHANGED reg
  /\ UNCHANGED sup_exceptState

StateNext ==
  \/ Execute
  \/ \E r \in Answer : CallReturns(r) \/ HandlerReturns(r) \/ DeviceAnswers(r)
  \/ \E why \in {"no", "sem", "io"} : CallLeaves(why)
  \/ SliceEnds \/ OtherLeaves
  \/ WokenByOther \/ InterruptOfOthers
  \/ SupportCall \/ PageFault \/ PagerReturns
  \/ \E p \in PCB : DieAnew(p)

StateSpec == StateInit /\ [][StateNext]_stateVars

-----------------------------------------------------------------------------
\* A process goes on exactly where it stopped, with the answer it was given:
\* nothing is executed twice or skipped, whatever interrupts, blocks or passes
\* up in between, and also when the pager interrupts the handler of a system
\* call that interrupts the program; no save overwrites a state still needed.
ResumesWhereStopped ==
  /\ Top(frames) = IF Own THEN reg ELSE p_s
  /\ \A i \in 1 .. Len(frames) - 1 :
       sup_exceptState[Slot(frames[i + 1].at)] = frames[i]
=============================================================================
