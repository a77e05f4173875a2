-------------------------- MODULE ProcStateProofs --------------------------
(***************************************************************************)
(* CPU time and processor states, for every number of processes, clock     *)
(* width and program: each step of ProcState is a step of CpuTime, nobody  *)
(* is charged for time that was not his, and the watched process goes on   *)
(* exactly where it stopped.                                               *)
(***************************************************************************)
EXTENDS ProcState, SequenceTheorems, TLAPS

-----------------------------------------------------------------------------
(* CPU time *)

\* The clock and the timer in their width, and the charge so far with what the
\* running process has to be charged still, within the time it has had.
TimeInv ==
  /\ tod \in 0 .. W - 1 /\ processTimer \in 0 .. W - 1
  /\ p_time \in [PCB -> Nat] /\ used \in [PCB -> Nat]
  /\ currProc \in PCB \cup {Null}
  /\ \A p \in PCB : p_time[p] <= used[p]
  /\ currProc # Null => p_time[currProc] + Elapsed <= used[currProc]

\* Remainders of the clock.
LEMMA Remainder ==
  /\ W \in Nat /\ W > 1
  /\ \A x \in Nat : x % W \in 0 .. W - 1 /\ x % W <= x
  /\ \A x \in 0 .. W - 1 : x % W = x /\ (x + W) % W = x
BY ClockAssumption

\* The time since processTimer was set, also when the clock has wrapped around.
LEMMA ElapsedValue ==
  ASSUME NEW t \in 0 .. W - 1, NEW u \in 0 .. W - 1
  PROVE  (t + W - u) % W = IF t >= u THEN t - u ELSE t + W - u
<1>1. CASE t >= u
  <2>1. t - u \in 0 .. W - 1 /\ t + W - u = (t - u) + W
    BY <1>1, Remainder
  <2> QED
    BY <1>1, <2>1, Remainder
<1>2. CASE t < u
  <2>1. t + W - u \in 0 .. W - 1
    BY <1>2, Remainder
  <2> QED
    BY <1>2, <2>1, Remainder
<1> QED
  BY <1>1, <1>2, Remainder

LEMMA TimeInit == Init => TimeInv
<1> SUFFICES ASSUME Init PROVE TimeInv
  OBVIOUS
<1>1. Elapsed = 0 /\ tod \in 0 .. W - 1
  BY ElapsedValue, Remainder DEF Init, Elapsed
<1>2. currProc \in PCB
  BY DEF Init
<1> QED
  BY <1>1, <1>2 DEF Init, TimeInv

\* A tick of the clock.
LEMMA TickTime == TimeInv /\ Tick => TimeInv'
<1> SUFFICES ASSUME TimeInv, Tick PROVE TimeInv'
  OBVIOUS
<1>0. W \in Nat /\ W > 1 /\ currProc' = currProc /\ p_time' = p_time
      /\ processTimer' = processTimer
  BY Remainder DEF Tick
<1>1. tod' = IF tod = W - 1 THEN 0 ELSE tod + 1
  <2>1. tod \in 0 .. W - 1 /\ tod' = (tod + 1) % W
    BY DEF TimeInv, Tick
  <2>2. CASE tod = W - 1
    <3>1. 0 \in 0 .. W - 1 /\ tod + 1 = 0 + W
      BY <1>0, <2>1, <2>2
    <3>2. (0 + W) % W = 0
      BY <3>1, Remainder
    <3> QED
      BY <2>1, <2>2, <3>1, <3>2
  <2>3. CASE tod # W - 1
    <3>1. tod + 1 \in 0 .. W - 1
      BY <1>0, <2>1, <2>3
    <3> QED
      BY <2>1, <2>3, <3>1, Remainder
  <2> QED
    BY <2>2, <2>3
<1>2. tod' \in 0 .. W - 1
  BY <1>0, <1>1 DEF TimeInv
<1>3. /\ Elapsed = IF tod >= processTimer THEN tod - processTimer
                   ELSE tod + W - processTimer
      /\ Elapsed' = IF tod' >= processTimer THEN tod' - processTimer
                    ELSE tod' + W - processTimer
  BY <1>0, <1>2, ElapsedValue DEF TimeInv, Elapsed
<1>4. Elapsed' <= Elapsed + 1 /\ Elapsed \in Nat /\ Elapsed' \in Nat
  BY <1>0, <1>1, <1>2, <1>3 DEF TimeInv
<1>5. CASE currProc = Null /\ UNCHANGED used
  BY <1>0, <1>2, <1>5 DEF TimeInv
<1>6. CASE currProc # Null /\ used' = [used EXCEPT ![currProc] = @ + 1]
  <2>1. currProc \in PCB /\ p_time \in [PCB -> Nat] /\ used \in [PCB -> Nat]
    BY <1>6 DEF TimeInv
  <2>2. \A p \in PCB : used'[p] = IF p = currProc THEN used[p] + 1 ELSE used[p]
    BY <1>6, <2>1
  <2>3. used' \in [PCB -> Nat] /\ \A p \in PCB : p_time[p] <= used'[p]
    BY <1>6, <2>1, <2>2 DEF TimeInv
  <2>4. p_time[currProc] + Elapsed' <= used'[currProc]
    BY <1>4, <1>6, <2>1, <2>2 DEF TimeInv
  <2> QED
    BY <1>0, <1>2, <2>1, <2>3, <2>4 DEF TimeInv
<1> QED
  BY <1>5, <1>6 DEF Tick

\* A process that starts now, or goes on from now, owes nothing yet.
LEMMA StartNow ==
  ASSUME tod' \in 0 .. W - 1, processTimer' = tod'
  PROVE  Elapsed' = 0 /\ processTimer' \in 0 .. W - 1
<1> DEFINE t == tod'
<1>1. t \in 0 .. W - 1 /\ processTimer' = t
  OBVIOUS
<1>2. (t + W - t) % W = t - t
  <2> HIDE DEF t
  <2> QED
    BY <1>1, ElapsedValue, Remainder
<1>3. Elapsed' = (t + W - t) % W
  BY DEF Elapsed
<1>4. t - t = 0
  <2> HIDE DEF t
  <2> QED
    BY <1>1, Remainder
<1> QED
  BY <1>1, <1>2, <1>3, <1>4

LEMMA DispatchTime ==
  ASSUME NEW next \in PCB \cup {Null}, Dispatch(next), tod' = tod,
         tod \in 0 .. W - 1, processTimer \in 0 .. W - 1,
         p_time' \in [PCB -> Nat], used' \in [PCB -> Nat],
         \A p \in PCB : p_time'[p] <= used'[p]
  PROVE  TimeInv'
<1>1. CASE next = Null
  BY <1>1 DEF Dispatch, TimeInv
<1>2. CASE next # Null
  <2>1. currProc' = next /\ next \in PCB /\ processTimer' = tod'
    BY <1>2 DEF Dispatch
  <2>2. Elapsed' = 0 /\ processTimer' \in 0 .. W - 1
    BY <2>1, StartNow
  <2> QED
    BY <2>1, <2>2 DEF TimeInv
<1> QED
  BY <1>1, <1>2

\* The charge is what GETTIME would have answered, and no more than was used.
LEMMA ChargeTime ==
  ASSUME TimeInv, currProc # Null
  PROVE  /\ currProc \in PCB /\ GetTime \in Nat /\ GetTime <= used[currProc]
<1>1. currProc \in PCB /\ p_time[currProc] \in Nat /\ used[currProc] \in Nat
  BY DEF TimeInv
<1>2. Elapsed \in Nat
  <2>1. tod + W - processTimer \in Nat
    BY Remainder DEF TimeInv
  <2> QED
    BY <2>1, Remainder DEF Elapsed
<1>3. p_time[currProc] + Elapsed <= used[currProc]
  BY DEF TimeInv
<1>4. GetTime \in Nat /\ GetTime <= p_time[currProc] + Elapsed
  <2>1. p_time[currProc] + Elapsed \in Nat
    BY <1>1, <1>2
  <2> HIDE DEF Elapsed
  <2> QED
    BY <2>1, Remainder DEF GetTime
<1> QED
  BY <1>1, <1>2, <1>3, <1>4

LEMMA LeaveTime == TimeInv /\ LeaveProcessor => TimeInv'
<1> SUFFICES ASSUME TimeInv, LeaveProcessor PROVE TimeInv'
  OBVIOUS
<1>1. currProc \in PCB /\ GetTime \in Nat /\ GetTime <= used[currProc]
  BY ChargeTime DEF LeaveProcessor
<1>2. p_time' = [p_time EXCEPT ![currProc] = GetTime] /\ used' = used /\ tod' = tod
  BY DEF LeaveProcessor, Charge
<1>3. PICK next \in PCB \cup {Null} : Dispatch(next)
  BY DEF LeaveProcessor
<1>4. /\ p_time' \in [PCB -> Nat] /\ used' \in [PCB -> Nat]
      /\ \A p \in PCB : p_time'[p] <= used'[p]
  BY <1>1, <1>2 DEF TimeInv
<1> QED
  BY <1>2, <1>3, <1>4, DispatchTime DEF TimeInv

LEMMA InterruptTime == TimeInv /\ (Interrupt \/ PassUp) => TimeInv'
<1> SUFFICES ASSUME TimeInv, Interrupt \/ PassUp PROVE TimeInv'
  OBVIOUS
<1>1. tod' = tod /\ p_time' = p_time /\ used' = used
  BY DEF Interrupt, PassUp
<1>2. CASE processTimer' = tod /\ currProc' = currProc
  <2>1. Elapsed' = 0 /\ processTimer' \in 0 .. W - 1
    BY <1>1, <1>2, StartNow DEF TimeInv
  <2> QED
    BY <1>1, <1>2, <2>1 DEF TimeInv
<1>3. ASSUME NEW next \in PCB \cup {Null}, Dispatch(next) PROVE TimeInv'
  BY <1>1, <1>3, DispatchTime DEF TimeInv
<1> QED
  BY <1>2, <1>3 DEF Interrupt, PassUp

LEMMA DieTime ==
  ASSUME TimeInv, NEW p \in PCB, Die(p)
  PROVE  TimeInv'
<1>1. /\ p_time' = [p_time EXCEPT ![p] = 0] /\ used' = [used EXCEPT ![p] = 0]
      /\ tod' = tod
  BY DEF Die, Forget
<1>2. /\ p_time' \in [PCB -> Nat] /\ used' \in [PCB -> Nat]
      /\ \A q \in PCB : p_time'[q] <= used'[q]
  BY <1>1 DEF TimeInv
<1>3. ASSUME NEW next \in PCB \cup {Null}, Dispatch(next) PROVE TimeInv'
  BY <1>1, <1>2, <1>3, DispatchTime DEF TimeInv
<1>4. CASE p # currProc /\ UNCHANGED <<processTimer, currProc>>
  <2>1. currProc # Null =>
          p_time'[currProc] = p_time[currProc] /\ used'[currProc] = used[currProc]
    BY <1>1, <1>4 DEF TimeInv
  <2>2. Elapsed' = Elapsed
    BY <1>1, <1>4 DEF Elapsed
  <2> HIDE DEF Elapsed
  <2> QED
    BY <1>1, <1>2, <1>4, <2>1, <2>2 DEF TimeInv
<1> QED
  BY <1>3, <1>4 DEF Die

LEMMA TimeStep == TimeInv /\ [Next]_vars => TimeInv'
<1> SUFFICES ASSUME TimeInv, [Next]_vars PROVE TimeInv'
  OBVIOUS
<1>1. CASE UNCHANGED vars
  BY <1>1 DEF vars, TimeInv, Elapsed
<1> QED
  BY <1>1, TickTime, LeaveTime, InterruptTime, DieTime DEF Next

\* Nobody is charged for time he did not have, whoever runs next and wherever
\* the clock wraps around: processTimer, p_time and GETTIME by themselves.
THEOREM TimeNeverOvercharged == Spec => []NeverOvercharged
<1>1. TimeInv => NeverOvercharged
  BY ChargeTime DEF NeverOvercharged, TimeInv
<1> QED
  BY <1>1, TimeInit, TimeStep, PTL DEF Spec

\* ProcState only adds the states: what it does to the clock, the timer and the
\* charges is what CpuTime says.
THEOREM StateImplementsTime == StateSpec => Spec
<1>1. StateInit => Init
  BY DEF StateInit
<1>2. [StateNext]_stateVars => [Next]_vars
  <2> SUFFICES ASSUME [StateNext]_stateVars PROVE [Next]_vars
    OBVIOUS
  <2>1. CASE UNCHANGED timeVars
    BY <2>1 DEF timeVars, vars
  <2>2. CASE Execute
    BY <2>2 DEF Execute, Next
  <2>3. ASSUME NEW why, CallLeaves(why) PROVE Next
    BY <2>3 DEF CallLeaves, Next
  <2>4. CASE SliceEnds \/ OtherLeaves
    BY <2>4 DEF SliceEnds, OtherLeaves, Next
  <2>5. CASE InterruptOfOthers
    BY <2>5 DEF InterruptOfOthers, Next
  <2>6. ASSUME NEW r, DeviceAnswers(r) PROVE Next
    BY <2>6 DEF DeviceAnswers, Next
  <2>7. CASE SupportCall \/ PageFault
    BY <2>7 DEF SupportCall, PageFault, PassUpTo, Next
  <2>8. ASSUME NEW p \in PCB, DieAnew(p) PROVE Next
    BY <2>8 DEF DieAnew, Next
  <2>9. ASSUME NEW r, CallReturns(r) \/ HandlerReturns(r) PROVE UNCHANGED timeVars
    BY <2>9 DEF CallReturns, HandlerReturns
  <2>10. CASE WokenByOther \/ PagerReturns
    BY <2>10 DEF WokenByOther, PagerReturns, timeVars, vars
  <2>11. CASE UNCHANGED stateVars
    BY <2>11 DEF stateVars, timeVars, vars
  <2> QED
    BY <2>1, <2>2, <2>3, <2>4, <2>5, <2>6, <2>7, <2>8, <2>9, <2>10, <2>11 DEF StateNext
<1> QED
  BY <1>1, <1>2, PTL DEF StateSpec, Spec

\* The same of the processes as they are saved, interrupted and resumed.
THEOREM NeverOverchargedHolds == StateSpec => []NeverOvercharged
BY StateImplementsTime, TimeNeverOvercharged

-----------------------------------------------------------------------------
(* Processor states *)

State ==
  [at : {"program", "handler", "pager", "other"}, pc : Nat, a0 : Answer]

\* How the handlers stand on top of each other: the program at the bottom, the
\* handler of its system call on it, and the pager only at the top.
Stacked(f) ==
  /\ f \in Seq(State) /\ Len(f) >= 1
  /\ f[1].at = "program"
  /\ \A i \in 2 .. Len(f) : \/ f[i].at = "handler" /\ i = 2
                            \/ f[i].at = "pager" /\ i = Len(f)

\* The strengthening: a running process is not blocked.
StateInv ==
  /\ p_s \in State /\ reg \in State
  /\ sup_exceptState \in [{PGFAULTEXCEPT, GENERALEXCEPT} -> State]
  /\ Stacked(frames)
  /\ Own => waits = "no"
  /\ ResumesWhereStopped

LEMMA States ==
  /\ \A code \in {"program", "handler", "pager", "other"} :
       Entry(code) \in State /\ Entry(code).at = code
  /\ \A s \in State : After(s) \in State /\ After(s).at = s.at
  /\ \A s \in State, r \in Answer : Answered(s, r) \in State /\ Answered(s, r).at = s.at
<1>1. M \in Nat /\ M > 0 /\ 0 \in Answer
  BY StateAssumption
<1>2. \A x \in Nat : (x + 1) % M \in Nat
  BY <1>1
<1> QED
  BY <1>1, <1>2 DEF State, Entry, After, Answered

\* The top state changes and the others stay.
LEMMA SetTopStacked ==
  ASSUME NEW f, Stacked(f), NEW s \in State, s.at = Top(f).at
  PROVE  /\ Stacked(SetTop(f, s))
         /\ Len(SetTop(f, s)) = Len(f) /\ Top(SetTop(f, s)) = s
         /\ \A i \in 1 .. Len(f) - 1 : SetTop(f, s)[i] = f[i]
         /\ \A i \in 1 .. Len(f) : SetTop(f, s)[i].at = f[i].at
<1> DEFINE g == SetTop(f, s)
<1>1. f \in Seq(State) /\ Len(f) \in Nat /\ Len(f) >= 1
  BY DEF Stacked
<1>2. g \in Seq(State) /\ Len(g) = Len(f)
  BY <1>1, ExceptSeq DEF SetTop
<1>3. \A i \in 1 .. Len(f) : g[i] = IF i = Len(f) THEN s ELSE f[i]
  BY <1>1, ExceptSeq DEF SetTop
<1> HIDE DEF g
<1>4. \A i \in 1 .. Len(f) : g[i].at = f[i].at
  BY <1>3 DEF Top
<1>5. Stacked(g)
  BY <1>1, <1>2, <1>4 DEF Stacked
<1> QED
  BY <1>1, <1>2, <1>3, <1>4, <1>5 DEF g, Top
\* What every handler on the stack will go on from is in its slot.
Saved(f, slots) == \A i \in 1 .. Len(f) - 1 : slots[Slot(f[i + 1].at)] = f[i]

LEMMA SetTopSaved ==
  ASSUME NEW f, Stacked(f), NEW s \in State, s.at = Top(f).at, NEW slots, Saved(f, slots)
  PROVE  Saved(SetTop(f, s), slots)
<1>1. /\ Len(SetTop(f, s)) = Len(f)
      /\ \A i \in 1 .. Len(f) - 1 : SetTop(f, s)[i] = f[i]
      /\ \A i \in 1 .. Len(f) : SetTop(f, s)[i].at = f[i].at
  BY SetTopStacked
<1>2. Len(f) \in Nat
  BY DEF Stacked
<1> QED
  BY <1>1, <1>2 DEF Saved

\* The top state, and what is known when the top is of a given kind.
LEMMA TopState ==
  ASSUME NEW f, Stacked(f)
  PROVE  /\ Len(f) \in Nat \ {0} /\ Top(f) \in State /\ Top(f) = f[Len(f)]
         /\ Top(f).at \in {"program", "handler", "pager"}
         /\ Top(f).at = "program" => Len(f) = 1
         /\ Top(f).at = "handler" => Len(f) = 2
         /\ Top(f).at # "program" => Len(f) >= 2
<1>1. f \in Seq(State) /\ Len(f) \in Nat /\ Len(f) >= 1
  BY DEF Stacked
<1>2. Len(f) = 1 \/ Len(f) \in 2 .. Len(f)
  <2> DEFINE n == Len(f)
  <2>1. n \in Nat /\ n >= 1
    BY <1>1
  <2> HIDE DEF n
  <2>2. n = 1 \/ n \in 2 .. n
    BY <2>1
  <2> QED
    BY <2>2 DEF n
<1>3. \A i \in 1 .. Len(f) : f[i] \in State
  BY <1>1, ElementOfSeq
<1>4. f[Len(f)] \in State
  BY <1>1, <1>3
<1>5. CASE Len(f) = 1
  BY <1>1, <1>4, <1>5 DEF Stacked, Top
<1>6. CASE Len(f) \in 2 .. Len(f)
  BY <1>1, <1>4, <1>6 DEF Stacked, Top
<1> QED
  BY <1>2, <1>5, <1>6

\* A handler begins on top of the program, or the pager on top of anything
\* but itself; it uses a slot that nobody on the stack needs.
LEMMA PushStacked ==
  ASSUME NEW f, Stacked(f), NEW slots \in [{PGFAULTEXCEPT, GENERALEXCEPT} -> State],
         Saved(f, slots), NEW code,
         \/ code = "handler" /\ Top(f).at = "program"
         \/ code = "pager" /\ Top(f).at \in {"program", "handler"}
  PROVE  LET g == Append(f, Entry(code))
         IN  /\ Stacked(g) /\ Top(g) = Entry(code)
             /\ Saved(g, [slots EXCEPT ![Slot(code)] = Top(f)])
<1> DEFINE g == Append(f, Entry(code))
           after == [slots EXCEPT ![Slot(code)] = Top(f)]
<1>1. /\ f \in Seq(State) /\ Len(f) \in Nat \ {0} /\ Top(f) = f[Len(f)]
      /\ Top(f).at = "program" => Len(f) = 1
      /\ Top(f).at = "handler" => Len(f) = 2
  BY TopState DEF Stacked
<1>2. Entry(code) \in State /\ Entry(code).at = code
  BY States
<1>3. /\ g \in Seq(State) /\ Len(g) = Len(f) + 1
      /\ g[Len(f) + 1] = Entry(code)
      /\ \A i \in 1 .. Len(f) : g[i] = f[i]
  BY <1>1, <1>2, AppendProperties
<1>4. \A i \in 2 .. Len(f) : f[i].at = "handler" /\ i = 2
  BY <1>1 DEF Stacked
<1> HIDE DEF g
<1>5. Stacked(g)
  BY <1>1, <1>2, <1>3, <1>4 DEF Stacked
<1>6. Top(g) = Entry(code)
  BY <1>1, <1>3 DEF Top
<1>7. Slot(code) \in {PGFAULTEXCEPT, GENERALEXCEPT}
  BY DEF Slot
<1>8. \A k \in {PGFAULTEXCEPT, GENERALEXCEPT} :
        after[k] = IF k = Slot(code) THEN Top(f) ELSE slots[k]
  OBVIOUS
<1>9. \A i \in 1 .. Len(f) - 1 : Slot(f[i + 1].at) # Slot(code)
                                  /\ Slot(f[i + 1].at) \in {PGFAULTEXCEPT, GENERALEXCEPT}
  BY <1>1, <1>4 DEF Slot, PGFAULTEXCEPT, GENERALEXCEPT
<1> HIDE DEF after
<1>10. ASSUME NEW i \in 1 .. Len(g) - 1 PROVE after[Slot(g[i + 1].at)] = g[i]
  <2>1. CASE i = Len(f)
    BY <1>1, <1>2, <1>3, <1>7, <1>8, <2>1
  <2>2. CASE i \in 1 .. Len(f) - 1
    <3>1. g[i] = f[i] /\ g[i + 1] = f[i + 1]
      BY <1>1, <1>3, <2>2
    <3> QED
      BY <1>8, <1>9, <2>2, <3>1 DEF Saved
  <2> QED
    BY <1>1, <1>3, <1>10, <2>1, <2>2
<1> QED
  BY <1>5, <1>6, <1>10 DEF Saved, g, after

\* The handler at the top ends; what it interrupted is in its slot.
LEMMA PopStacked ==
  ASSUME NEW f, Stacked(f), Top(f).at # "program", NEW slots, Saved(f, slots)
  PROVE  LET g == Pop(f)
         IN  /\ Stacked(g) /\ Saved(g, slots)
             /\ Top(g) = slots[Slot(Top(f).at)]
             /\ Top(f).at = "handler" => Len(g) = 1
<1> DEFINE g == Pop(f)
<1>1. /\ f \in Seq(State) /\ Len(f) \in Nat /\ Len(f) >= 2 /\ Top(f) = f[Len(f)]
      /\ Top(f).at = "handler" => Len(f) = 2
  BY TopState DEF Stacked
<1>2. /\ g \in Seq(State) /\ Len(g) = Len(f) - 1
      /\ \A i \in 1 .. Len(f) - 1 : g[i] = f[i]
  <2>1. Len(f) - 1 \in 1 .. Len(f)
    BY <1>1
  <2>2. /\ g \in Seq(State)
        /\ Len(g) = (IF 1 <= Len(f) - 1 THEN (Len(f) - 1) - 1 + 1 ELSE 0)
        /\ \A i \in 1 .. (Len(f) - 1) - 1 + 1 : g[i] = f[1 + i - 1]
    BY <1>1, <2>1, SubSeqProperties DEF Pop
  <2> HIDE DEF g
  <2>3. Len(g) = Len(f) - 1
    BY <1>1, <2>2
  <2>4. \A i \in 1 .. Len(f) - 1 : 1 + i - 1 = i
    BY <1>1
  <2>5. (Len(f) - 1) - 1 + 1 = Len(f) - 1
    BY <1>1
  <2> QED
    BY <2>2, <2>3, <2>4, <2>5
<1> HIDE DEF g
<1>3. Stacked(g)
  <2>1. g[1].at = "program"
    BY <1>1, <1>2 DEF Stacked
  <2>2. \A i \in 2 .. Len(g) : g[i].at = "handler" /\ i = 2
    BY <1>1, <1>2 DEF Stacked
  <2> QED
    BY <1>1, <1>2, <2>1, <2>2 DEF Stacked
<1>4. Saved(g, slots)
  <2> SUFFICES ASSUME NEW i \in 1 .. Len(g) - 1 PROVE slots[Slot(g[i + 1].at)] = g[i]
    BY DEF Saved
  <2>1. g[i] = f[i] /\ g[i + 1] = f[i + 1] /\ i \in 1 .. Len(f) - 1
    BY <1>1, <1>2
  <2> QED
    BY <2>1 DEF Saved
<1>5. Top(g) = slots[Slot(Top(f).at)]
  <2>1. Top(g) = f[Len(f) - 1] /\ Len(f) - 1 \in 1 .. Len(f) - 1
    BY <1>1, <1>2 DEF Top
  <2>2. slots[Slot(f[(Len(f) - 1) + 1].at)] = f[Len(f) - 1]
    BY <2>1 DEF Saved
  <2>3. (Len(f) - 1) + 1 = Len(f)
    BY <1>1
  <2> QED
    BY <1>1, <2>1, <2>2, <2>3
<1> QED
  BY <1>1, <1>2, <1>3, <1>4, <1>5 DEF g

-----------------------------------------------------------------------------
(* The steps *)

\* The invariant with the states of the stack apart from where it is saved.
LEMMA StateParts ==
  /\ StateInv <=>
       /\ p_s \in State /\ reg \in State
       /\ sup_exceptState \in [{PGFAULTEXCEPT, GENERALEXCEPT} -> State]
       /\ Stacked(frames) /\ Saved(frames, sup_exceptState)
       /\ Own => waits = "no"
       /\ Top(frames) = IF Own THEN reg ELSE p_s
  /\ StateInv' <=>
       /\ p_s' \in State /\ reg' \in State
       /\ sup_exceptState' \in [{PGFAULTEXCEPT, GENERALEXCEPT} -> State]
       /\ Stacked(frames') /\ Saved(frames', sup_exceptState')
       /\ Own' => waits' = "no"
       /\ Top(frames') = IF Own' THEN reg' ELSE p_s'
BY DEF StateInv, ResumesWhereStopped, Saved

\* Where the scheduler chooses: the processor gets the state saved in the PCB.
LEMMA LoadState ==
  ASSUME Load, p_s' \in State, Stacked(frames'), Top(frames') = p_s',
         sup_exceptState' \in [{PGFAULTEXCEPT, GENERALEXCEPT} -> State],
         Saved(frames', sup_exceptState')
  PROVE  StateInv'
<1>1. Other \in State
  BY States DEF Other
<1>2. reg' = (IF Own' THEN p_s' ELSE Other) /\ (Own' => waits' = "no")
  BY DEF Load, Own
<1> QED
  BY <1>1, <1>2, StateParts

LEMMA StateStart == StateInit => StateInv
<1> SUFFICES ASSUME StateInit PROVE StateInv
  OBVIOUS
<1>1. /\ p_s = Entry("program") /\ p_s \in State /\ p_s.at = "program"
      /\ Other \in State /\ frames = <<p_s>>
  BY States DEF StateInit, Other
<1>2. frames \in Seq(State) /\ Len(frames) = 1 /\ frames[1] = p_s
  BY <1>1
<1>3. Stacked(frames) /\ Top(frames) = p_s /\ Saved(frames, sup_exceptState)
  BY <1>1, <1>2 DEF Stacked, Top, Saved
<1>4. /\ reg = (IF Own THEN p_s ELSE Other) /\ waits = "no"
      /\ sup_exceptState \in [{PGFAULTEXCEPT, GENERALEXCEPT} -> State]
  BY <1>1 DEF StateInit
<1> QED
  BY <1>1, <1>3, <1>4, StateParts

LEMMA ExecuteState == StateInv /\ Execute => StateInv'
<1> SUFFICES ASSUME StateInv, Execute PROVE StateInv'
  OBVIOUS
<1>1. currProc' = currProc /\ UNCHANGED <<p_s, sup_exceptState, waits>>
  BY DEF Execute, Tick
<1>2. CASE ~Own
  BY <1>1, <1>2, StateParts DEF Execute, Own
<1>3. CASE Own
  <2>1. reg' = After(reg) /\ frames' = SetTop(frames, After(reg)) /\ reg = Top(frames)
    BY <1>3, StateParts DEF Execute
  <2>2. After(reg) \in State /\ After(reg).at = Top(frames).at
    BY <2>1, StateParts, States
  <2>3. Stacked(frames') /\ Top(frames') = reg' /\ Saved(frames', sup_exceptState)
    BY <2>1, <2>2, StateParts, SetTopStacked, SetTopSaved
  <2> QED
    BY <1>1, <1>3, <2>1, <2>2, <2>3, StateParts DEF Own
<1> QED
  BY <1>2, <1>3

LEMMA CallReturnsState ==
  ASSUME StateInv, NEW r \in Answer, CallReturns(r)
  PROVE  StateInv'
<1> DEFINE s == Answered(After(reg), r)
<1>1. /\ Own /\ reg = Top(frames) /\ reg' = s /\ frames' = SetTop(frames, s)
      /\ UNCHANGED <<timeVars, p_s, sup_exceptState, waits>>
  BY StateParts DEF CallReturns
<1>2. s \in State /\ s.at = Top(frames).at
  BY <1>1, StateParts, States
<1> HIDE DEF s
<1>3. Stacked(frames') /\ Top(frames') = s /\ Saved(frames', sup_exceptState)
  BY <1>1, <1>2, StateParts, SetTopStacked, SetTopSaved
<1> QED
  BY <1>1, <1>2, <1>3, StateParts DEF Own, timeVars

LEMMA CallLeavesState ==
  ASSUME StateInv, NEW why, CallLeaves(why)
  PROVE  StateInv'
<1>1. /\ Own /\ reg = Top(frames) /\ p_s' = After(reg)
      /\ frames' = SetTop(frames, After(reg)) /\ sup_exceptState' = sup_exceptState
      /\ Load
  BY StateParts DEF CallLeaves, StateAfterCall
<1>2. After(reg) \in State /\ After(reg).at = Top(frames).at
  BY <1>1, StateParts, States
<1>3. Stacked(frames') /\ Top(frames') = p_s' /\ Saved(frames', sup_exceptState')
  BY <1>1, <1>2, StateParts, SetTopStacked, SetTopSaved
<1> QED
  BY <1>1, <1>2, <1>3, LoadState, StateParts

LEMMA LeavesState == StateInv /\ (SliceEnds \/ OtherLeaves) => StateInv'
<1> SUFFICES ASSUME StateInv, SliceEnds \/ OtherLeaves PROVE StateInv'
  OBVIOUS
<1>1. /\ p_s' = Top(frames) /\ p_s' \in State
      /\ UNCHANGED <<sup_exceptState, frames>> /\ Load
  BY StateParts DEF SliceEnds, OtherLeaves
<1> QED
  BY <1>1, LoadState, StateParts

LEMMA WokenState == StateInv /\ WokenByOther => StateInv'
BY StateParts DEF WokenByOther, timeVars, Own

LEMMA InterruptState == StateInv /\ InterruptOfOthers => StateInv'
<1> SUFFICES ASSUME StateInv, InterruptOfOthers PROVE StateInv'
  OBVIOUS
<1>1. UNCHANGED <<p_s, sup_exceptState, frames>> /\ HandlerEnds /\ Interrupt
  BY DEF InterruptOfOthers
<1>2. CASE currProc # Null
  <2>1. currProc' = currProc /\ reg' = reg
    BY <1>1, <1>2 DEF Interrupt, HandlerEnds
  <2>2. Own => waits' = "no"
    BY StateParts DEF InterruptOfOthers
  <2> QED
    BY <1>1, <2>1, <2>2, StateParts DEF Own
<1>3. CASE currProc = Null
  <2>1. ~Own /\ Load
    BY <1>1, <1>3, ClockAssumption, StateAssumption DEF HandlerEnds, Own
  <2> QED
    BY <1>1, <2>1, LoadState, StateParts
<1> QED
  BY <1>2, <1>3

LEMMA DeviceAnswersState ==
  ASSUME StateInv, NEW r \in Answer, DeviceAnswers(r)
  PROVE  StateInv'
<1>1. /\ ~Own /\ p_s = Top(frames)
      /\ p_s' = Answered(p_s, r) /\ frames' = SetTop(frames, Answered(p_s, r))
      /\ sup_exceptState' = sup_exceptState
      /\ waits' = "no" /\ HandlerEnds /\ Interrupt
  BY StateParts DEF DeviceAnswers
<1>2. Answered(p_s, r) \in State /\ Answered(p_s, r).at = Top(frames).at
  BY <1>1, StateParts, States
<1>3. Stacked(frames') /\ Top(frames') = p_s' /\ Saved(frames', sup_exceptState')
  BY <1>1, <1>2, StateParts, SetTopStacked, SetTopSaved
<1>4. CASE currProc # Null
  <2>1. currProc' = currProc /\ reg' = reg
    BY <1>1, <1>4 DEF Interrupt, HandlerEnds
  <2> QED
    BY <1>1, <1>2, <1>3, <2>1, StateParts DEF Own
<1>5. CASE currProc = Null
  <2>1. Load
    BY <1>1, <1>5 DEF HandlerEnds
  <2> QED
    BY <1>1, <1>2, <1>3, <2>1, LoadState, StateParts
<1> QED
  BY <1>4, <1>5

\* An exception is passed up.
LEMMA PassUpState == StateInv /\ (SupportCall \/ PageFault) => StateInv'
<1> SUFFICES ASSUME StateInv, SupportCall \/ PageFault PROVE StateInv'
  OBVIOUS
<1>1. PICK code : /\ \/ code = "handler" /\ reg.at = "program"
                     \/ code = "pager" /\ reg.at \in {"program", "handler"}
                  /\ PassUpTo(code)
  BY DEF SupportCall, PageFault
<1>2. /\ Own /\ reg = Top(frames) /\ currProc' = currProc
      /\ sup_exceptState' = [sup_exceptState EXCEPT ![Slot(code)] = Top(frames)]
      /\ reg' = Entry(code) /\ frames' = Append(frames, Entry(code))
      /\ UNCHANGED <<p_s, waits>>
  BY <1>1, StateParts DEF PassUpTo, PassUp
<1>3. /\ Stacked(frames') /\ Top(frames') = reg'
      /\ Saved(frames', sup_exceptState')
  BY <1>1, <1>2, StateParts, PushStacked
<1>4. Entry(code) \in State
  BY <1>1, States
<1>5. sup_exceptState' \in [{PGFAULTEXCEPT, GENERALEXCEPT} -> State]
  BY <1>2, StateParts, TopState
<1> QED
  BY <1>2, <1>3, <1>4, <1>5, StateParts DEF Own

LEMMA HandlerReturnsState ==
  ASSUME StateInv, NEW r \in Answer, HandlerReturns(r)
  PROVE  StateInv'
<1> DEFINE f == Pop(frames)
           s == Answered(After(Top(f)), r)
<1>1. /\ Own /\ reg = Top(frames) /\ reg.at = "handler"
      /\ reg' = Answered(After(sup_exceptState[GENERALEXCEPT]), r)
      /\ sup_exceptState' = [sup_exceptState EXCEPT ![GENERALEXCEPT] = reg']
      /\ frames' = SetTop(f, s)
      /\ UNCHANGED <<timeVars, p_s, waits>>
  BY StateParts DEF HandlerReturns
<1>2. /\ Stacked(f) /\ Len(f) = 1
      /\ Top(f) = sup_exceptState[GENERALEXCEPT]
  BY <1>1, StateParts, PopStacked DEF Slot
<1>3. reg' = s
  BY <1>1, <1>2
<1> HIDE DEF f
<1>4. Top(f) \in State
  BY <1>2, TopState
<1>5. s \in State /\ s.at = Top(f).at
  BY <1>4, States
<1> HIDE DEF s
<1>6. Stacked(frames') /\ Top(frames') = s /\ Len(frames') = 1
  BY <1>1, <1>2, <1>5, SetTopStacked
<1>7. Saved(frames', sup_exceptState')
  BY <1>6 DEF Saved
<1>8. sup_exceptState' \in [{PGFAULTEXCEPT, GENERALEXCEPT} -> State]
  BY <1>1, <1>3, <1>5, StateParts
<1> QED
  BY <1>1, <1>3, <1>5, <1>6, <1>7, <1>8, StateParts DEF Own, timeVars

LEMMA PagerReturnsState == StateInv /\ PagerReturns => StateInv'
<1> SUFFICES ASSUME StateInv, PagerReturns PROVE StateInv'
  OBVIOUS
<1>1. /\ Own /\ reg = Top(frames) /\ reg.at = "pager"
      /\ reg' = sup_exceptState[PGFAULTEXCEPT] /\ frames' = Pop(frames)
      /\ UNCHANGED <<timeVars, p_s, sup_exceptState, waits>>
  BY StateParts DEF PagerReturns
<1>2. /\ Stacked(frames') /\ Saved(frames', sup_exceptState)
      /\ Top(frames') = sup_exceptState[PGFAULTEXCEPT]
  BY <1>1, StateParts, PopStacked DEF Slot
<1>3. reg' \in State
  BY <1>1, <1>2, TopState
<1> QED
  BY <1>1, <1>2, <1>3, StateParts DEF Own, timeVars

LEMMA DieState ==
  ASSUME StateInv, NEW p \in PCB, DieAnew(p)
  PROVE  StateInv'
<1>0. sup_exceptState' = sup_exceptState /\ Die(p)
  BY DEF DieAnew
<1>1. CASE p = Watched
  <2>1. p_s' = Entry("program") /\ frames' = <<p_s'>> /\ waits' = "no"
    BY <1>1 DEF DieAnew
  <2>2. p_s' \in State /\ p_s'.at = "program"
    BY <2>1, States
  <2>3. frames' \in Seq(State) /\ Len(frames') = 1 /\ frames'[1] = p_s'
    BY <2>1, <2>2
  <2>4. Stacked(frames') /\ Top(frames') = p_s' /\ Saved(frames', sup_exceptState')
    BY <2>2, <2>3 DEF Stacked, Top, Saved
  <2>5. CASE p = currProc
    <3>1. Load
      BY <2>5 DEF DieAnew
    <3> QED
      BY <1>0, <2>2, <2>4, <3>1, LoadState, StateParts
  <2>6. CASE p # currProc
    <3>1. currProc' = currProc /\ reg' = reg
      BY <1>0, <2>6 DEF DieAnew, Die
    <3> QED
      BY <1>0, <1>1, <2>2, <2>4, <2>6, <3>1, StateParts DEF Own
  <2> QED
    BY <2>5, <2>6
<1>2. CASE p # Watched
  <2>1. UNCHANGED <<p_s, frames, waits>>
    BY <1>2 DEF DieAnew
  <2>2. CASE p = currProc
    <3>1. Load /\ ~Own
      BY <1>2, <2>2 DEF DieAnew, Own
    <3> QED
      BY <1>0, <2>1, <3>1, LoadState, StateParts
  <2>3. CASE p # currProc
    <3>1. currProc' = currProc /\ reg' = reg
      BY <1>0, <2>3 DEF DieAnew, Die
    <3> QED
      BY <1>0, <2>1, <3>1, StateParts DEF Own
  <2> QED
    BY <2>2, <2>3
<1> QED
  BY <1>1, <1>2

LEMMA StateStep == StateInv /\ [StateNext]_stateVars => StateInv'
<1> SUFFICES ASSUME StateInv, [StateNext]_stateVars PROVE StateInv'
  OBVIOUS
<1>1. CASE UNCHANGED stateVars
  BY <1>1, StateParts DEF stateVars, timeVars, Own
<1> QED
  BY <1>1, ExecuteState, CallReturnsState, HandlerReturnsState, DeviceAnswersState,
     CallLeavesState, LeavesState, WokenState, InterruptState, PassUpState,
     PagerReturnsState, DieState DEF StateNext

\* A process goes on exactly where it stopped, whatever interrupts it, blocks
\* it or is passed up, and no save overwrites a state that is still needed.
THEOREM ResumesWhereStoppedHolds == StateSpec => []ResumesWhereStopped
<1>1. StateInv => ResumesWhereStopped
  BY DEF StateInv
<1> QED
  BY <1>1, StateStart, StateStep, PTL DEF StateSpec

=============================================================================
