--------------------------- MODULE DevicesProofs ---------------------------
(***************************************************************************)
(* For every set of lines and devices: the index DOIO computes from an     *)
(* address is the index deviceInterrupt computes from the interrupt, and   *)
(* the invariants of Devices that follow from it.                          *)
(***************************************************************************)
EXTENDS Devices, TLAPS

\* The fields of a sub-device.
LEMMA SubDevFields ==
  ASSUME NEW s \in SubDev
  PROVE  /\ s.line \in 3 .. 7 /\ s.dev \in 0 .. 7
         /\ s.line \in Line /\ s.dev \in DevNo
         /\ \/ s.line # 7 /\ s.sub = "dtp"
            \/ s.line = 7 /\ s.sub \in {"transm", "recv"}
BY LineAssumption DEF SubDev

\* The semaphore a process waits on in DOIO is the one the interrupt of its
\* device releases, and it is not the pseudo-clock (index 48).
THEOREM IndexAgreement ==
  ASSUME NEW s \in SubDev
  PROVE  /\ DoIOIndex(CommandAddr(s)) = InterruptIndex(s)
         /\ InterruptIndex(s) \in 0 .. 47
<1>1. s.line \in 3 .. 7 /\ s.dev \in 0 .. 7
  BY SubDevFields
<1>2. CASE s.line # 7 /\ s.sub = "dtp"
  <2>1. CommandAddr(s) - START_ADDR = ((s.line - 3) * 8 + s.dev) * 16 + 4
    BY <1>1, <1>2 DEF CommandAddr, START_ADDR
  <2>2. (CommandAddr(s) - START_ADDR) \div 16 = (s.line - 3) * 8 + s.dev
    BY <1>1, <2>1
  <2> QED
    BY <1>1, <1>2, <2>2 DEF DoIOIndex, InterruptIndex
<1>3. CASE s.line = 7 /\ s.sub \in {"transm", "recv"}
  <2>1. CommandAddr(s) - START_ADDR
          = (32 + s.dev) * 16 + (IF s.sub = "transm" THEN 12 ELSE 4)
    BY <1>1, <1>3 DEF CommandAddr, START_ADDR
  <2>2. /\ (CommandAddr(s) - START_ADDR) \div 16 = 32 + s.dev
        /\ (CommandAddr(s) - START_ADDR) % 16
             = IF s.sub = "transm" THEN 12 ELSE 4
    BY <1>1, <1>3, <2>1
  <2> QED
    BY <1>1, <1>3, <2>2 DEF DoIOIndex, InterruptIndex
<1> QED
  BY <1>2, <1>3, SubDevFields

\* Different sub-devices have different semaphores.
THEOREM IndexInjective ==
  ASSUME NEW s \in SubDev, NEW t \in SubDev,
         InterruptIndex(s) = InterruptIndex(t)
  PROVE  s = t
<1>1. /\ s.line \in 3 .. 7 /\ s.dev \in 0 .. 7
      /\ t.line \in 3 .. 7 /\ t.dev \in 0 .. 7
  BY SubDevFields
<1>2. /\ \/ s.line # 7 /\ s.sub = "dtp"
         \/ s.line = 7 /\ s.sub \in {"transm", "recv"}
      /\ \/ t.line # 7 /\ t.sub = "dtp"
         \/ t.line = 7 /\ t.sub \in {"transm", "recv"}
  BY SubDevFields
<1>3. s.line = t.line /\ s.dev = t.dev /\ s.sub = t.sub
  BY <1>1, <1>2, InterruptIndex(s) = InterruptIndex(t) DEF InterruptIndex
<1>4. \A r \in SubDev : r = [line |-> r.line, dev |-> r.dev, sub |-> r.sub]
  BY DEF SubDev
<1> QED
  BY <1>3, <1>4

\* What deviceInterrupt serves is a sub-device whose operation has ended well
\* (a terminal) or ended at all (any other device).
LEMMA ServedPending ==
  ASSUME TypeOK, NEW line \in Line, NEW d \in BitmapWord(line),
         NEW s \in Served(line, d)
  PROVE  s \in SubDev /\ InterruptPending(s)
<1>1. s \in SubDev /\ s.line = line /\ s.dev = d
  BY DEF Served
<1>2. CASE s.sub = "dtp"
  <2>1. PICK t \in SubDev : t.line = line /\ t.dev = d /\ InterruptPending(t)
    BY DEF BitmapWord
  <2>2. t = s
    <3>1. t.sub = "dtp"
      BY <1>1, <1>2, <2>1, SubDevFields
    <3> QED
      BY <1>1, <1>2, <2>1, <3>1 DEF SubDev
  <2> QED
    BY <1>1, <2>1, <2>2
<1>3. CASE s.sub # "dtp"
  BY <1>1, <1>3 DEF Served, InterruptPending
<1> QED
  BY <1>2, <1>3

\* A non-empty set of device numbers has a lowest one.
LEMMA LowestBit ==
  ASSUME NEW S \in SUBSET (0 .. 7), S # {}
  PROVE  \E d \in S : \A e \in S : d <= e
<1>1. CASE 0 \in S \/ 1 \in S
  BY <1>1
<1>2. CASE 0 \notin S /\ 1 \notin S /\ (2 \in S \/ 3 \in S)
  BY <1>2
<1>3. CASE (\A d \in 0 .. 3 : d \notin S) /\ (4 \in S \/ 5 \in S)
  BY <1>3
<1>4. CASE (\A d \in 0 .. 5 : d \notin S) /\ (6 \in S \/ 7 \in S)
  BY <1>4
<1>5. \E d \in 0 .. 7 : d \in S
  OBVIOUS
<1> QED
  BY <1>1, <1>2, <1>3, <1>4, <1>5

\* Every process that waits is where its interrupt will find it, and every
\* process in a queue still has an interrupt to come.
THEOREM Inductive == Spec => []IInv
<1>1. Init => IInv
  BY DEF Init, IInv, TypeOK
<1>2. IInv /\ [Next]_vars => IInv'
  <2> SUFFICES ASSUME IInv, [Next]_vars PROVE IInv'
    OBVIOUS
  <2> USE DEF IInv, TypeOK
  <2>1. ASSUME NEW s \in SubDev, DoIO(s) PROVE IInv'
    <3>1. InterruptIndex(s) \in 0 .. 47
          /\ DoIOIndex(CommandAddr(s)) = InterruptIndex(s)
      BY IndexAgreement
    <3> QED
      BY <2>1, <3>1 DEF DoIO
  <2>2. ASSUME NEW s \in SubDev, Kill(s) PROVE IInv'
    <3>1. UNCHANGED <<status, panicked>>
      BY <2>2 DEF Kill
    <3>2. /\ waiting' \in [0 .. 47 -> SUBSET SubDev]
          /\ \A i \in 0 .. 47 : waiting'[i] \subseteq waiting[i]
      BY <2>2 DEF Kill
    <3> QED
      BY <3>1, <3>2
  <2>3. ASSUME NEW s \in SubDev, Complete(s) PROVE IInv'
    <3>1. PICK r \in {"done", "error"} : status' = [status EXCEPT ![s] = r]
      BY <2>3 DEF Complete
    <3>2. UNCHANGED <<waiting, panicked>>
      BY <2>3 DEF Complete
    <3> QED
      BY <3>1, <3>2
  <2>4. ASSUME NEW line \in Line, deviceInterrupt(line) PROVE IInv'
    <3>1. PICK d \in BitmapWord(line) :
            \/ panicked' = TRUE /\ UNCHANGED <<status, waiting>>
            \/ \E s \in Served(line, d) :
                 /\ status' = [status EXCEPT ![s] = "ready"]
                 /\ \/ waiting[InterruptIndex(s)] = {} /\ UNCHANGED waiting
                    \/ \E p \in waiting[InterruptIndex(s)] : waiting' =
                         [waiting EXCEPT ![InterruptIndex(s)] = @ \ {p}]
                 /\ UNCHANGED panicked
      <4>1. \E d \in BitmapWord(line) : \A e \in BitmapWord(line) : d <= e
        <5>1. BitmapWord(line) \in SUBSET (0 .. 7) /\ BitmapWord(line) # {}
          BY <2>4, LineAssumption DEF deviceInterrupt, BitmapWord
        <5> QED
          BY <5>1, LowestBit
      <4> QED
        BY <2>4, <4>1 DEF deviceInterrupt
    <3>2. CASE panicked' = TRUE /\ UNCHANGED <<status, waiting>>
      BY <3>2
    <3>3. ASSUME NEW s \in Served(line, d),
                 status' = [status EXCEPT ![s] = "ready"],
                 \/ waiting[InterruptIndex(s)] = {} /\ UNCHANGED waiting
                 \/ \E p \in waiting[InterruptIndex(s)] : waiting' =
                      [waiting EXCEPT ![InterruptIndex(s)] = @ \ {p}],
                 UNCHANGED panicked
          PROVE  IInv'
      <4>1. s \in SubDev /\ InterruptIndex(s) \in 0 .. 47
        BY IndexAgreement, ServedPending
      <4>2. \A p \in waiting[InterruptIndex(s)] : p = s
        BY <4>1, IndexInjective
      <4>3. \A i \in 0 .. 47 : waiting'[i] \subseteq waiting[i] /\ s \notin waiting'[i]
        BY <3>3, <4>1, <4>2
      <4> QED
        BY <3>3, <4>1, <4>3
    <3> QED
      BY <3>1, <3>2, <3>3
  <2>5. CASE UNCHANGED vars
    BY <2>5 DEF vars
  <2> QED
    BY <2>1, <2>2, <2>3, <2>4, <2>5 DEF Next
<1> QED
  BY <1>1, <1>2, PTL DEF Spec

\* The mutual exclusion of the users on a device is one on its semaphore.
THEOREM OneWaiterHolds == Spec => []OneWaiter
<1>1. IInv => OneWaiter
  <2> SUFFICES ASSUME IInv, NEW i \in 0 .. 47,
                      NEW s \in waiting[i], NEW t \in waiting[i]
               PROVE  s = t
    BY DEF OneWaiter
  <2>1. s \in SubDev /\ t \in SubDev
    BY DEF IInv, TypeOK
  <2> QED
    BY <2>1, IndexInjective DEF IInv
<1> QED
  BY <1>1, Inductive, PTL

\* An interrupt releases the process whose command register was written, from
\* the device whose status was read and acknowledged.
THEOREM WokenByOwnDeviceHolds == Spec => WokenByOwnDevice
<1> DEFINE Own == \A i \in 0 .. 47 : \A s \in waiting[i] \ waiting[i]' :
                    status # status' =>
                      InterruptPending(s) /\ status'[s] = "ready"
<1>1. IInv /\ [Next]_vars => [Own]_vars
  <2> SUFFICES ASSUME IInv, Next PROVE Own
    BY DEF vars
  <2>1. ASSUME NEW s \in SubDev, DoIO(s) \/ Kill(s) \/ Complete(s) PROVE Own
    <3>1. waiting \in [0 .. 47 -> SUBSET SubDev]
      BY DEF IInv, TypeOK
    <3>2. CASE DoIO(s)
      <4>1. \A i \in 0 .. 47 : waiting[i] \ waiting[i]' = {}
        BY <3>1, <3>2 DEF DoIO
      <4> QED
        BY <4>1
    <3>3. CASE Kill(s)
      BY <3>3 DEF Kill
    <3>4. CASE Complete(s)
      BY <3>4 DEF Complete
    <3> QED
      BY <2>1, <3>2, <3>3, <3>4
  <2>2. ASSUME NEW line \in Line, deviceInterrupt(line) PROVE Own
    <3> SUFFICES ASSUME NEW i \in 0 .. 47, NEW p \in waiting[i] \ waiting[i]',
                        status # status'
                 PROVE  InterruptPending(p) /\ status'[p] = "ready"
      OBVIOUS
    <3>1. PICK d \in BitmapWord(line) : \E s \in Served(line, d) :
            /\ status' = [status EXCEPT ![s] = "ready"]
            /\ \E q \in waiting[InterruptIndex(s)] :
                 waiting' = [waiting EXCEPT ![InterruptIndex(s)] = @ \ {q}]
      <4>1. BitmapWord(line) \in SUBSET (0 .. 7) /\ BitmapWord(line) # {}
        BY <2>2, LineAssumption DEF deviceInterrupt, BitmapWord
      <4>2. \E d \in BitmapWord(line) : \A e \in BitmapWord(line) : d <= e
        BY <4>1, LowestBit
      <4> QED
        BY <2>2, <4>2 DEF deviceInterrupt
    <3>2. PICK s \in Served(line, d) :
            /\ status' = [status EXCEPT ![s] = "ready"]
            /\ \E q \in waiting[InterruptIndex(s)] :
                 waiting' = [waiting EXCEPT ![InterruptIndex(s)] = @ \ {q}]
      BY <3>1
    <3>3. s \in SubDev /\ InterruptPending(s) /\ InterruptIndex(s) \in 0 .. 47
      BY ServedPending, IndexAgreement DEF IInv
    <3>4. p \in waiting[InterruptIndex(s)] /\ i = InterruptIndex(s)
      BY <3>2, <3>3 DEF IInv, TypeOK
    <3>5. p = s
      BY <3>3, <3>4, IndexInjective DEF IInv, TypeOK
    <3> QED
      BY <3>2, <3>3, <3>5 DEF IInv, TypeOK
  <2>3. CASE panicked /\ UNCHANGED vars
    BY <2>3 DEF vars
  <2> QED
    BY <2>1, <2>2, <2>3 DEF Next
<1> QED
  BY <1>1, Inductive, PTL DEF Spec, WokenByOwnDevice
=============================================================================
