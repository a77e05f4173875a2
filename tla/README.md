# TLA+ model of MultiPandOS

A formal model of the operating system in this repository: an educational
kernel in three phases for the uRISCV machine. Phase 1 is the data structures
(process control blocks, queues, active semaphore list), phase 2 the nucleus
(system calls, scheduler, interrupts), phase 3 the support level (virtual
memory, terminal input and output, a shell).

## 1. The system

| part | state it keeps | operations | what must be right |
|---|---|---|---|
| PCB pool and process tree (`phase1/pcb.c`) | free list, parent, children and siblings of each PCB, `next_pid` | `allocPcb`, `freePcb`, `insertChild`, `removeChild`, `outChild` | a PCB is in one place; one tree; pids are never given out twice |
| process queues (`phase1/pcb.c`, `headers/listx.h`) | circular lists | `insertProcQ`, `removeProcQ`, `outProcQ`, `headProcQ` | sorted by priority, first come first served |
| active semaphore list (`phase1/asl.c`) | sorted list of descriptors, free descriptors | `insertBlocked`, `removeBlocked`, `outBlocked`, `headBlocked` | a descriptor is there when one is needed |
| nucleus (`phase2/*.c`) | `readyQueue`, `currProc`, `processCount`, `softBlockCount`, `subDevice`, `processTimer` | ten system calls, pass up or die, three kinds of interrupt, `scheduler` | exact counters, no lost wake-up, justified HALT / WAIT / PANIC, right device index, CPU time |
| support level (`phase3/initProc.c`, `sysSupport.c`) | `masterSemaphore`, `shellSemaphore`, `devSemaphores`, pool of support structures | instantiator, WRITETERMINAL, READTERMINAL, EXECUTE, TERMINATE, `ProgramTrapHandler` | mutual exclusion on devices, nothing kept by a dead process, the system halts when the shell ends |
| pager (`phase3/vmSupport.c`, `uTLB_RefillHandler`) | `swapPool`, page tables, TLB, `fifo_ptr`, `page_mutex_holder` | `Pager`, `initSwapStructs` | a valid page is in its frame, one page a frame, evicted pages are written back |
| kernel log (`klog.c`) | ring of lines | `klog_print*` | nothing calls it |
| user programs (`phase3/testers`) | their own | terminal calls | shell: one child at a time |

The parts interact as follows. There is one processor. The nucleus runs with
interrupts disabled, on a stack of its own, and every entry into it ends in an
LDST (a process goes on), WAIT, HALT or PANIC. Processes reach it by system
calls and exceptions, devices and timers by interrupts. The nucleus calls phase
1. The support level runs *in* the processes, in kernel mode with interrupts
enabled, entered by the nucleus's "pass up", and uses the system calls like
everybody else.

So the concurrency is of two kinds. Between two entries into the nucleus
anything may happen in any order: that is what `Nucleus` explores. And the
support level's handlers of different processes interleave at each of their
system calls and time slices: that is what `SupportLevel` explores.

Hard to test: kills that reach processes blocked on anything; completions that
come after a kill; exhausted PCBs and descriptors; PCBs used again; counters
that decide between WAIT and PANIC; two interrupts of one terminal pending at
once; clock wrap-around; error paths of the support level. `PROJECT.json` lists
them as hazards, each at its line, with the property that covers it or the
reason why none does.

## 2. The modules

| module | models | kind |
|---|---|---|
| `ProcQueue` | the queue operations of `pcb.c`, on orders | operators |
| `Nucleus` | phases 1 and 2: tree, queues, semaphores, system calls, interrupts, scheduler | state machine |
| `MCNucleus` | symmetry for `Nucleus` | model checking |
| `DList` | the doubly linked lists of `listx.h` | operators |
| `Phase1` | `pcb.c` and `asl.c` on those lists | operators |
| `NucleusLists` | the nucleus on the pointers of `Phase1`, with its recursions and loops; checked and proved to implement `Nucleus` | state machine |
| `MCNucleusLists` | symmetry for `NucleusLists` | model checking |
| `Devices` | device addresses, semaphore indices, interrupt dispatch | state machine |
| `CpuTime` | `processTimer`, `p_time`, GETTIME | state machine |
| `ProcState` | saved processor states: `p_s`, the two slots of `sup_exceptState`; on top of `CpuTime` | state machine |
| `SupportLevel` | instantiator, shell, programs; calls 2, 4, 5, 6; program traps; the pager's mutexes | state machine |
| `FlatMemory` | what paging promises: private flat memories | abstract specification |
| `Pager` | page tables, TLB, swap pool, backing store; shown to implement `FlatMemory` | state machine |
| `AddressSpace` | page number to page table index, in the refill handler and in the pager | state machine |
| `ProcQueueProofs`, `NucleusProofs`, `NucleusListsProofs`, `DevicesProofs`, `ProcStateProofs`, `SupportLevelProofs`, `PagerProofs`, `AddressSpaceProofs` | theorems | proofs |

### ProcQueue

A queue is the relation "stands at or before", a set of pairs that is a linear
order of the members; `IsQueue` says so, and asks that each group of members
has a first one. The pointers of the C lists are in `DList` and `Phase1`; that they
amount to this is proved in `NucleusListsProofs`. `insertProcQ` is the
order in which the newcomer stands before exactly the members it overtakes:
those of a lower priority and whatever is behind them. This form makes it
possible to prove facts about queues of any length without recursion.

### Nucleus

A step is a whole entry into the nucleus, from the exception to the LDST, WAIT,
HALT or PANIC that ends it: interrupts are disabled in between, and there is
one processor. What the processes ask for is arbitrary (any call, with any pid,
priority and semaphore in the bounds), and so is when devices complete.

| state | code |
|---|---|
| `pcbFree` | `pcbFree_h` (as a set: which free PCB is taken is not observable) |
| `p_parent`, `p_prio`, `p_pid`, `p_semAdd`, `p_supportStruct` | fields of `pcb_t`; of the children lists only the parent link is kept |
| `readyQueue`, `currProc`, `processCount`, `softBlockCount` | the globals of `initial.c` |
| `s_procq` | the queue of each semaphore's descriptor; no descriptor means empty |
| `semVal` | the integers the semaphores are, `subDevice` included |
| `cpu` | what the processor does after the step: `run`, `wait`, `halt`, `panic` |
| `io` | what each device does: `idle`, `busy`, `done` (interrupt pending) |

| action | code |
|---|---|
| `CreateProcess`, `TerminateProcess`, `Passeren`, `Verhogen`, `DoIO`, `ClockWait`, `Yield` | the cases of `syscallHandler` with its common end; GETTIME, GETSUPPORTPTR and GETPROCESSID change nothing |
| `PassUpOrDie` | `programTrapHandler` and `tlbHandler` |
| `DeviceInterrupt`, `PLTInterrupt`, `ITInterrupt` | `interrupts.c` |
| `DeviceDone` | the hardware |
| `Stopped` | HALT and PANIC do not return |

Four things deserve a word.

*Kills.* `recursive_terminate` visits a process and its progeny; the model takes
the whole set (`Subtree`, the least set closed under children) out of every
place at once. The fields of a freed PCB are put at the values `allocPcb` would
give them, because nobody reads them in between; this saves states.

*Descriptors.* There are as many descriptors as PCBs. `insertBlocked` returns
TRUE without linking the process when there is none left, and its callers
ignore the result; in the model the process is then in no queue, which
`OnePlace` would see. It is proved that this cannot happen.

*Devices.* `DoIO` is enabled when nobody else waits for the device: the support
level has a mutex for each. But a process may be killed while it waits, and its
operation then ends with nobody to wake, or with another process waiting.

*Clock.* `ITInterrupt` inserts all waiting processes by `InsertAll`, a closed
form. `NucleusLists` runs the loop of the code on the pointers, and it is proved
that it computes that.

### DList, Phase1 and NucleusLists

`Nucleus` is written with orders and sets, the code with circular doubly linked
lists, and most of what can go wrong in phase 1 is in the difference: a PCB has
one `p_list` for three kinds of list, `list_del` trusts the links it finds,
`outBlocked` unlinks without looking where the PCB is, `getSemd` stops at the
first larger key, `recursive_terminate` empties the children list it loops over.

`DList` translates `listx.h`. A node is a `struct list_head`; a memory is a
record with the functions `next` and `prev`; each C function is an operator from
memory to memory. `list_for_each` gives the node where a loop over a list ends:
the first one at which its body leaves the loop, or the head. `Phase1` adds the
fields of `pcb_t` and `semd_t` to the
record and translates `pcb.c` and `asl.c` function by function. A function that
changes the memory and returns a PCB is two operators (`allocPcb` and
`allocated`, `outBlocked` and `isBlocked`). The null checks of parameters that
are never null are left out. In `NucleusLists` the handlers are those of
`Nucleus` in the order of the C statements. The C recursions and loops are
recursive functions. `find_pcb_recursive` is one on processes.
`recursive_terminate` counts steps: `TerminateStep` works on the memory and the
stack of the calls that have not returned; it removes the first child and calls
for it, or, when there is none, buries the process and returns. There is a call
for each process that dies and a return for each call, so `2 * MAXPROC` steps are
enough; that they are is part of what is proved. `WakeAll` counts the rounds of
the loop of `ITInterrupt` in the same way.

The refinement mapping reads the lists back: the free PCBs are those on
`pcbFree_h`; in a queue x stands at or before y when the links lead from x to y and
not over the head; the queue of a semaphore is that of the descriptor `getSemd`
finds, or empty. The fields
of a free PCB, which the code resets only when it allocates, are mapped to what
`allocPcb` will make them. No device is mapped (`Device` is the empty set): to
the lists a device interrupt is a VERHOGEN, and its count of waiting processes
is exercised by the clock. Support structures are in `ProcState`.

### Devices

The index arithmetic number by number: `DoIOIndex` from the address of a command
register (`exceptions.c`), `InterruptIndex` from line, device and half of the
terminal (`interrupts.c`), the scan of the bitmap, the order in which the two
halves of a terminal are served. A process is known by the sub-device it uses.

### CpuTime

The clock, `processTimer`, the time charged to each process, and beside them
`used`, the time each process has really had. Which process runs next is
arbitrary here. Handlers take no time. `CpuTime` is not run by itself: each step
of `ProcState` is a step of it.

### ProcState

What the nucleus and the support level do to processor states. One process is
followed, a program with a support structure; the others take the processor from
it, wake it, kill it. A state is the code that runs, a program counter and `a0`.
`reg` is the processor; `p_s` and the two slots of `sup_exceptState` are where
the code saves it; `frames` is the truth beside them: the program, the handler of
its system call and the pager on top of each other, each with the state it has to
go on from.

| action | code |
|---|---|
| `CallReturns`, `CallLeaves` | the two ends of `syscallHandler`, with its `pc_epc += WORDLEN` |
| `SliceEnds`, `OtherLeaves` | `PLTInterrupt` for this process and for another |
| `InterruptOfOthers`, `DeviceAnswers` | the two ends of an interrupt handler; `reg_a0 = status` of the process that is woken |
| `SupportCall`, `PageFault` | pass up by `programTrapHandler` (slot `GENERALEXCEPT`) and by `tlbHandler` (slot `PGFAULTEXCEPT`) |
| `HandlerReturns`, `PagerReturns` | the LDST at the end of `SyscallExceptionHandler` and of `Pager` |
| `DieAnew` | a death, and the next process with the same PCB |

### SupportLevel

The handlers of phase 3 as programs with a label for each place where another
process may come between: every system call to the nucleus, and every access to
a variable that processes share (`swapPool`, `page_mutex_holder`,
`devSemaphores[32]`, the free list). `pc` is the label: `tx...` WRITETERMINAL,
`rx...` READTERMINAL, `ex...` EXECUTE, `tr...` and `trap` ProgramTrapHandler,
`pg...` the pager, `user` user mode. A page fault may happen in user mode and
where WRITETERMINAL and READTERMINAL touch the program's memory; `ret` keeps
where to go back to.

The nucleus appears as its system calls: `PASSEREN`, `VERHOGEN`, `DOIO`,
`CREATEPROCESS`, `TERMPROCESS` and `scheduler` act on `sem`, `s_procq`, `io`,
`currProc` and `readyQueue` as `Nucleus` does, on the queues of `ProcQueue`. All
but the instantiator have the same priority (`p_prio`), and `slice` is what is
left of the time slice of the running process. What programs ask for, which pages
are absent and how each I/O operation ends are choices. The nucleus panics when a terminal reports an error
(section 3, divergences); `SupportLevel` lets the support level see it, as it is
written to.

The free list of the support structures is the linked list of the code: `next`
and `prev` of each structure and of the head (node 0). `deallocateSupport` is the
read of `head->next` and the four stores of `__list_add`, each a step of its own
(`exAdd1` .. `exAdd4` in EXECUTE, `trAdd1` .. `trAdd4` at the end of a process);
`allocateSupport` is `list_empty`, the read of the head, the two reads of
`list_del`'s arguments, in either order, and its four stores. `nextArg` and
`prevArg` are the arguments of the calls in progress. The stores come in
the order of the C text; a compiler that orders them otherwise changes nothing for
who is not preempted, and only adds cases to the race of finding 4.

`ListsPreempted` says whether a time slice may end inside one of these
operations. `SupportsExact` holds when it may not, and the theorem states that as
an assumption; the code does nothing to make it true, and without it the list can
be corrupted (finding 4). `MutexExact`, `FramesOwned`, `OneActive` and `AsidExclusive`
do not depend on it: they are proved for both values, whatever the list looks like.

`SliceSteps` is the number of handler steps that are sure to fit in a time
slice. With 0 a process may be preempted at each step. `MutexExact`,
`FramesOwned` and `OneActive` hold even so, as is proved. `AsidExclusive` does not: the dying
program wakes the shell before its last seven steps (the five of
deallocateSupport, TLBCLR, TERMPROCESS), and if it were preempted right there
while the shell runs its way through a whole EXECUTE, there would be two processes
with one ASID. With `SliceSteps` = 7 it holds (with 6 in `SupportLevel.cfg` it is
violated): the program is then either gone within the slice it was given, or before the
shell's next EXECUTE has read its header. A slice is 5 ms, the seven steps a few
dozen instructions, so this is the assumption the code makes; it is written
nowhere in it.

### Pager and FlatMemory

`Pager` has the data of the pager: one action for each flash operation and the
work around it, since `SupportLevel` shows that the pager runs under its mutex
(`MutexExact`) and that one program is active at a time (`OneActive`). A page
table entry is a frame (-1: valid bit off) and a dirty bit. A load or a store
goes through the TLB only; a miss runs `uTLB_RefillHandler`, which copies the
entry whatever it says and may replace another; an invalid entry faults.
`ProgramTrapHandler` frees the frames and wakes the shell, `TLBCLR` comes later.

`FlatMemory` knows neither frames nor TLB: each living program has a function
from pages to contents, a load returns what was stored, text is never stored to.
The refinement mapping (`Contents`) says where the contents of a page are: in
its frame, in the frame that is being written out, or on flash.

### AddressSpace

Two pieces of code turn a page number into an index, the refill handler in the
nucleus and the pager, each with its own bounds. The TLB keeps, under a page
number, the index of the entry it is a copy of. The page numbers are the real
ones (0x80000 = 524288 for the first page, 0xBFFFF = 786431 for the stack, 32
entries).

## 3. What the runs check

| run | bounds | result |
|---|---|---|
| `nucleus_safety` | 3 PCBs, 1 mutex, 1 disk, clock, priorities 0 and 1, 4 processes created, semaphores up to 1 | 10 properties hold, about 43,600 states |
| `nucleus_live` | 3 PCBs, 1 disk, clock, one priority, fairness | 3 liveness properties hold |
| `nucleus_lists` | 3 PCBs, 3 descriptors, 2 mutexes, clock, priority 0 for the first process and 1 for the others, 4 processes created, semaphores up to 1 | 3 properties hold, one of them a refinement; about 27,500 states |
| `devices` | flash and terminal lines, devices 0 and 7, any of them failing | 3 properties hold |
| `cpu_time` | 2 PCBs, clock modulo 4, 2 ticks of running each, program counters modulo 2, 2 answers | 2 properties hold, about 1,580,000 states |
| `support_level` | instantiator, shell, 2 programs, 3 address spaces, 1 frame, `SliceSteps` = 7, no preemption inside a list operation, fairness | 6 safety and 3 liveness properties hold, about 156,000 states |
| `support_transm` | the same with 2 address spaces, 2 frames, preemption also inside list operations, without fairness | violated: finding 1 |
| `support_race` | 1 program, 3 address spaces, 1 frame, `SliceSteps` = 7, preemption also inside list operations | violated: finding 4 |
| `pager` | shell and a program, 2 pages each (one of text), 2 frames, 2 values, flash never fails | 5 properties hold, one of them a refinement; about 370,000 states |
| `pager_swap_pool` | the same, flash may fail | violated: finding 2 |
| `address_space` | page numbers at both ends of text and data, around the stack | 4 properties hold |
| `address_gap` | the same and 0x8001F | violated: finding 3 |

Why these bounds are enough. Three PCBs give a parent, a child and a grandchild
or two children; a fourth process (`MaxPid` = 4) needs a PCB used again. One
semaphore of each kind is enough for each kind of wait, and two processes can
be in one queue while the third runs. Two priorities make a process overtake.
A semaphore value of 1 is a mutex that is free or a completion that was saved.
Values above `MaxVal` and pids above `MaxPid` are cut by the guards of
`Verhogen`, `DeviceInterrupt` and `CreateProcess`, named there. In `Devices` the
lines are one ordinary and the terminals, the devices the first and the last,
so the smallest and the largest index of each formula; the theorems cover the
rest. In `ProcState` the clock wraps around several times while no process runs
for a whole period; a program counter modulo 2 tells an instruction from the one
before and the one after, and two answers tell the given one from another.

In `nucleus_lists` the addresses of the semaphores are numbers, with the clock's
between those of the two mutexes, so a descriptor is linked in the ASL in front,
between two others and behind, and all three can be in use. Three PCBs make lists
of two with one more to insert, before the first process or behind its equals;
children lists of two, and of one below another, are emptied by kills.

In the support level there is one program besides the shell at a time, and a
second PCB lets EXECUTE overlap the end of the program before. Three address spaces
are the shell's and two for programs: with one, the free list would be empty when a
program gives its structure back, and the shell could not execute another before. With
two EXECUTE chooses between using the ASID of the dead program again and another.
Seven steps are sure only after a dispatch, and what the process did before may have
used them up, so slices end in the middle of handlers; that they may end at each step
of them, and inside the list operations, is in the theorems, and in `support_race` for the
latter. With one frame every fault but the first evicts a page. In `Pager` two frames
and four pages make evictions of one's own pages and of the shell's. Two contents of a
page tell a stored value from what was there.

The properties of `Nucleus`, one sentence each:

- `OnePlace`: every PCB is free, running, ready or in the queue of the semaphore
  its `p_semAdd` names, and in one of these only.
- `CountersExact`: the two counters count what they say.
- `SingleTree`: the processes form one tree, so `find_pcb` finds everybody.
- `PidsDistinct`: no two processes share a pid, whatever PCBs are used again.
- `ReadySorted`: the head of the ready queue has the highest priority.
- `NoLostWakeup`: nobody waits on a semaphore with a token.
- `StopJustified`: HALT without processes, PANIC when all wait on semaphores of
  processes, WAIT when somebody waits for a device or the clock.
- `DeviceWaiterServed`: whoever waits for a device has an operation in progress
  or an interrupt to come.
- `FirstComeFirstServed`: nobody overtakes in a queue, but by priority.
- `ListsSound`: the links are mirrored, a PCB is on one list, the children
  lists are those the parent fields say.
- `AslExact`: the ASL is sorted, and has the semaphores somebody waits on.
- `ImplementsNucleus`: every step on the lists is a step of `Nucleus`.
- `NeverOvercharged`: nobody is charged for time it did not have.
- `ResumesWhereStopped`: a process goes on from the instruction where it stopped,
  with the answer it was given.
- `ClockWaiterWoken`, `DeviceWaiterWoken`, `ReadyRuns`: everybody who waits for
  the clock, a device, or (among equals) the processor gets it.

Those of the support level:

- `MutexExact`: no two processes inside a mutex, and every mutex but the
  transmitter's is free when nobody is inside, whatever way they left.
- `SupportsExact`: while the shell lives, and nobody is inside an operation on the
  free list, each support structure is once on the list, or somebody's, or being
  prepared, and the list is linked alike in both directions; on condition that
  list operations are not preempted.
- `FramesOwned`: frames are registered to living processes only.
- `OneActive`: while a program may use the terminal or the pager, the shell waits.
- `AsidExclusive`: no two processes with one ASID.
- `ShellEndHalts`, `ChildEndResumesShell`, `FaultResolved`: the end of the shell
  halts the system, that of a program lets the shell go on, a page fault ends.
- `SwapPoolExact`, `ImplementsFlatMemory`: without flash errors, the swap pool
  says where each page is mapped, and paging cannot be seen.
- `FramesPrivate`, `TlbCoherent`: no frame is shared and the TLB says what the
  page tables say; proved also when flash operations fail.
- `SamePage`, `SpaceSurvives`, `AccessEnds`: both handlers mean the same page, a
  program inside its space is not killed, an access ends.

Each property has a mutant: a plausible slip in a mapped definition, written
beside it, with which the run fails.

### Fairness

`FairSpec` assumes only what the hardware does: the interval timer ticks, the
local timer ends the slice of a process that keeps running, a device completes
what it was given, a pending interrupt is taken. Nothing is assumed of the
processes: they may never call the nucleus. The fairness of the local timer is
stated for each process, since the slice starts again with each dispatch.

In `SupportLevel` the running process makes its handler's next step, a device
answers, the local timer ends a slice: weak fairness of each, for each process.
No fairness is assumed of user mode, so a program may compute for ever. In
`AddressSpace`, likewise, an access that was started is served.

### Findings

Each is a run that shows the program doing other than its text says.

1. A program that dies in a page fault of WRITETERMINAL (a page outside of its
   space, a flash error) keeps the mutex of the transmitter; the cleanup
   releases only the receiver's. The shell's next write waits for ever.
2. After a flash error in an eviction the page table entry of the victim is
   invalid but its frame stays registered to it. If the victim is a page of the
   shell, the shell loads it into another frame, and two frames are registered
   to one page; what the shell had stored there is lost.
3. The refill handler's test `p >= MAXPAGES` lets the page number 0x8001F through
   as index 31, the stack's entry. It is loaded under the stack's page number, the
   access misses again, and so on for ever; the pager, which would end the
   program, is not reached.
4. `deallocateSupport` and `allocateSupport` change the free list with interrupts
   enabled and without a mutex, and a dying program gives its structure back after
   it has woken the shell. If its slice ends between its read of `head->next` and
   its last store, and the shell's next EXECUTE takes that structure from the head,
   the program goes on to put the structure in use on the list again, behind its
   own. There must be two structures for programs, and the slice must have
   been used up before, by the handler's other steps. The shell of the repository
   prints its prompt and reads a line between two EXECUTEs, so that the program has
   ended long before; a shell that executes one program after another is exposed.

### Divergences

Visible in the models, but with no run of their own:

- A completion counted by `deviceInterrupt` when nobody waits ("saved for the
  next that asks", says the comment) is never used: DOIO always blocks.
- The scheduler is described as Round-Robin, with a slice for each process in
  the ready queue. It is so among equals only: `ReadyRuns` fails with two
  priorities, because the higher one starves the lower.
- A terminal that reports an error status makes the nucleus call PANIC
  (`panicked` in `Devices`), because `deviceInterrupt` looks for status 5 only;
  the support level is written to report that error to the caller.
- GETTIME does not return the exact CPU time: interrupts and pass-ups restart
  the measurement without charging what was measured (`Interrupt` and `PassUp`
  in `CpuTime`).
- EXECUTE is documented to return the pid of the new process; it stores nothing
  in `a0` when it succeeds.

## 4. What is proved

All for any number of PCBs, semaphores and devices, from the named assumptions
on the constants (`PCBAssumption`: finitely many PCBs, `Null` is none of them;
`SemAssumption`: the device semaphores are not used as semaphores of processes;
`PrioAssumption`: priorities are natural numbers; in `Devices`,
`LineAssumption`).

`NucleusProofs`: `Spec => []TypeOK`, `[]OnePlace`, `[]CountersExact`,
`[]StopJustified`. The four are inductive only together (`IInv`): the scheduler
chooses HALT, WAIT or PANIC from the counters, the counters are right because a
kill finds each process in the place its fields say, and that a blocked process
is in a queue at all needs a free descriptor, which is there because each
active semaphore has a process of its own and the running process waits for
none. Handlers pass through states that `IInv` does not describe (a process out
of one list and not yet in another). `Settled` states what holds there of queues
and counters, with the set of active processes as a parameter; one lemma for each
elementary move (wake, block, allocate, kill, tick) takes `Settled` to
`Settled`, and two lemmas (`AfterScheduler`, `AfterResume`) take it to the
invariant. `ProcQueueProofs` has the facts about queues.

The other safety properties of `Nucleus` are proved from these four, each with
what it still needs:

- `SingleTree`: a new process hangs below a living one, and what a kill leaves
  has its parent left too, since the killed set is closed under children. A subtree
  is the least set with that closure, so that any closed set that has the root
  contains it; this takes the place of induction over the depth.
- `PidsDistinct`: every pid in use is below `next_pid`.
- `FindPcbExact` (a theorem only): from the two above, `find_pcb` finds exactly the
  process with the pid, and TERMPROCESS of that pid kills exactly its subtree.
- `NoLostWakeup` is inductive with `IInv`.
- `DeviceWaiterServed` needs `OneDeviceWaiter`: at most one process waits for a
  device, or one completion would leave the second waiting for nothing.
- `ReadySorted`: `insertProcQ` and the clock's `InsertAll` keep a sorted queue
  sorted, and the removals do.
- `FirstComeFirstServed`: an action property. Each handler is followed through its
  moves; in each a queue is filtered, or a newcomer is put behind its equals.

`NucleusListsProofs`: `Spec => []ListsSound`, `[]AslExact` and
`ImplementsNucleus`, for any number of PCBs, semaphores, addresses and
priorities. The assumptions are that both tables have the same length (MAXPROC),
that `Null` is in neither, and that semaphores are addresses other than null, so
that keys are compared as numbers (`TableAssumption`, `AddressAssumption`).

The invariant has to say what a linked list *is*. `Shape(m, Q)` says that in the
memory `m` the links lead from each head through the members of the order `Q[head]`
and back, in both directions, that no node is on two lists, and that an unlinked
node points to itself or was never used. `Rep` adds which nodes each kind of list
holds, that the ASL is ordered by key and has no empty queue, and that children
lists agree with `p_parent`; a memory is `Good` when there is such a `Q`. The
argument goes up in four layers, and in each a lemma says what an operation does to
what the layer below has proved to exist:

1. `listx.h`: `list_add`, `list_add_tail` and `list_del` insert in and remove from one
   order, and leave the others alone (`AddShape`, `DelShape`). What makes it true
   is that what is added is on no list, which is what `list_del`'s resetting of the
   entry is for. A loop over a list ends at the first node of a set (`LoopEnds`).
2. `pcb.c` and `asl.c`: each function does to the free PCBs, the ready queue and the
   queues of the semaphores what its counterpart in `ProcQueue` or `Nucleus` does.
   That `getSemd` may stop at the first larger key, that `outBlocked` unlinks from
   the queue it looks for, and that a descriptor is free when one is needed are
   consequences of `Rep`.
3. The recursions and the loop, each a recursive function of a number of steps or
   of a process; that such a function exists is a lemma before what it computes. For
   `recursive_terminate` (`Calls`): the calls that have not returned are a chain of
   children with the target at its end, the dead are closed under children, and
   parents are otherwise as at the start; each step adds one to what is done, which
   is twice the progeny at most. `find_pcb_recursive` returns, at every live process,
   the one with the pid below it: of the processes where it returned another, one
   with a smallest subtree would have such a child (`FindsFound`). A round of the
   clock's loop leaves the insertion of those who still wait to have the same result as at
   the start (`Waking`, and `InsertFirst` in `ProcQueueProofs`).
4. The handlers: each takes the step of the action of `Nucleus` with its name, and
   leaves a good memory.

The layers need facts about the state that are not about lists: that a process
named by a pid exists, that the tree is one, that the ready queue is sorted, that
a process is in the queue its `p_semAdd` names. They are the invariants of `Nucleus`,
and are not proved again: the inductive invariant `Kept` (`KeptHolds`) is `Good`,
that a free PCB has neither parent nor children, and `IInv`, `SingleTree`,
`PidsDistinct` and `ReadySorted` of `Nucleus` under the refinement mapping. Since a
step on the lists is a step of `Nucleus`, the lemmas of `NucleusProofs` preserve
those. So `OnePlace`, `CountersExact` and the others hold of the pointers too.

`PagerProofs`: `Spec => []TypeOK`, `[]FramesPrivate`, `[]TlbCoherent`, for any
number of programs, pages and frames and whether or not flash fails. They are
inductive with one more conjunct, `Turns`: besides the active program only the
shell lives, and the TLB holds nothing of a program whose TLBCLR is done. The
first makes the end of a program leave nobody but the shell; the second is why
EXECUTE may start an ASID again without touching the TLB. `FramesPrivate` says
beside what it is for that the frame being filled is mapped by nobody, which is
what `MapPage` needs. Assumptions: address spaces are positive numbers, the
shell's among them, and there is a frame.

`[]SwapPoolExact` and the refinement of `FlatMemory` are proved for a flash that
does not fail (finding 2 is what happens otherwise; the assumption is
`FlashFails = FALSE`). They need, on top (`DataInv`): a registered frame, but for
the one in hand, is that of a living program's page and mapped by it; the missing
page and the one being written out are mapped nowhere, and what has been read is
what flash has of the missing page; and no entry of a text page is marked
writable. The refinement goes action by action: a load and a store act on the
contents that `Contents` reads from the frame, EXECUTE and the end of a program are
those of `FlatMemory`, everything else leaves all contents alone: a write because
the page is both in the frame and on flash at its end, a read because the frame
has what flash has when it is mapped.

`ProcStateProofs`: each step of `ProcState` is a step of `CpuTime`
(`StateImplementsTime`), so that `NeverOvercharged`, proved of `CpuTime`, holds of
both. Its invariant (`TimeInv`) is that what a process was charged and what it
would be charged now add up to no more than it had; the difference of two clock
readings is taken modulo `W` (2^32), and is never more than the time that really
went by. `ResumesWhereStopped` is inductive once two things are known
(`StateInv`): a running process waits for nothing, and the stack `frames` is a
program, on it perhaps the handler of its system call, on either perhaps the pager
(`Stacked`). So each of the two exception slots is asked for at most one state of
the stack, and no save meets a state still needed.

`SupportLevelProofs`: `[]TypeOK`, `[]MutexExact`, `[]FramesOwned`, `[]OneActive`,
for any number of PCBs, address spaces and frames and for preemption at each step,
inside the list operations too. The invariant has a part for each question:

- `LabelsInv`: who can be where; a page fault returns to where it was.
- `QueuesInv`: everybody alive is in one place, and *who waits at a semaphore, and
  where in its code*: only the instantiator for the shell, the shell for a program,
  and anybody for the transmitter.
- `ActiveInv`: of the processes that have not signalled their end (`Gone`), at most
  one is not waiting in EXECUTE (`Busy`); the two synchronisation semaphores say so.
- `MutexInv`: the value of each mutex against what everybody holds, a function of
  labels (`Held`). It is inductive because the others hold at most the transmitter,
  by `ActiveInv`: so each step has only the running process's holdings to look at.
  The steps are classified as arrows between labels along which nothing, one mutex
  acquired or one released; three lemmas do the rest.
- `SupportsInv` (the ASIDs of support structures, and that no link ever leads to
  the shell's own structure, so that EXECUTE never takes that one, however the
  list is corrupted) and `FramesInv` (of frames): both use that the pager and the cleanup run alone.
- `TimerInv`: a process that waits for a device is where its code waits for one.

That nobody waits for a mutex other than the transmitter follows: the mutexes of
the swap pool and of the flash devices are never contended in this system.

`[]SupportsExact` is proved under `ListsPreempted = FALSE`, the assumption that
finding 4 shows to be needed, and for everything else that may come between two
operations on the list. The invariant (`ExactInv`) says that there are links `N`
and `P` that form a ring (`Ring`) of the head and a set `F` of structures: inverse to
each other on them, and a walk along `N` meets them all. The links in memory are
these when nobody is inside an operation (`LinksInv`). Otherwise only the running
process is, and `Adding` and `Deleting` say for each label which of the stores are
made and which are to come. `RingAdd`, `RingDel` and `RingFree` say what a whole
operation does to the ring; that the free structures are the least set closed
under `next` takes the place of induction over the list. `OwnedOnce` relates `F` to
the owners: each structure is in `F`, or one process's, or the one EXECUTE prepares.

`[]AsidExclusive` is proved under `SliceSteps >= 7`, for every value of
`ListsPreempted`, from one more part, `LeaversInv`: while the shell is past reading
the header of the next program, the last one is gone, or has the processor with
enough of its slice left for its last steps. It becomes true at the shell's DOIO:
the shell leaves the processor to the first of the ready queue, which is sorted,
and where the instantiator has the lower priority, so this is the leaving program.

`AddressSpaceProofs`: `IndexAgreement`, for any size of the page table and place
of the stack above it, and with it `Spec => []TypeOK`, `[]SamePage` and
`[]SpaceSurvives`.

`DevicesProofs`: DOIO and the interrupt handler agree on the index of each
sub-device, no two sub-devices share one, and so completions wake their own
processes.

Only model-checked: the liveness properties (`ClockWaiterWoken`,
`DeviceWaiterWoken`, `ReadyRuns`, `ShellEndHalts`, `ChildEndResumesShell`,
`FaultResolved`, `AccessEnds`), because temporal reasoning under fairness and
ENABLED are out of the prover's reach. Every other property of a passing run is
stated by a theorem.

## 5. Plan, and what is not modelled

Every operation of the kernel that changes state is in a module, and every
invariant and action property of the passing runs, and both refinements, have
their theorem. What could be added are proofs about the liveness properties: of
those that rest on a step that must be possible, the enabling condition can be
stated as an invariant and proved.

Not modelled:

- `klog.c`: it is linked in for debugging, and nothing in the repository calls it
  or reads its buffer.
- The user programs (`calc`, `echo`, `fibEight`, ...) and their string functions:
  sequential, and what they ask of the system is arbitrary in `SupportLevel`.
- The test programs of the three phases. They were read for what they expect.
- Of `listx.h`, `list_is_last`, `list_prev` and the backward loops, which nothing
  uses.
- Stack addresses, and of the registers all but the program counter and `a0`.

## 6. How to run

    tlc -config NucleusSafety.cfg MCNucleus     # likewise the other .cfg files
    tlapm NucleusProofs.tla                     # likewise the other *Proofs modules
