SPECIFICATION FairSpec
CONSTANTS
  PCB = {inst, shell, c1, c2}
  Null = Null
  Inst = inst
  Shell = shell
  UPROCMAX = 3
  POOLSIZE = 1
  SliceSteps = 7
  ListsPreempted = FALSE
INVARIANTS
  TypeOK
  MutexExact
  SupportsExact
  FramesOwned
  OneActive
  AsidExclusive
PROPERTIES
  ShellEndHalts
  ChildEndResumesShell
  FaultResolved
