SPECIFICATION Spec
CONSTANTS
  PCB = {inst, shell, c1, c2}
  Null = Null
  Inst = inst
  Shell = shell
  UPROCMAX = 2
  POOLSIZE = 2
  SliceSteps = 7
  ListsPreempted = TRUE
INVARIANTS
  TransmitterReleased
