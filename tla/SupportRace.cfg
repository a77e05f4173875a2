SPECIFICATION Spec
CONSTANTS
  PCB = {inst, shell, c1}
  Null = Null
  Inst = inst
  Shell = shell
  UPROCMAX = 3
  POOLSIZE = 1
  SliceSteps = 7
  ListsPreempted = TRUE
INVARIANTS
  FreeStructsOnly
