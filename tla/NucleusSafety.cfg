SPECIFICATION Spec
CONSTANTS
  PCB = {p1, p2, p3}
  Null = Null
  UserSem = {mutex}
  Device = {disk}
  Clock = clock
  Prio = {0, 1}
  MaxPid = 4
  MaxVal = 1
SYMMETRY Symmetry
INVARIANTS
  TypeOK
  OnePlace
  CountersExact
  SingleTree
  PidsDistinct
  ReadySorted
  NoLostWakeup
  StopJustified
  DeviceWaiterServed
PROPERTY FirstComeFirstServed
