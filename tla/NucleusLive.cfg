SPECIFICATION FairSpec
CONSTANTS
  PCB = {p1, p2, p3}
  Null = Null
  UserSem = {}
  Device = {disk}
  Clock = clock
  Prio = {0}
  MaxPid = 3
  MaxVal = 1
PROPERTIES
  ClockWaiterWoken
  DeviceWaiterWoken
  ReadyRuns
