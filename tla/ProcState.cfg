SPECIFICATION StateSpec
CONSTANTS
  PCB = {p1, p2}
  Null = Null
  W = 4
  MaxUsed = 2
  Watched = p1
  M = 2
  Answer = {0, 1}
INVARIANTS
  NeverOvercharged
  ResumesWhereStopped
