SPECIFICATION Spec
CONSTANTS
  PCB = {p1, p2, p3}
  Semd = {d1, d2, d3}
  Null = 0
  UserSem = {1, 3}
  Clock = 2
  Prio = {1}
  MaxPid = 4
  MaxVal = 1
SYMMETRY Symmetry
INVARIANTS
  ListsSound
  AslExact
PROPERTY ImplementsNucleus
