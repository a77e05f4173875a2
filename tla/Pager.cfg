SPECIFICATION Spec
CONSTANTS
  Asid = {1, 2}
  Page = {0, 1}
  Text = {0}
  POOLSIZE = 2
  Val = {0, 1}
  FlashFails = FALSE
INVARIANTS
  TypeOK
  FramesPrivate
  TlbCoherent
  SwapPoolExact
PROPERTY ImplementsFlatMemory
