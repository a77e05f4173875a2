SPECIFICATION Spec
CONSTANTS
  Line = {4, 7}
  DevNo = {0, 7}
  Failing = {4, 7}
INVARIANTS
  IInv
  OneWaiter
PROPERTY WokenByOwnDevice
