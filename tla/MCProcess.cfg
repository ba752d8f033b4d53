\* Two processes and two ports.
CONSTANTS
  Procs = {p1, p2}
  Ports = {18474, 9000}
  DefaultPort = 18474
  Free = Free
  Foreign = Foreign
SPECIFICATION Spec
INVARIANTS
  OneBridge
  NothingLeft
  DrainingShown
PROPERTIES
  SignalEnds
