\* One process on any of two ports, and a look of doctor at the default one.
CONSTANTS
  Procs = {p1}
  Ports = {18474, 9000}
  DefaultPort = 18474
  Free = Free
  Foreign = Foreign
SPECIFICATION Spec
INVARIANTS
  BridgeIsFound
