\* Every response of up to three items, streamed in every order.
CONSTANTS
  Outputs <- MCOutputs
  MaxItems = 3
SPECIFICATION Spec
INVARIANTS
  DeltaAddressed
  CompletedIsWhole
  ThoughtsStayBehind
CHECK_DEADLOCK FALSE
