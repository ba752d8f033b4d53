CONSTANTS
  Bodies <- MCBodies
  UpstreamIds = {"rs_1"}
  MaxItems = 2
SPECIFICATION Adapting
INVARIANTS
  Settled
  SaysTheSame
  CodexForm
CHECK_DEADLOCK FALSE
