\* Two states of the account, three failures, two lines in the pipes.
CONSTANTS
  MaxUsage = 2
  MaxFailures = 3
  MaxInFlight = 2
SPECIFICATION FairSpec
INVARIANTS
  SnapshotIsHonest
  OneLateSession
PROPERTIES
  LimitNeverGoesBack
  ReadyAgain
  StopsEverything
CHECK_DEADLOCK FALSE
