\* Two requests on one permit.
CONSTANTS
  Requests = {r1, r2}
  MaxStreams = 1
  NoRequest = NoRequest
SPECIFICATION FairSpec
INVARIANTS
  TypeOK
  PermitsConserved
  BooksBalance
  VerdictMatchesClient
  LatestIsAnswered
PROPERTIES
  FailureIsLast
  QuietStreamEnds
  ImplementsSlots
CHECK_DEADLOCK FALSE
