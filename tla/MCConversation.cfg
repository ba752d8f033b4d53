\* Two answered requests and a third one, answers of up to two items.
CONSTANTS
  Bodies = {}
  UpstreamIds <- MCUpstreamIds
  Outputs <- MCOutputs
  Answers <- MCAnswers
  Turns = 2
  Cuts = 1
  MaxItems = 2
SPECIFICATION Talking
INVARIANTS
  NeverRefused
  Remembers
CHECK_DEADLOCK FALSE
