\* Every stream of up to four lines, cut into chunks in every way.
CONSTANTS
  Streams <- MCStreams
  MaxLines = 4
SPECIFICATION Spec
INVARIANTS
  ChunksDoNotMatter
PROPERTIES
  ImplementsLines
CHECK_DEADLOCK FALSE
