\* One command at a time, on both models, with one edit by the user and kills.
CONSTANTS
  Aliases = {sol, terra}
  Procs = {p1}
  MaxEdits = 1
  NoFile = NoFile
  NoManifest = NoManifest
SPECIFICATION Spec
SYMMETRY Symmetry
INVARIANTS
  ConfigTransactional
  ServiceOwned
  RetryIsSafe
  UserTextKept
PROPERTIES
  ForeignKept
  BackupFirst
