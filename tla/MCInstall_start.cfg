\* One model and a user who leaves the files alone.
CONSTANTS
  Aliases = {sol}
  Procs = {p1}
  MaxEdits = 0
  NoFile = NoFile
  NoManifest = NoManifest
SPECIFICATION Spec
SYMMETRY Symmetry
INVARIANTS
  SetupEnablesStart
