\* Two launches one after another, with edits of the dependency files between and during them.
SPECIFICATION Spec
CONSTANTS
  Versions = {1, 2}
  Arguments <- CommandLines
  PathPythons <- Paths
  Floor = 2
  Scores = {70, 85}
  Target = 80
  Epochs = 2
  Patience = 1
  Pairs = 2
  Codecs = 3
  MaxEdits = 1
  MaxBreaks = 1
  ApiPort = 1
  WebPort = 2
  MaxPort = 3
INVARIANTS
  TypeOK
  TrustedFilesAreTrue
  DieTogether
PROPERTIES
  LaunchEnds
CHECK_DEADLOCK FALSE
