\* A launch whose servers each fork a helper: one helper outlives the launch.
SPECIFICATION Spec
CONSTANTS
  Versions = {1}
  Arguments <- Both
  PathPythons <- Paths
  Floor = 2
  Scores = {85}
  Target = 80
  Epochs = 1
  Patience = 1
  Pairs = 2
  Codecs = 3
  MaxEdits = 0
  MaxBreaks = 0
  ApiPort = 1
  WebPort = 2
  MaxPort = 3
INVARIANTS
  NoOrphans
CHECK_DEADLOCK FALSE
