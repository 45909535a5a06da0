\* One scan of up to four sampled frames, with one caught fault and decoder hiccups.
SPECIFICATION Spec
CONSTANTS
  FrameMenu <- Frames
  Floors <- Least
  IouNum = 3
  IouDen = 10
  MaxMissed = 1
  MinHits = 2
  MinRun = 2
  FracNum = 3
  FracDen = 5
  SampleRate = 2
  MaxFrames = 4
  LastIndex = 6
  MaxReadFailures = 2
  LowMax = 33
  ModerateMax = 66
  MaxAnnotated = 2
  MaxMasks = 2
  MaxSmokeCrops = 2
  MaxCleanCrops = 1
  FrameCounts = {0, 4}
  MaxFaults = 1
INVARIANTS
  TypeOK
  VerdictMatchesEvidence
  MasksMatchRecords
  BestFramesAreShown
PROPERTIES
  MatchingIsStable
  KeepsTheContract
CHECK_DEADLOCK FALSE
