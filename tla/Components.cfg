SPECIFICATION Spec
CONSTANTS
  ModelBoxes = {1, 2, 3}
  NoBox = 0
  TooClose <- Neighbours
  Alike <- Equal
  ObjectClasses = {1, 2}
  Confidences = {0, 1, 2}
  ScoreThreshold = 1
  MaxDetections = 2
  MaxCandidates = 3
  Boxes = {1, 2, 3}
  Classes = {person, car}
  Iou <- InARow
  Threshold = 1
  MaxMissed = 1
  MaxDets = 2
  MaxRawIds = 4
  Raws = {1, 2}
  Places = {p1, p2}
  Gains = {2}
  Decay = 1
  FullScore = 3
  EnterThreshold = 3
  ExitThreshold = 1
  EnterStability = 3
  Reassociation = 2
  MaxLost = 3
  Retention = 3
  Mute = 6
  MaxLive = 2
  Steps = {1, 3}
  MaxIds = 3
  Ids = {1, 2}
  Dwell = 3
  RegionLost = 2
  MaxRecent = 2
  RegionSteps = {1, 2}
  Letters = {a, b}
  LF = lf
  CR = cr
  MaxCommand = 2
  Chunk = 3
  MaxLine = 5
SYMMETRY ComponentSymmetry
INVARIANTS
  BestSurvive
  RawIdsDistinct
  NoStaleOccupant
  OneOwner
  NoFlash
  WholeCommands
PROPERTIES
  LifecycleSpec
  NoDwellAfterGap
  ExitIsFinal
  TracksContinue
