SPECIFICATION ChainSpec
CONSTANTS
  Raws = {1, 2}
  Places = {yard, street}
  InRoi = {yard}
  Gains = {2}
  Decay = 1
  FullScore = 2
  EnterThreshold = 2
  ExitThreshold = 1
  EnterStability = 1
  Reassociation = 3
  MaxLost = 4
  Retention = 4
  Mute = 3
  MaxLive = 2
  Steps = {1, 4}
  MaxIds = 2
  Dwell = 1
  RegionLost = 2
  MaxRecent = 1
INVARIANTS
  OccupantsHaveIdentity
PROPERTIES
  BaselineIsSilent
