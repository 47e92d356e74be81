SPECIFICATION StabilizerSpec
CONSTANTS
  Raws = {1, 2}
  Places = {p1, p2}
  Gains = {2}
  Decay = 1
  FullScore = 3
  EnterThreshold = 3
  ExitThreshold = 1
  EnterStability = 3
  Reassociation = 2
  MaxLost = 3
  Retention = 3
  Mute = 6
  MaxLive = 2
  Steps = {1, 3}
  MaxIds = 4
SYMMETRY PlaceSymmetry
INVARIANT
  SteadyEntry
