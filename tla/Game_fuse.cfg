SPECIFICATION Spec
CONSTANTS
  SizeX = 2
  SizeY = 2
  ExplosionRadius = 1
  PlayersCount = 1
  GameLength = 4
  BombTimer = 0
  InitialBlocks = 1
  TimerMod = 3
  MaxLag = 2
INVARIANTS
  ClientAgrees
PROPERTIES
  ExplodesOnTime
CHECK_DEADLOCK FALSE
