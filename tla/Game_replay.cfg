SPECIFICATION SpecInTurns
CONSTANTS
  SizeX = 3
  SizeY = 2
  ExplosionRadius = 2
  PlayersCount = 2
  GameLength = 3
  BombTimer = 1
  InitialBlocks = 1
  TimerMod = 8
  MaxLag = 1
INVARIANTS
  TypeOK
  ClientAgrees
  ExplosionsAgree
  HitsAreFair
PROPERTIES
  ExplodesOnTime
CHECK_DEADLOCK FALSE
