SPECIFICATION FairSpec
CONSTANTS
  Clients = {c1}
  PlayersCount = 1
  GameLength = 1
  MaxRounds = 2
  MaxPending = 2
  Foreign = {}
PROPERTIES
  GameIsLeft
CHECK_DEADLOCK FALSE
