SPECIFICATION Spec
CONSTANTS
  Clients = {c1}
  PlayersCount = 1
  GameLength = 1
  MaxRounds = 2
  MaxPending = 1
  Foreign = {}
INVARIANTS
  LobbyCanBeJoined
CHECK_DEADLOCK FALSE
