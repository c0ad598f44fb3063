SPECIFICATION SpecWatched
CONSTANTS
  Clients = {c1}
  PlayersCount = 1
  GameLength = 3
  MaxRounds = 2
  TurnMod = 4
  NoMove = NoMove
  Watched = {c1}
  Requests = {"join"}
INVARIANTS
  EndFollowsLastTurn
CHECK_DEADLOCK FALSE
