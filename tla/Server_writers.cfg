SPECIFICATION SpecWatched
CONSTANTS
  Clients = {c1, c2}
  PlayersCount = 2
  GameLength = 1
  MaxRounds = 2
  TurnMod = 8
  NoMove = NoMove
  Watched = {c1, c2}
  Requests = {"join"}
SYMMETRY Symmetry
INVARIANTS
  ProtocolOrder
  OneIdPerRound
PROPERTIES
  ImplementsService
CHECK_DEADLOCK FALSE
