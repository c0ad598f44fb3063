SPECIFICATION SpecWatched
CONSTANTS
  Clients = {c1, c2}
  PlayersCount = 1
  GameLength = 2
  MaxRounds = 2
  TurnMod = 8
  NoMove = NoMove
  Watched = {}
  Requests = {"join", "input"}
SYMMETRY Symmetry
INVARIANTS
  TypeOK
  MovesFromOwner
  FreshMoves
PROPERTIES
  NoMoveDropped
  RosterFixed
CHECK_DEADLOCK FALSE
