SPECIFICATION FairSpec
CONSTANTS
  Clients = {c1}
  PlayersCount = 1
  GameLength = 1
  MaxRounds = 2
  TurnMod = 8
  NoMove = NoMove
  Watched = {c1}
  Requests = {"join", "input"}
PROPERTIES
  GameFinishes
  ViewerSeesTheEnd
CHECK_DEADLOCK FALSE
