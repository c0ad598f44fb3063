SPECIFICATION SpecForeign
CONSTANTS
  Clients = {c1, c2}
  PlayersCount = 2
  GameLength = 1
  MaxRounds = 3
  MaxPending = 1
  Foreign = {c2}
INVARIANTS
  TypeOK
  NeverForbidden
  LobbyShowsOneRound
  JoinMeetsLaterRound
CHECK_DEADLOCK FALSE
