SPECIFICATION FairSpec
CONSTANTS
  Bits <- Widths
  CommandLines <- Lines
  Conns = {c1, c2, c3}
  Backlog = 1
  MaxFds = 2
INVARIANTS
  TypeOK
  NumbersAreAsWritten
  LineIsComplete
  SocketLastsAsLongAsThreads
PROPERTIES
  GoneIsClosed
  NewcomersAreServed
CHECK_DEADLOCK FALSE
