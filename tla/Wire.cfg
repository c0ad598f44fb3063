SPECIFICATION FairSpec
CONSTANTS
  Base = 5
  BigEndian = {"client"}
  WireSize = 3
  RecvBuff = 2
  Script <- GameScript
  Packets <- GuiPackets
  MaxPackets = 2
  PlayerName <- LongName
  GameViews <- Views
  UdpBuff = 64
  MaxDatagram = 60
INVARIANTS
  TypeOK
  KeysArrive
  GuiSeesEveryMessage
PROPERTIES
  ImplementsChannel
  SentIsReceived
CHECK_DEADLOCK FALSE
