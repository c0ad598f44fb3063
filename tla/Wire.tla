-------------------------------- MODULE Wire --------------------------------
(***************************************************************************)
(* The connection of one client together with its GUI: datagrams from the  *)
(* GUI become messages to the server (guiClientServerStream), messages     *)
(* from the server become datagrams to the GUI (serverClientGuiStream).    *)
(* Client models what the two threads decide, here it is what they read    *)
(* and write: the bytes in the buffers of UDPHandler and TCPHandler.       *)
(***************************************************************************)
EXTENDS TcpStream

CONSTANTS
  Script,        \* the messages that the server writes to the client
  Packets,       \* the datagrams that the GUI may send
  MaxPackets,    \* bound: how many of them it sends
  PlayerName,    \* options_client::player_name
  GameViews,     \* what GameClient::get_game_state may return
  UdpBuff,       \* UDP_BUFF_SIZE
  MaxDatagram    \* the largest datagram that the socket takes

\* The script is what a connection of the server writes: Hello first and once, and
\* no player is accepted twice before a game has ended.
ASSUME WireAssumption ==
  /\ Script \in Seq(Range(Script))
  /\ \A k \in DOMAIN Script :
       IsServerMessage(Script[k]) /\ (Script[k].type = "Hello" <=> k = 1)
  /\ \A i, j \in DOMAIN Script :
       /\ i < j /\ Script[i].type = "AcceptedPlayer" /\ Script[j].type = "AcceptedPlayer"
       /\ Script[i].id = Script[j].id
       => \E k \in i .. j : Script[k].type = "GameEnded"
  /\ Packets \subseteq Seq(Bytes) /\ PlayerName \in AnyString
  /\ \A view \in GameViews : IsGameMessage(view)

VARIABLES
  gui_buff,      \* UDPHandler::recv_buff
  packets,       \* history: the datagrams that the client has received
  lobby,         \* LobbyClient
  gui_out,       \* UDPHandler::send_buff up to send_pointer
  datagrams      \* history: the datagrams that the client has sent

guiVars == <<gui_buff, packets, lobby, gui_out, datagrams>>
vars == <<streamVars, guiVars>>

NoLobby == [type |-> "None"]

Init ==
  /\ StreamInit
  /\ gui_buff \in {<<0, 1, 0>>, <<2, 3, 2>>}      \* malloc
  /\ direction = "down" => gui_buff[1] = 0        \* not used
  /\ packets = <<>> /\ lobby = NoLobby /\ gui_out = <<>> /\ datagrams = <<>>

-----------------------------------------------------------------------------
(* From the GUI to the server                                              *)

\* The codes of the messages of the GUI differ from those to the server.
InputCodes == [PlaceBomb |-> 0, PlaceBlock |-> 1, Move |-> 2]

Inputs_AnySize(buff, packet_size) ==
  {[type |-> t] : t \in {t \in {"PlaceBomb", "PlaceBlock"} :
                           packet_size > 0 /\ buff[1] = InputCodes[t]}}
  \union {[type |-> "Move", direction |-> d] :
            d \in {d \in 0 .. 3 : packet_size = 2
                                    /\ buff[1] = InputCodes.Move /\ buff[2] = d}}

\* What read_gui_message makes of a datagram of packet_size bytes at the start of
\* buff: an input, or none when the datagram is an InvalidMessage.
Inputs(buff, packet_size) ==
  {[type |-> t] : t \in {t \in {"PlaceBomb", "PlaceBlock"} :
                           packet_size = 1 /\ buff[1] = InputCodes[t]}}
  \union {[type |-> "Move", direction |-> d] :
            d \in {d \in 0 .. 3 : packet_size = 2
                                    /\ buff[1] = InputCodes.Move /\ buff[2] = d}}

\* recv leaves what lies behind the datagram.
Overwritten(buff, p) == [k \in DOMAIN buff |-> IF k <= Len(p) THEN p[k] ELSE buff[k]]

GuiPacket(p) ==
  /\ direction = "up" /\ WriterIdle
  /\ Len(packets) < MaxPackets                  \* bound
  /\ packets' = Append(packets, p)
  /\ gui_buff' = Overwritten(gui_buff, p)
  /\ UNCHANGED <<lobby, gui_out, datagrams>>

\* An invalid message is ignored.
GuiNoise(p) ==
  /\ GuiPacket(p)
  /\ Inputs(gui_buff', Len(p)) = {}
  /\ UNCHANGED streamVars

\* In the lobby a valid message stands for the wish to join.
GuiInput(p) ==
  /\ GuiPacket(p)
  /\ \E input \in Inputs(gui_buff', Len(p)) :
       \/ Write(ClientElements(input))
       \/ Write(ClientElements([type |-> "Join", name |-> PlayerName]))

ServerHandles ==
  /\ direction = "up" /\ receiver = "handling"
  /\ receiver' = "reading"
  /\ UNCHANGED <<direction, sending, wire, recv_deque, expect, elements, received,
                 guiVars>>

-----------------------------------------------------------------------------
(* From the server to the GUI                                              *)

ServerWrites ==
  /\ direction = "down" /\ Len(sent) < Len(Script)
  /\ Write(ServerElements(Script[Len(sent) + 1]))
  /\ UNCHANGED guiVars

\* The message that serverClientGuiStream has just read.
Handled(kind) ==
  /\ direction = "down" /\ receiver = "handling"
  /\ Last(received)[1].value = ServerCodes[kind]

FlushOutcomingPacket_Keeps(packet) ==
  /\ Len(packet) <= MaxDatagram
  /\ datagrams' = Append(datagrams, packet)
  /\ gui_out' = packet

\* flush_outcoming_packet, when send takes the packet
FlushOutcomingPacket(packet) ==
  /\ Len(packet) <= MaxDatagram
  /\ datagrams' = Append(datagrams, packet)
  /\ gui_out' = <<>>

\* append_to_outcoming_packet for every element of view, then flush: the packet
\* may not fit into the buffer, and send may fail.
SendGuiMessage(view) ==
  LET packet == gui_out \o FlattenSeq([k \in DOMAIN GuiElements(view) |->
                                         Written("client", GuiElements(view)[k])])
  IN  \/ /\ Len(packet) <= UdpBuff
         /\ FlushOutcomingPacket(packet)
         /\ receiver' = "reading"
      \/ /\ receiver' = "thrown"
         /\ UNCHANGED <<gui_out, datagrams>>

Draw(view) ==
  /\ SendGuiMessage(view)
  /\ UNCHANGED <<direction, sending, wire, recv_deque, expect, elements, received,
                 gui_buff, packets>>

LobbyOf(hello, players) ==
  [type |-> "Lobby", server_name |-> hello.server_name, size |-> hello.size,
   players_count |-> hello.players_count, game_length |-> hello.game_length,
   explosion_radius |-> hello.explosion_radius, bomb_timer |-> hello.bomb_timer,
   players |-> players]
NewLobby(hello) == LobbyOf(hello, <<>>)

ClientHello ==
  /\ Handled("Hello")
  /\ lobby' = NewLobby(HelloRead(Last(received)))
  /\ Draw(lobby')

\* std::map::insert does not replace.
Inserted(map, key, value) ==
  [k \in DOMAIN map \union {key} |-> IF k \in DOMAIN map THEN map[k] ELSE value]

\* LobbyClient::accept
ClientAcceptedPlayer ==
  /\ Handled("AcceptedPlayer")
  /\ LET m == AcceptedPlayerRead(Last(received))
     IN  lobby' = [lobby EXCEPT !.players = Inserted(@, m.id, m.player)]
  /\ Draw(lobby')

ClientTurn(view) ==
  /\ Handled("Turn")
  /\ Draw(view)
  /\ UNCHANGED lobby

ClientGameEnded ==
  /\ Handled("GameEnded")
  /\ lobby' = NewLobby(HelloRead(received[1]))
  /\ Draw(lobby')

\* Nothing is drawn until the first turn.
ClientGameStarted ==
  /\ Handled("GameStarted")
  /\ receiver' = "reading"
  /\ UNCHANGED <<direction, sending, wire, recv_deque, expect, elements, received,
                 guiVars>>

ClientHandles ==
  \/ ClientHello \/ ClientAcceptedPlayer \/ ClientGameStarted \/ ClientGameEnded
  \/ \E view \in GameViews : ClientTurn(view)

-----------------------------------------------------------------------------

Stream == StreamNext /\ UNCHANGED guiVars

Next ==
  \/ \E p \in Packets : GuiNoise(p) \/ GuiInput(p)
  \/ ServerWrites \/ ServerHandles \/ ClientHandles
  \/ Stream

Spec == Init /\ [][Next]_vars

\* The threads are scheduled, the network delivers, and nobody has to write.
FairSpec ==
  /\ Spec
  /\ WF_vars((SendElement \/ \E k \in 1 .. WireSize : SendBytes(k)) /\ UNCHANGED guiVars)
  /\ WF_vars((\E k \in 1 .. WireSize : ReceiveBytes(k)) /\ UNCHANGED guiVars)
  /\ WF_vars(ReadElement /\ UNCHANGED guiVars)
  /\ WF_vars(ServerHandles \/ ClientHandles)

-----------------------------------------------------------------------------
(* Properties                                                              *)

\* Every variable has its type; in particular no field that is read has a value that
\* its type in config.h cannot have, and the deque holds no more than the rest of
\* one element and what one recv returns.
TypeOK ==
  /\ direction \in {"up", "down"}
  /\ sender \in {"ok", "thrown"} /\ receiver \in {"reading", "handling", "thrown"}
  /\ {unsent, wire, recv_deque, gui_out} \subseteq Seq(Bytes)
  /\ Len(unsent) <= 4 /\ Len(wire) <= WireSize /\ Len(recv_deque) < 4 + RecvBuff
  /\ \A e \in Range(elements) : e.value \in Value(e.field)
  /\ expect # <<>>

\* Everything that is ever written.
Contents ==
  {ServerElements(Script[k]) : k \in DOMAIN Script}
  \union {ClientElements(m) : m \in
            {[type |-> "Join", name |-> PlayerName],
             [type |-> "PlaceBomb"], [type |-> "PlaceBlock"]}
            \union [type : {"Move"}, direction : 0 .. 3]}

TheChannel == INSTANCE Channel

\* The messages that the two ends see are a FIFO channel of whole messages: however
\* send and recv divide the bytes, and whichever byte order the two hosts have, what
\* the constructors that read make of the bytes are the fields that serialize wrote,
\* and a connection that breaks in the middle of a message delivers no part of it.
ImplementsChannel == TheChannel!Spec

\* The key that a datagram stands for.
Meant(p) ==
  CASE p = <<0>> -> [type |-> "PlaceBomb"]
    [] p = <<1>> -> [type |-> "PlaceBlock"]
    [] Len(p) = 2 /\ p[1] = 2 /\ p[2] < 4 -> [type |-> "Move", direction |-> p[2]]
    [] OTHER -> [type |-> "None"]

KeyOf(p) == IF Meant(p).type = "None" THEN <<>> ELSE <<Meant(p)>>

\* What the server reads are the keys that the user pressed, in that order and each
\* once, or the wish to join in their place: the datagrams that are no message of the
\* protocol count for nothing, whatever earlier datagrams have left in the buffer.
KeysArrive ==
  direction = "up" =>
    LET keys == FlattenSeq([k \in DOMAIN packets |-> KeyOf(packets[k])])
    IN  /\ Len(sent) = Len(keys)
        /\ \A k \in DOMAIN received :
             received[k] \in {ClientElements(keys[k]),
                             ClientElements([type |-> "Join", name |-> PlayerName])}

\* What may be drawn after the k-th message of the script.
ViewsMeant(k) ==
  LET since == Max({i \in 1 .. k : Script[i].type \in {"Hello", "GameEnded"}})
      told == {Script[i] : i \in {i \in since + 1 .. k :
                                    Script[i].type = "AcceptedPlayer"}}
  IN  IF Script[k].type = "Turn" THEN GameViews
      ELSE {LobbyOf(Script[1], [id \in {m.id : m \in told} |->
                                  (CHOOSE m \in told : m.id = id).player])}

InNetworkOrder(view) ==
  FlattenSeq([k \in DOMAIN GuiElements(view) |->
    Digits(GuiElements(view)[k].value, SizeOf(GuiElements(view)[k].field))])

\* The GUI gets one datagram for each message that the client has handled, except
\* GameStarted, and each is one whole view and nothing else, which fits into a
\* datagram.  A view of the lobby shows what the server was started with and the
\* players that it has told of since the last game, with strings cut where they were
\* written first.  Only a client that exits leaves one out.
GuiSeesEveryMessage ==
  direction = "down" =>
    LET handled == Len(received) - (IF receiver = "handling" THEN 1 ELSE 0)
        drawn == FlattenSeq([k \in 1 .. handled |->
                               IF Script[k].type = "GameStarted" THEN <<>> ELSE <<k>>])
    IN  /\ \A i \in DOMAIN datagrams :
             /\ Len(datagrams[i]) <= MaxDatagram
             /\ \E view \in ViewsMeant(drawn[i]) : datagrams[i] = InNetworkOrder(view)
        /\ receiver # "thrown" => Len(datagrams) = Len(drawn)

\* A message that has been written is read, unless one of the two threads has given
\* up: no thread waits for a byte that does not come.
SentIsReceived ==
  Len(received) < Len(sent)
    ~> (Len(received) = Len(sent) \/ sender = "thrown" \/ receiver = "thrown")
=============================================================================
