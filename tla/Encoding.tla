------------------------------ MODULE Encoding ------------------------------
(***************************************************************************)
(* Messages as they travel (network/messages.cpp, message_manager.cpp).    *)
(*                                                                         *)
(* A message is written as a sequence of elements, each a field with a     *)
(* value, and an element as the bytes of its type, in network byte order.  *)
(* Nothing on the wire says which field an element is or where a message   *)
(* ends: the reader knows it from what it has read so far.  Elements is    *)
(* what serialize writes; Then is what the constructors read.              *)
(*                                                                         *)
(* A string is a sequence of bytes, a std::map keyed by player ids is a    *)
(* function on them, a vector is a sequence.                               *)
(***************************************************************************)
EXTENDS Integers, SequencesExt, FiniteSetsExt

CONSTANTS
  Base,        \* 256, the number of values of a byte
  BigEndian    \* the programs that run on a big-endian host

ASSUME EncodingAssumption == Base \in Nat /\ Base > 4

-----------------------------------------------------------------------------
(* Elements and their bytes                                                *)

\* sizeof of the type that a field has in config.h.  A length is named after what
\* it is the length of.
SizeOf(field) ==
  CASE field \in {"server_message", "client_message", "gui_message", "event",
                  "string", "char", "player_id", "players_count", "direction"} -> 1
    [] field \in {"size_xy", "game_length", "explosion_radius", "bomb_timer",
                  "turn"} -> 2
    [] field \in {"players", "positions", "scores", "events", "robots", "blocks",
                  "bombs", "explosions", "bomb_id", "score"} -> 4

\* The number of values of n bytes.
Power[n \in Nat] == IF n = 0 THEN 1 ELSE Base * Power[n - 1]

Bytes == 0 .. Base - 1
Value(field) == 0 .. Power[SizeOf(field)] - 1

\* A value of n bytes, the most significant one first.
Digits(v, n) == [k \in 1 .. n |-> (v \div Power[n - k]) % Base]

OnHost(host, bytes) == IF host \in BigEndian THEN bytes ELSE Reverse(bytes)

\* How the value of an element lies in the memory of a program's host.
InMemory(host, v, n) == OnHost(host, Digits(v, n))

\* The value that n bytes in memory have.
FromMemory(host, bytes) ==
  LET digits == OnHost(host, bytes)
      first[k \in 0 .. Len(digits)] == IF k = 0 THEN 0 ELSE first[k - 1] * Base + digits[k]
  IN  first[Len(digits)]

\* convert_host_to_network_byte_order, convert_network_to_host_byte_order
ConvertByteOrder(host, bytes) ==
  IF host \in BigEndian THEN bytes ELSE Reverse(bytes)

\* What send_element and append_to_outcoming_packet put into their buffer.
Written(host, element) ==
  LET n == SizeOf(element.field)
  IN  ConvertByteOrder(host, InMemory(host, element.value, n))

\* What read_element makes of the bytes of a field.
ValueRead(host, bytes) == FromMemory(host, ConvertByteOrder(host, bytes))

-----------------------------------------------------------------------------
(* serialize                                                               *)

E(field, value) == <<[field |-> field, value |-> value]>>

MaxString == Base - 1

String_CountCut(s) ==
  LET n == Min({Len(s), MaxString})
  IN  E("string", n) \o [k \in 1 .. Len(s) |-> [field |-> "char", value |-> s[k]]]

\* serialize_string cuts what its length cannot count.
String(s) ==
  LET n == Min({Len(s), MaxString})
  IN  E("string", n) \o [k \in 1 .. n |-> [field |-> "char", value |-> s[k]]]

\* serialize_vector, of the encodings of the entries
Vector(field, items) == E(field, Len(items)) \o FlattenSeq(items)

Ascending(ids) ==
  CHOOSE s \in [1 .. Cardinality(ids) -> ids] :
    \A i, j \in DOMAIN s : i < j => s[i] < s[j]

\* serialize_map: in the order of the keys
Map(field, items) ==
  LET ids == Ascending(DOMAIN items)
  IN  Vector(field, [k \in DOMAIN ids |-> E("player_id", ids[k]) \o items[ids[k]]])

Id(id) == E("player_id", id)
Score(n) == E("score", n)
Position(p) == E("size_xy", p[1]) \o E("size_xy", p[2])
Player(p) == String(p.name) \o String(p.address)
Positions(field, s) == Vector(field, [k \in DOMAIN s |-> Position(s[k])])
Players(m) == Map("players", [id \in DOMAIN m |-> Player(m[id])])
Scores(m) == Map("scores", [id \in DOMAIN m |-> Score(m[id])])
Bomb(b) == Position(b.position) \o E("bomb_timer", b.timer)

\* options_server, as Hello and LobbyMessage carry it
Settings(m) ==
  String(m.server_name) \o E("players_count", m.players_count)
    \o E("size_xy", m.size[1]) \o E("size_xy", m.size[2])
    \o E("game_length", m.game_length)
    \o E("explosion_radius", m.explosion_radius) \o E("bomb_timer", m.bomb_timer)

\* The codes of messages.h.
ClientCodes == [Join |-> 0, PlaceBomb |-> 1, PlaceBlock |-> 2, Move |-> 3]
ServerCodes ==
  [Hello |-> 0, AcceptedPlayer |-> 1, GameStarted |-> 2, Turn |-> 3, GameEnded |-> 4]
EventCodes ==
  [BombPlaced |-> 0, BombExploded |-> 1, PlayerMoved |-> 2, BlockPlaced |-> 3]
GuiCodes == [Lobby |-> 0, Game |-> 1]

Event(e) ==
  E("event", EventCodes[e.type]) \o
  CASE e.type = "BombPlaced" -> E("bomb_id", e.id) \o Position(e.position)
    [] e.type = "BombExploded" ->
         E("bomb_id", e.id)
           \o Vector("robots", [k \in DOMAIN e.robots |-> Id(e.robots[k])])
           \o Positions("blocks", e.blocks)
    [] e.type = "PlayerMoved" -> Id(e.id) \o Position(e.position)
    [] e.type = "BlockPlaced" -> Position(e.position)

\* A message from a client to the server.
ClientElements(m) ==
  E("client_message", ClientCodes[m.type]) \o
  CASE m.type = "Join" -> String(m.name)
    [] m.type = "Move" -> E("direction", m.direction)
    [] m.type \in {"PlaceBomb", "PlaceBlock"} -> <<>>

\* A message from the server to a client.
ServerElements(m) ==
  E("server_message", ServerCodes[m.type]) \o
  CASE m.type = "Hello" -> Settings(m)
    [] m.type = "AcceptedPlayer" -> Id(m.id) \o Player(m.player)
    [] m.type = "GameStarted" -> Players(m.players)
    [] m.type = "Turn" -> E("turn", m.turn)
           \o Vector("events", [k \in DOMAIN m.events |-> Event(m.events[k])])
    [] m.type = "GameEnded" -> Scores(m.scores)

\* A message from a client to its GUI.
GuiElements(m) ==
  E("gui_message", GuiCodes[m.type]) \o
  CASE m.type = "Lobby" -> Settings(m) \o Players(m.players)
    [] m.type = "Game" ->
         String(m.server_name)
           \o E("size_xy", m.size[1]) \o E("size_xy", m.size[2])
           \o E("game_length", m.game_length) \o E("turn", m.turn)
           \o Players(m.players)
           \o Map("positions", [id \in DOMAIN m.player_positions |->
                                  Position(m.player_positions[id])])
           \o Positions("blocks", m.blocks)
           \o Vector("bombs", [k \in DOMAIN m.bombs |-> Bomb(m.bombs[k])])
           \o Positions("explosions", m.explosions)
           \o Scores(m.scores)

-----------------------------------------------------------------------------
(* What the structs of messages.h may hold                                 *)

AnyString == Seq(Bytes)

\* A vector that serialize_vector does not refuse.
Entries(field, S) == {s \in Seq(S) : Len(s) \in Value(field)}

\* std::map<types::player_id_t, S>
IsByPlayer(m, S) ==
  DOMAIN m \subseteq Value("player_id") /\ \A id \in DOMAIN m : m[id] \in S

AnyPosition == Value("size_xy") \X Value("size_xy")
AnyPlayer == [name : AnyString, address : AnyString]
AnyBomb == [position : AnyPosition, timer : Value("bomb_timer")]

AnyEvent ==
  [type : {"BombPlaced"}, id : Value("bomb_id"), position : AnyPosition]
  \union [type : {"BombExploded"}, id : Value("bomb_id"),
          robots : Entries("robots", Value("player_id")),
          blocks : Entries("blocks", AnyPosition)]
  \union [type : {"PlayerMoved"}, id : Value("player_id"), position : AnyPosition]
  \union [type : {"BlockPlaced"}, position : AnyPosition]

AnyHello ==
  [type : {"Hello"}, server_name : AnyString, players_count : Value("players_count"),
   size : AnyPosition, game_length : Value("game_length"),
   explosion_radius : Value("explosion_radius"), bomb_timer : Value("bomb_timer")]

IsServerMessage(m) ==
  \/ m \in AnyHello
  \/ m.type = "AcceptedPlayer" /\ m.id \in Value("player_id") /\ m.player \in AnyPlayer
  \/ m.type = "GameStarted" /\ IsByPlayer(m.players, AnyPlayer)
  \/ m.type = "Turn" /\ m.turn \in Value("turn") /\ m.events \in Entries("events", AnyEvent)
  \/ m.type = "GameEnded" /\ IsByPlayer(m.scores, Value("score"))

IsClientMessage(m) ==
  \/ m.type = "Join" /\ m.name \in AnyString
  \/ m.type \in {"PlaceBomb", "PlaceBlock"}
  \/ m.type = "Move" /\ m.direction \in Value("direction")

IsGameMessage(m) ==
  /\ m.type = "Game" /\ m.server_name \in AnyString /\ m.size \in AnyPosition
  /\ m.game_length \in Value("game_length") /\ m.turn \in Value("turn")
  /\ IsByPlayer(m.players, AnyPlayer) /\ IsByPlayer(m.player_positions, AnyPosition)
  /\ m.blocks \in Entries("blocks", AnyPosition)
  /\ m.bombs \in Entries("bombs", AnyBomb)
  /\ m.explosions \in Entries("explosions", AnyPosition)
  /\ IsByPlayer(m.scores, Value("score"))

-----------------------------------------------------------------------------
(* The constructors that read from a TCPHandler                            *)

\* The string that begins with elements[k], and the first element after it.
StringAt(elements, k) ==
  [i \in 1 .. elements[k].value |-> elements[k + i].value]
AfterString(elements, k) == k + elements[k].value + 1

HelloRead(elements) ==
  LET n == AfterString(elements, 2)
  IN  [server_name |-> StringAt(elements, 2),
       players_count |-> elements[n].value,
       size |-> <<elements[n + 1].value, elements[n + 2].value>>,
       game_length |-> elements[n + 3].value,
       explosion_radius |-> elements[n + 4].value,
       bomb_timer |-> elements[n + 5].value]

AcceptedPlayerRead(elements) ==
  [id |-> elements[2].value,
   player |-> [name |-> StringAt(elements, 3),
               address |-> StringAt(elements, AfterString(elements, 3))]]

PositionLayout == <<"size_xy", "size_xy">>
PlayerLayout == <<"string", "string">>

\* What is read for each kind of message and event, in order.
Layout ==
  [Join |-> <<"string">>, PlaceBomb |-> <<>>, PlaceBlock |-> <<>>,
   Move |-> <<"direction">>,
   Hello |-> <<"string", "players_count", "size_xy", "size_xy", "game_length",
               "explosion_radius", "bomb_timer">>,
   AcceptedPlayer |-> <<"player_id">> \o PlayerLayout,
   GameStarted |-> <<"players">>,
   Turn |-> <<"turn", "events">>,
   GameEnded |-> <<"scores">>,
   BombPlaced |-> <<"bomb_id">> \o PositionLayout,
   BombExploded |-> <<"bomb_id", "robots", "blocks">>,
   PlayerMoved |-> <<"player_id">> \o PositionLayout,
   BlockPlaced |-> PositionLayout]

\* What is read for each entry of a string, a map or a vector.
EntryLayout ==
  [string |-> <<"char">>,
   players |-> <<"player_id">> \o PlayerLayout,
   scores |-> <<"player_id", "score">>,
   events |-> <<"event">>,
   robots |-> <<"player_id">>,
   blocks |-> PositionLayout]

\* The numbers that the switches of read_client_message, read_server_message and
\* read_event are over.
Cases ==
  [client_message |-> ClientCodes, server_message |-> ServerCodes,
   event |-> EventCodes]

\* No case for the number: the reader throws.
Unknown(field, v) ==
  /\ field \in DOMAIN Cases
  /\ \A kind \in DOMAIN Cases[field] : Cases[field][kind] # v

\* What is to be read because field has been read and was v.
Then(field, v) ==
  CASE field \in DOMAIN Cases ->
         Layout[CHOOSE kind \in DOMAIN Cases[field] : Cases[field][kind] = v]
    [] field \in DOMAIN EntryLayout ->
         FlattenSeq([k \in 1 .. v |-> EntryLayout[field]])
    [] OTHER -> <<>>
=============================================================================
