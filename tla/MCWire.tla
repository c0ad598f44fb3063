------------------------------- MODULE MCWire -------------------------------
(***************************************************************************)
(* An instance of Wire for TLC.  A byte has 5 values, so that a string can *)
(* have at most 4 bytes and values of two digits are common; the client    *)
(* runs on a big-endian host, the server does not.  The script is a game   *)
(* of one turn with every kind of event, between two lobbies, in which two *)
(* strings are too long for the wire.  One view of the game fits into the  *)
(* buffer and a datagram, one into the buffer only, one into neither.      *)
(***************************************************************************)
EXTENDS Wire

Ann == [name |-> <<1, 2, 3, 4, 1>>, address |-> <<3>>]
Bob == [name |-> <<>>, address |-> <<4, 4>>]

GameScript ==
  <<[type |-> "Hello", server_name |-> <<4, 3, 2, 1, 4, 3>>, players_count |-> 2,
     size |-> <<7, 3>>, game_length |-> 1, explosion_radius |-> 24, bomb_timer |-> 5],
    [type |-> "AcceptedPlayer", id |-> 0, player |-> Ann],
    [type |-> "AcceptedPlayer", id |-> 1, player |-> Bob],
    [type |-> "GameStarted", players |-> (0 :> Ann) @@ (1 :> Bob)],
    [type |-> "Turn", turn |-> 0,
     events |-> <<[type |-> "PlayerMoved", id |-> 1, position |-> <<6, 2>>],
                  [type |-> "BlockPlaced", position |-> <<0, 1>>]>>],
    [type |-> "Turn", turn |-> 7,
     events |-> <<[type |-> "BombExploded", id |-> 130, robots |-> <<1, 0>>,
                   blocks |-> <<<<6, 2>>, <<0, 1>>>>],
                  [type |-> "BombPlaced", id |-> 131, position |-> <<5, 0>>]>>],
    [type |-> "GameEnded", scores |-> (0 :> 9) @@ (1 :> 0)],
    [type |-> "AcceptedPlayer", id |-> 0, player |-> Bob]>>

GuiPackets ==
  {<<>>, <<0>>, <<1>>, <<2>>, <<3>>, <<0, 1>>, <<2, 3>>, <<2, 4>>, <<2, 0, 1>>}

SmallGame ==
  [type |-> "Game", server_name |-> <<4, 3, 2, 1>>, size |-> <<7, 3>>,
   game_length |-> 1, turn |-> 0, players |-> <<>>, player_positions |-> <<>>,
   blocks |-> <<<<0, 1>>>>, bombs |-> <<>>, explosions |-> <<>>, scores |-> <<>>]

LargeGame ==
  [SmallGame EXCEPT !.turn = 7, !.blocks = <<>>, !.players = (0 :> Ann) @@ (1 :> Bob),
     !.player_positions = (1 :> <<6, 2>>),
     !.bombs = <<[position |-> <<5, 0>>, timer |-> 5]>>,
     !.scores = (0 :> 9) @@ (1 :> 0)]

\* It fits into the buffer and not into a datagram.
MiddleGame == [SmallGame EXCEPT !.explosions = [k \in 1 .. 5 |-> <<k, 1>>]]

LongName == <<2, 1, 0, 3, 4>>

Views == {SmallGame, MiddleGame, LargeGame}
=============================================================================
