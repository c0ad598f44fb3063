-------------------------------- MODULE Game --------------------------------
(***************************************************************************)
(* One game: GameServer computes it turn by turn and describes each turn   *)
(* by events, GameClient recomputes it from the events (game_logic/game).  *)
(*                                                                         *)
(* Both are a Game: a record of robots' positions, blocks, bombs, scores,  *)
(* the turn and what was hit in it.  game_init, apply_moves and apply_turn *)
(* are single-threaded; their loops are taken one iteration at a time, in  *)
(* the order of the code.  A Turn message reaches the client when it is    *)
(* complete, and the server does not wait for that.                        *)
(***************************************************************************)
EXTENDS Board, Sequences, FiniteSets

CONSTANTS
  PlayersCount,    \* settings.players_count
  GameLength,      \* settings.game_length
  BombTimer,       \* settings.bomb_timer
  InitialBlocks,   \* settings.initial_blocks
  TimerMod,        \* 2^16, the number of values of types::bomb_timer_t
  MaxLag           \* bound: the turns that are under way to the client

ASSUME GameAssumption ==
  /\ PlayersCount \in Nat /\ GameLength \in Nat /\ InitialBlocks \in Nat
  /\ TimerMod \in Nat \ {0} /\ BombTimer \in 0 .. TimerMod - 1
  /\ MaxLag \in Nat \ {0}

VARIABLES
  server,      \* GameServer
  pc,          \* the loop it is in
  i,           \* its loop variable
  events,      \* turn_message.events
  channel,     \* the Turn messages the client has not read yet
  client,      \* GameClient
  todo,        \* the events of its current turn that it has not applied yet
  applying,    \* whether it is in apply_turn
  \* history
  burnt,       \* everything that has exploded in the server's current turn
  placed,      \* the turn in which each bomb was placed
  expected     \* the server's game after the turn the client has read last

serverVars == <<server, pc, i, events, burnt, placed>>
clientVars == <<client, todo, applying, expected>>
vars == <<serverVars, channel, clientVars>>

Robots == 0 .. PlayersCount - 1

-----------------------------------------------------------------------------
(* class Game                                                              *)

\* A robot that has not been placed yet is at <<0, 0>>.
NewGame ==
  [positions |-> [r \in Robots |-> <<0, 0>>], blocks |-> {}, bombs |-> <<>>,
   scores |-> [r \in Robots |-> 0], turn |-> 0,
   robots_hit |-> {}, blocks_hit |-> {}, explosions |-> {}]

AddBomb(g, id, p) ==
  [g EXCEPT !.bombs = [b \in DOMAIN @ \union {id} |->
                         IF b = id THEN [position |-> p, timer |-> BombTimer]
                         ELSE @[b]]]

EraseBomb(g, id) ==
  [g EXCEPT !.bombs = [b \in DOMAIN @ \ {id} |-> @[b]]]

DecreaseBombTimers_StopsAtZero(g) ==
  [g EXCEPT !.bombs = [b \in DOMAIN @ |->
                         [position |-> @[b].position,
                          timer |-> IF @[b].timer = 0 THEN 0 ELSE @[b].timer - 1]]]

DecreaseBombTimers(g) ==
  [g EXCEPT !.bombs = [b \in DOMAIN @ |->
                         [position |-> @[b].position,
                          timer |-> (@[b].timer - 1) % TimerMod]]]

MoveRobot(g, r, p) == [g EXCEPT !.positions[r] = p]

AddBlock(g, p) == [g EXCEPT !.blocks = @ \union {p}]

RemoveBlocks(g) == [g EXCEPT !.blocks = @ \ g.blocks_hit]

UpdateScores(g) ==
  [g EXCEPT !.scores = [r \in Robots |->
                          IF r \in g.robots_hit THEN @[r] + 1 ELSE @[r]]]

\* What a turn begins with, on either side.
BeginTurn(g) ==
  [DecreaseBombTimers(g) EXCEPT !.robots_hit = {}, !.blocks_hit = {}]

BombPlaced(id, p) == [type |-> "BombPlaced", id |-> id, position |-> p]
PlayerMoved(r, p) == [type |-> "PlayerMoved", id |-> r, position |-> p]
BlockPlaced(p) == [type |-> "BlockPlaced", position |-> p]
BombExploded(id, robots, blocks) ==
  [type |-> "BombExploded", id |-> id, robots |-> robots, blocks |-> blocks]

-----------------------------------------------------------------------------
(* GameServer                                                              *)

Emit(e) == events' = Append(events, e)

Publish(g) ==
  /\ Len(channel) < MaxLag                   \* bound
  /\ channel' = Append(channel, [turn |-> g.turn, events |-> events,
                                 after |-> g, burnt |-> burnt])
  /\ events' = <<>>

PcAfter(g) == IF g.turn < GameLength THEN "turn" ELSE "over"

\* game_init: first the robots, then the blocks.
InitRobot ==
  /\ pc = "init" /\ i < PlayersCount
  /\ \E p \in Fields :
       /\ server' = MoveRobot(server, i, p)
       /\ Emit(PlayerMoved(i, p))
  /\ i' = i + 1
  /\ UNCHANGED <<pc, burnt, placed, channel, clientVars>>

InitBlock ==
  /\ pc = "init" /\ i \in PlayersCount .. PlayersCount + InitialBlocks - 1
  /\ \E p \in Fields :
       /\ server' = AddBlock(server, p)
       /\ Emit(BlockPlaced(p))
  /\ i' = i + 1
  /\ UNCHANGED <<pc, burnt, placed, channel, clientVars>>

InitDone ==
  /\ pc = "init" /\ i = PlayersCount + InitialBlocks
  /\ Publish(server)
  /\ pc' = PcAfter(server)
  /\ UNCHANGED <<server, i, burnt, placed, clientVars>>

\* apply_moves up to decrease_bomb_timers
TurnBegins ==
  /\ pc = "turn"
  /\ server' = BeginTurn(server)
  /\ burnt' = {}
  /\ pc' = "bombs"
  /\ UNCHANGED <<i, events, placed, channel, clientVars>>

AfterExplosion_BlocksGone(g) == RemoveBlocks(g)

\* The rest of the iteration: nothing but the bomb goes away before the turn ends.
AfterExplosion(g) == g

\* handle_exploding_bomb; the bombs are visited in the order of an unordered_map.
BombExplodes(id) ==
  /\ pc = "bombs" /\ id \in DOMAIN server.bombs
  /\ server.bombs[id].timer = 0
  /\ LET area == Explosion(server.bombs[id].position, server.blocks)
         blocks == area \intersect server.blocks
         robots == {r \in Robots : server.positions[r] \in area}
     IN  /\ server' = AfterExplosion(
              [EraseBomb(server, id) EXCEPT !.explosions = area,
                 !.blocks_hit = @ \union blocks, !.robots_hit = @ \union robots])
         /\ Emit(BombExploded(id, robots, blocks))
         /\ burnt' = burnt \union area
  /\ UNCHANGED <<pc, i, placed, channel, clientVars>>

BombsDone_Early ==
  /\ pc = "bombs"
  /\ pc' = "players"
  /\ i' = 0
  /\ UNCHANGED <<server, events, burnt, placed, channel, clientVars>>

BombsDone ==
  /\ pc = "bombs"
  /\ \A id \in DOMAIN server.bombs : server.bombs[id].timer # 0
  /\ pc' = "players"
  /\ i' = 0
  /\ UNCHANGED <<server, events, burnt, placed, channel, clientVars>>

\* The loop over the players, at a robot that may act.
MayAct ==
  /\ pc = "players" /\ i \in Robots \ server.robots_hit
  /\ i' = i + 1
  /\ UNCHANGED <<pc, burnt, channel, clientVars>>

\* A robot that was destroyed is recreated somewhere, and does not act.
Respawns ==
  /\ pc = "players" /\ i \in server.robots_hit
  /\ \E p \in Fields :
       /\ server' = MoveRobot(server, i, p)
       /\ Emit(PlayerMoved(i, p))
  /\ i' = i + 1
  /\ UNCHANGED <<pc, burnt, placed, channel, clientVars>>

PlacesBomb ==
  /\ MayAct
  /\ LET id == Cardinality(DOMAIN placed)    \* bomb_counter
         p == server.positions[i]
     IN  /\ server' = AddBomb(server, id, p)
         /\ Emit(BombPlaced(id, p))
         /\ placed' = [b \in DOMAIN placed \union {id} |->
                         IF b = id THEN server.turn + 1 ELSE placed[b]]

PlacesBlock ==
  /\ MayAct
  /\ server.positions[i] \notin server.blocks
  /\ server' = AddBlock(server, server.positions[i])
  /\ Emit(BlockPlaced(server.positions[i]))
  /\ UNCHANGED placed

Legal_AnyField(p) == p \notin server.blocks

\* is_position_legal
Legal(p) == p \in Fields /\ p \notin server.blocks

Moves(d) ==
  LET p == Beyond(server.positions[i], d, 1)
  IN  /\ MayAct
      /\ Legal(p)
      /\ server' = MoveRobot(server, i, p)
      /\ Emit(PlayerMoved(i, p))
      /\ UNCHANGED placed

\* No new move, or one that is not possible.
DoesNothing ==
  /\ MayAct
  /\ UNCHANGED <<server, events, placed>>

TurnEnds ==
  /\ pc = "players" /\ i = PlayersCount
  /\ server' = [UpdateScores(RemoveBlocks(server)) EXCEPT !.turn = @ + 1]
  /\ Publish(server')
  /\ pc' = PcAfter(server')
  /\ UNCHANGED <<i, burnt, placed, clientVars>>

ServerSteps ==
  \/ InitRobot \/ InitBlock \/ InitDone
  \/ TurnBegins \/ BombsDone \/ (\E id \in DOMAIN server.bombs : BombExplodes(id))
  \/ Respawns \/ PlacesBomb \/ PlacesBlock \/ DoesNothing
  \/ (\E d \in Directions : Moves(d))
  \/ TurnEnds

-----------------------------------------------------------------------------
(* GameClient                                                              *)

\* apply_turn up to the loop over the events
ClientBegins ==
  /\ ~applying /\ channel # <<>>
  /\ client' = [BeginTurn(client) EXCEPT !.turn = Head(channel).turn,
                                        !.explosions = {}]
  /\ todo' = Head(channel).events
  /\ expected' = [after |-> Head(channel).after, burnt |-> Head(channel).burnt]
  /\ applying' = TRUE
  /\ channel' = Tail(channel)
  /\ UNCHANGED serverVars

\* The fields covered by a bomb that the client knows of.
Area(g, id) ==
  IF id \in DOMAIN g.bombs THEN Explosion(g.bombs[id].position, g.blocks) ELSE {}

AfterBombExploded_BlocksGone(g, e) ==
  [EraseBomb(g, e.id) EXCEPT
     !.explosions = @ \union Area(g, e.id),
     !.robots_hit = @ \union e.robots, !.blocks = @ \ e.blocks]

AfterBombExploded_KeepsBomb(g, e) ==
  [g EXCEPT
     !.explosions = @ \union Area(g, e.id),
     !.robots_hit = @ \union e.robots, !.blocks_hit = @ \union e.blocks]

AfterBombExploded(g, e) ==
  [EraseBomb(g, e.id) EXCEPT
     !.explosions = @ \union Area(g, e.id),
     !.robots_hit = @ \union e.robots, !.blocks_hit = @ \union e.blocks]

\* apply_event
ApplyEvent(g, e) ==
  CASE e.type = "BombPlaced" -> AddBomb(g, e.id, e.position)
    [] e.type = "PlayerMoved" -> MoveRobot(g, e.id, e.position)
    [] e.type = "BlockPlaced" -> AddBlock(g, e.position)
    [] e.type = "BombExploded" -> AfterBombExploded(g, e)

ClientApplies ==
  /\ applying /\ todo # <<>>
  /\ client' = ApplyEvent(client, Head(todo))
  /\ todo' = Tail(todo)
  /\ UNCHANGED <<serverVars, channel, applying, expected>>

ClientEnds ==
  /\ applying /\ todo = <<>>
  /\ client' = UpdateScores(RemoveBlocks(client))
  /\ applying' = FALSE
  /\ UNCHANGED <<serverVars, channel, todo, expected>>

ClientSteps == ClientBegins \/ ClientApplies \/ ClientEnds

-----------------------------------------------------------------------------
Init ==
  /\ server = NewGame /\ client = NewGame
  /\ pc = "init" /\ i = 0 /\ events = <<>> /\ burnt = {}
  /\ placed = <<>>
  /\ channel = <<>> /\ todo = <<>> /\ applying = FALSE
  /\ expected = [after |-> NewGame, burnt |-> {}]

Next == ServerSteps \/ ClientSteps

Spec == Init /\ [][Next]_vars

-----------------------------------------------------------------------------
(* Properties                                                              *)

\* A bomb explodes bomb_timer turns after it was placed.  A timer of 0 wraps around
\* before it is looked at.
Fuse == IF BombTimer = 0 THEN TimerMod ELSE BombTimer

Bombs == [position : Fields, timer : 0 .. TimerMod - 1]

GameOK(g) ==
  /\ g.positions \in [Robots -> Fields]
  /\ g.blocks \subseteq Fields
  /\ DOMAIN g.bombs \subseteq 0 .. Cardinality(DOMAIN placed) - 1
  /\ \A id \in DOMAIN g.bombs : g.bombs[id] \in Bombs
  /\ g.scores \in [Robots -> 0 .. g.turn]
  /\ g.turn \in 0 .. GameLength
  /\ g.robots_hit \subseteq Robots
  /\ g.blocks_hit \subseteq Fields
  /\ g.explosions \subseteq Fields

\* Both games are well formed: all robots, blocks and bombs are on the board, a bomb
\* has an id that was given out, and nobody scores more than once per turn.
TypeOK ==
  /\ GameOK(server) /\ GameOK(client)
  /\ pc \in {"init", "turn", "bombs", "players", "over"}
  /\ i \in 0 .. PlayersCount + InitialBlocks
  /\ Len(channel) <= MaxLag
  /\ applying \in BOOLEAN
  /\ burnt \subseteq Fields

View(g) == <<g.turn, g.positions, g.blocks, g.bombs, g.scores>>

\* Whenever the client draws, it shows the game the server had after that turn:
\* robots, blocks, bombs with their timers and scores, although it only gets events
\* and removes bombs, blocks and counts scores by its own code, turns behind.
ClientAgrees == ~applying => View(client) = View(expected.after)

\* The explosions the client draws are the fields the server's bombs have hit in
\* that turn: it works them out from its own blocks, which must still be those
\* that stood when the turn began.
ExplosionsAgree == ~applying => client.explosions = expected.burnt

\* In whatever order the bombs of a turn are visited, what they destroy are the
\* robots and the blocks on the fields they hit: no bomb clears the way for another.
HitsAreFair ==
  pc = "bombs" =>
    /\ server.robots_hit = {r \in Robots : server.positions[r] \in burnt}
    /\ server.blocks_hit = server.blocks \intersect burnt

\* A bomb leaves the board in the turn its fuse has burnt down, and in no other.
ExplodesOnTime ==
  [][\A id \in DOMAIN server.bombs :
       LET due == placed[id] + Fuse
       IN  IF id \in DOMAIN server'.bombs
           THEN server'.turn > server.turn => server'.turn < due
           ELSE server.turn + 1 = due]_vars
=============================================================================
