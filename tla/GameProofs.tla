------------------------------ MODULE GameProofs -----------------------------
(***************************************************************************)
(* Theorems about Game: explosions are fair, bombs explode on time, and    *)
(* the client's game is the server's.                                      *)
(*                                                                         *)
(* The last rests on ReplayInv: at every moment, the events that the       *)
(* server has emitted in its turn, those in every message under way and    *)
(* those the client has still to apply lead, applied in order by the       *)
(* client's code, from one game of the server's to the next.               *)
(***************************************************************************)
EXTENDS Game, FiniteSetTheorems, TLAPS

(* Games by their parts: an operation that sets several fields is one that *)
(* sets them one after the other.                                          *)

BombMaps == UNION {[D -> Bombs] : D \in SUBSET Nat}

Games ==
  [positions : [Robots -> Fields], blocks : SUBSET Fields, bombs : BombMaps,
   scores : [Robots -> Nat], turn : Nat,
   robots_hit : SUBSET Robots, blocks_hit : SUBSET Fields, explosions : SUBSET Fields]

\* g is the game with these parts.
Is(g, positions, blocks, bombs, scores, turn, robots_hit, blocks_hit, explosions) ==
  /\ g \in Games
  /\ g.positions = positions
  /\ g.blocks = blocks
  /\ g.bombs = bombs
  /\ g.scores = scores
  /\ g.turn = turn
  /\ g.robots_hit = robots_hit
  /\ g.blocks_hit = blocks_hit
  /\ g.explosions = explosions

\* A game is determined by its parts.
LEMMA OneGame ==
  ASSUME NEW g, NEW h, NEW p, NEW bl, NEW bo, NEW s, NEW t, NEW rh, NEW bh, NEW ex,
         Is(g, p, bl, bo, s, t, rh, bh, ex), Is(h, p, bl, bo, s, t, rh, bh, ex)
  PROVE  g = h
<1>1. g \in Games /\ h \in Games
  BY Zenon DEF Is
<1>2. /\ g.positions = h.positions /\ g.blocks = h.blocks /\ g.bombs = h.bombs
      /\ g.scores = h.scores /\ g.turn = h.turn /\ g.robots_hit = h.robots_hit
      /\ g.blocks_hit = h.blocks_hit /\ g.explosions = h.explosions
  BY Zenon DEF Is
<1> QED BY <1>1, <1>2, SMT DEF Games

LEMMA Parts ==
  ASSUME NEW g \in Games
  PROVE  /\ Is(g, g.positions, g.blocks, g.bombs, g.scores, g.turn,
                  g.robots_hit, g.blocks_hit, g.explosions)
         /\ g.positions \in [Robots -> Fields] /\ g.blocks \in SUBSET Fields
         /\ g.bombs \in BombMaps /\ g.scores \in [Robots -> Nat] /\ g.turn \in Nat
         /\ g.robots_hit \in SUBSET Robots /\ g.blocks_hit \in SUBSET Fields
         /\ g.explosions \in SUBSET Fields
<1>1. /\ g.positions \in [Robots -> Fields] /\ g.blocks \in SUBSET Fields
      /\ g.bombs \in BombMaps /\ g.scores \in [Robots -> Nat] /\ g.turn \in Nat
      /\ g.robots_hit \in SUBSET Robots /\ g.blocks_hit \in SUBSET Fields
      /\ g.explosions \in SUBSET Fields
  BY SMT DEF Games
<1> QED BY <1>1, Zenon DEF Is

LEMMA SetPositions ==
  ASSUME NEW g \in Games, NEW x \in [Robots -> Fields]
  PROVE  Is([g EXCEPT !.positions = x], x, g.blocks, g.bombs, g.scores, g.turn,
            g.robots_hit, g.blocks_hit, g.explosions)
BY SMT DEF Is, Games

LEMMA SetBlocks ==
  ASSUME NEW g \in Games, NEW x \in SUBSET Fields
  PROVE  Is([g EXCEPT !.blocks = x], g.positions, x, g.bombs, g.scores, g.turn,
            g.robots_hit, g.blocks_hit, g.explosions)
BY SMT DEF Is, Games

LEMMA SetBombs ==
  ASSUME NEW g \in Games, NEW x \in BombMaps
  PROVE  Is([g EXCEPT !.bombs = x], g.positions, g.blocks, x, g.scores, g.turn,
            g.robots_hit, g.blocks_hit, g.explosions)
BY SMT DEF Is, Games

LEMMA SetScores ==
  ASSUME NEW g \in Games, NEW x \in [Robots -> Nat]
  PROVE  Is([g EXCEPT !.scores = x], g.positions, g.blocks, g.bombs, x, g.turn,
            g.robots_hit, g.blocks_hit, g.explosions)
BY SMT DEF Is, Games

LEMMA SetTurn ==
  ASSUME NEW g \in Games, NEW x \in Nat
  PROVE  Is([g EXCEPT !.turn = x], g.positions, g.blocks, g.bombs, g.scores, x,
            g.robots_hit, g.blocks_hit, g.explosions)
BY SMT DEF Is, Games

LEMMA SetRobotsHit ==
  ASSUME NEW g \in Games, NEW x \in SUBSET Robots
  PROVE  Is([g EXCEPT !.robots_hit = x], g.positions, g.blocks, g.bombs, g.scores,
            g.turn, x, g.blocks_hit, g.explosions)
BY SMT DEF Is, Games

LEMMA SetBlocksHit ==
  ASSUME NEW g \in Games, NEW x \in SUBSET Fields
  PROVE  Is([g EXCEPT !.blocks_hit = x], g.positions, g.blocks, g.bombs, g.scores,
            g.turn, g.robots_hit, x, g.explosions)
BY SMT DEF Is, Games

LEMMA SetExplosions ==
  ASSUME NEW g \in Games, NEW x \in SUBSET Fields
  PROVE  Is([g EXCEPT !.explosions = x], g.positions, g.blocks, g.bombs, g.scores,
            g.turn, g.robots_hit, g.blocks_hit, x)
BY SMT DEF Is, Games

-----------------------------------------------------------------------------
(* Bombs                                                                   *)

WithBomb(f, id, p) ==
  [b \in DOMAIN f \union {id} |->
     IF b = id THEN [position |-> p, timer |-> BombTimer] ELSE f[b]]

WithoutBomb(f, id) == [b \in DOMAIN f \ {id} |-> f[b]]

Ticked(f) ==
  [b \in DOMAIN f |-> [position |-> f[b].position, timer |-> (f[b].timer - 1) % TimerMod]]

LEMMA BombMap ==
  ASSUME NEW f \in BombMaps
  PROVE  DOMAIN f \subseteq Nat /\ f \in [DOMAIN f -> Bombs]
<1>1. PICK D \in SUBSET Nat : f \in [D -> Bombs]
  BY Zenon DEF BombMaps
<1> QED BY <1>1, SMT

LEMMA ABombMap ==
  ASSUME NEW f, DOMAIN f \subseteq Nat, f \in [DOMAIN f -> Bombs]
  PROVE  f \in BombMaps
BY Zenon DEF BombMaps

LEMMA WithBombIs ==
  ASSUME NEW f \in BombMaps, NEW id \in Nat, NEW p \in Fields
  PROVE  WithBomb(f, id, p) \in BombMaps
<1> DEFINE g == WithBomb(f, id, p)
<1>1. [position |-> p, timer |-> BombTimer] \in Bombs
  BY GameAssumption, SMT DEF Bombs
<1>2. DOMAIN f \subseteq Nat /\ f \in [DOMAIN f -> Bombs]
  BY BombMap, Zenon
<1>3. DOMAIN g = DOMAIN f \union {id} /\ DOMAIN g \subseteq Nat
  BY <1>2, SMT DEF WithBomb
<1>4. g \in [DOMAIN g -> Bombs]
  <2>1. \A b \in DOMAIN f \union {id} :
          (IF b = id THEN [position |-> p, timer |-> BombTimer] ELSE f[b]) \in Bombs
    BY <1>1, <1>2, SMT
  <2> QED BY <2>1, <1>3, Zenon DEF WithBomb
<1> QED BY <1>3, <1>4, ABombMap, Zenon

LEMMA WithoutBombIs ==
  ASSUME NEW f \in BombMaps, NEW id
  PROVE  WithoutBomb(f, id) \in BombMaps
<1> DEFINE g == WithoutBomb(f, id)
<1>1. DOMAIN f \subseteq Nat /\ f \in [DOMAIN f -> Bombs]
  BY BombMap, Zenon
<1>2. DOMAIN g = DOMAIN f \ {id} /\ DOMAIN g \subseteq Nat
  BY <1>1, SMT DEF WithoutBomb
<1>3. g \in [DOMAIN g -> Bombs]
  BY <1>1, <1>2, SMT DEF WithoutBomb
<1> QED BY <1>2, <1>3, ABombMap, Zenon

LEMMA TickedIs ==
  ASSUME NEW f \in BombMaps
  PROVE  /\ Ticked(f) \in BombMaps
         /\ DOMAIN Ticked(f) = DOMAIN f
         /\ \A b \in DOMAIN f : Ticked(f)[b].timer = (f[b].timer - 1) % TimerMod
<1> DEFINE g == Ticked(f)
<1>1. DOMAIN f \subseteq Nat /\ f \in [DOMAIN f -> Bombs]
  BY BombMap, Zenon
<1>2. \A b \in DOMAIN f : /\ f[b].position \in Fields
                          /\ (f[b].timer - 1) % TimerMod \in 0 .. TimerMod - 1
  <2> SUFFICES ASSUME NEW b \in DOMAIN f
               PROVE  /\ f[b].position \in Fields
                      /\ (f[b].timer - 1) % TimerMod \in 0 .. TimerMod - 1
    OBVIOUS
  <2>1. f[b].position \in Fields /\ f[b].timer \in Int
    BY <1>1, SMT DEF Bombs
  <2> QED BY <2>1, GameAssumption, SMT
<1>3. DOMAIN g = DOMAIN f
  BY Zenon DEF Ticked
<1>4. \A b \in DOMAIN f :
        g[b] = [position |-> f[b].position, timer |-> (f[b].timer - 1) % TimerMod]
  BY Zenon DEF Ticked
<1>5. g \in [DOMAIN g -> Bombs]
  <2>1. \A b \in DOMAIN f :
          [position |-> f[b].position, timer |-> (f[b].timer - 1) % TimerMod] \in Bombs
    BY <1>2, SMT DEF Bombs
  <2> QED BY <2>1, <1>3, Zenon DEF Ticked
<1>6. \A b \in DOMAIN f : g[b].timer = (f[b].timer - 1) % TimerMod
  <2> HIDE DEF g
  <2>1. SUFFICES ASSUME NEW b \in DOMAIN f
                 PROVE  g[b].timer = (f[b].timer - 1) % TimerMod
    OBVIOUS
  <2>2. g[b] = [position |-> f[b].position, timer |-> (f[b].timer - 1) % TimerMod]
    BY <1>4, Zenon
  <2> QED BY <2>2, SMT
<1> QED BY <1>1, <1>3, <1>5, <1>6, ABombMap, Zenon

-----------------------------------------------------------------------------
(* What the operations of class Game do to the parts of a game             *)

LEMMA AddBombIs ==
  ASSUME NEW g \in Games, NEW id \in Nat, NEW p \in Fields
  PROVE  Is(AddBomb(g, id, p), g.positions, g.blocks, WithBomb(g.bombs, id, p), g.scores,
            g.turn, g.robots_hit, g.blocks_hit, g.explosions)
<1>1. AddBomb(g, id, p) = [g EXCEPT !.bombs = WithBomb(g.bombs, id, p)]
  BY Zenon DEF AddBomb, WithBomb
<1>2. WithBomb(g.bombs, id, p) \in BombMaps
  BY WithBombIs, Parts, Zenon
<1> QED BY <1>1, <1>2, SetBombs, Zenon

LEMMA EraseBombIs ==
  ASSUME NEW g \in Games, NEW id
  PROVE  Is(EraseBomb(g, id), g.positions, g.blocks, WithoutBomb(g.bombs, id), g.scores,
            g.turn, g.robots_hit, g.blocks_hit, g.explosions)
<1>1. EraseBomb(g, id) = [g EXCEPT !.bombs = WithoutBomb(g.bombs, id)]
  BY Zenon DEF EraseBomb, WithoutBomb
<1>2. WithoutBomb(g.bombs, id) \in BombMaps
  BY WithoutBombIs, Parts, Zenon
<1> QED BY <1>1, <1>2, SetBombs, Zenon

LEMMA MoveRobotIs ==
  ASSUME NEW g \in Games, NEW r \in Robots, NEW p \in Fields
  PROVE  Is(MoveRobot(g, r, p), [g.positions EXCEPT ![r] = p], g.blocks, g.bombs,
            g.scores, g.turn, g.robots_hit, g.blocks_hit, g.explosions)
<1>1. MoveRobot(g, r, p) = [g EXCEPT !.positions = [g.positions EXCEPT ![r] = p]]
  BY Zenon DEF MoveRobot
<1>2. g.positions \in [Robots -> Fields]
  BY Parts, Zenon
<1>3. [g.positions EXCEPT ![r] = p] \in [Robots -> Fields]
  BY <1>2, SMT
<1> QED BY <1>1, <1>3, SetPositions, Zenon

LEMMA AddBlockIs ==
  ASSUME NEW g \in Games, NEW p \in Fields
  PROVE  Is(AddBlock(g, p), g.positions, g.blocks \union {p}, g.bombs, g.scores, g.turn,
            g.robots_hit, g.blocks_hit, g.explosions)
<1>1. AddBlock(g, p) = [g EXCEPT !.blocks = g.blocks \union {p}]
  BY Zenon DEF AddBlock
<1>2. g.blocks \in SUBSET Fields
  BY Parts, Zenon
<1>3. g.blocks \union {p} \in SUBSET Fields
  BY <1>2, SMT
<1> QED BY <1>1, <1>3, SetBlocks, Zenon

Scored(g) ==
  [r \in Robots |-> IF r \in g.robots_hit THEN g.scores[r] + 1 ELSE g.scores[r]]

LEMMA ScoredIs ==
  ASSUME NEW g \in Games
  PROVE  Scored(g) \in [Robots -> Nat]
<1>1. g.scores \in [Robots -> Nat]
  BY Parts, Zenon
<1> QED BY <1>1, SMT DEF Scored

\* The end of a turn, on either side.
Closing(g) == UpdateScores(RemoveBlocks(g))

LEMMA ClosingIs ==
  ASSUME NEW g \in Games
  PROVE  Is(Closing(g), g.positions, g.blocks \ g.blocks_hit, g.bombs, Scored(g), g.turn,
            g.robots_hit, g.blocks_hit, g.explosions)
<1> DEFINE h == RemoveBlocks(g)
<1>1. h = [g EXCEPT !.blocks = g.blocks \ g.blocks_hit]
  BY Zenon DEF RemoveBlocks
<1>2. g.blocks \in SUBSET Fields
  BY Parts, Zenon
<1>3. g.blocks \ g.blocks_hit \in SUBSET Fields
  BY <1>2, SMT
<1>4. Is(h, g.positions, g.blocks \ g.blocks_hit, g.bombs, g.scores, g.turn,
         g.robots_hit, g.blocks_hit, g.explosions)
  BY <1>1, <1>3, SetBlocks, Zenon
<1>5. h \in Games /\ h.robots_hit = g.robots_hit /\ h.scores = g.scores
  BY <1>4, Zenon DEF Is
<1>6. Closing(g) = [h EXCEPT !.scores = Scored(h)] /\ Scored(h) = Scored(g)
  BY <1>5, Zenon DEF Closing, UpdateScores, Scored
<1>7. Is(Closing(g), h.positions, h.blocks, h.bombs, Scored(g), h.turn,
         h.robots_hit, h.blocks_hit, h.explosions)
  BY <1>5, <1>6, ScoredIs, SetScores, Zenon
<1> QED BY <1>4, <1>7, Zenon DEF Is

LEMMA BeginTurnIs ==
  ASSUME NEW g \in Games
  PROVE  Is(BeginTurn(g), g.positions, g.blocks, Ticked(g.bombs), g.scores, g.turn,
            {}, {}, g.explosions)
<1> DEFINE a == DecreaseBombTimers(g)
           b == [a EXCEPT !.robots_hit = {}]
<1>1. a = [g EXCEPT !.bombs = Ticked(g.bombs)]
  BY Zenon DEF DecreaseBombTimers, Ticked
<1>2. Is(a, g.positions, g.blocks, Ticked(g.bombs), g.scores, g.turn,
         g.robots_hit, g.blocks_hit, g.explosions)
  <2>1. g.bombs \in BombMaps
    BY Parts, Zenon
  <2>2. Ticked(g.bombs) \in BombMaps
    BY <2>1, TickedIs, Zenon
  <2> QED BY <1>1, <2>2, SetBombs, Zenon
<1>3. a \in Games
  BY <1>2, Zenon DEF Is
<1>4. Is(b, a.positions, a.blocks, a.bombs, a.scores, a.turn, {}, a.blocks_hit,
         a.explosions)
  BY <1>3, SetRobotsHit, Zenon
<1>5. b \in Games
  BY <1>4, Zenon DEF Is
<1>6. BeginTurn(g) = [b EXCEPT !.blocks_hit = {}]
  BY Zenon DEF BeginTurn
<1>7. Is(BeginTurn(g), b.positions, b.blocks, b.bombs, b.scores, b.turn, b.robots_hit, {},
         b.explosions)
  BY <1>5, <1>6, SetBlocksHit, Zenon
<1> QED BY <1>2, <1>4, <1>7, Zenon DEF Is

\* The game without what only one side keeps: the turn counts from the start of a turn
\* on, and the explosions are those of the whole turn.
Shadow(g, turn, explosions) == [g EXCEPT !.turn = turn, !.explosions = explosions]

LEMMA ShadowIs ==
  ASSUME NEW g \in Games, NEW t \in Nat, NEW x \in SUBSET Fields
  PROVE  Is(Shadow(g, t, x), g.positions, g.blocks, g.bombs, g.scores, t,
            g.robots_hit, g.blocks_hit, x)
<1> DEFINE a == [g EXCEPT !.turn = t]
<1>1. Is(a, g.positions, g.blocks, g.bombs, g.scores, t, g.robots_hit, g.blocks_hit,
         g.explosions)
  BY SetTurn, Zenon
<1>2. a \in Games
  BY <1>1, Zenon DEF Is
<1>3. Shadow(g, t, x) = [a EXCEPT !.explosions = x]
  BY Zenon DEF Shadow
<1>4. Is(Shadow(g, t, x), a.positions, a.blocks, a.bombs, a.scores, a.turn,
         a.robots_hit, a.blocks_hit, x)
  BY <1>2, <1>3, SetExplosions, Zenon
<1> QED BY <1>1, <1>4, Zenon DEF Is

\* What a turn begins with at the client.
Opening(g, turn) == [BeginTurn(g) EXCEPT !.turn = turn, !.explosions = {}]

LEMMA OpeningIs ==
  ASSUME NEW g \in Games, NEW t \in Nat
  PROVE  Is(Opening(g, t), g.positions, g.blocks, Ticked(g.bombs), g.scores, t, {}, {}, {})
<1>1. BeginTurn(g) \in Games
  BY BeginTurnIs, Zenon DEF Is
<1>2. Opening(g, t) = Shadow(BeginTurn(g), t, {})
  BY Zenon DEF Opening, Shadow
<1>3. Is(Opening(g, t), BeginTurn(g).positions, BeginTurn(g).blocks, BeginTurn(g).bombs,
         BeginTurn(g).scores, t, BeginTurn(g).robots_hit, BeginTurn(g).blocks_hit, {})
  BY <1>1, <1>2, ShadowIs, Zenon
<1> QED BY <1>3, BeginTurnIs, Zenon DEF Is

\* A bomb explodes.
Burst(g, id, explosions, robots, blocks) ==
  [EraseBomb(g, id) EXCEPT !.explosions = explosions,
     !.robots_hit = @ \union robots, !.blocks_hit = @ \union blocks]

LEMMA BurstIs ==
  ASSUME NEW g \in Games, NEW id, NEW x \in SUBSET Fields,
         NEW R \in SUBSET Robots, NEW B \in SUBSET Fields
  PROVE  Is(Burst(g, id, x, R, B), g.positions, g.blocks, WithoutBomb(g.bombs, id),
            g.scores, g.turn, g.robots_hit \union R, g.blocks_hit \union B, x)
<1> DEFINE a == EraseBomb(g, id)
           b == [a EXCEPT !.explosions = x]
           c == [b EXCEPT !.robots_hit = g.robots_hit \union R]
<1>0. g.robots_hit \union R \in SUBSET Robots /\ g.blocks_hit \union B \in SUBSET Fields
  <2>1. g.robots_hit \in SUBSET Robots /\ g.blocks_hit \in SUBSET Fields
    BY Parts, Zenon
  <2> QED BY <2>1, SMT
<1>1. Is(a, g.positions, g.blocks, WithoutBomb(g.bombs, id), g.scores, g.turn,
         g.robots_hit, g.blocks_hit, g.explosions)
  BY EraseBombIs, Zenon
<1>2. a \in Games
  BY <1>1, Zenon DEF Is
<1>3. Is(b, a.positions, a.blocks, a.bombs, a.scores, a.turn, a.robots_hit, a.blocks_hit, x)
  BY <1>2, SetExplosions, Zenon
<1>4. b \in Games
  BY <1>3, Zenon DEF Is
<1>5. Is(c, b.positions, b.blocks, b.bombs, b.scores, b.turn, g.robots_hit \union R,
         b.blocks_hit, b.explosions)
  BY <1>0, <1>4, SetRobotsHit, Zenon
<1>6. c \in Games
  BY <1>5, Zenon DEF Is
<1>7. Burst(g, id, x, R, B) = [c EXCEPT !.blocks_hit = g.blocks_hit \union B]
  <2>1. a.robots_hit = g.robots_hit /\ a.blocks_hit = g.blocks_hit
    BY <1>1, Zenon DEF Is
  <2> QED BY <2>1, Zenon DEF Burst
<1>8. Is(Burst(g, id, x, R, B), c.positions, c.blocks, c.bombs, c.scores, c.turn,
         c.robots_hit, g.blocks_hit \union B, c.explosions)
  BY <1>0, <1>6, <1>7, SetBlocksHit, Zenon
<1> QED BY <1>1, <1>3, <1>5, <1>8, Zenon DEF Is
-----------------------------------------------------------------------------
(* What holds of the server alone                                          *)

Events ==
  {BombPlaced(id, p) : id \in Nat, p \in Fields}
  \union {PlayerMoved(r, p) : r \in Robots, p \in Fields}
  \union {BlockPlaced(p) : p \in Fields}
  \union {BombExploded(id, R, B) :
            id \in Nat, R \in SUBSET Robots, B \in SUBSET Fields}

\* A Turn message with what the history variables keep of it.
Messages == [turn : Nat, events : Seq(Events), after : Games, burnt : SUBSET Fields]

BombCount == Cardinality(DOMAIN placed)

\* The games with bombs among the first n, and with scores and turn as they may be.
GamesWith(n) ==
  {g \in Games :
     /\ DOMAIN g.bombs \subseteq 0 .. n - 1
     /\ \A r \in Robots : g.scores[r] <= g.turn
     /\ g.turn <= GameLength}

InTurn == pc \in {"bombs", "players"}

Types ==
  /\ server \in GamesWith(BombCount)
  /\ pc \in {"init", "turn", "bombs", "players", "over"}
  /\ i \in 0 .. PlayersCount + InitialBlocks
  /\ events \in Seq(Events)
  /\ channel \in Seq(Messages) /\ Len(channel) <= MaxLag
  /\ todo \in Seq(Events)
  /\ expected \in [after : Games, burnt : SUBSET Fields]
  /\ applying \in BOOLEAN
  /\ burnt \in SUBSET Fields
  /\ BombCount \in Nat /\ DOMAIN placed = 0 .. BombCount - 1
  /\ placed = [b \in DOMAIN placed |-> placed[b]]

InitPhase ==
  pc = "init" =>
    /\ server.turn = 0 /\ DOMAIN server.bombs = {}
    /\ server.robots_hit = {} /\ server.blocks_hit = {}
    /\ burnt = {}

TurnPhase ==
  /\ pc \in {"turn", "bombs", "players"} => server.turn < GameLength
  /\ pc = "players" => i <= PlayersCount

ServerInv == Types /\ InitPhase /\ TurnPhase

LEMMA NewGameIs ==
  /\ Is(NewGame, [r \in Robots |-> <<0, 0>>], {}, <<>>, [r \in Robots |-> 0], 0, {}, {}, {})
  /\ <<>> \in BombMaps /\ DOMAIN <<>> = {} /\ Ticked(<<>>) = <<>>
<1>1. DOMAIN <<>> = {}
  OBVIOUS
<1>2. <<>> \in [{} -> Bombs]
  OBVIOUS
<1>3. <<>> \in BombMaps
  BY <1>1, <1>2, ABombMap, Zenon
<1>4. Ticked(<<>>) = <<>>
  <2>1. Ticked(<<>>) \in [{} -> Bombs]
    BY <1>1, SMT DEF Ticked
  <2> QED BY <1>2, <2>1, SMT
<1>5. [r \in Robots |-> <<0, 0>>] \in [Robots -> Fields]
  BY BoardAssumption, SMT DEF Fields
<1>6. [r \in Robots |-> 0] \in [Robots -> Nat]
  OBVIOUS
<1>7. NewGame.bombs = <<>>
  BY Zenon DEF NewGame
<1>8. NewGame \in Games
  BY <1>3, <1>5, <1>6, SMT DEF NewGame, Games
<1> QED BY <1>1, <1>3, <1>4, <1>8, SMT DEF Is, NewGame

LEMMA AnEvent ==
  /\ \A id \in Nat, p \in Fields : BombPlaced(id, p) \in Events
  /\ \A r \in Robots, p \in Fields : PlayerMoved(r, p) \in Events
  /\ \A p \in Fields : BlockPlaced(p) \in Events
  /\ \A id \in Nat, R \in SUBSET Robots, B \in SUBSET Fields :
       BombExploded(id, R, B) \in Events
BY SMT DEF Events

LEMMA InGamesWith ==
  ASSUME NEW g, NEW p, NEW bl, NEW bo, NEW s, NEW t, NEW rh, NEW bh, NEW ex, NEW n,
         Is(g, p, bl, bo, s, t, rh, bh, ex), DOMAIN bo \subseteq 0 .. n - 1,
         \A r \in Robots : s[r] <= t, t <= GameLength
  PROVE  g \in GamesWith(n)
BY Zenon DEF Is, GamesWith

LEMMA AreaIsOnBoard ==
  ASSUME NEW p, NEW B
  PROVE  Explosion(p, B) \in SUBSET Fields
<1>1. \A d \in Directions : Ray(p, d, B) \subseteq Fields
  BY SMT DEF Ray
<1> QED BY <1>1, Zenon DEF Explosion

LEMMA ServerInit == Init => ServerInv
<1> SUFFICES ASSUME Init
             PROVE  ServerInv
  OBVIOUS
<1>1. server \in Games /\ server.bombs = <<>> /\ server.turn = 0
      /\ server.scores = [r \in Robots |-> 0] /\ server.robots_hit = {}
      /\ server.blocks_hit = {}
  BY NewGameIs, Zenon DEF Init, Is
<1>2. DOMAIN placed = {} /\ BombCount = 0
  <2>1. DOMAIN placed = {}
    BY SMT DEF Init
  <2> QED BY <2>1, FS_EmptySet, Zenon DEF BombCount
<1>3. server \in GamesWith(BombCount)
  <2>1. DOMAIN server.bombs = {}
    BY <1>1, NewGameIs, Zenon
  <2>2. (\A r \in Robots : server.scores[r] <= server.turn) /\ server.turn <= GameLength
    BY <1>1, GameAssumption, SMT
  <2> QED BY <1>1, <2>1, <2>2, Zenon DEF GamesWith
<1>4. expected \in [after : Games, burnt : SUBSET Fields]
  <2>1. NewGame \in Games
    BY NewGameIs, Zenon DEF Is
  <2> QED BY <2>1, SMT DEF Init
<1>5. placed = [b \in DOMAIN placed |-> placed[b]]
  <2>1. placed = <<>>
    BY Zenon DEF Init
  <2> QED BY <2>1, SMT
<1>6. 0 .. BombCount - 1 = {}
  BY <1>2, SMT
<1>7. /\ pc \in {"init", "turn", "bombs", "players", "over"}
      /\ i \in 0 .. PlayersCount + InitialBlocks
      /\ events \in Seq(Events)
      /\ channel \in Seq(Messages) /\ Len(channel) <= MaxLag
      /\ todo \in Seq(Events)
      /\ burnt \in SUBSET Fields
  BY GameAssumption, SMT DEF Init
<1>8. applying \in BOOLEAN
  BY Zenon DEF Init
<1>9. Types
  BY <1>2, <1>3, <1>4, <1>5, <1>6, <1>7, <1>8, Zenon DEF Types
<1>10. InitPhase
  BY <1>1, NewGameIs, Zenon DEF InitPhase, Init
<1>11. TurnPhase
  BY Zenon DEF TurnPhase, Init
<1> QED BY <1>9, <1>10, <1>11, Zenon DEF ServerInv

LEMMA ServerFacts ==
  ASSUME Types
  PROVE  /\ server \in Games /\ DOMAIN server.bombs \subseteq 0 .. BombCount - 1
         /\ \A r \in Robots : server.scores[r] <= server.turn
         /\ server.turn \in Nat /\ server.turn <= GameLength
         /\ server.positions \in [Robots -> Fields] /\ server.blocks \in SUBSET Fields
         /\ server.bombs \in BombMaps /\ server.scores \in [Robots -> Nat]
         /\ server.robots_hit \in SUBSET Robots /\ server.blocks_hit \in SUBSET Fields
         /\ \A id \in DOMAIN server.bombs : id \in Nat /\ server.bombs[id] \in Bombs
<1>1. server \in Games /\ DOMAIN server.bombs \subseteq 0 .. BombCount - 1
      /\ (\A r \in Robots : server.scores[r] <= server.turn) /\ server.turn <= GameLength
  BY Zenon DEF Types, GamesWith
<1>2. DOMAIN server.bombs \subseteq Nat /\ server.bombs \in [DOMAIN server.bombs -> Bombs]
  BY <1>1, Parts, BombMap, Zenon
<1>3. \A id \in DOMAIN server.bombs : id \in Nat /\ server.bombs[id] \in Bombs
  BY <1>2, Zenon
<1> QED BY <1>1, <1>3, Parts, Zenon

\* A step of the server that places no bomb keeps the types when its own parts do.
LEMMA StillTyped ==
  ASSUME Types, server' \in GamesWith(BombCount), events' \in Seq(Events),
         pc' \in {"init", "turn", "bombs", "players", "over"},
         i' \in 0 .. PlayersCount + InitialBlocks, burnt' \in SUBSET Fields,
         channel' \in Seq(Messages), Len(channel') <= MaxLag, UNCHANGED <<placed, clientVars>>
  PROVE  Types'
<1>1. UNCHANGED <<placed, todo, applying, expected>>
  BY Zenon DEF clientVars
<1>2. BombCount' = BombCount
  BY <1>1, Zenon DEF BombCount
<1> QED BY <1>1, <1>2, Zenon DEF Types

LEMMA PublishTyped ==
  ASSUME Types, NEW g \in Games, Publish(g)
  PROVE  channel' \in Seq(Messages) /\ Len(channel') <= MaxLag /\ events' \in Seq(Events)
<1> DEFINE m == [turn |-> g.turn, events |-> events, after |-> g, burnt |-> burnt]
<1>1. g.turn \in Nat /\ events \in Seq(Events) /\ burnt \in SUBSET Fields
  BY Parts, Zenon DEF Types
<1>2. m \in Messages
  BY <1>1, SMT DEF Messages
<1>3. channel \in Seq(Messages) /\ Len(channel) < MaxLag /\ channel' = Append(channel, m)
      /\ events' = <<>>
  BY Zenon DEF Publish, Types
<1> HIDE DEF m
<1> QED BY <1>2, <1>3, GameAssumption, SMT

LEMMA InitSteps ==
  ASSUME ServerInv, InitRobot \/ InitBlock
  PROVE  ServerInv'
<1>1. pc = "init" /\ Types /\ InitPhase
  BY Zenon DEF ServerInv, InitRobot, InitBlock
<1>2. /\ server.turn = 0 /\ DOMAIN server.bombs = {}
      /\ server.robots_hit = {} /\ server.blocks_hit = {} /\ burnt = {}
  BY <1>1, Zenon DEF InitPhase
<1>3. /\ UNCHANGED <<pc, burnt, placed, channel, clientVars>>
      /\ i' = i + 1 /\ i' \in 0 .. PlayersCount + InitialBlocks
  <2>1. UNCHANGED <<pc, burnt, placed, channel, clientVars>> /\ i' = i + 1
    BY Zenon DEF InitRobot, InitBlock
  <2>2. i < PlayersCount \/ i \in PlayersCount .. PlayersCount + InitialBlocks - 1
    BY Zenon DEF InitRobot, InitBlock
  <2>3. i \in 0 .. PlayersCount + InitialBlocks
    BY <1>1, Zenon DEF Types
  <2> QED BY <2>1, <2>2, <2>3, GameAssumption, SMT
<1>4. \E pos, bl : Is(server', pos, bl, server.bombs, server.scores, server.turn,
                     server.robots_hit, server.blocks_hit, server.explosions)
                  /\ events' \in Seq(Events)
  <2>0. events \in Seq(Events) /\ i \in Nat
    BY <1>1, SMT DEF Types
  <2>1. CASE InitRobot
    <3>1. i \in Robots
      BY <2>0, <2>1, GameAssumption, SMT DEF InitRobot, Robots
    <3>2. PICK p \in Fields : server' = MoveRobot(server, i, p) /\ Emit(PlayerMoved(i, p))
      BY <2>1, Zenon DEF InitRobot
    <3>3. PlayerMoved(i, p) \in Events
      BY <3>1, AnEvent, Zenon
    <3>4. events' \in Seq(Events)
      BY <2>0, <3>2, <3>3, SMT DEF Emit
    <3> QED BY <1>1, <3>1, <3>2, <3>4, ServerFacts, MoveRobotIs, Zenon
  <2>2. CASE InitBlock
    <3>2. PICK p \in Fields : server' = AddBlock(server, p) /\ Emit(BlockPlaced(p))
      BY <2>2, Zenon DEF InitBlock
    <3>3. BlockPlaced(p) \in Events
      BY AnEvent, Zenon
    <3>4. events' \in Seq(Events)
      BY <2>0, <3>2, <3>3, SMT DEF Emit
    <3> QED BY <1>1, <3>2, <3>4, ServerFacts, AddBlockIs, Zenon
  <2> QED BY <2>1, <2>2
<1>5. server' \in GamesWith(BombCount) /\ events' \in Seq(Events)
  BY <1>1, <1>4, ServerFacts, InGamesWith, Zenon
<1>6. Types'
  BY <1>1, <1>3, <1>5, StillTyped, Zenon DEF Types
<1>7. InitPhase'
  BY <1>1, <1>2, <1>3, <1>4, Zenon DEF InitPhase, Is
<1>8. TurnPhase'
  BY <1>1, <1>3, Zenon DEF TurnPhase
<1> QED BY <1>6, <1>7, <1>8, Zenon DEF ServerInv

LEMMA InitDoneStep ==
  ASSUME ServerInv, InitDone
  PROVE  ServerInv'
<1>1. Types /\ server \in GamesWith(BombCount) /\ server \in Games
  BY ServerFacts, Zenon DEF ServerInv, Types
<1>2. UNCHANGED <<server, i, burnt, placed, clientVars>> /\ Publish(server)
      /\ pc' = PcAfter(server)
  BY Zenon DEF InitDone
<1>3. pc' \in {"turn", "over"} /\ (pc' = "turn" => server.turn < GameLength)
  BY <1>2, Zenon DEF PcAfter
<1>4. Types'
  <2>1. channel' \in Seq(Messages) /\ Len(channel') <= MaxLag /\ events' \in Seq(Events)
    BY <1>1, <1>2, PublishTyped, Zenon
  <2>2. pc' \in {"init", "turn", "bombs", "players", "over"}
    BY <1>3, Zenon
  <2> QED BY <1>1, <1>2, <2>1, <2>2, StillTyped, Zenon DEF Types
<1>5. InitPhase' /\ TurnPhase'
  BY <1>2, <1>3, SMT DEF InitPhase, TurnPhase
<1> QED BY <1>4, <1>5, Zenon DEF ServerInv

LEMMA TurnBeginsStep ==
  ASSUME ServerInv, TurnBegins
  PROVE  ServerInv'
<1>1. Types /\ TurnPhase /\ pc = "turn"
  BY Zenon DEF ServerInv, TurnBegins
<1>2. /\ UNCHANGED <<i, events, placed, channel, clientVars>>
      /\ server' = BeginTurn(server) /\ burnt' = {} /\ pc' = "bombs"
  BY Zenon DEF TurnBegins
<1>3. Is(server', server.positions, server.blocks, Ticked(server.bombs), server.scores,
         server.turn, {}, {}, server.explosions)
  BY <1>1, <1>2, ServerFacts, BeginTurnIs, Zenon
<1>4. server' \in GamesWith(BombCount)
  <2>1. DOMAIN Ticked(server.bombs) = DOMAIN server.bombs
    BY Zenon DEF Ticked
  <2> QED BY <1>1, <1>3, <2>1, ServerFacts, InGamesWith, Zenon
<1>5. Types'
  <2>1. burnt' \in SUBSET Fields
    BY <1>2, Zenon
  <2> QED BY <1>1, <1>2, <1>4, <2>1, StillTyped, Zenon DEF Types
<1>6. TurnPhase' /\ InitPhase'
  <2>1. server.turn < GameLength /\ server'.turn = server.turn
    BY <1>1, <1>3, Zenon DEF TurnPhase, Is
  <2> QED BY <1>2, <2>1, Zenon DEF TurnPhase, InitPhase
<1> QED BY <1>5, <1>6, Zenon DEF ServerInv

AreaOf(id) == Explosion(server.bombs[id].position, server.blocks)
BlocksIn(area) == area \intersect server.blocks
RobotsIn(area) == {r \in Robots : server.positions[r] \in area}

\* What BombExplodes does, with the parts of the game.
LEMMA BombExplodesDoes ==
  ASSUME ServerInv, NEW id, BombExplodes(id)
  PROVE  LET area == AreaOf(id)
         IN  /\ area \in SUBSET Fields /\ BlocksIn(area) \in SUBSET Fields
             /\ RobotsIn(area) \in SUBSET Robots
             /\ server' = Burst(server, id, area, RobotsIn(area), BlocksIn(area))
             /\ Is(server', server.positions, server.blocks, WithoutBomb(server.bombs, id),
                   server.scores, server.turn, server.robots_hit \union RobotsIn(area),
                   server.blocks_hit \union BlocksIn(area), area)
             /\ id \in Nat
             /\ Emit(BombExploded(id, RobotsIn(area), BlocksIn(area)))
             /\ burnt' = burnt \union area
<1> DEFINE area == AreaOf(id)
<1>1. area \in SUBSET Fields
  BY AreaIsOnBoard, Zenon DEF AreaOf
<1>2. BlocksIn(area) \in SUBSET Fields /\ RobotsIn(area) \in SUBSET Robots
  BY <1>1, SMT DEF BlocksIn, RobotsIn
<1>3. Types /\ id \in DOMAIN server.bombs
  BY Zenon DEF ServerInv, BombExplodes
<1>4. id \in Nat /\ server \in Games
  BY <1>3, ServerFacts, Zenon
<1>5. /\ server' = Burst(server, id, area, RobotsIn(area), BlocksIn(area))
      /\ Emit(BombExploded(id, RobotsIn(area), BlocksIn(area)))
      /\ burnt' = burnt \union area
  BY Zenon DEF BombExplodes, AfterExplosion, Burst, AreaOf, BlocksIn, RobotsIn
<1> HIDE DEF area
<1>6. Is(server', server.positions, server.blocks, WithoutBomb(server.bombs, id),
         server.scores, server.turn, server.robots_hit \union RobotsIn(area),
         server.blocks_hit \union BlocksIn(area), area)
  BY <1>1, <1>2, <1>4, <1>5, BurstIs, Zenon
<1> QED BY <1>1, <1>2, <1>4, <1>5, <1>6, Zenon DEF area

LEMMA BombExplodesStep ==
  ASSUME ServerInv, NEW id, BombExplodes(id)
  PROVE  ServerInv'
<1> DEFINE area == AreaOf(id)
           e == BombExploded(id, RobotsIn(area), BlocksIn(area))
<1>1. Types /\ TurnPhase /\ pc = "bombs"
  BY Zenon DEF ServerInv, BombExplodes
<1>2. UNCHANGED <<pc, i, placed, channel, clientVars>>
  BY Zenon DEF BombExplodes
<1>3. /\ area \in SUBSET Fields /\ e \in Events
      /\ Is(server', server.positions, server.blocks, WithoutBomb(server.bombs, id),
            server.scores, server.turn, server.robots_hit \union RobotsIn(area),
            server.blocks_hit \union BlocksIn(area), area)
      /\ events' = Append(events, e) /\ burnt' = burnt \union area
  BY BombExplodesDoes, AnEvent, Zenon DEF Emit
<1> HIDE DEF area, e
<1>4. server' \in GamesWith(BombCount)
  <2>1. DOMAIN WithoutBomb(server.bombs, id) \subseteq DOMAIN server.bombs
    BY SMT DEF WithoutBomb
  <2>2. DOMAIN WithoutBomb(server.bombs, id) \subseteq 0 .. BombCount - 1
    BY <1>1, <2>1, ServerFacts, Zenon
  <2> QED BY <1>1, <1>3, <2>2, ServerFacts, InGamesWith, Zenon
<1>5. Types'
  <2>1. burnt' \in SUBSET Fields /\ events' \in Seq(Events)
    <3>1. burnt \in SUBSET Fields /\ events \in Seq(Events)
      BY <1>1, Zenon DEF Types
    <3> QED BY <1>3, <3>1, SMT
  <2> QED BY <1>1, <1>2, <1>4, <2>1, StillTyped, Zenon DEF Types
<1>6. TurnPhase' /\ InitPhase'
  <2>1. server.turn < GameLength /\ server'.turn = server.turn
    BY <1>1, <1>3, Zenon DEF TurnPhase, Is
  <2> QED BY <1>1, <1>2, <2>1, Zenon DEF TurnPhase, InitPhase
<1> QED BY <1>5, <1>6, Zenon DEF ServerInv

LEMMA BombsDoneStep ==
  ASSUME ServerInv, BombsDone
  PROVE  ServerInv'
<1>1. Types /\ TurnPhase /\ pc = "bombs"
  BY Zenon DEF ServerInv, BombsDone
<1>2. /\ UNCHANGED <<server, events, burnt, placed, channel, clientVars>>
      /\ pc' = "players" /\ i' = 0
  BY Zenon DEF BombsDone
<1>3. Types'
  <2>1. i' \in 0 .. PlayersCount + InitialBlocks
    BY <1>2, GameAssumption, SMT
  <2> QED BY <1>1, <1>2, <2>1, StillTyped, Zenon DEF Types
<1>4. TurnPhase' /\ InitPhase'
  BY <1>1, <1>2, GameAssumption, SMT DEF TurnPhase, InitPhase
<1> QED BY <1>3, <1>4, Zenon DEF ServerInv

\* The loop over the players, but for the bombs that they place.
PlayerStep ==
  \/ Respawns \/ PlacesBlock \/ DoesNothing \/ \E d \in Directions : Moves(d)

LEMMA LoopAdvances ==
  ASSUME ServerInv, PlayerStep \/ PlacesBomb
  PROVE  /\ pc = "players" /\ UNCHANGED <<pc, burnt, channel, clientVars>>
         /\ i \in Robots /\ i' = i + 1
         /\ i' \in 0 .. PlayersCount + InitialBlocks /\ i' <= PlayersCount
<1>1. /\ pc = "players" /\ UNCHANGED <<pc, burnt, channel, clientVars>>
      /\ i' = i + 1 /\ (i \in server.robots_hit \/ i \in Robots)
  BY Zenon DEF PlayerStep, Respawns, PlacesBlock, DoesNothing, Moves, PlacesBomb, MayAct
<1>2. server.robots_hit \in SUBSET Robots
  BY ServerFacts, Zenon DEF ServerInv
<1>3. i \in Robots
  BY <1>1, <1>2, Zenon
<1>4. i' \in 0 .. PlayersCount + InitialBlocks /\ i' <= PlayersCount
  BY <1>1, <1>3, GameAssumption, SMT DEF Robots
<1> QED BY <1>1, <1>3, <1>4, Zenon

LEMMA PlayerStepIs ==
  ASSUME ServerInv, PlayerStep
  PROVE  /\ UNCHANGED placed
         /\ \/ UNCHANGED <<server, events>>
            \/ \E p \in Fields : /\ server' = MoveRobot(server, i, p)
                                 /\ Emit(PlayerMoved(i, p))
            \/ \E p \in Fields : /\ server' = AddBlock(server, p)
                                 /\ Emit(BlockPlaced(p))
<1>1. CASE Respawns
  BY <1>1, Zenon DEF Respawns
<1>2. CASE PlacesBlock
  <2>1. server.positions[i] \in Fields
    BY LoopAdvances, ServerFacts, Zenon DEF ServerInv
  <2> QED BY <1>2, <2>1, Zenon DEF PlacesBlock
<1>3. CASE DoesNothing
  BY <1>3, Zenon DEF DoesNothing
<1>4. CASE \E d \in Directions : Moves(d)
  BY <1>4, Zenon DEF Moves, Legal
<1> QED BY <1>1, <1>2, <1>3, <1>4, Zenon DEF PlayerStep

LEMMA PlayerSteps ==
  ASSUME ServerInv, PlayerStep
  PROVE  ServerInv'
<1>1. Types /\ TurnPhase
  BY Zenon DEF ServerInv
<1>2. server' \in GamesWith(BombCount) /\ events' \in Seq(Events)
      /\ server'.turn = server.turn
  <2>0. events \in Seq(Events)
    BY <1>1, Zenon DEF Types
  <2>1. CASE UNCHANGED <<server, events>>
    BY <1>1, <2>1, Zenon DEF Types
  <2>2. ASSUME NEW p \in Fields, server' = MoveRobot(server, i, p), Emit(PlayerMoved(i, p))
        PROVE  server' \in GamesWith(BombCount) /\ events' \in Seq(Events)
               /\ server'.turn = server.turn
    <3>1. i \in Robots /\ PlayerMoved(i, p) \in Events
      BY LoopAdvances, AnEvent, Zenon
    <3>2. events' \in Seq(Events)
      BY <2>0, <2>2, <3>1, SMT DEF Emit
    <3>3. Is(server', [server.positions EXCEPT ![i] = p], server.blocks, server.bombs,
             server.scores, server.turn, server.robots_hit, server.blocks_hit,
             server.explosions)
      BY <1>1, <2>2, <3>1, ServerFacts, MoveRobotIs, Zenon
    <3>4. server' \in GamesWith(BombCount)
      BY <1>1, <3>3, ServerFacts, InGamesWith, Zenon
    <3> QED BY <3>2, <3>3, <3>4, Zenon DEF Is
  <2>3. ASSUME NEW p \in Fields, server' = AddBlock(server, p), Emit(BlockPlaced(p))
        PROVE  server' \in GamesWith(BombCount) /\ events' \in Seq(Events)
               /\ server'.turn = server.turn
    <3>1. BlockPlaced(p) \in Events
      BY AnEvent, Zenon
    <3>2. events' \in Seq(Events)
      BY <2>0, <2>3, <3>1, SMT DEF Emit
    <3>3. Is(server', server.positions, server.blocks \union {p}, server.bombs,
             server.scores, server.turn, server.robots_hit, server.blocks_hit,
             server.explosions)
      BY <1>1, <2>3, ServerFacts, AddBlockIs, Zenon
    <3>4. server' \in GamesWith(BombCount)
      BY <1>1, <3>3, ServerFacts, InGamesWith, Zenon
    <3> QED BY <3>2, <3>3, <3>4, Zenon DEF Is
  <2> QED BY <2>1, <2>2, <2>3, PlayerStepIs, Zenon
<1>3. Types'
  <2>1. UNCHANGED <<pc, burnt, channel, clientVars, placed>>
        /\ i' \in 0 .. PlayersCount + InitialBlocks
    BY LoopAdvances, PlayerStepIs, Zenon
  <2> QED BY <1>1, <1>2, <2>1, StillTyped, Zenon DEF Types
<1>4. TurnPhase' /\ InitPhase'
  <2>1. server.turn < GameLength /\ pc' = "players" /\ i' <= PlayersCount
    BY <1>1, LoopAdvances, Zenon DEF TurnPhase
  <2> QED BY <1>2, <2>1, Zenon DEF TurnPhase, InitPhase
<1> QED BY <1>3, <1>4, Zenon DEF ServerInv

LEMMA PlacesBombDoes ==
  ASSUME ServerInv, PlacesBomb
  PROVE  LET p == server.positions[i]
         IN  /\ BombCount \in Nat /\ p \in Fields
             /\ server' = AddBomb(server, BombCount, p)
             /\ Is(server', server.positions, server.blocks,
                   WithBomb(server.bombs, BombCount, p), server.scores, server.turn,
                   server.robots_hit, server.blocks_hit, server.explosions)
             /\ Emit(BombPlaced(BombCount, p))
             /\ placed' = [b \in DOMAIN placed \union {BombCount} |->
                             IF b = BombCount THEN server.turn + 1 ELSE placed[b]]
<1> DEFINE p == server.positions[i]
<1>1. Types /\ BombCount \in Nat
  BY Zenon DEF ServerInv, Types
<1>2. p \in Fields
  BY <1>1, LoopAdvances, ServerFacts, Zenon
<1>3. /\ server' = AddBomb(server, BombCount, p)
      /\ Emit(BombPlaced(BombCount, p))
      /\ placed' = [b \in DOMAIN placed \union {BombCount} |->
                      IF b = BombCount THEN server.turn + 1 ELSE placed[b]]
  BY Zenon DEF PlacesBomb, BombCount
<1>4. Is(server', server.positions, server.blocks, WithBomb(server.bombs, BombCount, p),
         server.scores, server.turn, server.robots_hit, server.blocks_hit,
         server.explosions)
  BY <1>1, <1>2, <1>3, ServerFacts, AddBombIs, Zenon
<1> QED BY <1>1, <1>2, <1>3, <1>4, Zenon

LEMMA PlacesBombCounts ==
  ASSUME ServerInv, PlacesBomb
  PROVE  /\ BombCount \in Nat /\ BombCount' = BombCount + 1
         /\ DOMAIN placed = 0 .. BombCount - 1 /\ DOMAIN placed' = 0 .. BombCount
         /\ placed' = [b \in DOMAIN placed' |-> placed'[b]]
         /\ placed'[BombCount] = server.turn + 1
         /\ \A b \in DOMAIN placed : placed'[b] = placed[b]
<1>1. BombCount \in Nat /\ DOMAIN placed = 0 .. BombCount - 1
  BY Zenon DEF ServerInv, Types
<1>2. placed' = [b \in DOMAIN placed \union {BombCount} |->
                  IF b = BombCount THEN server.turn + 1 ELSE placed[b]]
  BY PlacesBombDoes, Zenon
<1>3. DOMAIN placed \union {BombCount} = 0 .. BombCount
  BY <1>1, SMT
<1>4. placed' = [b \in 0 .. BombCount |->
                  IF b = BombCount THEN server.turn + 1 ELSE placed[b]]
  BY <1>2, <1>3, Zenon
<1>5. DOMAIN placed' = 0 .. BombCount
  BY <1>4, Zenon
<1>6. BombCount' = BombCount + 1
  <2>1. Cardinality(0 .. BombCount) = BombCount + 1
    BY <1>1, FS_Interval, SMT
  <2>2. BombCount' = Cardinality(DOMAIN placed')
    BY Zenon DEF BombCount
  <2> QED BY <1>5, <2>1, <2>2, Zenon
<1>7. placed' = [b \in DOMAIN placed' |-> placed'[b]]
  BY <1>4, SMT
<1>8. placed'[BombCount] = server.turn + 1
  BY <1>1, <1>4, SMT
<1>9. \A b \in DOMAIN placed : placed'[b] = placed[b]
  BY <1>1, <1>4, SMT
<1> QED BY <1>1, <1>5, <1>6, <1>7, <1>8, <1>9, Zenon

LEMMA PlacesBombStep ==
  ASSUME ServerInv, PlacesBomb
  PROVE  ServerInv'
<1> DEFINE p == server.positions[i]
<1>1. Types /\ TurnPhase
  BY Zenon DEF ServerInv
<1>2. /\ UNCHANGED <<pc, burnt, channel, clientVars>> /\ pc = "players"
      /\ i' \in 0 .. PlayersCount + InitialBlocks /\ i' <= PlayersCount
  BY LoopAdvances, Zenon
<1>3. /\ BombCount \in Nat
      /\ Is(server', server.positions, server.blocks, WithBomb(server.bombs, BombCount, p),
            server.scores, server.turn, server.robots_hit, server.blocks_hit,
            server.explosions)
      /\ BombPlaced(BombCount, p) \in Events /\ Emit(BombPlaced(BombCount, p))
  BY PlacesBombDoes, AnEvent, Zenon
<1>4. server' \in GamesWith(BombCount')
  <2>1. DOMAIN WithBomb(server.bombs, BombCount, p) \subseteq 0 .. BombCount' - 1
    <3>1. DOMAIN WithBomb(server.bombs, BombCount, p) = DOMAIN server.bombs \union {BombCount}
      BY Zenon DEF WithBomb
    <3>2. DOMAIN server.bombs \subseteq 0 .. BombCount - 1 /\ BombCount' = BombCount + 1
      BY <1>1, ServerFacts, PlacesBombCounts, Zenon
    <3> QED BY <1>3, <3>1, <3>2, SMT
  <2> QED BY <1>1, <1>3, <2>1, ServerFacts, InGamesWith, Zenon
<1>5. Types'
  <2>1. events' \in Seq(Events)
    <3>1. events \in Seq(Events)
      BY <1>1, Zenon DEF Types
    <3> QED BY <1>3, <3>1, SMT DEF Emit
  <2>2. BombCount' \in Nat /\ DOMAIN placed' = 0 .. BombCount' - 1
        /\ placed' = [b \in DOMAIN placed' |-> placed'[b]]
    <3>1. BombCount \in Nat /\ BombCount' = BombCount + 1
          /\ DOMAIN placed' = 0 .. BombCount
      BY PlacesBombCounts, Zenon
    <3>2. BombCount' \in Nat /\ 0 .. BombCount = 0 .. BombCount' - 1
      BY <3>1, SMT
    <3> QED BY <3>1, <3>2, PlacesBombCounts, Zenon
  <2>3. UNCHANGED <<pc, burnt, channel, todo, applying, expected>>
    BY <1>2, Zenon DEF clientVars
  <2> QED BY <1>1, <1>2, <1>4, <2>1, <2>2, <2>3, Zenon DEF Types
<1>6. TurnPhase' /\ InitPhase'
  <2>1. server.turn < GameLength /\ server'.turn = server.turn
    BY <1>1, <1>2, <1>3, Zenon DEF TurnPhase, Is
  <2> QED BY <1>2, <2>1, Zenon DEF TurnPhase, InitPhase
<1> QED BY <1>5, <1>6, Zenon DEF ServerInv

LEMMA TurnEndsDoes ==
  ASSUME ServerInv, TurnEnds
  PROVE  /\ Is(server', server.positions, server.blocks \ server.blocks_hit, server.bombs,
               Scored(server), server.turn + 1, server.robots_hit, server.blocks_hit,
               server.explosions)
         /\ server.turn \in Nat /\ server.turn + 1 <= GameLength
         /\ \A r \in Robots : Scored(server)[r] <= server.turn + 1
<1> DEFINE h == Closing(server)
<1>1. Types /\ server \in Games /\ server.turn \in Nat /\ server.turn < GameLength
  BY ServerFacts, Zenon DEF ServerInv, TurnPhase, TurnEnds
<1>2. Is(h, server.positions, server.blocks \ server.blocks_hit, server.bombs,
         Scored(server), server.turn, server.robots_hit, server.blocks_hit,
         server.explosions)
  BY <1>1, ClosingIs, Zenon
<1>3. h \in Games /\ h.turn = server.turn
  BY <1>2, Zenon DEF Is
<1>4. server' = [h EXCEPT !.turn = h.turn + 1]
  BY Zenon DEF TurnEnds, Closing
<1>5. server.turn + 1 \in Nat /\ server.turn + 1 <= GameLength
  BY <1>1, GameAssumption, SMT
<1>6. Is(server', h.positions, h.blocks, h.bombs, h.scores, server.turn + 1,
         h.robots_hit, h.blocks_hit, h.explosions)
  BY <1>3, <1>4, <1>5, SetTurn, Zenon
<1>7. \A r \in Robots : Scored(server)[r] <= server.turn + 1
  <2>1. server.scores \in [Robots -> Nat] /\ \A r \in Robots : server.scores[r] <= server.turn
    BY <1>1, ServerFacts, Zenon
  <2> QED BY <1>1, <2>1, SMT DEF Scored
<1> QED BY <1>1, <1>2, <1>5, <1>6, <1>7, Zenon DEF Is

LEMMA TurnEndsStep ==
  ASSUME ServerInv, TurnEnds
  PROVE  ServerInv'
<1>1. Types
  BY Zenon DEF ServerInv
<1>2. UNCHANGED <<i, burnt, placed, clientVars>> /\ Publish(server') /\ pc' = PcAfter(server')
  BY Zenon DEF TurnEnds
<1>3. pc' \in {"turn", "over"} /\ (pc' = "turn" => server'.turn < GameLength)
  BY <1>2, Zenon DEF PcAfter
<1>4. server' \in GamesWith(BombCount) /\ server' \in Games
  BY <1>1, TurnEndsDoes, ServerFacts, InGamesWith, Zenon DEF Is
<1>5. Types'
  <2>1. channel' \in Seq(Messages) /\ Len(channel') <= MaxLag /\ events' \in Seq(Events)
    BY <1>1, <1>2, <1>4, PublishTyped, Zenon
  <2>2. pc' \in {"init", "turn", "bombs", "players", "over"}
    BY <1>3, Zenon
  <2> QED BY <1>1, <1>2, <1>4, <2>1, <2>2, StillTyped, Zenon DEF Types
<1>6. InitPhase' /\ TurnPhase'
  BY <1>3, SMT DEF InitPhase, TurnPhase
<1> QED BY <1>5, <1>6, Zenon DEF ServerInv

LEMMA ClientStepTypes ==
  ASSUME ServerInv, ClientSteps
  PROVE  ServerInv'
<1>1. Types /\ InitPhase /\ TurnPhase
  BY Zenon DEF ServerInv
<1>2. UNCHANGED <<server, pc, i, events, burnt, placed>>
  BY Zenon DEF ClientSteps, ClientBegins, ClientApplies, ClientEnds, serverVars
<1>3. BombCount' = BombCount
  BY <1>2, Zenon DEF BombCount
<1>4. channel \in Seq(Messages) /\ todo \in Seq(Events) /\ Len(channel) <= MaxLag
      /\ expected \in [after : Games, burnt : SUBSET Fields]
  BY <1>1, Zenon DEF Types
<1>5. /\ channel' \in Seq(Messages) /\ Len(channel') <= MaxLag
      /\ todo' \in Seq(Events)
      /\ expected' \in [after : Games, burnt : SUBSET Fields]
  <2>1. CASE ClientBegins
    <3>1. /\ channel # <<>> /\ channel' = Tail(channel) /\ todo' = Head(channel).events
          /\ expected' = [after |-> Head(channel).after, burnt |-> Head(channel).burnt]
      BY <2>1, Zenon DEF ClientBegins
    <3>2. Head(channel) \in Messages /\ Tail(channel) \in Seq(Messages)
          /\ Len(Tail(channel)) <= MaxLag
      BY <1>4, <3>1, GameAssumption, SMT
    <3>3. Head(channel).events \in Seq(Events) /\ Head(channel).after \in Games
          /\ Head(channel).burnt \in SUBSET Fields
      BY <3>2, Zenon DEF Messages
    <3>4. [after |-> Head(channel).after, burnt |-> Head(channel).burnt]
            \in [after : Games, burnt : SUBSET Fields]
      BY <3>3, SMT
    <3> QED BY <3>1, <3>2, <3>3, <3>4, Zenon
  <2>2. CASE ClientApplies
    BY <1>4, <2>2, SMT DEF ClientApplies
  <2>3. CASE ClientEnds
    BY <1>4, <2>3, Zenon DEF ClientEnds
  <2> QED BY <2>1, <2>2, <2>3, Zenon DEF ClientSteps
<1>6. applying' \in BOOLEAN
  <2>1. applying \in BOOLEAN
    BY <1>1, Zenon DEF Types
  <2> QED BY <2>1, Zenon DEF ClientSteps, ClientBegins, ClientApplies, ClientEnds
<1>7. Types'
  BY <1>1, <1>2, <1>3, <1>5, <1>6, Zenon DEF Types
<1> QED BY <1>1, <1>2, <1>7, Zenon DEF ServerInv, InitPhase, TurnPhase

LEMMA ServerStep ==
  ASSUME ServerInv, [Next]_vars
  PROVE  ServerInv'
<1>1. CASE UNCHANGED vars
  <2>1. UNCHANGED <<server, pc, i, events, burnt, placed, channel, todo, applying, expected>>
    BY <1>1, Zenon DEF vars, serverVars, clientVars
  <2>2. BombCount' = BombCount
    BY <2>1, Zenon DEF BombCount
  <2> QED BY <2>1, <2>2, Zenon DEF ServerInv, Types, InitPhase, TurnPhase
<1>2. CASE ServerSteps
  BY <1>2, InitSteps, InitDoneStep, TurnBeginsStep, BombExplodesStep, BombsDoneStep,
     PlayerSteps, PlacesBombStep, TurnEndsStep, Zenon DEF ServerSteps, PlayerStep
<1>3. CASE ClientSteps
  BY <1>3, ClientStepTypes, Zenon
<1> QED BY <1>1, <1>2, <1>3, Zenon DEF Next

LEMMA ServerInvariance == Spec => []ServerInv
<1>1. ServerInv /\ [Next]_vars => ServerInv'
  BY ServerStep, Zenon
<1> QED BY <1>1, ServerInit, PTL DEF Spec
-----------------------------------------------------------------------------
(* Explosions                                                              *)

LEMMA HitsInit == Init => HitsAreFair
BY Zenon DEF Init, HitsAreFair

LEMMA HitsStep ==
  ASSUME ServerInv, HitsAreFair, [Next]_vars
  PROVE  HitsAreFair'
<1>1. CASE TurnBegins
  <2>1. server'.robots_hit = {} /\ server'.blocks_hit = {} /\ burnt' = {}
    BY <1>1, ServerFacts, BeginTurnIs, Zenon DEF TurnBegins, Is, ServerInv
  <2> QED BY <2>1, SMT DEF HitsAreFair
<1>2. ASSUME NEW id, BombExplodes(id)
      PROVE  HitsAreFair'
  <2> DEFINE area == AreaOf(id)
  <2>1. /\ server'.positions = server.positions /\ server'.blocks = server.blocks
        /\ server'.robots_hit = server.robots_hit \union RobotsIn(area)
        /\ server'.blocks_hit = server.blocks_hit \union BlocksIn(area)
        /\ burnt' = burnt \union area
    BY <1>2, BombExplodesDoes, Zenon DEF Is
  <2>2. /\ server.robots_hit = {r \in Robots : server.positions[r] \in burnt}
        /\ server.blocks_hit = server.blocks \intersect burnt
    BY <1>2, Zenon DEF HitsAreFair, BombExplodes
  <2> HIDE DEF area
  <2>3. server'.robots_hit = {r \in Robots : server'.positions[r] \in burnt'}
    <3>1. server.robots_hit \union RobotsIn(area)
            = {r \in Robots : server.positions[r] \in burnt \union area}
      BY <2>2, Zenon DEF RobotsIn
    <3> QED BY <2>1, <3>1, Zenon
  <2>4. server'.blocks_hit = server'.blocks \intersect burnt'
    <3>1. server.blocks_hit \union BlocksIn(area) = server.blocks \intersect (burnt \union area)
      BY <2>2, Zenon DEF BlocksIn
    <3> QED BY <2>1, <3>1, Zenon
  <2> QED BY <2>3, <2>4, Zenon DEF HitsAreFair
<1>3. CASE ClientSteps \/ UNCHANGED vars
  <2>1. UNCHANGED <<server, pc, burnt>>
    BY <1>3, Zenon DEF ClientSteps, ClientBegins, ClientApplies, ClientEnds, serverVars, vars
  <2> QED BY <2>1, Zenon DEF HitsAreFair
<1>4. CASE InitRobot \/ InitBlock \/ InitDone \/ BombsDone \/ PlayerStep \/ PlacesBomb
           \/ TurnEnds
  <2>1. pc' # "bombs"
    BY <1>4, LoopAdvances, Zenon DEF InitRobot, InitBlock, InitDone, BombsDone, TurnEnds,
       PcAfter
  <2> QED BY <2>1, Zenon DEF HitsAreFair
<1> QED BY <1>1, <1>2, <1>3, <1>4, Zenon DEF Next, ServerSteps, PlayerStep

\* In whatever order the bombs of a turn are visited, what they destroy are the robots
\* and the blocks on the fields they hit (GameServer::handle_exploding_bomb).
THEOREM FairHits == Spec => []HitsAreFair
<1>1. ServerInv /\ HitsAreFair /\ [Next]_vars => HitsAreFair'
  BY HitsStep, Zenon
<1> QED BY <1>1, HitsInit, ServerInvariance, PTL DEF Spec

-----------------------------------------------------------------------------
(* Fuses                                                                   *)

TurnsBegun == IF InTurn THEN server.turn + 1 ELSE server.turn

\* The turns that have begun since a bomb was placed.
Age(id) == TurnsBegun - placed[id]

TimerAt(age) == IF age = 0 THEN BombTimer ELSE Fuse - age

\* A timer tells the age of its bomb, and none is older than its fuse.
FuseInv ==
  \A id \in DOMAIN server.bombs :
    /\ placed[id] \in Nat
    /\ Age(id) \in 0 .. Fuse
    /\ pc = "bombs" => Age(id) >= 1
    /\ pc # "bombs" => Age(id) < Fuse
    /\ server.bombs[id].timer = TimerAt(Age(id))

LEMMA FuseIs == Fuse \in 1 .. TimerMod /\ BombTimer \in 0 .. TimerMod - 1 /\ TimerMod \in Nat
BY GameAssumption, SMT DEF Fuse

LEMMA TimerDecreases ==
  ASSUME NEW age \in 0 .. Fuse - 1
  PROVE  (TimerAt(age) - 1) % TimerMod = TimerAt(age + 1)
<1>1. \A x \in 0 .. TimerMod - 1 : (x - 1) % TimerMod = IF x = 0 THEN TimerMod - 1 ELSE x - 1
  BY FuseIs, SMT
<1>2. TimerAt(age) \in 0 .. TimerMod - 1
  BY FuseIs, SMT DEF TimerAt
<1> QED BY <1>1, <1>2, FuseIs, SMT DEF TimerAt, Fuse

LEMMA TurnsBegunIs ==
  /\ pc \in {"bombs", "players"} => TurnsBegun = server.turn + 1
  /\ pc \in {"turn", "over", "init"} => TurnsBegun = server.turn
BY Zenon DEF TurnsBegun, InTurn

LEMMA FuseInit == Init => FuseInv
<1> SUFFICES ASSUME Init
             PROVE  FuseInv
  OBVIOUS
<1>1. DOMAIN server.bombs = {}
  BY NewGameIs, Zenon DEF Init, Is
<1> QED BY <1>1, Zenon DEF FuseInv

LEMMA FuseTurnBegins ==
  ASSUME ServerInv, FuseInv, TurnBegins
  PROVE  FuseInv'
<1>1. /\ pc = "turn" /\ pc' = "bombs" /\ UNCHANGED placed
      /\ server'.bombs = Ticked(server.bombs) /\ server'.turn = server.turn
      /\ server.turn \in Nat /\ server.bombs \in BombMaps
  BY ServerFacts, BeginTurnIs, Zenon DEF TurnBegins, Is, ServerInv
<1>2. DOMAIN server'.bombs = DOMAIN server.bombs
  BY <1>1, Zenon DEF Ticked
<1> SUFFICES ASSUME NEW id \in DOMAIN server.bombs
             PROVE  /\ placed'[id] \in Nat /\ Age(id)' \in 1 .. Fuse
                    /\ server'.bombs[id].timer = TimerAt(Age(id)')
  <2>1. \A n \in 1 .. Fuse : n \in 0 .. Fuse /\ n >= 1
    BY FuseIs, SMT
  <2> QED BY <1>1, <1>2, <2>1, Zenon DEF FuseInv
<1>3. placed[id] \in Nat /\ Age(id) \in 0 .. Fuse /\ Age(id) < Fuse
      /\ server.bombs[id].timer = TimerAt(Age(id))
  BY <1>1, Zenon DEF FuseInv
<1>4. /\ TurnsBegun = server.turn /\ TurnsBegun' = server.turn + 1
      /\ Age(id) = TurnsBegun - placed[id] /\ Age(id)' = TurnsBegun' - placed[id]
  BY <1>1, Zenon DEF TurnsBegun, InTurn, Age
<1>5. Age(id)' = Age(id) + 1 /\ Age(id) \in 0 .. Fuse - 1 /\ Age(id) + 1 \in 1 .. Fuse
  BY <1>1, <1>3, <1>4, FuseIs, SMT
<1>6. server'.bombs[id].timer = (server.bombs[id].timer - 1) % TimerMod
  BY <1>1, TickedIs, Zenon
<1>7. server'.bombs[id].timer = TimerAt(Age(id) + 1)
  BY <1>3, <1>5, <1>6, TimerDecreases, Zenon
<1> QED BY <1>1, <1>3, <1>5, <1>7, Zenon

LEMMA FuseBombExplodes ==
  ASSUME ServerInv, FuseInv, NEW k, BombExplodes(k)
  PROVE  FuseInv'
<1>1. /\ pc = "bombs" /\ pc' = "bombs" /\ UNCHANGED placed
      /\ server'.bombs = WithoutBomb(server.bombs, k) /\ server'.turn = server.turn
  BY BombExplodesDoes, Zenon DEF BombExplodes, Is
<1>2. \A id \in DOMAIN server'.bombs :
        id \in DOMAIN server.bombs /\ server'.bombs[id] = server.bombs[id]
  <2>1. \A id \in DOMAIN WithoutBomb(server.bombs, k) :
          id \in DOMAIN server.bombs /\ WithoutBomb(server.bombs, k)[id] = server.bombs[id]
    BY SMT DEF WithoutBomb
  <2> QED BY <1>1, <2>1, Zenon
<1>3. \A id : Age(id)' = Age(id)
  BY <1>1, Zenon DEF Age, TurnsBegun, InTurn
<1> QED BY <1>1, <1>2, <1>3, Zenon DEF FuseInv

LEMMA FuseBombsDone ==
  ASSUME ServerInv, FuseInv, BombsDone
  PROVE  FuseInv'
<1>1. /\ pc = "bombs" /\ pc' = "players" /\ UNCHANGED <<server, placed>>
      /\ \A id \in DOMAIN server.bombs : server.bombs[id].timer # 0
  BY Zenon DEF BombsDone
<1>2. \A id : Age(id)' = Age(id)
  BY <1>1, Zenon DEF Age, TurnsBegun, InTurn
<1>3. \A id \in DOMAIN server.bombs : Age(id) < Fuse
  <2> SUFFICES ASSUME NEW id \in DOMAIN server.bombs
               PROVE  Age(id) < Fuse
    OBVIOUS
  <2>1. Age(id) \in 0 .. Fuse /\ Age(id) >= 1 /\ TimerAt(Age(id)) # 0
    BY <1>1, Zenon DEF FuseInv
  <2> QED BY <2>1, FuseIs, SMT DEF TimerAt
<1> QED BY <1>1, <1>2, <1>3, Zenon DEF FuseInv

\* The bombs and the turn stay as they are.
LEMMA FuseKeeps ==
  ASSUME FuseInv, UNCHANGED <<pc, placed>>, server'.bombs = server.bombs,
         server'.turn = server.turn
  PROVE  FuseInv'
<1>1. \A id : Age(id)' = Age(id)
  BY Zenon DEF Age, TurnsBegun, InTurn
<1> QED BY <1>1, Zenon DEF FuseInv

LEMMA PlayerStepKeeps ==
  ASSUME ServerInv, PlayerStep
  PROVE  server'.bombs = server.bombs /\ server'.turn = server.turn
<1>1. server \in Games /\ i \in Robots
  BY LoopAdvances, ServerFacts, Zenon DEF ServerInv
<1>2. CASE UNCHANGED <<server, events>>
  BY <1>2, Zenon
<1>3. ASSUME NEW p \in Fields, server' = MoveRobot(server, i, p)
      PROVE  server'.bombs = server.bombs /\ server'.turn = server.turn
  BY <1>1, <1>3, MoveRobotIs, Zenon DEF Is
<1>4. ASSUME NEW p \in Fields, server' = AddBlock(server, p)
      PROVE  server'.bombs = server.bombs /\ server'.turn = server.turn
  BY <1>1, <1>4, AddBlockIs, Zenon DEF Is
<1> QED BY <1>2, <1>3, <1>4, PlayerStepIs, Zenon

LEMMA FusePlacesBomb ==
  ASSUME ServerInv, FuseInv, PlacesBomb
  PROVE  FuseInv'
<1>0. PICK n, p : n = BombCount /\ p = server.positions[i]
  OBVIOUS
<1>1. /\ pc = "players" /\ pc' = "players" /\ server'.turn = server.turn
      /\ server'.bombs = WithBomb(server.bombs, n, p)
      /\ DOMAIN server.bombs \subseteq 0 .. n - 1 /\ server.turn \in Nat
  BY <1>0, LoopAdvances, PlacesBombDoes, ServerFacts, Zenon DEF Is, ServerInv
<1>2. /\ n \in Nat /\ DOMAIN placed = 0 .. n - 1 /\ placed'[n] = server.turn + 1
      /\ \A b \in DOMAIN placed : placed'[b] = placed[b]
  BY <1>0, PlacesBombCounts, Zenon
<1>3. /\ DOMAIN server'.bombs = DOMAIN server.bombs \union {n} /\ n \notin DOMAIN server.bombs
      /\ server'.bombs[n].timer = BombTimer
      /\ \A id \in DOMAIN server.bombs : server'.bombs[id] = server.bombs[id]
  <2>1. n \notin DOMAIN server.bombs
    BY <1>1, <1>2, SMT
  <2>2. DOMAIN WithBomb(server.bombs, n, p) = DOMAIN server.bombs \union {n}
    BY Zenon DEF WithBomb
  <2>3. WithBomb(server.bombs, n, p)[n] = [position |-> p, timer |-> BombTimer]
    BY SMT DEF WithBomb
  <2>4. \A id \in DOMAIN server.bombs : WithBomb(server.bombs, n, p)[id] = server.bombs[id]
    BY <2>1, SMT DEF WithBomb
  <2> QED BY <1>1, <2>1, <2>2, <2>3, <2>4, SMT
<1>4. /\ placed'[n] \in Nat /\ Age(n)' = 0 /\ 0 \in 0 .. Fuse /\ 0 < Fuse
      /\ server'.bombs[n].timer = TimerAt(0)
  <2>1. Age(n)' = TurnsBegun' - placed'[n] /\ TurnsBegun' = server'.turn + 1
    BY <1>1, Zenon DEF InTurn, TurnsBegun, Age
  <2> QED BY <1>1, <1>2, <1>3, <2>1, FuseIs, SMT DEF TimerAt
<1>5. \A id \in DOMAIN server.bombs : placed'[id] = placed[id] /\ Age(id)' = Age(id)
  <2>1. \A id \in DOMAIN server.bombs : placed'[id] = placed[id]
    BY <1>1, <1>2, Zenon
  <2> QED BY <1>1, <2>1, Zenon DEF Age, TurnsBegun, InTurn
<1>6. \A id \in DOMAIN server.bombs :
        /\ placed'[id] \in Nat /\ Age(id)' \in 0 .. Fuse /\ Age(id)' < Fuse
        /\ server'.bombs[id].timer = TimerAt(Age(id)')
  BY <1>1, <1>3, <1>5, Zenon DEF FuseInv
<1>7. /\ placed'[n] \in Nat /\ Age(n)' \in 0 .. Fuse /\ Age(n)' < Fuse
      /\ server'.bombs[n].timer = TimerAt(Age(n)')
  BY <1>4, Zenon
<1> QED BY <1>1, <1>3, <1>6, <1>7, Zenon DEF FuseInv

LEMMA FuseTurnEnds ==
  ASSUME ServerInv, FuseInv, TurnEnds
  PROVE  FuseInv'
<1>1. /\ pc = "players" /\ pc' \in {"turn", "over"} /\ UNCHANGED placed
      /\ server'.bombs = server.bombs /\ server'.turn = server.turn + 1
  BY TurnEndsDoes, Zenon DEF TurnEnds, PcAfter, Is
<1>2. \A id : Age(id)' = Age(id)
  BY <1>1, Zenon DEF Age, TurnsBegun, InTurn
<1> QED BY <1>1, <1>2, Zenon DEF FuseInv

LEMMA FuseStep ==
  ASSUME ServerInv, FuseInv, [Next]_vars
  PROVE  FuseInv'
<1>1. CASE ClientSteps \/ UNCHANGED vars
  <2>1. UNCHANGED <<server, pc, placed>>
    BY <1>1, Zenon DEF ClientSteps, ClientBegins, ClientApplies, ClientEnds, serverVars, vars
  <2> QED BY <2>1, FuseKeeps, Zenon
<1>2. CASE InitRobot \/ InitBlock \/ InitDone
  <2>1. pc = "init" /\ ServerInv'
    BY <1>2, InitSteps, InitDoneStep, Zenon DEF InitRobot, InitBlock, InitDone
  <2>2. DOMAIN server'.bombs = {}
    <3>1. CASE InitDone
      BY <2>1, <3>1, Zenon DEF ServerInv, InitPhase, InitDone
    <3>2. CASE InitRobot \/ InitBlock
      BY <2>1, <3>2, Zenon DEF ServerInv, InitPhase, InitRobot, InitBlock
    <3> QED BY <1>2, <3>1, <3>2
  <2> QED BY <2>2, Zenon DEF FuseInv
<1>3. CASE PlayerStep
  BY <1>3, PlayerStepKeeps, PlayerStepIs, LoopAdvances, FuseKeeps, Zenon
<1> QED BY <1>1, <1>2, <1>3, FuseTurnBegins, FuseBombExplodes, FuseBombsDone,
           FusePlacesBomb, FuseTurnEnds, Zenon DEF Next, ServerSteps, PlayerStep

LEMMA FuseInvariance == Spec => []FuseInv
<1>1. ServerInv /\ FuseInv /\ [Next]_vars => FuseInv'
  BY FuseStep, Zenon
<1> QED BY <1>1, FuseInit, ServerInvariance, PTL DEF Spec

\* What ExplodesOnTime says of a step.
OnTime ==
  \A id \in DOMAIN server.bombs :
    LET due == placed[id] + Fuse
    IN  IF id \in DOMAIN server'.bombs
        THEN server'.turn > server.turn => server'.turn < due
        ELSE server.turn + 1 = due

LEMMA OnTimeKeeps ==
  ASSUME ServerInv, DOMAIN server.bombs \subseteq DOMAIN server'.bombs,
         server'.turn = server.turn
  PROVE  OnTime
<1>1. ~(server'.turn > server.turn)
  <2>1. server.turn \in Nat
    BY ServerFacts, Zenon DEF ServerInv
  <2> QED BY <2>1, SMT
<1> QED BY <1>1, Zenon DEF OnTime

LEMMA StepIsOnTime ==
  ASSUME ServerInv, FuseInv, [Next]_vars
  PROVE  OnTime
<1>1. CASE ClientSteps \/ UNCHANGED vars
  <2>1. UNCHANGED server
    BY <1>1, Zenon DEF ClientSteps, ClientBegins, ClientApplies, ClientEnds, serverVars, vars
  <2> QED BY <2>1, OnTimeKeeps, Zenon
<1>2. CASE InitRobot \/ InitBlock
  <2>1. DOMAIN server.bombs = {}
    BY <1>2, Zenon DEF ServerInv, InitPhase, InitRobot, InitBlock
  <2> QED BY <2>1, Zenon DEF OnTime
<1>3. CASE InitDone \/ BombsDone
  BY <1>3, OnTimeKeeps, Zenon DEF InitDone, BombsDone
<1>4. CASE TurnBegins
  <2>1. server'.bombs = Ticked(server.bombs) /\ server'.turn = server.turn
    BY <1>4, ServerFacts, BeginTurnIs, Zenon DEF TurnBegins, Is, ServerInv
  <2>2. DOMAIN server'.bombs = DOMAIN server.bombs
    BY <2>1, Zenon DEF Ticked
  <2> QED BY <2>1, <2>2, OnTimeKeeps, Zenon
<1>5. CASE PlayerStep
  BY <1>5, PlayerStepKeeps, OnTimeKeeps, Zenon
<1>6. CASE PlacesBomb
  <2>1. /\ server'.bombs = WithBomb(server.bombs, BombCount, server.positions[i])
        /\ server'.turn = server.turn
    BY <1>6, PlacesBombDoes, Zenon DEF Is
  <2>2. DOMAIN server.bombs \subseteq DOMAIN server'.bombs
    BY <2>1, Zenon DEF WithBomb
  <2> QED BY <2>1, <2>2, OnTimeKeeps, Zenon
<1>7. ASSUME NEW k, BombExplodes(k)
      PROVE  OnTime
  <2>1. /\ pc = "bombs" /\ server.bombs[k].timer = 0 /\ k \in DOMAIN server.bombs
        /\ server'.bombs = WithoutBomb(server.bombs, k) /\ server'.turn = server.turn
        /\ server.turn \in Nat
    BY <1>7, BombExplodesDoes, ServerFacts, Zenon DEF BombExplodes, Is, ServerInv
  <2>2. ~(server'.turn > server.turn)
    BY <2>1, SMT
  <2>3. server.turn + 1 = placed[k] + Fuse
    <3>1. placed[k] \in Nat /\ Age(k) \in 0 .. Fuse /\ Age(k) >= 1 /\ TimerAt(Age(k)) = 0
      BY <2>1, Zenon DEF FuseInv
    <3>2. Age(k) = TurnsBegun - placed[k] /\ TurnsBegun = server.turn + 1
      BY <2>1, TurnsBegunIs, Zenon DEF Age
    <3> QED BY <2>1, <3>1, <3>2, FuseIs, SMT DEF TimerAt
  <2>4. \A id \in DOMAIN server.bombs : id \notin DOMAIN server'.bombs => id = k
    <3>1. DOMAIN WithoutBomb(server.bombs, k) = DOMAIN server.bombs \ {k}
      BY Zenon DEF WithoutBomb
    <3> QED BY <2>1, <3>1, Zenon
  <2> QED BY <2>2, <2>3, <2>4, Zenon DEF OnTime
<1>8. CASE TurnEnds
  <2>1. /\ pc = "players" /\ server'.bombs = server.bombs /\ server'.turn = server.turn + 1
        /\ server.turn \in Nat
    BY <1>8, TurnEndsDoes, Zenon DEF TurnEnds, Is
  <2>2. \A id \in DOMAIN server.bombs : server'.turn < placed[id] + Fuse
    <3> SUFFICES ASSUME NEW id \in DOMAIN server.bombs
                 PROVE  server'.turn < placed[id] + Fuse
      OBVIOUS
    <3>1. placed[id] \in Nat /\ Age(id) < Fuse
      BY <2>1, Zenon DEF FuseInv
    <3>2. Age(id) = TurnsBegun - placed[id] /\ TurnsBegun = server.turn + 1
      BY <2>1, TurnsBegunIs, Zenon DEF Age
    <3> QED BY <2>1, <3>1, <3>2, FuseIs, SMT
  <2> QED BY <2>1, <2>2, Zenon DEF OnTime
<1> QED BY <1>1, <1>2, <1>3, <1>4, <1>5, <1>6, <1>7, <1>8, Zenon
        DEF Next, ServerSteps, PlayerStep

\* A bomb explodes in the turn its fuse has burnt down, whatever bomb_timer is, and in
\* no other (Game::decrease_bomb_timers, GameServer::apply_moves).
THEOREM BombsExplodeOnTime == Spec => ExplodesOnTime
<1>1. ServerInv /\ FuseInv /\ [Next]_vars => [OnTime]_vars
  BY StepIsOnTime, Zenon
<1> QED BY <1>1, ServerInvariance, FuseInvariance, PTL DEF Spec, ExplodesOnTime, OnTime
-----------------------------------------------------------------------------
(* Replaying events                                                        *)

\* The events turn g into h, and all games between them are in S.
Replays(S, g, es, h) ==
  \E gs : /\ gs[0] = g /\ gs[Len(es)] = h
          /\ \A k \in 0 .. Len(es) : gs[k] \in S
          /\ \A k \in 1 .. Len(es) : gs[k] = ApplyEvent(gs[k - 1], es[k])

LEMMA ReplayNothing ==
  ASSUME NEW S, NEW g, NEW h
  PROVE  /\ g \in S => Replays(S, g, <<>>, g)
         /\ Replays(S, g, <<>>, h) => g = h /\ g \in S
<1>1. Len(<<>>) = 0 /\ 0 .. 0 = {0} /\ 1 .. 0 = {}
  BY SMT
<1>2. ASSUME g \in S
      PROVE  Replays(S, g, <<>>, g)
  <2> DEFINE gs == [k \in {0} |-> g]
  <2>1. gs[0] = g
    BY SMT
  <2> HIDE DEF gs
  <2> QED BY <1>1, <1>2, <2>1, Zenon DEF Replays
<1>3. ASSUME Replays(S, g, <<>>, h)
      PROVE  g = h /\ g \in S
  BY <1>1, <1>3, Zenon DEF Replays
<1> QED BY <1>2, <1>3, Zenon

LEMMA ReplayMore ==
  ASSUME NEW S, NEW T, NEW g, NEW h, NEW h2 \in T, NEW es \in Seq(Events), NEW e \in Events,
         S \subseteq T, Replays(S, g, es, h), h2 = ApplyEvent(h, e)
  PROVE  Replays(T, g, Append(es, e), h2)
<1> DEFINE n == Len(es)
           more == Append(es, e)
<1>1. n \in Nat /\ Len(more) = n + 1 /\ more[n + 1] = e
      /\ \A k \in 1 .. n : more[k] = es[k]
  BY SMT
<1>2. PICK gs : /\ gs[0] = g /\ gs[n] = h
                /\ \A k \in 0 .. n : gs[k] \in S
                /\ \A k \in 1 .. n : gs[k] = ApplyEvent(gs[k - 1], es[k])
  BY Zenon DEF Replays
<1> DEFINE hs == [k \in 0 .. n + 1 |-> IF k = n + 1 THEN h2 ELSE gs[k]]
<1> HIDE DEF n, more
<1>3. hs[n + 1] = h2 /\ (\A k \in 0 .. n : hs[k] = gs[k]) /\ 0 \in 0 .. n /\ n \in 0 .. n
  BY <1>1, SMT
<1> HIDE DEF hs
<1>4. hs[0] = g /\ hs[Len(more)] = h2
  BY <1>1, <1>2, <1>3, Zenon
<1>5. \A k \in 0 .. Len(more) : hs[k] \in T
  <2>1. \A k \in 0 .. n : hs[k] \in T
    BY <1>2, <1>3, Zenon
  <2>2. \A k \in 0 .. Len(more) : k \in 0 .. n \/ k = n + 1
    BY <1>1, SMT
  <2> QED BY <1>3, <2>1, <2>2, Zenon
<1>6. \A k \in 1 .. Len(more) : hs[k] = ApplyEvent(hs[k - 1], more[k])
  <2>1. \A k \in 1 .. n : k - 1 \in 0 .. n /\ k \in 0 .. n
    BY <1>1, SMT
  <2>2. \A k \in 1 .. n : hs[k] = ApplyEvent(hs[k - 1], more[k])
    BY <1>1, <1>2, <1>3, <2>1, Zenon
  <2>3. hs[n + 1] = ApplyEvent(hs[n], more[n + 1])
    BY <1>1, <1>2, <1>3, Zenon
  <2>4. \A k \in 1 .. Len(more) : k \in 1 .. n \/ (k = n + 1 /\ k - 1 = n)
    BY <1>1, SMT
  <2> QED BY <2>2, <2>3, <2>4, Zenon
<1> QED BY <1>4, <1>5, <1>6, Zenon DEF Replays, more

LEMMA ReplayRest ==
  ASSUME NEW S, NEW g, NEW h, NEW es \in Seq(Events), es # <<>>, Replays(S, g, es, h)
  PROVE  Replays(S, ApplyEvent(g, Head(es)), Tail(es), h)
<1> DEFINE n == Len(es)
           rest == Tail(es)
<1>1. n \in Nat \ {0} /\ Len(rest) = n - 1 /\ Head(es) = es[1]
      /\ \A k \in 1 .. n - 1 : rest[k] = es[k + 1]
  BY SMT
<1>2. PICK gs : /\ gs[0] = g /\ gs[n] = h
                /\ \A k \in 0 .. n : gs[k] \in S
                /\ \A k \in 1 .. n : gs[k] = ApplyEvent(gs[k - 1], es[k])
  BY Zenon DEF Replays
<1> DEFINE hs == [k \in 0 .. n - 1 |-> gs[k + 1]]
<1> HIDE DEF n, rest
<1>3. \A k \in 0 .. n - 1 : hs[k] = gs[k + 1] /\ k + 1 \in 0 .. n
  BY <1>1, SMT
<1> HIDE DEF hs
<1>4. hs[0] = ApplyEvent(g, Head(es)) /\ hs[Len(rest)] = h
  <2>1. 0 \in 0 .. n - 1 /\ n - 1 \in 0 .. n - 1 /\ 0 + 1 = 1 /\ n - 1 + 1 = n
        /\ 1 \in 1 .. n /\ 1 - 1 = 0
    BY <1>1, SMT
  <2>2. hs[0] = gs[1] /\ hs[n - 1] = gs[n]
    BY <1>3, <2>1, Zenon
  <2>3. gs[1] = ApplyEvent(gs[0], es[1])
    BY <1>2, <2>1, Zenon
  <2> QED BY <1>1, <1>2, <2>2, <2>3, Zenon
<1>5. \A k \in 0 .. Len(rest) : hs[k] \in S
  BY <1>1, <1>2, <1>3, Zenon
<1>6. \A k \in 1 .. Len(rest) : hs[k] = ApplyEvent(hs[k - 1], rest[k])
  <2> SUFFICES ASSUME NEW k \in 1 .. n - 1
               PROVE  hs[k] = ApplyEvent(hs[k - 1], rest[k])
    BY <1>1, Zenon
  <2>1. k \in 0 .. n - 1 /\ k - 1 \in 0 .. n - 1 /\ k + 1 \in 1 .. n
        /\ k - 1 + 1 = k /\ k + 1 - 1 = k
    BY <1>1, SMT
  <2>2. hs[k] = gs[k + 1] /\ hs[k - 1] = gs[k]
    BY <1>3, <2>1, Zenon
  <2>3. gs[k + 1] = ApplyEvent(gs[k], es[k + 1])
    <3>1. PICK j : j = k + 1
      OBVIOUS
    <3>2. j \in 1 .. n /\ j - 1 = k
      BY <1>1, <3>1, SMT
    <3>3. gs[j] = ApplyEvent(gs[k], es[j])
      BY <1>2, <3>2, Zenon
    <3> QED BY <3>1, <3>3, Zenon
  <2> QED BY <1>1, <2>2, <2>3, Zenon
<1> QED BY <1>4, <1>5, <1>6, Zenon DEF Replays, rest

LEMMA ReplayWiden ==
  ASSUME NEW S, NEW T, NEW g, NEW h, NEW es, S \subseteq T, Replays(S, g, es, h)
  PROVE  Replays(T, g, es, h)
<1>1. PICK gs : /\ gs[0] = g /\ gs[Len(es)] = h
                /\ \A k \in 0 .. Len(es) : gs[k] \in S
                /\ \A k \in 1 .. Len(es) : gs[k] = ApplyEvent(gs[k - 1], es[k])
  BY Zenon DEF Replays
<1>2. \A k \in 0 .. Len(es) : gs[k] \in T
  BY <1>1, Zenon
<1> QED BY <1>1, <1>2, Zenon DEF Replays
-----------------------------------------------------------------------------
(* An event does to the client's game what the server did to its own       *)

LEMMA Applied ==
  ASSUME NEW g \in Games
  PROVE  /\ \A id, p : ApplyEvent(g, BombPlaced(id, p)) = AddBomb(g, id, p)
         /\ \A r, p : ApplyEvent(g, PlayerMoved(r, p)) = MoveRobot(g, r, p)
         /\ \A p : ApplyEvent(g, BlockPlaced(p)) = AddBlock(g, p)
<1>1. \A id, p : ApplyEvent(g, BombPlaced(id, p)) = AddBomb(g, id, p)
  BY SMT DEF ApplyEvent, BombPlaced
<1>2. \A r, p : ApplyEvent(g, PlayerMoved(r, p)) = MoveRobot(g, r, p)
  BY SMT DEF ApplyEvent, PlayerMoved
<1>3. \A p : ApplyEvent(g, BlockPlaced(p)) = AddBlock(g, p)
  BY SMT DEF ApplyEvent, BlockPlaced
<1> QED BY <1>1, <1>2, <1>3, Zenon

LEMMA ExplosionApplied ==
  ASSUME NEW g \in Games, NEW id, NEW R, NEW B, NEW y,
         g.explosions \union Area(g, id) = y
  PROVE  ApplyEvent(g, BombExploded(id, R, B)) = Burst(g, id, y, R, B)
<1> DEFINE e == BombExploded(id, R, B)
<1>1. ApplyEvent(g, e) = AfterBombExploded(g, e)
  BY SMT DEF ApplyEvent, BombExploded
<1>2. e.id = id /\ e.robots = R /\ e.blocks = B
  BY SMT DEF BombExploded
<1> HIDE DEF e
<1>3. EraseBomb(g, id).explosions = g.explosions
  BY EraseBombIs, Zenon DEF Is
<1>4. AfterBombExploded(g, e) = Burst(g, id, y, R, B)
  BY <1>2, <1>3, Zenon DEF AfterBombExploded, Burst
<1> QED BY <1>1, <1>4, Zenon DEF e

LEMMA ShadowMoves ==
  ASSUME NEW g \in Games, NEW t \in Nat, NEW x \in SUBSET Fields,
         NEW r \in Robots, NEW p \in Fields
  PROVE  ApplyEvent(Shadow(g, t, x), PlayerMoved(r, p)) = Shadow(MoveRobot(g, r, p), t, x)
<1> DEFINE a == Shadow(g, t, x)
           b == MoveRobot(g, r, p)
<1>1. Is(a, g.positions, g.blocks, g.bombs, g.scores, t, g.robots_hit, g.blocks_hit, x)
  BY ShadowIs, Zenon
<1>2. Is(b, [g.positions EXCEPT ![r] = p], g.blocks, g.bombs, g.scores, g.turn,
         g.robots_hit, g.blocks_hit, g.explosions)
  BY MoveRobotIs, Zenon
<1>3. a \in Games /\ b \in Games
  BY <1>1, <1>2, Zenon DEF Is
<1>4. ApplyEvent(a, PlayerMoved(r, p)) = MoveRobot(a, r, p)
  BY <1>3, Applied, Zenon
<1> HIDE DEF a, b
<1>5. Is(MoveRobot(a, r, p), [a.positions EXCEPT ![r] = p], a.blocks, a.bombs, a.scores,
         a.turn, a.robots_hit, a.blocks_hit, a.explosions)
  BY <1>3, MoveRobotIs, Zenon
<1>6. Is(Shadow(b, t, x), b.positions, b.blocks, b.bombs, b.scores, t, b.robots_hit,
         b.blocks_hit, x)
  BY <1>3, ShadowIs, Zenon
<1>7. MoveRobot(a, r, p) = Shadow(b, t, x)
  <2>1. Is(MoveRobot(a, r, p), [g.positions EXCEPT ![r] = p], g.blocks, g.bombs, g.scores,
           t, g.robots_hit, g.blocks_hit, x)
    BY <1>1, <1>5, Zenon DEF Is
  <2>2. Is(Shadow(b, t, x), [g.positions EXCEPT ![r] = p], g.blocks, g.bombs, g.scores,
           t, g.robots_hit, g.blocks_hit, x)
    BY <1>2, <1>6, Zenon DEF Is
  <2> QED BY <2>1, <2>2, OneGame, Zenon
<1> QED BY <1>4, <1>7, Zenon DEF a, b

LEMMA ShadowBlocks ==
  ASSUME NEW g \in Games, NEW t \in Nat, NEW x \in SUBSET Fields, NEW p \in Fields
  PROVE  ApplyEvent(Shadow(g, t, x), BlockPlaced(p)) = Shadow(AddBlock(g, p), t, x)
<1> DEFINE a == Shadow(g, t, x)
           b == AddBlock(g, p)
<1>1. Is(a, g.positions, g.blocks, g.bombs, g.scores, t, g.robots_hit, g.blocks_hit, x)
  BY ShadowIs, Zenon
<1>2. Is(b, g.positions, g.blocks \union {p}, g.bombs, g.scores, g.turn,
         g.robots_hit, g.blocks_hit, g.explosions)
  BY AddBlockIs, Zenon
<1>3. a \in Games /\ b \in Games
  BY <1>1, <1>2, Zenon DEF Is
<1>4. ApplyEvent(a, BlockPlaced(p)) = AddBlock(a, p)
  BY <1>3, Applied, Zenon
<1> HIDE DEF a, b
<1>5. Is(AddBlock(a, p), a.positions, a.blocks \union {p}, a.bombs, a.scores,
         a.turn, a.robots_hit, a.blocks_hit, a.explosions)
  BY <1>3, AddBlockIs, Zenon
<1>6. Is(Shadow(b, t, x), b.positions, b.blocks, b.bombs, b.scores, t, b.robots_hit,
         b.blocks_hit, x)
  BY <1>3, ShadowIs, Zenon
<1>7. AddBlock(a, p) = Shadow(b, t, x)
  <2>1. Is(AddBlock(a, p), g.positions, g.blocks \union {p}, g.bombs, g.scores,
           t, g.robots_hit, g.blocks_hit, x)
    BY <1>1, <1>5, Zenon DEF Is
  <2>2. Is(Shadow(b, t, x), g.positions, g.blocks \union {p}, g.bombs, g.scores,
           t, g.robots_hit, g.blocks_hit, x)
    BY <1>2, <1>6, Zenon DEF Is
  <2> QED BY <2>1, <2>2, OneGame, Zenon
<1> QED BY <1>4, <1>7, Zenon DEF a, b

LEMMA ShadowBombs ==
  ASSUME NEW g \in Games, NEW t \in Nat, NEW x \in SUBSET Fields,
         NEW id \in Nat, NEW p \in Fields
  PROVE  ApplyEvent(Shadow(g, t, x), BombPlaced(id, p)) = Shadow(AddBomb(g, id, p), t, x)
<1> DEFINE a == Shadow(g, t, x)
           b == AddBomb(g, id, p)
<1>1. Is(a, g.positions, g.blocks, g.bombs, g.scores, t, g.robots_hit, g.blocks_hit, x)
  BY ShadowIs, Zenon
<1>2. Is(b, g.positions, g.blocks, WithBomb(g.bombs, id, p), g.scores, g.turn,
         g.robots_hit, g.blocks_hit, g.explosions)
  BY AddBombIs, Zenon
<1>3. a \in Games /\ b \in Games
  BY <1>1, <1>2, Zenon DEF Is
<1>4. ApplyEvent(a, BombPlaced(id, p)) = AddBomb(a, id, p)
  BY <1>3, Applied, Zenon
<1> HIDE DEF a, b
<1>5. Is(AddBomb(a, id, p), a.positions, a.blocks, WithBomb(a.bombs, id, p), a.scores,
         a.turn, a.robots_hit, a.blocks_hit, a.explosions)
  BY <1>3, AddBombIs, Zenon
<1>6. Is(Shadow(b, t, x), b.positions, b.blocks, b.bombs, b.scores, t, b.robots_hit,
         b.blocks_hit, x)
  BY <1>3, ShadowIs, Zenon
<1>7. AddBomb(a, id, p) = Shadow(b, t, x)
  <2>1. Is(AddBomb(a, id, p), g.positions, g.blocks, WithBomb(g.bombs, id, p), g.scores,
           t, g.robots_hit, g.blocks_hit, x)
    BY <1>1, <1>5, Zenon DEF Is
  <2>2. Is(Shadow(b, t, x), g.positions, g.blocks, WithBomb(g.bombs, id, p), g.scores,
           t, g.robots_hit, g.blocks_hit, x)
    BY <1>2, <1>6, Zenon DEF Is
  <2> QED BY <2>1, <2>2, OneGame, Zenon
<1> QED BY <1>4, <1>7, Zenon DEF a, b

\* The fields covered so far, and a bomb's area, under names of their own.
Both(x, y) == x \union y

AreaOn(g, id) == Explosion(g.bombs[id].position, g.blocks)

\* The client works the explosion out from its own blocks and the bomb's own position.
LEMMA ShadowExplosions ==
  ASSUME NEW g \in Games, NEW t \in Nat, NEW x \in SUBSET Fields,
         NEW id \in DOMAIN g.bombs, NEW R \in SUBSET Robots, NEW B \in SUBSET Fields
  PROVE  ApplyEvent(Shadow(g, t, x), BombExploded(id, R, B))
           = Shadow(Burst(g, id, AreaOn(g, id), R, B), t, Both(x, AreaOn(g, id)))
<1> DEFINE area == AreaOn(g, id)
           y == Both(x, area)
           a == Shadow(g, t, x)
           b == Burst(g, id, area, R, B)
<1>0. area \in SUBSET Fields /\ y \in SUBSET Fields
  <2>1. area \in SUBSET Fields
    BY AreaIsOnBoard, Zenon DEF AreaOn
  <2> QED BY <2>1, Zenon DEF Both
<1>1. Is(a, g.positions, g.blocks, g.bombs, g.scores, t, g.robots_hit, g.blocks_hit, x)
  BY ShadowIs, Zenon
<1>2. Is(b, g.positions, g.blocks, WithoutBomb(g.bombs, id), g.scores, g.turn,
         g.robots_hit \union R, g.blocks_hit \union B, area)
  BY <1>0, BurstIs, Zenon
<1>3. a \in Games /\ b \in Games
  BY <1>1, <1>2, Zenon DEF Is
<1>4. a.explosions \union Area(a, id) = y
  <2>1. a.bombs = g.bombs /\ a.blocks = g.blocks /\ a.explosions = x
    BY <1>1, Zenon DEF Is
  <2> QED BY <2>1, Zenon DEF Area, AreaOn, Both
<1> HIDE DEF a, b, y, area
<1>5. ApplyEvent(a, BombExploded(id, R, B)) = Burst(a, id, y, R, B)
  BY <1>3, <1>4, ExplosionApplied, Zenon
<1>6. Is(Burst(a, id, y, R, B), a.positions, a.blocks, WithoutBomb(a.bombs, id), a.scores,
         a.turn, a.robots_hit \union R, a.blocks_hit \union B, y)
  BY <1>0, <1>3, BurstIs, Zenon
<1>7. Is(Shadow(b, t, y), b.positions, b.blocks, b.bombs, b.scores, t, b.robots_hit,
         b.blocks_hit, y)
  BY <1>0, <1>3, ShadowIs, Zenon
<1>8. Burst(a, id, y, R, B) = Shadow(b, t, y)
  <2>1. Is(Burst(a, id, y, R, B), g.positions, g.blocks, WithoutBomb(g.bombs, id), g.scores,
           t, g.robots_hit \union R, g.blocks_hit \union B, y)
    BY <1>1, <1>6, Zenon DEF Is
  <2>2. Is(Shadow(b, t, y), g.positions, g.blocks, WithoutBomb(g.bombs, id), g.scores,
           t, g.robots_hit \union R, g.blocks_hit \union B, y)
    BY <1>2, <1>7, Zenon DEF Is
  <2> QED BY <2>1, <2>2, OneGame, Zenon
<1> QED BY <1>5, <1>8, Zenon DEF a, b, y, area
-----------------------------------------------------------------------------
(* The server's game can be replayed from its events                       *)

\* The games as they may be with the bombs placed so far.
GamesNow == GamesWith(BombCount)

\* The game at the end of the turn that the server sent last.
LastTurn == IF channel = <<>> THEN expected.after ELSE channel[Len(channel)].after

\* The turn that the events are about; the initial one is turn 0.
CurrentTurn == IF pc = "init" THEN 0 ELSE server.turn + 1

\* What the client has when it begins with the k-th message.
Before(k) == IF k = 1 THEN expected.after ELSE channel[k - 1].after

\* The end of the turn makes of h the game that the server had then.
Ends(h, m) == View(Closing(h)) = View(m.after) /\ h.explosions = m.burnt

\* The events lead from g to the game that the server had at the end of the turn.
Delivers(S, g, es, m) == \E h \in Games : Replays(S, g, es, h) /\ Ends(h, m)

ServerReplays ==
  /\ pc \in {"turn", "over"} => server = LastTurn /\ events = <<>>
  /\ pc \in {"init", "bombs", "players"} =>
       Replays(GamesNow, Opening(LastTurn, CurrentTurn), events,
               Shadow(server, CurrentTurn, burnt))

ChannelReplays ==
  \A k \in 1 .. Len(channel) :
    /\ channel[k].after \in GamesNow
    /\ Delivers(GamesNow, Opening(Before(k), channel[k].turn), channel[k].events, channel[k])

ClientReplays ==
  /\ expected.after \in GamesNow
  /\ applying => Delivers(GamesNow, client, todo, expected)
  /\ ~applying => /\ client \in GamesNow
                  /\ View(client) = View(expected.after)
                  /\ client.explosions = expected.burnt

ReplayInv == ServerReplays /\ ChannelReplays /\ ClientReplays

LEMMA MoreBombs ==
  ASSUME NEW n \in Nat
  PROVE  GamesWith(n) \subseteq GamesWith(n + 1)
<1> SUFFICES ASSUME NEW g \in GamesWith(n)
             PROVE  g \in GamesWith(n + 1)
  OBVIOUS
<1>1. /\ g \in Games /\ DOMAIN g.bombs \subseteq 0 .. n - 1
      /\ \A r \in Robots : g.scores[r] <= g.turn
      /\ g.turn <= GameLength
  BY Zenon DEF GamesWith
<1>2. PICK m : m = n + 1
  OBVIOUS
<1>3. DOMAIN g.bombs \subseteq 0 .. m - 1
  BY <1>1, <1>2, SMT
<1>4. g \in GamesWith(m)
  BY <1>1, <1>3, Zenon DEF GamesWith
<1> QED BY <1>2, <1>4, Zenon

LEMMA GamesNowGrow ==
  ASSUME ServerInv, [Next]_vars
  PROVE  GamesNow \subseteq GamesNow'
<1>1. CASE PlacesBomb
  BY <1>1, PlacesBombCounts, MoreBombs, Zenon DEF GamesNow
<1>2. CASE UNCHANGED placed
  BY <1>2, Zenon DEF GamesNow, BombCount
<1>3. PlacesBomb \/ UNCHANGED placed
  BY PlayerStepIs, Zenon
     DEF Next, ServerSteps, PlayerStep, InitRobot, InitBlock, InitDone, TurnBegins, BombsDone,
         BombExplodes, TurnEnds, ClientSteps, ClientBegins, ClientApplies, ClientEnds,
         vars, serverVars
<1> QED BY <1>1, <1>2, <1>3

LEMMA ShadowSound ==
  ASSUME NEW n, NEW g \in GamesWith(n), NEW t \in Nat, NEW x \in SUBSET Fields,
         g.turn <= t, t <= GameLength
  PROVE  Shadow(g, t, x) \in GamesWith(n)
<1>1. g \in Games /\ DOMAIN g.bombs \subseteq 0 .. n - 1
      /\ \A r \in Robots : g.scores[r] <= g.turn
  BY Zenon DEF GamesWith
<1>2. Is(Shadow(g, t, x), g.positions, g.blocks, g.bombs, g.scores, t, g.robots_hit,
         g.blocks_hit, x)
  BY <1>1, ShadowIs, Zenon
<1>3. \A r \in Robots : g.scores[r] <= t
  <2>1. g.scores \in [Robots -> Nat] /\ g.turn \in Nat
    BY <1>1, Parts, Zenon
  <2> QED BY <1>1, <2>1, SMT
<1> QED BY <1>1, <1>2, <1>3, InGamesWith, Zenon

LEMMA SameOpening ==
  ASSUME NEW g \in Games, NEW h \in Games, View(g) = View(h), NEW t \in Nat
  PROVE  Opening(g, t) = Opening(h, t)
<1>1. g.positions = h.positions /\ g.blocks = h.blocks /\ g.bombs = h.bombs
      /\ g.scores = h.scores
  BY SMT DEF View
<1>2. Is(Opening(g, t), g.positions, g.blocks, Ticked(g.bombs), g.scores, t, {}, {}, {})
  BY OpeningIs, Zenon
<1>3. Is(Opening(h, t), h.positions, h.blocks, Ticked(h.bombs), h.scores, t, {}, {}, {})
  BY OpeningIs, Zenon
<1>4. Is(Opening(h, t), g.positions, g.blocks, Ticked(g.bombs), g.scores, t, {}, {}, {})
  BY <1>1, <1>3, Zenon
<1> QED BY <1>2, <1>4, OneGame, Zenon

LEMMA ReplayInit == Init => ReplayInv
<1> SUFFICES ASSUME Init
             PROVE  ReplayInv
  OBVIOUS
<1>1. NewGame \in GamesNow /\ NewGame \in Games /\ NewGame.explosions = {}
  <2>1. server \in GamesNow
    BY ServerInit, Zenon DEF ServerInv, Types, GamesNow
  <2> QED BY <2>1, NewGameIs, Zenon DEF Init, Is
<1>2. channel = <<>> /\ expected.after = NewGame /\ expected.burnt = {} /\ ~applying
      /\ client = NewGame /\ server = NewGame /\ pc = "init" /\ events = <<>> /\ burnt = {}
  <2>1. expected = [after |-> NewGame, burnt |-> {}]
    BY Zenon DEF Init
  <2>2. expected.after = NewGame /\ expected.burnt = {}
    BY <2>1, SMT
  <2> QED BY <2>2, Zenon DEF Init
<1>3. ClientReplays
  BY <1>1, <1>2, Zenon DEF ClientReplays
<1>4. ChannelReplays
  <2>1. 1 .. Len(<<>>) = {}
    OBVIOUS
  <2> QED BY <1>2, <2>1, Zenon DEF ChannelReplays
<1>5. ServerReplays
  <2>1. LastTurn = NewGame /\ CurrentTurn = 0
    BY <1>2, Zenon DEF LastTurn, CurrentTurn
  <2>2. 0 \in Nat /\ {} \in SUBSET Fields
    BY SMT
  <2>3. Is(Opening(NewGame, 0), NewGame.positions, NewGame.blocks, NewGame.bombs,
           NewGame.scores, 0, {}, {}, {})
    <3>1. Ticked(NewGame.bombs) = NewGame.bombs
      BY NewGameIs, Zenon DEF Is
    <3>2. Is(Opening(NewGame, 0), NewGame.positions, NewGame.blocks, Ticked(NewGame.bombs),
             NewGame.scores, 0, {}, {}, {})
      BY <1>1, <2>2, OpeningIs, Zenon
    <3> QED BY <3>1, <3>2, Zenon
  <2>4. Is(Shadow(NewGame, 0, {}), NewGame.positions, NewGame.blocks, NewGame.bombs,
           NewGame.scores, 0, {}, {}, {})
    <3>1. Is(Shadow(NewGame, 0, {}), NewGame.positions, NewGame.blocks, NewGame.bombs,
           NewGame.scores, 0, NewGame.robots_hit, NewGame.blocks_hit, {})
      BY <1>1, <2>2, ShadowIs, Zenon
    <3>2. NewGame.robots_hit = {} /\ NewGame.blocks_hit = {}
      BY NewGameIs, Zenon DEF Is
    <3> QED BY <3>1, <3>2, Zenon
  <2>5. Opening(NewGame, 0) = Shadow(NewGame, 0, {})
    BY <2>3, <2>4, OneGame, Zenon
  <2>6. Shadow(NewGame, 0, {}) \in GamesNow
    <3>1. NewGame.turn = 0
      BY NewGameIs, Zenon DEF Is
    <3>2. NewGame.turn <= 0 /\ 0 <= GameLength
      BY <3>1, GameAssumption, SMT
    <3> QED BY <1>1, <2>2, <3>2, ShadowSound, Zenon DEF GamesNow
  <2>7. Replays(GamesNow, Shadow(NewGame, 0, {}), <<>>, Shadow(NewGame, 0, {}))
    BY <2>6, ReplayNothing, Zenon
  <2> QED BY <1>2, <2>1, <2>5, <2>7, Zenon DEF ServerReplays
<1> QED BY <1>3, <1>4, <1>5, Zenon DEF ReplayInv

\* The server emits an event that says what it does to its game.
LEMMA EmitReplays ==
  ASSUME ServerInv, ServerReplays, ServerInv', [Next]_vars,
         pc \in {"init", "bombs", "players"}, UNCHANGED <<pc, channel, expected>>,
         server'.turn = server.turn, NEW e \in Events, Emit(e),
         Shadow(server', CurrentTurn, burnt') = ApplyEvent(Shadow(server, CurrentTurn, burnt), e)
  PROVE  ServerReplays'
<1>1. CurrentTurn' = CurrentTurn /\ LastTurn' = LastTurn
  BY Zenon DEF CurrentTurn, LastTurn
<1>2. Replays(GamesNow, Opening(LastTurn, CurrentTurn), events,
              Shadow(server, CurrentTurn, burnt))
  BY Zenon DEF ServerReplays
<1>3. Shadow(server', CurrentTurn, burnt') \in GamesNow'
  <2>1. server' \in GamesWith(BombCount') /\ burnt' \in SUBSET Fields
    BY Zenon DEF ServerInv, Types
  <2>2. server.turn \in Nat /\ server.turn <= GameLength
    BY ServerFacts, Zenon DEF ServerInv
  <2>3. /\ pc = "init" => server.turn = 0 /\ CurrentTurn = 0
        /\ pc # "init" => server.turn < GameLength /\ CurrentTurn = server.turn + 1
    BY Zenon DEF ServerInv, InitPhase, TurnPhase, CurrentTurn
  <2>4. CurrentTurn \in Nat /\ server.turn <= CurrentTurn /\ CurrentTurn <= GameLength
    BY <2>2, <2>3, GameAssumption, SMT
  <2>5. server'.turn <= CurrentTurn
    BY <2>4, Zenon
  <2> QED BY <2>1, <2>4, <2>5, ShadowSound, Zenon DEF GamesNow
<1>4. GamesNow \subseteq GamesNow' /\ events \in Seq(Events) /\ events' = Append(events, e)
  BY GamesNowGrow, Zenon DEF ServerInv, Types, Emit
<1>5. Replays(GamesNow', Opening(LastTurn, CurrentTurn), events',
              Shadow(server', CurrentTurn, burnt'))
  BY <1>2, <1>3, <1>4, ReplayMore, Zenon
<1> QED BY <1>1, <1>5, Zenon DEF ServerReplays

\* The parts of the game that the server works on.
LEMMA WorkingFacts ==
  ASSUME ServerInv
  PROVE  server \in Games /\ burnt \in SUBSET Fields /\ CurrentTurn \in Nat
<1>1. server \in Games /\ server.turn \in Nat /\ burnt \in SUBSET Fields
  BY ServerFacts, Zenon DEF ServerInv, Types
<1>2. server.turn + 1 \in Nat /\ 0 \in Nat
  BY <1>1, SMT
<1> QED BY <1>1, <1>2, Zenon DEF CurrentTurn

LEMMA MoveReplays ==
  ASSUME ServerInv, ServerReplays, ServerInv', [Next]_vars,
         pc \in {"init", "players"}, UNCHANGED <<pc, channel, expected, burnt>>,
         i \in Robots, NEW p \in Fields,
         server' = MoveRobot(server, i, p), Emit(PlayerMoved(i, p))
  PROVE  ServerReplays'
<1>1. server'.turn = server.turn
  BY WorkingFacts, MoveRobotIs, Zenon DEF Is
<1>2. Shadow(server', CurrentTurn, burnt)
        = ApplyEvent(Shadow(server, CurrentTurn, burnt), PlayerMoved(i, p))
  BY WorkingFacts, ShadowMoves, Zenon
<1>3. PlayerMoved(i, p) \in Events
  BY AnEvent, Zenon
<1>4. UNCHANGED <<pc, channel, expected>> /\ pc \in {"init", "bombs", "players"}
  BY Zenon
<1>5. Shadow(server', CurrentTurn, burnt')
        = ApplyEvent(Shadow(server, CurrentTurn, burnt), PlayerMoved(i, p))
  BY <1>2, Zenon
<1> QED BY <1>1, <1>3, <1>4, <1>5, EmitReplays, Zenon

LEMMA BlockReplays ==
  ASSUME ServerInv, ServerReplays, ServerInv', [Next]_vars,
         pc \in {"init", "players"}, UNCHANGED <<pc, channel, expected, burnt>>,
         NEW p \in Fields, server' = AddBlock(server, p), Emit(BlockPlaced(p))
  PROVE  ServerReplays'
<1>1. server'.turn = server.turn
  BY WorkingFacts, AddBlockIs, Zenon DEF Is
<1>2. Shadow(server', CurrentTurn, burnt)
        = ApplyEvent(Shadow(server, CurrentTurn, burnt), BlockPlaced(p))
  BY WorkingFacts, ShadowBlocks, Zenon
<1>3. BlockPlaced(p) \in Events
  BY AnEvent, Zenon
<1>4. UNCHANGED <<pc, channel, expected>> /\ pc \in {"init", "bombs", "players"}
  BY Zenon
<1>5. Shadow(server', CurrentTurn, burnt')
        = ApplyEvent(Shadow(server, CurrentTurn, burnt), BlockPlaced(p))
  BY <1>2, Zenon
<1> QED BY <1>1, <1>3, <1>4, <1>5, EmitReplays, Zenon

LEMMA InitReplays ==
  ASSUME ServerInv, ServerReplays, ServerInv', [Next]_vars, InitRobot \/ InitBlock
  PROVE  ServerReplays'
<1>1. pc = "init" /\ UNCHANGED <<pc, channel, expected, burnt>>
  BY Zenon DEF InitRobot, InitBlock, clientVars
<1>2. CASE InitRobot
  <2>1. i \in Robots
    <3>1. i \in 0 .. PlayersCount + InitialBlocks /\ i < PlayersCount
      BY <1>2, Zenon DEF InitRobot, ServerInv, Types
    <3> QED BY <3>1, GameAssumption, SMT DEF Robots
  <2> QED BY <1>1, <1>2, <2>1, MoveReplays, Zenon DEF InitRobot
<1>3. CASE InitBlock
  BY <1>1, <1>3, BlockReplays, Zenon DEF InitBlock
<1> QED BY <1>2, <1>3

LEMMA PlayerReplays ==
  ASSUME ServerInv, ServerReplays, ServerInv', [Next]_vars, PlayerStep
  PROVE  ServerReplays'
<1>1. pc = "players" /\ UNCHANGED <<pc, channel, expected, burnt, placed>> /\ i \in Robots
  BY LoopAdvances, PlayerStepIs, Zenon DEF clientVars
<1>2. CASE UNCHANGED <<server, events>>
  <2>1. GamesNow' = GamesNow /\ LastTurn' = LastTurn /\ CurrentTurn' = CurrentTurn
    BY <1>1, <1>2, Zenon DEF GamesNow, BombCount, LastTurn, CurrentTurn
  <2> QED BY <1>1, <1>2, <2>1, Zenon DEF ServerReplays
<1>3. ASSUME NEW p \in Fields, server' = MoveRobot(server, i, p), Emit(PlayerMoved(i, p))
      PROVE  ServerReplays'
  BY <1>1, <1>3, MoveReplays, Zenon
<1>4. ASSUME NEW p \in Fields, server' = AddBlock(server, p), Emit(BlockPlaced(p))
      PROVE  ServerReplays'
  BY <1>1, <1>4, BlockReplays, Zenon
<1> QED BY <1>2, <1>3, <1>4, PlayerStepIs, Zenon

LEMMA PlacesBombReplays ==
  ASSUME ServerInv, ServerReplays, ServerInv', [Next]_vars, PlacesBomb
  PROVE  ServerReplays'
<1>1. pc = "players" /\ UNCHANGED <<pc, channel, expected, burnt>>
  BY LoopAdvances, Zenon DEF clientVars
<1>2. PICK n, p : n = BombCount /\ p = server.positions[i]
  OBVIOUS
<1>3. /\ n \in Nat /\ p \in Fields /\ server' = AddBomb(server, n, p)
      /\ Emit(BombPlaced(n, p)) /\ server'.turn = server.turn
  BY <1>2, PlacesBombDoes, Zenon DEF Is
<1>4. Shadow(server', CurrentTurn, burnt')
        = ApplyEvent(Shadow(server, CurrentTurn, burnt), BombPlaced(n, p))
  BY <1>1, <1>3, WorkingFacts, ShadowBombs, Zenon
<1>5. BombPlaced(n, p) \in Events
  BY <1>3, AnEvent, Zenon
<1>6. UNCHANGED <<pc, channel, expected>> /\ pc \in {"init", "bombs", "players"}
  BY <1>1, Zenon
<1> QED BY <1>3, <1>4, <1>5, <1>6, EmitReplays, Zenon

LEMMA BombExplodesReplays ==
  ASSUME ServerInv, ServerReplays, ServerInv', [Next]_vars, NEW id, BombExplodes(id)
  PROVE  ServerReplays'
<1>1. pc = "bombs" /\ UNCHANGED <<pc, channel, expected>> /\ id \in DOMAIN server.bombs
  BY Zenon DEF BombExplodes, clientVars
<1>2. PICK area, R, B : area = AreaOf(id) /\ R = RobotsIn(area) /\ B = BlocksIn(area)
  OBVIOUS
<1>3. /\ area \in SUBSET Fields /\ B \in SUBSET Fields /\ R \in SUBSET Robots
      /\ server' = Burst(server, id, area, R, B) /\ server'.turn = server.turn
      /\ id \in Nat /\ Emit(BombExploded(id, R, B)) /\ burnt' = burnt \union area
  BY <1>2, BombExplodesDoes, Zenon DEF Is
<1>4. Shadow(server', CurrentTurn, burnt')
        = ApplyEvent(Shadow(server, CurrentTurn, burnt), BombExploded(id, R, B))
  <2>1. area = Explosion(server.bombs[id].position, server.blocks)
    BY <1>2, Zenon DEF AreaOf
  <2>2. area = AreaOn(server, id)
    BY <2>1, Zenon DEF AreaOn
  <2>3. ApplyEvent(Shadow(server, CurrentTurn, burnt), BombExploded(id, R, B))
          = Shadow(Burst(server, id, AreaOn(server, id), R, B), CurrentTurn,
                   Both(burnt, AreaOn(server, id)))
    <3>1. server \in Games /\ burnt \in SUBSET Fields /\ CurrentTurn \in Nat
      BY WorkingFacts, Zenon
    <3>2. id \in DOMAIN server.bombs /\ R \in SUBSET Robots /\ B \in SUBSET Fields
      BY <1>1, <1>3, Zenon
    <3> QED BY <3>1, <3>2, ShadowExplosions, Zenon
  <2>4. burnt' = Both(burnt, area)
    BY <1>3, Zenon DEF Both
  <2>5. server' = Burst(server, id, AreaOn(server, id), R, B)
    BY <1>3, <2>2, Zenon
  <2>6. burnt' = Both(burnt, AreaOn(server, id))
    BY <2>2, <2>4, Zenon
  <2> QED BY <2>3, <2>5, <2>6, Zenon
<1>5. BombExploded(id, R, B) \in Events
  BY <1>3, AnEvent, Zenon
<1>6. UNCHANGED <<pc, channel, expected>> /\ pc \in {"init", "bombs", "players"}
  BY <1>1, Zenon
<1> QED BY <1>3, <1>4, <1>5, <1>6, EmitReplays, Zenon

LEMMA BombsDoneReplays ==
  ASSUME ServerReplays, BombsDone
  PROVE  ServerReplays'
<1>1. /\ pc = "bombs" /\ pc' = "players"
      /\ UNCHANGED <<server, events, burnt, placed, channel, expected>>
  BY Zenon DEF BombsDone, clientVars
<1>2. GamesNow' = GamesNow /\ LastTurn' = LastTurn /\ CurrentTurn' = CurrentTurn
  BY <1>1, Zenon DEF GamesNow, BombCount, LastTurn, CurrentTurn
<1> QED BY <1>1, <1>2, Zenon DEF ServerReplays

LEMMA TurnBeginsReplays ==
  ASSUME ServerInv, ServerReplays, ServerInv', TurnBegins
  PROVE  ServerReplays'
<1>1. /\ pc = "turn" /\ pc' = "bombs" /\ server' = BeginTurn(server) /\ burnt' = {}
      /\ UNCHANGED <<events, channel, expected>>
  BY Zenon DEF TurnBegins, clientVars
<1>2. server = LastTurn /\ events = <<>>
  BY <1>1, Zenon DEF ServerReplays
<1>3. server \in Games /\ server.turn \in Nat /\ server.turn < GameLength
  BY <1>1, ServerFacts, Zenon DEF ServerInv, TurnPhase
<1>4. server'.turn = server.turn
  BY <1>1, <1>3, BeginTurnIs, Zenon DEF Is
<1>5. PICK t : t = server.turn + 1
  OBVIOUS
<1>6. CurrentTurn' = t /\ LastTurn' = server
  <2>1. LastTurn' = LastTurn
    BY <1>1, Zenon DEF LastTurn
  <2>2. CurrentTurn' = server'.turn + 1
    BY <1>1, Zenon DEF CurrentTurn
  <2> QED BY <1>2, <1>4, <1>5, <2>1, <2>2, Zenon
<1>7. Opening(server, t) = Shadow(server', t, burnt')
  BY <1>1, Zenon DEF Opening, Shadow
<1>8. Shadow(server', t, burnt') \in GamesNow'
  <2>1. server' \in GamesWith(BombCount') /\ burnt' \in SUBSET Fields
    BY Zenon DEF ServerInv, Types
  <2>2. t \in Nat /\ server.turn <= t /\ t <= GameLength
    BY <1>3, <1>5, GameAssumption, SMT
  <2>3. server'.turn <= t
    BY <1>4, <2>2, Zenon
  <2> QED BY <2>1, <2>2, <2>3, ShadowSound, Zenon DEF GamesNow
<1>9. Replays(GamesNow', Opening(server, t), <<>>, Shadow(server', t, burnt'))
  BY <1>7, <1>8, ReplayNothing, Zenon
<1> QED BY <1>1, <1>2, <1>6, <1>9, Zenon DEF ServerReplays

\* What a turn delivers, it still delivers when there are more games.
LEMMA DeliverWiden ==
  ASSUME NEW S, NEW T, S \subseteq T, NEW g, NEW es, NEW m, Delivers(S, g, es, m)
  PROVE  Delivers(T, g, es, m)
BY ReplayWiden, Zenon DEF Delivers

LEMMA ChannelKeeps ==
  ASSUME ChannelReplays, GamesNow \subseteq GamesNow', UNCHANGED <<channel, expected>>
  PROVE  ChannelReplays'
<1> SUFFICES ASSUME NEW k \in 1 .. Len(channel)
             PROVE  /\ channel[k].after \in GamesNow'
                    /\ Delivers(GamesNow', Opening(Before(k)', channel[k].turn),
                                channel[k].events, channel[k])
  BY Zenon DEF ChannelReplays
<1>1. /\ channel[k].after \in GamesNow
      /\ Delivers(GamesNow, Opening(Before(k), channel[k].turn), channel[k].events, channel[k])
  BY Zenon DEF ChannelReplays
<1>2. Before(k)' = Before(k)
  BY Zenon DEF Before
<1> QED BY <1>1, <1>2, DeliverWiden, Zenon

LEMMA ClientKeeps ==
  ASSUME ClientReplays, GamesNow \subseteq GamesNow', UNCHANGED clientVars
  PROVE  ClientReplays'
<1>1. UNCHANGED <<client, todo, applying, expected>>
  BY Zenon DEF clientVars
<1>2. applying => Delivers(GamesNow', client, todo, expected)
  BY DeliverWiden, Zenon DEF ClientReplays
<1> QED BY <1>1, <1>2, Zenon DEF ClientReplays

\* The server sends what it did in a turn that its events replay.
LEMMA PublishReplays ==
  ASSUME ServerInv, ReplayInv, NEW g \in GamesNow, Publish(g), server' = g,
         pc \in {"init", "players"}, pc' \in {"turn", "over"},
         UNCHANGED <<burnt, placed, clientVars>>,
         View(Closing(Shadow(server, CurrentTurn, burnt))) = View(g)
  PROVE  ReplayInv'
<1>1. PICK m : m = [turn |-> g.turn, events |-> events, after |-> g, burnt |-> burnt]
  OBVIOUS
<1>2. m.turn = g.turn /\ m.events = events /\ m.after = g /\ m.burnt = burnt
  BY <1>1, SMT
<1>3. PICK n : n = Len(channel)
  OBVIOUS
<1>4. /\ channel \in Seq(Messages) /\ channel' = Append(channel, m) /\ events' = <<>>
      /\ UNCHANGED <<client, todo, applying, expected, placed>>
  BY <1>1, Zenon DEF ServerInv, Types, Publish, clientVars
<1>5. /\ n \in Nat /\ Len(channel') = n + 1 /\ channel' # <<>> /\ channel'[n + 1] = m
      /\ \A k \in 1 .. n : channel'[k] = channel[k]
      /\ channel = <<>> <=> n = 0
  <2> HIDE <1>1
  <2> QED BY <1>3, <1>4, SMT
<1>6. GamesNow' = GamesNow
  BY <1>4, Zenon DEF GamesNow, BombCount
<1>7. ServerReplays'
  <2>1. LastTurn' = channel'[n + 1].after
    BY <1>5, Zenon DEF LastTurn
  <2> QED BY <1>2, <1>4, <1>5, <2>1, Zenon DEF ServerReplays
<1>8. ClientReplays'
  <2>1. GamesNow \subseteq GamesNow'
    BY <1>6
  <2> QED BY <2>1, ClientKeeps, Zenon DEF ReplayInv
<1>9. ChannelReplays'
  <2>1. Delivers(GamesNow, Opening(LastTurn, m.turn), m.events, m)
    <3>1. PICK h : h = Shadow(server, CurrentTurn, burnt)
      OBVIOUS
    <3>2. Is(h, server.positions, server.blocks, server.bombs, server.scores, CurrentTurn,
             server.robots_hit, server.blocks_hit, burnt)
      BY <3>1, WorkingFacts, ShadowIs, Zenon
    <3>3. h \in Games /\ h.turn = CurrentTurn /\ h.explosions = burnt
      BY <3>2, Zenon DEF Is
    <3>4. Closing(h).turn = CurrentTurn
      BY <3>3, ClosingIs, Zenon DEF Is
    <3>5. g.turn = CurrentTurn
      BY <3>1, <3>4, SMT DEF View
    <3>6. Replays(GamesNow, Opening(LastTurn, CurrentTurn), events, h)
      BY <3>1, Zenon DEF ReplayInv, ServerReplays
    <3>7. Ends(h, m)
      BY <1>2, <3>1, <3>3, Zenon DEF Ends
    <3> QED BY <1>2, <3>3, <3>5, <3>6, <3>7, Zenon DEF Delivers
  <2>2. Before(n + 1)' = LastTurn
    <3>1. CASE n = 0
      <4>1. n + 1 = 1
        BY <3>1, SMT
      <4>2. Before(n + 1)' = expected'.after
        BY <4>1, Zenon DEF Before
      <4> QED BY <1>4, <1>5, <3>1, <4>2, Zenon DEF LastTurn
    <3>2. CASE n # 0
      <4>1. n + 1 # 1 /\ n + 1 - 1 = n /\ n \in 1 .. n
        BY <1>5, <3>2, SMT
      <4>2. PICK l : l = n + 1
        OBVIOUS
      <4>3. Before(l)' = channel'[l - 1].after
        BY <4>1, <4>2, Zenon DEF Before
      <4>4. l - 1 = n
        BY <1>5, <4>2, SMT
      <4>5. Before(n + 1)' = channel'[n].after
        BY <4>2, <4>3, <4>4, Zenon
      <4>6. channel'[n] = channel[n]
        BY <1>5, <4>1, Zenon
      <4> QED BY <1>3, <1>5, <3>2, <4>5, <4>6, Zenon DEF LastTurn
    <3> QED BY <3>1, <3>2
  <2>3. ASSUME NEW k \in 1 .. n
        PROVE  Before(k)' = Before(k) /\ channel'[k] = channel[k]
    <3>1. CASE k = 1
      BY <1>4, <1>5, <3>1, Zenon DEF Before
    <3>2. CASE k # 1
      <4>1. PICK j : j = k - 1
        OBVIOUS
      <4>2. j \in 1 .. n
        BY <1>5, <3>2, <4>1, SMT
      <4>3. channel'[j] = channel[j]
        BY <1>5, <4>2, Zenon
      <4>4. Before(k) = channel[j].after /\ Before(k)' = channel'[j].after
        BY <3>2, <4>1, Zenon DEF Before
      <4> QED BY <1>5, <4>3, <4>4, Zenon
    <3> QED BY <3>1, <3>2
  <2>4. ASSUME NEW k \in 1 .. Len(channel')
        PROVE  k \in 1 .. n \/ k = n + 1
    BY <1>5, SMT
  <2>5. ASSUME NEW k \in 1 .. Len(channel')
        PROVE  /\ channel'[k].after \in GamesNow
               /\ Delivers(GamesNow, Opening(Before(k)', channel'[k].turn),
                           channel'[k].events, channel'[k])
    <3>1. CASE k \in 1 .. n
      <4>1. /\ channel[k].after \in GamesNow
            /\ Delivers(GamesNow, Opening(Before(k), channel[k].turn), channel[k].events,
                        channel[k])
        BY <1>3, <3>1, Zenon DEF ReplayInv, ChannelReplays
      <4> QED BY <2>3, <3>1, <4>1, Zenon
    <3>2. CASE k = n + 1
      <4>1. channel'[k] = m /\ Before(k)' = LastTurn
        BY <1>5, <2>2, <3>2, Zenon
      <4> QED BY <1>2, <2>1, <4>1, Zenon
    <3> QED BY <2>4, <3>1, <3>2
  <2> QED BY <1>6, <2>5, Zenon DEF ChannelReplays
<1> QED BY <1>7, <1>8, <1>9, Zenon DEF ReplayInv
LEMMA InitDoneReplays ==
  ASSUME ServerInv, ReplayInv, InitDone
  PROVE  ReplayInv'
<1>1. /\ pc = "init" /\ Publish(server) /\ pc' = PcAfter(server)
      /\ UNCHANGED <<server, i, burnt, placed, clientVars>>
  BY Zenon DEF InitDone
<1>2. PICK g : g = server
  OBVIOUS
<1>3. g \in GamesNow /\ g \in Games /\ server' = g /\ Publish(g) /\ pc' \in {"turn", "over"}
  BY <1>1, <1>2, ServerFacts, Zenon DEF ServerInv, Types, GamesNow, PcAfter
<1>4. g.turn = 0 /\ g.robots_hit = {} /\ g.blocks_hit = {} /\ CurrentTurn = 0
  BY <1>1, <1>2, Zenon DEF ServerInv, InitPhase, CurrentTurn
<1>5. PICK h : h = Shadow(server, CurrentTurn, burnt)
  OBVIOUS
<1>6. Is(h, g.positions, g.blocks, g.bombs, g.scores, 0, {}, {}, burnt)
  <2>1. Is(h, g.positions, g.blocks, g.bombs, g.scores, CurrentTurn, g.robots_hit,
           g.blocks_hit, burnt)
    BY <1>2, <1>3, <1>5, WorkingFacts, ShadowIs, Zenon
  <2> QED BY <1>4, <2>1, Zenon
<1>7. Scored(h) = g.scores
  <2>1. h.scores = g.scores /\ h.robots_hit = {}
    BY <1>6, Zenon DEF Is
  <2>2. g.scores \in [Robots -> Nat]
    BY <1>3, Parts, Zenon
  <2> QED BY <2>1, <2>2, SMT DEF Scored
<1>8. h.blocks \ h.blocks_hit = g.blocks
  <2>1. h.blocks = g.blocks /\ h.blocks_hit = {}
    BY <1>6, Zenon DEF Is
  <2> QED BY <2>1, SMT
<1>9. h \in Games /\ h.positions = g.positions /\ h.bombs = g.bombs /\ h.turn = 0
  BY <1>6, Zenon DEF Is
<1>10. Is(Closing(h), h.positions, h.blocks \ h.blocks_hit, h.bombs, Scored(h), h.turn,
          h.robots_hit, h.blocks_hit, h.explosions)
  BY <1>9, ClosingIs, Zenon
<1>11. View(Closing(h)) = View(g)
  <2>1. /\ Closing(h).positions = g.positions /\ Closing(h).blocks = g.blocks
        /\ Closing(h).bombs = g.bombs /\ Closing(h).scores = g.scores
        /\ Closing(h).turn = g.turn
    BY <1>4, <1>7, <1>8, <1>9, <1>10, Zenon DEF Is
  <2> QED BY <2>1, Zenon DEF View
<1>12. /\ pc \in {"init", "players"} /\ UNCHANGED <<burnt, placed, clientVars>>
       /\ View(Closing(Shadow(server, CurrentTurn, burnt))) = View(g)
  BY <1>1, <1>5, <1>11, Zenon
<1> QED BY <1>3, <1>12, PublishReplays, Zenon

LEMMA TurnEndsReplays ==
  ASSUME ServerInv, ReplayInv, TurnEnds
  PROVE  ReplayInv'
<1>1. PICK g : g = server'
  OBVIOUS
<1>2. PICK t : t = server.turn + 1
  OBVIOUS
<1>3. /\ pc = "players" /\ Publish(g) /\ pc' \in {"turn", "over"}
      /\ UNCHANGED <<burnt, placed, clientVars>>
  BY <1>1, Zenon DEF TurnEnds, PcAfter
<1>4. /\ Is(g, server.positions, server.blocks \ server.blocks_hit, server.bombs,
            Scored(server), t, server.robots_hit, server.blocks_hit, server.explosions)
      /\ t <= GameLength /\ \A r \in Robots : Scored(server)[r] <= t
  BY <1>1, <1>2, TurnEndsDoes, Zenon
<1>5. g \in GamesNow
  <2>1. DOMAIN server.bombs \subseteq 0 .. BombCount - 1
    BY ServerFacts, Zenon DEF ServerInv
  <2> QED BY <1>4, <2>1, InGamesWith, Zenon DEF GamesNow
<1>6. PICK h : h = Shadow(server, CurrentTurn, burnt)
  OBVIOUS
<1>7. Is(h, server.positions, server.blocks, server.bombs, server.scores, t,
         server.robots_hit, server.blocks_hit, burnt)
  <2>1. CurrentTurn = t
    BY <1>2, <1>3, Zenon DEF CurrentTurn
  <2> QED BY <1>6, <2>1, WorkingFacts, ShadowIs, Zenon
<1>8. Scored(h) = Scored(server)
  <2>1. h.scores = server.scores /\ h.robots_hit = server.robots_hit
    BY <1>7, Zenon DEF Is
  <2> QED BY <2>1, Zenon DEF Scored
<1>9. Is(Closing(h), h.positions, h.blocks \ h.blocks_hit, h.bombs, Scored(server), h.turn,
         h.robots_hit, h.blocks_hit, h.explosions)
  <2>1. h \in Games
    BY <1>7, Zenon DEF Is
  <2> QED BY <1>8, <2>1, ClosingIs, Zenon
<1>10. Is(Closing(h), server.positions, server.blocks \ server.blocks_hit, server.bombs,
          Scored(server), t, server.robots_hit, server.blocks_hit, burnt)
  BY <1>7, <1>9, Zenon DEF Is
<1>11. View(Closing(h)) = View(g)
  BY <1>4, <1>10, Zenon DEF Is, View
<1>12. /\ pc \in {"init", "players"} /\ server' = g
       /\ View(Closing(Shadow(server, CurrentTurn, burnt))) = View(g)
  BY <1>1, <1>3, <1>6, <1>11, Zenon
<1> QED BY <1>3, <1>5, <1>12, PublishReplays, Zenon

\* The steps that send nothing leave the channel and the client alone.
LEMMA ServerReplayStep ==
  ASSUME ServerInv, ReplayInv, ServerInv', [Next]_vars, ServerSteps
  PROVE  ReplayInv'
<1>1. CASE InitDone \/ TurnEnds
  BY <1>1, InitDoneReplays, TurnEndsReplays, Zenon
<1>2. CASE ~(InitDone \/ TurnEnds)
  <2>1. ServerReplays
    BY Zenon DEF ReplayInv
  <2>2. ServerReplays'
    BY <1>2, <2>1, InitReplays, TurnBeginsReplays, BombExplodesReplays, BombsDoneReplays,
       PlayerReplays, PlacesBombReplays, Zenon DEF ServerSteps, PlayerStep
  <2>3. UNCHANGED channel /\ UNCHANGED clientVars
    BY <1>2, LoopAdvances, PlayerStepIs, Zenon
       DEF ServerSteps, PlayerStep, InitRobot, InitBlock, TurnBegins, BombExplodes, BombsDone
  <2>4. UNCHANGED <<channel, expected>>
    BY <2>3, Zenon DEF clientVars
  <2>5. ChannelReplays' /\ ClientReplays'
    BY <2>3, <2>4, GamesNowGrow, ChannelKeeps, ClientKeeps, Zenon DEF ReplayInv
  <2> QED BY <2>2, <2>5, Zenon DEF ReplayInv
<1> QED BY <1>1, <1>2
\* The client begins with a turn from a game that looks like the server's then.
LEMMA ClientBeginsReplays ==
  ASSUME ServerInv, ReplayInv, ClientBegins
  PROVE  ReplayInv'
<1>1. /\ ~applying /\ channel # <<>> /\ channel' = Tail(channel) /\ applying'
      /\ client' = Opening(client, Head(channel).turn) /\ todo' = Head(channel).events
      /\ expected' = [after |-> Head(channel).after, burnt |-> Head(channel).burnt]
      /\ UNCHANGED <<server, pc, events, burnt, placed>>
  BY Zenon DEF ClientBegins, Opening, serverVars
<1>2. PICK n : n = Len(channel)
  OBVIOUS
<1>3. PICK m : m = Head(channel)
  OBVIOUS
<1>4. channel \in Seq(Messages)
  BY Zenon DEF ServerInv, Types
<1>5. /\ n \in Nat \ {0} /\ Len(channel') = n - 1 /\ m = channel[1] /\ m \in Messages
      /\ \A k \in 1 .. n - 1 : channel'[k] = channel[k + 1]
      /\ channel' = <<>> <=> n = 1
  <2>1. channel # <<>> /\ channel' = Tail(channel)
    BY <1>1
  <2>2. n \in Nat \ {0} /\ Len(channel') = n - 1 /\ m = channel[1] /\ m \in Messages
    BY <1>2, <1>3, <1>4, <2>1, SMT
  <2>3. \A k \in 1 .. n - 1 : channel'[k] = channel[k + 1]
    BY <1>2, <1>4, <2>1, SMT
  <2>4. channel' \in Seq(Messages)
    BY <1>4, <2>1, SMT
  <2>5. channel' = <<>> <=> Len(channel') = 0
    BY <2>4, SMT
  <2>6. n - 1 = 0 <=> n = 1
    BY <2>2, SMT
  <2> QED BY <2>2, <2>3, <2>5, <2>6, Zenon
<1>6. expected'.after = m.after /\ expected'.burnt = m.burnt
  BY <1>1, <1>3, SMT
<1>7. m.turn \in Nat
  BY <1>5, SMT DEF Messages
<1>8. GamesNow' = GamesNow
  BY <1>1, Zenon DEF GamesNow, BombCount
<1>9. \A k \in 1 .. n : /\ channel[k].after \in GamesNow
                        /\ Delivers(GamesNow, Opening(Before(k), channel[k].turn),
                                    channel[k].events, channel[k])
  BY <1>2, Zenon DEF ReplayInv, ChannelReplays
<1>10. ClientReplays'
  <2>1. 1 \in 1 .. n
    BY <1>5, SMT
  <2>2. m.after \in GamesNow
        /\ Delivers(GamesNow, Opening(expected.after, m.turn), m.events, m)
    BY <1>5, <1>9, <2>1, Zenon DEF Before
  <2>3. client' = Opening(expected.after, m.turn)
    <3>1. client \in Games /\ expected.after \in Games
          /\ View(client) = View(expected.after)
      BY <1>1, Zenon DEF ReplayInv, ClientReplays, GamesNow, GamesWith
    <3> QED BY <1>1, <1>3, <1>7, <3>1, SameOpening, Zenon
  <2>4. Delivers(GamesNow, client', todo', expected')
    BY <1>1, <1>3, <1>6, <2>2, <2>3, Zenon DEF Delivers, Ends
  <2> QED BY <1>1, <1>6, <1>8, <2>2, <2>4, Zenon DEF ClientReplays
<1>11. LastTurn' = LastTurn
  <2>1. CASE n = 1
    <3>1. LastTurn = channel[1].after
      BY <1>1, <1>2, <2>1, Zenon DEF LastTurn
    <3>2. LastTurn' = expected'.after
      BY <1>5, <2>1, Zenon DEF LastTurn
    <3> QED BY <1>5, <1>6, <3>1, <3>2, Zenon
  <2>2. CASE n # 1
    <3>1. PICK j : j = n - 1
      OBVIOUS
    <3>2. j \in 1 .. n - 1 /\ j + 1 = n
      BY <1>5, <2>2, <3>1, SMT
    <3>3. channel'[j] = channel[n]
      BY <1>5, <3>2, Zenon
    <3>4. LastTurn' = channel'[j].after
      BY <1>5, <2>2, <3>1, Zenon DEF LastTurn
    <3>5. LastTurn = channel[n].after
      BY <1>1, <1>2, Zenon DEF LastTurn
    <3> QED BY <3>3, <3>4, <3>5, Zenon
  <2> QED BY <2>1, <2>2
<1>12. ServerReplays'
  <2>1. CurrentTurn' = CurrentTurn
    BY <1>1, Zenon DEF CurrentTurn
  <2> QED BY <1>1, <1>8, <1>11, <2>1, Zenon DEF ReplayInv, ServerReplays
<1>13. ChannelReplays'
  <2>1. ASSUME NEW k \in 1 .. n - 1
        PROVE  /\ channel'[k].after \in GamesNow
               /\ Delivers(GamesNow, Opening(Before(k)', channel'[k].turn),
                           channel'[k].events, channel'[k])
    <3>1. PICK l : l = k + 1
      OBVIOUS
    <3>2. l \in 1 .. n /\ l # 1 /\ l - 1 = k
      BY <1>5, <3>1, SMT
    <3>3. channel'[k] = channel[l]
      BY <1>5, <3>1, Zenon
    <3>4. Before(l) = channel[k].after
      BY <3>2, Zenon DEF Before
    <3>5. Before(k)' = Before(l)
      <4>1. CASE k = 1
        <5>1. Before(k)' = expected'.after
          BY <4>1, Zenon DEF Before
        <5> QED BY <1>5, <1>6, <3>4, <4>1, <5>1, Zenon
      <4>2. CASE k # 1
        <5>1. PICK j : j = k - 1
          OBVIOUS
        <5>2. j \in 1 .. n - 1 /\ j + 1 = k
          BY <1>5, <4>2, <5>1, SMT
        <5>3. channel'[j] = channel[k]
          BY <1>5, <5>2, Zenon
        <5>4. Before(k)' = channel'[j].after
          BY <4>2, <5>1, Zenon DEF Before
        <5> QED BY <3>4, <5>3, <5>4, Zenon
      <4> QED BY <4>1, <4>2
    <3> QED BY <1>9, <3>2, <3>3, <3>5, Zenon
  <2> QED BY <1>5, <1>8, <2>1, Zenon DEF ChannelReplays
<1> QED BY <1>10, <1>12, <1>13, Zenon DEF ReplayInv

LEMMA ClientAppliesReplays ==
  ASSUME ServerInv, ClientReplays, GamesNow \subseteq GamesNow', ClientApplies
  PROVE  ClientReplays'
<1>1. /\ applying /\ todo # <<>> /\ client' = ApplyEvent(client, Head(todo))
      /\ todo' = Tail(todo) /\ UNCHANGED <<applying, expected>> /\ todo \in Seq(Events)
  BY Zenon DEF ClientApplies, ServerInv, Types
<1>2. Delivers(GamesNow, client', todo', expected)
  BY <1>1, ReplayRest, Zenon DEF ClientReplays, Delivers
<1>3. Delivers(GamesNow', client', todo', expected)
  BY <1>2, DeliverWiden, Zenon
<1> QED BY <1>1, <1>3, Zenon DEF ClientReplays

LEMMA ClientEndsReplays ==
  ASSUME ClientReplays, GamesNow \subseteq GamesNow', ClientEnds
  PROVE  ClientReplays'
<1>1. /\ applying /\ todo = <<>> /\ client' = Closing(client) /\ ~applying'
      /\ UNCHANGED <<todo, expected>>
  BY Zenon DEF ClientEnds, Closing
<1>2. PICK h : Replays(GamesNow, client, todo, h) /\ Ends(h, expected)
  BY <1>1, Zenon DEF ClientReplays, Delivers
<1>3. client = h /\ client \in GamesNow
  BY <1>1, <1>2, ReplayNothing, Zenon
<1>4. View(client') = View(expected.after) /\ client.explosions = expected.burnt
  BY <1>1, <1>2, <1>3, Zenon DEF Ends
<1>5. client \in Games
  BY <1>3, Zenon DEF GamesNow, GamesWith
<1>6. Is(client', client.positions, client.blocks \ client.blocks_hit, client.bombs,
         Scored(client), client.turn, client.robots_hit, client.blocks_hit, client.explosions)
  BY <1>1, <1>5, ClosingIs, Zenon
<1>7. client' \in Games /\ client'.explosions = client.explosions
  BY <1>6, Zenon DEF Is
<1>8. client' \in GamesNow
  <2>1. client'.bombs = expected.after.bombs /\ client'.scores = expected.after.scores
        /\ client'.turn = expected.after.turn
    BY <1>4, SMT DEF View
  <2>2. expected.after \in GamesNow
    BY Zenon DEF ClientReplays
  <2> QED BY <1>7, <2>1, <2>2, Zenon DEF GamesNow, GamesWith
<1> QED BY <1>1, <1>4, <1>7, <1>8, Zenon DEF ClientReplays

LEMMA ClientReplayStep ==
  ASSUME ServerInv, ReplayInv, ClientSteps
  PROVE  ReplayInv'
<1>1. CASE ClientBegins
  BY <1>1, ClientBeginsReplays, Zenon
<1>2. CASE ClientApplies \/ ClientEnds
  <2>1. UNCHANGED <<server, pc, events, burnt, placed, channel, expected>>
    BY <1>2, Zenon DEF ClientApplies, ClientEnds, serverVars
  <2>2. GamesNow' = GamesNow /\ LastTurn' = LastTurn /\ CurrentTurn' = CurrentTurn
    BY <2>1, Zenon DEF GamesNow, BombCount, LastTurn, CurrentTurn
  <2>3. ServerReplays'
    BY <2>1, <2>2, Zenon DEF ReplayInv, ServerReplays
  <2>4. GamesNow \subseteq GamesNow' /\ UNCHANGED <<channel, expected>>
    BY <2>1, <2>2, Zenon
  <2>5. ChannelReplays' /\ ClientReplays'
    BY <1>2, <2>4, ChannelKeeps, ClientAppliesReplays, ClientEndsReplays, Zenon DEF ReplayInv
  <2> QED BY <2>3, <2>5, Zenon DEF ReplayInv
<1> QED BY <1>1, <1>2, Zenon DEF ClientSteps

LEMMA ReplayStep ==
  ASSUME ServerInv, ReplayInv, [Next]_vars
  PROVE  ReplayInv'
<1>1. ServerInv'
  BY ServerStep, Zenon
<1>2. CASE UNCHANGED vars
  <2>1. /\ UNCHANGED <<server, pc, events, burnt, placed, channel, expected>>
        /\ UNCHANGED clientVars
    BY <1>2, Zenon DEF vars, serverVars, clientVars
  <2>2. GamesNow' = GamesNow /\ LastTurn' = LastTurn /\ CurrentTurn' = CurrentTurn
    BY <2>1, Zenon DEF GamesNow, BombCount, LastTurn, CurrentTurn
  <2>3. ServerReplays'
    BY <2>1, <2>2, Zenon DEF ReplayInv, ServerReplays
  <2>4. GamesNow \subseteq GamesNow' /\ UNCHANGED <<channel, expected>>
    BY <2>1, <2>2, Zenon
  <2>5. ChannelReplays' /\ ClientReplays'
    BY <2>1, <2>4, ChannelKeeps, ClientKeeps, Zenon DEF ReplayInv
  <2> QED BY <2>3, <2>5, Zenon DEF ReplayInv
<1>3. CASE ServerSteps
  BY <1>1, <1>3, ServerReplayStep, Zenon
<1>4. CASE ClientSteps
  BY <1>4, ClientReplayStep, Zenon
<1> QED BY <1>2, <1>3, <1>4, Zenon DEF Next

LEMMA ReplayInvariance == Spec => []ReplayInv
<1>1. ServerInv /\ ReplayInv /\ [Next]_vars => ReplayInv'
  BY ReplayStep, Zenon
<1> QED BY <1>1, ReplayInit, ServerInvariance, PTL DEF Spec

LEMMA WellFormed ==
  ASSUME NEW g \in GamesNow
  PROVE  GameOK(g)
<1>1. g \in Games /\ DOMAIN g.bombs \subseteq 0 .. BombCount - 1
      /\ (\A r \in Robots : g.scores[r] <= g.turn) /\ g.turn <= GameLength
  BY Zenon DEF GamesNow, GamesWith
<1>2. /\ g.positions \in [Robots -> Fields] /\ g.blocks \in SUBSET Fields
      /\ g.bombs \in BombMaps /\ g.scores \in [Robots -> Nat] /\ g.turn \in Nat
      /\ g.robots_hit \in SUBSET Robots /\ g.blocks_hit \in SUBSET Fields
      /\ g.explosions \in SUBSET Fields
  BY <1>1, Parts, Zenon
<1>3. \A id \in DOMAIN g.bombs : g.bombs[id] \in Bombs
  <2>1. g.bombs \in [DOMAIN g.bombs -> Bombs]
    BY <1>2, BombMap, Zenon
  <2> QED BY <2>1, Zenon
<1>4. g.scores \in [Robots -> 0 .. g.turn]
  BY <1>1, <1>2, SMT
<1>5. g.turn \in 0 .. GameLength
  BY <1>1, <1>2, GameAssumption, SMT
<1>6. DOMAIN g.bombs \subseteq 0 .. Cardinality(DOMAIN placed) - 1
  BY <1>1, Zenon DEF BombCount
<1> QED BY <1>2, <1>3, <1>4, <1>5, <1>6, Zenon DEF GameOK

\* Both games are well formed: the server's (game_init and apply_moves of GameServer) and
\* the one that the client makes of the server's events (apply_turn of GameClient), also
\* while the client is in the middle of a turn and the server turns ahead of it.
THEOREM TypeCorrect == Spec => []TypeOK
<1>1. ServerInv /\ ReplayInv => TypeOK
  <2> SUFFICES ASSUME ServerInv, ReplayInv
               PROVE  TypeOK
    OBVIOUS
  <2>1. Types
    BY Zenon DEF ServerInv
  <2>2. GameOK(server)
    BY <2>1, WellFormed, Zenon DEF Types, GamesNow
  <2>3. client \in GamesNow
    <3>1. CASE applying
      <4>1. PICK h : Replays(GamesNow, client, todo, h)
        BY <3>1, Zenon DEF ReplayInv, ClientReplays, Delivers
      <4>2. 0 \in 0 .. Len(todo)
        BY <2>1, SMT DEF Types
      <4> QED BY <4>1, <4>2, Zenon DEF Replays
    <3>2. CASE ~applying
      BY <3>2, Zenon DEF ReplayInv, ClientReplays
    <3> QED BY <3>1, <3>2
  <2>4. GameOK(client)
    BY <2>3, WellFormed, Zenon
  <2>5. burnt \subseteq Fields
    BY <2>1, Zenon DEF Types
  <2> QED BY <2>1, <2>2, <2>4, <2>5, Zenon DEF TypeOK, Types
<1> QED BY <1>1, ServerInvariance, ReplayInvariance, PTL

\* Whenever the client draws, its robots, blocks, bombs, scores and turn are those of the
\* server's game after the turn that it has read last: the client counts the timers
\* down, removes bombs and blocks and scores robots by its own code (apply_turn and
\* apply_event of GameClient), any number of turns behind the server.
THEOREM ClientShowsTheServersGame == Spec => []ClientAgrees
<1>1. ReplayInv => ClientAgrees
  BY Zenon DEF ReplayInv, ClientReplays, ClientAgrees
<1> QED BY <1>1, ReplayInvariance, PTL

\* The explosions that the client draws are exactly the fields that the server's bombs hit in
\* that turn, although it works them out bomb by bomb (find_explosions on its own
\* blocks) and the message carries only what was destroyed.
THEOREM ClientShowsTheExplosions == Spec => []ExplosionsAgree
<1>1. ReplayInv => ExplosionsAgree
  BY Zenon DEF ReplayInv, ClientReplays, ExplosionsAgree
<1> QED BY <1>1, ReplayInvariance, PTL
=============================================================================
