-------------------------------- MODULE Board --------------------------------
(***************************************************************************)
(* The board and what an explosion covers (class Game in game_logic/game). *)
(***************************************************************************)
EXTENDS Integers

CONSTANTS
  SizeX, SizeY,      \* settings.size_x and settings.size_y
  ExplosionRadius    \* settings.explosion_radius

ASSUME BoardAssumption ==
  /\ SizeX \in Nat \ {0}
  /\ SizeY \in Nat \ {0}
  /\ ExplosionRadius \in Nat

Fields == (0 .. SizeX - 1) \X (0 .. SizeY - 1)

Up == <<0, 1>>
Right == <<1, 0>>
Down == <<0, -1>>
Left == <<-1, 0>>
Directions == {Up, Right, Down, Left}

\* The field k steps away from p.
Beyond(p, d, k) == <<p[1] + k * d[1], p[2] + k * d[2]>>

\* explode_one_direction: up to the radius, the end of the board or the first
\* block, which is covered itself.
Ray(p, d, blocks) ==
  {Beyond(p, d, k) : k \in
     {k \in 0 .. ExplosionRadius :
        /\ Beyond(p, d, k) \in Fields
        /\ \A j \in 0 .. k - 1 : Beyond(p, d, j) \notin blocks}}

\* find_explosions
Explosion(p, blocks) == UNION {Ray(p, d, blocks) : d \in Directions}
=============================================================================
