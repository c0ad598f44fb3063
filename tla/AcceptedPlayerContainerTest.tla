--------------------- MODULE AcceptedPlayerContainerTest ---------------------
(***************************************************************************)
(* test/accepted_player_container_test.cpp: some threads add players to    *)
(* one container, each as often as NUM_ADDS_PER_THREAD says; the main      *)
(* thread joins them, asks for all players, and for one more than there    *)
(* can be.                                                                 *)
(***************************************************************************)
EXTENDS Monitors, FiniteSets

CONSTANTS
  Main,            \* the thread that runs main of the test
  Adders,          \* the threads that run add_n_players
  AddsPerThread    \* NUM_ADDS_PER_THREAD

Do(op, arg) == [op |-> op, arg |-> arg]
Await(op) == Do(op, 0)

AllPlayers == Await("return_when_target_players_joined")
Add(player) == Do("add_new_player", player)

Adder == [k \in 1 .. AddsPerThread |-> Add("player")]

Tester == <<Do("join", Adders), AllPlayers, Do("get_accepted_player", Target)>>

TestProgram ==
  [t \in Threads |-> IF t = Main THEN Tester ELSE IF t \in Adders THEN Adder ELSE <<>>]

\* The test tries to add more players than there is room for.
TestIsSetUp ==
  /\ Main \in Threads /\ Adders \subseteq Threads \ {Main} /\ IsFiniteSet(Adders)
  /\ AddsPerThread \in Nat /\ Target <= Cardinality(Adders) * AddsPerThread

\* What the test asserts at its end: all players are there and one more is not; and what
\* it prints: the calls that succeeded (counter) are as many as there are players.
TestPasses ==
  program = TestProgram =>
    /\ Len(results[Main]) > 1 => Len(results[Main][2].value) = Target
    /\ Len(results[Main]) > 2 => results[Main][3] = Error("runtime_error")
    /\ Len(results[Main]) > 0 =>
         Cardinality({c \in Adders \X (1 .. AddsPerThread) :
                        results[c[1]][c[2]] # Rejected}) = Target
==============================================================================
