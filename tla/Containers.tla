----------------------------- MODULE Containers -----------------------------
(***************************************************************************)
(* The state that AcceptedPlayerContainer, TurnContainer and MoveContainer *)
(* (concurrency/) keep for a round, and what their methods look at.        *)
(*                                                                         *)
(* A thread makes the calls of its program in order; a call is a method    *)
(* and its argument.  "join" is std::thread::join.                         *)
(***************************************************************************)
EXTENDS Integers, Sequences

CONSTANTS
  Threads,
  Programs,    \* functions from Threads to sequences of calls
  Target       \* target_players_count, and the number of slots

ASSUME ContainersAssumption ==
  /\ Target \in Nat
  /\ \A p \in Programs, t \in Threads :
       /\ Len(p[t]) \in Nat
       /\ \A k \in 1 .. Len(p[t]) : p[t][k].op = "join" => p[t][k].arg \subseteq Threads

VARIABLES
  program,     \* one of Programs
  players,     \* accepted_players: the player with id k is players[k + 1]
  turns, finished, score_map,
  slots,       \* for each id, whether it was updated since the snapshot, and the move
  results      \* what the calls of each thread have returned

containers == <<players, turns, finished, score_map, slots>>

Ids == 0 .. Target - 1

ContainersInit ==
  /\ program \in Programs
  /\ players = <<>> /\ turns = <<>> /\ finished = FALSE /\ score_map = "none"
  /\ slots = [id \in Ids |-> [first |-> FALSE, second |-> "none"]]
  /\ results = [t \in Threads |-> <<>>]

\* The object whose mutex the method locks.
Object(call) ==
  CASE call.op \in {"return_when_target_players_joined", "add_new_player",
                    "get_accepted_player"} -> "accepted_players"
    [] call.op \in {"append_new_turn", "get_turn", "return_when_game_finished",
                    "mark_the_game_as_finished"} -> "turn_container"
    [] OTHER -> "move_container"

\* The methods that wait for a condition, the condition, and what they return.
Waits == {"return_when_target_players_joined", "get_accepted_player", "get_turn",
          "return_when_game_finished"}

Full == Len(players) = Target

Ready(call) ==
  CASE call.op = "return_when_target_players_joined" -> Full
    [] call.op = "get_accepted_player" -> Len(players) > call.arg
    [] call.op = "get_turn" -> Len(turns) > call.arg
    [] call.op = "return_when_game_finished" -> finished

Found(call) ==
  CASE call.op = "return_when_target_players_joined" -> players
    [] call.op = "get_accepted_player" -> players[call.arg + 1]
    [] call.op = "get_turn" -> turns[call.arg + 1]
    [] call.op = "return_when_game_finished" -> score_map

\* The calls that throw a runtime_error.
NoSuchId(call) ==
  call.op \in {"get_accepted_player", "update_slot"} /\ call.arg >= Target

\* What a call returns or throws.
Value(v) == [value |-> v]
Void == Value("void")
Error(e) == [error |-> e]
Rejected == Error("RejectedPlayerException")

Cleared == [id \in Ids |-> [slots[id] EXCEPT !.first = FALSE]]
=============================================================================
