----------------------------- MODULE MCMonitors -----------------------------
(***************************************************************************)
(* Instances of Monitors for TLC: a round of the server with the main      *)
(* thread, a writer that is there from the start, one that comes when the  *)
(* game has started, and two readers, of which either may be the second    *)
(* player; and the repository's test with three threads that each add two  *)
(* players, instead of a thousand.                                         *)
(***************************************************************************)
EXTENDS AcceptedPlayerContainerTest, TLC

CONSTANTS t1, t2, t3, t4, t5

\* This instance is one that the theorem about the test is about.
ASSUME TestAssumption == TestIsSetUp

MainThread ==
  <<AllPlayers, Do("append_new_turn", "turn 0"), Await("atomic_snapshot_and_clear"),
    Do("append_new_turn", "turn 1"), Do("mark_the_game_as_finished", "scores")>>

LateWriter ==
  <<AllPlayers, Do("get_turn", 0), Do("get_turn", 1),
    Await("return_when_game_finished")>>

Writer == <<Do("get_accepted_player", 0), Do("get_accepted_player", 1)>> \o LateWriter

Reader(player, id) ==
  <<Add(player), [op |-> "update_slot", arg |-> id, move |-> "input"]>>

ServerProgram ==
  (t1 :> MainThread) @@ (t2 :> Writer) @@ (t3 :> LateWriter)
    @@ (t4 :> Reader("p0", 0)) @@ (t5 :> Reader("p1", 1))

AllPrograms == {ServerProgram, TestProgram}
=============================================================================
