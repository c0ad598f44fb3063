------------------------------- MODULE Calls --------------------------------
(***************************************************************************)
(* What the containers promise to the threads that share them: every call  *)
(* takes effect at one moment, and one that waits takes effect when what   *)
(* it waits for is there.  Server makes its calls in this form; Monitors   *)
(* shows how they are made.                                                *)
(***************************************************************************)
EXTENDS Containers

vars == <<program, containers, results>>

Init == ContainersInit

Returns(t, value) ==
  /\ results' = [results EXCEPT ![t] = Append(@, value)]
  /\ UNCHANGED program

Throws(t, call) ==
  /\ NoSuchId(call)
  /\ Returns(t, Error("runtime_error"))
  /\ UNCHANGED containers

Waited(t, call) ==
  /\ call.op \in Waits /\ ~NoSuchId(call)
  /\ Ready(call)
  /\ Returns(t, Value(Found(call)))
  /\ UNCHANGED containers

AddNewPlayer(t, call) ==
  /\ call.op = "add_new_player"
  /\ \/ /\ Full
        /\ Returns(t, Rejected)
        /\ UNCHANGED players
     \/ /\ ~Full
        /\ Returns(t, Value(Len(players)))
        /\ players' = Append(players, call.arg)
  /\ UNCHANGED <<turns, finished, score_map, slots>>

AppendNewTurn(t, call) ==
  /\ call.op = "append_new_turn"
  /\ turns' = Append(turns, call.arg)
  /\ Returns(t, Void)
  /\ UNCHANGED <<players, finished, score_map, slots>>

MarkTheGameAsFinished(t, call) ==
  /\ call.op = "mark_the_game_as_finished"
  /\ finished' = TRUE /\ score_map' = call.arg
  /\ Returns(t, Void)
  /\ UNCHANGED <<players, turns, slots>>

UpdateSlot(t, call) ==
  /\ call.op = "update_slot" /\ ~NoSuchId(call)
  /\ slots' = [slots EXCEPT ![call.arg] = [first |-> TRUE, second |-> call.move]]
  /\ Returns(t, Void)
  /\ UNCHANGED <<players, turns, finished, score_map>>

AtomicSnapshotAndClear(t, call) ==
  /\ call.op = "atomic_snapshot_and_clear"
  /\ Returns(t, Value(slots))
  /\ slots' = Cleared
  /\ UNCHANGED <<players, turns, finished, score_map>>

Joins(t, call) ==
  /\ call.op = "join"
  /\ \A u \in call.arg : Len(results[u]) = Len(program[u])
  /\ Returns(t, Void)
  /\ UNCHANGED containers

Next ==
  \E t \in Threads :
    /\ Len(results[t]) < Len(program[t])
    /\ LET call == program[t][Len(results[t]) + 1]
       IN  \/ Throws(t, call) \/ Waited(t, call) \/ AddNewPlayer(t, call)
           \/ AppendNewTurn(t, call) \/ MarkTheGameAsFinished(t, call)
           \/ UpdateSlot(t, call) \/ AtomicSnapshotAndClear(t, call)
           \/ Joins(t, call)

Spec == Init /\ [][Next]_vars
=============================================================================
