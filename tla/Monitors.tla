------------------------------ MODULE Monitors ------------------------------
(***************************************************************************)
(* The containers as monitors: every method locks the mutex of its object  *)
(* with a unique_lock, works on the object statement by statement, and     *)
(* unlocks when it leaves; the methods that wait do so on the condition    *)
(* variable of the object, which is notified while the mutex is held.      *)
(*                                                                         *)
(* condition_variable.wait(lock, predicate) is "while not predicate, wait  *)
(* on the condition variable", and a wait may end for no reason.           *)
(***************************************************************************)
EXTENDS Containers

CONSTANTS
  NoThread,
  MaxSpurious     \* bound: the number of wake-ups for no reason

ASSUME MonitorsAssumption == NoThread \notin Threads /\ MaxSpurious \in Nat

VARIABLES
  pc,         \* where a thread is in its call
  owner,      \* the thread that holds the mutex of each object
  waiting,    \* the threads that wait on the condition variable of each object
  spurious    \* the number of wake-ups for no reason

locks == <<owner, waiting, spurious>>
vars == <<program, containers, results, pc, locks>>

Objects == {"accepted_players", "turn_container", "move_container"}

Init ==
  /\ ContainersInit
  /\ pc = [t \in Threads |-> "call"]
  /\ owner = [o \in Objects |-> NoThread]
  /\ waiting = [o \in Objects |-> {}]
  /\ spurious = 0

\* A result is there before the call is over when the mutex is still to be unlocked.
Returned(t) == Len(results[t]) - (IF pc[t] \in {"clear", "unlock"} THEN 1 ELSE 0)
Done(t) == Returned(t) = Len(program[t])
Call(t) == program[t][Returned(t) + 1]

\* t is at this place of one of these methods.
At(t, place, ops) == pc[t] = place /\ ~Done(t) /\ Call(t).op \in ops

Goto(t, place) == pc' = [pc EXCEPT ![t] = place]

Returns(t, value) ==
  /\ results' = [results EXCEPT ![t] = Append(@, value)]
  /\ Goto(t, "unlock")

-----------------------------------------------------------------------------
(* Locking                                                                 *)

Lock_Never(t) ==
  /\ pc[t] = "call" /\ ~Done(t) /\ Call(t).op # "join"
  /\ owner' = [owner EXCEPT ![Object(Call(t))] = t]
  /\ Goto(t, "enter")
  /\ UNCHANGED <<program, containers, results, waiting, spurious>>

\* The constructor of the unique_lock, or the end of a wait.
Lock(t) ==
  /\ pc[t] = "call" /\ ~Done(t) /\ Call(t).op # "join"
  /\ owner[Object(Call(t))] = NoThread
  /\ owner' = [owner EXCEPT ![Object(Call(t))] = t]
  /\ Goto(t, "enter")
  /\ UNCHANGED <<program, containers, results, waiting, spurious>>

\* The destructor of the unique_lock, after return or throw.
Unlock(t) ==
  /\ pc[t] = "unlock"
  /\ owner' = [owner EXCEPT ![Object(Call(t))] = NoThread]
  /\ Goto(t, "call")
  /\ UNCHANGED <<program, containers, results, waiting, spurious>>

-----------------------------------------------------------------------------
(* Waiting                                                                 *)

Throw(t) ==
  /\ At(t, "enter", {"get_accepted_player", "update_slot"}) /\ NoSuchId(Call(t))
  /\ Returns(t, Error("runtime_error"))
  /\ UNCHANGED <<program, containers, locks>>

EvaluatePredicate(t) ==
  /\ At(t, "enter", Waits) /\ ~NoSuchId(Call(t))
  /\ Goto(t, IF Ready(Call(t)) THEN "found" ELSE "sleep")
  /\ UNCHANGED <<program, containers, results, locks>>

Wait_KeepsMutex(t) ==
  /\ pc[t] = "sleep"
  /\ waiting' = [waiting EXCEPT ![Object(Call(t))] = @ \union {t}]
  /\ Goto(t, "wait")
  /\ UNCHANGED <<program, containers, results, owner, spurious>>

\* The mutex is released and the thread waits, in one step.
Wait(t) ==
  /\ pc[t] = "sleep"
  /\ owner' = [owner EXCEPT ![Object(Call(t))] = NoThread]
  /\ waiting' = [waiting EXCEPT ![Object(Call(t))] = @ \union {t}]
  /\ Goto(t, "wait")
  /\ UNCHANGED <<program, containers, results, spurious>>

WakeUpSpuriously(t) ==
  /\ pc[t] = "wait" /\ spurious < MaxSpurious
  /\ spurious' = spurious + 1
  /\ waiting' = [waiting EXCEPT ![Object(Call(t))] = @ \ {t}]
  /\ Goto(t, "call")
  /\ UNCHANGED <<program, containers, results, owner>>

ReturnFound(t) ==
  /\ pc[t] = "found"
  /\ Returns(t, Value(Found(Call(t))))
  /\ UNCHANGED <<program, containers, locks>>

NotifyAll_One(t) ==
  /\ pc[t] = "notify"
  /\ LET o == Object(Call(t))
         woken == IF waiting[o] = {} THEN {} ELSE {CHOOSE u \in waiting[o] : TRUE}
     IN  /\ waiting' = [waiting EXCEPT ![o] = @ \ woken]
         /\ pc' = [u \in Threads |-> IF u = t THEN "notified"
                                     ELSE IF u \in woken THEN "call" ELSE pc[u]]
  /\ UNCHANGED <<program, containers, results, owner, spurious>>

NotifyAll(t) ==
  /\ pc[t] = "notify"
  /\ LET o == Object(Call(t))
     IN  /\ waiting' = [waiting EXCEPT ![o] = {}]
         /\ pc' = [u \in Threads |-> IF u = t THEN "notified"
                                     ELSE IF u \in waiting[o] THEN "call" ELSE pc[u]]
  /\ UNCHANGED <<program, containers, results, owner, spurious>>

ReturnNotified(t) ==
  /\ pc[t] = "notified"
  /\ Returns(t, IF Call(t).op = "add_new_player" THEN Value(Len(players) - 1) ELSE Void)
  /\ UNCHANGED <<program, containers, locks>>

-----------------------------------------------------------------------------
(* Working on the object                                                   *)

AddIsRejected(t) ==
  /\ At(t, "enter", {"add_new_player"}) /\ Full
  /\ Returns(t, Rejected)
  /\ UNCHANGED <<program, containers, locks>>

AddIsAllowed_OneMore(t) ==
  /\ At(t, "enter", {"add_new_player"}) /\ Len(players) <= Target
  /\ Goto(t, "insert")
  /\ UNCHANGED <<program, containers, results, locks>>

AddIsAllowed(t) ==
  /\ At(t, "enter", {"add_new_player"}) /\ ~Full
  /\ Goto(t, "insert")
  /\ UNCHANGED <<program, containers, results, locks>>

InsertPlayer(t) ==
  /\ pc[t] = "insert"
  /\ players' = Append(players, Call(t).arg)
  /\ Goto(t, "notify")
  /\ UNCHANGED <<program, turns, finished, score_map, slots, results, locks>>

AppendNewTurn_Silent(t) ==
  /\ At(t, "enter", {"append_new_turn"})
  /\ turns' = Append(turns, Call(t).arg)
  /\ Returns(t, Void)
  /\ UNCHANGED <<program, players, finished, score_map, slots, locks>>

AppendNewTurn(t) ==
  /\ At(t, "enter", {"append_new_turn"})
  /\ turns' = Append(turns, Call(t).arg)
  /\ Goto(t, "notify")
  /\ UNCHANGED <<program, players, finished, score_map, slots, results, locks>>

MarkFinished(t) ==
  /\ At(t, "enter", {"mark_the_game_as_finished"})
  /\ finished' = TRUE
  /\ Goto(t, "score_map")
  /\ UNCHANGED <<program, players, turns, score_map, slots, results, locks>>

StoreScores(t) ==
  /\ pc[t] = "score_map"
  /\ score_map' = Call(t).arg
  /\ Goto(t, "notify")
  /\ UNCHANGED <<program, players, turns, finished, slots, results, locks>>

MarkUpdated(t) ==
  /\ At(t, "enter", {"update_slot"}) /\ ~NoSuchId(Call(t))
  /\ slots' = [slots EXCEPT ![Call(t).arg].first = TRUE]
  /\ Goto(t, "second")
  /\ UNCHANGED <<program, players, turns, finished, score_map, results, locks>>

StoreMove(t) ==
  /\ pc[t] = "second"
  /\ slots' = [slots EXCEPT ![Call(t).arg].second = Call(t).move]
  /\ Returns(t, Void)
  /\ UNCHANGED <<program, players, turns, finished, score_map, locks>>

CopySlots(t) ==
  /\ At(t, "enter", {"atomic_snapshot_and_clear"})
  /\ results' = [results EXCEPT ![t] = Append(@, Value(slots))]
  /\ Goto(t, "clear")
  /\ UNCHANGED <<program, containers, locks>>

ClearSlots(t) ==
  /\ pc[t] = "clear"
  /\ slots' = Cleared
  /\ Goto(t, "unlock")
  /\ UNCHANGED <<program, players, turns, finished, score_map, results, locks>>

Join(t) ==
  /\ At(t, "call", {"join"})
  /\ \A u \in Call(t).arg : Done(u)
  /\ results' = [results EXCEPT ![t] = Append(@, Void)]
  /\ UNCHANGED <<program, containers, pc, locks>>

Step(t) ==
  \/ Lock(t) \/ Unlock(t) \/ Throw(t) \/ EvaluatePredicate(t) \/ Wait(t)
  \/ ReturnFound(t) \/ NotifyAll(t) \/ ReturnNotified(t)
  \/ AddIsRejected(t) \/ AddIsAllowed(t) \/ InsertPlayer(t)
  \/ AppendNewTurn(t) \/ MarkFinished(t) \/ StoreScores(t)
  \/ MarkUpdated(t) \/ StoreMove(t) \/ CopySlots(t) \/ ClearSlots(t)
  \/ Join(t)

Next == \E t \in Threads : Step(t) \/ WakeUpSpuriously(t)

Spec == Init /\ [][Next]_vars

\* Every thread is scheduled; a wait need not end for no reason.
FairSpec == Spec /\ \A t \in Threads : WF_vars(Step(t))

-----------------------------------------------------------------------------
(* Properties                                                              *)

\* Every variable has its type; a mutex is held by a thread that is inside a method
\* of the object, and a thread waits on one condition variable only, that of the
\* object it has called.
TypeOK ==
  /\ program \in Programs
  /\ owner \in [Objects -> Threads \union {NoThread}]
  /\ waiting \in [Objects -> SUBSET Threads]
  /\ spurious \in 0 .. MaxSpurious
  /\ \A t \in Threads : Returned(t) \in 0 .. Len(program[t])
  /\ \A o \in Objects, t \in Threads :
       /\ t \in waiting[o] <=> pc[t] = "wait" /\ Object(Call(t)) = o
       /\ owner[o] = t <=> pc[t] \notin {"call", "wait"} /\ Object(Call(t)) = o

\* Nobody waits for what is there already: a thread on a condition variable has its
\* predicate false, or the thread that has made it true still holds the mutex and is
\* about to notify.
NoLostWakeup ==
  \A o \in Objects : \A t \in waiting[o] :
    \/ ~Ready(Call(t))
    \/ \E u \in Threads : owner[o] = u /\ pc[u] \in {"score_map", "notify"}

\* The id that a call of add_new_player returns is that of its own player, no two calls
\* return the same, and only a full container rejects: although a thread works out its
\* id after it has inserted its player and notified the others.
IdsAreDealt ==
  \A t \in Threads : \A j \in 1 .. Len(results[t]) :
    program[t][j].op = "add_new_player" =>
      \/ results[t][j] = Rejected /\ Full
      \/ /\ \E n \in 0 .. Len(players) - 1 :
              results[t][j] = Value(n) /\ players[n + 1] = program[t][j].arg
         /\ \A u \in Threads : \A k \in 1 .. Len(results[u]) :
              program[u][k].op = "add_new_player" /\ results[u][k] = results[t][j]
                => u = t /\ k = j

\* t has begun to change its object and its result is not there yet.
Begun(t) == pc[t] \in {"score_map", "notify", "notified", "second"}

AtomicResults ==
  [t \in Threads |->
     IF Begun(t)
     THEN Append(results[t],
                 IF Call(t).op = "add_new_player" THEN Value(Len(players) - 1) ELSE Void)
     ELSE results[t]]

AtomicScores ==
  IF \E t \in Threads : pc[t] = "score_map"
  THEN Call(CHOOSE t \in Threads : pc[t] = "score_map").arg
  ELSE score_map

\* A slot whose first component has been set has been given its move.
AtomicSlots ==
  IF \E t \in Threads : pc[t] = "clear" THEN Cleared
  ELSE [id \in Ids |->
          IF \E t \in Threads : pc[t] = "second" /\ Call(t).arg = id
          THEN [slots[id] EXCEPT !.second =
                  Call(CHOOSE t \in Threads : pc[t] = "second").move]
          ELSE slots[id]]

Atomic == INSTANCE Calls WITH results <- AtomicResults, score_map <- AtomicScores,
                              slots <- AtomicSlots

\* Each call takes effect at one moment, although its statements do not: before its
\* first effect on the object it has not happened, from then on it has.
ImplementsCalls == Atomic!Spec

\* Whatever a thread waits for when the programs of all threads together bring it
\* about, its call returns, and so do all the calls after it.
AllCallsReturn == <>\A t \in Threads : Done(t)
=============================================================================
