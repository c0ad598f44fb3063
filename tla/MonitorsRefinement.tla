------------------------- MODULE MonitorsRefinement -------------------------
(***************************************************************************)
(* Monitors implements Calls: every call on a container takes effect at    *)
(* one moment, for all threads, programs and numbers of players; hence     *)
(* each player gets an id of its own, and the repository's test passes.    *)
(***************************************************************************)
EXTENDS MonitorsProofs, AcceptedPlayerContainerTest, FiniteSetTheorems

\* What a thread has found out or has to do yet, by its place in a method.
Midway(t) ==
  /\ pc[t] = "insert" => ~Full
  /\ pc[t] = "found" => Ready(Call(t)) /\ ~NoSuchId(Call(t))
  /\ pc[t] = "score_map" => Call(t).op = "mark_the_game_as_finished"
  /\ pc[t] = "second" => Call(t).op = "update_slot"
  /\ pc[t] = "clear" => Call(t).op = "atomic_snapshot_and_clear"
  /\ pc[t] \in {"notify", "notified"} =>
       Call(t).op \in {"add_new_player", "append_new_turn", "mark_the_game_as_finished"}

Data ==
  /\ Len(players) \in Nat
  /\ slots = [id \in Ids |-> slots[id]]
  /\ \A id \in Ids : slots[id] = [first |-> slots[id].first, second |-> slots[id].second]

RInv == IInv /\ Data /\ \A t \in Threads : Midway(t)

LEMMA InitRInv == Init => RInv
<1> SUFFICES ASSUME Init PROVE RInv
  OBVIOUS
<1>1. IInv
  BY InitIInv
<1>2. /\ \A t \in Threads : pc[t] = "call"
      /\ players = <<>> /\ slots = [id \in Ids |-> [first |-> FALSE, second |-> "none"]]
  BY DEF Init, ContainersInit
<1>3. Data
  BY <1>2 DEF Data
<1>4. \A t \in Threads : Midway(t)
  BY <1>2 DEF Midway
<1> QED
  BY <1>1, <1>3, <1>4 DEF RInv

-----------------------------------------------------------------------------
(* What the other threads see of a step *)

\* A thread in a method of an object sees no other thread change it.
Unseen(u) ==
  /\ Object(Call(u)) = "accepted_players" => players' = players
  /\ Object(Call(u)) = "turn_container" =>
       UNCHANGED <<turns, finished, score_map>>
  /\ Object(Call(u)) = "move_container" => slots' = slots

LEMMA OthersUnseen ==
  ASSUME RInv, NEW t \in Threads, Step(t) \/ WakeUpSpuriously(t),
         NEW u \in Threads \ {t}, pc[u] \in Inside
  PROVE  Unseen(u)
<1>1. pc[t] \in Inside => Object(Call(u)) # Object(Call(t))
  BY MutualExclusion DEF RInv, Inside
<1>2. CASE InsertPlayer(t)
  <2>1. Object(Call(t)) = "accepted_players"
    BY <1>2 DEF InsertPlayer, Object, RInv, IInv, Kept, Placed
  <2> QED
    BY <1>1, <1>2, <2>1 DEF InsertPlayer, Unseen, Inside
<1>3. CASE AppendNewTurn(t)
  <2>1. Object(Call(t)) = "turn_container"
    BY <1>3 DEF AppendNewTurn, At, Object
  <2> QED
    BY <1>1, <1>3, <2>1 DEF AppendNewTurn, At, Unseen, Inside
<1>4. CASE MarkFinished(t)
  <2>1. Object(Call(t)) = "turn_container"
    BY <1>4 DEF MarkFinished, At, Object
  <2> QED
    BY <1>1, <1>4, <2>1 DEF MarkFinished, At, Unseen, Inside
<1>5. CASE StoreScores(t)
  <2>1. Object(Call(t)) = "turn_container"
    BY <1>5 DEF StoreScores, Object, RInv, Midway
  <2> QED
    BY <1>1, <1>5, <2>1 DEF StoreScores, Unseen, Inside
<1>6. CASE MarkUpdated(t)
  <2>1. Object(Call(t)) = "move_container"
    BY <1>6 DEF MarkUpdated, At, Object
  <2> QED
    BY <1>1, <1>6, <2>1 DEF MarkUpdated, At, Unseen, Inside
<1>7. CASE StoreMove(t)
  <2>1. Object(Call(t)) = "move_container"
    BY <1>7 DEF StoreMove, Object, RInv, Midway
  <2> QED
    BY <1>1, <1>7, <2>1 DEF StoreMove, Unseen, Inside
<1>8. CASE ClearSlots(t)
  <2>1. Object(Call(t)) = "move_container"
    BY <1>8 DEF ClearSlots, Object, RInv, Midway
  <2> QED
    BY <1>1, <1>8, <2>1 DEF ClearSlots, Unseen, Inside
<1>9. CASE UNCHANGED containers
  BY <1>9 DEF containers, Unseen
<1>10. \/ InsertPlayer(t) \/ AppendNewTurn(t) \/ MarkFinished(t) \/ StoreScores(t)
       \/ MarkUpdated(t) \/ StoreMove(t) \/ ClearSlots(t) \/ UNCHANGED containers
  BY DEF Step, WakeUpSpuriously, Lock, Unlock, Throw, EvaluatePredicate, Wait,
     ReturnFound, NotifyAll, ReturnNotified, AddIsRejected, AddIsAllowed, CopySlots, Join
<1> QED
  BY <1>2, <1>3, <1>4, <1>5, <1>6, <1>7, <1>8, <1>9, <1>10

\* Nor does its own call change, and it is where it was, except that it may be woken.
LEMMA OthersStay ==
  ASSUME RInv, NEW t \in Threads, Step(t) \/ WakeUpSpuriously(t),
         NEW u \in Threads \ {t}
  PROVE  /\ pc'[u] = pc[u] \/ (pc[u] = "wait" /\ pc'[u] = "call")
         /\ results'[u] = results[u]
         /\ Returned(u)' = Returned(u) /\ Call(u)' = Call(u)
<1>1. pc'[u] = pc[u] \/ (pc[u] = "wait" /\ pc'[u] = "call")
  <2>1. CASE NotifyAll(t)
    <3>1. u \in waiting[Object(Call(t))] => pc[u] = "wait"
      BY ObjectType DEF RInv, IInv, TypeOK
    <3> QED
      BY <2>1, <3>1 DEF NotifyAll
  <2>2. CASE ~NotifyAll(t)
    BY <2>2 DEF Step, WakeUpSpuriously, Lock, Unlock, Throw, EvaluatePredicate, Wait,
       ReturnFound, ReturnNotified, AddIsRejected, AddIsAllowed, InsertPlayer,
       AppendNewTurn, MarkFinished, StoreScores, MarkUpdated, StoreMove, CopySlots,
       ClearSlots, Join, Returns, Goto, RInv, IInv, Kept
  <2> QED
    BY <2>1, <2>2
<1>2. results'[u] = results[u] /\ program' = program
  BY DEF Step, WakeUpSpuriously, Lock, Unlock, Throw, EvaluatePredicate, Wait,
     ReturnFound, NotifyAll, ReturnNotified, AddIsRejected, AddIsAllowed, InsertPlayer,
     AppendNewTurn, MarkFinished, StoreScores, MarkUpdated, StoreMove, CopySlots,
     ClearSlots, Join, Returns, Goto, RInv, IInv, Kept
<1>3. Returned(u)' = Returned(u)
  BY <1>1, <1>2 DEF Returned
<1> QED
  BY <1>1, <1>2, <1>3 DEF Call

-----------------------------------------------------------------------------
(* The invariant *)

LEMMA OthersMidway ==
  ASSUME RInv, NEW t \in Threads, Step(t) \/ WakeUpSpuriously(t),
         NEW u \in Threads \ {t}
  PROVE  Midway(u)'
<1>1. Call(u)' = Call(u) /\ (pc'[u] = pc[u] \/ pc'[u] = "call")
  BY OthersStay
<1>2. Midway(u)
  BY DEF RInv
<1>3. CASE pc'[u] \in {"call", "wait"}
  BY <1>3 DEF Midway
<1>4. CASE pc'[u] \notin {"call", "wait"}
  <2>1. pc'[u] = pc[u] /\ pc[u] \in Inside
    BY <1>1, <1>4 DEF RInv, IInv, Kept, Places
  <2>2. Unseen(u)
    BY <2>1, OthersUnseen
  <2>3. pc[u] = "insert" => Full' = Full
    BY <2>2 DEF Unseen, Object, Full, RInv, IInv, Kept, Placed
  <2>4. pc[u] = "found" => Ready(Call(u))' /\ ~NoSuchId(Call(u))'
    <3>1. CASE pc[u] # "found"
      BY <3>1
    <3>2. CASE pc[u] = "found"
      <4>1. Call(u).op \in Waits /\ Ready(Call(u)) /\ ~NoSuchId(Call(u))
        BY <1>2, <3>2 DEF Midway, RInv, IInv, Kept, Placed
      <4>2. CASE Object(Call(u)) = "accepted_players"
        BY <1>1, <2>2, <4>1, <4>2 DEF Unseen, Object, Waits, Ready, Full, NoSuchId
      <4>3. CASE Object(Call(u)) # "accepted_players"
        <5>1. Call(u).op \in {"get_turn", "return_when_game_finished"}
          BY <4>1, <4>3 DEF Object, Waits
        <5>2. turns' = turns /\ finished' = finished
          BY <2>2, <5>1 DEF Unseen, Object
        <5>3. Ready(Call(u))' = Ready(Call(u))
          BY <1>1, <5>1, <5>2 DEF Ready
        <5>4. ~NoSuchId(Call(u))'
          BY <1>1, <5>1 DEF NoSuchId
        <5>5. Ready(Call(u))'
          BY <4>1, <5>3, Zenon
        <5> QED
          BY <5>4, <5>5, Zenon
      <4> QED
        BY <4>2, <4>3
    <3> QED
      BY <3>1, <3>2
  <2> QED
    BY <1>1, <1>2, <2>1, <2>3, <2>4 DEF Midway
<1> QED
  BY <1>3, <1>4

\* Where a step of t takes t: its call is the same until it returns.
LEMMA OwnCall ==
  ASSUME RInv, NEW t \in Threads, Step(t) \/ WakeUpSpuriously(t), pc'[t] # "call"
  PROVE  Call(t)' = Call(t)
<1>1. CASE Lock(t)
  BY <1>1, Unmoved DEF Lock, Goto, RInv, IInv, Kept
<1>2. CASE Wait(t)
  BY <1>2, Unmoved DEF Wait, Goto, RInv, IInv, Kept
<1>3. CASE NotifyAll(t)
  BY <1>3, Unmoved DEF NotifyAll, RInv, IInv, Kept
<1>4. CASE Unlock(t) \/ Join(t) \/ WakeUpSpuriously(t)
  BY <1>4 DEF Unlock, Join, At, WakeUpSpuriously, Goto, RInv, IInv, Kept
<1>5. CASE InsideStep(t)
  BY <1>5 DEF InsideStep, Call
<1> QED
  BY <1>1, <1>2, <1>3, <1>4, <1>5, MethodStep DEF Step, RInv

LEMMA OwnMidway ==
  ASSUME RInv, NEW t \in Threads, Step(t) \/ WakeUpSpuriously(t)
  PROVE  Midway(t)'
<1>1. CASE pc'[t] = "call"
  BY <1>1 DEF Midway
<1>2. CASE pc'[t] # "call"
  <2> DEFINE now == pc[t]
             next == pc'[t]
  <2>1. Call(t)' = Call(t)
    BY <1>2, OwnCall
  <2>2. /\ next = "insert" => AddIsAllowed(t)
        /\ next = "found" => EvaluatePredicate(t)
        /\ next = "score_map" => MarkFinished(t)
        /\ next = "second" => MarkUpdated(t)
        /\ next = "clear" => CopySlots(t)
        /\ next = "notify" => InsertPlayer(t) \/ AppendNewTurn(t) \/ StoreScores(t)
        /\ next = "notified" => NotifyAll(t)
    BY DEF Step, WakeUpSpuriously, Lock, Unlock, Throw, EvaluatePredicate, Wait,
       ReturnFound, NotifyAll, ReturnNotified, AddIsRejected, AddIsAllowed, InsertPlayer,
       AppendNewTurn, MarkFinished, StoreScores, MarkUpdated, StoreMove, CopySlots,
       ClearSlots, Join, At, Returns, Goto, RInv, IInv, Kept
  <2>3. next = "insert" => ~Full'
    BY <2>2 DEF AddIsAllowed, containers, Full
  <2>4. ASSUME next = "found" PROVE Ready(Call(t))' /\ ~NoSuchId(Call(t))'
    <3>1. EvaluatePredicate(t)
      BY <2>2, <2>4
    <3>2. Call(t).op \in Waits /\ ~NoSuchId(Call(t)) /\ UNCHANGED containers
      BY <3>1 DEF EvaluatePredicate, At
    <3>3. Ready(Call(t))
      BY <2>4, <3>1 DEF EvaluatePredicate, At, Goto, RInv, IInv, Kept
    <3>4. Ready(Call(t))' = Ready(Call(t))
      BY <2>1, <3>2, SameReadiness DEF containers
    <3> QED
      BY <2>1, <3>2, <3>3, <3>4 DEF NoSuchId
  <2>5. /\ next = "score_map" => Call(t).op = "mark_the_game_as_finished"
        /\ next = "second" => Call(t).op = "update_slot"
        /\ next = "clear" => Call(t).op = "atomic_snapshot_and_clear"
    BY <2>2 DEF MarkFinished, MarkUpdated, CopySlots, At
  <2>6. next \in {"notify", "notified"} =>
          Call(t).op \in {"add_new_player", "append_new_turn", "mark_the_game_as_finished"}
    BY <2>2 DEF InsertPlayer, AppendNewTurn, StoreScores, NotifyAll, At, RInv, Midway,
       IInv, Kept, Placed
  <2> QED
    BY <2>1, <2>3, <2>4, <2>5, <2>6 DEF Midway
<1> QED
  BY <1>1, <1>2

LEMMA DataKept ==
  ASSUME RInv, NEW t \in Threads, Step(t) \/ WakeUpSpuriously(t)
  PROVE  Data'
<1>1. CASE InsertPlayer(t)
  BY <1>1 DEF InsertPlayer, RInv, Data, Ids
<1>2. CASE MarkUpdated(t)
  BY <1>2 DEF MarkUpdated, RInv, Data, Ids
<1>3. CASE StoreMove(t)
  BY <1>3 DEF StoreMove, RInv, Data, Ids
<1>4. CASE ClearSlots(t)
  BY <1>4 DEF ClearSlots, Cleared, RInv, Data, Ids
<1>5. CASE UNCHANGED <<players, slots>>
  BY <1>5 DEF RInv, Data, Ids
<1>6. \/ InsertPlayer(t) \/ MarkUpdated(t) \/ StoreMove(t) \/ ClearSlots(t)
      \/ UNCHANGED <<players, slots>>
  BY DEF Step, WakeUpSpuriously, Lock, Unlock, Throw, EvaluatePredicate, Wait,
     ReturnFound, NotifyAll, ReturnNotified, AddIsRejected, AddIsAllowed, AppendNewTurn,
     MarkFinished, StoreScores, CopySlots, Join, containers
<1> QED
  BY <1>1, <1>2, <1>3, <1>4, <1>5, <1>6

LEMMA NextRInv == RInv /\ [Next]_vars => RInv'
<1> SUFFICES ASSUME RInv, [Next]_vars PROVE RInv'
  OBVIOUS
<1>1. IInv'
  BY NextInv DEF RInv
<1>2. ASSUME NEW t \in Threads, Step(t) \/ WakeUpSpuriously(t) PROVE RInv'
  BY <1>1, <1>2, OthersMidway, OwnMidway, DataKept DEF RInv
<1>3. CASE UNCHANGED vars
  <2>1. UNCHANGED <<program, players, turns, finished, slots, results, pc>>
    BY <1>3 DEF vars, containers
  <2>2. Data'
    BY <2>1 DEF RInv, Data, Ids
  <2>3. ASSUME NEW t \in Threads PROVE Midway(t)'
    BY <2>1 DEF RInv, Midway, Full, Ready, NoSuchId, Call, Returned
  <2> QED
    BY <1>1, <2>2, <2>3 DEF RInv
<1> QED
  BY <1>2, <1>3 DEF Next

-----------------------------------------------------------------------------
(* The refinement mapping *)

\* Two threads are not at the places at which an object is half changed.
LEMMA OneAtATime ==
  ASSUME RInv, NEW t \in Threads, NEW u \in Threads, u # t
  PROVE  /\ ~(pc[t] = "score_map" /\ pc[u] = "score_map")
         /\ ~(pc[t] \in {"second", "clear"} /\ pc[u] \in {"second", "clear"})
<1>1. pc[t] = "score_map" /\ pc[u] = "score_map" => FALSE
  BY MutualExclusion DEF RInv, Midway, Object
<1>2. pc[t] \in {"second", "clear"} /\ pc[u] \in {"second", "clear"} => FALSE
  BY MutualExclusion DEF RInv, Midway, Object
<1> QED
  BY <1>1, <1>2

\* AtomicScores without its CHOOSE.
LEMMA ScoresAre ==
  RInv => /\ \A t \in Threads : pc[t] = "score_map" => AtomicScores = Call(t).arg
          /\ (\A t \in Threads : pc[t] # "score_map") => AtomicScores = score_map
<1> SUFFICES ASSUME RInv
             PROVE  /\ \A t \in Threads : pc[t] = "score_map" => AtomicScores = Call(t).arg
                    /\ (\A t \in Threads : pc[t] # "score_map") => AtomicScores = score_map
  OBVIOUS
<1>1. ASSUME NEW t \in Threads, pc[t] = "score_map" PROVE AtomicScores = Call(t).arg
  <2> DEFINE w == CHOOSE u \in Threads : pc[u] = "score_map"
  <2>1. w \in Threads /\ pc[w] = "score_map"
    BY <1>1
  <2>2. w = t
    BY <1>1, <2>1, OneAtATime
  <2>3. AtomicScores = Call(w).arg
    BY <1>1 DEF AtomicScores
  <2> QED
    BY <2>2, <2>3
<1>2. (\A t \in Threads : pc[t] # "score_map") => AtomicScores = score_map
  BY DEF AtomicScores
<1> QED
  BY <1>1, <1>2

\* AtomicSlots without its CHOOSE.
LEMMA SlotsAre ==
  RInv => /\ \A t \in Threads : pc[t] = "clear" => AtomicSlots = Cleared
          /\ \A t \in Threads : pc[t] = "second" =>
               AtomicSlots = [id \in Ids |->
                                IF Call(t).arg = id
                                THEN [slots[id] EXCEPT !.second = Call(t).move]
                                ELSE slots[id]]
          /\ (\A t \in Threads : pc[t] \notin {"second", "clear"}) => AtomicSlots = slots
<1> SUFFICES ASSUME RInv
             PROVE  /\ \A t \in Threads : pc[t] = "clear" => AtomicSlots = Cleared
                    /\ \A t \in Threads : pc[t] = "second" =>
                         AtomicSlots = [id \in Ids |->
                                          IF Call(t).arg = id
                                          THEN [slots[id] EXCEPT !.second = Call(t).move]
                                          ELSE slots[id]]
                    /\ (\A t \in Threads : pc[t] \notin {"second", "clear"})
                         => AtomicSlots = slots
  OBVIOUS
<1>1. ASSUME NEW t \in Threads, pc[t] = "clear" PROVE AtomicSlots = Cleared
  BY <1>1 DEF AtomicSlots
<1>2. ASSUME NEW t \in Threads, pc[t] = "second"
      PROVE  AtomicSlots = [id \in Ids |->
                              IF Call(t).arg = id
                              THEN [slots[id] EXCEPT !.second = Call(t).move]
                              ELSE slots[id]]
  <2> DEFINE w == CHOOSE u \in Threads : pc[u] = "second"
  <2>1. w \in Threads /\ pc[w] = "second"
    BY <1>2
  <2>2. w = t
    BY <1>2, <2>1, OneAtATime
  <2>3. ~ \E u \in Threads : pc[u] = "clear"
    BY <1>2, OneAtATime
  <2>4. \A id : (\E u \in Threads : pc[u] = "second" /\ Call(u).arg = id) <=> Call(t).arg = id
    BY <1>2, OneAtATime
  <2>5. AtomicSlots = [id \in Ids |->
                         IF \E u \in Threads : pc[u] = "second" /\ Call(u).arg = id
                         THEN [slots[id] EXCEPT !.second = Call(w).move]
                         ELSE slots[id]]
    BY <2>3 DEF AtomicSlots
  <2>6. \A id \in Ids :
          (IF \E u \in Threads : pc[u] = "second" /\ Call(u).arg = id
           THEN [slots[id] EXCEPT !.second = Call(w).move] ELSE slots[id])
          = (IF Call(t).arg = id
             THEN [slots[id] EXCEPT !.second = Call(t).move] ELSE slots[id])
    BY <2>2, <2>4
  <2> QED
    BY <2>5, <2>6
<1>3. (\A t \in Threads : pc[t] \notin {"second", "clear"}) => AtomicSlots = slots
  <2>1. slots = [id \in Ids |-> slots[id]]
    BY DEF RInv, Data
  <2> QED
    BY <2>1 DEF AtomicSlots
<1> QED
  BY <1>1, <1>2, <1>3

\* Before its call has had an effect, a thread is there with its call.
LEMMA ResultsAre ==
  ASSUME RInv, NEW t \in Threads, pc[t] \in {"call", "enter", "found", "insert"}
  PROVE  /\ AtomicResults[t] = results[t] /\ Len(AtomicResults[t]) = Returned(t)
         /\ ~Done(t) => /\ Len(AtomicResults[t]) < Len(program[t])
                        /\ program[t][Len(AtomicResults[t]) + 1] = Call(t)
<1>1. AtomicResults[t] = results[t] /\ Len(AtomicResults[t]) = Returned(t)
  <2>1. ~Begun(t) /\ pc[t] \notin {"clear", "unlock"}
    BY DEF Begun
  <2>2. AtomicResults[t] = results[t]
    BY <2>1 DEF AtomicResults
  <2>3. Returned(t) = Len(results[t]) - 0 /\ Len(results[t]) \in Nat
    BY <2>1 DEF Returned, RInv, IInv, Kept
  <2> QED
    BY <2>2, <2>3
<1>2. Returned(t) \in 0 .. Len(program[t]) /\ Len(program[t]) \in Nat
  BY ContainersAssumption DEF RInv, IInv, TypeOK
<1> QED
  BY <1>1, <1>2 DEF Done, Call

\* The results of the other threads stay.
LEMMA OthersResults ==
  ASSUME RInv, NEW t \in Threads, Step(t) \/ WakeUpSpuriously(t),
         NEW u \in Threads \ {t}
  PROVE  AtomicResults'[u] = AtomicResults[u]
<1>1. /\ pc'[u] = pc[u] \/ (pc[u] = "wait" /\ pc'[u] = "call")
      /\ results'[u] = results[u] /\ Call(u)' = Call(u)
  BY OthersStay
<1>2. Begun(u)' <=> Begun(u)
  BY <1>1 DEF Begun
<1>3. CASE ~Begun(u)
  BY <1>1, <1>2, <1>3 DEF AtomicResults
<1>4. CASE Begun(u) /\ Call(u).op # "add_new_player"
  BY <1>1, <1>2, <1>4 DEF AtomicResults
<1>5. CASE Begun(u) /\ Call(u).op = "add_new_player"
  <2>1. players' = players
    BY <1>5, OthersUnseen DEF Unseen, Object, Begun, Inside
  <2> QED
    BY <1>1, <1>2, <1>5, <2>1 DEF AtomicResults
<1> QED
  BY <1>3, <1>4, <1>5

\* So a step changes nothing in the results or appends what t is returned.
LEMMA ResultsStay ==
  ASSUME RInv, NEW t \in Threads, Step(t) \/ WakeUpSpuriously(t),
         AtomicResults'[t] = AtomicResults[t]
  PROVE  AtomicResults' = AtomicResults
<1>1. \A u \in Threads : AtomicResults'[u] = AtomicResults[u]
  BY OthersResults
<1> QED
  BY <1>1 DEF AtomicResults

LEMMA ResultsGrow ==
  ASSUME RInv, NEW t \in Threads, Step(t), NEW v,
         AtomicResults'[t] = Append(AtomicResults[t], v)
  PROVE  AtomicResults' = [AtomicResults EXCEPT ![t] = Append(@, v)]
<1>1. \A u \in Threads \ {t} : AtomicResults'[u] = AtomicResults[u]
  BY OthersResults
<1> QED
  BY <1>1 DEF AtomicResults

LEMMA ScoresAreNext ==
  RInv' => /\ \A t \in Threads : pc'[t] = "score_map" => AtomicScores' = Call(t)'.arg
           /\ (\A t \in Threads : pc'[t] # "score_map") => AtomicScores' = score_map'
<1>1. RInv' => (/\ \A t \in Threads : pc[t] = "score_map" => AtomicScores = Call(t).arg
                /\ (\A t \in Threads : pc[t] # "score_map") => AtomicScores = score_map)'
  BY ScoresAre, PTL
<1> QED
  BY <1>1

LEMMA SlotsAreNext ==
  RInv' => /\ \A t \in Threads : pc'[t] = "clear" => AtomicSlots' = Cleared'
           /\ \A t \in Threads : pc'[t] = "second" =>
                AtomicSlots' = [id \in Ids |->
                                  IF Call(t)'.arg = id
                                  THEN [slots'[id] EXCEPT !.second = Call(t)'.move]
                                  ELSE slots'[id]]
           /\ (\A t \in Threads : pc'[t] \notin {"second", "clear"}) => AtomicSlots' = slots'
<1>1. RInv' => (/\ \A t \in Threads : pc[t] = "clear" => AtomicSlots = Cleared
                /\ \A t \in Threads : pc[t] = "second" =>
                     AtomicSlots = [id \in Ids |->
                                      IF Call(t).arg = id
                                      THEN [slots[id] EXCEPT !.second = Call(t).move]
                                      ELSE slots[id]]
                /\ (\A t \in Threads : pc[t] \notin {"second", "clear"})
                     => AtomicSlots = slots)'
  BY SlotsAre, PTL
<1> QED
  BY <1>1

\* A step that does not touch the scores or the slots leaves what they stand for.
LEMMA ScoresStay ==
  ASSUME RInv, RInv', NEW t \in Threads, Step(t) \/ WakeUpSpuriously(t),
         score_map' = score_map, pc[t] # "score_map", pc'[t] # "score_map"
  PROVE  AtomicScores' = AtomicScores
<1>1. CASE \E u \in Threads : pc[u] = "score_map"
  <2> PICK u \in Threads : pc[u] = "score_map"
    BY <1>1
  <2>1. pc'[u] = "score_map" /\ Call(u)' = Call(u)
    BY OthersStay
  <2> QED
    BY <2>1, ScoresAre, ScoresAreNext
<1>2. CASE \A u \in Threads : pc[u] # "score_map"
  <2>1. \A u \in Threads : pc'[u] # "score_map"
    BY <1>2, OthersStay
  <2> QED
    BY <1>2, <2>1, ScoresAre, ScoresAreNext
<1> QED
  BY <1>1, <1>2

LEMMA SlotsStay ==
  ASSUME RInv, RInv', NEW t \in Threads, Step(t) \/ WakeUpSpuriously(t),
         slots' = slots, pc[t] \notin {"second", "clear"}, pc'[t] \notin {"second", "clear"}
  PROVE  AtomicSlots' = AtomicSlots
<1>1. CASE \E u \in Threads : pc[u] = "clear"
  <2> PICK u \in Threads : pc[u] = "clear"
    BY <1>1
  <2>1. pc'[u] = "clear" /\ Cleared' = Cleared
    BY OthersStay DEF Cleared, Ids
  <2> QED
    BY <2>1, SlotsAre, SlotsAreNext
<1>2. CASE \E u \in Threads : pc[u] = "second"
  <2> PICK u \in Threads : pc[u] = "second"
    BY <1>2
  <2>1. pc'[u] = "second" /\ Call(u)' = Call(u)
    BY OthersStay
  <2>2. AtomicSlots = [id \in Ids |-> IF Call(u).arg = id
                                      THEN [slots[id] EXCEPT !.second = Call(u).move]
                                      ELSE slots[id]]
    BY SlotsAre
  <2>3. AtomicSlots' = [id \in Ids |-> IF Call(u)'.arg = id
                                       THEN [slots'[id] EXCEPT !.second = Call(u)'.move]
                                       ELSE slots'[id]]
    BY <2>1, SlotsAreNext
  <2> QED
    BY <2>1, <2>2, <2>3
<1>3. CASE \A u \in Threads : pc[u] \notin {"second", "clear"}
  <2>1. \A u \in Threads : pc'[u] \notin {"second", "clear"}
    BY <1>3, OthersStay
  <2> QED
    BY <1>3, <2>1, SlotsAre, SlotsAreNext
<1> QED
  BY <1>1, <1>2, <1>3

-----------------------------------------------------------------------------
(* Steps that Calls does not see *)

LEMMA Invisible ==
  ASSUME RInv, RInv', NEW t \in Threads,
         \/ Lock(t) \/ Unlock(t) \/ EvaluatePredicate(t) \/ Wait(t) \/ NotifyAll(t)
         \/ ReturnNotified(t) \/ AddIsAllowed(t) \/ StoreScores(t) \/ StoreMove(t)
         \/ ClearSlots(t) \/ WakeUpSpuriously(t)
  PROVE  UNCHANGED Atomic!vars
<1>1. Step(t) \/ WakeUpSpuriously(t)
  BY DEF Step
<1>2. program' = program /\ UNCHANGED <<players, turns, finished>>
  BY DEF Lock, Unlock, EvaluatePredicate, Wait, NotifyAll, ReturnNotified, AddIsAllowed,
     StoreScores, StoreMove, ClearSlots, WakeUpSpuriously, containers
<1>3. AtomicResults' = AtomicResults
  <2>1. CASE ReturnNotified(t)
    <3>1. Begun(t) /\ ~Begun(t)' /\ pc[t] = "notified"
      BY <2>1 DEF ReturnNotified, Returns, Goto, Begun, RInv, IInv, Kept
    <3>2. results'[t] = Append(results[t],
            IF Call(t).op = "add_new_player" THEN Value(Len(players) - 1) ELSE Void)
      BY <2>1 DEF ReturnNotified, Returns, RInv, IInv, Kept
    <3>3. AtomicResults'[t] = AtomicResults[t]
      BY <3>1, <3>2 DEF AtomicResults
    <3> QED
      BY <1>1, <3>3, ResultsStay
  <2>2. CASE StoreMove(t)
    <3>1. Begun(t) /\ ~Begun(t)' /\ Call(t).op = "update_slot"
      BY <2>2 DEF StoreMove, Returns, Goto, Begun, RInv, IInv, Kept, Midway
    <3>2. results'[t] = Append(results[t], Void)
      BY <2>2 DEF StoreMove, Returns, RInv, IInv, Kept
    <3>3. AtomicResults'[t] = AtomicResults[t]
      BY <3>1, <3>2 DEF AtomicResults
    <3> QED
      BY <1>1, <3>3, ResultsStay
  <2>3. CASE NotifyAll(t) \/ StoreScores(t)
    <3>1. Begun(t) /\ Begun(t)' /\ results' = results /\ pc'[t] # "call"
      BY <2>3 DEF NotifyAll, StoreScores, Goto, Begun, RInv, IInv, Kept
    <3>2. Call(t)' = Call(t)
      BY <1>1, <3>1, OwnCall
    <3>3. AtomicResults'[t] = AtomicResults[t]
      BY <1>2, <3>1, <3>2 DEF AtomicResults
    <3> QED
      BY <1>1, <3>3, ResultsStay
  <2>4. CASE \/ Lock(t) \/ Unlock(t) \/ EvaluatePredicate(t) \/ Wait(t)
             \/ AddIsAllowed(t) \/ ClearSlots(t) \/ WakeUpSpuriously(t)
    <3>1. ~Begun(t) /\ ~Begun(t)' /\ results' = results
      BY <2>4 DEF Lock, Unlock, EvaluatePredicate, Wait, AddIsAllowed, ClearSlots,
         WakeUpSpuriously, At, Goto, Begun, RInv, IInv, Kept
    <3>2. AtomicResults'[t] = AtomicResults[t]
      BY <3>1 DEF AtomicResults
    <3> QED
      BY <1>1, <3>2, ResultsStay
  <2> QED
    BY <2>1, <2>2, <2>3, <2>4
<1>4. AtomicScores' = AtomicScores
  <2>1. CASE StoreScores(t)
    <3>1. pc[t] = "score_map" /\ pc'[t] = "notify" /\ score_map' = Call(t).arg
      BY <2>1 DEF StoreScores, Goto, RInv, IInv, Kept
    <3>2. \A u \in Threads : pc'[u] # "score_map"
      BY <1>1, <3>1, OneAtATime, OthersStay
    <3> QED
      BY <3>1, <3>2, ScoresAre, ScoresAreNext
  <2>2. CASE ~StoreScores(t)
    <3>1. score_map' = score_map /\ pc[t] # "score_map" /\ pc'[t] # "score_map"
      BY <2>2 DEF Lock, Unlock, EvaluatePredicate, Wait, NotifyAll, ReturnNotified,
         AddIsAllowed, StoreMove, ClearSlots, WakeUpSpuriously, At, Returns, Goto,
         containers, RInv, IInv, Kept
    <3> QED
      BY <1>1, <3>1, ScoresStay
  <2> QED
    BY <2>1, <2>2
<1>5. AtomicSlots' = AtomicSlots
  <2>1. CASE StoreMove(t)
    <3>1. /\ pc[t] = "second" /\ pc'[t] = "unlock"
          /\ slots' = [slots EXCEPT ![Call(t).arg].second = Call(t).move]
      BY <2>1 DEF StoreMove, Returns, Goto, RInv, IInv, Kept
    <3>2. \A u \in Threads : pc'[u] \notin {"second", "clear"}
      BY <1>1, <3>1, OneAtATime, OthersStay
    <3>3. AtomicSlots' = slots'
      BY <3>2, SlotsAreNext
    <3>4. AtomicSlots = [id \in Ids |-> IF Call(t).arg = id
                                        THEN [slots[id] EXCEPT !.second = Call(t).move]
                                        ELSE slots[id]]
      BY <3>1, SlotsAre
    <3>5. slots = [id \in Ids |-> slots[id]]
      BY DEF RInv, Data
    <3> QED
      BY <3>1, <3>3, <3>4, <3>5
  <2>2. CASE ClearSlots(t)
    <3>1. pc[t] = "clear" /\ pc'[t] = "unlock" /\ slots' = Cleared
      BY <2>2 DEF ClearSlots, Goto, RInv, IInv, Kept
    <3>2. \A u \in Threads : pc'[u] \notin {"second", "clear"}
      BY <1>1, <3>1, OneAtATime, OthersStay
    <3> QED
      BY <3>1, <3>2, SlotsAre, SlotsAreNext
  <2>3. CASE ~StoreMove(t) /\ ~ClearSlots(t)
    <3>1. slots' = slots /\ pc[t] \notin {"second", "clear"} /\ pc'[t] \notin {"second", "clear"}
      BY <2>3 DEF Lock, Unlock, EvaluatePredicate, Wait, NotifyAll, ReturnNotified,
         AddIsAllowed, StoreScores, WakeUpSpuriously, At, Returns, Goto,
         containers, RInv, IInv, Kept
    <3> QED
      BY <1>1, <3>1, SlotsStay
  <2> QED
    BY <2>1, <2>2, <2>3
<1> QED
  BY <1>2, <1>3, <1>4, <1>5 DEF Atomic!vars, Atomic!containers

-----------------------------------------------------------------------------
(* Steps at which a call takes effect *)

\* What makes such a step one of Calls.
LEMMA Visible ==
  ASSUME RInv, NEW t \in Threads, Step(t), ~Done(t),
         pc[t] \in {"call", "enter", "found", "insert"},
         \/ Atomic!Throws(t, Call(t)) \/ Atomic!Waited(t, Call(t))
         \/ Atomic!AddNewPlayer(t, Call(t)) \/ Atomic!AppendNewTurn(t, Call(t))
         \/ Atomic!MarkTheGameAsFinished(t, Call(t)) \/ Atomic!UpdateSlot(t, Call(t))
         \/ Atomic!AtomicSnapshotAndClear(t, Call(t)) \/ Atomic!Joins(t, Call(t))
  PROVE  Atomic!Next
<1>1. /\ Len(AtomicResults[t]) < Len(program[t])
      /\ program[t][Len(AtomicResults[t]) + 1] = Call(t)
  BY ResultsAre
<1> QED
  BY <1>1 DEF Atomic!Next

\* The result of a step that returns or throws, and of one that begins to change the
\* object.
LEMMA ReturnsAtOnce ==
  ASSUME RInv, NEW t \in Threads, Step(t), pc[t] \in {"enter", "found"},
         NEW v, results' = [results EXCEPT ![t] = Append(@, v)],
         pc'[t] \in {"unlock", "clear"}, program' = program
  PROVE  Atomic!Returns(t, v)
<1>1. AtomicResults[t] = results[t]
  BY ResultsAre
<1>2. ~Begun(t)' /\ results'[t] = Append(results[t], v)
  BY DEF Begun, RInv, IInv, Kept
<1>3. AtomicResults'[t] = Append(AtomicResults[t], v)
  BY <1>1, <1>2 DEF AtomicResults
<1> QED
  BY <1>3, ResultsGrow DEF Atomic!Returns

LEMMA ReturnsLater ==
  ASSUME RInv, NEW t \in Threads, Step(t), pc[t] \in {"enter", "insert"},
         results' = results, pc'[t] \in {"score_map", "notify", "second"},
         program' = program, NEW v,
         v = IF Call(t).op = "add_new_player" THEN Value(Len(players') - 1) ELSE Void
  PROVE  Atomic!Returns(t, v)
<1>1. AtomicResults[t] = results[t]
  BY ResultsAre
<1>2. Begun(t)' /\ Call(t)' = Call(t)
  BY OwnCall DEF Begun
<1>3. AtomicResults'[t] = Append(AtomicResults[t], v)
  BY <1>1, <1>2 DEF AtomicResults
<1> QED
  BY <1>3, ResultsGrow DEF Atomic!Returns

\* The variables of the object that a step does not touch.
LEMMA Untouched ==
  ASSUME RInv, RInv', NEW t \in Threads, Step(t), UNCHANGED containers,
         pc[t] \notin {"score_map", "second", "clear"},
         pc'[t] \notin {"score_map", "second", "clear"}
  PROVE  UNCHANGED Atomic!containers
<1>1. AtomicScores' = AtomicScores /\ AtomicSlots' = AtomicSlots
  BY ScoresStay, SlotsStay DEF containers
<1> QED
  BY <1>1 DEF containers, Atomic!containers

LEMMA ThrowStep ==
  ASSUME RInv, RInv', NEW t \in Threads, Throw(t)
  PROVE  Atomic!Next
<1>1. /\ Step(t) /\ pc[t] = "enter" /\ pc'[t] = "unlock" /\ ~Done(t)
      /\ NoSuchId(Call(t)) /\ UNCHANGED containers /\ program' = program
      /\ results' = [results EXCEPT ![t] = Append(@, Error("runtime_error"))]
  BY DEF Step, Throw, At, Returns, Goto, RInv, IInv, Kept
<1>2. Atomic!Returns(t, Error("runtime_error"))
  BY <1>1, ReturnsAtOnce
<1>3. UNCHANGED Atomic!containers
  BY <1>1, Untouched
<1>4. Atomic!Throws(t, Call(t))
  BY <1>1, <1>2, <1>3 DEF Atomic!Throws, Atomic!NoSuchId, NoSuchId, Atomic!Error, Error
<1> QED
  BY <1>1, <1>4, Visible

LEMMA FoundStep ==
  ASSUME RInv, RInv', NEW t \in Threads, ReturnFound(t)
  PROVE  Atomic!Next
<1>1. /\ Step(t) /\ pc[t] = "found" /\ pc'[t] = "unlock"
      /\ UNCHANGED containers /\ program' = program
      /\ results' = [results EXCEPT ![t] = Append(@, Value(Found(Call(t))))]
  BY DEF Step, ReturnFound, Returns, Goto, RInv, IInv, Kept
<1>2. ~Done(t) /\ Call(t).op \in Waits /\ Ready(Call(t)) /\ ~NoSuchId(Call(t))
  BY <1>1 DEF RInv, IInv, Kept, Placed, Midway
<1>3. Atomic!Returns(t, Value(Found(Call(t))))
  BY <1>1, ReturnsAtOnce
<1>4. UNCHANGED Atomic!containers
  BY <1>1, Untouched
<1>5. Atomic!Found(Call(t)) = Found(Call(t))
  <2>1. CASE Call(t).op = "return_when_game_finished"
    <3>1. \A u \in Threads : pc[u] # "score_map"
      <4> SUFFICES ASSUME NEW u \in Threads, pc[u] = "score_map" PROVE FALSE
        OBVIOUS
      <4>1. u # t /\ Object(Call(u)) = "turn_container"
        BY <1>1 DEF RInv, Midway, Object
      <4>2. Object(Call(t)) = "turn_container"
        BY <2>1 DEF Object
      <4> QED
        BY <1>1, <4>1, <4>2, MutualExclusion DEF RInv
    <3>2. AtomicScores = score_map
      BY <3>1, ScoresAre
    <3> QED
      BY <2>1, <3>2 DEF Atomic!Found, Found
  <2>2. CASE Call(t).op # "return_when_game_finished"
    BY <1>2, <2>2 DEF Atomic!Found, Found, Waits
  <2> QED
    BY <2>1, <2>2
<1>6. Atomic!Ready(Call(t)) <=> Ready(Call(t))
  BY DEF Atomic!Ready, Ready, Atomic!Full, Full
<1>7. Atomic!Waited(t, Call(t))
  BY <1>2, <1>3, <1>4, <1>5, <1>6 DEF Atomic!Waited, Atomic!NoSuchId, NoSuchId,
     Atomic!Value, Value, Atomic!Waits, Waits
<1> QED
  BY <1>1, <1>2, <1>7, Visible

\* A player is rejected, or takes the next id, when it is inserted.
LEMMA AddStep ==
  ASSUME RInv, RInv', NEW t \in Threads, AddIsRejected(t) \/ InsertPlayer(t)
  PROVE  Atomic!Next
<1>1. CASE AddIsRejected(t)
  <2>1. /\ Step(t) /\ pc[t] = "enter" /\ pc'[t] = "unlock" /\ ~Done(t) /\ Full
        /\ Call(t).op = "add_new_player" /\ UNCHANGED containers /\ program' = program
        /\ results' = [results EXCEPT ![t] = Append(@, Rejected)]
    BY <1>1 DEF Step, AddIsRejected, At, Returns, Goto, RInv, IInv, Kept
  <2>2. Atomic!Returns(t, Rejected)
    BY <2>1, ReturnsAtOnce
  <2>3. UNCHANGED Atomic!containers
    BY <2>1, Untouched
  <2>4. Atomic!AddNewPlayer(t, Call(t))
    BY <2>1, <2>2, <2>3 DEF Atomic!AddNewPlayer, Atomic!Full, Full, Atomic!containers,
       Atomic!Rejected, Rejected, Atomic!Error, Error
  <2> QED
    BY <2>1, <2>4, Visible
<1>2. CASE InsertPlayer(t)
  <2>1. /\ Step(t) /\ pc[t] = "insert" /\ pc'[t] = "notify" /\ ~Done(t) /\ ~Full
        /\ Call(t).op = "add_new_player" /\ players' = Append(players, Call(t).arg)
        /\ UNCHANGED <<turns, finished, score_map, slots>>
        /\ program' = program /\ results' = results
    BY <1>2 DEF Step, InsertPlayer, Goto, RInv, IInv, Kept, Placed, Midway
  <2>2. Len(players') - 1 = Len(players)
    BY <2>1 DEF RInv, Data
  <2>3. Atomic!Returns(t, Value(Len(players)))
    BY <2>1, <2>2, ReturnsLater
  <2>4. AtomicScores' = AtomicScores /\ AtomicSlots' = AtomicSlots
    BY <2>1, ScoresStay, SlotsStay
  <2>5. Atomic!AddNewPlayer(t, Call(t))
    BY <2>1, <2>3, <2>4 DEF Atomic!AddNewPlayer, Atomic!Full, Full, Atomic!Value, Value
  <2> QED
    BY <2>1, <2>5, Visible
<1> QED
  BY <1>1, <1>2

LEMMA AppendStep ==
  ASSUME RInv, RInv', NEW t \in Threads, AppendNewTurn(t)
  PROVE  Atomic!Next
<1>1. /\ Step(t) /\ pc[t] = "enter" /\ pc'[t] = "notify" /\ ~Done(t)
      /\ Call(t).op = "append_new_turn" /\ turns' = Append(turns, Call(t).arg)
      /\ UNCHANGED <<players, finished, score_map, slots>>
      /\ program' = program /\ results' = results
  BY DEF Step, AppendNewTurn, At, Goto, RInv, IInv, Kept
<1>2. Atomic!Returns(t, Void)
  BY <1>1, ReturnsLater
<1>3. AtomicScores' = AtomicScores /\ AtomicSlots' = AtomicSlots
  BY <1>1, ScoresStay, SlotsStay
<1>4. Atomic!AppendNewTurn(t, Call(t))
  BY <1>1, <1>2, <1>3 DEF Atomic!AppendNewTurn, Atomic!Void, Void, Atomic!Value, Value
<1> QED
  BY <1>1, <1>4, Visible

\* The scores count as stored when the game is marked as finished: nobody can look at
\* them before they are.
LEMMA FinishStep ==
  ASSUME RInv, RInv', NEW t \in Threads, MarkFinished(t)
  PROVE  Atomic!Next
<1>1. /\ Step(t) /\ pc[t] = "enter" /\ pc'[t] = "score_map" /\ ~Done(t)
      /\ Call(t).op = "mark_the_game_as_finished" /\ finished' = TRUE
      /\ UNCHANGED <<players, turns, score_map, slots>>
      /\ program' = program /\ results' = results
  BY DEF Step, MarkFinished, At, Goto, RInv, IInv, Kept
<1>2. Atomic!Returns(t, Void)
  BY <1>1, ReturnsLater
<1>3. AtomicSlots' = AtomicSlots
  BY <1>1, SlotsStay
<1>4. AtomicScores' = Call(t).arg
  BY <1>1, OwnCall, ScoresAreNext
<1>5. Atomic!MarkTheGameAsFinished(t, Call(t))
  BY <1>1, <1>2, <1>3, <1>4 DEF Atomic!MarkTheGameAsFinished, Atomic!Void, Void,
     Atomic!Value, Value
<1> QED
  BY <1>1, <1>5, Visible

\* A slot counts as written when it is marked.
LEMMA UpdateStep ==
  ASSUME RInv, RInv', NEW t \in Threads, MarkUpdated(t)
  PROVE  Atomic!Next
<1>1. /\ Step(t) /\ pc[t] = "enter" /\ pc'[t] = "second" /\ ~Done(t)
      /\ Call(t).op = "update_slot" /\ ~NoSuchId(Call(t))
      /\ slots' = [slots EXCEPT ![Call(t).arg].first = TRUE]
      /\ UNCHANGED <<players, turns, finished, score_map>>
      /\ program' = program /\ results' = results
  BY DEF Step, MarkUpdated, At, Goto, RInv, IInv, Kept
<1>2. Atomic!Returns(t, Void)
  BY <1>1, ReturnsLater
<1>3. AtomicScores' = AtomicScores
  BY <1>1, ScoresStay
<1>4. AtomicSlots = slots
  <2>1. ASSUME NEW u \in Threads, pc[u] \in {"second", "clear"} PROVE FALSE
    <3>1. u # t /\ Object(Call(u)) = "move_container" /\ Object(Call(t)) = "move_container"
      BY <1>1, <2>1 DEF RInv, Midway, Object
    <3> QED
      BY <1>1, <2>1, <3>1, MutualExclusion DEF RInv
  <2> QED
    BY <2>1, SlotsAre
<1>5. AtomicSlots' = [slots EXCEPT ![Call(t).arg] = [first |-> TRUE, second |-> Call(t).move]]
  <2>1. Call(t)' = Call(t)
    BY <1>1, OwnCall
  <2>2. AtomicSlots' = [id \in Ids |-> IF Call(t)'.arg = id
                                       THEN [slots'[id] EXCEPT !.second = Call(t)'.move]
                                       ELSE slots'[id]]
    BY <1>1, SlotsAreNext
  <2>3. AtomicSlots' = [id \in Ids |-> IF Call(t).arg = id
                                       THEN [slots'[id] EXCEPT !.second = Call(t).move]
                                       ELSE slots'[id]]
    BY <2>1, <2>2
  <2>4. slots = [id \in Ids |-> slots[id]]
    BY DEF RInv, Data
  <2>5. \A id \in Ids : slots[id] = [first |-> slots[id].first, second |-> slots[id].second]
    BY DEF RInv, Data
  <2>6. ASSUME NEW id \in Ids, Call(t).arg = id
        PROVE  [slots'[id] EXCEPT !.second = Call(t).move]
               = [first |-> TRUE, second |-> Call(t).move]
    <3>1. slots'[id] = [slots[id] EXCEPT !.first = TRUE]
      BY <1>1, <2>4, <2>6
    <3>2. slots'[id] = [first |-> TRUE, second |-> slots[id].second]
      BY <2>5, <3>1
    <3>3. \A a, b, c : [[first |-> a, second |-> b] EXCEPT !.second = c]
                       = [first |-> a, second |-> c]
      OBVIOUS
    <3>4. [slots'[id] EXCEPT !.second = Call(t).move]
          = [[first |-> TRUE, second |-> slots[id].second] EXCEPT !.second = Call(t).move]
      BY <3>2, Zenon
    <3> QED
      BY <3>3, <3>4, Zenon
  <2>7. ASSUME NEW id \in Ids, Call(t).arg # id PROVE slots'[id] = slots[id]
    BY <1>1, <2>4, <2>7
  <2>8. AtomicSlots' = [id \in Ids |-> IF Call(t).arg = id
                                       THEN [first |-> TRUE, second |-> Call(t).move]
                                       ELSE slots[id]]
    BY <2>3, <2>6, <2>7
  <2>9. [slots EXCEPT ![Call(t).arg] = [first |-> TRUE, second |-> Call(t).move]]
        = [id \in Ids |-> IF Call(t).arg = id
                          THEN [first |-> TRUE, second |-> Call(t).move]
                          ELSE slots[id]]
    BY <2>4
  <2> QED
    BY <2>8, <2>9
<1>6. Atomic!UpdateSlot(t, Call(t))
  BY <1>1, <1>2, <1>3, <1>4, <1>5 DEF Atomic!UpdateSlot, Atomic!NoSuchId, NoSuchId,
     Atomic!Void, Void, Atomic!Value, Value
<1> QED
  BY <1>1, <1>6, Visible

\* The slots count as cleared when they are copied.
LEMMA SnapshotStep ==
  ASSUME RInv, RInv', NEW t \in Threads, CopySlots(t)
  PROVE  Atomic!Next
<1>1. /\ Step(t) /\ pc[t] = "enter" /\ pc'[t] = "clear" /\ ~Done(t)
      /\ Call(t).op = "atomic_snapshot_and_clear" /\ UNCHANGED containers
      /\ program' = program
      /\ results' = [results EXCEPT ![t] = Append(@, Value(slots))]
  BY DEF Step, CopySlots, At, Goto, RInv, IInv, Kept
<1>2. Atomic!Returns(t, Value(slots))
  BY <1>1, ReturnsAtOnce
<1>3. AtomicScores' = AtomicScores
  BY <1>1, ScoresStay DEF containers
<1>4. AtomicSlots = slots
  <2>1. ASSUME NEW u \in Threads, pc[u] \in {"second", "clear"} PROVE FALSE
    <3>1. u # t /\ Object(Call(u)) = "move_container" /\ Object(Call(t)) = "move_container"
      BY <1>1, <2>1 DEF RInv, Midway, Object
    <3> QED
      BY <1>1, <2>1, <3>1, MutualExclusion DEF RInv
  <2> QED
    BY <2>1, SlotsAre
<1>5. AtomicSlots' = Atomic!Cleared
  BY <1>1, <1>4, SlotsAreNext DEF Cleared, Atomic!Cleared, Atomic!Ids, Ids, containers
<1>6. Atomic!AtomicSnapshotAndClear(t, Call(t))
  BY <1>1, <1>2, <1>3, <1>4, <1>5 DEF Atomic!AtomicSnapshotAndClear, Atomic!Value, Value,
     containers
<1> QED
  BY <1>1, <1>6, Visible

\* A thread can be joined when it has no call left, and so no effect to come.
LEMMA JoinStep ==
  ASSUME RInv, RInv', NEW t \in Threads, Join(t)
  PROVE  Atomic!Next
<1>1. /\ Step(t) /\ pc[t] = "call" /\ pc' = pc /\ ~Done(t)
      /\ Call(t).op = "join" /\ \A u \in Call(t).arg : Done(u)
      /\ UNCHANGED containers /\ program' = program
      /\ results' = [results EXCEPT ![t] = Append(@, Void)]
  BY DEF Step, Join, At
<1>2. Call(t).arg \subseteq Threads
  <2>1. program \in Programs /\ Returned(t) \in 0 .. Len(program[t])
    BY DEF RInv, IInv, TypeOK
  <2>2. Len(program[t]) \in Nat /\ Returned(t) # Len(program[t])
    BY <1>1, <2>1, ContainersAssumption DEF Done
  <2>3. Returned(t) + 1 \in 1 .. Len(program[t])
    BY <2>1, <2>2
  <2> QED
    BY <1>1, <2>1, <2>3, ContainersAssumption DEF Call
<1>3. \A u \in Call(t).arg : Len(AtomicResults[u]) = Len(program[u])
  <2> SUFFICES ASSUME NEW u \in Call(t).arg
               PROVE  Len(AtomicResults[u]) = Len(program[u])
    OBVIOUS
  <2>1. u \in Threads /\ Done(u)
    BY <1>1, <1>2
  <2>2. pc[u] = "call"
    BY <2>1 DEF RInv, IInv, Kept, Placed
  <2> QED
    BY <2>1, <2>2, ResultsAre DEF Done
<1>4. Atomic!Returns(t, Void)
  <2>1. AtomicResults[t] = results[t]
    BY <1>1, ResultsAre
  <2>2. ~Begun(t)' /\ results'[t] = Append(results[t], Void)
    BY <1>1 DEF Begun, RInv, IInv, Kept
  <2>3. AtomicResults'[t] = Append(AtomicResults[t], Void)
    BY <2>1, <2>2 DEF AtomicResults
  <2> QED
    BY <1>1, <2>3, ResultsGrow DEF Atomic!Returns
<1>5. UNCHANGED Atomic!containers
  BY <1>1, Untouched
<1>6. Atomic!Joins(t, Call(t))
  BY <1>1, <1>3, <1>4, <1>5 DEF Atomic!Joins, Atomic!Void, Void, Atomic!Value, Value
<1> QED
  BY <1>1, <1>6, Visible

-----------------------------------------------------------------------------
(* The theorem *)

LEMMA InitAtomic == Init => Atomic!Init
<1> SUFFICES ASSUME Init PROVE Atomic!Init
  OBVIOUS
<1>1. /\ \A t \in Threads : pc[t] = "call"
      /\ program \in Programs
      /\ players = <<>> /\ turns = <<>> /\ finished = FALSE /\ score_map = "none"
      /\ slots = [id \in Ids |-> [first |-> FALSE, second |-> "none"]]
      /\ results = [t \in Threads |-> <<>>]
  BY DEF Init, ContainersInit
<1>2. AtomicResults = results
  BY <1>1 DEF AtomicResults, Begun
<1>3. AtomicScores = score_map /\ AtomicSlots = slots
  BY <1>1, InitRInv, ScoresAre, SlotsAre
<1> QED
  BY <1>1, <1>2, <1>3 DEF Atomic!Init, Atomic!ContainersInit, Atomic!Ids, Ids

LEMMA NextAtomic == RInv /\ RInv' /\ [Next]_vars => [Atomic!Next]_Atomic!vars
<1> SUFFICES ASSUME RInv, RInv', [Next]_vars PROVE [Atomic!Next]_Atomic!vars
  OBVIOUS
<1>1. ASSUME NEW t \in Threads, Step(t) PROVE [Atomic!Next]_Atomic!vars
  BY <1>1, Invisible, ThrowStep, FoundStep, AddStep, AppendStep, FinishStep, UpdateStep,
     SnapshotStep, JoinStep DEF Step
<1>2. ASSUME NEW t \in Threads, WakeUpSpuriously(t) PROVE [Atomic!Next]_Atomic!vars
  BY <1>2, Invisible
<1>3. CASE UNCHANGED vars
  <2>1. UNCHANGED <<program, players, turns, finished, score_map, slots, results, pc>>
    BY <1>3 DEF vars, containers
  <2>2. \A t \in Threads : Call(t)' = Call(t)
    BY <2>1 DEF Call, Returned
  <2>3. AtomicResults' = AtomicResults
    BY <2>1, <2>2 DEF AtomicResults, Begun
  <2>4. AtomicScores' = AtomicScores
    BY <2>1, <2>2, ScoresAre, ScoresAreNext
  <2>5. AtomicSlots' = AtomicSlots
    <3>1. CASE \E t \in Threads : pc[t] = "clear"
      <4>1. Cleared' = Cleared
        BY <2>1 DEF Cleared
      <4> QED
        BY <2>1, <3>1, <4>1, SlotsAre, SlotsAreNext
    <3>2. CASE \E t \in Threads : pc[t] = "second"
      <4>1. PICK t \in Threads : pc[t] = "second"
        BY <3>2
      <4>2. AtomicSlots' = [id \in Ids |-> IF Call(t)'.arg = id
                                           THEN [slots'[id] EXCEPT !.second = Call(t)'.move]
                                           ELSE slots'[id]]
        BY <2>1, <4>1, SlotsAreNext
      <4>3. AtomicSlots = [id \in Ids |-> IF Call(t).arg = id
                                          THEN [slots[id] EXCEPT !.second = Call(t).move]
                                          ELSE slots[id]]
        BY <4>1, SlotsAre
      <4>4. Call(t)' = Call(t) /\ slots' = slots
        BY <2>1, <2>2
      <4>5. \A id \in Ids : (IF Call(t)'.arg = id
                             THEN [slots'[id] EXCEPT !.second = Call(t)'.move]
                             ELSE slots'[id])
                            = (IF Call(t).arg = id
                               THEN [slots[id] EXCEPT !.second = Call(t).move]
                               ELSE slots[id])
        BY <4>4
      <4> QED
        BY <4>2, <4>3, <4>5
    <3>3. CASE \A t \in Threads : pc[t] \notin {"second", "clear"}
      BY <2>1, <3>3, SlotsAre, SlotsAreNext
    <3> QED
      BY <3>1, <3>2, <3>3
  <2> QED
    BY <2>1, <2>3, <2>4, <2>5 DEF Atomic!vars, Atomic!containers
<1> QED
  BY <1>1, <1>2, <1>3 DEF Next

\* Every call on a container (concurrency/) takes effect at one moment, in every
\* interleaving of the statements of any calls that any threads make: the methods of the
\* three classes are atomic, and those that wait take effect when what they wait for
\* is there.
THEOREM CallsAreAtomic == Spec => ImplementsCalls
<1>1. Init => Atomic!Init
  BY InitAtomic
<1>2. RInv /\ RInv' /\ [Next]_vars => [Atomic!Next]_Atomic!vars
  BY NextAtomic
<1>3. Spec => []RInv
  BY InitRInv, NextRInv, PTL DEF Spec
<1> QED
  BY <1>1, <1>2, <1>3, PTL DEF Spec, ImplementsCalls, Atomic!Spec
-----------------------------------------------------------------------------
(* The ids that are dealt *)

\* In programs p with results r, the k-th call of t is of this method and has returned.
CalledIn(p, r, t, k, op) == k \in 1 .. Len(r[t]) /\ p[t][k].op = op

\* It is one of add_new_player that has got id n.
DealtIn(p, r, t, k, n) == CalledIn(p, r, t, k, "add_new_player") /\ r[t][k] = Value(n)

Called(t, k, op) == CalledIn(program, AtomicResults, t, k, op)
Dealt(t, k, n) == DealtIn(program, AtomicResults, t, k, n)

Lengths == Len(players) \in 0 .. Target /\ \A t \in Threads : Len(AtomicResults[t]) \in Nat

\* A call is rejected by a full container or gets the id of its player.
Answers ==
  \A t \in Threads, k \in Nat :
    Called(t, k, "add_new_player") =>
      \/ AtomicResults[t][k] = Rejected /\ Full
      \/ \E n \in 0 .. Len(players) - 1 :
           Dealt(t, k, n) /\ players[n + 1] = program[t][k].arg

EachDealt == \A n \in 0 .. Len(players) - 1 : \E t \in Threads, k \in Nat : Dealt(t, k, n)

DealtOnce ==
  \A t, u \in Threads, j, k, n \in Nat : Dealt(t, j, n) /\ Dealt(u, k, n) => u = t /\ k = j

\* What the other calls of the repository's test return.
Observed ==
  \A t \in Threads, k \in Nat :
    /\ Called(t, k, "return_when_target_players_joined") =>
         Len(AtomicResults[t][k].value) = Target
    /\ Called(t, k, "get_accepted_player") /\ program[t][k].arg >= Target =>
         AtomicResults[t][k] = Error("runtime_error")

CountInv == Lengths /\ Answers /\ EachDealt /\ DealtOnce /\ Observed

\* A call that takes effect, as far as players and their ids are concerned.
Effect(t, call, v) ==
  \/ /\ call.op = "add_new_player" /\ ~Full
     /\ v = Value(Len(players)) /\ players' = Append(players, call.arg)
  \/ /\ players' = players
     /\ call.op = "add_new_player" => Full /\ v = Rejected
     /\ call.op = "return_when_target_players_joined" => Full /\ v = Value(players)
     /\ call.op = "get_accepted_player" /\ call.arg >= Target => v = Error("runtime_error")

LEMMA CallTakesEffect ==
  ASSUME RInv, RInv', [Next]_vars
  PROVE  \/ UNCHANGED <<program, players, AtomicResults>>
         \/ \E t \in Threads : \E v :
              /\ Effect(t, program[t][Len(AtomicResults[t]) + 1], v)
              /\ program' = program
              /\ AtomicResults' = [AtomicResults EXCEPT ![t] = Append(@, v)]
<1>1. CASE UNCHANGED Atomic!vars
  BY <1>1, Zenon DEF Atomic!vars, Atomic!containers
<1>2. CASE Atomic!Next
  <2>1. PICK t \in Threads : \E call :
          /\ call = program[t][Len(AtomicResults[t]) + 1]
          /\ \/ Atomic!Throws(t, call) \/ Atomic!Waited(t, call)
             \/ Atomic!AddNewPlayer(t, call)
             \/ Atomic!AppendNewTurn(t, call) \/ Atomic!MarkTheGameAsFinished(t, call)
             \/ Atomic!UpdateSlot(t, call) \/ Atomic!AtomicSnapshotAndClear(t, call)
             \/ Atomic!Joins(t, call)
    BY <1>2, Zenon DEF Atomic!Next
  <2>2. PICK call :
          /\ call = program[t][Len(AtomicResults[t]) + 1]
          /\ \/ Atomic!Throws(t, call) \/ Atomic!Waited(t, call)
             \/ Atomic!AddNewPlayer(t, call)
             \/ Atomic!AppendNewTurn(t, call) \/ Atomic!MarkTheGameAsFinished(t, call)
             \/ Atomic!UpdateSlot(t, call) \/ Atomic!AtomicSnapshotAndClear(t, call)
             \/ Atomic!Joins(t, call)
    BY <2>1, Zenon
  <2>3. \E v : Effect(t, call, v) /\ Atomic!Returns(t, v)
    <3>1. CASE Atomic!Throws(t, call)
      <4>1. /\ call.op \in {"get_accepted_player", "update_slot"} /\ players' = players
            /\ Atomic!Returns(t, Error("runtime_error"))
        BY <3>1, Zenon DEF Atomic!Throws, Atomic!NoSuchId, Atomic!containers,
                           Atomic!Error, Error
      <4>2. Effect(t, call, Error("runtime_error"))
        BY <4>1, SMT DEF Effect
      <4> QED
        BY <4>1, <4>2, Zenon
    <3>2. CASE Atomic!Waited(t, call)
      <4>1. /\ call.op \in Waits /\ ~NoSuchId(call) /\ players' = players
            /\ Ready(call) /\ Atomic!Returns(t, Value(Atomic!Found(call)))
        BY <3>2, Zenon DEF Atomic!Waited, Atomic!Waits, Waits, Atomic!NoSuchId, NoSuchId,
                           Atomic!Ready, Ready, Atomic!Full, Full, Atomic!containers,
                           Atomic!Value, Value
      <4>2. call.op = "return_when_target_players_joined" =>
              Full /\ Atomic!Found(call) = players
        BY <4>1, SMT DEF Ready, Atomic!Found
      <4>3. call.op # "add_new_player"
        BY <4>1, SMT DEF Waits
      <4>4. ~(call.op = "get_accepted_player" /\ call.arg >= Target)
        BY <4>1, SMT DEF NoSuchId
      <4>5. Effect(t, call, Value(Atomic!Found(call)))
        BY <4>1, <4>2, <4>3, <4>4, Zenon DEF Effect
      <4> QED
        BY <4>1, <4>5, Zenon
    <3>3. CASE Atomic!AddNewPlayer(t, call)
      <4>1. /\ call.op = "add_new_player"
            /\ \/ Full /\ Atomic!Returns(t, Rejected) /\ players' = players
               \/ /\ ~Full /\ Atomic!Returns(t, Value(Len(players)))
                  /\ players' = Append(players, call.arg)
        BY <3>3, Zenon DEF Atomic!AddNewPlayer, Atomic!Full, Full, Atomic!Rejected, Rejected,
                           Atomic!Error, Error, Atomic!Value, Value
      <4> QED
        BY <4>1, SMT DEF Effect
    <3>4. CASE \/ Atomic!AppendNewTurn(t, call) \/ Atomic!MarkTheGameAsFinished(t, call)
               \/ Atomic!UpdateSlot(t, call) \/ Atomic!AtomicSnapshotAndClear(t, call)
               \/ Atomic!Joins(t, call)
      <4>1. /\ call.op \in {"append_new_turn", "mark_the_game_as_finished", "update_slot",
                            "atomic_snapshot_and_clear", "join"}
            /\ players' = players
        BY <3>4, Zenon DEF Atomic!AppendNewTurn, Atomic!MarkTheGameAsFinished, Atomic!UpdateSlot,
                           Atomic!AtomicSnapshotAndClear, Atomic!Joins, Atomic!containers
      <4>2. \E v : Atomic!Returns(t, v)
        BY <3>4, Zenon DEF Atomic!AppendNewTurn, Atomic!MarkTheGameAsFinished, Atomic!UpdateSlot,
                           Atomic!AtomicSnapshotAndClear, Atomic!Joins
      <4>3. \A v : Effect(t, call, v)
        BY <4>1, SMT DEF Effect
      <4> QED
        BY <4>2, <4>3, Zenon
    <3> QED
      BY <2>2, <3>1, <3>2, <3>3, <3>4, Zenon
  <2> QED
    BY <2>2, <2>3, Zenon DEF Atomic!Returns
<1> QED
  BY <1>1, <1>2, NextAtomic, Zenon

LEMMA CountStep ==
  ASSUME CountInv, NEW t \in Threads, NEW v,
         Effect(t, program[t][Len(AtomicResults[t]) + 1], v),
         program' = program,
         AtomicResults' = [AtomicResults EXCEPT ![t] = Append(@, v)]
  PROVE  CountInv'
<1> DEFINE last == Len(AtomicResults[t]) + 1
           call == program[t][last]
           size == Len(players)
<1>1. /\ \A u \in Threads \ {t} : AtomicResults'[u] = AtomicResults[u]
      /\ AtomicResults'[t] = Append(AtomicResults[t], v)
  <2>1. DOMAIN AtomicResults = Threads
    BY DEF AtomicResults
  <2> QED
    BY <2>1
<1>2. /\ size \in 0 .. Target /\ Target \in Nat /\ size \in Nat
      /\ \A u \in Threads : Len(AtomicResults[u]) \in Nat
  BY ContainersAssumption DEF CountInv, Lengths
<1>3. /\ Len(AtomicResults'[t]) = last /\ last \in Nat /\ last > 0
      /\ AtomicResults'[t][last] = v
      /\ \A k \in 1 .. Len(AtomicResults[t]) : AtomicResults'[t][k] = AtomicResults[t][k]
  BY <1>1, <1>2
<1>4. \/ /\ call.op = "add_new_player" /\ ~Full /\ v = Value(size)
         /\ Len(players') = size + 1 /\ players'[size + 1] = call.arg
         /\ \A n \in 1 .. size : players'[n] = players[n]
      \/ /\ players' = players
         /\ call.op = "add_new_player" => Full /\ v = Rejected
         /\ call.op = "return_when_target_players_joined" => Full /\ v = Value(players)
         /\ call.op = "get_accepted_player" /\ call.arg >= Target => v = Error("runtime_error")
  BY <1>2 DEF Effect
<1>5. \A op : \A u \in Threads, k \in Nat :
        CalledIn(program, AtomicResults', u, k, op) <=>
          \/ Called(u, k, op)
          \/ (u = t /\ k = last /\ call.op = op)
  BY <1>1, <1>2, <1>3 DEF Called, CalledIn
<1>6. \A op : \A u \in Threads, k \in Nat :
        Called(u, k, op) => /\ AtomicResults'[u][k] = AtomicResults[u][k]
                            /\ ~(u = t /\ k = last)
  BY <1>1, <1>2, <1>3 DEF Called, CalledIn
<1>7. \A u \in Threads, k, n \in Nat :
        DealtIn(program, AtomicResults', u, k, n) <=>
          \/ Dealt(u, k, n)
          \/ (u = t /\ k = last /\ call.op = "add_new_player" /\ v = Value(n))
  <2> SUFFICES ASSUME NEW u \in Threads, NEW k \in Nat, NEW n \in Nat
               PROVE  DealtIn(program, AtomicResults', u, k, n) <=>
                        \/ Dealt(u, k, n)
                        \/ (u = t /\ k = last /\ call.op = "add_new_player" /\ v = Value(n))
    OBVIOUS
  <2>1. CASE Called(u, k, "add_new_player")
    <3>1. AtomicResults'[u][k] = AtomicResults[u][k] /\ ~(u = t /\ k = last)
      BY <2>1, <1>6, Zenon
    <3> QED
      BY <2>1, <3>1, <1>5, Zenon DEF Dealt, DealtIn, Called
  <2>2. CASE ~Called(u, k, "add_new_player")
    BY <2>2, <1>3, <1>5, Zenon DEF Dealt, DealtIn, Called
  <2> QED
    BY <2>1, <2>2, Zenon
<1>8. \A n, m : Value(n) = Value(m) => n = m
  BY DEF Value
<1>9. \A n : Value(n) # Rejected
  BY DEF Value, Rejected, Error
<1>10. \A u \in Threads, k, n \in Nat : Dealt(u, k, n) => n < size
  <2> SUFFICES ASSUME NEW u \in Threads, NEW k \in Nat, NEW n \in Nat, Dealt(u, k, n)
               PROVE  n < size
    OBVIOUS
  <2>1. Called(u, k, "add_new_player") /\ AtomicResults[u][k] = Value(n)
    BY Zenon DEF Dealt, DealtIn, Called
  <2>2. PICK m \in 0 .. size - 1 : Dealt(u, k, m)
    BY <2>1, <1>9 DEF CountInv, Answers
  <2>3. m = n
    BY <2>1, <2>2, <1>8 DEF Dealt, DealtIn
  <2> QED
    BY <2>2, <2>3, <1>2
<1>11. Lengths'
  BY <1>1, <1>2, <1>3, <1>4 DEF Lengths, Full
<1>12. Answers'
  <2> SUFFICES ASSUME NEW u \in Threads, NEW k \in Nat,
                      CalledIn(program, AtomicResults', u, k, "add_new_player")
               PROVE  \/ AtomicResults'[u][k] = Rejected /\ Full'
                      \/ \E n \in 0 .. Len(players') - 1 :
                           /\ DealtIn(program, AtomicResults', u, k, n)
                           /\ players'[n + 1] = program[u][k].arg
    BY program' = program, Zenon DEF Answers, Rejected, Error, Called, Dealt
  <2>1. CASE Called(u, k, "add_new_player")
    <3>1. CASE AtomicResults[u][k] = Rejected /\ Full
      BY <2>1, <3>1, <1>4, <1>6 DEF Full
    <3>2. CASE \E n \in 0 .. size - 1 : Dealt(u, k, n) /\ players[n + 1] = program[u][k].arg
      <4>1. PICK n \in 0 .. size - 1 : Dealt(u, k, n) /\ players[n + 1] = program[u][k].arg
        BY <3>2
      <4>2. n \in Nat
        BY <4>1, <1>2
      <4>3. DealtIn(program, AtomicResults', u, k, n)
        BY <4>1, <4>2, <1>7, Zenon
      <4>4. n \in 0 .. Len(players') - 1 /\ players'[n + 1] = players[n + 1]
        BY <4>1, <1>2, <1>4
      <4> QED
        BY <4>1, <4>3, <4>4, Zenon
    <3> QED
      BY <2>1, <3>1, <3>2 DEF CountInv, Answers
  <2>2. CASE u = t /\ k = last /\ call.op = "add_new_player"
    <3>1. CASE v = Value(size)
      <4>1. DealtIn(program, AtomicResults', u, k, size)
        BY <2>2, <3>1, <1>2, <1>7, Zenon
      <4>2. size \in 0 .. Len(players') - 1 /\ players'[size + 1] = program[u][k].arg
        BY <2>2, <3>1, <1>2, <1>4, <1>9
      <4> QED
        BY <4>1, <4>2
    <3>2. CASE v # Value(size)
      BY <2>2, <3>2, <1>3, <1>4 DEF Full
    <3> QED
      BY <3>1, <3>2
  <2> QED
    BY <2>1, <2>2, <1>5
<1>13. EachDealt'
  <2> SUFFICES ASSUME NEW n \in 0 .. Len(players') - 1
               PROVE  \E u \in Threads, k \in Nat : DealtIn(program, AtomicResults', u, k, n)
    BY program' = program, Zenon DEF EachDealt, Dealt
  <2>1. CASE n \in 0 .. size - 1
    <3>1. PICK u \in Threads, k \in Nat : Dealt(u, k, n)
      BY <2>1, Zenon DEF CountInv, EachDealt
    <3>2. n \in Nat
      BY <2>1, <1>2
    <3> QED
      BY <3>1, <3>2, <1>7, Zenon
  <2>2. CASE n \notin 0 .. size - 1
    <3>1. n = size /\ v = Value(size) /\ call.op = "add_new_player"
      BY <2>2, <1>2, <1>4
    <3>2. DealtIn(program, AtomicResults', t, last, n)
      BY <3>1, <1>2, <1>3, <1>7, Zenon
    <3> QED
      BY <3>2, <1>3, Zenon
  <2> QED
    BY <2>1, <2>2
<1>14. DealtOnce'
  <2> SUFFICES ASSUME NEW u \in Threads, NEW w \in Threads, NEW j \in Nat, NEW k \in Nat,
                      NEW n \in Nat,
                      DealtIn(program', AtomicResults', u, j, n),
                      DealtIn(program', AtomicResults', w, k, n)
               PROVE  w = u /\ k = j
    BY Zenon DEF DealtOnce, Dealt
  <2> /\ DealtIn(program, AtomicResults', u, j, n)
      /\ DealtIn(program, AtomicResults', w, k, n)
    BY program' = program, Zenon
  <2>1. CASE n = size
    <3>1. ~(n < size)
      BY <2>1, <1>2
    <3> QED
      BY <3>1, <1>7, <1>10, Zenon
  <2>2. CASE n # size
    <3>1. ~(call.op = "add_new_player" /\ v = Value(n))
      BY <2>2, <1>4, <1>8, <1>9
    <3>2. Dealt(u, j, n) /\ Dealt(w, k, n)
      BY <3>1, <1>7, Zenon
    <3> QED
      BY <3>2, Zenon DEF CountInv, DealtOnce
  <2> QED
    BY <2>1, <2>2
<1>15. Observed'
  <2> SUFFICES ASSUME NEW u \in Threads, NEW k \in Nat
               PROVE  /\ CalledIn(program, AtomicResults', u, k,
                                  "return_when_target_players_joined") =>
                           Len(AtomicResults'[u][k].value) = Target
                      /\ /\ CalledIn(program, AtomicResults', u, k, "get_accepted_player")
                         /\ program[u][k].arg >= Target
                         => AtomicResults'[u][k] = Error("runtime_error")
    BY program' = program, Zenon DEF Observed, Error, Called
  <2>1. ASSUME CalledIn(program, AtomicResults', u, k, "return_when_target_players_joined")
        PROVE  Len(AtomicResults'[u][k].value) = Target
    <3>1. CASE Called(u, k, "return_when_target_players_joined")
      <4>1. Len(AtomicResults[u][k].value) = Target
        BY <3>1, Zenon DEF CountInv, Observed
      <4>2. AtomicResults'[u][k] = AtomicResults[u][k]
        BY <3>1, <1>6, Zenon
      <4> QED
        BY <4>1, <4>2
    <3>2. CASE u = t /\ k = last /\ call.op = "return_when_target_players_joined"
      <4>1. AtomicResults'[u][k] = Value(players) /\ Full
        BY <3>2, <1>3, <1>4
      <4>2. \A w : Value(w).value = w
        BY DEF Value
      <4>3. AtomicResults'[u][k].value = players
        BY <4>1, <4>2, Zenon
      <4> QED
        BY <4>1, <4>3 DEF Full
    <3> QED
      BY <2>1, <3>1, <3>2, <1>5, Zenon
  <2>2. ASSUME CalledIn(program, AtomicResults', u, k, "get_accepted_player"),
               program[u][k].arg >= Target
        PROVE  AtomicResults'[u][k] = Error("runtime_error")
    <3>1. CASE Called(u, k, "get_accepted_player")
      <4>1. AtomicResults[u][k] = Error("runtime_error")
        BY <2>2, <3>1, Zenon DEF CountInv, Observed
      <4>2. AtomicResults'[u][k] = AtomicResults[u][k]
        BY <3>1, <1>6, Zenon
      <4> QED
        BY <4>1, <4>2
    <3>2. CASE u = t /\ k = last /\ call.op = "get_accepted_player"
      BY <2>2, <3>2, <1>3, <1>4
    <3> QED
      BY <2>2, <3>1, <3>2, <1>5, Zenon
  <2> QED
    BY <2>1, <2>2
<1> QED
  BY <1>11, <1>12, <1>13, <1>14, <1>15 DEF CountInv

LEMMA InitCount == Init => CountInv
<1> SUFFICES ASSUME Init PROVE CountInv
  OBVIOUS
<1>1. /\ players = <<>> /\ results = [t \in Threads |-> <<>>]
      /\ \A t \in Threads : pc[t] = "call"
  BY DEF Init, ContainersInit
<1>2. \A t \in Threads : AtomicResults[t] = <<>>
  BY <1>1 DEF AtomicResults, Begun
<1>3. /\ Lengths
      /\ \A op : \A t \in Threads, k \in Nat : ~Called(t, k, op)
  BY <1>1, <1>2, ContainersAssumption DEF Lengths, Called, CalledIn
<1> QED
  <2>1. \A t \in Threads, k, n \in Nat : ~Dealt(t, k, n)
    BY <1>3, Zenon DEF Dealt, DealtIn, Called
  <2>2. EachDealt
    BY <1>1 DEF EachDealt
  <2>3. Answers /\ DealtOnce /\ Observed
    BY <1>3, <2>1, Zenon DEF Answers, DealtOnce, Observed
  <2> QED
    BY <1>3, <2>2, <2>3 DEF CountInv

LEMMA NextCount == RInv /\ RInv' /\ [Next]_vars /\ CountInv => CountInv'
<1> SUFFICES ASSUME RInv, RInv', [Next]_vars, CountInv PROVE CountInv'
  OBVIOUS
<1>1. CASE UNCHANGED <<program, players, AtomicResults>>
  BY <1>1 DEF CountInv, Lengths, Answers, EachDealt, DealtOnce, Observed, Dealt, DealtIn,
              Called, CalledIn, Full
<1>2. ASSUME NEW t \in Threads, NEW v,
             Effect(t, program[t][Len(AtomicResults[t]) + 1], v), program' = program,
             AtomicResults' = [AtomicResults EXCEPT ![t] = Append(@, v)]
      PROVE  CountInv'
  BY <1>2, CountStep
<1> QED
  BY <1>1, <1>2, CallTakesEffect

\* What has been returned has taken effect.
LEMMA ReturnedEarlier ==
  ASSUME RInv, NEW t \in Threads, NEW k \in 1 .. Len(results[t])
  PROVE  /\ AtomicResults[t][k] = results[t][k]
         /\ k \in Nat /\ k \in 1 .. Len(AtomicResults[t])
<1>1. Len(results[t]) \in Nat
  BY DEF RInv, IInv, Kept
<1>2. \/ AtomicResults[t] = results[t]
      \/ \E v : AtomicResults[t] = Append(results[t], v)
  BY DEF AtomicResults
<1> QED
  BY <1>1, <1>2

\* Whatever calls the threads make, and however their statements interleave: add_new_player
\* (accepted_player_container.cpp) gives every player an id of its own, the one
\* under which the others find it, and rejects nobody while there is room, although it
\* reads the id from the size after it has inserted the player and notified.
THEOREM IdsAreUnique == Spec => []IdsAreDealt
<1>1. RInv /\ CountInv => IdsAreDealt
  <2> SUFFICES ASSUME RInv, CountInv, NEW t \in Threads, NEW j \in 1 .. Len(results[t]),
                      program[t][j].op = "add_new_player",
                      ~(results[t][j] = Rejected /\ Full)
               PROVE  /\ \E n \in 0 .. Len(players) - 1 :
                           results[t][j] = Value(n) /\ players[n + 1] = program[t][j].arg
                      /\ \A u \in Threads : \A k \in 1 .. Len(results[u]) :
                           program[u][k].op = "add_new_player" /\ results[u][k] = results[t][j]
                             => u = t /\ k = j
    BY Zenon DEF IdsAreDealt, Rejected, Error, Value, Full
  <2>1. Called(t, j, "add_new_player") /\ AtomicResults[t][j] = results[t][j] /\ j \in Nat
    BY ReturnedEarlier DEF Called, CalledIn
  <2>2. PICK n \in 0 .. Len(players) - 1 :
          Dealt(t, j, n) /\ players[n + 1] = program[t][j].arg
    BY <2>1 DEF CountInv, Answers
  <2>3. n \in Nat
    BY <2>2 DEF CountInv, Lengths
  <2>4. results[t][j] = Value(n)
    BY <2>1, <2>2 DEF Dealt, DealtIn
  <2>5. ASSUME NEW u \in Threads, NEW k \in 1 .. Len(results[u]),
               program[u][k].op = "add_new_player", results[u][k] = results[t][j]
        PROVE  u = t /\ k = j
    <3>1. Dealt(u, k, n) /\ k \in Nat
      BY <2>4, <2>5, ReturnedEarlier DEF Dealt, DealtIn, Called, CalledIn
    <3> QED
      BY <2>1, <2>2, <2>3, <3>1 DEF CountInv, DealtOnce
  <2> QED
    BY <2>2, <2>4, <2>5
<1>2. Spec => []RInv
  BY InitRInv, NextRInv, PTL DEF Spec
<1> QED
  BY <1>1, <1>2, InitCount, NextCount, PTL DEF Spec

-----------------------------------------------------------------------------
(* The repository's test *)

\* A call of join has returned only when the threads it names have made all their calls.
JoinedDone ==
  \A t \in Threads, k \in Nat :
    k \in 1 .. Len(results[t]) /\ program[t][k].op = "join" =>
      \A u \in Threads : u \in program[t][k].arg => Done(u)

LEMMA OneResultMore ==
  ASSUME RInv, NEW t \in Threads, Step(t) \/ WakeUpSpuriously(t)
  PROVE  /\ program' = program /\ ~Done(t)
         /\ \A u \in Threads \ {t} : results'[u] = results[u] /\ Returned(u)' = Returned(u)
         /\ \/ results' = results
            \/ /\ \E v : results' = [results EXCEPT ![t] = Append(@, v)]
               /\ pc[t] \notin {"clear", "unlock"}
               /\ Call(t).op = "join" => \A u \in Call(t).arg : Done(u)
<1>1. program' = program
  BY DEF Step, Lock, Unlock, Throw, EvaluatePredicate, Wait, WakeUpSpuriously, ReturnFound,
     NotifyAll, ReturnNotified, AddIsRejected, AddIsAllowed, InsertPlayer, AppendNewTurn,
     MarkFinished, StoreScores, MarkUpdated, StoreMove, CopySlots, ClearSlots, Join
<1>2. ~Done(t)
  BY DEF Step, Lock, Unlock, Throw, EvaluatePredicate, Wait, WakeUpSpuriously, ReturnFound,
     NotifyAll, ReturnNotified, AddIsRejected, AddIsAllowed, InsertPlayer, AppendNewTurn,
     MarkFinished, StoreScores, MarkUpdated, StoreMove, CopySlots, ClearSlots, Join, At,
     RInv, IInv, Kept, Placed
<1>3. \A u \in Threads \ {t} : pc'[u] = pc[u] \/ (pc[u] = "wait" /\ pc'[u] = "call")
  <2>1. CASE NotifyAll(t)
    <3>1. \A u \in waiting[Object(Call(t))] : u \in Threads => pc[u] = "wait"
      BY DEF RInv, IInv, TypeOK, Object, Objects
    <3> QED
      BY <2>1, <3>1 DEF NotifyAll
  <2>2. CASE ~NotifyAll(t)
    <3>1. pc' = pc \/ \E p : pc' = [pc EXCEPT ![t] = p]
      BY <2>2, Zenon
      DEF Step, Lock, Unlock, Throw, EvaluatePredicate, Wait, WakeUpSpuriously, ReturnFound,
          ReturnNotified, AddIsRejected, AddIsAllowed, InsertPlayer, AppendNewTurn,
          MarkFinished, StoreScores, MarkUpdated, StoreMove, CopySlots, ClearSlots, Join,
          Goto, Returns
    <3> QED
      BY <3>1 DEF RInv, IInv, Kept
  <2> QED
    BY <2>1, <2>2
<1> DEFINE OneMore ==
             /\ \E v : results' = [results EXCEPT ![t] = Append(@, v)]
             /\ pc[t] \notin {"clear", "unlock"}
             /\ Call(t).op = "join" => \A u \in Call(t).arg : Done(u)
<1>4. ASSUME \/ Lock(t) \/ Unlock(t) \/ EvaluatePredicate(t) \/ Wait(t) \/ NotifyAll(t)
             \/ WakeUpSpuriously(t) \/ AddIsAllowed(t) \/ InsertPlayer(t) \/ AppendNewTurn(t)
             \/ MarkFinished(t) \/ StoreScores(t) \/ MarkUpdated(t) \/ ClearSlots(t)
      PROVE  results' = results
  BY <1>4
  DEF Lock, Unlock, EvaluatePredicate, Wait, WakeUpSpuriously, NotifyAll, AddIsAllowed,
      InsertPlayer, AppendNewTurn, MarkFinished, StoreScores, MarkUpdated, ClearSlots
<1>5. ASSUME \/ Throw(t) \/ ReturnFound(t) \/ ReturnNotified(t) \/ AddIsRejected(t)
             \/ StoreMove(t) \/ CopySlots(t)
      PROVE  OneMore
  <2>1. \E v : results' = [results EXCEPT ![t] = Append(@, v)]
    BY <1>5, Zenon
    DEF Throw, ReturnFound, ReturnNotified, AddIsRejected, StoreMove, CopySlots, Returns
  <2>2. pc[t] \notin {"clear", "unlock"}
    BY <1>5
    DEF Throw, ReturnFound, ReturnNotified, AddIsRejected, StoreMove, CopySlots, At
  <2>3. Call(t).op # "join"
    BY <1>5
    DEF Throw, ReturnFound, ReturnNotified, AddIsRejected, StoreMove, CopySlots, At,
        RInv, IInv, Kept, Placed, Midway, Waits
  <2> QED
    BY <2>1, <2>2, <2>3, Zenon
<1>6. ASSUME Join(t) PROVE OneMore
  <2>1. results' = [results EXCEPT ![t] = Append(@, Void)]
    BY <1>6 DEF Join
  <2>2. pc[t] \notin {"clear", "unlock"}
    BY <1>6 DEF Join, At
  <2>3. \A u \in Call(t).arg : Done(u)
    BY <1>6, Zenon DEF Join
  <2> QED
    BY <2>1, <2>2, <2>3, Zenon
<1>7. results' = results \/ OneMore
  BY <1>4, <1>5, <1>6, Zenon DEF Step
<1>8. \A u \in Threads \ {t} : results'[u] = results[u]
  BY <1>7 DEF RInv, IInv, Kept
<1>9. \A u \in Threads \ {t} : Returned(u)' = Returned(u)
  BY <1>3, <1>8 DEF Returned
<1> QED
  BY <1>1, <1>2, <1>7, <1>8, <1>9

LEMMA NextJoined == RInv /\ [Next]_vars /\ JoinedDone => JoinedDone'
<1> SUFFICES ASSUME RInv, [Next]_vars, JoinedDone PROVE JoinedDone'
  OBVIOUS
<1>1. CASE UNCHANGED vars
  BY <1>1 DEF JoinedDone, Done, Returned, vars
<1>2. ASSUME NEW t \in Threads, Step(t) \/ WakeUpSpuriously(t)
      PROVE  JoinedDone'
  <2>1. /\ program' = program /\ ~Done(t)
        /\ \A u \in Threads \ {t} : results'[u] = results[u] /\ Returned(u)' = Returned(u)
        /\ \/ results' = results
           \/ /\ \E v : results' = [results EXCEPT ![t] = Append(@, v)]
              /\ pc[t] \notin {"clear", "unlock"}
              /\ Call(t).op = "join" => \A u \in Call(t).arg : Done(u)
    BY <1>2, OneResultMore
  <2>2. \A u \in Threads : Done(u) => Done(u)'
    BY <2>1 DEF Done
  <2> SUFFICES ASSUME NEW w \in Threads, NEW k \in Nat, NEW u \in Threads,
                      k \in 1 .. Len(results'[w]), program[w][k].op = "join",
                      u \in program[w][k].arg
               PROVE  Done(u)
    BY <2>1, <2>2, Zenon DEF JoinedDone
  <2>3. CASE k \in 1 .. Len(results[w])
    BY <2>3, Zenon DEF JoinedDone
  <2>4. CASE k \notin 1 .. Len(results[w])
    <3>1. PICK v : w = t /\ results' = [results EXCEPT ![t] = Append(@, v)]
      BY <2>1, <2>4
    <3>2. k = Len(results[t]) + 1
      BY <2>4, <3>1 DEF RInv, IInv, Kept
    <3>3. results' # results /\ pc[t] \notin {"clear", "unlock"}
      BY <2>1, <2>4, <3>1
    <3>4. Call(t) = program[w][k]
      BY <3>1, <3>2, <3>3 DEF Call, Returned, RInv, IInv, Kept
    <3> QED
      BY <2>1, <3>3, <3>4
  <2> QED
    BY <2>3, <2>4
<1> QED
  BY <1>1, <1>2 DEF Next

\* A thread that has made all its calls is in none.
LEMMA DoneIsIdle ==
  ASSUME RInv, NEW t \in Threads
  PROVE  /\ Len(AtomicResults[t]) <= Len(program[t])
         /\ Done(t) => AtomicResults[t] = results[t] /\ Len(results[t]) = Len(program[t])
<1>1. Len(results[t]) \in Nat /\ Returned(t) \in 0 .. Len(program[t])
  BY DEF RInv, IInv, Kept, TypeOK
<1>2. pc[t] # "call" => ~Done(t)
  BY DEF RInv, IInv, Kept, Placed
<1>3. CASE Begun(t)
  <2>1. ~Done(t)
    BY <1>2, <1>3 DEF Begun
  <2>2. Returned(t) = Len(results[t])
    <3>1. Returned(t) = Len(results[t]) - 0
      BY <1>3 DEF Begun, Returned
    <3> QED
      BY <1>1, <3>1
  <2>3. Len(AtomicResults[t]) = Len(results[t]) + 1
    BY <1>1, <1>3 DEF AtomicResults
  <2>4. Returned(t) # Len(program[t])
    BY <2>1, Zenon DEF Done
  <2>5. Len(AtomicResults[t]) <= Len(program[t])
    BY <1>1, <2>2, <2>3, <2>4
  <2> QED
    BY <2>1, <2>5, Zenon
<1>4. CASE ~Begun(t)
  <2>1. AtomicResults[t] = results[t]
    BY <1>4 DEF AtomicResults
  <2>2. CASE pc[t] \in {"clear", "unlock"}
    BY <1>1, <1>2, <2>1, <2>2 DEF Returned, Done
  <2>3. CASE pc[t] \notin {"clear", "unlock"}
    BY <1>1, <1>2, <2>1, <2>3 DEF Returned, Done
  <2> QED
    BY <2>2, <2>3
<1> QED
  BY <1>3, <1>4

\* The calls that got an id are as many as there are players.
LEMMA CallsAreCounted ==
  ASSUME RInv, CountInv, TestIsSetUp, program = TestProgram, \A t \in Adders : Done(t)
  PROVE  Cardinality({c \in Adders \X (1 .. AddsPerThread) :
                        results[c[1]][c[2]] # Rejected}) = Target
<1> DEFINE Calls == Adders \X (1 .. AddsPerThread)
           Succeeded == {c \in Calls : results[c[1]][c[2]] # Rejected}
           size == Len(players)
           id == [c \in Succeeded |-> results[c[1]][c[2]].value]
<1>1. /\ size \in 0 .. Target /\ Target \in Nat /\ AddsPerThread \in Nat
      /\ Adders \subseteq Threads /\ Main \in Threads \ Adders
  BY ContainersAssumption DEF CountInv, Lengths, TestIsSetUp
<1>2. /\ \A t \in Adders : program[t] = [k \in 1 .. AddsPerThread |-> Add("player")]
      /\ \A t \in Threads : t # Main /\ t \notin Adders => program[t] = <<>>
      /\ program[Main] = Tester
  BY <1>1 DEF TestProgram, Adder
<1>3. ASSUME NEW t \in Adders
      PROVE  /\ Len(program[t]) = AddsPerThread
             /\ \A k \in 1 .. AddsPerThread : program[t][k].op = "add_new_player"
  <2>1. program[t] = [k \in 1 .. AddsPerThread |-> Add("player")]
    BY <1>2
  <2>2. Len(program[t]) = AddsPerThread
    BY <1>1, <2>1
  <2>3. Add("player").op = "add_new_player"
    BY DEF Add, Do
  <2> QED
    BY <2>1, <2>2, <2>3
<1>4. \A t \in Adders : AtomicResults[t] = results[t] /\ Len(results[t]) = AddsPerThread
  BY <1>1, <1>3, DoneIsIdle
<1>5. \A t \in Adders, k \in 1 .. AddsPerThread :
        k \in Nat /\ Called(t, k, "add_new_player")
  BY <1>1, <1>3, <1>4 DEF Called, CalledIn
<1>6. \A n, m : Value(n) = Value(m) => n = m
  BY DEF Value
<1>7. \A n : Value(n) # Rejected /\ Value(n).value = n
  BY DEF Value, Rejected, Error
<1>8. ASSUME NEW c \in Succeeded
      PROVE  id[c] \in 0 .. size - 1 /\ Dealt(c[1], c[2], id[c])
  <2>1. c[1] \in Adders /\ c[2] \in 1 .. AddsPerThread /\ results[c[1]][c[2]] # Rejected
    OBVIOUS
  <2>2. PICK n \in 0 .. size - 1 : Dealt(c[1], c[2], n)
    BY <1>1, <1>4, <1>5, <2>1 DEF CountInv, Answers
  <2>3. id[c] = n
    BY <1>4, <1>7, <2>1, <2>2 DEF Dealt, DealtIn
  <2> QED
    BY <2>2, <2>3
<1>9. ASSUME NEW t \in Threads, NEW k \in Nat, NEW n \in Nat, Dealt(t, k, n)
      PROVE  <<t, k>> \in Succeeded /\ id[<<t, k>>] = n
  <2>1. /\ k \in 1 .. Len(AtomicResults[t]) /\ program[t][k].op = "add_new_player"
        /\ AtomicResults[t][k] = Value(n)
    BY <1>9 DEF Dealt, DealtIn, CalledIn
  <2>2. k \in 1 .. Len(program[t])
    <3>1. Len(AtomicResults[t]) \in Nat /\ Len(program[t]) \in Nat
      BY ContainersAssumption DEF CountInv, Lengths, RInv, IInv, TypeOK
    <3> QED
      BY <2>1, <3>1, DoneIsIdle
  <2>3. t \in Adders
    <3>1. t # Main
      <4>1. SUFFICES ASSUME t = Main PROVE FALSE
        OBVIOUS
      <4>2. k \in 1 .. 3 /\ Tester[k].op = "add_new_player"
        BY <1>2, <2>1, <2>2, <4>1 DEF Tester
      <4>3. k = 1 \/ k = 2 \/ k = 3
        BY <4>2
      <4> QED
        BY <4>2, <4>3 DEF Tester, AllPlayers, Await, Do
    <3>2. program[t] # <<>>
      BY <2>2
    <3> QED
      BY <1>2, <3>1, <3>2
  <2>4. k \in 1 .. AddsPerThread /\ results[t][k] = Value(n)
    BY <1>3, <1>4, <2>1, <2>2, <2>3
  <2> QED
    BY <1>7, <2>3, <2>4
<1>10. id \in [Succeeded -> 0 .. size - 1]
  BY <1>8
<1>11. \A c \in Succeeded :
         /\ c = <<c[1], c[2]>> /\ c[1] \in Threads /\ c[2] \in Nat /\ id[c] \in Nat
         /\ Dealt(c[1], c[2], id[c])
  <2> SUFFICES ASSUME NEW c \in Succeeded
               PROVE  /\ c = <<c[1], c[2]>> /\ c[1] \in Threads /\ c[2] \in Nat
                      /\ id[c] \in Nat /\ Dealt(c[1], c[2], id[c])
    OBVIOUS
  <2>1. c \in Calls
    OBVIOUS
  <2>2. id[c] \in 0 .. size - 1 /\ Dealt(c[1], c[2], id[c])
    BY <1>8
  <2>3. c = <<c[1], c[2]>> /\ c[1] \in Adders /\ c[2] \in 1 .. AddsPerThread
    BY <2>1
  <2>4. c[1] \in Threads /\ c[2] \in Nat
    BY <1>1, <2>3
  <2> HIDE DEF id, Succeeded
  <2>5. id[c] \in Nat
    BY <1>1, <2>2
  <2> QED
    BY <2>2, <2>3, <2>4, <2>5, Zenon
<1>12. \A t \in Threads, k, n \in Nat :
         Dealt(t, k, n) => <<t, k>> \in Succeeded /\ id[<<t, k>>] = n
  BY <1>9
<1> HIDE DEF id, Succeeded
<1>13. id \in Bijection(Succeeded, 0 .. size - 1)
  <2>1. ASSUME NEW a \in Succeeded, NEW b \in Succeeded, id[a] = id[b]
        PROVE  a = b
    <3>1. /\ Dealt(a[1], a[2], id[a]) /\ Dealt(b[1], b[2], id[a])
          /\ a[1] \in Threads /\ b[1] \in Threads
          /\ a[2] \in Nat /\ b[2] \in Nat /\ id[a] \in Nat
      BY <1>11, <2>1, Zenon
    <3>2. \A i, j, n \in Nat, t, u \in Threads :
            Dealt(t, i, n) /\ Dealt(u, j, n) => u = t /\ j = i
      BY Zenon DEF CountInv, DealtOnce
    <3>3. b[1] = a[1] /\ b[2] = a[2]
      BY <3>1, <3>2, Zenon
    <3>4. a = <<a[1], a[2]>> /\ b = <<b[1], b[2]>>
      BY <1>11, Zenon
    <3> QED
      BY <3>3, <3>4, Zenon
  <2>2. ASSUME NEW n \in 0 .. size - 1 PROVE \E c \in Succeeded : id[c] = n
    <3>1. PICK t \in Threads, k \in Nat : Dealt(t, k, n)
      BY <2>2, Zenon DEF CountInv, EachDealt
    <3>2. n \in Nat
      BY <1>1
    <3> QED
      BY <1>12, <3>1, <3>2, Zenon
  <2> QED
    BY <1>10, <2>1, <2>2 DEF Bijection, Injection, Surjection, IsInjective
<1>14. /\ IsFiniteSet(Calls) /\ Cardinality(Calls) = Cardinality(Adders) * AddsPerThread
       /\ IsFiniteSet(Succeeded) /\ Cardinality(Succeeded) = size
  <2>1. IsFiniteSet(1 .. AddsPerThread) /\ Cardinality(1 .. AddsPerThread) = AddsPerThread
    <3>1. 1 \in Int /\ AddsPerThread \in Int
      BY <1>1
    <3>2. /\ IsFiniteSet(1 .. AddsPerThread)
          /\ Cardinality(1 .. AddsPerThread) =
               IF 1 > AddsPerThread THEN 0 ELSE AddsPerThread - 1 + 1
      BY <3>1, FS_Interval, Zenon
    <3> QED
      BY <1>1, <3>2
  <2>2. IsFiniteSet(Calls) /\ Cardinality(Calls) = Cardinality(Adders) * AddsPerThread
    BY <2>1, FS_Product DEF TestIsSetUp
  <2>3. IsFiniteSet(Succeeded)
    BY <2>2, FS_Subset DEF Succeeded
  <2>4. Cardinality(0 .. size - 1) = Cardinality(Succeeded)
    BY <1>13, <2>3, FS_Bijection DEF ExistsBijection
  <2>5. Cardinality(0 .. size - 1) = size
    <3>1. 0 \in Int /\ size - 1 \in Int
      BY <1>1
    <3>2. Cardinality(0 .. size - 1) = IF 0 > size - 1 THEN 0 ELSE size - 1 - 0 + 1
      BY <3>1, FS_Interval, Zenon
    <3> QED
      BY <1>1, <3>2
  <2> QED
    BY <2>2, <2>3, <2>4, <2>5
<1>15. size = Target
  <2>1. SUFFICES ASSUME size # Target PROVE FALSE
    OBVIOUS
  <2>2. ASSUME NEW c \in Calls PROVE c \in Succeeded
    <3>1. c[1] \in Adders /\ c[2] \in 1 .. AddsPerThread
      OBVIOUS
    <3>2. PICK n \in 0 .. size - 1 : Dealt(c[1], c[2], n)
      BY <1>1, <1>5, <2>1, <3>1 DEF CountInv, Answers, Full
    <3> QED
      BY <1>4, <1>7, <3>1, <3>2 DEF Dealt, DealtIn, Succeeded
  <2>3. Succeeded = Calls
    BY <2>2 DEF Succeeded
  <2>4. Cardinality(Calls) = size
    BY <1>14, <2>3
  <2>5. Target <= Cardinality(Calls)
    BY <1>14, Zenon DEF TestIsSetUp
  <2> QED
    BY <1>1, <2>1, <2>4, <2>5
<1> QED
  BY <1>14, <1>15 DEF Succeeded

\* accepted_player_container_test.cpp passes for every number of threads, of additions
\* per thread and of places (TestIsSetUp), in every interleaving: the test itself sees
\* the ones that the scheduler happens to produce for 3, 1000 and 10.
THEOREM TestAlwaysPasses == ASSUME TestIsSetUp PROVE Spec => []TestPasses
<1>1. RInv /\ CountInv /\ JoinedDone => TestPasses
  <2> SUFFICES ASSUME RInv, CountInv, JoinedDone, program = TestProgram
               PROVE  /\ Len(results[Main]) > 1 => Len(results[Main][2].value) = Target
                      /\ Len(results[Main]) > 2 => results[Main][3] = Error("runtime_error")
                      /\ Len(results[Main]) > 0 =>
                           Cardinality({c \in Adders \X (1 .. AddsPerThread) :
                                          results[c[1]][c[2]] # Rejected}) = Target
    BY Zenon DEF TestPasses
  <2>1. Main \in Threads /\ Len(results[Main]) \in Nat /\ Target \in Nat
    BY ContainersAssumption DEF TestIsSetUp, RInv, IInv, Kept
  <2>2. /\ program[Main][1].op = "join" /\ program[Main][1].arg = Adders
        /\ program[Main][2].op = "return_when_target_players_joined"
        /\ program[Main][3].op = "get_accepted_player" /\ program[Main][3].arg = Target
    BY <2>1 DEF TestProgram, Tester, AllPlayers, Await, Do
  <2>3. ASSUME Len(results[Main]) > 0 PROVE \A t \in Adders : Done(t)
    <3>1. 1 \in Nat /\ 1 \in 1 .. Len(results[Main])
      BY <2>1, <2>3
    <3>2. \A t \in Adders : t \in Threads
      BY DEF TestIsSetUp
    <3> QED
      BY <2>1, <2>2, <3>1, <3>2, Zenon DEF JoinedDone
  <2>4. ASSUME Len(results[Main]) > 1 PROVE Len(results[Main][2].value) = Target
    <3>1. /\ Called(Main, 2, "return_when_target_players_joined")
          /\ AtomicResults[Main][2] = results[Main][2]
      BY <2>1, <2>2, <2>4, ReturnedEarlier DEF Called, CalledIn
    <3> QED
      BY <2>1, <3>1 DEF CountInv, Observed
  <2>5. ASSUME Len(results[Main]) > 2 PROVE results[Main][3] = Error("runtime_error")
    <3>1. /\ Called(Main, 3, "get_accepted_player") /\ program[Main][3].arg >= Target
          /\ AtomicResults[Main][3] = results[Main][3]
      BY <2>1, <2>2, <2>5, ReturnedEarlier DEF Called, CalledIn
    <3> QED
      BY <2>1, <3>1 DEF CountInv, Observed
  <2> QED
    BY <2>3, <2>4, <2>5, CallsAreCounted
<1>2. Init => JoinedDone
  BY DEF Init, ContainersInit, JoinedDone
<1>3. Spec => []RInv
  BY InitRInv, NextRInv, PTL DEF Spec
<1> QED
  BY <1>1, <1>2, <1>3, InitCount, NextCount, NextJoined, PTL DEF Spec
=============================================================================
