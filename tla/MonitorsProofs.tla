--------------------------- MODULE MonitorsProofs ---------------------------
(***************************************************************************)
(* Theorems about Monitors, for all threads, programs and numbers of       *)
(* players: mutual exclusion and no lost wake-up.                          *)
(*                                                                         *)
(* Fourteen of the actions are a step of a method while its thread holds   *)
(* the mutex.  They are first shown to be instances of InsideStep, of      *)
(* which preservation is proved once.                                      *)
(***************************************************************************)
EXTENDS Monitors, TLAPS

\* The places of a thread that holds a mutex.
Inside == {"enter", "sleep", "found", "insert", "score_map", "notify", "notified",
           "second", "clear", "unlock"}

Places == Inside \union {"call", "wait"}

\* A thread in a method has a call to make, and is where the method can be; it goes
\* to sleep only while what it waits for is not there.
Placed(t) ==
  /\ pc[t] # "call" => ~Done(t)
  /\ pc[t] \in {"sleep", "wait", "found"} => Call(t).op \in Waits
  /\ pc[t] = "insert" => Call(t).op = "add_new_player"
  /\ pc[t] = "sleep" => ~Ready(Call(t))

Kept ==
  /\ pc \in [Threads -> Places]
  /\ DOMAIN results = Threads
  /\ \A t \in Threads : Len(results[t]) \in Nat /\ Placed(t)

IInv == TypeOK /\ NoLostWakeup /\ Kept

\* A call that waits becomes ready only while its object is held by the thread that
\* has made it so and will notify.
Affects(t, u) ==
  /\ Object(Call(u)) = Object(Call(t))
  /\ pc'[t] \in {"score_map", "notify"}

InsideStep(t) ==
  /\ pc[t] \in Inside
  /\ \E p \in Inside : pc' = [pc EXCEPT ![t] = p]
  /\ pc[t] \in {"score_map", "notify"} => pc'[t] = "notify"
  /\ UNCHANGED <<program, owner, waiting, spurious>>
  /\ DOMAIN results' = Threads
  /\ \A u \in Threads : Len(results'[u]) \in Nat /\ Returned(u)' = Returned(u)
  /\ Placed(t)'
  /\ \A u \in Threads \ {t} :
       Call(u).op \in Waits => Ready(Call(u))' = Ready(Call(u)) \/ Affects(t, u)

-----------------------------------------------------------------------------
(* Initially *)

LEMMA InitIInv == Init => IInv
<1> SUFFICES ASSUME Init PROVE IInv
  OBVIOUS
<1>1. /\ pc = [t \in Threads |-> "call"]
      /\ results = [t \in Threads |-> <<>>]
      /\ program \in Programs
  BY DEF Init, ContainersInit
<1>2. \A t \in Threads : Len(results[t]) = 0 /\ Returned(t) = 0
  <2> TAKE t \in Threads
  <2>1. results[t] = <<>> /\ pc[t] = "call"
    BY <1>1
  <2>2. Len(results[t]) = 0
    BY <2>1
  <2> QED
    BY <2>1, <2>2 DEF Returned
<1>3. \A t \in Threads : Len(program[t]) \in Nat
  BY <1>1, ContainersAssumption
<1>4. Kept
  BY <1>1, <1>2 DEF Kept, Placed, Places
<1>5. NoLostWakeup
  BY DEF Init, NoLostWakeup
<1>6. TypeOK
  <2>1. /\ owner \in [Objects -> Threads \union {NoThread}]
        /\ waiting \in [Objects -> SUBSET Threads]
    BY DEF Init
  <2>2. spurious \in 0 .. MaxSpurious
    BY MonitorsAssumption DEF Init
  <2>3. \A o \in Objects, t \in Threads :
          /\ t \in waiting[o] <=> pc[t] = "wait" /\ Object(Call(t)) = o
          /\ owner[o] = t <=> pc[t] \notin {"call", "wait"} /\ Object(Call(t)) = o
    BY <1>1, MonitorsAssumption DEF Init
  <2> QED
    BY <1>1, <1>2, <1>3, <2>1, <2>2, <2>3 DEF TypeOK
<1> QED
  BY <1>4, <1>5, <1>6 DEF IInv

-----------------------------------------------------------------------------
(* A step of the thread that holds the mutex *)

LEMMA ObjectType == ASSUME NEW call PROVE Object(call) \in Objects
  BY DEF Object, Objects

\* Two threads are not in methods of one object.
LEMMA MutualExclusion ==
  ASSUME IInv, NEW t \in Threads, NEW u \in Threads, u # t,
         pc[t] \notin {"call", "wait"}, pc[u] \notin {"call", "wait"}
  PROVE  Object(Call(u)) # Object(Call(t))
<1>1. Object(Call(u)) \in Objects /\ Object(Call(t)) \in Objects
  BY ObjectType
<1>2. owner[Object(Call(u))] = u /\ owner[Object(Call(t))] = t
  BY <1>1 DEF IInv, TypeOK
<1> QED
  BY <1>2

LEMMA InsideStepInv ==
  ASSUME IInv, NEW t \in Threads, InsideStep(t)
  PROVE  IInv'
<1>1. \A u \in Threads : Call(u)' = Call(u) /\ (Done(u)' <=> Done(u))
  BY DEF InsideStep, Call, Done
<1>2. /\ pc[t] \in Inside /\ pc'[t] \in Inside
      /\ \A u \in Threads \ {t} : pc'[u] = pc[u]
      /\ pc' \in [Threads -> Places]
  BY DEF InsideStep, IInv, Kept, Places
<1>3. \A u \in Threads : (pc'[u] = "wait" <=> pc[u] = "wait")
                         /\ (pc'[u] \in {"call", "wait"} <=> pc[u] \in {"call", "wait"})
  BY <1>2 DEF Inside
<1>4. \A u \in Threads : Object(Call(u))' = Object(Call(u))
  BY <1>1 DEF Object
<1>5. owner' = owner /\ waiting' = waiting /\ program' = program /\ spurious' = spurious
  BY DEF InsideStep
<1>6. TypeOK'
  <2>1. \A u \in Threads : Returned(u)' \in 0 .. Len(program'[u])
    BY <1>5 DEF InsideStep, IInv, TypeOK
  <2>2. \A o \in Objects, u \in Threads :
          /\ u \in waiting'[o] <=> pc'[u] = "wait" /\ Object(Call(u))' = o
          /\ owner'[o] = u <=> pc'[u] \notin {"call", "wait"} /\ Object(Call(u))' = o
    BY <1>3, <1>4, <1>5 DEF IInv, TypeOK
  <2> QED
    BY <1>5, <2>1, <2>2 DEF IInv, TypeOK
<1>7. ASSUME NEW u \in Threads \ {t}, pc[u] \notin {"call", "wait"}, Call(u).op \in Waits
      PROVE  Ready(Call(u))' = Ready(Call(u))
  BY <1>2, <1>7, MutualExclusion DEF InsideStep, Affects, Inside
<1>8. Kept'
  <2>1. ASSUME NEW u \in Threads \ {t} PROVE Placed(u)'
    BY <1>1, <1>2, <1>7, <2>1 DEF IInv, Kept, Placed
  <2> QED
    BY <1>2, <2>1 DEF InsideStep, Kept
<1>9. NoLostWakeup'
  <2> SUFFICES ASSUME NEW o \in Objects, NEW u \in waiting'[o]
               PROVE  \/ ~Ready(Call(u))'
                      \/ \E w \in Threads : owner'[o] = w /\ pc'[w] \in {"score_map", "notify"}
    BY DEF NoLostWakeup
  <2>1. u \in waiting[o] /\ u \in Threads
    BY <1>5 DEF IInv, TypeOK
  <2>2. pc[u] = "wait" /\ Object(Call(u)) = o /\ u # t /\ Call(u).op \in Waits
    BY <1>2, <2>1 DEF IInv, TypeOK, Kept, Placed, Inside
  <2>3. CASE \E w \in Threads : owner[o] = w /\ pc[w] \in {"score_map", "notify"}
    BY <1>2, <1>5, <2>3 DEF InsideStep
  <2>4. CASE ~Ready(Call(u)) /\ Affects(t, u)
    <3>1. owner[o] = t
      BY <1>2, <2>2, <2>4 DEF Affects, IInv, TypeOK, Inside
    <3> QED
      BY <1>5, <2>4, <3>1 DEF Affects
  <2>5. CASE ~Ready(Call(u)) /\ ~Affects(t, u)
    BY <2>1, <2>2, <2>5 DEF InsideStep
  <2> QED
    BY <2>1, <2>3, <2>4, <2>5 DEF IInv, NoLostWakeup
<1> QED
  BY <1>6, <1>8, <1>9 DEF IInv

\* A thread is in the same call as long as its method has not returned.
LEMMA SameCall ==
  ASSUME IInv, NEW t \in Threads, NEW p \in Inside, pc[t] \in Inside,
         pc' = [pc EXCEPT ![t] = p], program' = program,
         \/ results' = results /\ (p \in {"clear", "unlock"} <=> pc[t] \in {"clear", "unlock"})
         \/ /\ \E v : results' = [results EXCEPT ![t] = Append(@, v)]
            /\ pc[t] \notin {"clear", "unlock"} /\ p \in {"clear", "unlock"}
  PROVE  /\ DOMAIN results' = Threads
         /\ \A u \in Threads : /\ Len(results'[u]) \in Nat
                               /\ Returned(u)' = Returned(u)
                               /\ Call(u)' = Call(u) /\ (Done(u)' <=> Done(u))
<1>1. pc'[t] = p /\ \A u \in Threads \ {t} : pc'[u] = pc[u] /\ results'[u] = results[u]
  BY DEF IInv, Kept
<1>2. DOMAIN results' = Threads
  BY DEF IInv, Kept
<1>3. Len(results'[t]) \in Nat /\ Returned(t)' = Returned(t)
  <2>1. CASE results' = results
    BY <1>1, <2>1 DEF IInv, Kept, Returned
  <2>2. CASE \E v : results' = [results EXCEPT ![t] = Append(@, v)]
    <3>1. Len(results'[t]) = Len(results[t]) + 1 /\ Len(results[t]) \in Nat
      BY <2>2 DEF IInv, Kept
    <3> QED
      BY <1>1, <2>2, <3>1 DEF Returned, IInv, Kept
  <2> QED
    BY <2>1, <2>2
<1>4. \A u \in Threads : Len(results'[u]) \in Nat /\ Returned(u)' = Returned(u)
  BY <1>1, <1>3 DEF IInv, Kept, Returned
<1> QED
  BY <1>2, <1>4 DEF Call, Done

\* What a thread waits for depends on three variables.
LEMMA SameReadiness ==
  ASSUME NEW t \in Threads, Call(t)' = Call(t), Call(t).op \in Waits,
         UNCHANGED <<players, turns, finished>>
  PROVE  Ready(Call(t))' = Ready(Call(t))
  BY DEF Ready, Full, Waits

LEMMA QuietStep ==
  ASSUME IInv, NEW t \in Threads, NEW p \in Inside,
         pc[t] \in Inside \ {"notify"}, pc[t] = "score_map" => p = "notify",
         pc' = [pc EXCEPT ![t] = p], UNCHANGED <<program, locks>>,
         \/ results' = results /\ (p \in {"clear", "unlock"} <=> pc[t] \in {"clear", "unlock"})
         \/ /\ \E v : results' = [results EXCEPT ![t] = Append(@, v)]
            /\ pc[t] \notin {"clear", "unlock"} /\ p \in {"clear", "unlock"},
         UNCHANGED <<players, turns, finished>>,
         p = "insert" => Call(t).op = "add_new_player",
         p \in {"sleep", "found"} => Call(t).op \in Waits,
         p = "sleep" => ~Ready(Call(t))
  PROVE  InsideStep(t)
<1>1. pc'[t] = p
  BY DEF IInv, Kept
<1>2. /\ DOMAIN results' = Threads
      /\ \A u \in Threads : /\ Len(results'[u]) \in Nat
                            /\ Returned(u)' = Returned(u)
                            /\ Call(u)' = Call(u) /\ (Done(u)' <=> Done(u))
  BY SameCall
<1>3. \A u \in Threads : Call(u).op \in Waits => Ready(Call(u))' = Ready(Call(u))
  BY <1>2, SameReadiness
<1>4. Placed(t)'
  BY <1>1, <1>2, <1>3 DEF Placed, IInv, Kept, Inside
<1>5. owner' = owner /\ waiting' = waiting /\ spurious' = spurious /\ program' = program
  BY DEF locks
<1> QED
  BY <1>1, <1>2, <1>3, <1>4, <1>5 DEF InsideStep

\* What other objects are waited for does not change either when a method works on its
\* own.
LEMMA WriteStep ==
  ASSUME IInv, NEW t \in Threads, NEW p \in {"score_map", "notify"},
         pc[t] \in {"enter", "insert"},
         pc' = [pc EXCEPT ![t] = p], UNCHANGED <<program, results, locks>>,
         Call(t).op = "add_new_player" => UNCHANGED <<turns, finished>>,
         Call(t).op # "add_new_player" =>
           /\ Call(t).op \in {"append_new_turn", "mark_the_game_as_finished"}
           /\ UNCHANGED players
  PROVE  InsideStep(t)
<1>1. pc'[t] = p /\ p \in Inside
  BY DEF IInv, Kept, Inside
<1>2. /\ DOMAIN results' = Threads
      /\ \A u \in Threads : /\ Len(results'[u]) \in Nat
                            /\ Returned(u)' = Returned(u)
                            /\ Call(u)' = Call(u) /\ (Done(u)' <=> Done(u))
  BY <1>1, SameCall DEF Inside
<1>3. ASSUME NEW u \in Threads \ {t}, Call(u).op \in Waits,
             Object(Call(u)) # Object(Call(t))
      PROVE  Ready(Call(u))' = Ready(Call(u))
  <2>1. CASE Call(t).op = "add_new_player"
    <3>1. Call(u).op \in {"get_turn", "return_when_game_finished"}
      BY <1>3, <2>1 DEF Object, Waits
    <3> QED
      BY <1>2, <2>1, <3>1 DEF Ready
  <2>2. CASE Call(t).op # "add_new_player"
    <3>1. Call(u).op \in {"return_when_target_players_joined", "get_accepted_player"}
      BY <1>3, <2>2 DEF Object, Waits
    <3> QED
      BY <1>2, <2>2, <3>1 DEF Ready, Full
  <2> QED
    BY <2>1, <2>2
<1>4. Placed(t)'
  BY <1>1, <1>2 DEF Placed, IInv, Kept
<1>5. owner' = owner /\ waiting' = waiting /\ spurious' = spurious /\ program' = program
  BY DEF locks
<1> QED
  BY <1>1, <1>2, <1>3, <1>4, <1>5 DEF InsideStep, Affects, Inside

\* Each step of a method between locking and unlocking, except the notification, is an
\* InsideStep.
LEMMA MethodStep ==
  ASSUME IInv, NEW t \in Threads,
         \/ Throw(t) \/ EvaluatePredicate(t) \/ ReturnFound(t) \/ ReturnNotified(t)
         \/ AddIsRejected(t) \/ AddIsAllowed(t) \/ InsertPlayer(t)
         \/ AppendNewTurn(t) \/ MarkFinished(t) \/ StoreScores(t)
         \/ MarkUpdated(t) \/ StoreMove(t) \/ CopySlots(t) \/ ClearSlots(t)
  PROVE  InsideStep(t)
<1> USE DEF Inside
<1>1. CASE Throw(t)
  BY <1>1, QuietStep DEF Throw, At, Returns, Goto, containers
<1>2. CASE EvaluatePredicate(t)
  <2>1. CASE Ready(Call(t))
    BY <1>2, <2>1, QuietStep DEF EvaluatePredicate, At, Goto, containers
  <2>2. CASE ~Ready(Call(t))
    BY <1>2, <2>2, QuietStep DEF EvaluatePredicate, At, Goto, containers
  <2> QED
    BY <2>1, <2>2
<1>3. CASE ReturnFound(t)
  BY <1>3, QuietStep DEF ReturnFound, Returns, Goto, containers
<1>4. CASE ReturnNotified(t)
  BY <1>4, QuietStep DEF ReturnNotified, Returns, Goto, containers
<1>5. CASE AddIsRejected(t)
  BY <1>5, QuietStep DEF AddIsRejected, At, Returns, Goto, containers
<1>6. CASE StoreScores(t)
  BY <1>6, QuietStep DEF StoreScores, Goto
<1>7. CASE MarkUpdated(t)
  BY <1>7, QuietStep DEF MarkUpdated, At, Goto
<1>8. CASE StoreMove(t)
  BY <1>8, QuietStep DEF StoreMove, Returns, Goto
<1>9. CASE CopySlots(t)
  BY <1>9, QuietStep DEF CopySlots, At, Goto, containers
<1>10. CASE ClearSlots(t)
  BY <1>10, QuietStep DEF ClearSlots, Goto
<1>11. CASE AddIsAllowed(t)
  BY <1>11, QuietStep DEF AddIsAllowed, At, Goto, containers
<1>12. CASE InsertPlayer(t)
  BY <1>12, WriteStep DEF InsertPlayer, Goto, IInv, Kept, Placed
<1>13. CASE AppendNewTurn(t)
  BY <1>13, WriteStep DEF AppendNewTurn, At, Goto
<1>14. CASE MarkFinished(t)
  BY <1>14, WriteStep DEF MarkFinished, At, Goto
<1> QED
  BY <1>1, <1>2, <1>3, <1>4, <1>5, <1>6, <1>7, <1>8, <1>9, <1>10, <1>11, <1>12, <1>13,
     <1>14

-----------------------------------------------------------------------------
(* Locking, waiting and notifying *)

\* A thread whose results do not change and that does not come to or leave the end of
\* a method is in the same call, and what it waits for is there or not as before.
LEMMA Unmoved ==
  ASSUME IInv, NEW u \in Threads, program' = program, results' = results,
         pc'[u] \in {"clear", "unlock"} <=> pc[u] \in {"clear", "unlock"},
         UNCHANGED containers
  PROVE  /\ Returned(u)' = Returned(u) /\ Call(u)' = Call(u) /\ (Done(u)' <=> Done(u))
         /\ Object(Call(u))' = Object(Call(u))
         /\ Call(u).op \in Waits => Ready(Call(u))' = Ready(Call(u))
<1>1. Returned(u)' = Returned(u)
  BY DEF Returned
<1>2. Call(u)' = Call(u) /\ (Done(u)' <=> Done(u))
  BY <1>1 DEF Call, Done
<1>3. Object(Call(u))' = Object(Call(u))
  BY <1>2 DEF Object
<1>4. Call(u).op \in Waits => Ready(Call(u))' = Ready(Call(u))
  BY <1>2, SameReadiness DEF containers
<1> QED
  BY <1>1, <1>2, <1>3, <1>4

\* The mutex passes from nobody to t.
LEMMA LockInv == ASSUME IInv, NEW t \in Threads, Lock(t) PROVE IInv'
<1> DEFINE o == Object(Call(t))
<1>1. /\ pc[t] = "call" /\ pc'[t] = "enter" /\ ~Done(t)
      /\ \A u \in Threads \ {t} : pc'[u] = pc[u]
      /\ pc' \in [Threads -> Places]
  BY DEF Lock, Goto, IInv, Kept, Places, Inside
<1>2. \A u \in Threads :
        /\ Returned(u)' = Returned(u) /\ Call(u)' = Call(u) /\ (Done(u)' <=> Done(u))
        /\ Object(Call(u))' = Object(Call(u))
        /\ Call(u).op \in Waits => Ready(Call(u))' = Ready(Call(u))
  BY <1>1, Unmoved DEF Lock
<1>3. /\ o \in Objects /\ owner[o] = NoThread /\ owner' = [owner EXCEPT ![o] = t]
      /\ waiting' = waiting /\ program' = program /\ spurious' = spurious
      /\ results' = results
  BY ObjectType DEF Lock
<1>4. TypeOK'
  <2>1. \A u \in Threads : Returned(u)' \in 0 .. Len(program'[u])
    BY <1>2, <1>3 DEF IInv, TypeOK
  <2>2. \A p \in Objects, u \in Threads :
          u \in waiting'[p] <=> pc'[u] = "wait" /\ Object(Call(u))' = p
    BY <1>1, <1>2, <1>3 DEF IInv, TypeOK
  <2>3. \A p \in Objects, u \in Threads :
          owner'[p] = u <=> pc'[u] \notin {"call", "wait"} /\ Object(Call(u))' = p
    BY <1>1, <1>2, <1>3, MonitorsAssumption DEF IInv, TypeOK
  <2>4. owner' \in [Objects -> Threads \union {NoThread}]
    BY <1>3 DEF IInv, TypeOK
  <2> QED
    BY <1>3, <2>1, <2>2, <2>3, <2>4 DEF IInv, TypeOK
<1>5. Kept'
  <2>1. ASSUME NEW u \in Threads PROVE Placed(u)'
    BY <1>1, <1>2 DEF IInv, Kept, Placed
  <2> QED
    BY <1>1, <1>3, <2>1 DEF IInv, Kept
<1>6. NoLostWakeup'
  <2> SUFFICES ASSUME NEW p \in Objects, NEW u \in waiting'[p]
               PROVE  \/ ~Ready(Call(u))'
                      \/ \E w \in Threads : owner'[p] = w /\ pc'[w] \in {"score_map", "notify"}
    BY DEF NoLostWakeup
  <2>1. u \in waiting[p] /\ u \in Threads /\ Call(u).op \in Waits
    BY <1>3 DEF IInv, TypeOK, Kept, Placed
  <2>2. ASSUME NEW w \in Threads, owner[p] = w, pc[w] \in {"score_map", "notify"}
        PROVE  owner'[p] = w /\ pc'[w] \in {"score_map", "notify"}
    BY <1>1, <1>3, <2>2, MonitorsAssumption DEF IInv, TypeOK
  <2> QED
    BY <1>2, <2>1, <2>2 DEF IInv, NoLostWakeup
<1> QED
  BY <1>4, <1>5, <1>6 DEF IInv

\* The mutex passes from t to nobody, which nobody else in a method of the object could
\* hold meanwhile.
LEMMA UnlockInv == ASSUME IInv, NEW t \in Threads, Unlock(t) PROVE IInv'
<1> DEFINE o == Object(Call(t))
<1>1. /\ pc[t] = "unlock" /\ pc'[t] = "call" /\ ~Done(t)
      /\ \A u \in Threads \ {t} : pc'[u] = pc[u]
      /\ pc' \in [Threads -> Places]
  BY DEF Unlock, Goto, IInv, Kept, Places, Inside, Placed
<1>2. \A u \in Threads \ {t} :
        /\ Returned(u)' = Returned(u) /\ Call(u)' = Call(u) /\ (Done(u)' <=> Done(u))
        /\ Object(Call(u))' = Object(Call(u))
        /\ Call(u).op \in Waits => Ready(Call(u))' = Ready(Call(u))
  BY <1>1, Unmoved DEF Unlock
<1>3. /\ o \in Objects /\ owner[o] = t /\ owner' = [owner EXCEPT ![o] = NoThread]
      /\ waiting' = waiting /\ program' = program /\ spurious' = spurious
      /\ results' = results
  BY <1>1, ObjectType DEF Unlock, IInv, TypeOK
<1>4. TypeOK'
  <2>1. \A u \in Threads : Returned(u)' \in 0 .. Len(program'[u])
    <3>1. Returned(t)' = Returned(t) + 1 /\ Returned(t) # Len(program[t])
      BY <1>1, <1>3 DEF Returned, Done, IInv, Kept
    <3>2. Returned(t) \in 0 .. Len(program[t]) /\ Len(program[t]) \in Nat
      BY ContainersAssumption DEF IInv, TypeOK
    <3> QED
      BY <1>2, <1>3, <3>1, <3>2 DEF IInv, TypeOK
  <2>2. \A p \in Objects, u \in Threads :
          u \in waiting'[p] <=> pc'[u] = "wait" /\ Object(Call(u))' = p
    BY <1>1, <1>2, <1>3 DEF IInv, TypeOK
  <2>3. \A p \in Objects, u \in Threads :
          owner'[p] = u <=> pc'[u] \notin {"call", "wait"} /\ Object(Call(u))' = p
    BY <1>1, <1>2, <1>3, MonitorsAssumption, MutualExclusion DEF IInv, TypeOK
  <2>4. owner' \in [Objects -> Threads \union {NoThread}]
    BY <1>3 DEF IInv, TypeOK
  <2> QED
    BY <1>3, <2>1, <2>2, <2>3, <2>4 DEF IInv, TypeOK
<1>5. Kept'
  <2>1. ASSUME NEW u \in Threads PROVE Placed(u)'
    BY <1>1, <1>2 DEF IInv, Kept, Placed
  <2> QED
    BY <1>1, <1>3, <2>1 DEF IInv, Kept
<1>6. NoLostWakeup'
  <2> SUFFICES ASSUME NEW p \in Objects, NEW u \in waiting'[p]
               PROVE  \/ ~Ready(Call(u))'
                      \/ \E w \in Threads : owner'[p] = w /\ pc'[w] \in {"score_map", "notify"}
    BY DEF NoLostWakeup
  <2>1. u \in waiting[p] /\ u \in Threads \ {t} /\ Call(u).op \in Waits
    BY <1>1, <1>3 DEF IInv, TypeOK, Kept, Placed
  <2>2. ASSUME NEW w \in Threads, owner[p] = w, pc[w] \in {"score_map", "notify"}
        PROVE  owner'[p] = w /\ pc'[w] \in {"score_map", "notify"}
    BY <1>1, <1>3, <2>2 DEF IInv, TypeOK
  <2> QED
    BY <1>2, <2>1, <2>2 DEF IInv, NoLostWakeup
<1> QED
  BY <1>4, <1>5, <1>6 DEF IInv

\* The mutex is released with the predicate still false, so t may wait.
LEMMA WaitInv == ASSUME IInv, NEW t \in Threads, Wait(t) PROVE IInv'
<1> DEFINE o == Object(Call(t))
<1>1. /\ pc[t] = "sleep" /\ pc'[t] = "wait" /\ ~Done(t)
      /\ Call(t).op \in Waits /\ ~Ready(Call(t))
      /\ \A u \in Threads \ {t} : pc'[u] = pc[u]
      /\ pc' \in [Threads -> Places]
  BY DEF Wait, Goto, IInv, Kept, Places, Inside, Placed
<1>2. \A u \in Threads :
        /\ Returned(u)' = Returned(u) /\ Call(u)' = Call(u) /\ (Done(u)' <=> Done(u))
        /\ Object(Call(u))' = Object(Call(u))
        /\ Call(u).op \in Waits => Ready(Call(u))' = Ready(Call(u))
  BY <1>1, Unmoved DEF Wait
<1>3. /\ o \in Objects /\ owner[o] = t /\ owner' = [owner EXCEPT ![o] = NoThread]
      /\ waiting' = [waiting EXCEPT ![o] = @ \union {t}]
      /\ program' = program /\ spurious' = spurious /\ results' = results
  BY <1>1, ObjectType DEF Wait, IInv, TypeOK
<1>4. TypeOK'
  <2>1. \A u \in Threads : Returned(u)' \in 0 .. Len(program'[u])
    BY <1>2, <1>3 DEF IInv, TypeOK
  <2>2. \A p \in Objects, u \in Threads :
          u \in waiting'[p] <=> pc'[u] = "wait" /\ Object(Call(u))' = p
    BY <1>1, <1>2, <1>3 DEF IInv, TypeOK
  <2>3. \A p \in Objects, u \in Threads :
          owner'[p] = u <=> pc'[u] \notin {"call", "wait"} /\ Object(Call(u))' = p
    BY <1>1, <1>2, <1>3, MonitorsAssumption, MutualExclusion DEF IInv, TypeOK
  <2>4. /\ owner' \in [Objects -> Threads \union {NoThread}]
        /\ waiting' \in [Objects -> SUBSET Threads]
    BY <1>3 DEF IInv, TypeOK
  <2> QED
    BY <1>3, <2>1, <2>2, <2>3, <2>4 DEF IInv, TypeOK
<1>5. Kept'
  <2>1. ASSUME NEW u \in Threads PROVE Placed(u)'
    BY <1>1, <1>2 DEF IInv, Kept, Placed
  <2> QED
    BY <1>1, <1>3, <2>1 DEF IInv, Kept
<1>6. NoLostWakeup'
  <2> SUFFICES ASSUME NEW p \in Objects, NEW u \in waiting'[p]
               PROVE  \/ ~Ready(Call(u))'
                      \/ \E w \in Threads : owner'[p] = w /\ pc'[w] \in {"score_map", "notify"}
    BY DEF NoLostWakeup
  <2>1. CASE u = t
    BY <1>1, <1>2, <2>1
  <2>2. CASE u # t
    <3>1. u \in waiting[p] /\ u \in Threads /\ Call(u).op \in Waits
      BY <1>3, <2>2 DEF IInv, TypeOK, Kept, Placed
    <3>2. ASSUME NEW w \in Threads, owner[p] = w, pc[w] \in {"score_map", "notify"}
          PROVE  owner'[p] = w /\ pc'[w] \in {"score_map", "notify"}
      BY <1>1, <1>3, <3>2 DEF IInv, TypeOK
    <3> QED
      BY <1>2, <3>1, <3>2 DEF IInv, NoLostWakeup
  <2> QED
    BY <2>1, <2>2
<1> QED
  BY <1>4, <1>5, <1>6 DEF IInv

\* A thread that stops waiting only leaves the wait set.
LEMMA WakeUpInv == ASSUME IInv, NEW t \in Threads, WakeUpSpuriously(t) PROVE IInv'
<1>1. /\ pc[t] = "wait" /\ pc'[t] = "call"
      /\ \A u \in Threads \ {t} : pc'[u] = pc[u]
      /\ pc' \in [Threads -> Places]
  BY DEF WakeUpSpuriously, Goto, IInv, Kept, Places, Inside
<1>2. \A u \in Threads :
        /\ Returned(u)' = Returned(u) /\ Call(u)' = Call(u) /\ (Done(u)' <=> Done(u))
        /\ Object(Call(u))' = Object(Call(u))
        /\ Call(u).op \in Waits => Ready(Call(u))' = Ready(Call(u))
  BY <1>1, Unmoved DEF WakeUpSpuriously
<1>3. /\ Object(Call(t)) \in Objects /\ owner' = owner
      /\ waiting' = [waiting EXCEPT ![Object(Call(t))] = @ \ {t}]
      /\ program' = program /\ results' = results
  BY ObjectType DEF WakeUpSpuriously
<1>4. spurious' \in 0 .. MaxSpurious
  BY MonitorsAssumption DEF WakeUpSpuriously, IInv, TypeOK
<1>5. TypeOK'
  <2>1. \A u \in Threads : Returned(u)' \in 0 .. Len(program'[u])
    BY <1>2, <1>3 DEF IInv, TypeOK
  <2>2. \A p \in Objects, u \in Threads :
          u \in waiting'[p] <=> pc'[u] = "wait" /\ Object(Call(u))' = p
    BY <1>1, <1>2, <1>3 DEF IInv, TypeOK
  <2>3. \A p \in Objects, u \in Threads :
          owner'[p] = u <=> pc'[u] \notin {"call", "wait"} /\ Object(Call(u))' = p
    BY <1>1, <1>2, <1>3 DEF IInv, TypeOK
  <2>4. waiting' \in [Objects -> SUBSET Threads]
    BY <1>3 DEF IInv, TypeOK
  <2> QED
    BY <1>3, <1>4, <2>1, <2>2, <2>3, <2>4 DEF IInv, TypeOK
<1>6. Kept'
  <2>1. ASSUME NEW u \in Threads PROVE Placed(u)'
    BY <1>1, <1>2 DEF IInv, Kept, Placed
  <2> QED
    BY <1>1, <1>3, <2>1 DEF IInv, Kept
<1>7. NoLostWakeup'
  <2> SUFFICES ASSUME NEW p \in Objects, NEW u \in waiting'[p]
               PROVE  \/ ~Ready(Call(u))'
                      \/ \E w \in Threads : owner'[p] = w /\ pc'[w] \in {"score_map", "notify"}
    BY DEF NoLostWakeup
  <2>1. u \in waiting[p] /\ u \in Threads /\ Call(u).op \in Waits
    BY <1>3 DEF IInv, TypeOK, Kept, Placed
  <2>2. ASSUME NEW w \in Threads, owner[p] = w, pc[w] \in {"score_map", "notify"}
        PROVE  owner'[p] = w /\ pc'[w] \in {"score_map", "notify"}
    BY <1>1, <1>3, <2>2
  <2> QED
    BY <1>2, <2>1, <2>2 DEF IInv, NoLostWakeup
<1> QED
  BY <1>5, <1>6, <1>7 DEF IInv

\* Nobody waits for the object any more; of another object, the thread that is about to
\* notify is another one.
LEMMA NotifyInv == ASSUME IInv, NEW t \in Threads, NotifyAll(t) PROVE IInv'
<1> DEFINE o == Object(Call(t))
<1>1. /\ o \in Objects /\ waiting' = [waiting EXCEPT ![o] = {}] /\ owner' = owner
      /\ program' = program /\ results' = results /\ spurious' = spurious
  BY ObjectType DEF NotifyAll
<1>2. /\ pc[t] = "notify" /\ owner[o] = t
      /\ pc' = [u \in Threads |-> IF u = t THEN "notified"
                                  ELSE IF u \in waiting[o] THEN "call" ELSE pc[u]]
  BY <1>1 DEF NotifyAll, IInv, TypeOK
<1>3. \A u \in Threads : u \in waiting[o] => pc[u] = "wait" /\ u # t
  BY <1>1, <1>2 DEF IInv, TypeOK
<1>4. /\ pc'[t] = "notified"
      /\ \A u \in Threads \ {t} :
           \/ u \in waiting[o] /\ pc[u] = "wait" /\ pc'[u] = "call"
           \/ u \notin waiting[o] /\ pc'[u] = pc[u]
      /\ pc' \in [Threads -> Places]
  BY <1>2, <1>3 DEF IInv, Kept, Places, Inside
<1>5. \A u \in Threads : pc'[u] \in {"clear", "unlock"} <=> pc[u] \in {"clear", "unlock"}
  BY <1>2, <1>4
<1>6. \A u \in Threads :
        /\ Returned(u)' = Returned(u) /\ Call(u)' = Call(u) /\ (Done(u)' <=> Done(u))
        /\ Object(Call(u))' = Object(Call(u))
        /\ Call(u).op \in Waits => Ready(Call(u))' = Ready(Call(u))
  BY <1>5, Unmoved DEF NotifyAll
<1>7. TypeOK'
  <2>1. \A u \in Threads : Returned(u)' \in 0 .. Len(program'[u])
    BY <1>1, <1>6 DEF IInv, TypeOK
  <2>2. ASSUME NEW p \in Objects, NEW u \in Threads
        PROVE  u \in waiting'[p] <=> pc'[u] = "wait" /\ Object(Call(u))' = p
    BY <1>1, <1>2, <1>4, <1>6 DEF IInv, TypeOK
  <2>3. ASSUME NEW p \in Objects, NEW u \in Threads
        PROVE  owner'[p] = u <=> pc'[u] \notin {"call", "wait"} /\ Object(Call(u))' = p
    BY <1>1, <1>2, <1>4, <1>6 DEF IInv, TypeOK
  <2>4. waiting' \in [Objects -> SUBSET Threads]
    BY <1>1 DEF IInv, TypeOK
  <2> QED
    BY <1>1, <2>1, <2>2, <2>3, <2>4 DEF IInv, TypeOK
<1>8. Kept'
  <2>1. ASSUME NEW u \in Threads PROVE Placed(u)'
    BY <1>2, <1>4, <1>6 DEF IInv, Kept, Placed
  <2> QED
    BY <1>1, <1>4, <2>1 DEF IInv, Kept
<1>9. NoLostWakeup'
  <2> SUFFICES ASSUME NEW p \in Objects, NEW u \in waiting'[p]
               PROVE  \/ ~Ready(Call(u))'
                      \/ \E w \in Threads : owner'[p] = w /\ pc'[w] \in {"score_map", "notify"}
    BY DEF NoLostWakeup
  <2>1. p # o /\ u \in waiting[p] /\ u \in Threads /\ Call(u).op \in Waits
    BY <1>1 DEF IInv, TypeOK, Kept, Placed
  <2>2. ASSUME NEW w \in Threads, owner[p] = w, pc[w] \in {"score_map", "notify"}
        PROVE  owner'[p] = w /\ pc'[w] \in {"score_map", "notify"}
    <3>1. w # t
      BY <1>2, <2>1, <2>2 DEF IInv, TypeOK
    <3> QED
      BY <1>1, <1>4, <2>2, <3>1
  <2> QED
    BY <1>6, <2>1, <2>2 DEF IInv, NoLostWakeup
<1> QED
  BY <1>7, <1>8, <1>9 DEF IInv

\* join concerns no object.
LEMMA JoinInv == ASSUME IInv, NEW t \in Threads, Join(t) PROVE IInv'
<1>1. /\ pc[t] = "call" /\ ~Done(t)
      /\ pc' = pc /\ program' = program /\ UNCHANGED <<owner, waiting, spurious>>
      /\ UNCHANGED containers
      /\ results' = [results EXCEPT ![t] = Append(@, Void)]
  BY DEF Join, At, locks
<1>2. /\ \A u \in Threads \ {t} : results'[u] = results[u]
      /\ Len(results'[t]) = Len(results[t]) + 1
      /\ DOMAIN results' = Threads
  BY <1>1 DEF IInv, Kept
<1>3. \A u \in Threads \ {t} :
        /\ Returned(u)' = Returned(u) /\ Call(u)' = Call(u) /\ (Done(u)' <=> Done(u))
        /\ Object(Call(u))' = Object(Call(u))
  BY <1>1, <1>2 DEF Returned, Call, Done, Object
<1>4. \A u \in Threads \ {t} :
        Call(u).op \in Waits => Ready(Call(u))' = Ready(Call(u))
  BY <1>1, <1>3, SameReadiness DEF containers
<1>5. TypeOK'
  <2>1. \A u \in Threads : Returned(u)' \in 0 .. Len(program'[u])
    <3>1. Returned(t)' = Returned(t) + 1 /\ Returned(t) # Len(program[t])
      BY <1>1, <1>2 DEF Returned, Done, IInv, Kept
    <3>2. Returned(t) \in 0 .. Len(program[t]) /\ Len(program[t]) \in Nat
      BY ContainersAssumption DEF IInv, TypeOK
    <3> QED
      BY <1>1, <1>3, <3>1, <3>2 DEF IInv, TypeOK
  <2>2. \A p \in Objects, u \in Threads :
          /\ u \in waiting'[p] <=> pc'[u] = "wait" /\ Object(Call(u))' = p
          /\ owner'[p] = u <=> pc'[u] \notin {"call", "wait"} /\ Object(Call(u))' = p
    BY <1>1, <1>3 DEF IInv, TypeOK
  <2> QED
    BY <1>1, <2>1, <2>2 DEF IInv, TypeOK
<1>6. Kept'
  <2>1. ASSUME NEW u \in Threads PROVE Placed(u)'
    BY <1>1, <1>3, <1>4 DEF IInv, Kept, Placed
  <2>2. \A u \in Threads : Len(results'[u]) \in Nat
    BY <1>2 DEF IInv, Kept
  <2> QED
    BY <1>1, <1>2, <2>1, <2>2 DEF IInv, Kept
<1>7. NoLostWakeup'
  <2> SUFFICES ASSUME NEW p \in Objects, NEW u \in waiting'[p]
               PROVE  \/ ~Ready(Call(u))'
                      \/ \E w \in Threads : owner'[p] = w /\ pc'[w] \in {"score_map", "notify"}
    BY DEF NoLostWakeup
  <2>1. u \in waiting[p] /\ u \in Threads \ {t} /\ Call(u).op \in Waits
    BY <1>1 DEF IInv, TypeOK, Kept, Placed
  <2> QED
    BY <1>1, <1>4, <2>1 DEF IInv, NoLostWakeup
<1> QED
  BY <1>5, <1>6, <1>7 DEF IInv

-----------------------------------------------------------------------------
(* The theorems *)

LEMMA StutterInv == ASSUME IInv, UNCHANGED vars PROVE IInv'
<1>1. UNCHANGED <<program, players, turns, finished, results, pc, owner, waiting,
                  spurious>>
  BY DEF vars, containers, locks
<1>2. \A u \in Threads :
        /\ Returned(u)' = Returned(u) /\ Call(u)' = Call(u) /\ (Done(u)' <=> Done(u))
        /\ Object(Call(u))' = Object(Call(u))
        /\ Call(u).op \in Waits => Ready(Call(u))' = Ready(Call(u))
  BY <1>1, Unmoved DEF vars
<1>3. TypeOK'
  BY <1>1, <1>2 DEF IInv, TypeOK
<1>4. Kept'
  BY <1>1, <1>2 DEF IInv, Kept, Placed
<1>5. \A p \in Objects : \A u \in waiting[p] : u \in Threads /\ Call(u).op \in Waits
  BY DEF IInv, TypeOK, Kept, Placed
<1>6. NoLostWakeup'
  BY <1>1, <1>2, <1>5 DEF IInv, NoLostWakeup
<1> QED
  BY <1>3, <1>4, <1>6 DEF IInv

LEMMA NextInv == IInv /\ [Next]_vars => IInv'
<1> SUFFICES ASSUME IInv, [Next]_vars PROVE IInv'
  OBVIOUS
<1>1. CASE UNCHANGED vars
  BY <1>1, StutterInv
<1>2. ASSUME NEW t \in Threads, Step(t) PROVE IInv'
  <2>1. CASE Lock(t)
    BY <2>1, LockInv
  <2>2. CASE Unlock(t)
    BY <2>2, UnlockInv
  <2>3. CASE Wait(t)
    BY <2>3, WaitInv
  <2>4. CASE NotifyAll(t)
    BY <2>4, NotifyInv
  <2>5. CASE Join(t)
    BY <2>5, JoinInv
  <2>6. CASE ~(Lock(t) \/ Unlock(t) \/ Wait(t) \/ NotifyAll(t) \/ Join(t))
    BY <1>2, <2>6, MethodStep, InsideStepInv DEF Step
  <2> QED
    BY <2>1, <2>2, <2>3, <2>4, <2>5, <2>6
<1>3. ASSUME NEW t \in Threads, WakeUpSpuriously(t) PROVE IInv'
  BY <1>3, WakeUpInv
<1> QED
  BY <1>1, <1>2, <1>3 DEF Next

LEMMA Invariant == Spec => []IInv
<1>1. Init => IInv
  BY InitIInv
<1>2. IInv /\ [Next]_vars => IInv'
  BY NextInv
<1> QED
  BY <1>1, <1>2, PTL DEF Spec

\* The mutex of a container is held exactly by the thread that is in one of its methods
\* and not waiting, and the wait sets are exactly the threads that wait (concurrency/).
THEOREM TypeCorrect == Spec => []TypeOK
<1>1. IInv => TypeOK
  BY DEF IInv
<1> QED
  BY <1>1, Invariant, PTL

\* A thread waits for a player, a turn or the end of a game only while it is not there, or
\* while the thread that has just brought it holds the mutex and has yet to notify: no
\* call of wait in concurrency/ misses its notify_all.
THEOREM NoWakeupIsLost == Spec => []NoLostWakeup
<1>1. IInv => NoLostWakeup
  BY DEF IInv
<1> QED
  BY <1>1, Invariant, PTL
=============================================================================
