---------------------------- MODULE ServerProofs ----------------------------
(***************************************************************************)
(* Theorems about Server, for every number of clients, players, turns and  *)
(* rounds.  The inductive invariant has a part for each kind of thread;    *)
(* no part mentions the thread kinds that come after it.                   *)
(***************************************************************************)
EXTENDS Server, TLAPS

\* The main thread has published the turns its program counter says it has, and
\* a round it left is complete.
TurnsPublished(v) ==
  IF v < game_version THEN GameLength + 1
  ELSE IF v > game_version \/ main_pc \in {"await", "start", "init", "mark"} THEN 0
  ELSE main_turn + 1

\* How many of them have been worked out from a snapshot, or are being so.
SnapshotsTaken(v) ==
  IF main_pc = "append" /\ v = main_round THEN main_turn + 1
  ELSE IF TurnsPublished(v) = 0 THEN 0 ELSE TurnsPublished(v) - 1

MainControl ==
  /\ main_pc \in {"start", "init", "snapshot", "append", "reset"}
       => main_round = game_version /\ Full(game_version)
  /\ main_pc \in {"snapshot", "append"} => main_turn < GameLength
  /\ main_pc = "reset" => main_turn = GameLength
  /\ main_pc = "mark" => main_round + 1 = game_version

RosterInv(v) ==
  /\ Len(accepted[v]) <= PlayersCount
  /\ v < game_version => Full(v)
  /\ v > game_version => accepted[v] = <<>>

TurnsInv(v) ==
  /\ Len(turns[v]) = TurnsPublished(v)
  /\ \A k \in 1 .. Len(turns[v]) : turns[v][k].turn = k - 1

FinishedInv(v) ==
  finished[v] = (v < game_version /\ ~(main_pc = "mark" /\ v = main_round))

MainInv ==
  /\ MainControl
  /\ \A v \in Rounds : RosterInv(v) /\ TurnsInv(v) /\ FinishedInv(v)

CountInv == \A v \in Rounds : snapshots[v] = SnapshotsTaken(v)

\* A reader's id is the one its client has in the round the reader holds.
HoldsOpenedRound(c) ==
  /\ in_round[c] <= game_version
  /\ in_pc[c] \in {"join", "input", "update"} => in_round[c] # 0
  /\ in_pc[c] = "update" => joined_the_game[c]

OwnsItsId(c) ==
  joined_the_game[c] =>
    /\ in_round[c] # 0
    /\ player_id[c] < Len(accepted[in_round[c]])
    /\ accepted[in_round[c]][player_id[c] + 1] = c

KnowsItJoined(c) ==
  \A v \in Rounds : \A i \in 1 .. Len(accepted[v]) :
    accepted[v][i] = c => /\ v <= in_round[c]
                          /\ v = in_round[c] => joined_the_game[c]

ReaderInv ==
  \A c \in Clients : HoldsOpenedRound(c) /\ OwnsItsId(c) /\ KnowsItJoined(c)

\* Whether a writer may send m next.
MayFollow(c, m) == Follows(sent[c][Len(sent[c])], m)

\* What a writer may send next, by where it is.
WriterMaySend(c) ==
  /\ out_pc[c] = "snapshot" =>
       \A m \in Messages : OpensRound(m) /\ m.round >= game_version => MayFollow(c, m)
  /\ out_pc[c] = "check" =>
       \A m \in Messages : OpensRound(m) /\ m.round = out_round[c] => MayFollow(c, m)
  /\ out_pc[c] = "accepted" =>
       out_i[c] < PlayersCount /\ MayFollow(c, AcceptedPlayer(out_round[c], out_i[c]))
  /\ out_pc[c] = "started" => MayFollow(c, GameStarted(out_round[c]))
  /\ out_pc[c] = "turns" =>
       out_i[c] <= GameLength /\ MayFollow(c, Turn(out_round[c], out_i[c]))
  /\ out_pc[c] = "ended" => MayFollow(c, GameEnded(out_round[c]))

WriterInv ==
  \A c \in Clients :
    /\ WellOrdered(sent[c])
    /\ IF out_pc[c] \in {"none", "hello"} THEN sent[c] = <<>>
       ELSE out_pc[c] # "dead" => sent[c] # <<>>
    /\ WriterMaySend(c)

-----------------------------------------------------------------------------
(* Initially *)

\* Rounds, versions and ids are numbers.
LEMMA Numbers ==
  ASSUME TypeOK
  PROVE  /\ game_version \in Nat
         /\ \A v \in Rounds : v \in Nat \ {0}
         /\ \A c \in Clients : in_round[c] \in Nat /\ player_id[c] \in Nat
<1>1. \A v \in Rounds : v \in Nat \ {0}
  BY ProtocolAssumption DEF Rounds
<1>2. \A i \in Slots \union {0} : i \in Nat
  BY ProtocolAssumption DEF Slots
<1>3. \A v \in Rounds \union {0} : v \in Nat
  BY <1>1
<1> QED
  BY <1>1, <1>2, <1>3 DEF TypeOK

\* The shared state that main() sets up before it starts the acceptor is of the
\* right types and satisfies the invariant.
LEMMA InitInv == Init => TypeOK /\ MainInv /\ CountInv /\ ReaderInv
<1> SUFFICES ASSUME Init PROVE TypeOK /\ MainInv /\ CountInv /\ ReaderInv
  OBVIOUS
<1> USE ProtocolAssumption
<1>1. 1 \in Rounds
  BY DEF Rounds
<1>2. NoMoves \in [Slots -> Moves]
  BY DEF NoMoves, Moves
<1>3. /\ accepted \in [Rounds -> Seq(Clients)]
      /\ turns \in [Rounds -> Seq(Turns)]
      /\ sent \in [Clients -> Seq(Messages)]
  BY DEF Init
<1>4. /\ slots \in [Rounds -> [Slots -> Moves]]
      /\ main_moves \in [Slots -> Moves]
  BY <1>2 DEF Init
<1>5. TypeOK
  <2>1. main_turn \in 0 .. GameLength
    BY DEF Init
  <2>2. player_id \in [Clients -> Slots \union {0}] /\ out_i \in [Clients -> Nat]
    BY DEF Init
  <2>4. snapshots \in [Rounds -> 0 .. GameLength]
    BY DEF Init
  <2>3. /\ finished \in [Rounds -> BOOLEAN]
        /\ joined_the_game \in [Clients -> BOOLEAN]
    BY Zenon DEF Init
  <2> QED
    BY <1>1, <1>3, <1>4, <2>1, <2>2, <2>3, <2>4 DEF Init, TypeOK
<1>6. /\ game_version = 1 /\ main_pc = "await"
      /\ \A v \in Rounds : /\ v \in Nat \ {0}
                           /\ accepted[v] = <<>> /\ turns[v] = <<>>
                           /\ Len(accepted[v]) = 0 /\ Len(turns[v]) = 0
                           /\ finished[v] = FALSE
  BY DEF Init, Rounds
<1>7. MainInv
  <2>1. MainControl
    BY <1>6 DEF MainControl
  <2>2. ASSUME NEW v \in Rounds PROVE RosterInv(v) /\ TurnsInv(v) /\ FinishedInv(v)
    <3>1. v \in Nat \ {0} /\ ~ (v < 1)
      BY <1>6
    <3>2. TurnsPublished(v) = 0
      BY <1>6, <3>1 DEF TurnsPublished
    <3>3. 1 .. Len(turns[v]) = {}
      BY <1>6
    <3>4. ~(v < game_version)
      BY <1>6, <3>1
    <3>5. RosterInv(v)
      BY <1>6, <3>4 DEF RosterInv
    <3>6. TurnsInv(v)
      BY Zenon, <1>6, <3>2, <3>3 DEF TurnsInv
    <3>7. FinishedInv(v)
      BY Zenon, <1>6, <3>4 DEF FinishedInv
    <3> QED
      BY <3>5, <3>6, <3>7
  <2> QED
    BY <2>1, <2>2 DEF MainInv
<1>8. ReaderInv
  <2>1. ASSUME NEW v \in Rounds PROVE 1 .. Len(accepted[v]) = {}
    BY <1>6
  <2>2. ASSUME NEW c \in Clients
        PROVE  in_round[c] = 0 /\ in_pc[c] = "none" /\ joined_the_game[c] = FALSE
    BY DEF Init
  <2>3. 0 <= game_version
    BY <1>6
  <2> QED
    BY Zenon, <2>1, <2>2, <2>3 DEF ReaderInv, HoldsOpenedRound, OwnsItsId, KnowsItJoined
<1>9. CountInv
  <2> SUFFICES ASSUME NEW v \in Rounds PROVE snapshots[v] = SnapshotsTaken(v)
    BY DEF CountInv
  <2>1. v \in Nat \ {0} /\ ~ (v < 1)
    BY <1>6
  <2>2. TurnsPublished(v) = 0 /\ snapshots[v] = 0
    BY <1>6, <2>1 DEF TurnsPublished, Init
  <2> QED
    BY <1>6, <2>2 DEF SnapshotsTaken
<1> QED
  BY <1>5, <1>7, <1>8, <1>9

-----------------------------------------------------------------------------
(* The main thread's part *)

\* Whatever the connections do, a round's turns are published one by one by the
\* main thread alone, and a round it leaves is complete.
LEMMA MainStep == TypeOK /\ MainInv /\ ReaderInv /\ [Next]_vars => MainInv'
<1> SUFFICES ASSUME TypeOK, MainInv, ReaderInv, [Next]_vars PROVE MainInv'
  OBVIOUS
<1> USE ProtocolAssumption DEF Rounds
<1>1. CASE MainThread
  <2>1. CASE UNCHANGED <<game_version, containerVars, main_turn>> /\ (MainPlayersJoined \/ MainStartGame)
    <3>1. MainControl'
      BY <2>1 DEF MainPlayersJoined, MainStartGame, MainInv, MainControl, TypeOK, Full, sharedVars, containerVars
    <3>2. ASSUME NEW v \in Rounds PROVE (RosterInv(v) /\ TurnsInv(v) /\ FinishedInv(v))'
      BY <2>1, <3>2 DEF MainPlayersJoined, MainStartGame, MainInv, RosterInv, TurnsInv, FinishedInv, TurnsPublished, Full, containerVars
    <3> QED
      BY <3>1, <3>2 DEF MainInv
  <2>2. CASE MainInitGame
    <3> DEFINE t == [turn |-> 0, moves |-> NoMoves]
    <3>1. /\ turns' = [turns EXCEPT ![main_round] = Append(@, t)]
          /\ turns[main_round] \in Seq(Turns)
          /\ main_round = game_version /\ main_round \in Rounds
          /\ Len(turns[main_round]) = 0
      BY <2>2 DEF MainInitGame, AppendNewTurn, MainInv, MainControl, TurnsInv, TypeOK, TurnsPublished
    <3>2. t \in Turns /\ t.turn = 0
      BY DEF TypeOK, Turns, NoMoves, Moves
    <3> HIDE DEF t
    <3>3. /\ Len(turns'[main_round]) = 1
          /\ turns'[main_round][1].turn = 0
          /\ \A v \in Rounds \ {main_round} : turns'[v] = turns[v]
      BY <3>1, <3>2 DEF TypeOK
    <3>4. MainControl'
      BY <2>2, <3>1 DEF MainInitGame, MainInv, MainControl, TypeOK, Full, sharedVars, AfterTurn
    <3>5. ASSUME NEW v \in Rounds PROVE (RosterInv(v) /\ FinishedInv(v))'
      BY <2>2, <3>5 DEF MainInitGame, MainInv, RosterInv, FinishedInv, Full, sharedVars, AfterTurn
    <3>6. TurnsInv(main_round)'
      <4>1. TurnsPublished(main_round)' = 1
        BY <2>2, <3>1 DEF MainInitGame, TurnsPublished, TypeOK, sharedVars, AfterTurn
      <4> QED
        BY <2>2, <3>3, <4>1 DEF MainInitGame, TurnsInv
    <3>7. ASSUME NEW v \in Rounds \ {main_round} PROVE TurnsInv(v)'
      <4>1. TurnsPublished(v)' = TurnsPublished(v)
        BY <2>2, <3>1, <3>7 DEF MainInitGame, TurnsPublished, TypeOK, sharedVars, AfterTurn
      <4> QED
        BY <3>3, <4>1 DEF MainInv, TurnsInv
    <3> QED
      BY <2>2, <3>4, <3>5, <3>6, <3>7 DEF MainInv, MainInitGame
  <2>3. CASE MainSnapshotMoves
    <3>1. MainControl'
      BY <2>3 DEF MainSnapshotMoves, MainInv, MainControl, Full, sharedVars
    <3>2. ASSUME NEW v \in Rounds PROVE (RosterInv(v) /\ TurnsInv(v) /\ FinishedInv(v))'
      BY <2>3, <3>2 DEF MainSnapshotMoves, MainInv, RosterInv, TurnsInv, FinishedInv, TurnsPublished, Full, sharedVars
    <3> QED
      BY <3>1, <3>2 DEF MainInv
  <2>4. CASE MainAppendTurn
    <3> DEFINE t == [turn |-> main_turn + 1, moves |-> main_moves]
    <3>1. /\ turns' = [turns EXCEPT ![main_round] = Append(@, t)]
          /\ turns[main_round] \in Seq(Turns)
          /\ main_round = game_version /\ main_round \in Rounds
          /\ Len(turns[main_round]) = main_turn + 1
          /\ main_turn < GameLength /\ main_turn \in Nat
      BY <2>4 DEF MainAppendTurn, AppendNewTurn, MainInv, MainControl, TurnsInv, TypeOK, TurnsPublished
    <3>2. t \in Turns /\ t.turn = main_turn + 1
      BY <3>1 DEF TypeOK, Turns
    <3> HIDE DEF t
    <3>3. /\ Len(turns'[main_round]) = main_turn + 2
          /\ \A k \in 1 .. main_turn + 1 : turns'[main_round][k] = turns[main_round][k]
          /\ turns'[main_round][main_turn + 2].turn = main_turn + 1
          /\ \A v \in Rounds \ {main_round} : turns'[v] = turns[v]
      BY <3>1, <3>2 DEF TypeOK
    <3>4. MainControl'
      BY <2>4, <3>1 DEF MainAppendTurn, MainInv, MainControl, TypeOK, Full, sharedVars, AfterTurn
    <3>5. ASSUME NEW v \in Rounds PROVE (RosterInv(v) /\ FinishedInv(v))'
      BY <2>4, <3>5 DEF MainAppendTurn, MainInv, RosterInv, FinishedInv, Full, sharedVars, AfterTurn
    <3>6. TurnsInv(main_round)'
      <4>1. TurnsPublished(main_round)' = main_turn + 2
        BY <2>4, <3>1 DEF MainAppendTurn, TurnsPublished, TypeOK, sharedVars, AfterTurn
      <4>2. ASSUME NEW k \in 1 .. main_turn + 1
            PROVE  turns'[main_round][k].turn = k - 1
        BY <3>1, <3>3 DEF MainInv, TurnsInv
      <4>3. \A k \in 1 .. main_turn + 2 : k \in 1 .. main_turn + 1 \/ k = main_turn + 2
        BY <3>1
      <4>4. turns'[main_round][main_turn + 2].turn = (main_turn + 2) - 1
        BY <3>1, <3>3
      <4>5. \A k \in 1 .. main_turn + 2 : turns'[main_round][k].turn = k - 1
        BY Zenon, <4>2, <4>3, <4>4
      <4>6. Len(turns'[main_round]) = main_turn + 2 /\ UNCHANGED main_round
        BY <2>4, <3>3 DEF MainAppendTurn
      <4> QED
        BY Zenon, <4>1, <4>5, <4>6 DEF TurnsInv
    <3>7. ASSUME NEW v \in Rounds \ {main_round} PROVE TurnsInv(v)'
      <4>1. TurnsPublished(v)' = TurnsPublished(v)
        BY <2>4, <3>1, <3>7 DEF MainAppendTurn, TurnsPublished, TypeOK, sharedVars, AfterTurn
      <4> QED
        BY <3>3, <4>1 DEF MainInv, TurnsInv
    <3> QED
      BY <2>4, <3>4, <3>5, <3>6, <3>7 DEF MainInv, MainAppendTurn
  <2>5. CASE MainResetShared
    <3>1. MainControl'
      BY <2>5 DEF MainResetShared, MainInv, MainControl, TypeOK
    <3>2. ASSUME NEW v \in Rounds PROVE RosterInv(v)'
      <4>1. accepted' = accepted /\ game_version' = game_version + 1
        BY <2>5 DEF MainResetShared, containerVars
      <4>2. Full(game_version) /\ RosterInv(v)
        BY <2>5 DEF MainResetShared, MainInv, MainControl
      <4>3. v < game_version + 1 => v < game_version \/ v = game_version
        BY DEF TypeOK
      <4>4. v > game_version + 1 => v > game_version
        BY DEF TypeOK
      <4>5. v < game_version + 1 => Full(v)
        BY Zenon, <4>2, <4>3 DEF RosterInv
      <4> QED
        BY Zenon, <4>1, <4>2, <4>4, <4>5 DEF RosterInv, Full
    <3>3. ASSUME NEW v \in Rounds PROVE TurnsInv(v)'
      <4>1. TurnsPublished(v)' = TurnsPublished(v)
        BY <2>5 DEF MainResetShared, MainInv, MainControl, TurnsPublished, TypeOK
      <4> QED
        BY <2>5, <4>1 DEF MainResetShared, MainInv, TurnsInv, containerVars
    <3>4. ASSUME NEW v \in Rounds PROVE FinishedInv(v)'
      <4>1. /\ finished'[v] = finished[v] /\ game_version' = game_version + 1
            /\ main_pc = "reset" /\ main_pc' = "mark"
            /\ main_round' = main_round /\ main_round = game_version
        BY <2>5 DEF MainResetShared, MainInv, MainControl, containerVars
      <4>2. finished[v] = (v < game_version)
        BY <4>1 DEF MainInv, FinishedInv
      <4>3. (v < game_version) = (v < game_version + 1 /\ ~(v = game_version))
        BY DEF TypeOK
      <4>4. FinishedInv(v)' = (finished[v] = (v < game_version + 1 /\ ~(v = game_version)))
        BY Zenon, <4>1 DEF FinishedInv
      <4> QED
        BY Zenon, <4>2, <4>3, <4>4
    <3> QED
      BY <3>1, <3>2, <3>3, <3>4 DEF MainInv
  <2>6. CASE MainMarkFinished
    <3>1. MainControl'
      BY <2>6 DEF MainMarkFinished, MainControl
    <3>2. ASSUME NEW v \in Rounds PROVE (RosterInv(v) /\ TurnsInv(v))'
      BY <2>6, <3>2 DEF MainMarkFinished, MainInv, RosterInv, TurnsInv, TurnsPublished, Full, sharedVars
    <3>3. ASSUME NEW v \in Rounds PROVE FinishedInv(v)'
      <4>1. finished'[v] = IF v = main_round THEN TRUE ELSE finished[v]
        BY <2>6 DEF MainMarkFinished, TypeOK
      <4>2. main_pc = "mark" /\ main_pc' = "await" /\ UNCHANGED game_version
        BY <2>6 DEF MainMarkFinished, sharedVars
      <4>3. main_round < game_version
        BY <4>2 DEF MainInv, MainControl, TypeOK
      <4>4. FinishedInv(v)
        BY DEF MainInv
      <4> QED
        BY <4>1, <4>2, <4>3, <4>4 DEF FinishedInv
    <3> QED
      BY <3>1, <3>2, <3>3 DEF MainInv
  <2> QED
    BY <1>1, <2>1, <2>2, <2>3, <2>4, <2>5, <2>6
    DEF MainThread, MainPlayersJoined, MainStartGame, sharedVars
<1>2. CASE UNCHANGED <<sharedVars, accepted, turns, finished, mainVars>>
  BY <1>2 DEF MainInv, MainControl, RosterInv, TurnsInv, FinishedInv, TurnsPublished, Full, sharedVars, mainVars
<1>3. ASSUME NEW c \in Clients, InJoin(c) PROVE MainInv'
  <2> DEFINE r == in_round[c]
  <2>1. /\ r \in Rounds /\ r <= game_version /\ ~Full(r)
        /\ accepted' = [accepted EXCEPT ![r] = Append(@, c)]
        /\ accepted[r] \in Seq(Clients)
        /\ UNCHANGED <<sharedVars, turns, finished, mainVars>>
    BY <1>3 DEF InJoin, AddNewPlayer, ReaderInv, HoldsOpenedRound, TypeOK
  <2> HIDE DEF r
  <2>2. /\ Len(accepted'[r]) = Len(accepted[r]) + 1
        /\ Len(accepted[r]) \in Nat
        /\ \A v \in Rounds \ {r} : accepted'[v] = accepted[v]
    BY <2>1 DEF TypeOK
  <2>3. Len(accepted[r]) < PlayersCount /\ r = game_version
    <3>1. RosterInv(r) /\ game_version \in Nat /\ r \in Nat
      BY <2>1, Numbers DEF MainInv
    <3>2. PlayersCount \in Nat
      OBVIOUS
    <3> QED
      BY <2>1, <2>2, <3>1, <3>2 DEF RosterInv, Full
  <2>4. MainControl'
    BY <2>1, <2>2, <2>3 DEF MainInv, MainControl, Full, TypeOK, sharedVars, mainVars
  <2>5. ASSUME NEW v \in Rounds PROVE (TurnsInv(v) /\ FinishedInv(v))'
    BY <2>1, <2>5 DEF MainInv, TurnsInv, FinishedInv, TurnsPublished, sharedVars, mainVars
  <2>6. RosterInv(r)'
    <3>1. /\ Len(accepted'[r]) <= PlayersCount
          /\ ~(r < game_version') /\ ~(r > game_version')
      BY <2>1, <2>2, <2>3 DEF TypeOK, sharedVars
    <3> QED
      BY Zenon, <1>3, <3>1 DEF RosterInv, InJoin, r
  <2>7. ASSUME NEW v \in Rounds \ {r} PROVE RosterInv(v)'
    BY <2>1, <2>2 DEF MainInv, RosterInv, Full, sharedVars
  <2> QED
    BY <1>3, <2>4, <2>5, <2>6, <2>7 DEF MainInv, InJoin, r
<1> QED
  BY <1>1, <1>2, <1>3
  DEF Next, InHandle, Accept, InRead, InReadFails, InJoinIgnored, InJoinFails,
      InCheckStarted, InUpdateSlot, OutThread, OutHello, OutSnapshot,
      OutCheckStarted, OutAcceptedPlayer, OutGameStarted, OutTurn, OutGameEnded,
      OutSendFails, containerVars, vars

-----------------------------------------------------------------------------
(* The readers' part *)

\* A reader forgets that its client joined exactly when it picks up the containers
\* of another round, so a client is in the roster of a round at most once and the
\* id the reader keeps is the one it has there.
LEMMA ReaderStep == TypeOK /\ MainInv /\ ReaderInv /\ [Next]_vars => ReaderInv'
<1> SUFFICES ASSUME TypeOK, MainInv, ReaderInv, [Next]_vars PROVE ReaderInv'
  OBVIOUS
<1>1. CASE /\ UNCHANGED <<accepted, inVars>>
           /\ game_version' \in Nat /\ game_version' >= game_version
  <2>1. ASSUME NEW d \in Clients PROVE HoldsOpenedRound(d)'
    <3>1. in_round[d] <= game_version
      BY DEF ReaderInv, HoldsOpenedRound
    <3>2. in_round[d] <= game_version'
      BY <1>1, <3>1, Numbers
    <3> QED
      BY <1>1, <3>2 DEF ReaderInv, HoldsOpenedRound, inVars
  <2>2. ASSUME NEW d \in Clients PROVE OwnsItsId(d)' /\ KnowsItJoined(d)'
    BY <1>1 DEF ReaderInv, OwnsItsId, KnowsItJoined, inVars
  <2> QED
    BY <2>1, <2>2 DEF ReaderInv
<1>2. ASSUME NEW c \in Clients,
             UNCHANGED <<game_version, accepted, in_round, joined_the_game, player_id>>,
             \A d \in Clients \ {c} : in_pc'[d] = in_pc[d],
             in_pc'[c] = "update" => joined_the_game[c],
             in_pc'[c] = "update" => in_pc[c] = "input",
             in_pc'[c] \notin {"join", "input"}
      PROVE  ReaderInv'
  <2>1. \A d \in Clients : HoldsOpenedRound(d)'
    BY <1>2 DEF ReaderInv, HoldsOpenedRound
  <2>2. \A d \in Clients : OwnsItsId(d)' /\ KnowsItJoined(d)'
    BY <1>2 DEF ReaderInv, OwnsItsId, KnowsItJoined
  <2> QED
    BY <2>1, <2>2 DEF ReaderInv
<1>3. ASSUME NEW c \in Clients, NEW msg \in {"join", "input"}, InRead(c, msg) PROVE ReaderInv'
  <2>1. /\ in_round'[c] = game_version
        /\ joined_the_game'[c] = StillJoined(c)
        /\ in_pc'[c] = msg
        /\ UNCHANGED <<game_version, accepted, player_id>>
        /\ \A d \in Clients \ {c} : /\ in_round'[d] = in_round[d]
                                    /\ joined_the_game'[d] = joined_the_game[d]
                                    /\ in_pc'[d] = in_pc[d]
    BY <1>3 DEF InRead, TypeOK, sharedVars, containerVars
  <2>2. ASSUME NEW d \in Clients \ {c}
        PROVE  (HoldsOpenedRound(d) /\ OwnsItsId(d) /\ KnowsItJoined(d))'
    BY <2>1 DEF ReaderInv, HoldsOpenedRound, OwnsItsId, KnowsItJoined
  <2>3. HoldsOpenedRound(c)'
    BY <2>1 DEF HoldsOpenedRound, TypeOK, Rounds
  <2>4. OwnsItsId(c)'
    BY <2>1 DEF ReaderInv, OwnsItsId, StillJoined
  <2>5. KnowsItJoined(c)'
    <3> SUFFICES ASSUME NEW v \in Rounds, NEW i \in 1 .. Len(accepted[v]), accepted[v][i] = c
                 PROVE  v <= game_version /\ (v = game_version => StillJoined(c))
      BY <2>1 DEF KnowsItJoined
    <3>1. v <= in_round[c] /\ (v = in_round[c] => joined_the_game[c])
      BY DEF ReaderInv, KnowsItJoined
    <3>2. in_round[c] <= game_version
      BY DEF ReaderInv, HoldsOpenedRound
    <3>3. v <= game_version /\ (v = game_version => in_round[c] = game_version)
      BY <3>1, <3>2, Numbers
    <3> QED
      BY <3>1, <3>3 DEF StillJoined
  <2> QED
    BY <2>2, <2>3, <2>4, <2>5 DEF ReaderInv
<1>4. ASSUME NEW c \in Clients, InJoin(c) PROVE ReaderInv'
  <2> DEFINE r == in_round[c]
  <2>1. /\ r \in Rounds /\ r <= game_version
        /\ accepted' = [accepted EXCEPT ![r] = Append(@, c)]
        /\ accepted \in [Rounds -> Seq(Clients)]
        /\ player_id' = [player_id EXCEPT ![c] = Len(accepted[r])]
        /\ joined_the_game' = [joined_the_game EXCEPT ![c] = TRUE]
        /\ in_pc' = [in_pc EXCEPT ![c] = "read"]
        /\ UNCHANGED <<game_version, in_round>>
    BY <1>4 DEF InJoin, AddNewPlayer, NewPlayerId, ReaderInv, HoldsOpenedRound, TypeOK, mainVars, sharedVars
  <2>2. /\ Len(accepted'[r]) = Len(accepted[r]) + 1
        /\ Len(accepted[r]) \in Nat
        /\ accepted'[r][Len(accepted[r]) + 1] = c
        /\ \A i \in 1 .. Len(accepted[r]) : accepted'[r][i] = accepted[r][i]
        /\ \A v \in Rounds \ {r} : accepted'[v] = accepted[v]
    BY <2>1
  <2>3. /\ player_id'[c] = Len(accepted[r]) /\ joined_the_game'[c] = TRUE
        /\ in_pc'[c] = "read" /\ in_round'[c] = r
    BY <2>1 DEF TypeOK
  <2>4. HoldsOpenedRound(c)' /\ OwnsItsId(c)'
    BY <2>1, <2>2, <2>3 DEF HoldsOpenedRound, OwnsItsId, Rounds
  <2>5. KnowsItJoined(c)'
    <3>1. ASSUME NEW v \in Rounds \ {r}, NEW i \in 1 .. Len(accepted'[v]), accepted'[v][i] = c
          PROVE  v <= r /\ v # r
      BY <2>2, <3>1 DEF ReaderInv, KnowsItJoined
    <3>2. r <= r
      BY <2>1 DEF Rounds
    <3> QED
      BY Zenon, <2>3, <3>1, <3>2 DEF KnowsItJoined
  <2>6. ASSUME NEW d \in Clients \ {c} PROVE (HoldsOpenedRound(d) /\ OwnsItsId(d))'
    <3>1. /\ player_id'[d] = player_id[d] /\ joined_the_game'[d] = joined_the_game[d]
          /\ in_pc'[d] = in_pc[d] /\ in_round'[d] = in_round[d]
      BY <2>1 DEF TypeOK
    <3>2. HoldsOpenedRound(d)'
      BY <2>1, <3>1 DEF ReaderInv, HoldsOpenedRound
    <3>3. CASE joined_the_game[d] /\ in_round[d] # r
      <4>1. in_round[d] # 0
        BY <3>3 DEF ReaderInv, OwnsItsId
      <4>2. in_round[d] \in Rounds \ {r}
        BY Zenon, <3>3, <4>1 DEF TypeOK
      <4>3. \A v \in Rounds \ {r} : accepted'[v] = accepted[v]
        BY <2>2
      <4>4. accepted'[in_round[d]] = accepted[in_round[d]]
        BY Zenon, <4>2, <4>3
      <4> QED
        BY <3>1, <3>2, <4>4 DEF ReaderInv, OwnsItsId
    <3>4. CASE joined_the_game[d] /\ in_round[d] = r
      <4>1. r # 0 /\ player_id[d] < Len(accepted[r]) /\ accepted[r][player_id[d] + 1] = d
        BY <3>4 DEF ReaderInv, OwnsItsId
      <4>2. player_id[d] \in Nat /\ player_id[d] < Len(accepted[r])
        BY <4>1, Numbers
      <4>3. player_id[d] + 1 \in 1 .. Len(accepted[r])
        BY <2>2, <4>2
      <4>4. player_id[d] < Len(accepted'[r]) /\ accepted'[r][player_id[d] + 1] = d
        BY <2>2, <4>1, <4>2, <4>3
      <4> QED
        BY Zenon, <3>1, <3>2, <3>4, <4>1, <4>4 DEF OwnsItsId
    <3> QED
      BY <3>1, <3>2, <3>3, <3>4 DEF OwnsItsId
  <2>7. ASSUME NEW d \in Clients \ {c} PROVE KnowsItJoined(d)'
    <3>1. joined_the_game'[d] = joined_the_game[d] /\ in_round'[d] = in_round[d]
      BY <2>1 DEF TypeOK
    <3>2. ASSUME NEW v \in Rounds \ {r}, NEW i \in 1 .. Len(accepted'[v]), accepted'[v][i] = d
          PROVE  v <= in_round[d] /\ (v = in_round[d] => joined_the_game[d])
      BY <2>2, <3>2 DEF ReaderInv, KnowsItJoined
    <3>3. ASSUME NEW i \in 1 .. Len(accepted'[r]), accepted'[r][i] = d
          PROVE  r <= in_round[d] /\ (r = in_round[d] => joined_the_game[d])
      <4>1. i \in 1 .. Len(accepted[r])
        BY <2>2, <3>3
      <4>2. accepted[r][i] = d
        BY <2>2, <3>3, <4>1
      <4> QED
        BY <2>1, <4>1, <4>2 DEF ReaderInv, KnowsItJoined
    <3> QED
      BY Zenon, <3>1, <3>2, <3>3 DEF KnowsItJoined
  <2> QED
    BY <2>4, <2>5, <2>6, <2>7 DEF ReaderInv
<1>5. CASE MainThread
  BY <1>1, <1>5 DEF MainThread, MainPlayersJoined, MainStartGame, MainInitGame,
     MainSnapshotMoves, MainAppendTurn, MainResetShared, MainMarkFinished,
     sharedVars, containerVars, inVars, TypeOK, Rounds
<1>6. ASSUME NEW c \in Clients, OutThread(c) PROVE ReaderInv'
  <2>1. UNCHANGED <<sharedVars, containerVars, inVars>>
    BY <1>6 DEF OutThread, OutHello, OutSnapshot, OutCheckStarted, OutAcceptedPlayer,
       OutGameStarted, OutTurn, OutGameEnded, OutSendFails
  <2> QED
    BY <2>1 DEF ReaderInv, HoldsOpenedRound, OwnsItsId, KnowsItJoined,
       sharedVars, containerVars, inVars
<1>7. ASSUME NEW c \in Clients,
             Accept(c) \/ InReadFails(c) \/ InJoinIgnored(c) \/ InJoinFails(c)
               \/ InCheckStarted(c) \/ InUpdateSlot(c)
      PROVE  ReaderInv'
  <2>1. /\ UNCHANGED <<game_version, accepted, in_round, joined_the_game, player_id>>
        /\ \A d \in Clients \ {c} : in_pc'[d] = in_pc[d]
    BY <1>7 DEF Accept, InReadFails, InJoinIgnored, InJoinFails, InCheckStarted,
       InUpdateSlot, sharedVars, containerVars, mainVars, TypeOK
  <2>2. /\ in_pc'[c] = "update" => in_pc[c] = "input" /\ joined_the_game[c]
        /\ in_pc'[c] \notin {"join", "input"}
    BY <1>7 DEF Accept, InReadFails, InJoinIgnored, InJoinFails, InCheckStarted,
       InUpdateSlot, TypeOK
  <2> QED
    BY <1>2, <2>1, <2>2
<1>8. CASE UNCHANGED vars
  BY <1>1, <1>8 DEF vars, sharedVars, containerVars, TypeOK, Rounds
<1> QED
  BY <1>3, <1>4, <1>5, <1>6, <1>7, <1>8 DEF Next, InHandle

-----------------------------------------------------------------------------
(* Snapshots *)

\* The main thread takes one snapshot for every turn but the first.
LEMMA CountStep == TypeOK /\ MainInv /\ CountInv /\ [Next]_vars => CountInv'
<1> SUFFICES ASSUME TypeOK, MainInv, CountInv, [Next]_vars,
                    NEW v \in Rounds
             PROVE  snapshots'[v] = SnapshotsTaken(v)'
  BY DEF CountInv
<1>1. /\ snapshots[v] = SnapshotsTaken(v)
      /\ snapshots \in [Rounds -> 0 .. GameLength]
      /\ game_version \in Nat /\ main_round \in Rounds
      /\ main_turn \in Nat /\ v \in Nat /\ GameLength \in Nat
      /\ main_turn <= GameLength
  BY Numbers, ProtocolAssumption DEF CountInv, TypeOK
<1>2. MainControl
  BY DEF MainInv
<1> USE DEF SnapshotsTaken, TurnsPublished
<1>3. CASE MainPlayersJoined \/ MainStartGame
  BY <1>1, <1>3 DEF MainPlayersJoined, MainStartGame, sharedVars
<1>4. CASE MainInitGame
  BY <1>1, <1>2, <1>4 DEF MainInitGame, MainControl, AfterTurn, sharedVars
<1>5. CASE MainSnapshotMoves
  <2>1. /\ snapshots' = [snapshots EXCEPT ![main_round] = @ + 1]
        /\ main_pc = "snapshot" /\ main_pc' = "append"
        /\ main_round = game_version
        /\ UNCHANGED <<game_version, main_round, main_turn>>
    BY <1>2, <1>5 DEF MainSnapshotMoves, MainControl, sharedVars
  <2> QED
    BY <1>1, <2>1
<1>6. CASE MainAppendTurn
  BY <1>1, <1>2, <1>6 DEF MainAppendTurn, MainControl, AfterTurn, sharedVars
<1>7. CASE MainResetShared
  BY <1>1, <1>2, <1>7 DEF MainResetShared, MainControl
<1>8. CASE MainMarkFinished
  BY <1>1, <1>2, <1>8 DEF MainMarkFinished, MainControl, sharedVars
<1>9. CASE UNCHANGED <<game_version, mainVars>>
  BY <1>1, <1>9 DEF mainVars
<1>10. ASSUME NEW c \in Clients,
              Accept(c) \/ (\E msg \in {"join", "input"} : InRead(c, msg))
                \/ InReadFails(c) \/ InHandle(c) \/ OutThread(c)
       PROVE  UNCHANGED <<game_version, mainVars>>
  BY <1>10 DEF InHandle, Accept, InRead, InReadFails, InJoin, InJoinIgnored, InJoinFails,
     InCheckStarted, InUpdateSlot, OutThread, OutHello, OutSnapshot, OutCheckStarted,
     OutAcceptedPlayer, OutGameStarted, OutTurn, OutGameEnded, OutSendFails, sharedVars
<1> QED
  BY <1>3, <1>4, <1>5, <1>6, <1>7, <1>8, <1>9, <1>10
  DEF Next, MainThread, vars, sharedVars

-----------------------------------------------------------------------------
(* Types *)

\* Whatever a thread does, the shared state keeps its types: an id handed out by
\* add_new_player is a slot of the MoveContainer, and what a writer sends is a
\* message about a player or a turn that exists.
LEMMA TypeStep == TypeOK /\ MainInv /\ CountInv /\ ReaderInv /\ [Next]_vars => TypeOK'
<1> SUFFICES ASSUME TypeOK, MainInv, CountInv, ReaderInv, [Next]_vars PROVE TypeOK'
  OBVIOUS
<1>1. CASE MainThread
  <2>1. /\ NoMoves \in [Slots -> Moves]
        /\ 0 \in 0 .. GameLength
    BY ProtocolAssumption DEF NoMoves, Moves
  <2>2. UNCHANGED <<inVars, outVars>>
    BY <1>1 DEF MainThread, MainPlayersJoined, MainStartGame, MainInitGame,
       MainSnapshotMoves, MainAppendTurn, MainResetShared, MainMarkFinished
  <2>3. CASE MainPlayersJoined \/ MainStartGame
    BY <2>2, <2>3 DEF MainPlayersJoined, MainStartGame, TypeOK, sharedVars, containerVars, inVars, outVars
  <2>4. CASE MainInitGame
    <3>1. [turn |-> 0, moves |-> NoMoves] \in Turns
      BY <2>1 DEF Turns
    <3>2. turns' \in [Rounds -> Seq(Turns)]
      BY <2>4, <3>1 DEF MainInitGame, AppendNewTurn, TypeOK
    <3> QED
      BY <2>1, <2>2, <2>4, <3>2 DEF MainInitGame, AfterTurn, TypeOK, sharedVars, inVars, outVars
  <2>5. CASE MainSnapshotMoves
    <3>1. slots' \in [Rounds -> [Slots -> Moves]] /\ main_moves' \in [Slots -> Moves]
      BY <2>1, <2>5 DEF MainSnapshotMoves, ClearSlots, TypeOK
    <3>2. snapshots[main_round] + 1 \in 0 .. GameLength
      <4>1. /\ main_pc = "snapshot" /\ main_round = game_version /\ main_turn < GameLength
            /\ main_round \in Rounds /\ main_round \in Nat
            /\ main_turn \in Nat /\ GameLength \in Nat
        BY <2>5, Numbers, ProtocolAssumption DEF MainSnapshotMoves, MainInv, MainControl, TypeOK
      <4>2. snapshots[main_round] = main_turn
        BY <4>1 DEF CountInv, SnapshotsTaken, TurnsPublished
      <4> QED
        BY <4>1, <4>2
    <3>3. snapshots' \in [Rounds -> 0 .. GameLength]
      BY <2>5, <3>2 DEF MainSnapshotMoves, TypeOK
    <3> QED
      BY <2>2, <2>5, <3>1, <3>3 DEF MainSnapshotMoves, TypeOK, sharedVars, inVars, outVars
  <2>6. CASE MainAppendTurn
    <3>1. main_turn + 1 \in 0 .. GameLength
      BY <2>6, ProtocolAssumption DEF MainAppendTurn, MainInv, MainControl, TypeOK
    <3>2. [turn |-> main_turn + 1, moves |-> main_moves] \in Turns
      BY <3>1 DEF Turns, TypeOK
    <3>3. turns' \in [Rounds -> Seq(Turns)]
      BY <2>6, <3>2 DEF MainAppendTurn, AppendNewTurn, TypeOK
    <3> QED
      BY <2>1, <2>2, <2>6, <3>1, <3>3 DEF MainAppendTurn, AfterTurn, TypeOK, sharedVars, inVars, outVars
  <2>7. CASE MainResetShared
    <3>1. game_version' \in Rounds
      BY <2>7, ProtocolAssumption DEF MainResetShared, TypeOK, Rounds
    <3> QED
      BY <2>2, <2>7, <3>1 DEF MainResetShared, TypeOK, containerVars, inVars, outVars
  <2>8. CASE MainMarkFinished
    BY <2>2, <2>8 DEF MainMarkFinished, TypeOK, sharedVars, inVars, outVars
  <2> QED
    BY <1>1, <2>3, <2>4, <2>5, <2>6, <2>7, <2>8 DEF MainThread
<1>2. ASSUME NEW c \in Clients, Accept(c) PROVE TypeOK'
  BY <1>2 DEF Accept, TypeOK, sharedVars, containerVars, mainVars
<1>3. ASSUME NEW c \in Clients, NEW msg \in {"join", "input"}, InRead(c, msg) PROVE TypeOK'
  <2>1. StillJoined(c) \in BOOLEAN
    BY DEF StillJoined, TypeOK
  <2> QED
    BY <1>3, <2>1 DEF InRead, TypeOK, sharedVars, containerVars, mainVars, outVars
<1>4. ASSUME NEW c \in Clients, InReadFails(c) \/ InJoinIgnored(c) \/ InJoinFails(c) \/ InCheckStarted(c)
      PROVE  TypeOK'
  BY <1>4 DEF InReadFails, InJoinIgnored, InJoinFails, InCheckStarted, TypeOK,
     sharedVars, containerVars, mainVars, outVars
<1>5. ASSUME NEW c \in Clients, InJoin(c) PROVE TypeOK'
  <2>1. in_round[c] \in Rounds
    BY <1>5 DEF InJoin, ReaderInv, HoldsOpenedRound, TypeOK
  <2>2. accepted' \in [Rounds -> Seq(Clients)]
    BY <1>5, <2>1 DEF InJoin, AddNewPlayer, TypeOK
  <2>3. Len(accepted[in_round[c]]) \in Slots
    <3>1. Len(accepted[in_round[c]]) \in Nat
      BY <2>1 DEF TypeOK
    <3>2. Len(accepted[in_round[c]]) <= PlayersCount /\ Len(accepted[in_round[c]]) # PlayersCount
      BY <1>5, <2>1 DEF InJoin, AddNewPlayer, Full, MainInv, RosterInv
    <3> QED
      BY <3>1, <3>2, ProtocolAssumption DEF Slots
  <2> QED
    BY <1>5, <2>2, <2>3 DEF InJoin, NewPlayerId, TypeOK, sharedVars, mainVars, outVars
<1>6. ASSUME NEW c \in Clients, InUpdateSlot(c) PROVE TypeOK'
  <2>1. in_round[c] \in Rounds
    BY <1>6 DEF InUpdateSlot, ReaderInv, HoldsOpenedRound, TypeOK
  <2>3. [by |-> c, at |-> snapshots[in_round[c]]] \in Moves
    BY <2>1 DEF Moves, TypeOK
  <2>4. slots' \in [Rounds -> [Slots -> Moves]]
    BY <1>6, <2>1, <2>3 DEF InUpdateSlot, UpdateSlot, TypeOK
  <2> QED
    BY <1>6, <2>4 DEF InUpdateSlot, TypeOK, sharedVars, mainVars, outVars
<1>7. ASSUME NEW c \in Clients, OutThread(c) PROVE TypeOK'
  <2>1. ASSUME NEW m \in Messages, Send(c, m) PROVE sent' \in [Clients -> Seq(Messages)]
    BY <2>1 DEF Send, TypeOK
  <2>2. UNCHANGED <<sharedVars, containerVars, mainVars, inVars>>
    BY <1>7 DEF OutThread, OutHello, OutSnapshot, OutCheckStarted, OutAcceptedPlayer,
       OutGameStarted, OutTurn, OutGameEnded, OutSendFails
  <2> DEFINE Indices == [Clients -> Nat]
  <2>0. /\ out_i \in Indices
        /\ [out_i EXCEPT ![c] = 0] \in Indices
        /\ [out_i EXCEPT ![c] = @ + 1] \in Indices
    BY DEF TypeOK
  <2>3. CASE OutHello(c)
    <3>1. Hello \in Messages
      BY DEF Messages
    <3>2. sent' \in [Clients -> Seq(Messages)]
      BY <2>1, <2>3, <3>1 DEF OutHello
    <3>3. out_pc' = [out_pc EXCEPT ![c] = "snapshot"] /\ UNCHANGED <<out_round, out_i>>
      BY <2>3 DEF OutHello
    <3> QED
      BY <2>2, <3>2, <3>3 DEF TypeOK, sharedVars, containerVars, mainVars, inVars
  <2>4. CASE OutSnapshot(c) \/ OutCheckStarted(c) \/ OutSendFails(c)
    <3>1. out_pc' \in [Clients -> {"none", "hello", "snapshot", "check", "accepted",
                                   "started", "turns", "ended", "dead"}]
      BY <2>4 DEF OutSnapshot, OutCheckStarted, OutSendFails, TypeOK
    <3>2. out_round' \in [Clients -> Rounds]
      BY <2>4 DEF OutSnapshot, OutCheckStarted, OutSendFails, TypeOK
    <3>3. out_i' \in [Clients -> Nat]
      BY Zenon, <2>0, <2>4 DEF OutSnapshot, OutCheckStarted, OutSendFails
    <3>4. UNCHANGED sent
      BY <2>4 DEF OutSnapshot, OutCheckStarted, OutSendFails
    <3> QED
      BY <2>2, <3>1, <3>2, <3>3, <3>4 DEF TypeOK, sharedVars, containerVars, mainVars, inVars
  <2>5. CASE OutAcceptedPlayer(c)
    <3>1. out_round[c] \in Rounds /\ out_i[c] \in Nat
      BY DEF TypeOK
    <3>2. out_i[c] \in Slots
      <4>1. Len(accepted[out_round[c]]) > out_i[c] /\ Len(accepted[out_round[c]]) <= PlayersCount
        BY <2>5, <3>1 DEF OutAcceptedPlayer, MainInv, RosterInv
      <4>2. Len(accepted[out_round[c]]) \in Nat
        BY <3>1 DEF TypeOK
      <4> QED
        BY <3>1, <4>1, <4>2, ProtocolAssumption DEF Slots
    <3>3. AcceptedPlayer(out_round[c], out_i[c]) \in Messages
      BY <3>1, <3>2 DEF Messages
    <3>4. sent' \in [Clients -> Seq(Messages)]
      BY <2>1, <2>5, <3>3 DEF OutAcceptedPlayer
    <3>5. out_i' \in [Clients -> Nat]
      BY Zenon, <2>0, <2>5 DEF OutAcceptedPlayer
    <3>6. /\ out_pc' \in [Clients -> {"none", "hello", "snapshot", "check", "accepted",
                                      "started", "turns", "ended", "dead"}]
          /\ UNCHANGED out_round
      BY <2>5 DEF OutAcceptedPlayer, TypeOK
    <3> QED
      BY <2>2, <3>4, <3>5, <3>6 DEF TypeOK, sharedVars, containerVars, mainVars, inVars
  <2>6. CASE OutGameStarted(c)
    <3>1. GameStarted(out_round[c]) \in Messages
      BY DEF Messages, TypeOK
    <3>2. sent' \in [Clients -> Seq(Messages)]
      BY <2>1, <2>6, <3>1 DEF OutGameStarted
    <3> QED
      BY <2>2, <2>6, <3>2 DEF OutGameStarted, TypeOK, sharedVars, containerVars, mainVars, inVars
  <2>7. CASE OutTurn(c)
    <3>1. out_round[c] \in Rounds /\ out_i[c] \in Nat
      BY DEF TypeOK
    <3>2. turns[out_round[c]] \in Seq(Turns) /\ Len(turns[out_round[c]]) > out_i[c]
      BY <2>7, <3>1 DEF OutTurn, TypeOK
    <3>3. turns[out_round[c]][out_i[c] + 1] \in Turns
      BY <3>1, <3>2
    <3>4. turns[out_round[c]][out_i[c] + 1].turn \in 0 .. GameLength
      BY <3>3 DEF Turns
    <3>5. Turn(out_round[c], turns[out_round[c]][out_i[c] + 1].turn) \in Messages
      BY <3>1, <3>4 DEF Messages
    <3>6. sent' \in [Clients -> Seq(Messages)]
      BY <2>1, <2>7, <3>5 DEF OutTurn
    <3>7. NextTurnIndex(out_i[c]) \in Nat
      BY <3>1, ServerAssumption, ProtocolAssumption DEF NextTurnIndex
    <3> QED
      BY <2>2, <2>7, <3>6, <3>7 DEF OutTurn, TypeOK, sharedVars, containerVars, mainVars, inVars
  <2>8. CASE OutGameEnded(c)
    <3>1. GameEnded(out_round[c]) \in Messages
      BY DEF Messages, TypeOK
    <3>2. sent' \in [Clients -> Seq(Messages)]
      BY <2>1, <2>8, <3>1 DEF OutGameEnded
    <3> QED
      BY <2>2, <2>8, <3>2 DEF OutGameEnded, TypeOK, sharedVars, containerVars, mainVars, inVars
  <2> QED
    BY <1>7, <2>3, <2>4, <2>5, <2>6, <2>7, <2>8 DEF OutThread
<1>8. CASE UNCHANGED vars
  BY <1>8 DEF vars, TypeOK, sharedVars, containerVars, mainVars, inVars, outVars
<1> QED
  BY <1>1, <1>2, <1>3, <1>4, <1>5, <1>6, <1>7, <1>8 DEF Next, InHandle

\* TypeOK in every reachable state, together with the parts it needs.
THEOREM Invariance == Spec => [](TypeOK /\ MainInv /\ CountInv /\ ReaderInv)
<1>1. Init => TypeOK /\ MainInv /\ CountInv /\ ReaderInv
  BY InitInv
<1>2. TypeOK /\ MainInv /\ CountInv /\ ReaderInv /\ [Next]_vars
        => (TypeOK /\ MainInv /\ CountInv /\ ReaderInv)'
  BY TypeStep, MainStep, CountStep, ReaderStep
<1> QED
  BY <1>1, <1>2, PTL DEF Spec

THEOREM TypeCorrect == Spec => []TypeOK
BY Invariance, PTL

-----------------------------------------------------------------------------
(* Rosters *)

\* A container of accepted players only changes when a reader appends its own
\* client, which is not in it yet, while there is room.
LEMMA RosterChange ==
  ASSUME TypeOK, MainInv, ReaderInv, [Next]_vars, NEW v \in Rounds
  PROVE  \/ accepted'[v] = accepted[v]
         \/ \E c \in Clients :
              /\ Len(accepted[v]) < PlayersCount
              /\ \A i \in 1 .. Len(accepted[v]) : accepted[v][i] # c
              /\ accepted'[v] = Append(accepted[v], c)
<1>1. CASE UNCHANGED accepted
  BY <1>1
<1>2. ASSUME NEW c \in Clients, InJoin(c) PROVE accepted'[v] = accepted[v]
        \/ (/\ Len(accepted[v]) < PlayersCount
            /\ \A i \in 1 .. Len(accepted[v]) : accepted[v][i] # c
            /\ accepted'[v] = Append(accepted[v], c))
  <2>1. /\ accepted' = [accepted EXCEPT ![in_round[c]] = Append(@, c)]
        /\ ~Full(in_round[c]) /\ ~joined_the_game[c]
    BY <1>2 DEF InJoin, AddNewPlayer
  <2>2. CASE v # in_round[c]
    BY <2>1, <2>2 DEF TypeOK
  <2>3. CASE v = in_round[c]
    <3>1. accepted'[v] = Append(accepted[v], c) /\ ~Full(v)
      BY <2>1, <2>3 DEF TypeOK
    <3>2. Len(accepted[v]) \in Nat /\ Len(accepted[v]) <= PlayersCount
      BY DEF TypeOK, MainInv, RosterInv
    <3>3. Len(accepted[v]) < PlayersCount
      BY <3>1, <3>2, ProtocolAssumption DEF Full
    <3>4. \A i \in 1 .. Len(accepted[v]) : accepted[v][i] # c
      BY <2>1, <2>3 DEF ReaderInv, KnowsItJoined
    <3> QED
      BY <3>1, <3>3, <3>4
  <2> QED
    BY <2>2, <2>3
<1> QED
  BY <1>1, <1>2
  DEF Next, MainThread, MainPlayersJoined, MainStartGame, MainInitGame,
      MainSnapshotMoves, MainAppendTurn, MainResetShared, MainMarkFinished,
      InHandle, Accept, InRead, InReadFails, InJoinIgnored, InJoinFails,
      InCheckStarted, InUpdateSlot, OutThread, OutHello, OutSnapshot,
      OutCheckStarted, OutAcceptedPlayer, OutGameStarted, OutTurn, OutGameEnded,
      OutSendFails, containerVars, vars

\* No client has two ids in one round.
THEOREM OneId == Spec => []OneIdPerRound
<1>1. Init => OneIdPerRound
  BY DEF Init, OneIdPerRound
<1>2. TypeOK /\ MainInv /\ ReaderInv /\ OneIdPerRound /\ [Next]_vars => OneIdPerRound'
  <2> SUFFICES ASSUME TypeOK, MainInv, ReaderInv, OneIdPerRound, [Next]_vars,
                      NEW v \in Rounds
               PROVE  \A i, j \in 1 .. Len(accepted'[v]) :
                        accepted'[v][i] = accepted'[v][j] => i = j
    BY DEF OneIdPerRound
  <2>1. CASE accepted'[v] = accepted[v]
    BY <2>1 DEF OneIdPerRound
  <2>2. ASSUME NEW c \in Clients,
               \A i \in 1 .. Len(accepted[v]) : accepted[v][i] # c,
               accepted'[v] = Append(accepted[v], c)
        PROVE  \A i, j \in 1 .. Len(accepted'[v]) :
                 accepted'[v][i] = accepted'[v][j] => i = j
    <3>1. accepted[v] \in Seq(Clients)
      BY DEF TypeOK
    <3>2. \A i, j \in 1 .. Len(accepted[v]) : accepted[v][i] = accepted[v][j] => i = j
      BY DEF OneIdPerRound
    <3> QED
      BY <2>2, <3>1, <3>2
  <2> QED
    BY <2>1, <2>2, RosterChange
<1> QED
  BY <1>1, <1>2, Invariance, PTL DEF Spec

\* A complete roster is never added to.
THEOREM RosterStaysFixed == Spec => RosterFixed
<1>1. TypeOK /\ MainInv /\ ReaderInv /\ [Next]_vars
        => [\A v \in Rounds :
              Len(accepted[v]) >= PlayersCount => accepted'[v] = accepted[v]]_vars
  <2> SUFFICES ASSUME TypeOK, MainInv, ReaderInv, [Next]_vars,
                      NEW v \in Rounds, Len(accepted[v]) >= PlayersCount
               PROVE  accepted'[v] = accepted[v]
    OBVIOUS
  <2>1. Len(accepted[v]) \in Nat
    BY DEF TypeOK
  <2>2. ~(Len(accepted[v]) < PlayersCount)
    BY <2>1, ProtocolAssumption
  <2> QED
    BY <2>2, RosterChange
<1> QED
  BY <1>1, Invariance, PTL DEF Spec, RosterFixed

-----------------------------------------------------------------------------
(* The writers *)

\* The protocol: what follows what.
LEMMA FollowsHello == ASSUME NEW m, OpensRound(m) PROVE Follows(Hello, m)
BY DEF Follows, Hello

LEMMA FollowsGameEnded ==
  ASSUME NEW v \in Rounds, NEW m, OpensRound(m), m.round > v
  PROVE  Follows(GameEnded(v), m)
BY DEF Follows, GameEnded

LEMMA Opening ==
  ASSUME NEW v \in Rounds
  PROVE  /\ OpensRound(AcceptedPlayer(v, 0)) /\ AcceptedPlayer(v, 0).round = v
         /\ OpensRound(GameStarted(v)) /\ GameStarted(v).round = v
BY DEF OpensRound, AcceptedPlayer, GameStarted

LEMMA FollowsAcceptedPlayer ==
  ASSUME NEW v \in Rounds, NEW i \in Nat
  PROVE  /\ i + 1 < PlayersCount => Follows(AcceptedPlayer(v, i), AcceptedPlayer(v, i + 1))
         /\ ~(i + 1 < PlayersCount) => Follows(AcceptedPlayer(v, i), GameStarted(v))
BY DEF Follows, AcceptedPlayer

LEMMA FollowsTurn ==
  ASSUME NEW v \in Rounds, NEW k \in Nat
  PROVE  /\ Follows(GameStarted(v), Turn(v, 0))
         /\ k < GameLength => Follows(Turn(v, k), Turn(v, k + 1))
         /\ ~(k < GameLength) => Follows(Turn(v, k), GameEnded(v))
BY DEF Follows, GameStarted, Turn

\* Sending a message that may follow keeps the stream well ordered.
LEMMA SendKeepsOrder ==
  ASSUME NEW s \in Seq(Messages), s # <<>>, WellOrdered(s),
         NEW m \in Messages, Follows(s[Len(s)], m)
  PROVE  /\ WellOrdered(Append(s, m))
         /\ Append(s, m) # <<>>
         /\ Append(s, m)[Len(Append(s, m))] = m
<1>1. /\ Len(Append(s, m)) = Len(s) + 1
      /\ Len(s) \in Nat /\ Len(s) > 0
      /\ Append(s, m)[Len(s) + 1] = m
      /\ \A k \in 1 .. Len(s) : Append(s, m)[k] = s[k]
  OBVIOUS
<1>2. Append(s, m)[1] = Hello
  BY <1>1 DEF WellOrdered
<1>3. ASSUME NEW k \in 1 .. Len(s) PROVE Follows(Append(s, m)[k], Append(s, m)[k + 1])
  <2>1. CASE k = Len(s)
    BY <1>1, <2>1
  <2>2. CASE k # Len(s)
    <3>1. k \in 1 .. Len(s) - 1 /\ k + 1 \in 1 .. Len(s)
      BY <1>1, <2>2
    <3>2. Follows(s[k], s[k + 1])
      BY <3>1 DEF WellOrdered
    <3> QED
      BY <1>1, <3>1, <3>2
  <2> QED
    BY <2>1, <2>2
<1>4. 1 .. Len(Append(s, m)) - 1 = 1 .. Len(s)
  BY <1>1
<1>5. WellOrdered(Append(s, m))
  BY <1>2, <1>3, <1>4 DEF WellOrdered
<1> QED
  BY <1>1, <1>5

LEMMA SendStep ==
  ASSUME TypeOK, NEW c \in Clients, NEW m \in Messages, Send(c, m),
         sent[c] # <<>>, WellOrdered(sent[c]), MayFollow(c, m)
  PROVE  /\ WellOrdered(sent'[c])
         /\ sent'[c] # <<>>
         /\ sent'[c][Len(sent'[c])] = m
<1>1. sent'[c] = Append(sent[c], m) /\ sent[c] \in Seq(Messages)
  BY DEF Send, TypeOK
<1>2. Follows(sent[c][Len(sent[c])], m)
  BY DEF MayFollow
<1> QED
  BY <1>1, <1>2, SendKeepsOrder

\* The part of WriterInv about one connection.
WriterOK(c) ==
  /\ WellOrdered(sent[c])
  /\ IF out_pc[c] \in {"none", "hello"} THEN sent[c] = <<>>
       ELSE out_pc[c] # "dead" => sent[c] # <<>>
  /\ WriterMaySend(c)

\* A writer that read the containers of a round tells its client about that round
\* only, one message after the other, and reads the next round's containers after
\* the main thread has replaced them.  The assumption keeps the index of the loop
\* over the turns from wrapping around.
LEMMA WriterStep ==
  ASSUME GameLength + 1 < TurnMod,
         TypeOK, MainInv, ReaderInv, WriterInv, [Next]_vars
  PROVE  WriterInv'
<1>1. ASSUME NEW c \in Clients, UNCHANGED outVars,
             game_version' \in Nat, game_version' >= game_version
      PROVE  WriterOK(c)'
  <2>1. WriterOK(c)
    BY DEF WriterInv, WriterOK
  <2>2. \A m \in Messages : OpensRound(m) /\ m.round >= game_version'
                              => m.round >= game_version
    <3>1. \A m \in Messages : OpensRound(m) => m.round \in Nat
      BY Numbers DEF Messages, OpensRound, Hello, AcceptedPlayer, GameStarted, Turn, GameEnded
    <3> QED
      BY <1>1, <3>1, Numbers
  <2> QED
    BY <1>1, <2>1, <2>2 DEF WriterOK, WriterMaySend, MayFollow, outVars
<1>2. ASSUME NEW c \in Clients, NEW d \in Clients \ {c}, OutThread(c) \/ Accept(c)
      PROVE  WriterOK(d)'
  <2>1. /\ sent'[d] = sent[d] /\ out_pc'[d] = out_pc[d]
        /\ out_round'[d] = out_round[d] /\ out_i'[d] = out_i[d]
        /\ game_version' = game_version
    BY <1>2 DEF OutThread, OutHello, OutSnapshot, OutCheckStarted, OutAcceptedPlayer,
       OutGameStarted, OutTurn, OutGameEnded, OutSendFails, Accept, Send, TypeOK, sharedVars
  <2>2. WriterOK(d)
    BY DEF WriterInv, WriterOK
  <2> QED
    BY <2>1, <2>2 DEF WriterOK, WriterMaySend, MayFollow
<1>3. ASSUME NEW c \in Clients, OutThread(c) \/ Accept(c) PROVE WriterOK(c)'
  <2> DEFINE v == out_round[c]
             i == out_i[c]
  <2>1. v \in Rounds /\ i \in Nat /\ WriterOK(c) /\ sent[c] \in Seq(Messages)
    BY DEF TypeOK, WriterInv, WriterOK
  <2>2. CASE Accept(c)
    BY <2>1, <2>2 DEF Accept, WriterOK, WriterMaySend, TypeOK
  <2>3. CASE OutHello(c)
    <3>1. sent'[c] = <<Hello>> /\ out_pc'[c] = "snapshot"
      BY <2>1, <2>3 DEF OutHello, Send, WriterOK, TypeOK
    <3>2. WellOrdered(<<Hello>>)
      BY DEF WellOrdered
    <3>4. \A m \in Messages : OpensRound(m) => MayFollow(c, m)'
      BY <3>1, FollowsHello DEF MayFollow
    <3> QED
      BY <3>1, <3>2, <3>4 DEF WriterOK, WriterMaySend
  <2>4. CASE OutSnapshot(c)
    <3>1. /\ out_pc[c] = "snapshot" /\ out_pc'[c] = "check"
          /\ out_round'[c] = game_version /\ UNCHANGED sent
      BY <2>4 DEF OutSnapshot, TypeOK
    <3>2. game_version >= game_version
      BY Numbers
    <3>3. \A m \in Messages : OpensRound(m) /\ m.round = game_version => MayFollow(c, m)'
      BY <2>1, <3>1, <3>2 DEF WriterOK, WriterMaySend, MayFollow
    <3> QED
      BY <2>1, <3>1, <3>3 DEF WriterOK, WriterMaySend
  <2>5. CASE OutCheckStarted(c)
    <3>1. /\ out_pc[c] = "check" /\ out_pc'[c] \in {"accepted", "started"}
          /\ out_pc'[c] = "accepted" => PlayersCount > 0
          /\ out_i'[c] = 0 /\ UNCHANGED <<sent, out_round>>
      BY <2>5 DEF OutCheckStarted, TypeOK
    <3>2. GameStarted(v) \in Messages /\ (PlayersCount > 0 => AcceptedPlayer(v, 0) \in Messages)
      BY <2>1, ProtocolAssumption DEF Messages, Slots
    <3>3. MayFollow(c, GameStarted(v)) /\ (PlayersCount > 0 => MayFollow(c, AcceptedPlayer(v, 0)))
      BY <2>1, <3>1, <3>2, Opening DEF WriterOK, WriterMaySend
    <3> QED
      BY <2>1, <3>1, <3>3 DEF WriterOK, WriterMaySend, MayFollow
  <2>6. CASE OutAcceptedPlayer(c)
    <3>1. /\ out_pc[c] = "accepted" /\ Send(c, AcceptedPlayer(v, i))
          /\ out_i'[c] = i + 1 /\ out_round'[c] = v
          /\ out_pc'[c] = IF i + 1 < PlayersCount THEN "accepted" ELSE "started"
      BY <2>6 DEF OutAcceptedPlayer, TypeOK
    <3>2. i < PlayersCount /\ MayFollow(c, AcceptedPlayer(v, i)) /\ sent[c] # <<>> /\ WellOrdered(sent[c])
      BY <2>1, <3>1 DEF WriterOK, WriterMaySend
    <3>3. AcceptedPlayer(v, i) \in Messages
      BY <2>1, <3>2, ProtocolAssumption DEF Messages, Slots
    <3>4. /\ WellOrdered(sent'[c]) /\ sent'[c] # <<>>
          /\ sent'[c][Len(sent'[c])] = AcceptedPlayer(v, i)
      BY <3>1, <3>2, <3>3, SendStep
    <3>5. CASE i + 1 < PlayersCount
      <4>1. Follows(sent'[c][Len(sent'[c])], AcceptedPlayer(v, i + 1))
        BY <2>1, <3>1, <3>4, <3>5, FollowsAcceptedPlayer
      <4> QED
        BY <3>1, <3>4, <3>5, <4>1 DEF WriterOK, WriterMaySend, MayFollow
    <3>6. CASE ~(i + 1 < PlayersCount)
      <4>1. Follows(sent'[c][Len(sent'[c])], GameStarted(v))
        BY <2>1, <3>1, <3>4, <3>6, FollowsAcceptedPlayer
      <4> QED
        BY <3>1, <3>4, <3>6, <4>1 DEF WriterOK, WriterMaySend, MayFollow
    <3> QED
      BY <3>5, <3>6
  <2>7. CASE OutGameStarted(c)
    <3>1. /\ out_pc[c] = "started" /\ Send(c, GameStarted(v))
          /\ out_i'[c] = 0 /\ out_round'[c] = v /\ out_pc'[c] = "turns"
      BY <2>7 DEF OutGameStarted, TypeOK
    <3>2. MayFollow(c, GameStarted(v)) /\ sent[c] # <<>> /\ WellOrdered(sent[c])
      BY <2>1, <3>1 DEF WriterOK, WriterMaySend
    <3>3. GameStarted(v) \in Messages
      BY <2>1 DEF Messages
    <3>4. /\ WellOrdered(sent'[c]) /\ sent'[c] # <<>>
          /\ sent'[c][Len(sent'[c])] = GameStarted(v)
      BY <3>1, <3>2, <3>3, SendStep
    <3>5. Follows(sent'[c][Len(sent'[c])], Turn(v, 0))
      BY <2>1, <3>4, FollowsTurn
    <3>6. 0 <= GameLength
      BY ProtocolAssumption
    <3> QED
      BY <3>1, <3>4, <3>5, <3>6 DEF WriterOK, WriterMaySend, MayFollow
  <2>8. CASE OutTurn(c)
    <3>1. /\ out_pc[c] = "turns" /\ out_round'[c] = v
          /\ Len(turns[v]) > i
          /\ Send(c, Turn(v, turns[v][i + 1].turn))
          /\ out_i'[c] = NextTurnIndex(i)
          /\ out_pc'[c] = IF NextTurnIndex(i) < TurnsToSend THEN "turns" ELSE "ended"
      BY <2>8 DEF OutTurn, TypeOK
    <3>2. i <= GameLength /\ MayFollow(c, Turn(v, i)) /\ sent[c] # <<>> /\ WellOrdered(sent[c])
      BY <2>1, <3>1 DEF WriterOK, WriterMaySend
    <3>3. turns[v][i + 1].turn = i
      <4>1. i + 1 \in 1 .. Len(turns[v])
        <5>1. Len(turns[v]) \in Nat
          BY <2>1 DEF TypeOK
        <5> QED
          BY <2>1, <3>1, <5>1
      <4>2. turns[v][i + 1].turn = (i + 1) - 1
        BY <2>1, <4>1 DEF MainInv, TurnsInv
      <4> QED
        BY <2>1, <4>2
    <3>4. NextTurnIndex(i) = i + 1
      BY <2>1, <3>2, ServerAssumption, ProtocolAssumption DEF NextTurnIndex
    <3>5. Turn(v, i) \in Messages
      BY <2>1, <3>2, ProtocolAssumption DEF Messages
    <3>6. Send(c, Turn(v, i))
      BY Zenon, <3>1, <3>3
    <3>7. /\ WellOrdered(sent'[c]) /\ sent'[c] # <<>>
          /\ sent'[c][Len(sent'[c])] = Turn(v, i)
      BY <3>2, <3>5, <3>6, SendStep
    <3>8. CASE i < GameLength
      <4>1. out_pc'[c] = "turns" /\ out_i'[c] = i + 1 /\ i + 1 <= GameLength
        BY <2>1, <3>1, <3>4, <3>8, ProtocolAssumption DEF TurnsToSend
      <4>2. Follows(sent'[c][Len(sent'[c])], Turn(v, i + 1))
        BY <2>1, <3>7, <3>8, FollowsTurn
      <4> QED
        BY <3>1, <3>7, <4>1, <4>2 DEF WriterOK, WriterMaySend, MayFollow
    <3>9. CASE ~(i < GameLength)
      <4>1. out_pc'[c] = "ended"
        BY <2>1, <3>1, <3>4, <3>9, ProtocolAssumption DEF TurnsToSend
      <4>2. Follows(sent'[c][Len(sent'[c])], GameEnded(v))
        BY <2>1, <3>7, <3>9, FollowsTurn
      <4> QED
        BY <3>1, <3>7, <4>1, <4>2 DEF WriterOK, WriterMaySend, MayFollow
    <3> QED
      BY <3>8, <3>9
  <2>9. CASE OutGameEnded(c)
    <3>1. /\ out_pc[c] = "ended" /\ finished[v] /\ Send(c, GameEnded(v))
          /\ out_pc'[c] = "snapshot" /\ UNCHANGED <<game_version, out_round>>
      BY <2>9 DEF OutGameEnded, TypeOK, sharedVars
    <3>2. MayFollow(c, GameEnded(v)) /\ sent[c] # <<>> /\ WellOrdered(sent[c])
      BY <2>1, <3>1 DEF WriterOK, WriterMaySend
    <3>3. GameEnded(v) \in Messages
      BY <2>1 DEF Messages
    <3>4. /\ WellOrdered(sent'[c]) /\ sent'[c] # <<>>
          /\ sent'[c][Len(sent'[c])] = GameEnded(v)
      BY <3>1, <3>2, <3>3, SendStep
    <3>5. v < game_version
      BY <2>1, <3>1 DEF MainInv, FinishedInv
    <3>6. ASSUME NEW m \in Messages, OpensRound(m), m.round >= game_version PROVE m.round > v
      <4>1. m.round \in Nat
        BY <3>6, Numbers DEF Messages, OpensRound, Hello, AcceptedPlayer, GameStarted, Turn, GameEnded
      <4> QED
        BY <2>1, <3>5, <3>6, <4>1, Numbers
    <3>7. \A m \in Messages : OpensRound(m) /\ m.round >= game_version => MayFollow(c, m)'
      BY <2>1, <3>4, <3>6, FollowsGameEnded DEF MayFollow
    <3> QED
      BY <3>1, <3>4, <3>7 DEF WriterOK, WriterMaySend
  <2>10. CASE OutSendFails(c)
    <3>1. out_pc'[c] = "dead" /\ sent'[c] = sent[c]
      BY <2>10 DEF OutSendFails, TypeOK
    <3> QED
      BY <2>1, <3>1 DEF WriterOK, WriterMaySend
  <2> QED
    BY <1>3, <2>2, <2>3, <2>4, <2>5, <2>6, <2>7, <2>8, <2>9, <2>10 DEF OutThread
<1>4. CASE \E c \in Clients : OutThread(c) \/ Accept(c)
  BY <1>2, <1>3, <1>4 DEF WriterInv, WriterOK
<1>5. CASE ~ \E c \in Clients : OutThread(c) \/ Accept(c)
  <2>1. UNCHANGED outVars /\ game_version' \in Nat /\ game_version' >= game_version
    <3>1. UNCHANGED outVars /\ game_version' \in {game_version, game_version + 1}
      BY <1>5 DEF Next, MainThread, MainPlayersJoined, MainStartGame, MainInitGame,
         MainSnapshotMoves, MainAppendTurn, MainResetShared, MainMarkFinished,
         InHandle, InRead, InReadFails, InJoin, InJoinIgnored, InJoinFails,
         InCheckStarted, InUpdateSlot, sharedVars, vars
    <3> QED
      BY <3>1, Numbers
  <2> QED
    BY <1>1, <2>1 DEF WriterInv, WriterOK
<1> QED
  BY <1>4, <1>5

LEMMA WriterInvariance == ASSUME GameLength + 1 < TurnMod PROVE Spec => []WriterInv
<1>1. Init => WriterInv
  <2>1. WellOrdered(<<>>)
    BY DEF WellOrdered
  <2>2. Init => \A c \in Clients : sent[c] = <<>> /\ out_pc[c] = "none"
    BY DEF Init
  <2> QED
    BY <2>1, <2>2 DEF WriterInv, WriterMaySend
<1>2. TypeOK /\ MainInv /\ ReaderInv /\ WriterInv /\ [Next]_vars => WriterInv'
  BY WriterStep
<1> QED
  BY <1>1, <1>2, Invariance, PTL DEF Spec

\* What a client is sent is well ordered, for every game shorter than 2^16 - 1 turns.
THEOREM Order == ASSUME GameLength + 1 < TurnMod PROVE Spec => []ProtocolOrder
<1>1. WriterInv => ProtocolOrder
  BY DEF WriterInv, ProtocolOrder
<1> QED
  BY <1>1, WriterInvariance, PTL

-----------------------------------------------------------------------------
(* The moves: who they come from, when they were made, and that none is    *)
(* lost between a client's message and a turn.                             *)

\* Between two turns the main thread holds no moves.
IdleMoves == main_pc # "append" => main_moves = NoMoves

\* What it has taken comes from the players it was taken from.
TakenFromOwner == \A p \in Slots : MoveOf(main_round, p, main_moves[p])

\* What waits in a slot has come since the last snapshot, what the main thread has
\* taken before it.
SlotsFresh ==
  \A v \in Rounds, p \in Slots : slots[v][p] # NoMove => slots[v][p].at = snapshots[v]

TakenFresh ==
  \A p \in Slots :
    main_moves[p] # NoMove => main_moves[p].at + 1 = snapshots[main_round]

MovesInv ==
  IdleMoves /\ TakenFromOwner /\ MovesFromOwner /\ SlotsFresh /\ TakenFresh /\ FreshMoves

LEMMA InitMoves == Init => MovesInv
<1> SUFFICES ASSUME Init PROVE MovesInv
  OBVIOUS
<1>1. /\ main_moves = NoMoves /\ main_pc = "await"
      /\ \A v \in Rounds : slots[v] = NoMoves /\ turns[v] = <<>>
  BY DEF Init
<1>2. \A p \in Slots : NoMoves[p] = NoMove
  BY DEF NoMoves
<1>3. main_round \in Rounds
  BY ProtocolAssumption DEF Init, Rounds
<1>4. IdleMoves /\ TakenFromOwner
  BY <1>1, <1>2 DEF IdleMoves, TakenFromOwner, MoveOf
<1>5. MovesFromOwner /\ FreshMoves
  BY <1>1, <1>2 DEF MovesFromOwner, MoveOf, FreshMoves
<1>6. SlotsFresh /\ TakenFresh
  BY <1>1, <1>2 DEF SlotsFresh, TakenFresh
<1> QED
  BY <1>4, <1>5, <1>6 DEF MovesInv

-----------------------------------------------------------------------------
(* Owners *)

\* A move belongs to its player for good: players are only added to a round.
LEMMA MoveOfKept ==
  ASSUME TypeOK, MainInv, ReaderInv, [Next]_vars,
         NEW v \in Rounds, NEW p \in Slots, NEW m, MoveOf(v, p, m)
  PROVE  m = NoMove \/ (p < Len(accepted'[v]) /\ m.by = accepted'[v][p + 1])
<1>1. CASE m = NoMove \/ accepted'[v] = accepted[v]
  BY <1>1 DEF MoveOf
<1>2. ASSUME NEW c \in Clients, m # NoMove, accepted'[v] = Append(accepted[v], c)
      PROVE  p < Len(accepted'[v]) /\ m.by = accepted'[v][p + 1]
  <2>1. p \in Nat /\ accepted[v] \in Seq(Clients)
    BY ProtocolAssumption DEF Slots, TypeOK
  <2>2. p < Len(accepted[v]) /\ m.by = accepted[v][p + 1]
    BY <1>2 DEF MoveOf
  <2> QED
    BY <1>2, <2>1, <2>2
<1> QED
  BY <1>1, <1>2, RosterChange

\* The steps that touch moves are those that publish or prepare a turn and those that
\* store a move; the others only add a player or let the main thread go on.
LEMMA WhatMovesDo ==
  ASSUME TypeOK, MainInv, [Next]_vars
  PROVE  \/ MainInitGame \/ MainSnapshotMoves \/ MainAppendTurn
         \/ \E c \in Clients : InUpdateSlot(c)
         \/ /\ UNCHANGED <<slots, turns, main_moves, snapshots>>
            /\ main_pc' = "append" <=> main_pc = "append"
            /\ main_round' # main_round => main_pc = "await"
            /\ main_round' \in Rounds
BY DEF Next, MainThread, MainPlayersJoined, MainStartGame, MainResetShared, MainMarkFinished,
       InHandle, Accept, InRead, InReadFails, InJoin, InJoinIgnored, InJoinFails,
       InCheckStarted, OutThread, OutHello, OutSnapshot,
       OutCheckStarted, OutAcceptedPlayer, OutGameStarted, OutTurn, OutGameEnded,
       OutSendFails, sharedVars, containerVars, mainVars, vars, TypeOK

\* The client of a reader that is about to store a move is the player with that id.
LEMMA UpdateIsOwned ==
  ASSUME TypeOK, ReaderInv, NEW c \in Clients, InUpdateSlot(c)
  PROVE  /\ in_round[c] \in Rounds
         /\ player_id[c] < Len(accepted[in_round[c]])
         /\ accepted[in_round[c]][player_id[c] + 1] = c
BY DEF InUpdateSlot, ReaderInv, HoldsOpenedRound, OwnsItsId, TypeOK

\* A turn takes its moves from the snapshot, and a slot its move from the reader.
LEMMA OwnersStep ==
  ASSUME TypeOK, MainInv, ReaderInv, MovesInv, [Next]_vars
  PROVE  (IdleMoves /\ TakenFromOwner /\ MovesFromOwner)'
<1>1. /\ \A p \in Slots : NoMoves[p] = NoMove /\ p \in Nat
      /\ main_round \in Rounds
  BY ProtocolAssumption DEF NoMoves, Slots, TypeOK
<1> DEFINE Owned(v, p, m) == m = NoMove \/ (p < Len(accepted'[v]) /\ m.by = accepted'[v][p + 1])
<1>2. \A v \in Rounds, p \in Slots :
        /\ Owned(v, p, slots[v][p])
        /\ \A k \in 1 .. Len(turns[v]) : Owned(v, p, turns[v][k].moves[p])
  BY MoveOfKept DEF MovesInv, MovesFromOwner
<1>3. \A p \in Slots : Owned(main_round, p, main_moves[p])
  BY <1>1, MoveOfKept DEF MovesInv, TakenFromOwner
<1>4. \A v, p : Owned(v, p, NoMove)
  OBVIOUS
<1> HIDE DEF Owned
<1> DEFINE AllOwned ==
             /\ main_pc' # "append" => main_moves' = NoMoves
             /\ \A p \in Slots : Owned(main_round', p, main_moves'[p])
             /\ \A v \in Rounds, p \in Slots :
                  /\ Owned(v, p, slots'[v][p])
                  /\ \A k \in 1 .. Len(turns'[v]) : Owned(v, p, turns'[v][k].moves[p])
<1>5. SUFFICES AllOwned
  BY DEF IdleMoves, TakenFromOwner, MovesFromOwner, MoveOf, Owned
<1>6. CASE MainInitGame
  <2> DEFINE t == [turn |-> 0, moves |-> NoMoves]
  <2>1. /\ turns' = [turns EXCEPT ![main_round] = Append(@, t)]
        /\ UNCHANGED <<slots, main_moves, main_round>>
        /\ main_pc = "init" /\ main_moves = NoMoves
    BY <1>6 DEF MainInitGame, AppendNewTurn, MovesInv, IdleMoves
  <2>2. \A p \in Slots : t.moves[p] = NoMove
    BY <1>1
  <2> HIDE DEF t
  <2>3. ASSUME NEW v \in Rounds, NEW p \in Slots, NEW k \in 1 .. Len(turns'[v])
        PROVE  Owned(v, p, turns'[v][k].moves[p])
    <3>1. turns \in [Rounds -> Seq(Turns)]
      BY DEF TypeOK
    <3>2. turns'[v][k] = t \/ (k \in 1 .. Len(turns[v]) /\ turns'[v][k] = turns[v][k])
      BY <2>1, <2>3, <3>1
    <3> QED
      BY <1>2, <1>4, <2>2, <3>2
  <2> QED
    BY <1>2, <1>3, <2>1, <2>3
<1>7. CASE MainSnapshotMoves
  <2>1. /\ main_moves' = slots[main_round] /\ slots' = [slots EXCEPT ![main_round] = NoMoves]
        /\ main_pc' = "append" /\ UNCHANGED <<main_round, turns>>
    BY <1>7 DEF MainSnapshotMoves, ClearSlots
  <2>2. ASSUME NEW v \in Rounds, NEW p \in Slots PROVE Owned(v, p, slots'[v][p])
    BY <1>1, <1>2, <1>4, <2>1 DEF TypeOK
  <2> QED
    BY <1>1, <1>2, <2>1, <2>2
<1>8. CASE MainAppendTurn
  <2> DEFINE t == [turn |-> main_turn + 1, moves |-> main_moves]
  <2>1. /\ turns' = [turns EXCEPT ![main_round] = Append(@, t)]
        /\ UNCHANGED <<slots, main_round>> /\ main_moves' = NoMoves
    BY <1>8 DEF MainAppendTurn, AppendNewTurn
  <2>2. t.moves = main_moves
    OBVIOUS
  <2> HIDE DEF t
  <2>3. ASSUME NEW v \in Rounds, NEW p \in Slots, NEW k \in 1 .. Len(turns'[v])
        PROVE  Owned(v, p, turns'[v][k].moves[p])
    <3>1. turns \in [Rounds -> Seq(Turns)]
      BY DEF TypeOK
    <3>2. \/ v = main_round /\ turns'[v][k] = t
          \/ k \in 1 .. Len(turns[v]) /\ turns'[v][k] = turns[v][k]
      BY <2>1, <2>3, <3>1
    <3> QED
      BY <1>2, <1>3, <2>2, <3>2
  <2> QED
    BY <1>1, <1>2, <1>4, <2>1, <2>3
<1>9. ASSUME NEW c \in Clients, InUpdateSlot(c)
      PROVE  AllOwned
  <2> DEFINE r == in_round[c]
             m == [by |-> c, at |-> snapshots[r]]
  <2>1. /\ slots' = [slots EXCEPT ![r][player_id[c]] = m]
        /\ UNCHANGED <<turns, accepted, main_pc, main_moves, main_round>>
    BY <1>9 DEF InUpdateSlot, UpdateSlot, mainVars
  <2>2. Owned(r, player_id[c], m)
    BY <1>9, <2>1, UpdateIsOwned DEF Owned
  <2> HIDE DEF m
  <2>3. ASSUME NEW v \in Rounds, NEW p \in Slots PROVE Owned(v, p, slots'[v][p])
    <3>1. (slots'[v][p] = m /\ v = r /\ p = player_id[c]) \/ slots'[v][p] = slots[v][p]
      BY <2>1 DEF TypeOK
    <3> QED
      BY <1>2, <2>2, <3>1
  <2> QED
    BY <1>2, <1>3, <2>1, <2>3 DEF MovesInv, IdleMoves
<1>10. CASE /\ UNCHANGED <<slots, turns, main_moves, snapshots>>
            /\ main_pc' = "append" <=> main_pc = "append"
            /\ main_round' # main_round => main_pc = "await"
  <2>1. main_pc' # "append" => main_moves' = NoMoves
    BY <1>10 DEF MovesInv, IdleMoves
  <2>2. CASE main_round' = main_round
    BY <1>2, <1>3, <1>10, <2>1, <2>2
  <2>3. CASE main_round' # main_round
    BY <1>1, <1>2, <1>4, <1>10, <2>1, <2>3 DEF MovesInv, IdleMoves
  <2> QED
    BY <2>2, <2>3
<1> QED
  BY <1>6, <1>7, <1>8, <1>9, <1>10, WhatMovesDo

-----------------------------------------------------------------------------
(* Times *)

\* A snapshot is counted in the step that empties the slots, so a move that was taken
\* is one snapshot old and the turn it goes into has the number of that snapshot.
LEMMA TimesStep ==
  ASSUME TypeOK, MainInv, CountInv, ReaderInv, MovesInv, [Next]_vars
  PROVE  (SlotsFresh /\ TakenFresh /\ FreshMoves)'
<1>1. /\ \A p \in Slots : NoMoves[p] = NoMove
      /\ main_round \in Rounds /\ main_turn \in Nat
      /\ turns \in [Rounds -> Seq(Turns)]
      /\ snapshots \in [Rounds -> 0 .. GameLength]
      /\ GameLength \in Nat
  BY ProtocolAssumption DEF NoMoves, TypeOK
<1>2. /\ \A v \in Rounds, p \in Slots :
           slots[v][p] # NoMove => slots[v][p].at = snapshots[v]
      /\ \A p \in Slots :
           main_moves[p] # NoMove => main_moves[p].at + 1 = snapshots[main_round]
      /\ \A v \in Rounds, p \in Slots : \A k \in 1 .. Len(turns[v]) :
           turns[v][k].moves[p] # NoMove => turns[v][k].moves[p].at + 1 = turns[v][k].turn
  BY DEF MovesInv, SlotsFresh, TakenFresh, FreshMoves
\* A turn that is published with moves of its own snapshot.
<1>3. ASSUME NEW t, turns' = [turns EXCEPT ![main_round] = Append(@, t)],
             \A p \in Slots : t.moves[p] # NoMove => t.moves[p].at + 1 = t.turn
      PROVE  FreshMoves'
  <2>1. ASSUME NEW v \in Rounds, NEW p \in Slots, NEW k \in 1 .. Len(turns'[v])
        PROVE  turns'[v][k].moves[p] # NoMove
                 => turns'[v][k].moves[p].at + 1 = turns'[v][k].turn
    <3>1. turns'[v][k] = t \/ (k \in 1 .. Len(turns[v]) /\ turns'[v][k] = turns[v][k])
      BY <1>1, <1>3, <2>1
    <3> QED
      BY <1>2, <1>3, <3>1
  <2> QED
    BY <2>1 DEF FreshMoves
<1>4. CASE MainInitGame
  <2> DEFINE t == [turn |-> 0, moves |-> NoMoves]
  <2>1. /\ turns' = [turns EXCEPT ![main_round] = Append(@, t)]
        /\ UNCHANGED <<slots, snapshots, main_round, main_moves>>
    BY <1>4 DEF MainInitGame, AppendNewTurn
  <2>2. \A p \in Slots : t.moves[p] = NoMove
    BY <1>1
  <2> HIDE DEF t
  <2>3. FreshMoves'
    BY <1>3, <2>1, <2>2
  <2> QED
    BY <1>2, <2>1, <2>3 DEF SlotsFresh, TakenFresh
<1>5. CASE MainSnapshotMoves
  <2>1. /\ main_moves' = slots[main_round] /\ slots' = [slots EXCEPT ![main_round] = NoMoves]
        /\ snapshots' = [snapshots EXCEPT ![main_round] = @ + 1]
        /\ UNCHANGED <<main_round, turns>>
    BY <1>5 DEF MainSnapshotMoves, ClearSlots
  <2>2. /\ slots'[main_round] = NoMoves
        /\ \A v \in Rounds \ {main_round} :
             slots'[v] = slots[v] /\ snapshots'[v] = snapshots[v]
        /\ snapshots'[main_round] = snapshots[main_round] + 1
    BY <1>1, <2>1 DEF TypeOK
  <2>3. SlotsFresh'
    <3> SUFFICES ASSUME NEW v \in Rounds, NEW p \in Slots, slots'[v][p] # NoMove
                 PROVE  slots'[v][p].at = snapshots'[v]
      BY DEF SlotsFresh
    <3>1. v # main_round
      BY <1>1, <2>2
    <3>2. slots'[v] = slots[v] /\ snapshots'[v] = snapshots[v]
      BY <2>2, <3>1
    <3> QED
      BY <1>2, <3>2
  <2>4. TakenFresh'
    BY <1>1, <1>2, <2>1, <2>2 DEF TakenFresh
  <2>5. FreshMoves'
    BY <1>2, <2>1 DEF FreshMoves
  <2> QED
    BY <2>3, <2>4, <2>5
<1>6. CASE MainAppendTurn
  <2> DEFINE t == [turn |-> main_turn + 1, moves |-> main_moves]
  <2>1. /\ turns' = [turns EXCEPT ![main_round] = Append(@, t)]
        /\ UNCHANGED <<slots, snapshots, main_round>> /\ main_moves' = NoMoves
        /\ main_pc = "append"
    BY <1>6 DEF MainAppendTurn, AppendNewTurn
  <2>2. snapshots[main_round] = main_turn + 1
    BY <1>1, <2>1 DEF CountInv, SnapshotsTaken
  <2>3. t.moves = main_moves /\ t.turn = snapshots[main_round]
    BY <2>2
  <2> HIDE DEF t
  <2>4. FreshMoves'
    BY <1>2, <1>3, <2>1, <2>3
  <2>5. SlotsFresh' /\ TakenFresh'
    BY <1>1, <1>2, <2>1 DEF SlotsFresh, TakenFresh
  <2> QED
    BY <2>4, <2>5
<1>7. ASSUME NEW c \in Clients, InUpdateSlot(c)
      PROVE  (SlotsFresh /\ TakenFresh /\ FreshMoves)'
  <2> DEFINE r == in_round[c]
             m == [by |-> c, at |-> snapshots[r]]
  <2>1. /\ slots' = [slots EXCEPT ![r][player_id[c]] = m]
        /\ UNCHANGED <<turns, snapshots, main_moves, main_round>>
    BY <1>7 DEF InUpdateSlot, UpdateSlot, mainVars
  <2>2. m.at = snapshots[r]
    OBVIOUS
  <2> HIDE DEF m
  <2>3. ASSUME NEW v \in Rounds, NEW p \in Slots
        PROVE  (slots'[v][p] = m /\ v = r) \/ slots'[v][p] = slots[v][p]
    BY <2>1 DEF TypeOK
  <2>4. SlotsFresh'
    BY <1>2, <2>1, <2>2, <2>3 DEF SlotsFresh
  <2>5. TakenFresh' /\ FreshMoves'
    BY <1>2, <2>1 DEF TakenFresh, FreshMoves
  <2> QED
    BY <2>4, <2>5
<1>8. CASE /\ UNCHANGED <<slots, turns, main_moves, snapshots>>
           /\ main_pc' = "append" <=> main_pc = "append"
           /\ main_round' # main_round => main_pc = "await"
  <2>1. SlotsFresh' /\ FreshMoves'
    BY <1>2, <1>8 DEF SlotsFresh, FreshMoves
  <2>2. TakenFresh'
    BY <1>1, <1>2, <1>8 DEF TakenFresh, MovesInv, IdleMoves
  <2> QED
    BY <2>1, <2>2
<1> QED
  BY <1>4, <1>5, <1>6, <1>7, <1>8, WhatMovesDo

-----------------------------------------------------------------------------
(* The theorems *)

LEMMA MovesInvariance == Spec => []MovesInv
<1>1. Init => MovesInv
  BY InitMoves
<1>2. TypeOK /\ MainInv /\ CountInv /\ ReaderInv /\ MovesInv /\ [Next]_vars => MovesInv'
  <2> SUFFICES ASSUME TypeOK, MainInv, CountInv, ReaderInv, MovesInv, [Next]_vars
               PROVE  MovesInv'
    OBVIOUS
  <2>1. (IdleMoves /\ TakenFromOwner /\ MovesFromOwner)'
    BY OwnersStep
  <2>2. (SlotsFresh /\ TakenFresh /\ FreshMoves)'
    BY TimesStep
  <2> QED
    BY <2>1, <2>2 DEF MovesInv
<1> QED
  BY <1>1, <1>2, Invariance, PTL DEF Spec

\* A slot and a turn only ever hold moves of the player whose slot it is
\* (server.cpp:232, move_container.cpp), in whatever round the reader that stores
\* it obtained its containers.
THEOREM OnlyOwnersMove == Spec => []MovesFromOwner
BY MovesInvariance, PTL DEF MovesInv

\* A turn contains only moves that were stored between the snapshot before and its own,
\* so none takes effect in two turns (apply_moves, atomic_snapshot_and_clear).
THEOREM MovesAreFresh == Spec => []FreshMoves
BY MovesInvariance, PTL DEF MovesInv

\* A slot is only emptied by the step that hands its move to the main thread.
THEOREM NoMoveIsDropped == Spec => NoMoveDropped
<1>1. TypeOK /\ MainInv /\ [Next]_vars
        => [\A v \in Rounds, p \in Slots :
              slots[v][p] # NoMove /\ slots'[v][p] = NoMove
                => main_moves'[p] = slots[v][p]]_vars
  <2> SUFFICES ASSUME TypeOK, MainInv, [Next]_vars,
                      NEW v \in Rounds, NEW p \in Slots,
                      slots[v][p] # NoMove, slots'[v][p] = NoMove
               PROVE  main_moves'[p] = slots[v][p]
    OBVIOUS
  <2>1. CASE MainSnapshotMoves
    <3>1. main_moves' = slots[main_round] /\ slots' = [slots EXCEPT ![main_round] = NoMoves]
      BY <2>1 DEF MainSnapshotMoves, ClearSlots
    <3> QED
      BY <3>1 DEF TypeOK
  <2>2. ASSUME NEW c \in Clients, InUpdateSlot(c) PROVE FALSE
    <3> DEFINE m == [by |-> c, at |-> snapshots[in_round[c]]]
    <3>1. slots' = [slots EXCEPT ![in_round[c]][player_id[c]] = m]
      BY <2>2 DEF InUpdateSlot, UpdateSlot
    <3>2. slots'[v][p] = slots[v][p] \/ (slots'[v][p] = m /\ v = in_round[c])
      BY <3>1 DEF TypeOK
    <3>3. m # NoMove \/ v # in_round[c]
      BY ServerAssumption DEF TypeOK
    <3> QED
      BY <3>2, <3>3
  <2>3. CASE UNCHANGED slots
    BY <2>3
  <2> QED
    BY <2>1, <2>2, <2>3, WhatMovesDo DEF MainInitGame, MainAppendTurn
<1> QED
  BY <1>1, Invariance, PTL DEF Spec, NoMoveDropped

-----------------------------------------------------------------------------
(* The threads implement GameService: each step of a thread is one step of *)
(* the service, or none that the service shows.                            *)

\* Both speak of the same rounds and messages.
LEMMA SameProtocol ==
  /\ Service!Rounds = Rounds /\ Service!Messages = Messages /\ Service!Hello = Hello
  /\ \A m, next : Service!Follows(m, next) <=> Follows(m, next)
<1>1. /\ Service!Rounds = Rounds /\ Service!Slots = Slots /\ Service!Hello = Hello
      /\ \A v, k : /\ Service!AcceptedPlayer(v, k) = AcceptedPlayer(v, k)
                   /\ Service!GameStarted(v) = GameStarted(v)
                   /\ Service!Turn(v, k) = Turn(v, k)
                   /\ Service!GameEnded(v) = GameEnded(v)
      /\ \A m : Service!OpensRound(m) <=> OpensRound(m)
  BY Zenon
  DEF Service!Rounds, Rounds, Service!Slots, Slots, Service!Hello, Hello,
      Service!AcceptedPlayer, AcceptedPlayer, Service!GameStarted, GameStarted,
      Service!Turn, Turn, Service!GameEnded, GameEnded, Service!OpensRound, OpensRound
<1>2. Service!Messages = Messages
  <2>1. ASSUME NEW m PROVE m \in Service!Messages <=> m \in Messages
    BY <1>1, SMT DEF Service!Messages, Messages
  <2> QED
    BY <2>1, Zenon
<1>3. \A m, next : Service!Follows(m, next) <=> Follows(m, next)
  <2> SUFFICES ASSUME NEW m, NEW next PROVE Service!Follows(m, next) <=> Follows(m, next)
    OBVIOUS
  <2>1. /\ Service!AcceptedPlayer(m.round, m.n + 1) = AcceptedPlayer(m.round, m.n + 1)
        /\ Service!GameStarted(m.round) = GameStarted(m.round)
        /\ Service!Turn(m.round, 0) = Turn(m.round, 0)
        /\ Service!Turn(m.round, m.n + 1) = Turn(m.round, m.n + 1)
        /\ Service!GameEnded(m.round) = GameEnded(m.round)
        /\ Service!OpensRound(next) <=> OpensRound(next)
    BY <1>1, Zenon
  <2> QED
    BY <2>1, SMT DEF Service!Follows, Follows
<1> QED
  BY <1>1, <1>2, <1>3

\* main() has set up round 1, in which nobody is enrolled yet.
LEMMA InitRefines == Init => Service!Init
<1> SUFFICES ASSUME Init PROVE Service!Init
  OBVIOUS
<1>1. [v \in Rounds |-> Len(turns[v])] = [v \in Rounds |-> 0]
  BY DEF Init
<1> QED
  BY <1>1, SameProtocol DEF Init, Service!Init

\* A reader enrols its client in the open round: a full round is the only kind it can
\* still hold after that round was left, and a client that is enrolled knows it.
LEMMA JoinEnrolls ==
  ASSUME TypeOK, MainInv, ReaderInv, NEW c \in Clients, InJoin(c)
  PROVE  Service!Enroll(c)
<1>1. /\ ~joined_the_game[c] /\ ~Full(in_round[c]) /\ in_pc[c] = "join"
      /\ accepted' = [accepted EXCEPT ![in_round[c]] = Append(@, c)]
      /\ UNCHANGED <<game_version, turns, finished, sent>>
  BY DEF InJoin, AddNewPlayer, sharedVars, outVars
<1>2. in_round[c] \in Rounds /\ in_round[c] <= game_version
  BY <1>1 DEF ReaderInv, HoldsOpenedRound, TypeOK
<1>3. in_round[c] = game_version
  <2>1. ~(in_round[c] < game_version)
    BY <1>1, <1>2 DEF MainInv, RosterInv
  <2> QED
    BY <1>2, <2>1, Numbers
<1>4. \A i \in 1 .. Len(accepted[game_version]) : accepted[game_version][i] # c
  BY <1>1, <1>2, <1>3 DEF ReaderInv, KnowsItJoined
<1>5. c \notin Service!Enrolled(game_version) /\ ~Service!RosterFull(game_version)
  BY <1>1, <1>3, <1>4 DEF Service!Enrolled, Service!RosterFull, Full
<1> QED
  BY <1>1, <1>3, <1>5 DEF Service!Enroll

\* The main thread publishes the turns of the open round, once it is full.
LEMMA TurnPublishes ==
  ASSUME TypeOK, MainInv, MainInitGame \/ MainAppendTurn
  PROVE  Service!Publish
<1>1. /\ main_round = game_version /\ Full(game_version)
      /\ UNCHANGED <<game_version, accepted, finished, sent>>
  BY DEF MainInitGame, MainAppendTurn, MainInv, MainControl, sharedVars, outVars
<1>2. PICK t : turns' = [turns EXCEPT ![main_round] = Append(@, t)]
  BY DEF MainInitGame, MainAppendTurn, AppendNewTurn
<1>3. /\ turns \in [Rounds -> Seq(Turns)] /\ game_version \in Rounds
  BY DEF TypeOK
<1>4. \A v \in Rounds :
        Len(turns'[v]) = IF v = game_version THEN Len(turns[v]) + 1 ELSE Len(turns[v])
  BY <1>1, <1>2, <1>3
<1>5. Len(turns[game_version]) <= GameLength
  <2>1. Len(turns[game_version]) = TurnsPublished(game_version)
    BY <1>3 DEF MainInv, TurnsInv
  <2> QED
    BY <2>1, ProtocolAssumption
    DEF TurnsPublished, MainInitGame, MainAppendTurn, MainInv, MainControl, TypeOK, Rounds
<1>6. [v \in Rounds |-> Len(turns'[v])]
        = [[v \in Rounds |-> Len(turns[v])] EXCEPT ![game_version] = @ + 1]
  BY <1>3, <1>4
<1>7. [v \in Rounds |-> Len(turns[v])][game_version] <= GameLength
  BY <1>3, <1>5
<1> QED
  BY <1>1, <1>6, <1>7 DEF Service!Publish, Service!RosterFull, Full

\* reset_shared opens the next round after the last turn of this one.
LEMMA ResetOpens ==
  ASSUME TypeOK, MainInv, MainResetShared
  PROVE  Service!OpenNextRound
<1>1. /\ main_pc = "reset" /\ game_version < MaxRounds
      /\ game_version' = game_version + 1
      /\ UNCHANGED <<accepted, turns, finished, sent>>
  BY DEF MainResetShared, containerVars, outVars
<1>2. game_version \in Rounds /\ game_version \in Nat
  BY Numbers DEF TypeOK
<1>3. Len(turns[game_version]) = GameLength + 1
  <2>1. Len(turns[game_version]) = TurnsPublished(game_version)
    BY <1>2 DEF MainInv, TurnsInv
  <2> QED
    BY <1>1, <1>2, <2>1 DEF TurnsPublished, MainInv, MainControl
<1>4. [v \in Rounds |-> Len(turns[v])][game_version] = GameLength + 1
  BY <1>2, <1>3
<1> QED
  BY <1>1, <1>4 DEF Service!OpenNextRound

\* mark_the_game_as_finished announces the result of the round that was just left;
\* the rounds before it have been announced.
LEMMA MarkAnnounces ==
  ASSUME TypeOK, MainInv, MainMarkFinished
  PROVE  Service!Announce(main_round)
<1>1. /\ main_pc = "mark" /\ finished' = [finished EXCEPT ![main_round] = TRUE]
      /\ UNCHANGED <<game_version, accepted, turns, sent>>
  BY DEF MainMarkFinished, sharedVars, outVars
<1>2. main_round \in Rounds /\ main_round \in Nat /\ game_version \in Rounds /\ game_version \in Nat
  BY Numbers DEF TypeOK
<1>3. main_round + 1 = game_version
  BY <1>1 DEF MainInv, MainControl
<1>4. main_round < game_version
  BY <1>2, <1>3
<1>5. ~finished[main_round]
  BY <1>1, <1>2 DEF MainInv, FinishedInv
<1>6. ASSUME NEW u \in 1 .. main_round - 1 PROVE finished[u]
  <2>1. u \in Rounds /\ u < game_version /\ u # main_round
    BY <1>2, <1>4, ProtocolAssumption DEF Rounds
  <2>2. FinishedInv(u)
    BY <2>1 DEF MainInv
  <2> QED
    BY <2>1, <2>2, Zenon DEF FinishedInv
<1> QED
  BY <1>1, <1>4, <1>5, <1>6 DEF Service!Announce

\* What a writer sends is in the containers of the round it holds, and may follow
\* what it sent before.
LEMMA SendTells ==
  ASSUME GameLength + 1 < TurnMod,
         TypeOK, MainInv, WriterInv, NEW c \in Clients, OutThread(c), sent' # sent
  PROVE  \E m \in Messages : Service!Tell(c, m)
<1> DEFINE v == out_round[c]
           i == out_i[c]
<1>1. /\ v \in Rounds /\ i \in Nat /\ sent[c] \in Seq(Messages)
      /\ WriterMaySend(c)
      /\ out_pc[c] = "hello" => sent[c] = <<>>
      /\ out_pc[c] \notin {"none", "hello", "dead"} => sent[c] # <<>>
  BY DEF TypeOK, WriterInv
\* A message that is known and may be sent next is told.
<1>2. ASSUME NEW m \in Messages, Send(c, m), Service!Known(m),
             IF sent[c] = <<>> THEN m = Hello ELSE MayFollow(c, m),
             UNCHANGED <<game_version, accepted, turns, finished>>
      PROVE  Service!Tell(c, m)
  <2>1. UNCHANGED [u \in Rounds |-> Len(turns[u])]
    BY <1>2
  <2> QED
    BY <1>2, <2>1, SameProtocol DEF Send, MayFollow, Service!Tell
<1>3. CASE OutHello(c)
  <2>1. Send(c, Hello) /\ sent[c] = <<>> /\ UNCHANGED <<game_version, accepted, turns, finished>>
    BY <1>1, <1>3 DEF OutHello, sharedVars, containerVars
  <2>2. Hello \in Messages /\ Service!Known(Hello)
    BY DEF Messages, Hello, Service!Known
  <2> QED
    BY <1>2, <2>1, <2>2
<1>4. CASE OutAcceptedPlayer(c)
  <2>1. /\ out_pc[c] = "accepted" /\ Len(accepted[v]) > i
        /\ Send(c, AcceptedPlayer(v, i))
        /\ UNCHANGED <<game_version, accepted, turns, finished>>
    BY <1>4 DEF OutAcceptedPlayer, sharedVars, containerVars
  <2>2. i < PlayersCount /\ MayFollow(c, AcceptedPlayer(v, i)) /\ sent[c] # <<>>
    BY <1>1, <2>1 DEF WriterMaySend
  <2>3. AcceptedPlayer(v, i) \in Messages
    BY <1>1, <2>2, ProtocolAssumption DEF Messages, Slots
  <2>4. Service!Known(AcceptedPlayer(v, i))
    BY <2>1 DEF AcceptedPlayer, Service!Known
  <2> QED
    BY <1>2, <2>1, <2>2, <2>3, <2>4
<1>5. CASE OutGameStarted(c)
  <2>1. /\ out_pc[c] = "started" /\ Full(v) /\ Send(c, GameStarted(v))
        /\ UNCHANGED <<game_version, accepted, turns, finished>>
    BY <1>5 DEF OutGameStarted, sharedVars, containerVars
  <2>2. MayFollow(c, GameStarted(v)) /\ sent[c] # <<>>
    BY <1>1, <2>1 DEF WriterMaySend
  <2>3. GameStarted(v) \in Messages
    BY <1>1 DEF Messages
  <2>4. Service!Known(GameStarted(v))
    BY <2>1 DEF GameStarted, Service!Known, Service!RosterFull, Full
  <2> QED
    BY <1>2, <2>1, <2>2, <2>3, <2>4
<1>6. CASE OutTurn(c)
  <2>1. /\ out_pc[c] = "turns" /\ Len(turns[v]) > i
        /\ Send(c, Turn(v, turns[v][i + 1].turn))
        /\ UNCHANGED <<game_version, accepted, turns, finished>>
    BY <1>6 DEF OutTurn, sharedVars, containerVars
  <2>2. i <= GameLength /\ MayFollow(c, Turn(v, i)) /\ sent[c] # <<>>
    BY <1>1, <2>1 DEF WriterMaySend
  <2>3. turns[v][i + 1].turn = i
    <3>1. Len(turns[v]) \in Nat
      BY <1>1 DEF TypeOK
    <3>2. i + 1 \in 1 .. Len(turns[v]) /\ (i + 1) - 1 = i
      BY <1>1, <2>1, <3>1
    <3> QED
      BY <1>1, <3>2 DEF MainInv, TurnsInv
  <2>4. Send(c, Turn(v, i))
    BY Zenon, <2>1, <2>3
  <2>5. Turn(v, i) \in Messages
    BY <1>1, <2>2, ProtocolAssumption DEF Messages
  <2>6. Service!Known(Turn(v, i))
    BY <1>1, <2>1 DEF Turn, Service!Known
  <2> QED
    BY <1>2, <2>1, <2>2, <2>4, <2>5, <2>6
<1>7. CASE OutGameEnded(c)
  <2>1. /\ out_pc[c] = "ended" /\ finished[v] /\ Send(c, GameEnded(v))
        /\ UNCHANGED <<game_version, accepted, turns, finished>>
    BY <1>7 DEF OutGameEnded, sharedVars, containerVars
  <2>2. MayFollow(c, GameEnded(v)) /\ sent[c] # <<>>
    BY <1>1, <2>1 DEF WriterMaySend
  <2>3. GameEnded(v) \in Messages
    BY <1>1 DEF Messages
  <2>4. Service!Known(GameEnded(v))
    BY <2>1 DEF GameEnded, Service!Known
  <2> QED
    BY <1>2, <2>1, <2>2, <2>3, <2>4
<1>8. CASE OutSnapshot(c) \/ OutCheckStarted(c) \/ OutSendFails(c)
  BY <1>8 DEF OutSnapshot, OutCheckStarted, OutSendFails
<1> QED
  BY <1>3, <1>4, <1>5, <1>6, <1>7, <1>8 DEF OutThread

\* Every other step of a thread concerns the thread itself, a slot or the phase of
\* the round, none of which the service shows.
LEMMA WhatThreadsDo ==
  ASSUME [Next]_vars
  PROVE  \/ \E c \in Clients : InJoin(c)
         \/ MainInitGame \/ MainAppendTurn \/ MainResetShared \/ MainMarkFinished
         \/ \E c \in Clients : OutThread(c) /\ sent' # sent
         \/ UNCHANGED <<game_version, accepted, turns, finished, sent>>
BY DEF Next, MainThread, MainPlayersJoined, MainStartGame, MainSnapshotMoves,
       InHandle, Accept, InRead, InReadFails, InJoinIgnored, InJoinFails,
       InCheckStarted, InUpdateSlot, OutThread, OutHello, OutSnapshot,
       OutCheckStarted, OutAcceptedPlayer, OutGameStarted, OutTurn, OutGameEnded,
       OutSendFails, sharedVars, containerVars, outVars, vars

\* A step of the server is a step of the service or none.
LEMMA StepRefines ==
  ASSUME GameLength + 1 < TurnMod,
         TypeOK, MainInv, ReaderInv, WriterInv, [Next]_vars
  PROVE  [Service!Next]_(Service!vars)
<1>1. CASE \E c \in Clients : InJoin(c)
  BY <1>1, JoinEnrolls DEF Service!Next
<1>2. CASE MainInitGame \/ MainAppendTurn
  BY <1>2, TurnPublishes DEF Service!Next
<1>3. CASE MainResetShared
  BY <1>3, ResetOpens DEF Service!Next
<1>4. CASE MainMarkFinished
  BY <1>4, MarkAnnounces, SameProtocol DEF Service!Next, TypeOK
<1>5. CASE \E c \in Clients : OutThread(c) /\ sent' # sent
  BY <1>5, SendTells, SameProtocol DEF Service!Next
<1>6. CASE UNCHANGED <<game_version, accepted, turns, finished, sent>>
  BY <1>6 DEF Service!vars
<1> QED
  BY <1>1, <1>2, <1>3, <1>4, <1>5, <1>6, WhatThreadsDo

\* The threads implement the service, for every game whose number of turns is a turn_t.
THEOREM Implementation ==
  ASSUME GameLength + 1 < TurnMod PROVE Spec => ImplementsService
<1>1. Init => Service!Init
  BY InitRefines
<1>2. TypeOK /\ MainInv /\ ReaderInv /\ WriterInv /\ [Next]_vars
        => [Service!Next]_(Service!vars)
  BY StepRefines
<1> QED
  BY <1>1, <1>2, Invariance, WriterInvariance, PTL DEF Spec, ImplementsService, Service!Spec
=============================================================================
