------------------------------- MODULE Server -------------------------------
(***************************************************************************)
(* The threads of the game server (server.cpp) and the containers they     *)
(* share (concurrency/).                                                   *)
(*                                                                         *)
(* The main thread plays one round after the other; for every connection   *)
(* one thread reads the client's messages (handle_tcp_stream_in) and one   *)
(* writes to the client (handle_tcp_stream_out).  Every round has its own  *)
(* AcceptedPlayerContainer, MoveContainer and TurnContainer;               *)
(* reset_shared replaces all three at once and counts game_version up, so  *)
(* a round's containers are named here by the game_version they were       *)
(* created under, and a shared_ptr held by a thread is that number.  They  *)
(* are never freed while a thread holds them, so an old round stays        *)
(* readable.                                                               *)
(*                                                                         *)
(* A method that runs under a container's mutex, and a block that runs     *)
(* under shared.mutex, is one action; a wait on a condition variable is    *)
(* the guard of its action.  Between two such actions a thread may be      *)
(* preempted for as long as the scheduler likes.                           *)
(***************************************************************************)
EXTENDS Protocol

CONSTANTS
  TurnMod,       \* 2^16, the number of values of types::turn_t
  NoMove         \* a slot of a MoveContainer that is not marked as updated

ASSUME ServerAssumption ==
  /\ TurnMod \in Nat
  /\ GameLength < TurnMod
  /\ NoMove \notin [by : Clients, at : Nat]

VARIABLES
  \* struct shared_state
  game_started,
  game_version,
  \* the containers, per round
  accepted,      \* AcceptedPlayerContainer: the player at index i+1 has id i
  slots,         \* MoveContainer::slots: the move, or NoMove if not updated
  turns,         \* TurnContainer::turns
  finished,      \* TurnContainer::finished (score_map is set with it)
  \* the main thread
  main_pc,
  main_round,    \* the round whose containers it holds
  main_moves,    \* the snapshot apply_moves works on
  main_turn,     \* GameServer::turn, which is also the number of turns played
  snapshots,     \* history: how often the slots of each round have been taken
  \* handle_tcp_stream_in, per connection
  in_pc,
  in_round,      \* accepted_players, move_container and last_game_version, which
                 \* are set together; 0 before the first message
  joined_the_game,
  player_id,
  \* handle_tcp_stream_out, per connection
  out_pc,
  out_round,     \* accepted_players and turn_container
  out_i,         \* the index of the loop the thread is in
  sent           \* history: everything written to the socket

sharedVars == <<game_started, game_version>>
containerVars == <<accepted, slots, turns, finished>>
mainVars == <<main_pc, main_round, main_moves, main_turn, snapshots>>
inVars == <<in_pc, in_round, joined_the_game, player_id>>
outVars == <<out_pc, out_round, out_i, sent>>
vars == <<sharedVars, containerVars, mainVars, inVars, outVars>>

Full_OneMore(v) == Len(accepted[v]) > PlayersCount

\* target_players_count == accepted_players.size()
Full(v) == Len(accepted[v]) = PlayersCount

NoMoves == [p \in Slots |-> NoMove]

-----------------------------------------------------------------------------
(* The containers' methods.                                                *)

AddNewPlayer_Unchecked(v, c) ==
  accepted' = [accepted EXCEPT ![v] = Append(@, c)]

\* AcceptedPlayerContainer::add_new_player when it does not throw.
AddNewPlayer(v, c) ==
  /\ ~Full(v)
  /\ accepted' = [accepted EXCEPT ![v] = Append(@, c)]

NewPlayerId_AfterInsert(v) == Len(accepted[v]) + 1

\* The id add_new_player returns.
NewPlayerId(v) == Len(accepted[v])

\* MoveContainer::update_slot.  The stored ClientMessage stands for who sent
\* it and for how many snapshots had been taken when it was stored.
UpdateSlot(v, p, c) ==
  slots' = [slots EXCEPT ![v][p] = [by |-> c, at |-> snapshots[v]]]

\* MoveContainer::atomic_snapshot_and_clear returns slots[v] and marks every slot
\* as not updated.
ClearSlots_Forgotten(v) == UNCHANGED slots

ClearSlots(v) ==
  slots' = [slots EXCEPT ![v] = NoMoves]

\* TurnContainer::append_new_turn
AppendNewTurn(v, k, moves) ==
  turns' = [turns EXCEPT ![v] = Append(@, [turn |-> k, moves |-> moves])]

-----------------------------------------------------------------------------
(* main(): from the first reset_shared on.                                 *)

\* Takes the current containers, which only this thread replaces, and waits in
\* return_when_target_players_joined.
MainPlayersJoined ==
  /\ main_pc = "await"
  /\ Full(game_version)
  /\ main_round' = game_version
  /\ main_pc' = "start"
  /\ UNCHANGED <<sharedVars, containerVars, main_moves, main_turn, snapshots,
                 inVars, outVars>>

MainStartGame ==
  /\ main_pc = "start"
  /\ game_started' = TRUE
  /\ main_pc' = "init"
  /\ UNCHANGED <<game_version, containerVars, main_round, main_moves,
                 main_turn, snapshots, inVars, outVars>>

AfterTurn_NoReset(k) == IF k < GameLength THEN "snapshot" ELSE "mark"
AfterTurn_OneShort(k) == IF k + 1 < GameLength THEN "snapshot" ELSE "reset"

\* The loop over game_length turns, then reset_shared.
AfterTurn(k) == IF k < GameLength THEN "snapshot" ELSE "reset"

\* GameServer game(settings), game_init() and the publication of turn 0
MainInitGame ==
  /\ main_pc = "init"
  /\ AppendNewTurn(main_round, 0, NoMoves)
  /\ main_turn' = 0
  /\ main_pc' = AfterTurn(0)
  /\ UNCHANGED <<sharedVars, accepted, slots, finished, main_round, main_moves,
                 snapshots, inVars, outVars>>

\* apply_moves up to atomic_snapshot_and_clear
MainSnapshotMoves ==
  /\ main_pc = "snapshot"
  /\ main_moves' = slots[main_round]
  /\ ClearSlots(main_round)
  /\ snapshots' = [snapshots EXCEPT ![main_round] = @ + 1]
  /\ main_pc' = "append"
  /\ UNCHANGED <<sharedVars, accepted, turns, finished, main_round, main_turn,
                 inVars, outVars>>

MainAppendTurn_ClearsLate ==
  /\ main_pc = "append"
  /\ main_turn' = main_turn + 1
  /\ AppendNewTurn(main_round, main_turn', main_moves)
  /\ ClearSlots(main_round)
  /\ main_moves' = NoMoves
  /\ main_pc' = AfterTurn(main_turn')
  /\ UNCHANGED <<sharedVars, accepted, finished, main_round, snapshots, inVars,
                 outVars>>

\* the rest of apply_moves and append_new_turn
MainAppendTurn ==
  /\ main_pc = "append"
  /\ main_turn' = main_turn + 1
  /\ AppendNewTurn(main_round, main_turn', main_moves)
  /\ main_moves' = NoMoves
  /\ main_pc' = AfterTurn(main_turn')
  /\ UNCHANGED <<sharedVars, accepted, slots, finished, main_round, snapshots,
                 inVars, outVars>>

\* reset_shared(): the new round's containers are in their initial state.
MainResetShared ==
  /\ main_pc = "reset"
  /\ game_version < MaxRounds          \* bound
  /\ game_started' = FALSE
  /\ game_version' = game_version + 1
  /\ main_pc' = "mark"
  /\ UNCHANGED <<containerVars, main_round, main_moves, main_turn, snapshots,
                 inVars, outVars>>

\* turn_container->mark_the_game_as_finished(score_map)
MainMarkFinished ==
  /\ main_pc = "mark"
  /\ finished' = [finished EXCEPT ![main_round] = TRUE]
  /\ main_pc' = "await"
  /\ UNCHANGED <<sharedVars, accepted, slots, turns, main_round, main_moves,
                 main_turn, snapshots, inVars, outVars>>

MainThread ==
  \/ MainPlayersJoined \/ MainStartGame \/ MainInitGame
  \/ MainSnapshotMoves \/ MainAppendTurn
  \/ MainResetShared \/ MainMarkFinished

-----------------------------------------------------------------------------
(* accept_new_connections.  A peer that goes away, at whatever time, shows  *)
(* only as a read or a send that throws.                                   *)

\* accept_another_connection() succeeds: two threads are started and detached.
Accept(c) ==
  /\ in_pc[c] = "none" /\ out_pc[c] = "none"
  /\ in_pc' = [in_pc EXCEPT ![c] = "read"]
  /\ out_pc' = [out_pc EXCEPT ![c] = "hello"]
  /\ UNCHANGED <<sharedVars, containerVars, mainVars, in_round, joined_the_game,
                 player_id, out_round, out_i, sent>>

-----------------------------------------------------------------------------
(* handle_tcp_stream_in                                                    *)

StillJoined_AnyVersion(c) == joined_the_game[c]
StillJoined_Never(c) == FALSE

\* What joined_the_game becomes when a message is handled.
StillJoined(c) == joined_the_game[c] /\ in_round[c] = game_version

\* read_client_message() returns msg, where "input" stands for PlaceBomb,
\* PlaceBlock and Move; then the containers and the version are read under one
\* lock, and a participation in an earlier round is forgotten.
InRead(c, msg) ==
  /\ in_pc[c] = "read"
  /\ in_pc' = [in_pc EXCEPT ![c] = msg]
  /\ in_round' = [in_round EXCEPT ![c] = game_version]
  /\ joined_the_game' = [joined_the_game EXCEPT ![c] = StillJoined(c)]
  /\ UNCHANGED <<sharedVars, containerVars, mainVars, player_id, outVars>>

\* The read throws: the peer has disconnected or sent an unknown message id.
\* The thread ends; the connection's other thread is not told.
InReadFails(c) ==
  /\ in_pc[c] = "read"
  /\ in_pc' = [in_pc EXCEPT ![c] = "dead"]
  /\ UNCHANGED <<sharedVars, containerVars, mainVars, in_round, joined_the_game,
                 player_id, outVars>>

\* A Join of a client that has not joined this round and is not rejected.
InJoin(c) ==
  /\ in_pc[c] = "join"
  /\ ~joined_the_game[c]
  /\ AddNewPlayer(in_round[c], c)
  /\ player_id' = [player_id EXCEPT ![c] = NewPlayerId(in_round[c])]
  /\ joined_the_game' = [joined_the_game EXCEPT ![c] = TRUE]
  /\ in_pc' = [in_pc EXCEPT ![c] = "read"]
  /\ UNCHANGED <<sharedVars, slots, turns, finished, mainVars, in_round, outVars>>

\* A Join that changes nothing: joined already, or RejectedPlayerException.
InJoinIgnored(c) ==
  /\ in_pc[c] = "join"
  /\ joined_the_game[c] \/ Full(in_round[c])
  /\ in_pc' = [in_pc EXCEPT ![c] = "read"]
  /\ UNCHANGED <<sharedVars, containerVars, mainVars, in_round, joined_the_game,
                 player_id, outVars>>

\* get_client_name() throws when the peer has reset the connection.
InJoinFails(c) ==
  /\ in_pc[c] = "join"
  /\ ~joined_the_game[c]
  /\ in_pc' = [in_pc EXCEPT ![c] = "dead"]
  /\ UNCHANGED <<sharedVars, containerVars, mainVars, in_round, joined_the_game,
                 player_id, outVars>>

\* joined_the_game && is_game_started(), the latter under shared.mutex
InCheckStarted(c) ==
  /\ in_pc[c] = "input"
  /\ in_pc' = [in_pc EXCEPT ![c] =
                 IF joined_the_game[c] /\ game_started THEN "update" ELSE "read"]
  /\ UNCHANGED <<sharedVars, containerVars, mainVars, in_round, joined_the_game,
                 player_id, outVars>>

InUpdateSlot(c) ==
  /\ in_pc[c] = "update"
  /\ UpdateSlot(in_round[c], player_id[c], c)
  /\ in_pc' = [in_pc EXCEPT ![c] = "read"]
  /\ UNCHANGED <<sharedVars, accepted, turns, finished, mainVars, in_round,
                 joined_the_game, player_id, outVars>>

InHandle(c) ==
  \/ InJoin(c) \/ InJoinIgnored(c) \/ InJoinFails(c)
  \/ InCheckStarted(c) \/ InUpdateSlot(c)

-----------------------------------------------------------------------------
(* handle_tcp_stream_out.  A send blocks while the peer does not read; that *)
(* is the thread not being scheduled.                                       *)

Send(c, m) == sent' = [sent EXCEPT ![c] = Append(@, m)]

OutHello(c) ==
  /\ out_pc[c] = "hello"
  /\ Send(c, Hello)
  /\ out_pc' = [out_pc EXCEPT ![c] = "snapshot"]
  /\ UNCHANGED <<sharedVars, containerVars, mainVars, inVars, out_round,
                 out_i>>

OutSnapshot(c) ==
  /\ out_pc[c] = "snapshot"
  /\ out_round' = [out_round EXCEPT ![c] = game_version]
  /\ out_pc' = [out_pc EXCEPT ![c] = "check"]
  /\ UNCHANGED <<sharedVars, containerVars, mainVars, inVars, out_i, sent>>

\* !is_game_started(), read after shared.mutex was released and taken again
OutCheckStarted(c) ==
  /\ out_pc[c] = "check"
  /\ out_i' = [out_i EXCEPT ![c] = 0]
  /\ out_pc' = [out_pc EXCEPT ![c] =
                  IF ~game_started /\ PlayersCount > 0 THEN "accepted"
                  ELSE "started"]
  /\ UNCHANGED <<sharedVars, containerVars, mainVars, inVars, out_round,
                 sent>>

\* get_accepted_player(i) and its send
OutAcceptedPlayer(c) ==
  /\ out_pc[c] = "accepted"
  /\ Len(accepted[out_round[c]]) > out_i[c]
  /\ Send(c, AcceptedPlayer(out_round[c], out_i[c]))
  /\ out_i' = [out_i EXCEPT ![c] = @ + 1]
  /\ out_pc' = [out_pc EXCEPT ![c] =
                  IF out_i[c] + 1 < PlayersCount THEN "accepted" ELSE "started"]
  /\ UNCHANGED <<sharedVars, containerVars, mainVars, inVars, out_round>>

\* return_when_target_players_joined() and its send
OutGameStarted(c) ==
  /\ out_pc[c] = "started"
  /\ Full(out_round[c])
  /\ Send(c, GameStarted(out_round[c]))
  /\ out_i' = [out_i EXCEPT ![c] = 0]
  /\ out_pc' = [out_pc EXCEPT ![c] = "turns"]
  /\ UNCHANGED <<sharedVars, containerVars, mainVars, inVars, out_round>>

TurnsToSend_OneMore == GameLength + 2

\* The bound of the loop over the turns is an int, the index a types::turn_t.
TurnsToSend == GameLength + 1

NextTurnIndex(i) == (i + 1) % TurnMod

\* get_turn(i) and its send
OutTurn(c) ==
  /\ out_pc[c] = "turns"
  /\ Len(turns[out_round[c]]) > out_i[c]
  /\ Send(c, Turn(out_round[c], turns[out_round[c]][out_i[c] + 1].turn))
  /\ out_i' = [out_i EXCEPT ![c] = NextTurnIndex(@)]
  /\ out_pc' = [out_pc EXCEPT ![c] =
                  IF NextTurnIndex(out_i[c]) < TurnsToSend THEN "turns"
                  ELSE "ended"]
  /\ UNCHANGED <<sharedVars, containerVars, mainVars, inVars, out_round>>

\* return_when_game_finished() and the send of the scores
OutGameEnded(c) ==
  /\ out_pc[c] = "ended"
  /\ finished[out_round[c]]
  /\ Send(c, GameEnded(out_round[c]))
  /\ out_pc' = [out_pc EXCEPT ![c] = "snapshot"]
  /\ UNCHANGED <<sharedVars, containerVars, mainVars, inVars, out_round,
                 out_i>>

\* Whether what the thread is about to send is there to be sent.
ReadyToSend(c) ==
  \/ out_pc[c] = "hello"
  \/ out_pc[c] = "accepted" /\ Len(accepted[out_round[c]]) > out_i[c]
  \/ out_pc[c] = "started" /\ Full(out_round[c])
  \/ out_pc[c] = "turns" /\ Len(turns[out_round[c]]) > out_i[c]
  \/ out_pc[c] = "ended" /\ finished[out_round[c]]

\* A send to a peer that is gone throws; a wait does not notice it.
OutSendFails(c) ==
  /\ ReadyToSend(c)
  /\ out_pc' = [out_pc EXCEPT ![c] = "dead"]
  /\ UNCHANGED <<sharedVars, containerVars, mainVars, inVars, out_round,
                 out_i, sent>>

OutThread(c) ==
  \/ OutHello(c) \/ OutSnapshot(c) \/ OutCheckStarted(c)
  \/ OutAcceptedPlayer(c) \/ OutGameStarted(c) \/ OutTurn(c)
  \/ OutGameEnded(c) \/ OutSendFails(c)

-----------------------------------------------------------------------------
\* The state after main() has called reset_shared for the first time.
Init ==
  /\ game_started = FALSE
  /\ game_version = 1
  /\ accepted = [v \in Rounds |-> <<>>]
  /\ slots = [v \in Rounds |-> NoMoves]
  /\ turns = [v \in Rounds |-> <<>>]
  /\ finished = [v \in Rounds |-> FALSE]
  /\ main_pc = "await"
  /\ main_round = 1
  /\ main_moves = NoMoves
  /\ main_turn = 0
  /\ snapshots = [v \in Rounds |-> 0]
  /\ in_pc = [c \in Clients |-> "none"]
  /\ in_round = [c \in Clients |-> 0]
  /\ joined_the_game = [c \in Clients |-> FALSE]
  /\ player_id = [c \in Clients |-> 0]
  /\ out_pc = [c \in Clients |-> "none"]
  /\ out_round = [c \in Clients |-> 1]
  /\ out_i = [c \in Clients |-> 0]
  /\ sent = [c \in Clients |-> <<>>]

Next ==
  \/ MainThread
  \/ \E c \in Clients :
       \/ Accept(c)
       \/ \E msg \in {"join", "input"} : InRead(c, msg)
       \/ InReadFails(c) \/ InHandle(c) \/ OutThread(c)

Spec == Init /\ [][Next]_vars

\* Every thread that can take a step is eventually scheduled, and every critical
\* section is short.  Nobody need connect, send anything or disconnect.
Fairness ==
  /\ WF_vars(MainThread)
  /\ \A c \in Clients : WF_vars(InHandle(c)) /\ WF_vars(OutThread(c))

FairSpec == Spec /\ Fairness

-----------------------------------------------------------------------------
(* Properties                                                              *)

Moves == [by : Clients, at : 0 .. GameLength] \union {NoMove}

Turns == [turn : 0 .. GameLength, moves : [Slots -> Moves]]

\* Every variable has its type.  A player's id is below players_count as soon as
\* there is one, and a loop index fits the type of its loop variable.
TypeOK ==
  /\ game_started \in BOOLEAN
  /\ game_version \in Rounds
  /\ accepted \in [Rounds -> Seq(Clients)]
  /\ slots \in [Rounds -> [Slots -> Moves]]
  /\ turns \in [Rounds -> Seq(Turns)]
  /\ finished \in [Rounds -> BOOLEAN]
  /\ main_pc \in {"await", "start", "init", "snapshot", "append",
                  "reset", "mark"}
  /\ main_round \in Rounds
  /\ main_moves \in [Slots -> Moves]
  /\ main_turn \in 0 .. GameLength
  /\ snapshots \in [Rounds -> 0 .. GameLength]
  /\ in_pc \in [Clients -> {"none", "read", "join", "input", "update", "dead"}]
  /\ in_round \in [Clients -> Rounds \union {0}]
  /\ joined_the_game \in [Clients -> BOOLEAN]
  /\ player_id \in [Clients -> Slots \union {0}]
  /\ out_pc \in [Clients -> {"none", "hello", "snapshot", "check", "accepted",
                             "started", "turns", "ended", "dead"}]
  /\ out_round \in [Clients -> Rounds]
  /\ out_i \in [Clients -> Nat]
  /\ sent \in [Clients -> Seq(Messages)]

\* However the threads interleave, and although is_game_started() is read after
\* the containers, what a client is sent is well ordered: Hello; then for each
\* round all its players or none, GameStarted, turns 0 .. game_length once each,
\* GameEnded; and after a GameEnded only a later round, because reset_shared runs
\* before mark_the_game_as_finished wakes the writers.
ProtocolOrder == \A c \in Clients : WellOrdered(sent[c])

\* A client that sends Join again and again, over several rounds, never holds two
\* ids in one round (joined_the_game survives within a round only).
OneIdPerRound ==
  \A v \in Rounds : \A i, j \in 1 .. Len(accepted[v]) :
    accepted[v][i] = accepted[v][j] => i = j

MoveOf(v, p, m) ==
  m = NoMove \/ (p < Len(accepted[v]) /\ m.by = accepted[v][p + 1])

\* A client only ever moves its own robot: neither a slot nor a turn holds a move
\* of another client, although player_id is kept from round to round and the slot
\* is written after the locks under which round and id were read are released.
MovesFromOwner ==
  \A v \in Rounds : \A p \in Slots :
    /\ MoveOf(v, p, slots[v][p])
    /\ \A k \in 1 .. Len(turns[v]) : MoveOf(v, p, turns[v][k].moves[p])

\* A move takes effect in one turn at most: turn k, worked out from the k-th snapshot,
\* only contains moves stored after the snapshot before and before its own.
FreshMoves ==
  \A v \in Rounds, p \in Slots : \A k \in 1 .. Len(turns[v]) :
    LET m == turns[v][k].moves[p]
    IN  m # NoMove => m.at + 1 = turns[v][k].turn

\* Clearing loses nothing: a stored move stops being marked as updated only in the
\* step that takes it into the snapshot.
NoMoveDropped ==
  [][\A v \in Rounds, p \in Slots :
       slots[v][p] # NoMove /\ slots'[v][p] = NoMove
         => main_moves'[p] = slots[v][p]]_vars

\* The players of a round are fixed once they are complete: no thread that still
\* holds the container of that round adds to it, so everybody is told the same.
RosterFixed ==
  [][\A v \in Rounds :
       Len(accepted[v]) >= PlayersCount => accepted'[v] = accepted[v]]_vars

\* A round with all its players is played to its end, whatever becomes of their
\* connections.  (Round MaxRounds has no successor to be reset to.)
GameFinishes ==
  \A v \in 1 .. MaxRounds - 1 :
    (Len(accepted[v]) = PlayersCount) ~> finished[v]

\* A client that was told that a round has started is told how it ended, unless
\* the connection breaks.
ViewerSeesTheEnd ==
  \A c \in Clients, v \in 1 .. MaxRounds - 1 :
    (\E k \in DOMAIN sent[c] : sent[c][k] = GameStarted(v))
      ~> (out_pc[c] = "dead" \/ \E k \in DOMAIN sent[c] : sent[c][k] = GameEnded(v))

\* "Send message about the end of the game." (server.cpp:151): the message after
\* the last turn is GameEnded.  This needs game_length + 1 to be a turn_t.
EndFollowsLastTurn ==
  \A c \in Clients : \A k \in 1 .. Len(sent[c]) - 1 :
    sent[c][k].type = "Turn" /\ sent[c][k].n = GameLength
      => sent[c][k + 1].type = "GameEnded"

\* The threads implement the service without threads; in particular an enrolment
\* always happens in the round that is open, also when the thread obtained its
\* container long before.
Service == INSTANCE GameService WITH
  open <- game_version, roster <- accepted,
  published <- [v \in Rounds |-> Len(turns[v])],
  over <- finished, feed <- sent

ImplementsService == Service!Spec
=============================================================================
