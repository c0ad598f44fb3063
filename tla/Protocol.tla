------------------------------ MODULE Protocol ------------------------------
(***************************************************************************)
(* The messages the server writes to a client (network/messages.h) and the *)
(* order in which handle_tcp_stream_out writes them.                       *)
(*                                                                         *)
(* A message carries what the properties tell apart: its kind, the round   *)
(* its contents were read from (the containers of that round; it is not on *)
(* the wire) and the player's id or the turn's number.  Names, addresses,  *)
(* events and scores are left out.                                         *)
(***************************************************************************)
EXTENDS Integers, Sequences

CONSTANTS
  Clients,       \* the connections that may be made (a reconnect is another one)
  PlayersCount,  \* settings.players_count
  GameLength,    \* settings.game_length, in turns
  MaxRounds      \* bound: the number of rounds that are played

ASSUME ProtocolAssumption ==
  /\ PlayersCount \in Nat
  /\ GameLength \in Nat
  /\ MaxRounds \in Nat \ {0}

\* A round is named by the game_version its containers were created under.
Rounds == 1 .. MaxRounds

\* Player ids, which are also the slots of a MoveContainer.
Slots == 0 .. PlayersCount - 1

Hello == [type |-> "Hello", round |-> 0, n |-> 0]
AcceptedPlayer(v, i) == [type |-> "AcceptedPlayer", round |-> v, n |-> i]
GameStarted(v) == [type |-> "GameStarted", round |-> v, n |-> 0]
Turn(v, k) == [type |-> "Turn", round |-> v, n |-> k]
GameEnded(v) == [type |-> "GameEnded", round |-> v, n |-> 0]

Messages ==
  {Hello}
    \union {AcceptedPlayer(v, i) : v \in Rounds, i \in Slots}
    \union {GameStarted(v) : v \in Rounds}
    \union {Turn(v, k) : v \in Rounds, k \in 0 .. GameLength}
    \union {GameEnded(v) : v \in Rounds}

-----------------------------------------------------------------------------
\* A message that can be the first one about a round: the list of players from
\* its beginning, or no list when the game is already under way.
OpensRound(m) ==
  \/ m.type = "AcceptedPlayer" /\ m.n = 0
  \/ m.type = "GameStarted"

\* Which message may directly follow m: either all players in the order of their
\* ids or none of them, the start, every turn once and in order, the end, and
\* then a later round.
Follows(m, next) ==
  \/ /\ m.type = "Hello"
     /\ OpensRound(next)
  \/ /\ m.type = "AcceptedPlayer"
     /\ next = IF m.n + 1 < PlayersCount THEN AcceptedPlayer(m.round, m.n + 1)
               ELSE GameStarted(m.round)
  \/ /\ m.type = "GameStarted"
     /\ next = Turn(m.round, 0)
  \/ /\ m.type = "Turn"
     /\ next = IF m.n < GameLength THEN Turn(m.round, m.n + 1)
               ELSE GameEnded(m.round)
  \/ /\ m.type = "GameEnded"
     /\ OpensRound(next)
     /\ next.round > m.round

\* A prefix of what a client may be sent over one connection.
WellOrdered(s) ==
  /\ s # <<>> => s[1] = Hello
  /\ \A k \in 1 .. Len(s) - 1 : Follows(s[k], s[k + 1])
=============================================================================
