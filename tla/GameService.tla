---------------------------- MODULE GameService -----------------------------
(***************************************************************************)
(* What the server promises, without its threads: one round after the      *)
(* other is opened; clients are enrolled in the open round until it is     *)
(* full; then its turns are published one by one, the next round is        *)
(* opened and the result is announced.  Every connection is told about a   *)
(* round in the order of the protocol, and never twice about the same one. *)
(***************************************************************************)
EXTENDS Protocol

VARIABLES
  open,       \* the round that clients can be enrolled in
  roster,     \* the players of every round
  published,  \* how many turns of every round have been published
  over,       \* the rounds whose result has been announced
  feed        \* what every connection has been told

vars == <<open, roster, published, over, feed>>

RosterFull(v) == Len(roster[v]) = PlayersCount
Enrolled(v) == {roster[v][i] : i \in 1 .. Len(roster[v])}

Init ==
  /\ open = 1
  /\ roster = [v \in Rounds |-> <<>>]
  /\ published = [v \in Rounds |-> 0]
  /\ over = [v \in Rounds |-> FALSE]
  /\ feed = [c \in Clients |-> <<>>]

\* A client is enrolled in the open round only, once, and while there is room.
Enroll(c) ==
  /\ ~RosterFull(open)
  /\ c \notin Enrolled(open)
  /\ roster' = [roster EXCEPT ![open] = Append(@, c)]
  /\ UNCHANGED <<open, published, over, feed>>

Publish_OneMore ==
  /\ RosterFull(open)
  /\ published[open] <= GameLength + 1
  /\ published' = [published EXCEPT ![open] = @ + 1]
  /\ UNCHANGED <<open, roster, over, feed>>

\* Turn 0 is the initial state of the game.
Publish ==
  /\ RosterFull(open)
  /\ published[open] <= GameLength
  /\ published' = [published EXCEPT ![open] = @ + 1]
  /\ UNCHANGED <<open, roster, over, feed>>

OpenNextRound ==
  /\ published[open] = GameLength + 1
  /\ open < MaxRounds
  /\ open' = open + 1
  /\ UNCHANGED <<roster, published, over, feed>>

Announce_BeforeReset(v) ==
  /\ published[v] = GameLength + 1
  /\ ~over[v]
  /\ over' = [over EXCEPT ![v] = TRUE]
  /\ UNCHANGED <<open, roster, published, feed>>

\* The result is announced after the next round is open, and in order.
Announce(v) ==
  /\ v < open
  /\ ~over[v]
  /\ \A u \in 1 .. v - 1 : over[u]
  /\ over' = [over EXCEPT ![v] = TRUE]
  /\ UNCHANGED <<open, roster, published, feed>>

\* A connection is only told what has happened.
Known(m) ==
  CASE m.type = "Hello" -> TRUE
    [] m.type = "AcceptedPlayer" -> Len(roster[m.round]) > m.n
    [] m.type = "GameStarted" -> RosterFull(m.round)
    [] m.type = "Turn" -> published[m.round] > m.n
    [] m.type = "GameEnded" -> over[m.round]

Tell(c, m) ==
  /\ Known(m)
  /\ IF feed[c] = <<>> THEN m = Hello ELSE Follows(feed[c][Len(feed[c])], m)
  /\ feed' = [feed EXCEPT ![c] = Append(@, m)]
  /\ UNCHANGED <<open, roster, published, over>>

Next ==
  \/ \E c \in Clients : Enroll(c)
  \/ Publish
  \/ OpenNextRound
  \/ \E v \in Rounds : Announce(v)
  \/ \E c \in Clients, m \in Messages : Tell(c, m)

Spec == Init /\ [][Next]_vars
=============================================================================
