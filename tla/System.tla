------------------------------- MODULE System -------------------------------
(***************************************************************************)
(* The clients (Client) connected to the service that the server provides  *)
(* (GameService), with the server's side of the messages from the clients. *)
(***************************************************************************)
EXTENDS Protocol

CONSTANT MaxPending  \* bound: the unread messages from one client

ASSUME SystemAssumption == MaxPending \in Nat \ {0}

VARIABLES
  open, roster, published, over,               \* GameService
  feed,                                        \* GameService and Client
  toServer, running, state, join_sent,         \* Client
  gui_pc, reader_pc, nread, lobby,
  handling   \* the Join handle_tcp_stream_in has read and the round it took
             \* the containers of; 0 when there is none

serviceVars == <<open, roster, published, over>>
clientVars == <<running, state, join_sent, gui_pc, reader_pc, nread, lobby>>
vars == <<serviceVars, feed, toServer, clientVars, handling>>

S == INSTANCE GameService
C == INSTANCE Client

NoJoin == [round |-> 0, after |-> 0]

\* read_client_message() and the snapshot of the shared state.  Any other message
\* than Join is of no concern to the service.
ServerReads(c) ==
  /\ handling[c] = NoJoin
  /\ toServer[c] # <<>>
  /\ toServer' = [toServer EXCEPT ![c] = Tail(@)]
  /\ handling' = [handling EXCEPT ![c] =
                    IF Head(toServer[c]).msg = "join"
                    THEN [round |-> open, after |-> Head(toServer[c]).after]
                    ELSE NoJoin]
  /\ UNCHANGED <<serviceVars, feed, clientVars>>

ServerEnrolls(c) ==
  /\ handling[c] # NoJoin
  /\ handling[c].round = open
  /\ S!Enroll(c)
  /\ handling' = [handling EXCEPT ![c] = NoJoin]
  /\ UNCHANGED <<toServer, clientVars>>

\* Joined already, or RejectedPlayerException.
ServerIgnoresJoin(c) ==
  /\ handling[c] # NoJoin
  /\ S!RosterFull(handling[c].round) \/ c \in S!Enrolled(handling[c].round)
  /\ handling' = [handling EXCEPT ![c] = NoJoin]
  /\ UNCHANGED <<serviceVars, feed, toServer, clientVars>>

ServerSide(c) == ServerReads(c) \/ ServerEnrolls(c) \/ ServerIgnoresJoin(c)

\* The round is played: turns, the next round's containers, the result.
PlayRound ==
  /\ S!Publish \/ S!OpenNextRound \/ \E v \in Rounds : S!Announce(v)
  /\ UNCHANGED <<toServer, clientVars, handling>>

Told(c) ==
  /\ \E m \in Messages : S!Tell(c, m)
  /\ UNCHANGED <<toServer, clientVars, handling>>

ClientSteps(c) ==
  /\ C!GuiKeyPressed(c) \/ C!GuiHandles(c) \/ C!ReaderThread(c) \/ C!ClientExits(c)
  /\ UNCHANGED <<serviceVars, handling>>

Init == S!Init /\ C!Init /\ handling = [c \in Clients |-> NoJoin]

Next ==
  \/ PlayRound
  \/ \E c \in Clients : ServerSide(c) \/ Told(c) \/ ClientSteps(c)

Spec == Init /\ [][Next]_vars

\* The server's threads and the client's threads are scheduled.  Nobody need
\* press a key.
Fairness ==
  /\ WF_vars(PlayRound)
  /\ \A c \in Clients :
       /\ WF_vars(ServerSide(c)) /\ WF_vars(Told(c))
       /\ WF_vars(C!GuiHandles(c) /\ UNCHANGED <<serviceVars, handling>>)
       /\ WF_vars(C!ReaderThread(c) /\ UNCHANGED <<serviceVars, handling>>)

FairSpec == Spec /\ Fairness

-----------------------------------------------------------------------------
(* Properties                                                              *)

Requests == [msg : {"join", "input"}, after : 0 .. MaxRounds]

\* Every variable has its type, and no client reads more than it was sent.
TypeOK ==
  /\ open \in Rounds
  /\ roster \in [Rounds -> Seq(Clients)]
  /\ published \in [Rounds -> 0 .. GameLength + 1]
  /\ over \in [Rounds -> BOOLEAN]
  /\ feed \in [Clients -> Seq(Messages)]
  /\ toServer \in [Clients -> Seq(Requests)]
  /\ running \in [Clients -> BOOLEAN]
  /\ state \in [Clients -> {"LOBBY", "GAME"}]
  /\ join_sent \in [Clients -> BOOLEAN]
  /\ gui_pc \in [Clients -> {"read", "state", "join_sent", "join", "sent", "input"}]
  /\ reader_pc \in [Clients -> {"hello", "loop", "reset", "thrown"}]
  /\ nread \in [Clients -> Nat]
  /\ \A c \in Clients : nread[c] <= Len(feed[c])
  /\ lobby \in [Clients -> SUBSET (Rounds \X Slots)]
  /\ handling \in [Clients -> [round : Rounds \union {0}, after : 0 .. MaxRounds]]

\* Whenever a client connects (before, during or between games) and however its
\* reading lags behind, it never meets "Forbidden message received while in the
\* lobby!" (client.cpp:74) nor misses its Hello: state follows the stream.
NeverForbidden == \A c \in Clients : reader_pc[c] # "thrown"

\* The lobby a user sees is a prefix of the players of one round, also when the
\* client has been through several rounds and other clients join meanwhile.
LobbyShowsOneRound ==
  \A c \in Clients :
    \A x \in lobby[c] :
      /\ \A y \in lobby[c] : x[1] = y[1]
      /\ \A i \in 0 .. x[2] : <<x[1], i>> \in lobby[c]
      /\ x[2] < Len(roster[x[1]])

\* A Join that a client sends after it has read that a round is over is never
\* handled against that round, where it would be silently lost while the client
\* believes it has asked to join: main() resets the shared state before it
\* releases the writers.
JoinMeetsLaterRound ==
  \A c \in Clients : handling[c] # NoJoin => handling[c].round > handling[c].after

\* A client that shows a game gets back to a lobby, unless it exits.
GameIsLeft ==
  \A c \in Clients, v \in 1 .. MaxRounds - 1 :
    LET Shows == state[c] = "GAME" /\ nread[c] > 0 /\ feed[c][nread[c]].round = v
    IN  Shows ~> (~Shows \/ ~running[c])

\* Whether a Join of client c is on its way or has been granted.
HasAsked(c) ==
  \/ \E k \in 1 .. Len(toServer[c]) : toServer[c][k].msg = "join"
  \/ handling[c] # NoJoin
  \/ c \in S!Enrolled(open)

\* Both threads are done with everything there is to read, in a lobby.
IdleInLobby(c) ==
  /\ running[c] /\ state[c] = "LOBBY" /\ gui_pc[c] = "read"
  /\ reader_pc[c] = "loop" /\ nread[c] = Len(feed[c])

\* "New game is about to be started." (client.cpp:58) and a key press will "Send a
\* request to join the game." (client.cpp:30): a client that has read the end of the
\* last game, has reset its state for the round that is open, and is idle in its
\* lobby, either will send the request or has done so.
LobbyCanBeJoined ==
  \A c \in Clients :
    IdleInLobby(c) /\ C!LastEnded(c) = open - 1 /\ ~S!RosterFull(open)
      => ~join_sent[c] \/ HasAsked(c)
=============================================================================
