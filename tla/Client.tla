------------------------------- MODULE Client -------------------------------
(***************************************************************************)
(* The two threads of the client program (client.cpp), for every client:   *)
(* guiClientServerStream turns the user's key presses into messages to the *)
(* server, serverClientGuiStream follows what the server sends and draws   *)
(* it.  They share the atomics state and join_sent, which are read and     *)
(* written one at a time.                                                  *)
(*                                                                         *)
(* feed[c] is everything the server has written to client c, of which the  *)
(* client has read the first nread[c] messages; toServer[c] is what the    *)
(* client has written and the server has not read yet.                     *)
(***************************************************************************)
EXTENDS Protocol, SequencesExt

CONSTANT MaxPending  \* bound: the unread messages from one client

VARIABLES
  feed,
  toServer,
  running,     \* the process has not called exit(EXIT_FAILURE)
  state,       \* std::atomic<State>
  join_sent,   \* std::atomic<bool>
  gui_pc,      \* guiClientServerStream
  reader_pc,   \* serverClientGuiStream
  nread,
  lobby        \* LobbyClient::players, as pairs of the round and the id

threadVars == <<gui_pc, reader_pc, nread, lobby>>
vars == <<feed, toServer, running, state, join_sent, threadVars>>

-----------------------------------------------------------------------------
(* guiClientServerStream                                                   *)

\* read_gui_message() returns a valid input.
GuiKeyPressed(c) ==
  /\ running[c] /\ gui_pc[c] = "read"
  /\ gui_pc' = [gui_pc EXCEPT ![c] = "state"]
  /\ UNCHANGED <<feed, toServer, running, state, join_sent, reader_pc, nread,
                 lobby>>

GuiChecksState(c) ==
  /\ running[c] /\ gui_pc[c] = "state"
  /\ gui_pc' = [gui_pc EXCEPT ![c] =
                  IF state[c] = "LOBBY" THEN "join_sent" ELSE "input"]
  /\ UNCHANGED <<feed, toServer, running, state, join_sent, reader_pc, nread,
                 lobby>>

GuiChecksJoinSent(c) ==
  /\ running[c] /\ gui_pc[c] = "join_sent"
  /\ gui_pc' = [gui_pc EXCEPT ![c] = IF join_sent[c] THEN "input" ELSE "join"]
  /\ UNCHANGED <<feed, toServer, running, state, join_sent, reader_pc, nread,
                 lobby>>

\* The last round whose end the client has read.
LastEnded(c) ==
  Max({0} \union
      {feed[c][k].round : k \in {i \in 1 .. nread[c] : feed[c][i].type = "GameEnded"}})

\* "after" is not on the wire.
SendToServer(c, msg) ==
  /\ Len(toServer[c]) < MaxPending           \* bound
  /\ toServer' = [toServer EXCEPT ![c] =
                    Append(@, [msg |-> msg, after |-> LastEnded(c)])]

GuiSendsJoin(c) ==
  /\ running[c] /\ gui_pc[c] = "join"
  /\ SendToServer(c, "join")
  /\ gui_pc' = [gui_pc EXCEPT ![c] = "sent"]
  /\ UNCHANGED <<feed, running, state, join_sent, reader_pc, nread, lobby>>

GuiSetsJoinSent(c) ==
  /\ running[c] /\ gui_pc[c] = "sent"
  /\ join_sent' = [join_sent EXCEPT ![c] = TRUE]
  /\ gui_pc' = [gui_pc EXCEPT ![c] = "read"]
  /\ UNCHANGED <<feed, toServer, running, state, reader_pc, nread, lobby>>

GuiSendsInput(c) ==
  /\ running[c] /\ gui_pc[c] = "input"
  /\ SendToServer(c, "input")
  /\ gui_pc' = [gui_pc EXCEPT ![c] = "read"]
  /\ UNCHANGED <<feed, running, state, join_sent, reader_pc, nread, lobby>>

\* The thread's steps for a key that was pressed.
GuiHandles(c) ==
  \/ GuiChecksState(c) \/ GuiChecksJoinSent(c)
  \/ GuiSendsJoin(c) \/ GuiSetsJoinSent(c) \/ GuiSendsInput(c)

-----------------------------------------------------------------------------
(* serverClientGuiStream: it alone writes state, so its loop conditions are *)
(* what it has written last.                                               *)

\* read_server_message() returns m.
Receives(c, m) ==
  /\ running[c]
  /\ nread[c] < Len(feed[c])
  /\ m = feed[c][nread[c] + 1]
  /\ nread' = [nread EXCEPT ![c] = @ + 1]

\* The thread throws unless ok holds.
ThrowsUnless(c, ok) ==
  /\ running' = [running EXCEPT ![c] = ok]
  /\ reader_pc' = [reader_pc EXCEPT ![c] = IF ok THEN "loop" ELSE "thrown"]

ReaderHello(c) ==
  /\ reader_pc[c] = "hello"
  /\ \E m \in Messages :
       /\ Receives(c, m)
       /\ ThrowsUnless(c, m.type = "Hello")
  /\ UNCHANGED <<feed, toServer, state, join_sent, gui_pc, lobby>>

StartsGame_WhenLobbyFull(c, m) ==
  m.type = "GameStarted" /\ Cardinality(lobby[c]) = PlayersCount

StartsGame(c, m) == m.type = "GameStarted"

ReaderLobby(c) ==
  /\ reader_pc[c] = "loop" /\ state[c] = "LOBBY"
  /\ \E m \in Messages :
       /\ Receives(c, m)
       /\ ThrowsUnless(c, m.type \in {"GameStarted", "AcceptedPlayer"})
       /\ state' = [state EXCEPT ![c] = IF StartsGame(c, m) THEN "GAME" ELSE @]
       /\ lobby' = [lobby EXCEPT ![c] =
                      IF m.type = "AcceptedPlayer"
                      THEN @ \union {<<m.round, m.n>>} ELSE @]
  /\ UNCHANGED <<feed, toServer, join_sent, gui_pc>>

EndsGame_IfJoined(c, m) == m.type = "GameEnded" /\ join_sent[c]

EndsGame(c, m) == m.type = "GameEnded"

\* A Turn is applied and drawn; other messages than Turn and GameEnded would be
\* skipped.
ReaderGame(c) ==
  /\ reader_pc[c] = "loop" /\ state[c] = "GAME"
  /\ \E m \in Messages :
       /\ Receives(c, m)
       /\ state' = [state EXCEPT ![c] = IF EndsGame(c, m) THEN "LOBBY" ELSE @]
       /\ reader_pc' = [reader_pc EXCEPT ![c] =
                          IF EndsGame(c, m) THEN "reset" ELSE @]
  /\ UNCHANGED <<feed, toServer, running, join_sent, gui_pc, lobby>>

NewLobby_KeepsPlayers(c) == UNCHANGED lobby

\* LobbyClient lobby(hello)
NewLobby(c) == lobby' = [lobby EXCEPT ![c] = {}]

\* join_sent = false, and the outer loop begins again.
ReaderResets(c) ==
  /\ running[c] /\ reader_pc[c] = "reset"
  /\ join_sent' = [join_sent EXCEPT ![c] = FALSE]
  /\ NewLobby(c)
  /\ reader_pc' = [reader_pc EXCEPT ![c] = "loop"]
  /\ UNCHANGED <<feed, toServer, running, state, gui_pc, nread>>

ReaderThread(c) ==
  \/ ReaderHello(c) \/ ReaderLobby(c) \/ ReaderGame(c) \/ ReaderResets(c)

-----------------------------------------------------------------------------
\* A call on one of the sockets throws, in either thread: exit(EXIT_FAILURE).
ClientExits(c) ==
  /\ running[c]
  /\ running' = [running EXCEPT ![c] = FALSE]
  /\ UNCHANGED <<feed, toServer, state, join_sent, threadVars>>

Init ==
  /\ toServer = [c \in Clients |-> <<>>]
  /\ running = [c \in Clients |-> TRUE]
  /\ state = [c \in Clients |-> "LOBBY"]
  /\ join_sent = [c \in Clients |-> FALSE]
  /\ gui_pc = [c \in Clients |-> "read"]
  /\ reader_pc = [c \in Clients |-> "hello"]
  /\ nread = [c \in Clients |-> 0]
  /\ lobby = [c \in Clients |-> {}]

Next ==
  \E c \in Clients :
    \/ GuiKeyPressed(c) \/ GuiHandles(c) \/ ReaderThread(c) \/ ClientExits(c)
=============================================================================
