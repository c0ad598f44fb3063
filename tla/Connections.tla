---------------------------- MODULE Connections -----------------------------
(***************************************************************************)
(* The connections of the server as resources (server.cpp,                 *)
(* connection_acceptor.cpp, TCPHandler's destructor): the acceptor thread  *)
(* with its failures, the descriptors, and the two threads of a connection *)
(* that share a TCPHandler, of which the last to leave closes the socket.  *)
(*                                                                         *)
(* What the threads do with the rounds is in Server.  Here a writer either *)
(* has something to send or waits for news.                                *)
(***************************************************************************)
EXTENDS Integers, Sequences, FiniteSets

CONSTANTS
  Conns,
  Backlog,     \* TCP_BACKLOG_SIZE
  MaxFds       \* the descriptors that the process may have for connections

ASSUME ConnectionsAssumption == Backlog \in Nat \ {0} /\ MaxFds \in Nat \ {0}

VARIABLES
  process,     \* "serving" from the start of the acceptor thread on
  acceptor,    \* where accept_new_connections is, and
  current,     \*   the connection it works on, in a set
  queue,       \* the connections that wait to be accepted
  peer,        \* "none", "connected", "gone", or "reset": it has answered a send
  socket,      \* "none", "open" or "closed"
  holders,     \* the threads that hold the shared_ptr to the TCPHandler
  owed,        \* the connections whose writer has something to send
  quiet        \* no player joins and no turn is played any more

acceptorVars == <<acceptor, current, queue>>
threadVars == <<socket, holders, owed>>
connVars == <<process, acceptorVars, peer, threadVars, quiet>>

ConnInit ==
  /\ acceptor = "binding" /\ current = {} /\ queue = <<>>
  /\ peer = [c \in Conns |-> "none"]
  /\ socket = [c \in Conns |-> "none"]
  /\ holders = [c \in Conns |-> {}]
  /\ owed = {} /\ quiet = FALSE

Up == process = "serving"
Open == {c \in Conns : socket[c] = "open"}

\* An exception that no one catches.
Terminate ==
  /\ process' = "terminated"
  /\ UNCHANGED <<acceptorVars, peer, threadVars, quiet>>

-----------------------------------------------------------------------------
(* accept_new_connections                                                  *)

\* The constructor of ConnectionAcceptor is outside the try.
Listen ==
  /\ Up /\ acceptor = "binding"
  /\ \/ /\ acceptor' = "accept"
        /\ UNCHANGED <<process, current, queue, peer, threadVars, quiet>>
     \/ Terminate

AcceptSucceeds ==
  /\ Up /\ acceptor = "accept" /\ queue # <<>> /\ Cardinality(Open) < MaxFds
  /\ acceptor' = "accepted" /\ current' = {Head(queue)} /\ queue' = Tail(queue)
  /\ socket' = [socket EXCEPT ![Head(queue)] = "open"]
  /\ UNCHANGED <<process, peer, holders, owed, quiet>>

AcceptFails_Stops ==
  /\ Up /\ acceptor = "accept" /\ queue # <<>> /\ Cardinality(Open) = MaxFds
  /\ acceptor' = "stopped"
  /\ UNCHANGED <<process, current, queue, peer, threadVars, quiet>>

\* accept fails and TCPAcceptError is caught: the peer has gone before, or there is no
\* descriptor left and the next accept fails like this one.
AcceptFails ==
  /\ Up /\ acceptor = "accept" /\ queue # <<>>
  /\ \/ peer[Head(queue)] = "gone" /\ queue' = Tail(queue)
     \/ Cardinality(Open) = MaxFds /\ UNCHANGED queue
  /\ UNCHANGED <<process, acceptor, current, peer, threadVars, quiet>>

\* setsockopt may fail, and so may the allocation of the buffers.
CreateManager(c) ==
  /\ Up /\ acceptor = "accepted" /\ c \in current
  /\ \/ /\ acceptor' = "thread_in"
        /\ holders' = [holders EXCEPT ![c] = {"acceptor"}]
        /\ UNCHANGED <<process, current, queue, peer, socket, owed, quiet>>
     \/ Terminate

\* The system may have no thread left.
StartIn(c) ==
  /\ Up /\ acceptor = "thread_in" /\ c \in current
  /\ \/ /\ acceptor' = "thread_out"
        /\ holders' = [holders EXCEPT ![c] = @ \union {"in"}]
        /\ UNCHANGED <<process, current, queue, peer, socket, owed, quiet>>
     \/ Terminate

\* Hello needs no news.
StartOut(c) ==
  /\ Up /\ acceptor = "thread_out" /\ c \in current
  /\ \/ /\ acceptor' = "detached"
        /\ holders' = [holders EXCEPT ![c] = @ \union {"out"}]
        /\ owed' = owed \union {c}
        /\ UNCHANGED <<process, current, queue, peer, socket, quiet>>
     \/ Terminate

Release_First(c, thread) ==
  /\ holders' = [holders EXCEPT ![c] = @ \ {thread}]
  /\ socket' = [socket EXCEPT ![c] = "closed"]

\* A shared_ptr goes out of scope; ~TCPHandler closes the socket after the last one.
Release(c, thread) ==
  /\ holders' = [holders EXCEPT ![c] = @ \ {thread}]
  /\ socket' = [socket EXCEPT ![c] = IF holders[c] = {thread} THEN "closed" ELSE @]

LeaveScope_Keeps(c) ==
  /\ Up /\ acceptor = "detached" /\ c \in current
  /\ acceptor' = "accept" /\ current' = {}
  /\ UNCHANGED <<process, queue, peer, threadVars, quiet>>

LeaveScope(c) ==
  /\ Up /\ acceptor = "detached" /\ c \in current
  /\ Release(c, "acceptor")
  /\ acceptor' = "accept" /\ current' = {}
  /\ UNCHANGED <<process, queue, peer, owed, quiet>>

AcceptorThread ==
  \/ Listen \/ AcceptSucceeds \/ AcceptFails
  \/ \E c \in Conns : CreateManager(c) \/ StartIn(c) \/ StartOut(c) \/ LeaveScope(c)

-----------------------------------------------------------------------------
(* The two threads of a connection                                         *)

\* recv fails or returns 0.
ReaderEnds(c) ==
  /\ Up /\ "in" \in holders[c] /\ peer[c] # "connected"
  /\ Release(c, "in")
  /\ UNCHANGED <<process, acceptorVars, peer, owed, quiet>>

\* A message that the server does not know.
ReaderThrows(c) ==
  /\ Up /\ "in" \in holders[c] /\ peer[c] = "connected"
  /\ Release(c, "in")
  /\ UNCHANGED <<process, acceptorVars, peer, owed, quiet>>

\* The first send after the peer has gone may succeed; the answer to it is a reset.
WriterSends(c) ==
  /\ Up /\ "out" \in holders[c] /\ c \in owed /\ peer[c] # "reset"
  /\ owed' = owed \ {c}
  /\ peer' = [peer EXCEPT ![c] = IF @ = "gone" THEN "reset" ELSE @]
  /\ UNCHANGED <<process, acceptorVars, socket, holders, quiet>>

WriterEnds_Never(c) ==
  /\ Up /\ "out" \in holders[c] /\ c \in owed /\ peer[c] # "connected"
  /\ owed' = owed \ {c}
  /\ UNCHANGED <<process, acceptorVars, peer, socket, holders, quiet>>

WriterEnds(c) ==
  /\ Up /\ "out" \in holders[c] /\ c \in owed /\ peer[c] # "connected"
  /\ Release(c, "out")
  /\ owed' = owed \ {c}
  /\ UNCHANGED <<process, acceptorVars, peer, quiet>>

-----------------------------------------------------------------------------
(* The environment                                                         *)

PeerConnects(c) ==
  /\ Up /\ acceptor # "binding" /\ peer[c] = "none" /\ Len(queue) < Backlog
  /\ peer' = [peer EXCEPT ![c] = "connected"]
  /\ queue' = Append(queue, c)
  /\ UNCHANGED <<process, acceptor, current, threadVars, quiet>>

PeerLeaves(c) ==
  /\ Up /\ peer[c] = "connected"
  /\ peer' = [peer EXCEPT ![c] = "gone"]
  /\ UNCHANGED <<process, acceptorVars, threadVars, quiet>>

\* A player joins, a turn is played, a game ends: every writer has something to send.
News ==
  /\ Up /\ ~quiet
  /\ owed' = {c \in Conns : "out" \in holders[c]}
  /\ UNCHANGED <<process, acceptorVars, peer, socket, holders, quiet>>

NoMoreNews ==
  /\ Up /\ ~quiet
  /\ quiet' = TRUE
  /\ UNCHANGED <<process, acceptorVars, peer, threadVars>>

ServerNext ==
  \/ AcceptorThread \/ News \/ NoMoreNews
  \/ \E c \in Conns : \/ ReaderEnds(c) \/ ReaderThrows(c)
                      \/ WriterSends(c) \/ WriterEnds(c)
                      \/ PeerConnects(c) \/ PeerLeaves(c)
=============================================================================
