--------------------------- MODULE StartupProofs ----------------------------
(***************************************************************************)
(* Theorems about Startup: sockets live exactly as long as the threads     *)
(* that use them, and a program starts with the numbers that were written  *)
(* for it and with its arguments counted.                                  *)
(***************************************************************************)
EXTENDS Startup, FiniteSetTheorems, TLAPS

-----------------------------------------------------------------------------
(* Connections                                                             *)

\* The acceptor has taken a connection from the queue and not left it to its threads yet.
Busy == {"accepted", "thread_in", "thread_out", "detached"}

ConnTypes ==
  /\ acceptor \in {"binding", "accept"} \union Busy
  /\ current \in SUBSET Conns
  /\ queue \in Seq(Conns)
  /\ peer \in [Conns -> {"none", "connected", "gone", "reset"}]
  /\ socket \in [Conns -> {"none", "open", "closed"}]
  /\ holders \in [Conns -> SUBSET {"acceptor", "in", "out"}]
  /\ owed \in SUBSET Conns

\* The acceptor works on one connection at a time.
OneCurrent ==
  /\ \A c, d \in current : c = d
  /\ current # {} => acceptor \in Busy

Untouched(c) == socket[c] = "none" /\ holders[c] = {} /\ c \notin current

\* A connection waits in the queue once, and nothing has been done with it.
Waiting ==
  /\ \A k \in 1 .. Len(queue) : Untouched(queue[k]) /\ peer[queue[k]] # "none"
  /\ \A j, k \in 1 .. Len(queue) : queue[j] = queue[k] => j = k
  /\ \A c \in Conns : peer[c] = "none" => Untouched(c)

\* Who holds the handler of a connection, and what that says of the socket.
Held(c) ==
  /\ "acceptor" \in holders[c] <=>
       c \in current /\ acceptor \in {"thread_in", "thread_out", "detached"}
  /\ c \in current /\ acceptor = "accepted" => holders[c] = {} /\ socket[c] = "open"
  /\ holders[c] # {} => socket[c] = "open"
  /\ socket[c] = "open" => holders[c] # {} \/ (c \in current /\ acceptor = "accepted")
  /\ c \in owed => "out" \in holders[c]

Descriptors == IsFiniteSet(Open) /\ Cardinality(Open) \in 0 .. MaxFds

ConnInv == ConnTypes /\ OneCurrent /\ Waiting /\ (\A c \in Conns : Held(c)) /\ Descriptors

LEMMA ConnInitInv == Init => ConnInv
<1> SUFFICES ASSUME Init
             PROVE  ConnInv
  OBVIOUS
<1>0. ConnInit
  BY Zenon DEF Init
<1>1. ConnTypes /\ OneCurrent /\ (\A c \in Conns : Held(c))
  BY <1>0, SMT DEF ConnInit, ConnTypes, OneCurrent, Held, Busy
<1>2. Waiting
  BY <1>0, SMT DEF ConnInit, Waiting, Untouched
<1>3. Open = {}
  BY <1>0, SMT DEF ConnInit, Open
<1>4. Descriptors
  BY <1>3, FS_EmptySet, ConnectionsAssumption, SMT DEF Descriptors
<1> QED BY <1>1, <1>2, <1>4, Zenon DEF ConnInv

LEMMA AcceptSucceedsInv ==
  ASSUME ConnInv, AcceptSucceeds
  PROVE  ConnInv'
<1>1. PICK c : c = Head(queue)
  OBVIOUS
<1>2. /\ acceptor = "accept" /\ acceptor' = "accepted" /\ current' = {c} /\ queue' = Tail(queue)
      /\ socket' = [socket EXCEPT ![c] = "open"] /\ queue # <<>>
      /\ UNCHANGED <<peer, holders, owed>>
  BY <1>1, Zenon DEF AcceptSucceeds
<1>3. ConnTypes
  BY Zenon DEF ConnInv
<1>4. c \in Conns /\ c = queue[1] /\ 1 \in 1 .. Len(queue) /\ queue' \in Seq(Conns)
      /\ Len(queue') = Len(queue) - 1 /\ \A k \in 1 .. Len(queue') : queue'[k] = queue[k + 1]
  BY <1>1, <1>2, <1>3, SMT DEF ConnTypes
<1>5. Untouched(c) /\ peer[c] # "none"
  BY <1>4, Zenon DEF ConnInv, Waiting
<1>6. ConnTypes' /\ OneCurrent'
  BY <1>2, <1>3, <1>4, SMT DEF ConnTypes, OneCurrent, Busy
<1>7. Waiting'
  BY <1>2, <1>3, <1>4, <1>5, SMT DEF ConnInv, Waiting, Untouched, ConnTypes
<1>8. \A d \in Conns : Held(d)'
  BY <1>2, <1>3, <1>4, <1>5, SMT DEF ConnInv, Held, Untouched, ConnTypes
<1>9. Descriptors'
  <2>1. Open' = Open \union {c} /\ c \notin Open
    BY <1>2, <1>3, <1>4, <1>5, SMT DEF Open, Untouched, ConnTypes
  <2>2. Cardinality(Open) < MaxFds
    BY Zenon DEF AcceptSucceeds
  <2>3. Cardinality(Open') = Cardinality(Open) + 1 /\ IsFiniteSet(Open')
    BY <2>1, FS_AddElement, Zenon DEF ConnInv, Descriptors
  <2> QED BY <2>2, <2>3, ConnectionsAssumption, SMT DEF ConnInv, Descriptors
<1> QED BY <1>6, <1>7, <1>8, <1>9, Zenon DEF ConnInv

\* The steps that open or close no socket.
LEMMA KeepsSockets ==
  ASSUME ConnInv, UNCHANGED socket
  PROVE  Descriptors'
<1>1. Open' = Open
  BY Zenon DEF Open
<1> QED BY <1>1, Zenon DEF ConnInv, Descriptors

LEMMA AcceptorInv ==
  ASSUME ConnInv, NEW c,
         Listen \/ AcceptFails \/ CreateManager(c) \/ StartIn(c) \/ StartOut(c)
  PROVE  ConnInv'
<1>1. ConnTypes /\ OneCurrent /\ Waiting /\ \A d \in Conns : Held(d)
  BY Zenon DEF ConnInv
<1>0. c \in current => c \in Conns
  BY <1>1, Zenon DEF ConnTypes
<1>2. UNCHANGED socket
  BY Zenon DEF Listen, AcceptFails, CreateManager, StartIn, StartOut, Terminate, threadVars
<1>3. Descriptors'
  BY <1>2, KeepsSockets, Zenon
<1>4. CASE Terminate
  <2>1. UNCHANGED <<acceptor, current, queue, peer, socket, holders, owed>>
    BY <1>4, Zenon DEF Terminate, acceptorVars, threadVars
  <2>2. ConnTypes' /\ OneCurrent'
    BY <1>1, <2>1, Zenon DEF ConnTypes, OneCurrent
  <2>3. Waiting' /\ \A d \in Conns : Held(d)'
    BY <1>1, <2>1, Zenon DEF Waiting, Untouched, Held
  <2> QED BY <1>3, <2>2, <2>3, Zenon DEF ConnInv
<1>5. CASE Listen /\ ~Terminate
  <2>1. /\ acceptor = "binding" /\ acceptor' = "accept"
        /\ UNCHANGED <<current, queue, peer, socket, holders, owed>>
    BY <1>5, Zenon DEF Listen, threadVars
  <2>2. ConnTypes' /\ OneCurrent'
    BY <1>1, <2>1, SMT DEF ConnTypes, OneCurrent, Busy
  <2>3. Waiting'
    BY <1>1, <2>1, Zenon DEF Waiting, Untouched
  <2>4. current = {}
    BY <1>1, <2>1, SMT DEF OneCurrent, Busy
  <2>5. \A d \in Conns : Held(d)'
    BY <1>1, <2>1, <2>4, SMT DEF Held
  <2> QED BY <1>3, <2>2, <2>3, <2>5, Zenon DEF ConnInv
<1>6. CASE AcceptFails
  <2>1. /\ acceptor = "accept" /\ queue # <<>> /\ queue' \in {queue, Tail(queue)}
        /\ UNCHANGED <<acceptor, current, peer, socket, holders, owed>>
    BY <1>6, Zenon DEF AcceptFails, threadVars
  <2>2. CASE queue' = queue
    <3>1. ConnTypes' /\ OneCurrent'
      BY <1>1, <2>1, <2>2, Zenon DEF ConnTypes, OneCurrent
    <3>2. Waiting'
      BY <1>1, <2>1, <2>2, Zenon DEF Waiting, Untouched
    <3>3. \A d \in Conns : Held(d)'
      BY <1>1, <2>1, Zenon DEF Held
    <3> QED BY <1>3, <3>1, <3>2, <3>3, Zenon DEF ConnInv
  <2>3. CASE queue' = Tail(queue)
    <3>1. /\ queue' \in Seq(Conns) /\ Len(queue') = Len(queue) - 1
          /\ \A k \in 1 .. Len(queue') : queue'[k] = queue[k + 1]
      BY <1>1, <2>1, <2>3, SMT DEF ConnTypes
    <3>2. Waiting'
      <4>1. \A k \in 1 .. Len(queue') : k + 1 \in 1 .. Len(queue)
        BY <1>1, <3>1, SMT DEF ConnTypes
      <4>2. ASSUME NEW k \in 1 .. Len(queue')
            PROVE  /\ socket'[queue'[k]] = "none" /\ holders'[queue'[k]] = {}
                   /\ queue'[k] \notin current' /\ peer'[queue'[k]] # "none"
        <5>1. PICK d : d = queue'[k]
          OBVIOUS
        <5>2. d = queue[k + 1] /\ k + 1 \in 1 .. Len(queue)
          BY <3>1, <4>1, <5>1, Zenon
        <5>3. Untouched(d) /\ peer[d] # "none"
          BY <1>1, <5>2, Zenon DEF Waiting
        <5>4. UNCHANGED <<socket, holders, current, peer>>
          BY <2>1
        <5> QED BY <5>1, <5>3, <5>4, Zenon DEF Untouched
      <4>3. \A j, k \in 1 .. Len(queue') : queue'[j] = queue'[k] => j = k
        BY <1>1, <3>1, <4>1, SMT DEF Waiting
      <4>4. \A d \in Conns : peer'[d] = "none" => Untouched(d)'
        BY <1>1, <2>1, Zenon DEF Waiting, Untouched
      <4> QED BY <4>2, <4>3, <4>4, Zenon DEF Waiting, Untouched
    <3> QED BY <1>1, <1>3, <2>1, <3>1, <3>2, Zenon DEF ConnInv, ConnTypes, OneCurrent, Held
  <2> QED BY <2>1, <2>2, <2>3
<1>7. CASE CreateManager(c) /\ ~Terminate
  <2>1. /\ acceptor = "accepted" /\ acceptor' = "thread_in" /\ c \in current
        /\ holders' = [holders EXCEPT ![c] = {"acceptor"}]
        /\ UNCHANGED <<current, queue, peer, socket, owed>>
    BY <1>7, Zenon DEF CreateManager
  <2> QED BY <1>0, <1>1, <1>3, <2>1, SMT
             DEF ConnInv, ConnTypes, OneCurrent, Waiting, Held, Untouched, Busy
<1>8. CASE StartIn(c) /\ ~Terminate
  <2>1. /\ acceptor = "thread_in" /\ acceptor' = "thread_out" /\ c \in current
        /\ holders' = [holders EXCEPT ![c] = @ \union {"in"}]
        /\ UNCHANGED <<current, queue, peer, socket, owed>>
    BY <1>8, Zenon DEF StartIn
  <2> QED BY <1>0, <1>1, <1>3, <2>1, SMT
             DEF ConnInv, ConnTypes, OneCurrent, Waiting, Held, Untouched, Busy
<1>9. CASE StartOut(c) /\ ~Terminate
  <2>1. /\ acceptor = "thread_out" /\ acceptor' = "detached" /\ c \in current
        /\ holders' = [holders EXCEPT ![c] = @ \union {"out"}]
        /\ owed' = owed \union {c}
        /\ UNCHANGED <<current, queue, peer, socket>>
    BY <1>9, Zenon DEF StartOut
  <2> QED BY <1>0, <1>1, <1>3, <2>1, SMT
             DEF ConnInv, ConnTypes, OneCurrent, Waiting, Held, Untouched, Busy
<1> QED BY <1>4, <1>5, <1>6, <1>7, <1>8, <1>9, Zenon

\* A thread drops its share of the handler.
LEMMA ReleaseDoes ==
  ASSUME ConnInv, NEW c \in Conns, NEW thread \in {"acceptor", "in", "out"},
         thread \in holders[c], Release(c, thread)
  PROVE  /\ holders' = [holders EXCEPT ![c] = holders[c] \ {thread}]
         /\ \A d \in Conns : socket'[d] = socket[d] \/ (d = c /\ socket'[d] = "closed")
         /\ socket'[c] = "open" <=> holders'[c] # {}
         /\ socket' \in [Conns -> {"none", "open", "closed"}]
         /\ holders' \in [Conns -> SUBSET {"acceptor", "in", "out"}]
         /\ socket[c] = "open"
         /\ Descriptors'
<1>1. ConnTypes /\ Held(c)
  BY Zenon DEF ConnInv
<1>2. /\ holders' = [holders EXCEPT ![c] = holders[c] \ {thread}]
      /\ socket' = [socket EXCEPT ![c] = IF holders[c] = {thread} THEN "closed" ELSE socket[c]]
  BY Zenon DEF Release
<1>3. socket[c] = "open" /\ holders'[c] = holders[c] \ {thread}
  BY <1>1, <1>2, SMT DEF Held, ConnTypes
<1>4. /\ socket'[c] = IF holders[c] = {thread} THEN "closed" ELSE "open"
      /\ \A d \in Conns : d # c => socket'[d] = socket[d]
  BY <1>1, <1>2, <1>3, SMT DEF ConnTypes
<1>5. socket'[c] = "open" <=> holders'[c] # {}
  <2>1. holders'[c] # {} <=> holders[c] # {thread}
    BY <1>3, Zenon
  <2> QED BY <1>4, <2>1, SMT
<1>6. /\ socket' \in [Conns -> {"none", "open", "closed"}]
      /\ holders' \in [Conns -> SUBSET {"acceptor", "in", "out"}]
  BY <1>1, <1>2, SMT DEF ConnTypes
<1>7. Descriptors'
  <2>1. Open' \subseteq Open
    BY <1>3, <1>4, Zenon DEF Open
  <2>2. Cardinality(Open') <= Cardinality(Open) /\ IsFiniteSet(Open')
    BY <2>1, FS_Subset, Zenon DEF ConnInv, Descriptors
  <2>3. Cardinality(Open') \in Nat
    BY <2>2, FS_CardinalityType, Zenon
  <2> QED BY <2>2, <2>3, ConnectionsAssumption, SMT DEF ConnInv, Descriptors
<1>8. \A d \in Conns : socket'[d] = socket[d] \/ (d = c /\ socket'[d] = "closed")
  BY <1>3, <1>4, Zenon
<1> QED BY <1>2, <1>3, <1>5, <1>6, <1>7, <1>8, Zenon

LEMMA LeaveScopeInv ==
  ASSUME ConnInv, NEW c \in Conns, LeaveScope(c)
  PROVE  ConnInv'
<1>1. ConnTypes /\ OneCurrent /\ Waiting /\ \A d \in Conns : Held(d)
  BY Zenon DEF ConnInv
<1>2. /\ acceptor = "detached" /\ c \in current /\ acceptor' = "accept" /\ current' = {}
      /\ UNCHANGED <<queue, peer, owed>> /\ Release(c, "acceptor")
  BY Zenon DEF LeaveScope
<1>3. "acceptor" \in holders[c]
  BY <1>1, <1>2, Zenon DEF Held
<1>4. /\ holders' = [holders EXCEPT ![c] = holders[c] \ {"acceptor"}]
      /\ \A d \in Conns : socket'[d] = socket[d] \/ (d = c /\ socket'[d] = "closed")
      /\ socket'[c] = "open" <=> holders'[c] # {}
      /\ socket' \in [Conns -> {"none", "open", "closed"}]
      /\ holders' \in [Conns -> SUBSET {"acceptor", "in", "out"}]
      /\ socket[c] = "open"
      /\ Descriptors'
  BY <1>2, <1>3, ReleaseDoes, Zenon
<1>5. ConnTypes' /\ OneCurrent'
  BY <1>1, <1>2, <1>4, SMT DEF ConnTypes, OneCurrent, Busy
<1>6. Waiting'
  BY <1>1, <1>2, <1>4, SMT DEF Waiting, Untouched, ConnTypes
<1>7. \A d \in Conns : Held(d)'
  BY <1>1, <1>2, <1>4, SMT DEF OneCurrent, Held, ConnTypes
<1> QED BY <1>4, <1>5, <1>6, <1>7, Zenon DEF ConnInv

LEMMA ThreadEndsInv ==
  ASSUME ConnInv, NEW c \in Conns, ReaderEnds(c) \/ ReaderThrows(c) \/ WriterEnds(c)
  PROVE  ConnInv'
<1>1. ConnTypes /\ OneCurrent /\ Waiting /\ \A d \in Conns : Held(d)
  BY Zenon DEF ConnInv
<1>2. PICK thread \in {"in", "out"} :
        /\ thread \in holders[c] /\ Release(c, thread)
        /\ UNCHANGED <<acceptor, current, queue, peer>>
        /\ owed' \in {owed, owed \ {c}}
        /\ thread = "out" => owed' = owed \ {c}
  BY Zenon DEF ReaderEnds, ReaderThrows, WriterEnds, acceptorVars
<1>3. /\ holders' = [holders EXCEPT ![c] = holders[c] \ {thread}]
      /\ \A d \in Conns : socket'[d] = socket[d] \/ (d = c /\ socket'[d] = "closed")
      /\ socket'[c] = "open" <=> holders'[c] # {}
      /\ socket' \in [Conns -> {"none", "open", "closed"}]
      /\ holders' \in [Conns -> SUBSET {"acceptor", "in", "out"}]
      /\ socket[c] = "open"
      /\ Descriptors'
  BY <1>2, ReleaseDoes, Zenon
<1>4. ConnTypes' /\ OneCurrent'
  BY <1>1, <1>2, <1>3, SMT DEF ConnTypes, OneCurrent
<1>5. Waiting'
  BY <1>1, <1>2, <1>3, SMT DEF Waiting, Untouched, ConnTypes
<1>6. \A d \in Conns : Held(d)'
  BY <1>1, <1>2, <1>3, SMT DEF OneCurrent, Held, ConnTypes
<1> QED BY <1>3, <1>4, <1>5, <1>6, Zenon DEF ConnInv

LEMMA OthersInv ==
  ASSUME ConnInv,
         \/ News \/ NoMoreNews
         \/ \E c \in Conns : WriterSends(c) \/ PeerConnects(c) \/ PeerLeaves(c)
  PROVE  ConnInv'
<1>1. ConnTypes /\ OneCurrent /\ Waiting /\ \A d \in Conns : Held(d)
  BY Zenon DEF ConnInv
<1>2. UNCHANGED <<socket, holders, acceptor, current>>
  BY Zenon DEF WriterSends, PeerConnects, PeerLeaves, News, NoMoreNews, acceptorVars, threadVars
<1>3. Descriptors' /\ OneCurrent'
  BY <1>1, <1>2, KeepsSockets, Zenon DEF OneCurrent
<1>4. ASSUME NEW c \in Conns, PeerConnects(c)
      PROVE  ConnInv'
  <2>1. /\ peer[c] = "none" /\ peer' = [peer EXCEPT ![c] = "connected"]
        /\ queue' = Append(queue, c) /\ UNCHANGED owed
    BY <1>4, Zenon DEF PeerConnects, threadVars
  <2>2. /\ queue' \in Seq(Conns) /\ Len(queue') = Len(queue) + 1 /\ queue'[Len(queue) + 1] = c
        /\ \A k \in 1 .. Len(queue) : queue'[k] = queue[k]
    BY <1>1, <2>1, SMT DEF ConnTypes
  <2>3. ConnTypes'
    BY <1>1, <1>2, <2>1, <2>2, SMT DEF ConnTypes
  <2>4. Waiting'
    BY <1>1, <1>2, <2>1, <2>2, SMT DEF Waiting, Untouched, ConnTypes
  <2>5. \A d \in Conns : Held(d)'
    BY <1>1, <1>2, <2>1, Zenon DEF Held
  <2> QED BY <1>3, <2>3, <2>4, <2>5, Zenon DEF ConnInv
<1>5. CASE \/ News \/ NoMoreNews
           \/ \E c \in Conns : WriterSends(c) \/ PeerLeaves(c)
  <2>1. UNCHANGED queue
    BY <1>5, Zenon DEF WriterSends, PeerLeaves, News, NoMoreNews, acceptorVars
  <2>2. /\ peer' \in [Conns -> {"none", "connected", "gone", "reset"}]
        /\ \A d \in Conns : peer'[d] = "none" <=> peer[d] = "none"
    <3>1. CASE News \/ NoMoreNews
      BY <1>1, <3>1, Zenon DEF News, NoMoreNews, ConnTypes
    <3>2. ASSUME NEW c \in Conns, PeerLeaves(c)
          PROVE  <2>2!:
      BY <1>1, <3>2, SMT DEF PeerLeaves, ConnTypes
    <3>3. ASSUME NEW c \in Conns, WriterSends(c)
          PROVE  <2>2!:
      <4>1. peer[c] # "none"
        BY <1>1, <3>3, Zenon DEF WriterSends, Waiting, Untouched
      <4> QED BY <1>1, <3>3, <4>1, SMT DEF WriterSends, ConnTypes
    <3> QED BY <1>5, <3>1, <3>2, <3>3
  <2>3. owed' \in SUBSET Conns /\ \A d \in owed' : "out" \in holders[d]
    <3>1. owed' \subseteq owed \/ owed' = {d \in Conns : "out" \in holders[d]}
      BY <1>5, Zenon DEF WriterSends, PeerLeaves, News, NoMoreNews, threadVars
    <3> QED BY <1>1, <3>1, Zenon DEF ConnTypes, Held
  <2>4. ConnTypes'
    BY <1>1, <1>2, <2>1, <2>2, <2>3, Zenon DEF ConnTypes
  <2>5. Waiting'
    BY <1>1, <1>2, <2>1, <2>2, SMT DEF Waiting, Untouched, ConnTypes
  <2>6. \A d \in Conns : Held(d)'
    BY <1>1, <1>2, <2>3, Zenon DEF Held
  <2> QED BY <1>3, <2>4, <2>5, <2>6, Zenon DEF ConnInv
<1> QED BY <1>4, <1>5

\* While the arguments are parsed and in the client nothing happens to connections.
LEMMA ConnStep ==
  ASSUME ConnInv, [Next]_vars
  PROVE  ConnInv'
<1>1. CASE UNCHANGED <<acceptorVars, peer, threadVars>>
  <2>1. UNCHANGED <<acceptor, current, queue, peer, socket, holders, owed>>
    BY <1>1, Zenon DEF acceptorVars, threadVars
  <2>2. ConnTypes' /\ OneCurrent'
    BY <2>1, Zenon DEF ConnInv, ConnTypes, OneCurrent
  <2>3. Waiting'
    BY <2>1, Zenon DEF ConnInv, Waiting, Untouched
  <2>4. \A d \in Conns : Held(d)'
    <3> TAKE d \in Conns
    <3>1. Held(d)
      BY Zenon DEF ConnInv
    <3> QED BY <2>1, <3>1, Zenon DEF Held
  <2>5. Descriptors'
    BY <2>1, KeepsSockets, Zenon
  <2> QED BY <2>2, <2>3, <2>4, <2>5, Zenon DEF ConnInv
<1>2. CASE ServerNext
  <2>1. ASSUME NEW c \in Conns,
               CreateManager(c) \/ StartIn(c) \/ StartOut(c) \/ LeaveScope(c)
        PROVE  ConnInv'
    BY <2>1, AcceptorInv, LeaveScopeInv, Zenon
  <2>2. CASE Listen \/ AcceptSucceeds \/ AcceptFails
    BY <2>2, AcceptorInv, AcceptSucceedsInv, Zenon
  <2>3. CASE News \/ NoMoreNews
    BY <2>3, OthersInv, Zenon
  <2>4. ASSUME NEW c \in Conns,
               \/ ReaderEnds(c) \/ ReaderThrows(c) \/ WriterEnds(c)
               \/ WriterSends(c) \/ PeerConnects(c) \/ PeerLeaves(c)
        PROVE  ConnInv'
    BY <2>4, ThreadEndsInv, OthersInv, Zenon
  <2> QED BY <1>2, <2>1, <2>2, <2>3, <2>4, Zenon DEF ServerNext, AcceptorThread
<1>3. ServerNext \/ UNCHANGED <<acceptorVars, peer, threadVars>>
  BY Zenon DEF Next, SkipArgument, ExitFromOption, ReadOption, ReturnOptions, StartServer,
     SetUpClient, Becomes, vars, connVars, connRest
<1> QED BY <1>1, <1>2, <1>3

LEMMA ConnInvariance == Spec => []ConnInv
<1>1. ConnInv /\ [Next]_vars => ConnInv'
  BY ConnStep, Zenon
<1> QED BY <1>1, ConnInitInv, PTL DEF Spec

\* TCPHandler is shared by the reader and the writer thread of a connection, and its
\* destructor closes the socket: whichever of the two ends first, and although the
\* acceptor thread holds the handler as well while it starts them, neither uses a
\* socket that is closed, and none is left open when both have ended.
THEOREM SocketsAreKept == Spec => []SocketLastsAsLongAsThreads
<1>1. ConnInv => SocketLastsAsLongAsThreads
  BY Zenon DEF ConnInv, Held, SocketLastsAsLongAsThreads
<1> QED BY <1>1, ConnInvariance, PTL
-----------------------------------------------------------------------------
(* Powers of two                                                           *)

Subsets(k) == SUBSET (1 .. k)

LEMMA CountSubsets ==
  ASSUME NEW k \in Nat
  PROVE  IsFiniteSet(Subsets(k)) /\ Cardinality(Subsets(k)) = 2 ^ k /\ 2 ^ k \in Nat
<1>1. IsFiniteSet(1 .. k) /\ Cardinality(1 .. k) = k
  <2>1. 1 \in Int /\ k \in Int
    BY SMT
  <2>2. IsFiniteSet(1 .. k) /\ Cardinality(1 .. k) = IF 1 > k THEN 0 ELSE k - 1 + 1
    BY <2>1, FS_Interval, Zenon
  <2> QED BY <2>2, SMT
<1>2. IsFiniteSet(Subsets(k)) /\ Cardinality(Subsets(k)) = 2 ^ Cardinality(1 .. k)
  BY <1>1, FS_SUBSET, Zenon DEF Subsets
<1>3. Cardinality(Subsets(k)) \in Nat
  BY <1>2, FS_CardinalityType, Zenon
<1> QED BY <1>1, <1>2, <1>3, Zenon

LEMMA PowersGrow ==
  ASSUME NEW j \in Nat, NEW k \in Nat, j <= k
  PROVE  1 <= 2 ^ j /\ 2 ^ j <= 2 ^ k
<1>1. Subsets(j) \subseteq Subsets(k)
  BY SMT DEF Subsets
<1>2. Cardinality(Subsets(j)) <= Cardinality(Subsets(k))
  BY <1>1, CountSubsets, FS_Subset, Zenon
<1>3. 2 ^ j # 0
  <2>1. {} \in Subsets(j)
    BY Zenon DEF Subsets
  <2>2. Cardinality(Subsets(j)) # 0
    BY <2>1, CountSubsets, FS_EmptySet, Zenon
  <2> QED BY <2>2, CountSubsets, Zenon
<1>4. PICK m, n : m = 2 ^ j /\ n = 2 ^ k
  OBVIOUS
<1>5. m \in Nat /\ m # 0 /\ m <= n
  BY <1>2, <1>3, <1>4, CountSubsets, Zenon
<1>6. 1 <= m /\ m <= n
  BY <1>5, SMT
<1> QED BY <1>4, <1>6, Zenon

\* Half of the subsets of 1 .. k + 1 have k + 1 in them.
LEMMA PowersDouble ==
  ASSUME NEW k \in Nat
  PROVE  2 ^ (k + 1) = 2 ^ k + 2 ^ k
<1>1. PICK l : l = k + 1
  OBVIOUS
<1>2. l \in Nat
  BY <1>1, SMT
<1> DEFINE With == {T \union {l} : T \in Subsets(k)}
           f == [T \in Subsets(k) |-> T \union {l}]
<1>3. \A T \in Subsets(k) : l \notin T
  BY <1>1, SMT DEF Subsets
<1>4. Subsets(l) = Subsets(k) \union With
  <2>1. ASSUME NEW T \in Subsets(l)
        PROVE  T \in Subsets(k) \union With
    <3>1. PICK U : U = T \ {l}
      OBVIOUS
    <3>2. U \in Subsets(k)
      BY <1>1, <3>1, SMT DEF Subsets
    <3>3. l \in T => T = U \union {l}
      BY <3>1, SMT
    <3>4. l \notin T => T = U
      BY <3>1, SMT
    <3> QED BY <3>2, <3>3, <3>4, Zenon
  <2>2. ASSUME NEW T \in Subsets(k)
        PROVE  T \in Subsets(l) /\ T \union {l} \in Subsets(l)
    BY <1>1, SMT DEF Subsets
  <2>3. With \subseteq Subsets(l) /\ Subsets(k) \subseteq Subsets(l)
    BY <2>2, Zenon
  <2> HIDE DEF With
  <2> QED BY <2>1, <2>3, Zenon
<1>5. Subsets(k) \intersect With = {}
  BY <1>3, Zenon
<1>6. IsFiniteSet(With) /\ Cardinality(With) = Cardinality(Subsets(k))
  <2>1. f \in Bijection(Subsets(k), With)
    <3>1. f \in [Subsets(k) -> With] /\ \A T \in With : \E U \in Subsets(k) : f[U] = T
      BY Zenon
    <3>2. \A T, U \in Subsets(k) : f[T] = f[U] => T = U
      BY <1>3, SMT
    <3> HIDE DEF f, With
    <3> QED BY <3>1, <3>2, Zenon DEF Bijection, Injection, Surjection, IsInjective
  <2> HIDE DEF f, With
  <2> QED BY <2>1, CountSubsets, FS_Bijection, Zenon DEF ExistsBijection
<1> HIDE DEF f, With
<1>7. Cardinality(Subsets(l))
        = Cardinality(Subsets(k)) + Cardinality(With) - Cardinality(Subsets(k) \intersect With)
  BY <1>4, <1>6, CountSubsets, FS_Union, Zenon
<1>8. Cardinality(Subsets(k) \intersect With) = 0
  BY <1>5, FS_EmptySet, Zenon
<1>9. PICK n, m : n = Cardinality(Subsets(k)) /\ m = Cardinality(Subsets(l))
  OBVIOUS
<1>10. n \in Nat /\ m = n + n - 0 /\ n = 2 ^ k /\ m = 2 ^ l
  BY <1>2, <1>6, <1>7, <1>8, <1>9, CountSubsets, Zenon
<1>11. m = n + n
  BY <1>10, SMT
<1> QED BY <1>1, <1>10, <1>11, Zenon
-----------------------------------------------------------------------------
(* What parse_numerical makes of a text                                    *)

LEMMA ParseIs ==
  ASSUME NEW n \in {1, 2, 4, 8}, NEW text, text.digits \in Int,
         NEW v \in ParseNumerical(n, text)
  PROVE  /\ text.digits >= 0 /\ ~text.junk
         /\ v \in 0 .. MaxOf(n)
         /\ \/ v = Signed(text)
            \/ n = 8 /\ text.blank /\ text.minus /\ v = 2 ^ Bits[8] - text.digits
<1>1. PICK a, b, h, s : a = 2 ^ Bits[n] /\ b = 2 ^ Bits[8] /\ h = 2 ^ (Bits[8] - 1)
                        /\ s = Signed(text)
  OBVIOUS
<1>2. /\ a \in Nat \ {0} /\ b \in Nat \ {0} /\ h \in Nat \ {0} /\ b = h + h
      /\ n # 8 => a <= h
      /\ n = 8 => a = b
  <2>1. Bits[n] \in Nat /\ Bits[8] \in Nat \ {0} /\ (n # 8 => Bits[n] < Bits[8])
    <3>1. Bits \in [{1, 2, 4, 8} -> Nat \ {0}] /\ \A k \in {1, 2, 4} : Bits[k] < Bits[8]
      BY OptionsAssumption, Zenon
    <3> QED BY <3>1, SMT
  <2>2. PICK k : k = Bits[8] - 1
    OBVIOUS
  <2>3. k \in Nat /\ k + 1 = Bits[8] /\ k <= k /\ (n # 8 => Bits[n] <= k) /\ Bits[n] <= Bits[n]
        /\ Bits[8] \in Nat /\ Bits[8] <= Bits[8]
    BY <2>1, <2>2, SMT
  <2>4. 2 ^ (k + 1) = 2 ^ k + 2 ^ k
    BY <2>3, PowersDouble, Zenon
  <2>5. b = h + h
    BY <1>1, <2>2, <2>3, <2>4, Zenon
  <2>6. a \in Nat /\ b \in Nat /\ h \in Nat /\ 1 <= a /\ 1 <= b /\ 1 <= h
    BY <1>1, <2>1, <2>2, <2>3, CountSubsets, PowersGrow, Zenon
  <2>7. n # 8 => a <= h
    BY <1>1, <2>1, <2>2, <2>3, PowersGrow, Zenon
  <2>8. n = 8 => a = b
    BY <1>1, Zenon
  <2> QED BY <2>5, <2>6, <2>7, <2>8, SMT
<1>3. /\ ~(text.minus /\ ~text.blank)
      /\ \E w \in NumericalValue(text) : w <= MaxOf(n) /\ v = w % 2 ^ Bits[n]
  BY Zenon DEF ParseNumerical
<1>4. PICK w \in NumericalValue(text) : w <= MaxOf(n) /\ v = w % a
  BY <1>1, <1>3, Zenon
<1>5. /\ text.digits >= 0 /\ ~text.junk
      /\ s \in -h .. h - 1 /\ w = s % b
  BY <1>1, <1>4, Zenon DEF NumericalValue
<1>6. /\ text.minus => s = -text.digits
      /\ ~text.minus => s = text.digits
  BY <1>1, Zenon DEF Signed
<1>7. s \in Int
  BY <1>5, SMT
<1>8. w <= a - 1
  BY <1>1, <1>4, Zenon DEF MaxOf
<1>9. w \in 0 .. b - 1
  BY <1>2, <1>5, <1>7, SMT
<1>10. w \in 0 .. a - 1 /\ v = w
  <2>1. w \in 0 .. a - 1
    BY <1>2, <1>8, <1>9, SMT
  <2> QED BY <1>2, <1>4, <2>1, SMT
<1>11. v \in 0 .. MaxOf(n)
  BY <1>1, <1>10, Zenon DEF MaxOf
<1>12. CASE s >= 0
  <2>1. w = s
    BY <1>2, <1>5, <1>12, SMT
  <2> QED BY <1>1, <1>5, <1>10, <1>11, <2>1, Zenon
<1>13. CASE ~(s >= 0)
  <2>1. w = s + b /\ w >= h
    BY <1>2, <1>5, <1>7, <1>13, SMT
  <2>2. n = 8
    BY <1>2, <1>8, <2>1, SMT
  <2>3. text.minus
    BY <1>5, <1>6, <1>13, Zenon
  <2>4. w = b - text.digits
    BY <1>2, <1>6, <2>1, <2>3, SMT
  <2> QED BY <1>1, <1>3, <1>5, <1>10, <1>11, <2>2, <2>3, <2>4, Zenon
<1> QED BY <1>12, <1>13
-----------------------------------------------------------------------------
(* The options that have been read                                         *)

Programs == {"client", "server"}

LEMMA OptionKinds ==
  ASSUME NEW p \in Programs, NEW flag \in DOMAIN Options[p]
  PROVE  Options[p][flag] \in {Name, Address} \union {Number(n) : n \in {1, 2, 4, 8}}
<1>1. CASE p = "client"
  <2>1. Options[p] = [d |-> Address, n |-> Name, p |-> Number(2), s |-> Address]
    BY <1>1, SMT DEF Options
  <2> QED BY <2>1, SMT
<1>2. CASE p = "server"
  <2>1. Options[p] = [b |-> Number(2), c |-> Number(1), d |-> Number(8), e |-> Number(2),
                      k |-> Number(2), l |-> Number(2), n |-> Name, p |-> Number(2),
                      s |-> Number(4), x |-> Number(2), y |-> Number(2)]
    BY <1>2, SMT DEF Options
  <2> QED BY <2>1, SMT
<1> QED BY <1>1, <1>2, Zenon DEF Programs

Lines == program \in Programs /\ argv \in Seq(Arguments)

\* Every option that is stored is what its parser made of a text that was written for it.
OptionsRead ==
  \A flag \in DOMAIN options :
    /\ flag \in DOMAIN Options[program]
    /\ \E text \in Written(flag) :
         text \in ArgumentTexts /\ options[flag] \in Parse(Options[program][flag], text)

Complete == Started => Required(program) \subseteq DOMAIN options

ParseInv ==
  /\ Lines /\ OptionsRead /\ Complete
  /\ process \in {"parsing", "exit_success", "exit_failure", "parsed", "connected",
                  "running", "serving", "terminated"}
  /\ process = "parsing" => optind \in 1 .. Len(argv) + 1

LEMMA ParseInit == Init => ParseInv
<1> SUFFICES ASSUME Init
             PROVE  ParseInv
  OBVIOUS
<1>1. Lines
  BY StartupAssumption, Zenon DEF Init, Lines, Programs
<1>2. DOMAIN options = {}
  BY Zenon DEF Init
<1>3. 1 \in 1 .. Len(argv) + 1
  BY <1>1, SMT DEF Lines
<1> QED BY <1>1, <1>2, <1>3, Zenon DEF Init, ParseInv, OptionsRead, Complete, Started

\* The steps of main and of the server change no option.
LEMMA SameOptions ==
  ASSUME ParseInv, UNCHANGED <<program, argv, options>>,
         process' \in {"parsing", "exit_success", "exit_failure", "parsed", "connected",
                       "running", "serving", "terminated"},
         process' = "parsing" => optind' \in 1 .. Len(argv) + 1,
         Started' => Started \/ Required(program) \subseteq DOMAIN options
  PROVE  ParseInv'
<1>1. \A flag : Written(flag)' = Written(flag)
  BY Zenon DEF Written
<1>2. Lines' /\ OptionsRead' /\ Complete'
  BY <1>1, Zenon DEF ParseInv, Lines, OptionsRead, Complete
<1> QED BY <1>2, Zenon DEF ParseInv

LEMMA ReadOptionStores ==
  ASSUME ParseInv, ReadOption, ~Becomes("exit_failure")
  PROVE  ParseInv'
<1>1. PICK flag : flag = argv[optind].flag
  OBVIOUS
<1>2. PICK text : text = ValueOf(argv, optind)
  OBVIOUS
<1>3. /\ process = "parsing" /\ optind <= Len(argv) /\ argv[optind].is # "word"
      /\ ~Malformed(program, argv, optind)
      /\ optind' = optind + (IF argv[optind].is = "attached" THEN 1 ELSE 2)
      /\ UNCHANGED <<program, argv>>
  BY Zenon DEF ReadOption, Parsing
<1>4. PICK v \in Parse(Options[program][flag], text) :
        /\ options' = [f \in DOMAIN options \union {flag} |->
                         IF f = flag THEN v ELSE options[f]]
        /\ UNCHANGED connVars
  BY <1>1, <1>2, Zenon DEF ReadOption
<1>5. UNCHANGED process
  BY <1>4, Zenon DEF connVars
<1>6. optind \in 1 .. Len(argv) + 1 /\ argv \in Seq(Arguments) /\ program \in Programs
  BY <1>3, Zenon DEF ParseInv, Lines
<1>7. flag \in DOMAIN Options[program] /\ (argv[optind].is = "flag" => optind # Len(argv))
  BY <1>1, <1>3, Zenon DEF Malformed
<1>8. argv[optind] \in Arguments /\ optind \in 1 .. Len(argv) /\ DOMAIN argv = 1 .. Len(argv)
  BY <1>3, <1>6, SMT
<1>9. argv[optind].is \in {"flag", "attached"}
  BY <1>3, <1>8, SMT DEF Arguments
<1>10. argv[optind].is = "flag" => optind < Len(argv) /\ optind + 1 \in 1 .. Len(argv)
  BY <1>6, <1>7, <1>8, SMT
<1>11. text \in ArgumentTexts
  <2>1. CASE argv[optind].is = "attached"
    BY <1>2, <1>8, <2>1, SMT DEF ValueOf, Arguments
  <2>2. CASE argv[optind].is = "flag"
    <3>1. argv[optind + 1] \in Arguments
      BY <1>6, <1>10, <2>2, SMT
    <3>2. text = argv[optind + 1].text
      BY <1>2, <2>2, Zenon DEF ValueOf
    <3> QED BY <3>1, <3>2, SMT DEF Arguments
  <2> QED BY <1>9, <2>1, <2>2, Zenon
<1>12. text \in Written(flag)
  BY <1>1, <1>2, <1>8, <1>10, Zenon DEF Written
<1>13. optind' \in 1 .. Len(argv) + 1
  BY <1>3, <1>6, <1>8, <1>9, <1>10, SMT
<1>14. \A f : Written(f)' = Written(f)
  BY <1>3, Zenon DEF Written
<1>15. OptionsRead'
  <2> SUFFICES ASSUME NEW f \in DOMAIN options'
               PROVE  /\ f \in DOMAIN Options[program]
                      /\ \E t \in Written(f) : /\ t \in ArgumentTexts
                                               /\ options'[f] \in Parse(Options[program][f], t)
    BY <1>3, <1>14, Zenon DEF OptionsRead
  <2>1. f \in DOMAIN options \union {flag} /\ options'[f] = IF f = flag THEN v ELSE options[f]
    BY <1>4, Zenon
  <2>2. CASE f = flag
    BY <1>4, <1>7, <1>11, <1>12, <2>1, <2>2, Zenon
  <2>3. CASE f # flag
    BY <2>1, <2>3, Zenon DEF ParseInv, OptionsRead
  <2> QED BY <2>2, <2>3
<1>16. Lines' /\ Complete'
  BY <1>3, <1>5, Zenon DEF ParseInv, Lines, Complete, Started
<1> QED BY <1>3, <1>5, <1>13, <1>15, <1>16, Zenon DEF ParseInv

LEMMA ParseStep ==
  ASSUME ParseInv, [Next]_vars
  PROVE  ParseInv'
<1>1. CASE SkipArgument
  <2>1. /\ process = "parsing" /\ optind <= Len(argv) /\ optind' = optind + 1
        /\ UNCHANGED <<program, argv, options, process>>
    BY <1>1, Zenon DEF SkipArgument, Parsing, connVars
  <2>2. optind' \in 1 .. Len(argv) + 1
    BY <2>1, SMT DEF ParseInv, Lines
  <2> QED BY <2>1, <2>2, SameOptions, Zenon DEF Started
<1>2. CASE ExitFromOption \/ (ReadOption /\ Becomes("exit_failure"))
  <2>1. /\ process' \in {"exit_success", "exit_failure"}
        /\ UNCHANGED <<program, argv, options>>
    BY <1>2, Zenon DEF ExitFromOption, ReadOption, Becomes
  <2> QED BY <2>1, SameOptions, Zenon DEF Started
<1>3. CASE ReadOption /\ ~Becomes("exit_failure")
  BY <1>3, ReadOptionStores, Zenon
<1>4. CASE ReturnOptions
  <2>1. /\ UNCHANGED <<program, argv, options>>
        /\ process' = IF Len(argv) + 1 = counter /\ Required(program) \subseteq DOMAIN options
                      THEN "parsed" ELSE "exit_failure"
    BY <1>4, Zenon DEF ReturnOptions, Becomes
  <2> QED BY <2>1, SameOptions, Zenon DEF Started
<1>5. CASE StartServer \/ SetUpClient
  <2>1. /\ UNCHANGED <<program, argv, options>> /\ process \in {"parsed", "connected"}
        /\ process' \in {"serving", "connected", "running", "terminated"}
    BY <1>5, Zenon DEF StartServer, SetUpClient, Becomes
  <2> QED BY <2>1, SameOptions, Zenon DEF Started
<1>6. CASE ServerNext /\ UNCHANGED parseVars
  <2>1. UNCHANGED <<program, argv, options, optind>>
    BY <1>6, Zenon DEF parseVars
  <2>2. process = "serving" /\ process' \in {"serving", "terminated"}
    BY <1>6, Zenon DEF ServerNext, AcceptorThread, Listen, AcceptSucceeds, AcceptFails,
       CreateManager, StartIn, StartOut, LeaveScope, ReaderEnds, ReaderThrows, WriterSends,
       WriterEnds, PeerConnects, PeerLeaves, News, NoMoreNews, Terminate, Up
  <2> QED BY <2>1, <2>2, SameOptions, Zenon DEF Started
<1>7. CASE UNCHANGED vars
  <2>1. UNCHANGED <<program, argv, options, optind, process>>
    BY <1>7, Zenon DEF vars, parseVars, connVars
  <2> QED BY <2>1, SameOptions, Zenon DEF Started, ParseInv
<1> QED BY <1>1, <1>2, <1>3, <1>4, <1>5, <1>6, <1>7, Zenon DEF Next

LEMMA ParseInvariance == Spec => []ParseInv
<1>1. ParseInv /\ [Next]_vars => ParseInv'
  BY ParseStep, Zenon
<1> QED BY <1>1, ParseInit, PTL DEF Spec

\* The option holds the number that was written, as NumbersAreAsWritten has it.
AsWritten(flag, option) ==
  /\ option.kind = "number" =>
       \E text \in Written(flag) :
         /\ text.digits >= 0 /\ ~text.junk
         /\ \/ options[flag] = Signed(text)
            \/ option.bytes = 8 /\ text.blank /\ text.minus
                 /\ options[flag] = 2 ^ Bits[8] - text.digits
  /\ option.kind = "address" =>
       \E text \in Written(flag) : \E port \in text.colon :
         options[flag] = Signed(port) /\ ~port.junk

\* What an option of each kind holds.
LEMMA OptionHolds ==
  ASSUME ParseInv, NEW flag \in DOMAIN options, NEW option, option = Options[program][flag]
  PROVE  /\ options[flag] \in 0 .. MaxOf(IF option.kind = "number" THEN option.bytes ELSE 2)
         /\ AsWritten(flag, option)
<1>1. PICK text \in Written(flag) : text \in ArgumentTexts /\ options[flag] \in Parse(option, text)
  BY Zenon DEF ParseInv, OptionsRead
<1>2. option \in {Name, Address} \union {Number(n) : n \in {1, 2, 4, 8}}
  BY OptionKinds, Zenon DEF ParseInv, Lines, OptionsRead
<1>3. CASE option = Name
  <2>1. option.kind = "name"
    BY <1>3, SMT DEF Name
  <2>2. options[flag] = 0
    BY <1>1, <2>1, SMT DEF Parse
  <2>3. 0 \in 0 .. MaxOf(2)
    <3>1. Bits[2] \in Nat /\ Bits[2] <= Bits[2]
      BY OptionsAssumption, SMT
    <3>2. PICK a : a = 2 ^ Bits[2]
      OBVIOUS
    <3>3. a \in Nat /\ 1 <= a
      BY <3>1, <3>2, CountSubsets, PowersGrow, Zenon
    <3>4. 0 \in 0 .. a - 1
      BY <3>3, SMT
    <3> QED BY <3>2, <3>4, Zenon DEF MaxOf
  <2> QED BY <2>1, <2>2, <2>3, Zenon DEF AsWritten
<1>4. ASSUME NEW n \in {1, 2, 4, 8}, option = Number(n)
      PROVE  /\ options[flag] \in 0 .. MaxOf(n)
             /\ option.kind = "number" /\ option.bytes = n
             /\ AsWritten(flag, option)
  <2>1. option.kind = "number" /\ option.bytes = n
    BY <1>4, SMT DEF Number
  <2>2. options[flag] \in ParseNumerical(n, text)
    BY <1>1, <2>1, SMT DEF Parse
  <2>3. text.digits \in Int
    BY <1>1, SMT DEF ArgumentTexts
  <2>4. /\ options[flag] \in 0 .. MaxOf(n)
        /\ text.digits >= 0 /\ ~text.junk
        /\ \/ options[flag] = Signed(text)
           \/ n = 8 /\ text.blank /\ text.minus
                /\ options[flag] = 2 ^ Bits[8] - text.digits
    BY <2>2, <2>3, ParseIs, Zenon
  <2> QED BY <2>1, <2>4, Zenon DEF AsWritten
<1>5. CASE option = Address
  <2>1. option.kind = "address"
    BY <1>5, SMT DEF Address
  <2>2. options[flag] \in UNION {ParseNumerical(2, t) : t \in text.colon}
    BY <1>1, <2>1, SMT DEF Parse
  <2>3. PICK port \in text.colon : options[flag] \in ParseNumerical(2, port)
    BY <2>2, Zenon
  <2>4. port.digits \in Int
    <3>1. port \in PortTexts
      BY <1>1, <2>3, SMT DEF ArgumentTexts
    <3> QED BY <3>1, SMT DEF PortTexts
  <2>5. 2 \in {1, 2, 4, 8} /\ 2 # 8
    BY SMT
  <2>6. /\ ~port.junk /\ options[flag] \in 0 .. MaxOf(2)
        /\ options[flag] = Signed(port)
    BY <2>3, <2>4, <2>5, ParseIs, Zenon
  <2> QED BY <1>1, <2>1, <2>3, <2>6, Zenon DEF AsWritten
<1> QED BY <1>1, <1>2, <1>3, <1>4, <1>5, Zenon

\* No variable leaves its type; every number that is stored fits the option's type.
THEOREM TypeCorrect == Spec => []TypeOK
<1>1. ConnInv /\ ParseInv => TypeOK
  <2> SUFFICES ASSUME ConnInv, ParseInv
               PROVE  TypeOK
    OBVIOUS
  <2>1. Cardinality(Open) <= MaxFds
    BY ConnectionsAssumption, SMT DEF ConnInv, Descriptors
  <2>2. \A c \in owed : "out" \in holders[c]
    BY Zenon DEF ConnInv, ConnTypes, Held
  <2>3. \A c \in Conns :
          "acceptor" \in holders[c] <=>
            c \in current /\ acceptor \in {"thread_in", "thread_out", "detached"}
    BY Zenon DEF ConnInv, Held
  <2>4. \A flag \in DOMAIN options :
          LET option == Options[program][flag]
          IN  options[flag] \in 0 .. MaxOf(IF option.kind = "number" THEN option.bytes ELSE 2)
    BY OptionHolds, Zenon
  <2>5. process \in {"parsing", "exit_success", "exit_failure", "parsed", "connected",
                     "running", "serving", "terminated"}
    BY Zenon DEF ParseInv
  <2> QED BY <2>1, <2>2, <2>3, <2>4, <2>5 DEF TypeOK
<1> QED BY <1>1, ConnInvariance, ParseInvariance, PTL

\* Both programs start with nothing but the numbers that were written on the command
\* line, for types of any width (parse_numerical, get_numerical_value, parse_address).
THEOREM OptionsAreAsWritten == Spec => []NumbersAreAsWritten
<1>1. ParseInv => NumbersAreAsWritten
  <2> SUFFICES ASSUME ParseInv, NEW flag \in DOMAIN options
               PROVE  AsWritten(flag, Options[program][flag])
    BY Zenon DEF NumbersAreAsWritten, AsWritten
  <2> QED BY OptionHolds, Zenon
<1> QED BY <1>1, ParseInvariance, PTL
-----------------------------------------------------------------------------
(* Counting arguments                                                      *)

\* A run of flags from j on that ends before o.
Run(j, o) ==
  /\ \A m \in j .. o - 1 : argv[m].is = "flag"
  /\ j = 1 \/ argv[j - 1].is # "flag"

\* The flags just before o are pairs of a flag and its value.
Paired(o) == \E j \in 1 .. o : (o - j) % 2 = 0 /\ Run(j, o)

\* The arguments of a kind before o that are no values.
Loose(kind, o) == {k \in 1 .. o - 1 : argv[k].is = kind /\ ~Consumed(k)}

\* Where getopt looks next there is no value of a flag, and the count is ahead of it by
\* the options with an attached value, and behind it by the arguments that are no option.
CountInv ==
  /\ process = "parsing" =>
       /\ Paired(optind) /\ counter \in Int
       /\ counter + Cardinality(Loose("word", optind))
            = optind + Cardinality(Loose("attached", optind))
  /\ Started =>
       Cardinality(Loose("word", Len(argv) + 1)) = Cardinality(Loose("attached", Len(argv) + 1))

LEMMA PairsEnd ==
  ASSUME NEW o \in Nat \ {0}, Paired(o)
  PROVE  /\ ~Consumed(o)
         /\ argv[o].is = "flag" => Consumed(o + 1) /\ Paired(o + 2)
         /\ argv[o].is # "flag" => Paired(o + 1)
<1>1. PICK j \in 1 .. o : (o - j) % 2 = 0 /\ Run(j, o)
  BY Zenon DEF Paired
<1>2. /\ \A m \in j .. o - 1 : argv[m].is = "flag"
      /\ j = 1 \/ argv[j - 1].is # "flag"
  BY <1>1, Zenon DEF Run
<1>3. ASSUME Consumed(o)
      PROVE  FALSE
  <2>1. PICK l \in 1 .. o - 1 :
          /\ (o - l) % 2 = 1
          /\ \A m \in l .. o - 1 : argv[m].is = "flag"
          /\ l = 1 \/ argv[l - 1].is # "flag"
    BY <1>3, Zenon DEF Consumed
  <2>2. CASE j < l
    <3>1. l - 1 \in j .. o - 1 /\ l # 1
      BY <1>1, <2>2, SMT
    <3> QED BY <1>2, <2>1, <3>1, Zenon
  <2>3. CASE l < j
    <3>1. j - 1 \in l .. o - 1 /\ j # 1
      BY <1>1, <2>3, SMT
    <3> QED BY <1>2, <2>1, <3>1, Zenon
  <2>4. j = l \/ j < l \/ l < j
    BY SMT
  <2>5. j # l
    BY <1>1, <2>1, SMT
  <2> QED BY <2>2, <2>3, <2>4, <2>5
<1>4. ASSUME argv[o].is = "flag"
      PROVE  Consumed(o + 1) /\ Paired(o + 2)
  <2>1. PICK p, q : p = o + 1 /\ q = o + 2
    OBVIOUS
  <2>2. \A m \in j .. p - 1 : argv[m].is = "flag"
    <3>1. \A m \in j .. p - 1 : m \in j .. o - 1 \/ m = o
      BY <2>1, SMT
    <3> QED BY <1>2, <1>4, <3>1, Zenon
  <2>3. Consumed(p)
    <3>1. j \in 1 .. p - 1 /\ (p - j) % 2 = 1
      BY <1>1, <2>1, SMT
    <3> QED BY <1>2, <2>2, <3>1, Zenon DEF Consumed
  <2>4. Paired(q)
    <3>1. CASE argv[p].is = "flag"
      <4>1. \A m \in j .. q - 1 : m \in j .. p - 1 \/ m = p
        BY <2>1, SMT
      <4>2. Run(j, q)
        BY <1>2, <2>2, <3>1, <4>1, Zenon DEF Run
      <4>3. j \in 1 .. q /\ (q - j) % 2 = 0
        BY <1>1, <2>1, SMT
      <4> QED BY <4>2, <4>3, Zenon DEF Paired
    <3>2. CASE argv[p].is # "flag"
      <4>1. q - 1 = p /\ q .. q - 1 = {} /\ q \in 1 .. q /\ (q - q) % 2 = 0
        BY <2>1, SMT
      <4>2. Run(q, q)
        BY <3>2, <4>1, Zenon DEF Run
      <4> QED BY <4>1, <4>2, Zenon DEF Paired
    <3> QED BY <3>1, <3>2
  <2> QED BY <2>1, <2>3, <2>4, Zenon
<1>5. ASSUME argv[o].is # "flag"
      PROVE  Paired(o + 1)
  <2>1. PICK p : p = o + 1
    OBVIOUS
  <2>2. p - 1 = o /\ p .. p - 1 = {} /\ p \in 1 .. p /\ (p - p) % 2 = 0
    BY <2>1, SMT
  <2>3. Run(p, p)
    BY <1>5, <2>2, Zenon DEF Run
  <2> QED BY <2>1, <2>2, <2>3, Zenon DEF Paired
<1> QED BY <1>3, <1>4, <1>5

LEMMA LooseGrows ==
  ASSUME NEW o \in Nat \ {0}, NEW kind
  PROVE  /\ IsFiniteSet(Loose(kind, o)) /\ Cardinality(Loose(kind, o)) \in Nat
         /\ argv[o].is = kind /\ ~Consumed(o) =>
              Cardinality(Loose(kind, o + 1)) = Cardinality(Loose(kind, o)) + 1
         /\ argv[o].is # kind \/ Consumed(o) => Loose(kind, o + 1) = Loose(kind, o)
<1>1. PICK p : p = o + 1
  OBVIOUS
<1>2. 1 .. p - 1 = (1 .. o - 1) \union {o} /\ o \notin 1 .. o - 1
  BY <1>1, SMT
<1>3. IsFiniteSet(Loose(kind, o)) /\ Cardinality(Loose(kind, o)) \in Nat
  <2>1. 1 \in Int /\ o - 1 \in Int
    BY SMT
  <2>2. IsFiniteSet(1 .. o - 1)
    BY <2>1, FS_Interval, Zenon
  <2>3. Loose(kind, o) \subseteq 1 .. o - 1
    BY Zenon DEF Loose
  <2>4. IsFiniteSet(Loose(kind, o))
    BY <2>2, <2>3, FS_Subset, Zenon
  <2> QED BY <2>4, FS_CardinalityType, Zenon
<1>4. ASSUME argv[o].is = kind, ~Consumed(o)
      PROVE  Cardinality(Loose(kind, p)) = Cardinality(Loose(kind, o)) + 1
  <2>1. Loose(kind, p) = Loose(kind, o) \union {o} /\ o \notin Loose(kind, o)
    BY <1>2, <1>4, Zenon DEF Loose
  <2> QED BY <1>3, <2>1, FS_AddElement, Zenon
<1>5. ASSUME argv[o].is # kind \/ Consumed(o)
      PROVE  Loose(kind, p) = Loose(kind, o)
  BY <1>2, <1>5, Zenon DEF Loose
<1> QED BY <1>1, <1>3, <1>4, <1>5, Zenon

LEMMA CountInit == Init => CountInv
<1> SUFFICES ASSUME Init
             PROVE  CountInv
  OBVIOUS
<1>1. optind = 1 /\ counter = 1 /\ process = "parsing"
  BY Zenon DEF Init
<1>2. 1 .. 1 - 1 = {} /\ 1 \in 1 .. 1 /\ (1 - 1) % 2 = 0 /\ 1 \in Int
  BY SMT
<1>3. Paired(optind)
  BY <1>1, <1>2, Zenon DEF Paired, Run
<1>4. Loose("word", 1) = Loose("attached", 1)
  BY <1>2, Zenon DEF Loose
<1> QED BY <1>1, <1>2, <1>3, <1>4, Zenon DEF CountInv, Started

\* The arguments stay as they are.
LEMMA SameLine ==
  ASSUME UNCHANGED argv
  PROVE  /\ \A o : Paired(o)' <=> Paired(o)
         /\ \A kind, o : Loose(kind, o)' = Loose(kind, o)
<1>1. \A k : Consumed(k)' <=> Consumed(k)
  BY Zenon DEF Consumed
<1> QED BY <1>1, Zenon DEF Paired, Run, Loose

\* One argument that is no value, or a flag with its value, has been looked at.
LEMMA CountStep ==
  ASSUME ParseInv, CountInv, process = "parsing", optind <= Len(argv),
         UNCHANGED <<argv, process>>,
         \/ /\ argv[optind].is = "word"
            /\ optind' = optind + 1 /\ counter' = counter
         \/ /\ argv[optind].is = "attached"
            /\ optind' = optind + 1 /\ counter' = counter + 2
         \/ /\ argv[optind].is = "flag"
            /\ optind' = optind + 2 /\ counter' = counter + 2
  PROVE  CountInv'
<1>1. PICK o, p : o = optind /\ p = optind'
  OBVIOUS
<1>2. /\ Paired(o) /\ counter \in Int
      /\ counter + Cardinality(Loose("word", o)) = o + Cardinality(Loose("attached", o))
  BY <1>1, Zenon DEF CountInv
<1>3. o \in Nat \ {0} /\ o + 1 \in Nat \ {0}
  BY <1>1, SMT DEF ParseInv, Lines
<1>4. PICK w, a : w = Cardinality(Loose("word", o)) /\ a = Cardinality(Loose("attached", o))
  OBVIOUS
<1>5. w \in Nat /\ a \in Nat /\ counter + w = o + a
  BY <1>2, <1>3, <1>4, LooseGrows, Zenon
<1>6. ~Consumed(o)
  BY <1>2, <1>3, PairsEnd, Zenon
<1>7. /\ Paired(p) /\ counter' \in Int
      /\ counter' + Cardinality(Loose("word", p)) = p + Cardinality(Loose("attached", p))
  <2>1. CASE argv[o].is = "word"
    <3>1. p = o + 1 /\ counter' = counter
      BY <1>1, <2>1, Zenon
    <3>2. Paired(o + 1)
      BY <1>2, <1>3, <2>1, PairsEnd, Zenon
    <3>3. Cardinality(Loose("word", o + 1)) = w + 1
      BY <1>3, <1>4, <1>6, <2>1, LooseGrows, Zenon
    <3>4. Loose("attached", o + 1) = Loose("attached", o)
      BY <1>3, <2>1, LooseGrows, Zenon
    <3>5. Cardinality(Loose("word", p)) = w + 1 /\ Cardinality(Loose("attached", p)) = a
      BY <1>4, <3>1, <3>3, <3>4, Zenon
    <3>6. counter' \in Int /\ counter' + (w + 1) = p + a
      BY <1>2, <1>3, <1>5, <3>1, SMT
    <3> QED BY <3>1, <3>2, <3>5, <3>6, Zenon
  <2>2. CASE argv[o].is = "attached"
    <3>1. p = o + 1 /\ counter' = counter + 2
      BY <1>1, <2>2, Zenon
    <3>2. Paired(o + 1)
      BY <1>2, <1>3, <2>2, PairsEnd, Zenon
    <3>3. Cardinality(Loose("attached", o + 1)) = a + 1
      BY <1>3, <1>4, <1>6, <2>2, LooseGrows, Zenon
    <3>4. Loose("word", o + 1) = Loose("word", o)
      BY <1>3, <2>2, LooseGrows, Zenon
    <3>5. Cardinality(Loose("word", p)) = w /\ Cardinality(Loose("attached", p)) = a + 1
      BY <1>4, <3>1, <3>3, <3>4, Zenon
    <3>6. counter' \in Int /\ counter' + w = p + (a + 1)
      BY <1>2, <1>3, <1>5, <3>1, SMT
    <3> QED BY <3>1, <3>2, <3>5, <3>6, Zenon
  <2>3. CASE argv[o].is = "flag"
    <3>1. p = o + 2 /\ counter' = counter + 2
      BY <1>1, <2>3, Zenon
    <3>2. PICK q : q = o + 1
      OBVIOUS
    <3>3. q + 1 = p /\ q \in Nat \ {0}
      BY <1>3, <3>1, <3>2, SMT
    <3>4. Consumed(q) /\ Paired(p)
      BY <1>2, <1>3, <2>3, <3>1, <3>2, PairsEnd, Zenon
    <3>5. \A kind \in {"word", "attached"} : Loose(kind, p) = Loose(kind, o)
      <4>1. ASSUME NEW kind \in {"word", "attached"}
            PROVE  Loose(kind, q) = Loose(kind, o)
        BY <1>3, <2>3, <3>2, LooseGrows, Zenon
      <4>2. ASSUME NEW kind \in {"word", "attached"}
            PROVE  Loose(kind, q + 1) = Loose(kind, q)
        BY <3>3, <3>4, LooseGrows, Zenon
      <4> QED BY <3>3, <4>1, <4>2, Zenon
    <3>6. Cardinality(Loose("word", p)) = w /\ Cardinality(Loose("attached", p)) = a
      BY <1>4, <3>5, Zenon
    <3>7. counter' \in Int /\ counter' + w = p + a
      BY <1>2, <1>3, <1>5, <3>1, SMT
    <3> QED BY <3>4, <3>6, <3>7, Zenon
  <2> QED BY <1>1, <2>1, <2>2, <2>3, Zenon
<1>8. UNCHANGED argv
  OBVIOUS
<1>9. /\ Paired(p)' <=> Paired(p)
      /\ Loose("word", p)' = Loose("word", p) /\ Loose("attached", p)' = Loose("attached", p)
  BY <1>8, SameLine, Zenon
<1>10. process' = "parsing" /\ ~Started'
  BY Zenon DEF Started
<1> QED BY <1>1, <1>7, <1>9, <1>10, Zenon DEF CountInv

LEMMA CountKeeps ==
  ASSUME ParseInv, CountInv, [Next]_vars
  PROVE  CountInv'
<1>1. CASE SkipArgument
  BY <1>1, CountStep, Zenon DEF SkipArgument, Parsing, connVars
<1>2. CASE ReadOption /\ ~Becomes("exit_failure")
  <2>1. /\ process = "parsing" /\ optind <= Len(argv) /\ argv[optind].is # "word"
        /\ UNCHANGED <<argv, process>> /\ counter' = counter + 2
        /\ optind' = optind + (IF argv[optind].is = "attached" THEN 1 ELSE 2)
    BY <1>2, Zenon DEF ReadOption, Parsing, connVars
  <2>2. argv[optind].is \in {"flag", "attached"}
    <3>1. argv[optind] \in Arguments
      BY <2>1, SMT DEF ParseInv, Lines
    <3> QED BY <2>1, <3>1, SMT DEF Arguments
  <2>3. CASE argv[optind].is = "flag"
    BY <2>1, <2>3, CountStep, Zenon
  <2>4. CASE argv[optind].is = "attached"
    BY <2>1, <2>4, CountStep, Zenon
  <2> QED BY <2>2, <2>3, <2>4, Zenon
<1>3. CASE ReturnOptions
  <2>1. /\ process = "parsing" /\ optind > Len(argv) /\ UNCHANGED argv
        /\ process' = IF Len(argv) + 1 = counter /\ Required(program) \subseteq DOMAIN options
                      THEN "parsed" ELSE "exit_failure"
    BY <1>3, Zenon DEF ReturnOptions, Becomes
  <2>2. Started' => Len(argv) + 1 = counter
    BY <2>1, Zenon DEF Started
  <2>3. PICK o : o = Len(argv) + 1
    OBVIOUS
  <2>4. optind = o /\ o \in Nat \ {0}
    BY <2>1, <2>3, SMT DEF ParseInv, Lines
  <2>5. counter + Cardinality(Loose("word", o)) = o + Cardinality(Loose("attached", o))
    BY <2>1, <2>4, Zenon DEF CountInv
  <2>6. Cardinality(Loose("word", o)) \in Nat /\ Cardinality(Loose("attached", o)) \in Nat
    BY <2>4, LooseGrows, Zenon
  <2>7. Started' => Cardinality(Loose("word", o)) = Cardinality(Loose("attached", o))
    BY <2>2, <2>3, <2>4, <2>5, <2>6, SMT
  <2>8. /\ Loose("word", o)' = Loose("word", o) /\ Loose("attached", o)' = Loose("attached", o)
    BY <2>1, SameLine, Zenon
  <2>9. process' # "parsing" /\ Len(argv') + 1 = o
    BY <2>1, <2>3, Zenon
  <2> QED BY <2>7, <2>8, <2>9, Zenon DEF CountInv
<1>4. ASSUME process' # "parsing", Started' => Started, UNCHANGED argv
      PROVE  CountInv'
  <2>1. PICK o : o = Len(argv) + 1
    OBVIOUS
  <2>2. /\ Loose("word", o)' = Loose("word", o) /\ Loose("attached", o)' = Loose("attached", o)
    BY <1>4, SameLine, Zenon
  <2>3. Started => Cardinality(Loose("word", o)) = Cardinality(Loose("attached", o))
    BY <2>1, Zenon DEF CountInv
  <2>4. Len(argv') + 1 = o
    BY <1>4, <2>1, Zenon
  <2> QED BY <1>4, <2>2, <2>3, <2>4, Zenon DEF CountInv
<1>5. CASE ExitFromOption \/ (ReadOption /\ Becomes("exit_failure"))
  BY <1>4, <1>5, Zenon DEF ExitFromOption, ReadOption, Becomes, Started
<1>6. CASE StartServer \/ SetUpClient
  BY <1>4, <1>6, Zenon DEF StartServer, SetUpClient, Becomes, Started
<1>7. CASE ServerNext /\ UNCHANGED parseVars
  <2>1. process = "serving" /\ process' \in {"serving", "terminated"}
    BY <1>7, Zenon DEF ServerNext, AcceptorThread, Listen, AcceptSucceeds, AcceptFails,
       CreateManager, StartIn, StartOut, LeaveScope, ReaderEnds, ReaderThrows, WriterSends,
       WriterEnds, PeerConnects, PeerLeaves, News, NoMoreNews, Terminate, Up
  <2> QED BY <1>4, <1>7, <2>1, Zenon DEF parseVars, Started
<1>8. CASE UNCHANGED vars
  <2>1. UNCHANGED <<argv, optind, counter, process>>
    BY <1>8, Zenon DEF vars, parseVars, connVars
  <2>2. \A o : /\ Paired(o)' <=> Paired(o)
               /\ Loose("word", o)' = Loose("word", o)
               /\ Loose("attached", o)' = Loose("attached", o)
    BY <2>1, SameLine, Zenon
  <2> QED BY <2>1, <2>2, Zenon DEF CountInv, Started
<1> QED BY <1>1, <1>2, <1>3, <1>5, <1>6, <1>7, <1>8, Zenon DEF Next

LEMMA CountInvariance == Spec => []CountInv
<1>1. ParseInv /\ CountInv /\ [Next]_vars => CountInv'
  BY CountKeeps, Zenon
<1> QED BY <1>1, CountInit, ParseInvariance, PTL DEF Spec

\* A program that starts has been given every option it requires, and as many arguments
\* that are neither an option nor the value of one as options with an attached value:
\* parse_client and parse_server count two arguments for every option.
THEOREM ArgumentsAreCounted == Spec => []LineIsComplete
<1>1. ParseInv /\ CountInv => LineIsComplete
  <2> SUFFICES ASSUME ParseInv, CountInv, Started
               PROVE  LineIsComplete
    BY Zenon DEF LineIsComplete
  <2>1. \A flag \in Required(program) : Written(flag) # {}
    BY Zenon DEF ParseInv, Complete, OptionsRead
  <2>2. \A kind : {k \in DOMAIN argv : argv[k].is = kind /\ ~Consumed(k)}
                    = Loose(kind, Len(argv) + 1)
    <3>1. PICK o : o = Len(argv) + 1
      OBVIOUS
    <3>2. DOMAIN argv = 1 .. o - 1
      BY <3>1, SMT DEF ParseInv, Lines
    <3>3. \A kind : {k \in DOMAIN argv : argv[k].is = kind /\ ~Consumed(k)} = Loose(kind, o)
      BY <3>2, Zenon DEF Loose
    <3> QED BY <3>1, <3>3, Zenon
  <2> QED BY <2>1, <2>2, Zenon DEF LineIsComplete, CountInv
<1> QED BY <1>1, ParseInvariance, CountInvariance, PTL
=============================================================================
