---------------------------- MODULE SystemProofs ----------------------------
(***************************************************************************)
(* Theorems about System, for every number of clients, players, turns and  *)
(* rounds, with and without foreign clients: what a client reads keeps to  *)
(* the protocol, and what it asks for meets the round it is meant for.     *)
(***************************************************************************)
EXTENDS MCSystem, WellFoundedInduction, TLAPS

\* The steps of System and those of a client that is another program.
AnyNext == Next \/ \E c \in Clients : ForeignJoins(c)

\* A result is only announced after the next round was opened.
ServiceInv == \A v \in Rounds : over[v] => v < open

\* A connection has been told what has happened, in order.
Happened(c, k) == S!Known(feed[c][k])

FeedInv ==
  \A c \in Clients : /\ WellOrdered(feed[c])
                     /\ \A k \in 1 .. Len(feed[c]) : Happened(c, k)

\* A request was sent after the end of rounds that are over.
RequestsInv ==
  /\ \A c \in Clients : \A k \in 1 .. Len(toServer[c]) : toServer[c][k].after < open
  /\ JoinMeetsLaterRound

\* The first n players of round v.
FirstPlayers(v, n) == {v} \X (0 .. n - 1)

\* A client's lobby holds the first players of a round, as far as it was told them.
LobbyInv(c) ==
  \E v \in Rounds, n \in Nat : n <= Len(roster[v]) /\ lobby[c] = FirstPlayers(v, n)

\* Where the thread that reads is, by the message that it has read last.
Follow(c, m) ==
  /\ state[c] = "GAME" => reader_pc[c] = "loop" /\ m.type \in {"GameStarted", "Turn"}
  /\ state[c] = "LOBBY" => m.type \in {"Hello", "AcceptedPlayer", "GameEnded"}
  /\ reader_pc[c] = "loop" /\ m.type \in {"Hello", "GameEnded"} => lobby[c] = {}
  /\ reader_pc[c] = "loop" /\ m.type = "AcceptedPlayer"
       => lobby[c] = FirstPlayers(m.round, m.n + 1)
  /\ reader_pc[c] = "reset" => m.type = "GameEnded"

FollowOK(c) ==
  /\ reader_pc[c] # "thrown"
  /\ reader_pc[c] = "hello" <=> nread[c] = 0
  /\ reader_pc[c] = "hello" => state[c] = "LOBBY" /\ lobby[c] = {}
  /\ nread[c] > 0 => Follow(c, feed[c][nread[c]])
  /\ LobbyInv(c)

FollowInv == \A c \in Clients : FollowOK(c)

IInv == TypeOK /\ ServiceInv /\ FeedInv /\ RequestsInv /\ FollowInv

-----------------------------------------------------------------------------
(* The protocol *)

\* System, the service and the clients speak of the same rounds and messages.
LEMMA SameService ==
  /\ S!Rounds = Rounds /\ S!Messages = Messages /\ S!Hello = Hello
  /\ \A m, next : S!Follows(m, next) <=> Follows(m, next)
<1>1. /\ S!Rounds = Rounds /\ S!Slots = Slots /\ S!Hello = Hello
      /\ \A v, k : /\ S!AcceptedPlayer(v, k) = AcceptedPlayer(v, k)
                   /\ S!GameStarted(v) = GameStarted(v)
                   /\ S!Turn(v, k) = Turn(v, k)
                   /\ S!GameEnded(v) = GameEnded(v)
      /\ \A m : S!OpensRound(m) <=> OpensRound(m)
  BY Zenon
  DEF S!Rounds, Rounds, S!Slots, Slots, S!Hello, Hello, S!AcceptedPlayer, AcceptedPlayer,
      S!GameStarted, GameStarted, S!Turn, Turn, S!GameEnded, GameEnded, S!OpensRound, OpensRound
<1>2. ASSUME NEW m PROVE m \in S!Messages <=> m \in Messages
  BY <1>1, SMT DEF S!Messages, Messages
<1>3. \A m, next : S!Follows(m, next) <=> Follows(m, next)
  <2> SUFFICES ASSUME NEW m, NEW next PROVE S!Follows(m, next) <=> Follows(m, next)
    OBVIOUS
  <2>1. /\ S!AcceptedPlayer(m.round, m.n + 1) = AcceptedPlayer(m.round, m.n + 1)
        /\ S!GameStarted(m.round) = GameStarted(m.round)
        /\ S!Turn(m.round, 0) = Turn(m.round, 0)
        /\ S!Turn(m.round, m.n + 1) = Turn(m.round, m.n + 1)
        /\ S!GameEnded(m.round) = GameEnded(m.round)
        /\ S!OpensRound(next) <=> OpensRound(next)
    BY <1>1, Zenon
  <2> QED
    BY <2>1, SMT DEF S!Follows, Follows
<1> QED
  BY <1>1, <1>2, <1>3, Zenon

LEMMA SameClient == C!Messages = Messages
<1>1. /\ C!Rounds = Rounds /\ C!Slots = Slots /\ C!Hello = Hello
      /\ \A v, k : /\ C!AcceptedPlayer(v, k) = AcceptedPlayer(v, k)
                   /\ C!GameStarted(v) = GameStarted(v)
                   /\ C!Turn(v, k) = Turn(v, k)
                   /\ C!GameEnded(v) = GameEnded(v)
  BY Zenon
  DEF C!Rounds, Rounds, C!Slots, Slots, C!Hello, Hello, C!AcceptedPlayer, AcceptedPlayer,
      C!GameStarted, GameStarted, C!Turn, Turn, C!GameEnded, GameEnded
<1>2. ASSUME NEW m PROVE m \in C!Messages <=> m \in Messages
  BY <1>1, SMT DEF C!Messages, Messages
<1> QED
  BY <1>2, Zenon

\* What the fields of a message are, by its type.
LEMMA MessageFields ==
  ASSUME NEW m \in Messages
  PROVE  /\ m.type \in {"Hello", "AcceptedPlayer", "GameStarted", "Turn", "GameEnded"}
         /\ m.type = "Hello" => m = Hello
         /\ m.type # "Hello" => m.round \in Rounds
         /\ m.type = "AcceptedPlayer" => m.n \in Slots
         /\ m.type = "Turn" => m.n \in 0 .. GameLength
         /\ m.round \in 0 .. MaxRounds
BY ProtocolAssumption
DEF Messages, Hello, AcceptedPlayer, GameStarted, Turn, GameEnded, Rounds

\* What may follow a message, by its type.
LEMMA FollowerTypes ==
  ASSUME NEW m \in Messages, NEW next \in Messages, Follows(m, next)
  PROVE  /\ m.type \in {"Hello", "GameEnded"} =>
              \/ next.type = "AcceptedPlayer" /\ next.n = 0
              \/ next.type = "GameStarted"
         /\ m.type = "AcceptedPlayer" =>
              \/ next.type = "AcceptedPlayer" /\ next.round = m.round /\ next.n = m.n + 1
              \/ next.type = "GameStarted"
         /\ m.type \in {"GameStarted", "Turn"} => next.type \in {"Turn", "GameEnded"}
BY DEF Follows, OpensRound, AcceptedPlayer, GameStarted, Turn, GameEnded

\* What it takes for a message to be known.
LEMMA KnownIs ==
  ASSUME NEW m \in Messages
  PROVE  S!Known(m) <=>
           /\ m.type = "AcceptedPlayer" => Len(roster[m.round]) > m.n
           /\ m.type = "GameStarted" => S!RosterFull(m.round)
           /\ m.type = "Turn" => published[m.round] > m.n
           /\ m.type = "GameEnded" => over[m.round]
BY MessageFields DEF S!Known

-----------------------------------------------------------------------------
(* The greatest of the rounds whose end a client has read *)

LEMMA LeastNumber ==
  ASSUME NEW T \in SUBSET Nat, T # {} PROVE \E x \in T : \A y \in T : x <= y
<1> DEFINE R == OpToRel(<, Nat)
<1>1. IsWellFoundedOn(R, Nat)
  BY NatLessThanWellFounded
<1>2. ASSUME NEW x \in Nat, NEW y \in Nat, y < x PROVE <<y, x>> \in R
  <2>1. <<y, x>> \in Nat \X Nat /\ <<y, x>>[1] = y /\ <<y, x>>[2] = x
    OBVIOUS
  <2> QED
    BY <1>2, <2>1, Zenon DEF OpToRel
<1> HIDE DEF R
<1>3. PICK x \in T : \A y \in T : ~ (<<y, x>> \in R)
  BY <1>1, WFMin
<1>4. ASSUME NEW y \in T PROVE x <= y
  <2>1. ~(y < x)
    BY <1>2, <1>3
  <2> QED
    BY <2>1
<1> QED
  BY <1>4

LEMMA GreatestNumber ==
  ASSUME NEW n \in Nat, NEW T \in SUBSET (0 .. n), T # {}
  PROVE  C!Max(T) \in T /\ \A y \in T : C!Max(T) >= y
<1> DEFINE D == {x \in 0 .. n : n - x \in T}
<1>1. D \in SUBSET Nat /\ D # {}
  <2>1. PICK y : y \in T
    OBVIOUS
  <2>2. n - y \in 0 .. n /\ n - (n - y) = y
    BY <2>1
  <2>3. n - y \in D
    BY <2>1, <2>2
  <2> QED
    BY <2>3
<1>2. PICK x \in D : \A y \in D : x <= y
  BY <1>1, LeastNumber
<1>3. ASSUME NEW y \in T PROVE n - x >= y
  <2>1. n - y \in 0 .. n /\ n - (n - y) = y
    OBVIOUS
  <2>2. n - y \in D
    BY <2>1
  <2>3. x <= n - y
    BY <1>2, <2>2
  <2> QED
    BY <1>2, <2>3
<1>4. n - x \in T
  BY <1>2
<1> HIDE DEF D
<1>5. \E z \in T : \A y \in T : z >= y
  BY <1>3, <1>4
<1> QED
  BY <1>5, Zenon DEF C!Max

\* It is 0 or the round of a GameEnded that the connection was told.
LEMMA LastEndedIs ==
  ASSUME TypeOK, NEW c \in Clients
  PROVE  /\ C!LastEnded(c) \in 0 .. MaxRounds
         /\ \/ C!LastEnded(c) = 0
            \/ \E k \in 1 .. Len(feed[c]) :
                 feed[c][k].type = "GameEnded" /\ feed[c][k].round = C!LastEnded(c)
<1> DEFINE Ended == {i \in 1 .. nread[c] : feed[c][i].type = "GameEnded"}
           T == {0} \union {feed[c][k].round : k \in Ended}
<1>1. /\ feed[c] \in Seq(Messages) /\ nread[c] \in Nat /\ nread[c] <= Len(feed[c])
  BY DEF TypeOK
<1>2. Ended \subseteq 1 .. Len(feed[c])
  BY <1>1
<1>3. \A k \in Ended : feed[c][k].round \in 0 .. MaxRounds
  BY <1>1, <1>2, MessageFields
<1>4. T \in SUBSET (0 .. MaxRounds) /\ T # {} /\ MaxRounds \in Nat
  BY <1>3, ProtocolAssumption
<1>5. C!Max(T) \in T
  BY <1>4, GreatestNumber
<1>6. C!LastEnded(c) = C!Max(T)
  BY DEF C!LastEnded
<1> HIDE DEF T
<1>7. C!Max(T) \in 0 .. MaxRounds
  BY <1>4, <1>5
<1>8. C!Max(T) = 0 \/ \E k \in Ended : feed[c][k].round = C!Max(T)
  BY <1>5, Zenon DEF T
<1> QED
  BY <1>2, <1>6, <1>7, <1>8, Zenon

-----------------------------------------------------------------------------
(* Types *)

LEMMA InitTypes == Init => TypeOK
<1> SUFFICES ASSUME Init PROVE TypeOK
  OBVIOUS
<1> USE ProtocolAssumption, SameService DEF Init, S!Init, C!Init
<1>1. /\ open \in Rounds /\ roster \in [Rounds -> Seq(Clients)]
      /\ published \in [Rounds -> 0 .. GameLength + 1]
  BY DEF Rounds
<1>2. over \in [Rounds -> BOOLEAN] /\ running \in [Clients -> BOOLEAN] /\ join_sent \in [Clients -> BOOLEAN]
  BY Zenon
<1>3. /\ feed \in [Clients -> Seq(Messages)] /\ toServer \in [Clients -> Seq(Requests)]
      /\ nread \in [Clients -> Nat] /\ \A c \in Clients : nread[c] <= Len(feed[c])
      /\ lobby \in [Clients -> SUBSET (Rounds \X Slots)]
  OBVIOUS
<1>4. /\ state \in [Clients -> {"LOBBY", "GAME"}]
      /\ gui_pc \in [Clients -> {"read", "state", "join_sent", "join", "sent", "input"}]
      /\ reader_pc \in [Clients -> {"hello", "loop", "reset", "thrown"}]
  OBVIOUS
<1>5. handling \in [Clients -> [round : Rounds \union {0}, after : 0 .. MaxRounds]]
  BY DEF NoJoin
<1> QED
  BY <1>1, <1>2, <1>3, <1>4, <1>5 DEF TypeOK

\* A request that is sent is one more of the unread ones.
LEMMA RequestSent ==
  ASSUME TypeOK, NEW c \in Clients, NEW msg \in {"join", "input"}, C!SendToServer(c, msg)
  PROVE  /\ toServer' \in [Clients -> Seq(Requests)]
         /\ toServer'[c] = Append(toServer[c], [msg |-> msg, after |-> C!LastEnded(c)])
         /\ \A d \in Clients \ {c} : toServer'[d] = toServer[d]
<1> DEFINE r == [msg |-> msg, after |-> C!LastEnded(c)]
<1>1. r \in Requests
  BY LastEndedIs DEF Requests
<1>2. toServer' = [toServer EXCEPT ![c] = Append(@, r)]
  BY DEF C!SendToServer
<1> HIDE DEF r
<1>3. /\ toServer' \in [Clients -> Seq(Requests)]
      /\ toServer'[c] = Append(toServer[c], r)
      /\ \A d \in Clients \ {c} : toServer'[d] = toServer[d]
  BY <1>1, <1>2 DEF TypeOK
<1> QED
  BY <1>3 DEF r

\* The first request in line is read.
LEMMA RequestRead ==
  ASSUME TypeOK, NEW c \in Clients, ServerReads(c)
  PROVE  /\ toServer' \in [Clients -> Seq(Requests)]
         /\ handling' \in [Clients -> [round : Rounds \union {0}, after : 0 .. MaxRounds]]
         /\ \A d \in Clients \ {c} : toServer'[d] = toServer[d] /\ handling'[d] = handling[d]
         /\ \A k \in 1 .. Len(toServer'[c]) :
              k + 1 \in 1 .. Len(toServer[c]) /\ toServer'[c][k] = toServer[c][k + 1]
         /\ 1 \in 1 .. Len(toServer[c])
         /\ handling'[c] # NoJoin =>
              handling'[c].round = open /\ handling'[c].after = toServer[c][1].after
<1> DEFINE q == toServer[c]
<1>1. q \in Seq(Requests) /\ q # <<>> /\ toServer \in [Clients -> Seq(Requests)]
  BY DEF TypeOK, ServerReads
<1>2. /\ Tail(q) \in Seq(Requests) /\ Head(q) = q[1] /\ q[1] \in Requests
      /\ Len(Tail(q)) = Len(q) - 1 /\ Len(q) \in Nat /\ Len(q) > 0
      /\ \A k \in 1 .. Len(Tail(q)) : Tail(q)[k] = q[k + 1]
  BY <1>1
<1>3. toServer' = [toServer EXCEPT ![c] = Tail(q)]
  BY DEF ServerReads
<1>4. /\ toServer' \in [Clients -> Seq(Requests)] /\ toServer'[c] = Tail(q)
      /\ \A d \in Clients \ {c} : toServer'[d] = toServer[d]
  BY <1>1, <1>2, <1>3
<1> DEFINE h == IF Head(q).msg = "join" THEN [round |-> open, after |-> Head(q).after] ELSE NoJoin
<1>5. handling' = [handling EXCEPT ![c] = h]
  BY DEF ServerReads
<1>6. /\ h \in [round : Rounds \union {0}, after : 0 .. MaxRounds]
      /\ h # NoJoin => h.round = open /\ h.after = q[1].after
  BY <1>2, ProtocolAssumption DEF TypeOK, Requests, NoJoin
<1> HIDE DEF h, q
<1>7. /\ handling' \in [Clients -> [round : Rounds \union {0}, after : 0 .. MaxRounds]]
      /\ handling'[c] = h /\ \A d \in Clients \ {c} : handling'[d] = handling[d]
  BY <1>5, <1>6 DEF TypeOK
<1>8. \A k \in 1 .. Len(Tail(q)) : k + 1 \in 1 .. Len(q)
  BY <1>2
<1>9. 1 \in 1 .. Len(q)
  BY <1>2
<1> QED
  BY <1>2, <1>4, <1>6, <1>7, <1>8, <1>9, Zenon DEF q

\* The message that is read next.
LEMMA MessageRead ==
  ASSUME TypeOK, NEW c \in Clients, NEW m, C!Receives(c, m)
  PROVE  /\ nread[c] \in Nat /\ nread[c] + 1 \in 1 .. Len(feed[c])
         /\ m = feed[c][nread[c] + 1] /\ m \in Messages
         /\ nread' \in [Clients -> Nat] /\ nread'[c] = nread[c] + 1
         /\ \A d \in Clients \ {c} : nread'[d] = nread[d]
<1>1. /\ nread \in [Clients -> Nat] /\ feed[c] \in Seq(Messages)
      /\ nread[c] < Len(feed[c]) /\ m = feed[c][nread[c] + 1]
      /\ nread' = [nread EXCEPT ![c] = @ + 1]
  BY DEF TypeOK, C!Receives
<1> QED
  BY <1>1

\* The service's part of a step: rounds are opened, played and announced one after
\* the other, and what has happened is not undone.
ServiceGrows ==
  /\ open' \in {open, open + 1} /\ open' \in Rounds
  /\ \A v \in Rounds :
       /\ Len(roster'[v]) >= Len(roster[v])
       /\ S!RosterFull(v) => roster'[v] = roster[v]
       /\ published'[v] >= published[v]
       /\ over[v] => over'[v]
       /\ over'[v] => over[v] \/ v < open

LEMMA ServiceStep ==
  ASSUME TypeOK, [AnyNext]_vars
  PROVE  /\ ServiceGrows
         /\ roster' \in [Rounds -> Seq(Clients)]
         /\ published' \in [Rounds -> 0 .. GameLength + 1]
         /\ over' \in [Rounds -> BOOLEAN]
<1> USE ProtocolAssumption
<1> DEFINE Goal ==
             /\ ServiceGrows
             /\ roster' \in [Rounds -> Seq(Clients)]
             /\ published' \in [Rounds -> 0 .. GameLength + 1]
             /\ over' \in [Rounds -> BOOLEAN]
<1> SUFFICES Goal
  OBVIOUS
<1>1. CASE UNCHANGED serviceVars
  BY <1>1 DEF TypeOK, serviceVars, ServiceGrows
<1>2. CASE S!Publish
  <2>1. /\ published' = [published EXCEPT ![open] = @ + 1] /\ published[open] <= GameLength
        /\ UNCHANGED <<open, roster, over>>
    BY <1>2 DEF S!Publish
  <2> QED
    BY <2>1 DEF TypeOK, ServiceGrows
<1>3. CASE S!OpenNextRound
  <2>1. open < MaxRounds /\ open' = open + 1 /\ UNCHANGED <<roster, published, over>>
    BY <1>3 DEF S!OpenNextRound
  <2> QED
    BY <2>1 DEF TypeOK, ServiceGrows, Rounds
<1>4. ASSUME NEW v \in Rounds, S!Announce(v) PROVE Goal
  <2>1. v < open /\ over' = [over EXCEPT ![v] = TRUE] /\ UNCHANGED <<open, roster, published>>
    BY <1>4 DEF S!Announce
  <2> QED
    BY <2>1 DEF TypeOK, ServiceGrows
<1>5. ASSUME NEW c \in Clients, ServerEnrolls(c) PROVE Goal
  <2>1. /\ ~S!RosterFull(open) /\ roster' = [roster EXCEPT ![open] = Append(@, c)]
        /\ UNCHANGED <<open, published, over>>
    BY <1>5 DEF ServerEnrolls, S!Enroll
  <2> QED
    BY <2>1 DEF TypeOK, ServiceGrows, S!RosterFull
<1> HIDE DEF Goal
<1> QED
  BY <1>1, <1>2, <1>3, <1>4, <1>5
  DEF AnyNext, Next, PlayRound, ServerSide, ServerReads, ServerIgnoresJoin, Told, S!Tell,
      ClientSteps, ForeignJoins, serviceVars, vars

\* A step of a client's reading thread, or of a thread that sends a request.
LEMMA ClientTypes ==
  ASSUME TypeOK, NEW c \in Clients, ClientSteps(c) \/ ForeignJoins(c)
  PROVE  /\ toServer' \in [Clients -> Seq(Requests)]
         /\ running' \in [Clients -> BOOLEAN] /\ join_sent' \in [Clients -> BOOLEAN]
         /\ state' \in [Clients -> {"LOBBY", "GAME"}]
         /\ gui_pc' \in [Clients -> {"read", "state", "join_sent", "join", "sent", "input"}]
         /\ reader_pc' \in [Clients -> {"hello", "loop", "reset", "thrown"}]
         /\ nread' \in [Clients -> Nat]
         /\ \A d \in Clients : nread'[d] <= Len(feed[d])
         /\ lobby' \in [Clients -> SUBSET (Rounds \X Slots)]
<1> DEFINE Goal ==
             /\ toServer' \in [Clients -> Seq(Requests)]
             /\ running' \in [Clients -> BOOLEAN] /\ join_sent' \in [Clients -> BOOLEAN]
             /\ state' \in [Clients -> {"LOBBY", "GAME"}]
             /\ gui_pc' \in [Clients -> {"read", "state", "join_sent", "join", "sent", "input"}]
             /\ reader_pc' \in [Clients -> {"hello", "loop", "reset", "thrown"}]
             /\ nread' \in [Clients -> Nat]
             /\ \A d \in Clients : nread'[d] <= Len(feed[d])
             /\ lobby' \in [Clients -> SUBSET (Rounds \X Slots)]
<1> SUFFICES Goal
  OBVIOUS
<1>1. CASE C!GuiKeyPressed(c) \/ C!GuiChecksState(c) \/ C!GuiChecksJoinSent(c)
  BY <1>1 DEF C!GuiKeyPressed, C!GuiChecksState, C!GuiChecksJoinSent, TypeOK
<1>2. CASE C!GuiSendsJoin(c) \/ C!GuiSendsInput(c)
  <2>1. toServer' \in [Clients -> Seq(Requests)]
    BY <1>2, RequestSent DEF C!GuiSendsJoin, C!GuiSendsInput
  <2> QED
    BY <1>2, <2>1 DEF C!GuiSendsJoin, C!GuiSendsInput, TypeOK
<1>3. CASE C!GuiSetsJoinSent(c)
  <2>1. join_sent' \in [Clients -> BOOLEAN]
    BY <1>3, Zenon DEF C!GuiSetsJoinSent, TypeOK
  <2> QED
    BY <1>3, <2>1 DEF C!GuiSetsJoinSent, TypeOK
<1>4. CASE ForeignJoins(c)
  BY <1>4, RequestSent DEF ForeignJoins, TypeOK, clientVars
<1>5. CASE C!ClientExits(c)
  BY <1>5 DEF C!ClientExits, C!threadVars, TypeOK
<1>6. CASE C!ReaderResets(c)
  BY <1>6 DEF C!ReaderResets, C!NewLobby, TypeOK
<1>7. ASSUME NEW m, C!Receives(c, m)
      PROVE  nread' \in [Clients -> Nat] /\ \A d \in Clients : nread'[d] <= Len(feed[d])
  <2>1. /\ nread' \in [Clients -> Nat] /\ nread'[c] = nread[c] + 1
        /\ nread[c] + 1 \in 1 .. Len(feed[c])
        /\ \A d \in Clients \ {c} : nread'[d] = nread[d]
    BY <1>7, MessageRead
  <2>2. nread'[c] <= Len(feed[c])
    BY <2>1
  <2>3. \A d \in Clients \ {c} : nread'[d] <= Len(feed[d])
    BY <2>1 DEF TypeOK
  <2> QED
    BY <2>1, <2>2, <2>3
<1>8. ASSUME NEW ok \in BOOLEAN, C!ThrowsUnless(c, ok)
      PROVE  /\ running' \in [Clients -> BOOLEAN]
             /\ reader_pc' \in [Clients -> {"hello", "loop", "reset", "thrown"}]
  BY <1>8 DEF C!ThrowsUnless, TypeOK
<1>9. CASE C!ReaderHello(c)
  <2>1. PICK m \in Messages : C!Receives(c, m) /\ C!ThrowsUnless(c, m.type = "Hello")
    BY <1>9, SameClient DEF C!ReaderHello
  <2> QED
    BY <1>7, <1>8, <1>9, <2>1 DEF C!ReaderHello, TypeOK
<1>10. CASE C!ReaderLobby(c)
  <2>1. PICK m \in Messages :
          /\ C!Receives(c, m)
          /\ C!ThrowsUnless(c, m.type \in {"GameStarted", "AcceptedPlayer"})
          /\ state' = [state EXCEPT ![c] = IF C!StartsGame(c, m) THEN "GAME" ELSE @]
          /\ lobby' = [lobby EXCEPT ![c] = IF m.type = "AcceptedPlayer"
                                           THEN @ \union {<<m.round, m.n>>} ELSE @]
    BY <1>10, SameClient DEF C!ReaderLobby
  <2>2. m.type = "AcceptedPlayer" => <<m.round, m.n>> \in Rounds \X Slots
    BY MessageFields
  <2>3. lobby' \in [Clients -> SUBSET (Rounds \X Slots)]
    BY <2>1, <2>2 DEF TypeOK
  <2>4. state' \in [Clients -> {"LOBBY", "GAME"}]
    BY <2>1 DEF TypeOK
  <2>5. (m.type \in {"GameStarted", "AcceptedPlayer"}) \in BOOLEAN
    OBVIOUS
  <2>6. /\ running' \in [Clients -> BOOLEAN]
        /\ reader_pc' \in [Clients -> {"hello", "loop", "reset", "thrown"}]
    BY <1>8, <2>1, <2>5, Zenon
  <2> QED
    BY <1>7, <1>10, <2>1, <2>3, <2>4, <2>6 DEF C!ReaderLobby, TypeOK
<1>11. CASE C!ReaderGame(c)
  <2>1. PICK m \in Messages :
          /\ C!Receives(c, m)
          /\ state' = [state EXCEPT ![c] = IF C!EndsGame(c, m) THEN "LOBBY" ELSE @]
          /\ reader_pc' = [reader_pc EXCEPT ![c] = IF C!EndsGame(c, m) THEN "reset" ELSE @]
    BY <1>11, SameClient DEF C!ReaderGame
  <2>2. /\ state' \in [Clients -> {"LOBBY", "GAME"}]
        /\ reader_pc' \in [Clients -> {"hello", "loop", "reset", "thrown"}]
    BY <2>1 DEF TypeOK
  <2> QED
    BY <1>7, <1>11, <2>1, <2>2 DEF C!ReaderGame, TypeOK
<1> HIDE DEF Goal
<1> QED
  BY <1>1, <1>2, <1>3, <1>4, <1>5, <1>6, <1>9, <1>10, <1>11
  DEF ClientSteps, C!GuiHandles, C!ReaderThread

LEMMA TypeStep == ASSUME TypeOK, [AnyNext]_vars PROVE TypeOK'
<1>1. /\ open' \in Rounds
      /\ roster' \in [Rounds -> Seq(Clients)]
      /\ published' \in [Rounds -> 0 .. GameLength + 1]
      /\ over' \in [Rounds -> BOOLEAN]
  BY ServiceStep DEF ServiceGrows
<1>2. CASE UNCHANGED <<feed, toServer, clientVars, handling>>
  BY <1>1, <1>2 DEF TypeOK, clientVars
<1>3. ASSUME NEW c \in Clients, ServerReads(c) PROVE TypeOK'
  BY <1>1, <1>3, RequestRead DEF ServerReads, clientVars, TypeOK
<1>4. ASSUME NEW c \in Clients, ServerEnrolls(c) \/ ServerIgnoresJoin(c) PROVE TypeOK'
  <2>1. /\ handling' = [handling EXCEPT ![c] = NoJoin]
        /\ UNCHANGED <<feed, toServer, clientVars>>
    BY <1>4 DEF ServerEnrolls, ServerIgnoresJoin, S!Enroll
  <2>2. NoJoin \in [round : Rounds \union {0}, after : 0 .. MaxRounds]
    BY ProtocolAssumption DEF NoJoin
  <2>3. handling' \in [Clients -> [round : Rounds \union {0}, after : 0 .. MaxRounds]]
    BY <2>1, <2>2 DEF TypeOK
  <2> QED
    BY <1>1, <2>1, <2>3 DEF TypeOK, clientVars
<1>5. ASSUME NEW c \in Clients, Told(c) PROVE TypeOK'
  <2>1. PICK m \in Messages : feed' = [feed EXCEPT ![c] = Append(@, m)]
    BY <1>5 DEF Told, S!Tell
  <2>2. feed' \in [Clients -> Seq(Messages)] /\ \A d \in Clients : Len(feed'[d]) >= Len(feed[d])
    BY <2>1 DEF TypeOK
  <2>3. \A d \in Clients : /\ Len(feed[d]) \in Nat /\ Len(feed'[d]) \in Nat
                           /\ nread[d] \in Nat /\ nread[d] <= Len(feed[d])
    BY <2>2 DEF TypeOK
  <2>4. \A d \in Clients : nread[d] <= Len(feed'[d])
    BY <2>2, <2>3
  <2> QED
    BY <1>1, <1>5, <2>2, <2>4 DEF Told, clientVars, TypeOK
<1>6. ASSUME NEW c \in Clients, ClientSteps(c) \/ ForeignJoins(c) PROVE TypeOK'
  <2>1. UNCHANGED <<feed, handling>>
    BY <1>6
    DEF ClientSteps, ForeignJoins, C!GuiHandles, C!ReaderThread, C!GuiKeyPressed,
        C!GuiChecksState, C!GuiChecksJoinSent, C!GuiSendsJoin, C!GuiSetsJoinSent,
        C!GuiSendsInput, C!ReaderHello, C!ReaderLobby, C!ReaderGame, C!ReaderResets,
        C!ClientExits
  <2> QED
    BY <1>1, <1>6, <2>1, ClientTypes DEF TypeOK
<1>7. CASE PlayRound
  BY <1>2, <1>7 DEF PlayRound, S!Publish, S!OpenNextRound, S!Announce
<1> QED
  BY <1>2, <1>3, <1>4, <1>5, <1>6, <1>7 DEF AnyNext, Next, ServerSide, vars

-----------------------------------------------------------------------------
(* The service and the connections *)

LEMMA OpenGrows ==
  ASSUME TypeOK, [AnyNext]_vars PROVE open \in Nat /\ open' \in Nat /\ open' >= open
<1>1. open' \in {open, open + 1}
  BY ServiceStep DEF ServiceGrows
<1>2. open \in Nat
  BY ProtocolAssumption DEF TypeOK, Rounds
<1> QED
  BY <1>1, <1>2

LEMMA ServiceInvStep == ASSUME TypeOK, ServiceInv, [AnyNext]_vars PROVE ServiceInv'
<1>1. ServiceGrows
  BY ServiceStep
<1>2. \A v \in Rounds : v \in Nat
  BY ProtocolAssumption DEF Rounds
<1>3. open \in Nat /\ open' \in Nat /\ open' >= open
  BY OpenGrows
<1>4. ASSUME NEW v \in Rounds, over'[v] PROVE v < open'
  <2>1. v < open
    BY <1>1, <1>4 DEF ServiceGrows, ServiceInv
  <2> QED
    BY <1>2, <1>3, <2>1
<1> QED
  BY <1>4 DEF ServiceInv

\* What has happened does not become untrue.
LEMMA KnownStays ==
  ASSUME TypeOK, [AnyNext]_vars, NEW m \in Messages, S!Known(m)
  PROVE  S!Known(m)'
<1> DEFINE v == m.round
<1>1. CASE m.type = "Hello"
  BY <1>1 DEF S!Known
<1>2. CASE m.type # "Hello"
  <2>1. v \in Rounds
    BY <1>2, MessageFields
  <2>2. /\ Len(roster'[v]) >= Len(roster[v])
        /\ S!RosterFull(v) => roster'[v] = roster[v]
        /\ published'[v] >= published[v]
        /\ over[v] => over'[v]
    BY <2>1, ServiceStep DEF ServiceGrows
  <2>3. /\ Len(roster'[v]) \in Nat /\ Len(roster[v]) \in Nat
        /\ published'[v] \in Nat /\ published[v] \in Nat
    <3>1. /\ roster[v] \in Seq(Clients) /\ roster'[v] \in Seq(Clients)
          /\ published[v] \in 0 .. GameLength + 1 /\ published'[v] \in 0 .. GameLength + 1
      BY <2>1, ServiceStep, Zenon DEF TypeOK
    <3> QED
      BY <3>1, ProtocolAssumption, SMT
  <2>4. /\ m.type = "AcceptedPlayer" => m.n \in Nat
        /\ m.type = "Turn" => m.n \in Nat
        /\ m.type \in {"AcceptedPlayer", "GameStarted", "Turn", "GameEnded"}
    BY <1>2, MessageFields, ProtocolAssumption DEF Slots
  <2>5. CASE m.type = "AcceptedPlayer"
    BY <2>2, <2>3, <2>4, <2>5 DEF S!Known
  <2>6. CASE m.type = "GameStarted"
    BY <2>2, <2>6 DEF S!Known, S!RosterFull
  <2>7. CASE m.type = "Turn"
    BY <2>2, <2>3, <2>4, <2>7 DEF S!Known
  <2>8. CASE m.type = "GameEnded"
    BY <2>2, <2>8 DEF S!Known
  <2> QED
    BY <2>4, <2>5, <2>6, <2>7, <2>8
<1> QED
  BY <1>1, <1>2

LEMMA AppendKeepsOrder ==
  ASSUME NEW s \in Seq(Messages), WellOrdered(s), NEW m \in Messages,
         IF s = <<>> THEN m = Hello ELSE Follows(s[Len(s)], m)
  PROVE  WellOrdered(Append(s, m))
<1>1. /\ Len(Append(s, m)) = Len(s) + 1 /\ Len(s) \in Nat
      /\ Append(s, m)[Len(s) + 1] = m
      /\ \A k \in 1 .. Len(s) : Append(s, m)[k] = s[k]
      /\ s # <<>> => Len(s) > 0
      /\ s = <<>> => Len(s) = 0
  OBVIOUS
<1>2. Append(s, m)[1] = Hello
  BY <1>1 DEF WellOrdered
<1>3. ASSUME NEW k \in 1 .. Len(s) PROVE Follows(Append(s, m)[k], Append(s, m)[k + 1])
  <2>1. s # <<>>
    BY <1>1
  <2>2. CASE k = Len(s)
    BY <1>1, <2>1, <2>2
  <2>3. CASE k # Len(s)
    <3>1. k \in 1 .. Len(s) - 1 /\ k + 1 \in 1 .. Len(s)
      BY <1>1, <2>3
    <3>2. Follows(s[k], s[k + 1])
      BY <3>1 DEF WellOrdered
    <3> QED
      BY <1>1, <3>1, <3>2
  <2> QED
    BY <2>2, <2>3
<1>4. 1 .. Len(Append(s, m)) - 1 = 1 .. Len(s)
  BY <1>1
<1> QED
  BY <1>2, <1>3, <1>4 DEF WellOrdered

\* The streams only grow.
LEMMA FeedGrows ==
  ASSUME TypeOK, [AnyNext]_vars
  PROVE  \/ UNCHANGED feed
         \/ \E c \in Clients, m \in Messages :
              /\ S!Known(m) /\ IF feed[c] = <<>> THEN m = Hello ELSE Follows(feed[c][Len(feed[c])], m)
              /\ feed' = [feed EXCEPT ![c] = Append(@, m)]
              /\ UNCHANGED <<toServer, clientVars, handling>>
<1>1. CASE \E c \in Clients : Told(c)
  BY <1>1, SameService DEF Told, S!Tell
<1>2. CASE ~ \E c \in Clients : Told(c)
  BY <1>2
  DEF AnyNext, Next, PlayRound, S!Publish, S!OpenNextRound, S!Announce, ServerSide,
      ServerReads, ServerEnrolls, S!Enroll, ServerIgnoresJoin, ClientSteps, ForeignJoins,
      C!GuiHandles, C!ReaderThread, C!GuiKeyPressed, C!GuiChecksState,
      C!GuiChecksJoinSent, C!GuiSendsJoin, C!GuiSetsJoinSent, C!GuiSendsInput,
      C!ReaderHello, C!ReaderLobby, C!ReaderGame, C!ReaderResets, C!ClientExits, vars
<1> QED
  BY <1>1, <1>2

LEMMA FeedStep == ASSUME TypeOK, FeedInv, [AnyNext]_vars PROVE FeedInv'
<1>1. CASE UNCHANGED feed
  <2>1. \A c \in Clients : \A k \in 1 .. Len(feed[c]) : feed[c][k] \in Messages
    BY DEF TypeOK
  <2>2. ASSUME NEW c \in Clients, NEW k \in 1 .. Len(feed[c])
        PROVE  Happened(c, k)'
    <3>1. PICK m \in Messages : m = feed[c][k]
      BY <2>1
    <3>2. S!Known(m)
      BY <3>1 DEF FeedInv, Happened
    <3>3. S!Known(m)'
      BY <3>2, KnownStays
    <3>4. feed'[c][k] = m
      BY <1>1, <3>1
    <3> QED
      BY <3>3, <3>4, Zenon DEF Happened
  <2> QED
    BY <1>1, <2>2 DEF FeedInv
<1>2. ASSUME NEW c \in Clients, NEW m \in Messages, S!Known(m),
             IF feed[c] = <<>> THEN m = Hello ELSE Follows(feed[c][Len(feed[c])], m),
             feed' = [feed EXCEPT ![c] = Append(@, m)]
      PROVE  FeedInv'
  <2>1. /\ feed[c] \in Seq(Messages) /\ feed'[c] = Append(feed[c], m)
        /\ \A d \in Clients \ {c} : feed'[d] = feed[d]
    BY <1>2 DEF TypeOK
  <2>2. WellOrdered(feed'[c])
    BY <1>2, <2>1, AppendKeepsOrder DEF FeedInv
  <2>3. ASSUME NEW d \in Clients, NEW k \in 1 .. Len(feed'[d])
        PROVE  Happened(d, k)'
    <3>1. PICK x \in Messages : x = feed'[d][k] /\ S!Known(x)
      <4>1. CASE d = c /\ k = Len(feed[c]) + 1
        BY <1>2, <2>1, <4>1
      <4>2. CASE ~(d = c /\ k = Len(feed[c]) + 1)
        <5>1. k \in 1 .. Len(feed[d]) /\ feed'[d][k] = feed[d][k] /\ feed[d] \in Seq(Messages)
          <6>1. feed[d] \in Seq(Messages)
            BY DEF TypeOK
          <6>2. CASE d = c
            BY <2>1, <2>3, <4>2, <6>1, <6>2
          <6>3. CASE d # c
            BY <2>1, <2>3, <6>1, <6>3
          <6> QED
            BY <6>1, <6>2, <6>3
        <5>2. S!Known(feed[d][k]) /\ feed[d][k] \in Messages
          BY <5>1 DEF FeedInv, Happened
        <5> QED
          BY <5>1, <5>2
      <4> QED
        BY <4>1, <4>2
    <3>2. S!Known(x)'
      BY <3>1, KnownStays
    <3> QED
      BY <3>1, <3>2, Zenon DEF Happened
  <2> QED
    BY <2>1, <2>2, <2>3 DEF FeedInv
<1> QED
  BY <1>1, <1>2, FeedGrows

-----------------------------------------------------------------------------
(* The requests *)

\* The end of a round that a client has read about is over.
LEMMA LastEndedIsOver ==
  ASSUME TypeOK, ServiceInv, FeedInv, NEW c \in Clients
  PROVE  C!LastEnded(c) < open
<1>1. open \in Nat /\ 0 < open
  BY ProtocolAssumption DEF TypeOK, Rounds
<1>2. ASSUME NEW k \in 1 .. Len(feed[c]), feed[c][k].type = "GameEnded"
      PROVE  feed[c][k].round < open
  <2>1. feed[c][k] \in Messages /\ S!Known(feed[c][k])
    BY DEF TypeOK, FeedInv, Happened
  <2>2. over[feed[c][k].round] /\ feed[c][k].round \in Rounds
    BY <1>2, <2>1, KnownIs, MessageFields
  <2> QED
    BY <2>2 DEF ServiceInv
<1> QED
  BY <1>1, <1>2, LastEndedIs

\* A request is sent by one client, read by the thread of its connection, or left alone.
LEMMA RequestsStep ==
  ASSUME TypeOK, ServiceInv, FeedInv, RequestsInv, [AnyNext]_vars
  PROVE  RequestsInv'
<1>1. open \in Nat /\ open' \in Nat /\ open' >= open
  BY OpenGrows
<1>2. \A c \in Clients : \A k \in 1 .. Len(toServer[c]) : toServer[c][k].after \in Nat
  <2>1. \A c \in Clients : \A k \in 1 .. Len(toServer[c]) : toServer[c][k] \in Requests
    BY DEF TypeOK
  <2>2. \A r \in Requests : r.after \in Nat
    BY ProtocolAssumption DEF Requests
  <2> QED
    BY <2>1, <2>2
<1>3. \A c \in Clients :
        /\ \A k \in 1 .. Len(toServer[c]) : toServer[c][k].after < open'
        /\ handling[c] # NoJoin => handling[c].round > handling[c].after
  BY <1>1, <1>2 DEF RequestsInv, JoinMeetsLaterRound
<1>4. CASE UNCHANGED <<toServer, handling>>
  BY <1>3, <1>4 DEF RequestsInv, JoinMeetsLaterRound
<1>5. ASSUME NEW c \in Clients, ServerReads(c) PROVE RequestsInv'
  <2>1. /\ \A d \in Clients \ {c} : toServer'[d] = toServer[d] /\ handling'[d] = handling[d]
        /\ \A k \in 1 .. Len(toServer'[c]) :
             k + 1 \in 1 .. Len(toServer[c]) /\ toServer'[c][k] = toServer[c][k + 1]
        /\ 1 \in 1 .. Len(toServer[c])
        /\ handling'[c] # NoJoin =>
             handling'[c].round = open /\ handling'[c].after = toServer[c][1].after
    BY <1>5, RequestRead
  <2>2. handling'[c] # NoJoin => handling'[c].round > handling'[c].after
    <3>1. toServer[c][1].after < open /\ toServer[c][1].after \in Nat
      BY <1>2, <2>1 DEF RequestsInv
    <3> QED
      BY <1>1, <2>1, <3>1
  <2>3. \A k \in 1 .. Len(toServer'[c]) : toServer'[c][k].after < open'
    BY <1>3, <2>1
  <2> QED
    BY <1>3, <2>1, <2>2, <2>3 DEF RequestsInv, JoinMeetsLaterRound
<1>6. ASSUME NEW c \in Clients, ServerEnrolls(c) \/ ServerIgnoresJoin(c) PROVE RequestsInv'
  <2>1. /\ handling' = [handling EXCEPT ![c] = NoJoin] /\ UNCHANGED toServer
    BY <1>6 DEF ServerEnrolls, ServerIgnoresJoin
  <2>2. \A d \in Clients : handling'[d] = NoJoin \/ handling'[d] = handling[d]
    BY <2>1 DEF TypeOK
  <2> QED
    BY <1>3, <2>1, <2>2 DEF RequestsInv, JoinMeetsLaterRound
<1>7. ASSUME NEW c \in Clients, NEW msg \in {"join", "input"}, C!SendToServer(c, msg),
             UNCHANGED handling
      PROVE  RequestsInv'
  <2> DEFINE r == [msg |-> msg, after |-> C!LastEnded(c)]
  <2>1. /\ toServer'[c] = Append(toServer[c], r)
        /\ \A d \in Clients \ {c} : toServer'[d] = toServer[d]
    BY <1>7, RequestSent
  <2>2. r.after < open'
    BY <1>1, LastEndedIsOver, LastEndedIs, ProtocolAssumption
  <2>3. toServer[c] \in Seq(Requests)
    BY DEF TypeOK
  <2> HIDE DEF r
  <2>4. \A k \in 1 .. Len(toServer'[c]) :
          toServer'[c][k] = r \/ (k \in 1 .. Len(toServer[c]) /\ toServer'[c][k] = toServer[c][k])
    BY <2>1, <2>3
  <2>5. \A k \in 1 .. Len(toServer'[c]) : toServer'[c][k].after < open'
    BY <1>3, <2>2, <2>4
  <2> QED
    BY <1>3, <1>7, <2>1, <2>5 DEF RequestsInv, JoinMeetsLaterRound
<1> QED
  BY <1>4, <1>5, <1>6, <1>7
  DEF AnyNext, Next, PlayRound, ServerSide, Told, ClientSteps, ForeignJoins,
      C!GuiHandles, C!ReaderThread, C!GuiKeyPressed, C!GuiChecksState,
      C!GuiChecksJoinSent, C!GuiSendsJoin, C!GuiSetsJoinSent, C!GuiSendsInput,
      C!ReaderHello, C!ReaderLobby, C!ReaderGame, C!ReaderResets, C!ClientExits, vars

-----------------------------------------------------------------------------
(* The clients' readers *)

readerVars == <<state, reader_pc, nread, lobby>>

\* What a client has read does not change by what it is told later.
LEMMA FollowStays ==
  ASSUME TypeOK, [AnyNext]_vars, NEW c \in Clients, FollowOK(c),
         state'[c] = state[c], reader_pc'[c] = reader_pc[c],
         nread'[c] = nread[c], lobby'[c] = lobby[c]
  PROVE  FollowOK(c)'
<1>1. feed[c] \in Seq(Messages) /\ nread[c] \in Nat /\ nread[c] <= Len(feed[c])
  BY DEF TypeOK
<1>2. ASSUME nread[c] > 0 PROVE feed'[c][nread[c]] = feed[c][nread[c]]
  <2>1. nread[c] \in 1 .. Len(feed[c])
    BY <1>1, <1>2
  <2>2. CASE UNCHANGED feed
    BY <2>2, Zenon
  <2>3. ASSUME NEW d \in Clients, NEW m \in Messages,
               feed' = [feed EXCEPT ![d] = Append(@, m)]
        PROVE  feed'[c][nread[c]] = feed[c][nread[c]]
    <3>1. feed'[c] = (IF c = d THEN Append(feed[c], m) ELSE feed[c])
      BY <2>3, Zenon DEF TypeOK
    <3> QED
      BY <1>1, <2>1, <3>1, SMT
  <2> QED
    BY <2>2, <2>3, FeedGrows, Zenon
<1>3. LobbyInv(c)'
  <2>1. PICK v \in Rounds, n \in Nat : n <= Len(roster[v]) /\ lobby[c] = FirstPlayers(v, n)
    BY DEF FollowOK, LobbyInv
  <2>2. Len(roster'[v]) >= Len(roster[v]) /\ Len(roster[v]) \in Nat /\ Len(roster'[v]) \in Nat
    <3>1. Len(roster'[v]) >= Len(roster[v])
      BY <2>1, ServiceStep, Zenon DEF ServiceGrows
    <3>2. roster[v] \in Seq(Clients) /\ roster'[v] \in Seq(Clients)
      BY <2>1, ServiceStep, Zenon DEF TypeOK
    <3> QED
      BY <3>1, <3>2, SMT
  <2>3. n <= Len(roster'[v])
    BY <2>1, <2>2
  <2> QED
    BY <2>1, <2>3 DEF LobbyInv
<1> QED
  BY <1>2, <1>3 DEF FollowOK, Follow

\* A message that a client reads after another one is one that may follow it.
LEMMA ReadInOrder ==
  ASSUME TypeOK, FeedInv, NEW c \in Clients, NEW m, C!Receives(c, m)
  PROVE  /\ nread[c] = 0 => m = Hello
         /\ nread[c] > 0 => feed[c][nread[c]] \in Messages /\ Follows(feed[c][nread[c]], m)
<1>1. /\ nread[c] \in Nat /\ nread[c] + 1 \in 1 .. Len(feed[c])
      /\ m = feed[c][nread[c] + 1] /\ m \in Messages /\ feed[c] \in Seq(Messages)
  BY MessageRead DEF TypeOK
<1>2. WellOrdered(feed[c])
  BY DEF FeedInv
<1>3. CASE nread[c] = 0
  <2>1. feed[c] # <<>>
    BY <1>1
  <2> QED
    BY <1>1, <1>2, <1>3, <2>1 DEF WellOrdered
<1>4. CASE nread[c] > 0
  <2>1. nread[c] \in 1 .. Len(feed[c]) - 1 /\ nread[c] \in 1 .. Len(feed[c])
    BY <1>1, <1>4
  <2> QED
    BY <1>1, <1>2, <1>4, <2>1 DEF WellOrdered
<1> QED
  BY <1>1, <1>3, <1>4

\* A player that a client is told about is enrolled.
LEMMA PlayerIsKnown ==
  ASSUME TypeOK, FeedInv, NEW c \in Clients, NEW m, C!Receives(c, m), m.type = "AcceptedPlayer"
  PROVE  m.round \in Rounds /\ m.n \in Nat /\ m.n + 1 <= Len(roster[m.round])
<1>1. nread[c] + 1 \in 1 .. Len(feed[c]) /\ m = feed[c][nread[c] + 1] /\ m \in Messages
  BY MessageRead
<1>2. S!Known(m)
  BY <1>1 DEF FeedInv, Happened
<1>3. m.round \in Rounds /\ m.n \in Nat /\ Len(roster[m.round]) > m.n
  BY <1>1, <1>2, KnownIs, MessageFields, ProtocolAssumption DEF Slots
<1>4. Len(roster[m.round]) \in Nat
  BY <1>3 DEF TypeOK
<1> QED
  BY <1>3, <1>4

\* One more player of a round is the next of the first ones.
LEMMA OneMorePlayer ==
  ASSUME NEW v, NEW n \in Nat
  PROVE  /\ FirstPlayers(v, n) \union {<<v, n>>} = FirstPlayers(v, n + 1)
         /\ FirstPlayers(v, 0) = {}
<1>1. 0 .. (n + 1) - 1 = (0 .. n - 1) \union {n} /\ 0 .. 0 - 1 = {}
  OBVIOUS
<1> QED
  BY <1>1 DEF FirstPlayers

LEMMA HelloStep ==
  ASSUME TypeOK, FeedInv, FollowInv, NEW c \in Clients, C!ReaderHello(c), UNCHANGED roster
  PROVE  FollowOK(c)'
<1>1. PICK m \in Messages : C!Receives(c, m) /\ C!ThrowsUnless(c, m.type = "Hello")
  BY SameClient DEF C!ReaderHello
<1>2. /\ reader_pc[c] = "hello" /\ UNCHANGED <<feed, state, lobby>>
      /\ nread[c] = 0 /\ state[c] = "LOBBY" /\ lobby[c] = {} /\ LobbyInv(c)
  BY DEF C!ReaderHello, FollowInv, FollowOK
<1>3. m = Hello /\ m.type = "Hello"
  BY <1>1, <1>2, ReadInOrder DEF Hello
<1>4. reader_pc'[c] = "loop"
  BY <1>1, <1>3 DEF C!ThrowsUnless, TypeOK
<1>5. nread'[c] = 1 /\ feed'[c][nread'[c]] = m
  BY <1>1, <1>2, MessageRead
<1>6. LobbyInv(c)'
  BY <1>2 DEF LobbyInv
<1> QED
  BY <1>2, <1>3, <1>4, <1>5, <1>6 DEF FollowOK, Follow

LEMMA LobbyStep ==
  ASSUME TypeOK, FeedInv, FollowInv, NEW c \in Clients, C!ReaderLobby(c), UNCHANGED roster
  PROVE  FollowOK(c)'
<1>1. PICK m \in Messages :
        /\ C!Receives(c, m)
        /\ C!ThrowsUnless(c, m.type \in {"GameStarted", "AcceptedPlayer"})
        /\ state' = [state EXCEPT ![c] = IF C!StartsGame(c, m) THEN "GAME" ELSE @]
        /\ lobby' = [lobby EXCEPT ![c] = IF m.type = "AcceptedPlayer"
                                         THEN @ \union {<<m.round, m.n>>} ELSE @]
  BY SameClient DEF C!ReaderLobby
<1> DEFINE prev == feed[c][nread[c]]
<1>2. /\ reader_pc[c] = "loop" /\ state[c] = "LOBBY" /\ UNCHANGED feed
      /\ nread[c] # 0 /\ LobbyInv(c)
  BY DEF C!ReaderLobby, FollowInv, FollowOK
<1>3. nread[c] > 0
  BY <1>2 DEF TypeOK
<1>4. Follow(c, prev)
  BY <1>3 DEF FollowInv, FollowOK
<1>5. prev \in Messages /\ Follows(prev, m)
  BY <1>1, <1>3, ReadInOrder
<1>6. /\ prev.type \in {"Hello", "AcceptedPlayer", "GameEnded"}
      /\ prev.type \in {"Hello", "GameEnded"} => lobby[c] = {}
      /\ prev.type = "AcceptedPlayer" => lobby[c] = FirstPlayers(prev.round, prev.n + 1)
  BY <1>2, <1>4 DEF Follow
<1>7. nread'[c] = nread[c] + 1 /\ nread'[c] # 0 /\ feed'[c][nread'[c]] = m
  BY <1>1, <1>2, MessageRead
<1>8. CASE m.type = "AcceptedPlayer"
  <2>1. state'[c] = "LOBBY" /\ lobby'[c] = lobby[c] \union {<<m.round, m.n>>}
    BY <1>1, <1>2, <1>8 DEF C!StartsGame, TypeOK
  <2>2. reader_pc'[c] = "loop"
    BY <1>1, <1>8 DEF C!ThrowsUnless, TypeOK
  <2>3. m.round \in Rounds /\ m.n \in Nat /\ m.n + 1 <= Len(roster[m.round])
    BY <1>1, <1>8, PlayerIsKnown
  <2>4. lobby[c] = FirstPlayers(m.round, m.n)
    <3>1. CASE prev.type \in {"Hello", "GameEnded"}
      BY <1>5, <1>6, <1>8, <3>1, FollowerTypes, OneMorePlayer
    <3>2. CASE prev.type = "AcceptedPlayer"
      BY <1>5, <1>6, <1>8, <3>2, FollowerTypes
    <3> QED
      BY <1>6, <3>1, <3>2
  <2>5. lobby'[c] = FirstPlayers(m.round, m.n + 1)
    BY <2>1, <2>3, <2>4, OneMorePlayer
  <2>6. LobbyInv(c)'
    <3>1. m.n + 1 \in Nat
      BY <2>3
    <3> QED
      BY <2>3, <2>5, <3>1 DEF LobbyInv
  <2> QED
    BY <1>7, <1>8, <2>1, <2>2, <2>5, <2>6 DEF FollowOK, Follow
<1>9. CASE m.type = "GameStarted"
  <2>1. state'[c] = "GAME" /\ lobby'[c] = lobby[c]
    BY <1>1, <1>9 DEF C!StartsGame, TypeOK
  <2>2. reader_pc'[c] = "loop"
    BY <1>1, <1>9 DEF C!ThrowsUnless, TypeOK
  <2>3. LobbyInv(c)'
    BY <1>2, <2>1 DEF LobbyInv
  <2> QED
    BY <1>7, <1>9, <2>1, <2>2, <2>3 DEF FollowOK, Follow
<1> QED
  BY <1>5, <1>6, <1>8, <1>9, FollowerTypes

LEMMA GameStep ==
  ASSUME TypeOK, FeedInv, FollowInv, NEW c \in Clients, C!ReaderGame(c), UNCHANGED roster
  PROVE  FollowOK(c)'
<1>1. PICK m \in Messages :
        /\ C!Receives(c, m)
        /\ state' = [state EXCEPT ![c] = IF C!EndsGame(c, m) THEN "LOBBY" ELSE @]
        /\ reader_pc' = [reader_pc EXCEPT ![c] = IF C!EndsGame(c, m) THEN "reset" ELSE @]
  BY SameClient DEF C!ReaderGame
<1> DEFINE prev == feed[c][nread[c]]
<1>2. /\ reader_pc[c] = "loop" /\ state[c] = "GAME" /\ UNCHANGED <<feed, lobby>>
      /\ nread[c] # 0 /\ LobbyInv(c)
  BY DEF C!ReaderGame, FollowInv, FollowOK
<1>3. nread[c] > 0
  BY <1>2 DEF TypeOK
<1>4. Follow(c, prev)
  BY <1>3 DEF FollowInv, FollowOK
<1>5. prev \in Messages /\ Follows(prev, m)
  BY <1>1, <1>3, ReadInOrder
<1>6. m.type \in {"Turn", "GameEnded"}
  BY <1>2, <1>4, <1>5, FollowerTypes DEF Follow
<1>7. nread'[c] = nread[c] + 1 /\ nread'[c] # 0 /\ feed'[c][nread'[c]] = m
  BY <1>1, <1>2, MessageRead
<1>8. LobbyInv(c)' /\ lobby'[c] = lobby[c]
  BY <1>2 DEF LobbyInv
<1>9. /\ state'[c] = IF m.type = "GameEnded" THEN "LOBBY" ELSE "GAME"
      /\ reader_pc'[c] = IF m.type = "GameEnded" THEN "reset" ELSE "loop"
  BY <1>1, <1>2 DEF C!EndsGame, TypeOK
<1> QED
  BY <1>6, <1>7, <1>8, <1>9 DEF FollowOK, Follow

LEMMA ResetStep ==
  ASSUME TypeOK, FollowInv, NEW c \in Clients, C!ReaderResets(c), UNCHANGED roster
  PROVE  FollowOK(c)'
<1>1. /\ reader_pc[c] = "reset" /\ reader_pc'[c] = "loop" /\ lobby'[c] = {}
      /\ UNCHANGED <<feed, state, nread>>
  BY DEF C!ReaderResets, C!NewLobby, TypeOK
<1>2. nread[c] # 0
  BY <1>1 DEF FollowInv, FollowOK
<1>3. Follow(c, feed[c][nread[c]]) /\ nread[c] > 0
  BY <1>2 DEF FollowInv, FollowOK, TypeOK
<1>4. LobbyInv(c)'
  <2>1. 1 \in Rounds /\ 0 \in Nat /\ 0 <= Len(roster[1])
    BY ProtocolAssumption DEF Rounds, TypeOK
  <2>2. lobby'[c] = FirstPlayers(1, 0)
    BY <1>1, OneMorePlayer
  <2> QED
    BY <2>1, <2>2 DEF LobbyInv
<1> QED
  BY <1>1, <1>2, <1>3, <1>4 DEF FollowOK, Follow, TypeOK

\* Only the reading thread of a client touches what it follows the stream with.
LEMMA FollowStep ==
  ASSUME TypeOK, FeedInv, FollowInv, [AnyNext]_vars
  PROVE  FollowInv'
<1>1. CASE UNCHANGED readerVars
  BY <1>1, FollowStays DEF FollowInv, readerVars
<1>2. ASSUME NEW c \in Clients, C!ReaderThread(c), UNCHANGED serviceVars
      PROVE  FollowInv'
  <2>1. FollowOK(c)'
    BY <1>2, HelloStep, LobbyStep, GameStep, ResetStep DEF C!ReaderThread, serviceVars
  <2>2. ASSUME NEW d \in Clients \ {c} PROVE FollowOK(d)'
    <3>1. /\ state'[d] = state[d] /\ reader_pc'[d] = reader_pc[d]
          /\ nread'[d] = nread[d] /\ lobby'[d] = lobby[d]
      BY <1>2, <2>2
      DEF C!ReaderThread, C!ReaderHello, C!ReaderLobby, C!ReaderGame, C!ReaderResets,
          C!Receives, C!ThrowsUnless, C!NewLobby, TypeOK
    <3> QED
      BY <3>1, FollowStays DEF FollowInv
  <2> QED
    BY <2>1, <2>2 DEF FollowInv
<1> QED
  BY <1>1, <1>2
  DEF AnyNext, Next, PlayRound, ServerSide, ServerReads, ServerEnrolls, ServerIgnoresJoin,
      Told, ClientSteps, ForeignJoins, C!GuiHandles, C!GuiKeyPressed, C!GuiChecksState,
      C!GuiChecksJoinSent, C!GuiSendsJoin, C!GuiSetsJoinSent, C!GuiSendsInput,
      C!ClientExits, C!threadVars, clientVars, readerVars, vars

-----------------------------------------------------------------------------
(* The theorems *)

LEMMA InitIInv == Init => IInv
<1> SUFFICES ASSUME Init PROVE IInv
  OBVIOUS
<1>1. TypeOK
  BY InitTypes
<1>2. ServiceInv
  BY SameService DEF Init, S!Init, ServiceInv
<1>3. FeedInv
  <2>1. WellOrdered(<<>>)
    BY DEF WellOrdered
  <2>2. \A c \in Clients : feed[c] = <<>>
    BY DEF Init, S!Init
  <2>3. 1 .. Len(<<>>) = {}
    OBVIOUS
  <2> QED
    BY <2>1, <2>2, <2>3, Zenon DEF FeedInv
<1>4. RequestsInv
  BY DEF Init, C!Init, RequestsInv, JoinMeetsLaterRound
<1>5. FollowInv
  <2> SUFFICES ASSUME NEW c \in Clients PROVE FollowOK(c)
    BY DEF FollowInv
  <2>1. reader_pc[c] = "hello" /\ nread[c] = 0 /\ state[c] = "LOBBY" /\ lobby[c] = {}
    BY DEF Init, C!Init
  <2>2. LobbyInv(c)
    <3>1. 1 \in Rounds /\ 0 \in Nat /\ 0 <= Len(roster[1])
      BY <1>1, ProtocolAssumption DEF Rounds, TypeOK
    <3>2. lobby[c] = FirstPlayers(1, 0)
      BY <2>1, OneMorePlayer
    <3> QED
      BY <3>1, <3>2 DEF LobbyInv
  <2> QED
    BY <2>1, <2>2 DEF FollowOK
<1> QED
  BY <1>1, <1>2, <1>3, <1>4, <1>5 DEF IInv

\* The system with clients of this program only, and with foreign ones.
LEMMA Invariance == Spec \/ SpecForeign => []IInv
<1>1. Init => IInv
  BY InitIInv
<1>2. IInv /\ [AnyNext]_vars => IInv'
  BY TypeStep, ServiceInvStep, FeedStep, RequestsStep, FollowStep DEF IInv
<1>3. [Next]_vars => [AnyNext]_vars
  BY DEF AnyNext
<1>4. [NextForeign]_vars => [AnyNext]_vars
  BY ForeignAssumption DEF NextForeign, AnyNext, Next
<1> QED
  BY <1>1, <1>2, <1>3, <1>4, PTL DEF Spec, SpecForeign

\* Every variable has its type, and no client reads more than it was sent.
THEOREM TypeCorrect == Spec \/ SpecForeign => []TypeOK
BY Invariance, PTL DEF IInv

\* No client ever throws because of a message it does not expect (client.cpp:74).
THEOREM NothingIsForbidden == Spec \/ SpecForeign => []NeverForbidden
<1>1. IInv => NeverForbidden
  BY DEF IInv, FollowInv, FollowOK, NeverForbidden
<1> QED
  BY <1>1, Invariance, PTL

\* A lobby holds players of one round, from the first one on, all of them enrolled.
THEOREM OneRoundInLobby == Spec \/ SpecForeign => []LobbyShowsOneRound
<1>1. IInv => LobbyShowsOneRound
  <2> SUFFICES ASSUME IInv, NEW c \in Clients, NEW x \in lobby[c]
               PROVE  /\ \A y \in lobby[c] : x[1] = y[1]
                      /\ \A i \in 0 .. x[2] : <<x[1], i>> \in lobby[c]
                      /\ x[2] < Len(roster[x[1]])
    BY DEF LobbyShowsOneRound
  <2>1. PICK v \in Rounds, n \in Nat : n <= Len(roster[v]) /\ lobby[c] = FirstPlayers(v, n)
    BY DEF IInv, FollowInv, FollowOK, LobbyInv
  <2>2. \A y \in lobby[c] : y[1] = v /\ y[2] \in 0 .. n - 1
    BY <2>1 DEF FirstPlayers
  <2>3. x[2] < Len(roster[v])
    <3>1. Len(roster[v]) \in Nat
      BY DEF IInv, TypeOK
    <3> QED
      BY <2>1, <2>2, <3>1
  <2>4. \A i \in 0 .. x[2] : <<v, i>> \in lobby[c]
    BY <2>1, <2>2 DEF FirstPlayers
  <2> QED
    BY <2>2, <2>3, <2>4
<1> QED
  BY <1>1, Invariance, PTL

\* A Join that was sent after the end of a round is handled against a later one.
THEOREM JoinIsForLaterRound == Spec \/ SpecForeign => []JoinMeetsLaterRound
BY Invariance, PTL DEF IInv, RequestsInv
=============================================================================
