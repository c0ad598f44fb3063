# Verification of the Bomberman server and client

TLA+ models of the multiplayer game in `src/src/`: a server that plays one round of Bomberman
after the other, and a client that connects a graphical interface (GUI) to it. TLC checks the
models on small instances; TLAPS proves the safety properties, and the refinements of the server, of its
containers and of a connection, for every instance.

## The system

| component | state | operations | interacts through |
|---|---|---|---|
| main thread (`server.cpp` `main`) | the round's containers, `GameServer` | wait for players, start, play the turns, score, `reset_shared`, mark as finished | `shared` under `shared.mutex`, the containers |
| reader thread, one per connection (`handle_tcp_stream_in`) | last containers and version, `joined_the_game`, `player_id` | Join, store a move | `shared`, `AcceptedPlayerContainer`, `MoveContainer`, the socket |
| writer thread, one per connection (`handle_tcp_stream_out`) | last containers, loop index | Hello, players, GameStarted, turns, GameEnded, again | `shared`, `AcceptedPlayerContainer`, `TurnContainer`, the socket |
| acceptor (`accept_new_connections`, `ConnectionAcceptor`) | listening socket | accept, start two threads, retry a failed accept | threads, descriptors, the `shared_ptr` to the handler |
| containers (`concurrency/`) | players; move slots; turns, `finished`, scores | each method under the container's mutex, three of them wait on a condition variable | called by the threads above |
| messages and managers (`network/messages`, `message_manager`) | – | encode, decode, dispatch on the id | the handlers below |
| TCP and UDP handlers (`network_handler`) | receive deque, packet buffers | receive n bytes, send n bytes, packets | sockets |
| client program (`client.cpp`) | atomics `state` and `join_sent`, one lobby or game | GUI thread: Join or input to the server; reader thread: follow the server, draw | TCP to the server, UDP to the GUI |
| game logic (`game_logic/game`) | board, bombs, robots, scores | `GameServer`: first turn, next turn; `GameClient`: apply a turn's events | `MoveContainer`, Turn messages |
| lobby (`game_logic/lobby`) | the players shown | accept a player | AcceptedPlayer messages |
| options (`config/`) | `optind`, the argument counter | parse and bound the command line | constants of everything else |
| test (`test/accepted_player_container_test.cpp`) | three threads, ten places | add players, join the threads, wait, ask for one too many | `AcceptedPlayerContainer` |

What is hard here:

* Every round has new containers. A thread takes them under `shared.mutex` and works on them
  after releasing it, so any thread may be one or several rounds behind the others, and
  `is_game_started()` is answered at yet another moment.
* Reader and writer of a connection do not tell each other anything, also when one of them dies.
* `main` resets the shared state *before* it announces the end of the game; all of the
  client's and the writers' reasoning about rounds depends on that order.
* The client's two threads share two atomics that are tested and set one at a time.
* Turn numbers and bomb timers are 16 bits wide, sizes and lengths on the wire 8 to 32.
* A container's methods work statement by statement, and wait on a condition variable that is
  notified for every change; what makes them atomic and wakes the right threads is their mutex.
* TCP knows no messages: sends and receives cut the stream anywhere, a connection breaks anywhere,
  and only the order in which the fields are read says what a byte means.
* The two threads of a connection share its handler; the last to leave must close the socket, and
  descriptors run out if a thread does not leave.
* Client and server both compute the game from the same events and must agree.

What makes each component correct: a round's players are fixed once complete and agree for
everybody; nobody holds two ids; a move is a player's own, is used once and is never lost by the
snapshot; a client is told a round in order, completely, and once; a full round is played
whatever becomes of its connections; the client follows the stream from wherever it joins it, and
gets the chance to join again; the client's board equals the server's; a call on a container takes
effect at one moment and a call that waits returns; a message is received whole or not at all, as it was
sent; a datagram of the GUI is one key and a datagram to the GUI is one view; a socket is closed after
both of its threads and not later; a program starts only with the numbers its command line says.

## Modules

| module | models | |
|---|---|---|
| `Protocol` | the messages from the server and their order (`WellOrdered`) | constants of the project and their assumptions |
| `GameService` | what the server promises, without threads | abstract specification: Enroll, Publish, OpenNextRound, Announce, Tell |
| `Server` | `server.cpp` and the containers of `concurrency/` | main thread, readers, writers; implements `GameService` |
| `ServerProofs` | – | theorems about `Server`: types, rosters, the order of the messages, the moves, that it implements `GameService` |
| `MCServer` | – | instances of `Server` for TLC |
| `Client` | `client.cpp` and the lobby | both threads of every client |
| `System` | clients, the service and the server's side of the requests | composes `GameService` and `Client` |
| `SystemProofs` | – | theorems about `System` |
| `MCSystem` | – | instances of `System` for TLC |
| `Board` | `explode_one_direction`, `find_explosions` | as sets of fields |
| `Game` | `GameServer` and `GameClient` | a game computed, described by events, and computed again |
| `GameProofs` | – | theorems about `Game` |
| `MCGame` | – | instances of `Game` for TLC |
| `Containers` | the state of the containers and what their methods look at | shared by the next two |
| `Calls` | the methods as the other modules use them: atomic | abstract specification of `Monitors` |
| `Monitors` | the methods statement by statement, mutexes, wait sets, `notify_all` | threads that run programs of calls; implements `Calls` |
| `AcceptedPlayerContainerTest` | the repository's test, of any size | a program for the threads of `Monitors` |
| `MonitorsProofs` | – | theorems about `Monitors` |
| `MonitorsRefinement` | – | the proof that `Monitors` implements `Calls`, and what follows for ids and for the test |
| `MCMonitors` | the threads of a round | instances of `Monitors` for TLC |
| `Encoding` | `messages.cpp`: what is written and what is read, field by field | messages as sequences of elements, elements as bytes |
| `EncodingProofs` | – | theorems about `Encoding`: what is read is what was written |
| `Channel` | a direction of a connection as `Server`, `Client` and `System` use it | abstract specification |
| `TcpStream` | `TCPHandler`: partial sends, the receive deque, elements, failures | one direction of a connection |
| `Wire` | `UDPHandler`, the managers, what the client's threads read and write, the lobby's view | composes the stream with the GUI; implements `Channel` |
| `WireProofs` | – | theorems about `Wire`, with the proof that it implements `Channel` |
| `MCWire` | – | an instance of `Wire` for TLC |
| `Options` | what `getopt`, `parse_numerical` and `parse_address` make of a text | numbers of a given width |
| `Connections` | `accept_new_connections`, `ConnectionAcceptor`, `~TCPHandler` | acceptor and connections as resources |
| `Startup` | `parse_client`, `parse_server`, both `main`s | composes `Options` and `Connections` |
| `StartupProofs` | – | theorems about `Startup` |
| `MCStartup` | – | an instance of `Startup` for TLC |

**State.** A round is named by the `game_version` under which its containers were created, so a
`shared_ptr` held in a thread is a number: `main_round`, `in_round[c]`, `out_round[c]`. The
containers of all rounds are kept (`accepted`, `slots`, `turns`, `finished`), because a thread may
still use an old one. A stored move is reduced to who sent it and to how many
snapshots of its container had been taken then (the history `snapshots`, which only properties read); a turn to its number and the moves it used. `sent[c]` is a history of everything
written to connection `c`; its messages carry the round they were taken from, which is not on the
wire but is what the properties are about.

**Actions.** A block under `shared.mutex` or a container method under its mutex is one action; a
`condition_variable::wait` is the guard of its action. Between two such actions a thread may be
preempted at will. `main` is `MainPlayersJoined`, `MainStartGame`, `MainInitGame`,
`MainSnapshotMoves`, `MainAppendTurn`, `MainResetShared`, `MainMarkFinished`; the reader is
`InRead`, `InJoin`, `InJoinIgnored`, `InCheckStarted`, `InUpdateSlot` and its failures; the writer is
`OutHello`, `OutSnapshot`, `OutCheckStarted`, `OutAcceptedPlayer`, `OutGameStarted`, `OutTurn`,
`OutGameEnded` and `OutSendFails`. A peer may vanish at any moment: its next read or send throws,
and a waiting writer does not notice. A reconnect is another connection.

In `Client`, every access to `state` and `join_sent` by a thread that does not own it, and every
send, is an action; `ClientExits` is any socket call that throws. `System` puts the channels
between them: `feed[c]` to the client, read by position, and `toServer[c]` back. There
`ServerReads` is the reader's read and snapshot and `ServerEnrolls`/`ServerIgnoresJoin` its handling
of a Join; the rest of the server is `GameService`, which `Server` is shown to implement. Moves
cannot change what `GameService` keeps and are dropped.

In `Game`, `server` and `client` are both a record with the members of class `Game`. `apply_moves` and
`apply_turn` run in one thread each and share only the Turn messages, so their loops are taken
one iteration at a time, in the code's order (`pc` and `i` on the server, `todo` on the client): a
bomb, a robot, an event. A robot's move is chosen when the robot is reached (the snapshot of the
moves is taken before and is arbitrary), random positions are any positions, and bombs
explode in any order, as they are kept in an `unordered_map`. A Turn message is put in `channel` when
it is complete; `MaxLag` bounds how many are under way. The histories `burnt`, `placed` and `expected`
are only read by properties (`placed` also counts the bombs, as `bomb_counter` does).

In `Monitors`, a thread makes the calls of its program in order, and `pc[t]` is where it is in the
current one: `Lock` is the constructor of the `unique_lock` or the end of a wait, `Unlock` its destructor, which
also runs on a throw. `condition_variable.wait(lock, predicate)` is `EvaluatePredicate`, `Wait` (which
releases the mutex and enters the wait set in one step) and back to `Lock`; `NotifyAll` empties the wait
set while the mutex is still held. Methods with one effect on the object have one step for it; `update_slot`,
`mark_the_game_as_finished`, `atomic_snapshot_and_clear` and `add_new_player` have two or three. `results[t]` is
what the calls returned or threw. The refinement to `Calls` says when a call takes effect: with its first
statement that changes the object, or with the predicate it found true. `Server` makes its calls in
that form, so `Monitors` is what justifies its atomic steps.

In `Encoding`, `Elements` are what the `serialize` functions write and `Layout`, `EntryLayout` and
`Then` what the constructors read, translated from each separately; `Written` and `ValueRead` go between an
element and its bytes through the byte order of the host and `htobe`/`betoh`. `TcpStream` keeps `send_buff` from its
first unsent byte on (`unsent`), the bytes under way (`wire`) and `recv_deque`; `expect` is the rest of the
constructor that is reading. The two directions of a connection share no variable, so one is looked at at a time
(`direction`). In `Wire` the GUI's datagrams fill `gui_buff`, which keeps what it held, and
become messages; the server's messages become views, written to `gui_out` and flushed. The game's view is
one of a set (`GameViews`), as `Game` has the game itself; that of the lobby is computed.
`IsServerMessage`, `IsClientMessage` and `IsGameMessage` are what the structs of `messages.h` can hold: numbers of their type's
width, strings of any length, vectors that `serialize_vector` does not refuse.

In `Connections`, `holders[c]` are the threads that hold the `shared_ptr` to the handler of connection `c`, and
`owed` are the writers that have something to send. `peer[c]` becomes `"reset"` when a send to a peer that has
gone was answered, after which the next send fails; a failing call before that is allowed as well. Any
exception nobody catches is `Terminate`. In `Startup`, an argument is a flag, a flag with its value attached or a
word, and a text is what the parser can tell of it (white space, minus sign, digits, what follows, what is
behind a colon); `optind` and `counter` are those of the code and of `getopt`.

## What is checked

| run | specification, instance | properties |
|---|---|---|
| `readers` | 2 clients for 1 place, 2 turns, 2 rounds, joins and inputs | `TypeOK`, `MovesFromOwner`, `FreshMoves`, `NoMoveDropped`, `RosterFixed` |
| `writers` | 2 clients for 2 places, 1 turn, 2 rounds, joins, both writers | `ProtocolOrder`, `OneIdPerRound`, `ImplementsService` |
| `live` | 1 client, 1 place, 1 turn, 2 rounds, fairness | `GameFinishes`, `ViewerSeesTheEnd` |
| `longest_game` | 1 client, `game_length` = 3 with a turn number of 4 values | `EndFollowsLastTurn` is violated |
| `lobby` | 1 client and 1 foreign player for 2 places, 1 turn, 3 rounds | `TypeOK`, `NeverForbidden`, `LobbyShowsOneRound`, `JoinMeetsLaterRound` |
| `client_live` | 1 client, 1 place, 1 turn, 2 rounds, fairness | `GameIsLeft` |
| `stale_join` | 1 client, 1 place, 1 turn, 2 rounds | `LobbyCanBeJoined` is violated |
| `replay` | 2 robots, 3 x 2 board, radius 2, 1 block, 3 turns, fuse 1 | `TypeOK`, `ClientAgrees`, `ExplosionsAgree`, `HitsAreFair`, `ExplodesOnTime` |
| `fuse` | 1 robot, 2 x 2 board, 1 block, 4 turns, `bomb_timer` 0 with a timer of 3 values, the client up to 2 turns behind | `ClientAgrees`, `ExplodesOnTime` |
| `monitor` | 5 threads: a round of the server (main, an early and a late writer, two readers for two places), and the test with three adders that make two calls each; one spurious wake-up; fairness | `TypeOK`, `NoLostWakeup`, `IdsAreDealt`, `TestPasses`, `ImplementsCalls`, `AllCallsReturn` |
| `wire` | bytes of 5 values, a big-endian client and a little-endian server, 3 bytes under way, 2 per receive; a script of 8 messages down, any 2 of 9 datagrams up; fairness | `TypeOK`, `KeysArrive`, `GuiSeesEveryMessage`, `ImplementsChannel`, `SentIsReceived` |
| `startup` | 33 command lines with types of 2, 3, 4 and 6 bits; 3 connections, backlog 1, 2 descriptors; fairness | `TypeOK`, `NumbersAreAsWritten`, `LineIsComplete`, `SocketLastsAsLongAsThreads`, `GoneIsClosed`, `NewcomersAreServed` |

**Bounds.** `MaxRounds` (named in the guard of `MainResetShared` and of `OpenNextRound`) bounds the
rounds; two are needed for everything that can go wrong at the change of rounds, and the third in
`lobby` lets a client be a round behind and skip one. `MaxPending` bounds what a client may have
sent and the server has not read. Two connections compete for one place (rejection) or fill two
(order of ids). `TurnMod` stands for 2^16 and is larger than every turn number except in
`longest_game`. All other data is finite by itself. In `Game`, two robots that place bombs in the same
turn on either side of a block, which then explode in the same turn, are the smallest case in which one
explosion could influence another; a 3 x 2 board with radius 2 has them and
corners, and the third turn shows the board after the blocks are gone. `TimerMod` stands for 2^16; with 3
values and `bomb_timer` 0 the first decrement wraps, as it does in the code.

`MaxSpurious` (in the guard of `WakeUpSpuriously`) bounds the wake-ups for no reason; one is enough to send any
waiter round its loop, and the proofs hold for any number. `Base` stands for 256: with 5 values every code of a
message still fits a byte, the longest string has 4 bytes, so that both long names in the script are cut, and
2- and 4-byte values use more than one digit. `WireSize` (in the guard of `SendBytes`) is smaller than a 4-byte
element and `RecvBuff` smaller than that, so every element of 2 or 4 bytes is cut in every possible way and
sends are partial. `MaxPackets` 2 lets a short datagram follow a long one. `UdpBuff` and `MaxDatagram` are such
that one view of the game fits into both, one into the buffer only and one into neither. `Widths` keeps the order of the
types, and the texts lie on both sides of each limit. With `MaxFds` 2 and a backlog of 1, three
connections exhaust the descriptors while the third waits.

**What the instances leave out.** A writer changes nothing that another thread reads, so the run
`readers` leaves the writers unscheduled after the accept (`Watched`), and `writers` has no inputs
(`Requests`), which only touch the slots. The clients of `System` do not know of each other, so
`lobby` replaces one by a foreign program (`Foreign`) that asks to join at any time. In `replay`
the client runs between the server's turns; since the two share only the channel this
loses nothing, and `fuse` interleaves them freely. The runs `live`, `client_live` and `fuse` use the full
next-state relations. Deadlock is not checked: the system
stops when the last round or the game is over, every connection is gone, a program has exited or the
calls of all threads have returned. That nobody waits forever is what the liveness properties are for.

**Fairness.** Weak fairness of the main thread, of every reader's handling of a message it has
read, of every writer and, in `System`, of both client threads: threads that can run are
eventually scheduled and critical sections are short, so nothing stronger is needed. Nothing
obliges a client to connect, a user to press keys, or a message to arrive. Fairness of a writer
means that a peer reads what it is sent or the connection breaks; a peer that does neither
blocks its own writer only.

`Monitors` assumes weak fairness of every thread's next step, not of the end of a wait without a
notification; a mutex that others keep taking is not a concern in programs that are finite. `Wire` assumes
that the network delivers what was sent and that both ends read and handle it, but not that anybody
writes, and any call may fail at any time. `Startup` assumes that threads are scheduled, and, while the
environment has not become `quiet`, that there is news (a player joins, a turn is played): a writer without news does not
touch its socket and so cannot notice a peer that is gone. Nothing is assumed of the peers.

## Findings

* `server.cpp:145`: the loop index is a `turn_t`, the bound an `int`. With `game_length` 65535 the
  index wraps, the client is sent the turns again from turn 0, forever, and never the end.
* `client.cpp:32`: `join_sent` is set after the Join is sent. If the client reads a whole game in between,
  up to its end, the reader thread has cleared the flag before the GUI thread sets it; the client then never joins
  the next game, and a server that waits for it never starts one. In the trace of `stale_join` the Join is granted, the
  round played, its GameEnded read and the client reset (`ReaderGame`, `ReaderResets`) before `GuiSetsJoinSent`. (No turn
  duration is too long in principle; with 0 ms and few turns it is a matter of one preemption.)

A related hazard has no property: a writer delayed between GameEnded and its next snapshot skips a
round. `GameService` allows that, since nothing in the code says that every round is shown.

Observations that the models contain and no run singles out:

* `connection_acceptor.h:27` documents `TCPAcceptError` for any failing system call, but a failing `setsockopt`
  (`connection_acceptor.cpp:51`) throws a `runtime_error`, which `accept_new_connections` does not catch: the server ends.
* `parser.cpp:113` and `:161` mean to reject unknown parameters by counting arguments. `-p5 stray` passes, since
  the attached value makes up for the stray argument. `LineIsComplete` says exactly how far the count goes.
* `parser.cpp:91` looks for a minus sign in the first character only, so `" -5"` is a `turn_duration`, as
  wide as the parser's own type, of 2^64 - 5. For the narrower types the bounds check catches it.
* While the server waits for players, writers whose peers have gone keep their descriptors (`quiet` in
  `GoneIsClosed`), and with all descriptors in use the acceptor retries `accept` without a pause.
* A GUI that is not listening makes `send` fail and ends the client, possibly in the middle of a game.

## What is proved

Every theorem holds for all values of the constants that the named assumptions of its modules allow; TLC evaluates the
assumptions in every run. A step that the provers do not take by themselves is a lemma with a comment, and an
invariant is a conjunction of named parts.

**The server.** `ServerProofs` holds for every set of clients, every `players_count`,
`game_length` and number of rounds, from `ProtocolAssumption` (they are natural numbers) and `ServerAssumption`
(`game_length` is a `turn_t`, and `NoMove` is not a move that somebody made).

* `TypeCorrect`: `Spec => []TypeOK`. Not trivial by itself: that a new player's id is a slot needs
  that a roster is never longer than `players_count`, and that a turn number is in range needs
  the loop control of the main thread.
* `OneId`: `Spec => []OneIdPerRound`.
* `RosterStaysFixed`: `Spec => RosterFixed`.
* `Order`: if `game_length + 1 < 2^16` then `Spec => []ProtocolOrder`. The hypothesis is exactly
  what `longest_game` violates.

The inductive invariant has three parts, and a fourth for the history of the snapshots (`CountInv`, see *Moves*). `MainInv` describes the rounds from the main thread: rosters
are bounded and empty for rounds not opened (`RosterInv`), the published turns are numbered from
0, all there for past rounds and as many as the main thread's position says for its own
(`TurnsInv`, `MainControl`), and `finished` only holds of rounds before the current one
(`FinishedInv`), which is where the order of `reset_shared` and `mark_the_game_as_finished` enters.
`ReaderInv` ties a reader's `joined_the_game` and `player_id` to the roster it holds: it owns the
place its id names, and a client in a roster that its reader holds knows that it joined; without
the latter a second Join could not be excluded. `WriterInv` relates the place of a writer
to the last message it sent (`MayFollow`, `WriterMaySend`): what it is about to send may follow that
message. It needs `FinishedInv`, because the round a writer takes next must be later than the one
it has just reported. Preservation is proved once for the main thread (`MainStep`), once for the
readers (`ReaderStep`) and once for the writers (`WriterStep`, on top of one lemma per kind of
message).

*Moves*: `OnlyOwnersMove` (`[]MovesFromOwner`), `MovesAreFresh` (`[]FreshMoves`) and `NoMoveIsDropped`
(`NoMoveDropped`). A reader keeps its `player_id` when it takes the containers of another round, so that a slot belongs
to the sender is not a matter of one step: it needs `ReaderInv`. `MovesInv` says of the moves in the slots and of those that the
main thread has taken but not published who made them (`TakenFromOwner`) and when: what waits in a slot was stored after the last snapshot
of its round (`SlotsFresh`), what the main thread holds before it and after the one before (`TakenFresh`). `CountInv` says how many snapshots
the main thread has taken where it is, hence that turn k is worked out from the k-th. A move in turn k was therefore stored
between the snapshots k - 1 and k, and can be in no other turn; together with `NoMoveDropped`, it is in that one or was
replaced by a later move of its player, unless the game is over.

*Refinement*: `Implementation`, `Spec => ImplementsService` if `game_length + 1 < 2^16`. Four kinds of
step are visible to `GameService` as the action of the same meaning (`JoinEnrolls`, `TurnPublishes`, `ResetOpens`,
`MarkAnnounces`), and everything a writer sends is a `Tell` (`SendTells`, which rests on `WriterInv` for the place in the protocol
and on `MainInv` for what the containers hold); all others change none of its variables (`WhatThreadsDo`).
So what `System` assumes of the server is what `Server` does, for any numbers.

**The containers.** `MonitorsProofs` and `MonitorsRefinement` hold for every set of threads, every set of programs, every number of players
and of spurious wake-ups, from `ContainersAssumption` (the programs are sequences, `Target` is a number) and
`MonitorsAssumption` (`NoThread` is no thread, `MaxSpurious` is a number).

* `TypeCorrect`: `Spec => []TypeOK`, which contains mutual exclusion.
* `NoWakeupIsLost`: `Spec => []NoLostWakeup`.
* `CallsAreAtomic`: `Spec => ImplementsCalls`.

The inductive invariant `IInv` adds `Kept` to the two: where a thread can be in which method (`Placed`) and that it only goes
to sleep on a predicate that is false. The latter is preserved because whoever changes what a predicate is
about holds the same mutex (`MutualExclusion`), and it is what `Wait` needs, between whose evaluation of the
predicate and whose wait nobody may have changed the object. Fourteen actions happen while the
thread holds the mutex; they are instances of `InsideStep` (`MethodStep`), for which preservation is proved once. `Lock`,
`Unlock`, `Wait`, `WakeUpSpuriously`, `NotifyAll` and `Join` have a lemma each.

For the refinement, `RInv` adds to `IInv` what a thread has found out and has to do yet (`Midway`: whoever is about to insert
has found a free place, whoever is about to return what it waited for has it). A thread inside a method sees no other
thread change its object (`OthersUnseen`), so `Midway` is kept (`OthersMidway`, `OwnMidway`) and at most one thread
is between the two statements that write the scores, or a slot (`OneAtATime`); this is what gives the refinement mapping
its values (`ScoresAre`, `SlotsAre`). Eight kinds of step take effect, and each is a step of `Calls` (`ThrowStep`,
..., `JoinStep`); all the others change nothing that `Calls` can see (`Invisible`).

*Ids and the test*: from the refinement follows that what a call sees and returns can be told from the order in which
the calls took effect. `CountInv` counts them: every call of `add_new_player` that took effect got an id or found the container full
(`Answers`), every id has been dealt (`EachDealt`) and none twice (`DealtOnce`).

* `IdsAreUnique`: `Spec => []IdsAreDealt`, although a thread works out its id after it has inserted its
  player and notified the others.
* `TestAlwaysPasses`: `Spec => []TestPasses` for any number of threads, of additions per thread and of places that they
  suffice to fill (`TestIsSetUp`). `JoinedDone` is what `join` adds, and the successful calls are counted by a bijection with
  the ids.

**The clients.** `SystemProofs` holds for any number of clients, places, turns and rounds, with and without a foreign player (`Spec` and
`SpecForeign`).

* `TypeCorrect`: `[]TypeOK`. `NothingIsForbidden`: `[]NeverForbidden`. `OneRoundInLobby`: `[]LobbyShowsOneRound`.
  `JoinIsForLaterRound`: `[]JoinMeetsLaterRound`.

The argument goes along the stream. `ServiceInv` says of the server that the result of a round is there only when the next round has
been opened, `FeedInv` that what it has told a client is in order (`WellOrdered`) and has happened, and `FollowInv` where the
reader thread of a client can be in terms of the last message it has read, and that its lobby holds the first
players of one round (`LobbyInv`). A client that has read the end of a round has, by `FeedInv` and `ServiceInv`, done so after the next
round was opened, so a Join it sends from then on is for a later round: `RequestsInv` carries that over the channel back to
the server.

**The game.** `GameProofs` holds for every board of at least one field, every set of robots, radius, `bomb_timer`, `game_length` and lag of
the client, from `BoardAssumption` and `GameAssumption`.

* `FairHits`: `[]HitsAreFair`. `BombsExplodeOnTime`: `ExplodesOnTime`. `TypeCorrect`: `[]TypeOK`.
* `ClientShowsTheServersGame`: `[]ClientAgrees`. `ClientShowsTheExplosions`: `[]ExplosionsAgree`.

`ServerInv` gives the server's game its types, with as many bombs as were placed, and says where its loops can be. Given that,
`HitsAreFair` is inductive: blocks are only removed when all bombs have been visited, so each bomb adds
to what is destroyed exactly what stands on the fields it adds to `burnt`. `FuseInv` ties a bomb's timer to its age (`TimerAt`),
counting modulo `TimerMod`, so that it also covers the decrement that wraps. For the client, `ReplayInv` says that the events
of a Turn message are a chain of steps of `apply_event` (`Replays`) that leads from one game of the server to the next: those collected
so far for the message that the server is working on (`ServerReplays`), those of the messages in the channel, each
starting where the one before ends (`ChannelReplays`), and what is left of the one that the client is in (`ClientReplays`). Both sides
begin and end a turn in their own way, and in between differ in the turn counter and in the explosions they keep:
`Opening` and `Closing` are what the client does around the events, and `Shadow` is the server's game seen from the client's side.

**Starting.** `StartupProofs` holds for every number of connections, descriptors and backlog, types of any width, and every set of
command lines that name one of the two programs (`StartupAssumption`).

* `SocketsAreKept`: `[]SocketLastsAsLongAsThreads`, from `ConnInv`: the acceptor works on one connection at a time (`OneCurrent`),
  a connection in the queue has not been touched (`Waiting`), a socket is open exactly while somebody holds its handler
  or the handler is being made, and the acceptor holds it exactly until it has started both threads (`Held`); `Descriptors` keeps
  their number below the limit.
* `TypeCorrect`: `[]TypeOK`, `OptionsAreAsWritten`: `[]NumbersAreAsWritten`, from `ParseInv`: what is stored for an option is what the
  code makes of the text of its argument, and passes the bounds check (`OptionsRead`). A type's width is a power of two, which the
  provers only know as the number of subsets of a set (`Subsets`).
* `ArgumentsAreCounted`: `[]LineIsComplete`, from `CountInv`, which relates the `counter` of the code to `optind` by the arguments
  passed over that are words of their own (`Loose`) and the options whose value is attached.

**The connection.** `EncodingProofs` and `WireProofs` hold for every script of messages, every datagram, every name, every number of players,
events, robots and blocks, every byte order of either host, any `Base` above 4 (the codes must fit into a byte), any
`WireSize` and `RecvBuff` and any size of buffers and datagrams. `WireAssumption` says what a script is: what a connection of the server may
write, that is messages that the structs can hold, `Hello` first and once, and no player accepted twice before a game has ended (the order
is what `Order` proves of the server).

* `ReadIsWritten`: what `read_element` returns is what `send_element` was given, whatever the byte orders of the two hosts.
* `ReadsServerMessage`, `ReadsClientMessage`: whoever reads a message asks for the fields in the order in which `serialize` wrote
  them, meets no unknown code, and knows after the last field that the message has ended.
* `TypeCorrect`: `[]TypeOK`, with the bound on the deque. `Implementation`: `Spec => ImplementsChannel`. `KeysDelivered`:
  `[]KeysArrive`. `GuiSees`: `[]GuiSeesEveryMessage`. `Invariance`: the invariant that they rest on.

Three steps make the inductions over data that this needs without a library theorem that takes an operator. `NatIsInductive` states induction with a
*set* of numbers (it follows from the least element of what is missing), and a statement is proved for all numbers by showing
that the set of those for which it holds is inductive. What the folds of the community modules compute (`FlattenSeq`) is taken as the last value of a
chain of partial results (`Concatenates`), which exists and is unique. And `Reads(layout, x)` says that a reader who is to read the fields
`layout` follows the elements `x` one by one to the end, as a chain of the stacks of fields still to be read; it is closed under
concatenation (`ReadsConcat`) and under a count followed by that many entries (`ReadsVector`, `ReadsMap`), so that the proof for a message follows
its `serialize`. That a number is the sum of its digits (`ReadIsWritten`) is the same kind of induction, and `serialize_map`
needs that a set of ids can be put in ascending order (`OrderExists`).

`WireInv` says where everything is that has been written and not read: `Underway` (the deque, the bytes under way, the send buffer) is the
encoding of the rest of the message that the reader is in and of the messages after it (`Reading`), and `expect` reads exactly that
rest. Every partial send and receive leaves `Underway` as it is (`BytesMove`); only `read_element` takes the front element off, which is
in the deque as a whole if its size is (`NextElement`), and by `ReadIsWritten` is the element that was written. When `expect` is empty
a message has been read, by `ReadsServerMessage` it is one that was written, and the step is one of `Channel`.

`KeysInv` relates what was sent to the datagrams so far. The buffer keeps older bytes; that they do not count rests on the size that
`recv` returned (`InputIsMeant`). `GuiInv` relates the datagrams to the messages handled (`Seen`): the last message that reset the lobby
(`SinceInv`), the players accepted since (`Told`), the lobby that these give (`IsLobby`), and that every datagram is a view that was due
(`DrawnInv`). What the client draws has been read from the stream, hence its names are cut (`CutHello`, `CutPlayer`), and cutting
what is cut changes nothing, so that it is written as the server's message would be.

**Only model-checked.**

* All liveness, which is out of the prover's reach: `GameFinishes`, `ViewerSeesTheEnd`, `GameIsLeft`, `AllCallsReturn`,
  `SentIsReceived`, `GoneIsClosed`, `NewcomersAreServed`.
* The two properties that TLC finds violated (see *Findings*).

## Not modelled

* Resolving names and addresses, `get_peer_name`, socket options other than their failure, usage texts and
  messages to `stderr`: input and output without state of the program's own.
* A lone `--` on a command line, and `getopt`'s permutation of the arguments.
* The pseudo-random generator and the default seed: any value.
* Maps, vectors and strings with 2^32 entries, which no sender can write.
* A board with `size_x` or `size_y` 0, which the parser accepts: excluded by `BoardAssumption`, since the first
  `random() % size_x` divides by zero.
* The loop of `explode_one_direction` below `Ray`, in particular its 16-bit radius counter.
* The scheduling of `std::this_thread::sleep_for`: a turn may take any time.

## Plan

1. *Done:* `Protocol`, `GameService`, `Server`, `Client`, `System`, `Board`, `Game`.
2. *Done:* `Containers`, `Calls`, `Monitors`; `Encoding`, `Channel`, `TcpStream`, `Wire`; `Options`, `Connections`, `Startup`.
3. *Done:* the safety properties of `Server`, `Monitors`, `System`, `Game` and `Startup` as theorems, and the refinements
   `Spec => Service!Spec` of `Server` and `Spec => Atomic!Spec` of `Monitors`.
4. *Done:* `Encoding` and `Wire` as theorems, and the refinement `Spec => TheChannel!Spec` of `Wire`.
5. `explode_one_direction` as the loop it is, with its 16-bit radius counter, against `Ray`.
