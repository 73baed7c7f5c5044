# 8-ball pool over the network: a TLA+ model

The repository is a two-player pool game: a client (window, physics, rules), a
server that seats players in lobbies and forwards their packets, a small 2D
physics engine, and utility libraries.  These modules model the parts whose
correctness is hard to test: the server with its nested callbacks, the match
that two clients simulate side by side, the clients and the server over several
games, the world of the physics engine with its references and contacts, its
quad-tree, and what it does with one pair of shapes.  File and line references
are to `src/`.

## The system

| Part | State | Operations | Talks to |
|---|---|---|---|
| `Lobby` (network/…/server/lobby) | two `ClientData` (name, port), port 0 = free | `AddClient`, `IsComplete`, `Clear` | `Server` |
| `ServerNetworkManager` | listener, `clients_` (slots never reused), selector | `PollEvents` (accept one, then read each ready slot), `SendPacket`, `RemoveClient` | callbacks into `Server`; TCP |
| `Server` | `lobbies_` (10), `is_database_connected_` | a handler per packet type, `OnClientDisconnection`, Elo and identification requests | the manager, `HttpManager` |
| `HttpManager` + database | host, port | `Get`, `Post` | `Server`; HTTP |
| `ClientNetworkManager` | one socket | connect, send, receive one packet per frame | the server |
| `ClientApplication` | `state_`, current GUI, player data | window events, network events, frame | all client parts |
| GUIs, `Button`, `ClientIdentifier` | widgets, the name typed | mouse and text events | `ClientApplication` |
| `Game` | turn, charge and result flags, scores, `World` | `OnPacketReceived`, `Update`, `OnEvent`, `OnTriggerEnter`, `Deinit` | the socket, the world |
| `World` | bodies and colliders with generation indices, last step's pairs | `Update`, create and destroy, contact callbacks | `QuadTree`, `ContactSolver`, `Game` |
| `QuadTree` | nodes from a fixed budget, pairs | `Insert`, `CalculatePossiblePairs` | `World` |
| `ContactSolver` | two contact actors | impulses and positions | `World` |
| common | reference counts, heap wrapper, clocks, unit factors | `SharedPtr`, `UniquePtr`, allocators, `Timer`, `Metrics` | everywhere |
| math | vectors, matrices, shapes | arithmetic | everywhere |

What makes it hard:

* **Server.** One thread, but its handlers nest: every `SendPacket` may find the
  receiver gone, and then runs `RemoveClient` and `OnClientDisconnection` inside
  the handler that was sending, on the same lobbies.  Clients are known by their
  remote port only, port 0 also means "free seat", and a removed client's seat
  can stay.  Correct means: nobody sits alone in seat 2, a lobby is cleared only
  when its players know how their game ended, at most one is told to have won, a
  packet never goes to a port without a socket, and departures are noticed.
* **Match.** Each client simulates every shot on its own, one world step per
  frame, at the pace of its display; the turn and the black ball are judged
  locally.  Correct means: there is one turn, both tables lose the same balls,
  there is one winner, a shot ends, and an ended game reaches the server.
* **Physics.** Slots are reused under generation indices, contacts are callbacks
  that may disable colliders, and the quad-tree must not miss a pair.  Nine pairs
  of shapes share five tests; the solver swaps bodies in two places and colliders
  in one, and throws through `noexcept` where a normal is zero.
* **Client application.** No packet says which game it is about: one of a game
  that is over may reach the next.  Flags survive from one game to the next, and
  an answer of the server changes the screen whatever the client does by then.

The hazards are listed, each at its line, in `PROJECT.json`.

## The modules

| Module | Models | How |
|---|---|---|
| `Types` | connections and ports | constants; port 0 is `NoPort` |
| `Lobby` | `Lobby`, `ClientData` | operators on a function of two seats |
| `ServerNetworkManager` | sockets, `clients_`, the clients' side of TCP | variables `peer`, `up`, `backlog`, `clients` |
| `Server` | `lobbies_` and the handlers | each handler is the sequence of calls it makes |
| `GameServer` | the composition: poll loop, sends, removals | variable `stack`, one action per call |
| `AtomicServer` | what the handlers promise until a connection is reset | the abstract specification `GameServer` implements |
| `MCGameServer` | instances, and what docs say | symmetry, two refuted statements |
| `GameServerProofs` | theorems about `GameServer`, the refinement among them | TLAPS |
| `Game` | the class `Game` of one client | operators on a record: packet, world step, mouse, end of turn, scores |
| `GameProofs` | lemmas about the operators of `Game` | TLAPS |
| `Match`, `MCMatch` | two `Game` objects and the forwarding server | one action per frame and per server packet |
| `MatchProofs`, `MatchVerdicts` | theorems about `Match`, the refinement among them | TLAPS |
| `TurnGame` | what a game promises of the turn | the abstract specification `Match` implements |
| `ClientApplication` | screens, and what a packet does to them | operators on a record with a `Game` in it |
| `PoolSystem`, `MCPoolSystem` | clients, server and packets over several games | `Server`'s handlers, each run to its end in one step |
| `PoolProofs` | theorems about `PoolSystem` | TLAPS |
| `World` | slots, references, contacts of `World` | one action per call; an `Update` is one action per pair |
| `WorldProofs` | theorems about `World` | TLAPS |
| `QuadTree`, `MCQuadTree` | `QuadTree` | a node is its path; the recursion is a set of calls |
| `QuadTreeProofs` | theorems about `QuadTree` | TLAPS |
| `Shapes` | vectors, the shapes, every `Intersect`, the boxes of the broad phase | operators on integers |
| `Collision`, `MCCollision` | one pair through a step: motion, detection, `ContactSolver` | exact fractions |
| `CollisionProofs` | theorems about `Collision` | TLAPS |

**GameServer.**  A handler cannot be one step, because clients and network act
between its sends and a failed send runs another handler inside it.  So `stack`
holds the calls the thread has still to make: `OnEndGame` pushes
`UpdatePlayerElo`, `UpdatePlayerElo`, two sends and `ClearLobby`; a failed send
pushes what `OnClientDisconnection` does, followed by `ResetSlot`, in front of
the rest.  A port the code computed before the first send is a value in the
call; a port it reads from the lobby at the time (`AddClientToLobby`) is read
when the call runs.  The process can end by `unknownPort` (dereferencing
`end()` in `SendPacket`), `lobbyOverflow` (the same in `AddClientToLobby`),
`stackOverflow` (a removal without end, cut at `DepthLimit`) and `badReply`
(`stoi` throws through `noexcept`).  `told` is a history variable: the verdicts
sent by the handler that is closing a lobby.

A packet that arrives in pieces is modelled as SFML has it: `receive` says
`NotReady`, the callback runs on an empty packet, and its type is whatever the
uninitialized variable of `packet.cpp:8` holds, here any type.  An RST is
modelled for Winsock (queued data is dropped, `getpeername` still answers) and
for Linux (data stays, the port reads 0).

**AtomicServer** is the same server with handlers that are one step: a handler
leaves the lobbies as it will have left them, settles all the packets it sends, and
the next one begins when the last of them has gone.  `GameServer` implements it
under this map: the lobbies are those of the code, but a lobby that a pending
`ClearLobby` will empty is empty already (`SettledLobbies`), and the packets due are
those the pending calls will send (`DuePackets`), with the seats that the start of a
game reads one by one as they are now.  The promise ends, in `Break`, when a
connection is reset, which is when a send may run another handler inside this one,
or when the process ends.  An orderly end of a connection does not end it: the
server's kernel still takes packets for it, and its removal is a handler like the
others.
Handlers nested by a failed send are therefore no matter of this refinement:
`VerdictBeforeClear` and `OneWinner` say what must hold through them.

**Match.**  A frame handles at most one packet, then does what `Game::Update`
does in its order: world step, mouse, end of turn, score; `Game` holds that for
one client.  A shot's outcome is open: a sequence of steps, each with the balls
that fall in it.  Two clients that apply one shot to equal tables at rest see the
same sequence, because they run the same code on the same floats; the packet
carries it.  A shot that meets a table in motion, or a table changed by the W
key, gives any outcome on each side (`diverged`).  The server is one step per
packet, which is `AtomicServer`'s promise, except that the packets of a handler go
into the queues together; the server reads nothing before the last has gone, and
nobody else puts packets there, so only their order counts.  A window that closes is
the orderly end of a connection; resets inside a handler are `GameServer`'s subject.

**TurnGame** has no packets and no tables: a holder of the turn, whether the
holder has shot, and the number of shots.  `Match` implements it under this map.
The turn is where its one token is: the flag `is_player_turn_` of a client, or a
`kNewTurn` in a queue, which already belongs to the client it is under way to;
`played` is the flag `has_played_` of the client with the turn.  `ShootAndPass`
is there because a frame calls `HandlePlayerTurn` and then
`CheckEndTurnCondition`: a shot played while the last one still rolls may end its
own turn in the same frame (`game.cpp:87-88`).

**PoolSystem.**  A client is one record: screen, state and `Game`; a
frame is one step, as in `Match`.  A handler of the server is one step too: it
takes the sequence of calls that `Server` gives for it, the one `GameServer`
makes one by one (`AtomicServer` again), and appends the packets to the queues, up to the first call for
a port without a socket, which ends the process (`alive`).  Every packet carries,
as history only, the number of the game it is about, so that `crossed` can tell
when one met another game.  Outcomes of shots are independent on the two tables,
which gives more behaviours than there are.  A client either starts at the name
prompt or has been identified already.  The text field, the menu and the button
of a finished game act where the code shows them: `gui` is the screen, and what
the player can click follows from it and not from `state_`.

**World.**  `bodies` and `colliders` hold each slot with its generation.  A body
is valid, a collider enabled or not: that, the generation, the body reference and
the trigger flag are all the engine decides by.  `Update` begins with the broad
phase, which looks up the body of every enabled collider, and the narrow phase,
which settles on the pairs that overlap, any set of them: motion is not modelled
(`BeginUpdate`).  Then each new pair is handled in a step of its own, because its
callback runs there and may disable the two colliders, as `Game::OnTriggerEnter`
does with balls; then each pair of the last step that is gone.  Between updates
the owner creates, destroys, disables and flags as it likes, and may call `Init`
and `Deinit` at any time.  `told` is a history variable, the contacts the
listener has been told have begun, with "was it a trigger's"; `careless` says
that something in use was destroyed or a contact changed its kind;
`nullReference` is the exception of `GetBody` and `GetCollider` (or the read past
the end before it), which ends the process because `Update` is `noexcept`.

The order in which an owner may do things is worth stating, because the code
does not: a collider may be destroyed when it is not in `_colliderPairs`, enabled
or not, and a body when no collider that is enabled *or in `_colliderPairs`*
refers to it.  A disabled collider keeps its body needed for one more update, the
one that tells the exit.

**QuadTree.**  Rectangles have integer bounds and are halved with rounding, so
that, as with floats, the quarters of a division need not cover its rim.  The
recursive `insertInNode` is a set of calls still to make, in any order.  The
`World` above relies on `NoPairMissed`; the rectangles stand for the bounding
boxes that `resolveBroadPhase` inserts.  A step without any enabled collider sets
an inverted boundary and reads it nowhere; here it has some boundary.

**Shapes and Collision.**  What `World` leaves open, whether two colliders overlap
and what their contact does, is followed for one pair through one step.  Numbers
are integers and results exact: lengths are compared by their squares, as the
code does where it can; after the solver, positions and velocities are fractions
over one denominator, `scale`.  The normal is kept as the vector the code
normalizes, with its length beside it.  A contact whose length is not an integer
is not resolved (`IsBounded`): its normal has no exact coordinates.  Damping,
gravity and the time step only change the velocity a step begins with, so they
are in the initial velocities.  Rounding is not modelled, so a property that
holds here may fail by an ulp there.

Some facts of the code are in the model and worth knowing:

* The box of a circle is drawn around its *body* (`World.cpp:168`), the narrow
  phase adds the circle's own centre: a circle off its body can be lost between
  them.  `BoxesCoverShapes` is about the centred ones, which are all that `Game`
  creates.
* A circle inside a polygon that meets none of its edges does not intersect it.
* A polygon leaves the solver's normal at zero and its penetration uninitialized
  (`ContactSolver.h:32`).  The product is taken for zero; no collider of the game
  is a polygon.
* Walls and holes are made with mass 1, and `SetBodyType` then takes their inverse
  mass (`Body.h:161`): a ball takes all of the impulse and of the correction off
  them.  The mass itself stays, and weighs their restitution in the combined one.
* Of two bodies without inverse mass, as where two walls touch, the impulse is
  divided by zero (`ContactSolver.cpp:187`).  Neither is dynamic, so the quotient
  reaches no velocity, and line 209 leaves the positions alone: nothing changes.
* `ResolveContact` swaps a rectangle and a circle with their bodies, but for a
  static first body swaps the bodies alone.  With unequal masses the combined
  restitution then depends on which collider the quad-tree names first.

## What the runs check

Bounds are the constants of the `.cfg` files.

| Run | Instance | Shows |
|---|---|---|
| `tables` | 3 clients, 1 lobby, joins and claims, departures | types; seat order; no unknown port without a departure; one winner; verdicts before the lobby is cleared |
| `fragments` | 2 clients, all packet types, pieces, RSTs on Winsock, with and without database | one winner with removals nested in handlers, up to the end of the process; the inductive invariant about ports while nobody has left; until a connection is reset, `GameServer` implements `AtomicServer` |
| `departures_live` | 2 clients, 2 lobbies, RSTs on Linux, fairness | verdicts where handlers meet port 0; a departed client is dropped |
| `match` | 1 ball each, 2 shots of 3 steps in which player 1's ball and the black one may fall, windows close, fairness | both tables lose the same balls; verdicts agree; a shot ends; an ended game reaches the server |
| `match_turns` | 2 shots of 4 steps in which only the W key removes balls, windows close | types; one turn, also when shots overlap and tables differ; `Match` implements `TurnGame` |
| `pool` | 3 clients, 1 of them new, 2 lobbies, 5 clicks on Play, 2 shots, 1 window closes | games do not meet; one table at a time; no game or waiting player the server knows nothing of; who waits is matched; shots alternate over games |
| `quadtree` | 5 colliders of 8 shapes, 1 collider to a node, depth 2 | no touching pair is lost; a collider is in one place; the nodes are enough |
| `world` | 2 bodies, 3 colliders, 2 contacts a step, vectors from 1 to 4 slots, 1 destruction | references resolve; contacts are told in order and keep their kind |
| `collision` | 8 colliders of three kinds, 6 bodies, 78 offsets | overlaps are found and survive the broad phase; the order of a pair does not matter; momentum, energy; bodies touch and part after a contact, at walls too; what slow bodies never do |

Three clients are the least with which two sit in a lobby and a third takes a
seat left behind; one lobby makes them meet, two let a client be in both.  Where a client in two lobbies
is removed for the one while the other is being closed it takes three clients, two
lobbies and a database that answers; such a client is no longer there when the second
lobby is cleared, which is why `VerdictBeforeClear` excepts every player who has
left, not only one whose removal is under way.  That instance is left to the proof.  A
queue of one or two packets is enough for a second packet to wait while a
handler runs.  A shot of three steps is the least in which a slower client can
receive the shot, receive the turn and draw the cue, and shoot before the table
is at rest, if only in the frame in which it comes to rest; with four it shoots
while balls still roll.  With one ball each the score is none or all, the two
values the code compares with.  In `match` player 1's ball and the black one may
fall, in any order within a shot and over two: player 1 is seen as shooter and as
opponent, with all balls in and without, and player 0 runs the same code.
The W key stops at the black ball, a bound on an otherwise endless repetition.

In `pool`, five clicks are two full games and one more, three clients at two
tables let one wait while the others play, and let a table be freed below the one
where somebody waits.  The run follows a player who is hasty (see below) up to
the click and not beyond (`Patient`), which every property but `TypeOK`,
`MatchedPromptly` and `IdentificationNeverInterrupts` would be silent about, and
those three are checked up to there.  Clients run the same program and no property
names one, so they may be permuted.

In `quadtree`, one collider to a node and depth 2 let five colliders fill a node
at the last level, where it may overflow, and the eight shapes are one of each
kind: the whole boundary, a corner, inside, where quarters meet, across a border
at both levels, touching, past the rim and outside it.  In `world`, three
colliders and two contacts a step give pairs that share a collider, the least for
a callback to disable what another pair of the step is about; vectors of 1, 2 and 4
slots grow twice and are cut by a second `Init`; one destruction and its generation suffice, since a
second meets the same tests.  `CallsAfterwards = FALSE` ends the owner's calls
(not the updates) once it has been careless, which only the proofs do without.

In `collision`, there are two balls of different size and restitution, a circle
off its body, a standing and a lying rectangle, one without a height, a triangle off
its body and a rhomb; bodies rest, move along an axis or across both, weigh 1 or 2, and are
dynamic, kinematic or static; the offsets put them in every position from one
within the other to apart.  Two circles, or a circle and a corner, are resolved
only at integral distances, along the axes and at triples such as 3, 4, 5: enough
for a normal along neither axis.  Edges run along axes and diagonals, for which
the reference definition of an overlap needs points of the half grid only.

The refuted statements, one run each:

* `seat_of_departed`: the seat of a player who leaves while waiting is never
  freed (`server.cpp:153`).
* `removed_twice`: `OnClientDisconnection` is entered again for the client it is
  running for, without end (`server_network_manager.cpp:38`).
* `shot_in_motion`: a player shoots while the opponent's shot still rolls on the
  own table (`game.cpp:300`).

The model of the server also shows two things that no run is spent on: a second
`kJoinLobby` of a client seats it opposite itself (`server.cpp:177`), and a piece
of a packet, handled as a packet, can seat a client without a name
(`server_network_manager.cpp:78`).  Both are part of the behaviours in which the
passing runs hold.

**What the passing runs exclude.**  Each "unless" was met as a counterexample.
`hasty`, in `PoolSystem`: a player clicked Play before the last click was answered
or before the server had heard of the end of the last game.  `kInLobby` is never
set and nothing disables the button (`main_menu_gui.cpp:41`); after such a click a
client may sit opposite itself, in two lobbies, behind a waiting screen without a
seat, or on a world initialised twice.  `reopened`: a lobby was freed below
one in which somebody waits; the next joiner goes there, and both wait.  In
`Collision`: circles off their bodies, unequal masses with a static body, and two
rectangles centred on one another on the axis of the normal, where the code takes
-1 for either order: the order matters there, and the velocities may be resolved
for the wrong side, so that part of `SolverSeparates` leaves them out too.

`SlowContactsResolve` says when the solver's exception cannot come: while nobody
moves by the radius of a ball in a step.  A full shot does.  It is 10 m/s
(`game.cpp:332`), less a hundredth for damping (`World.cpp:63`) 0.198 m in a
fiftieth of a second, and a ball's radius is 0.175 m: a ball whose centre comes to
lie in a wall ends the client at `ContactSolver.cpp:76`.  The engine's tests have a
solver of their own, which takes (0, 1) there (`TestsContactSolver.cpp:169`).

`VerdictsAgree` and `GameIsSettled` of `Match` say "unless `early`", that is unless
`kNewTurn` met a table in motion (`SameTable` holds all the same, as long as no
shot met one).  Past that point they really fail: the shooter's roll can end
in the step in which the black ball falls, `kNewTurn` is then sent although the
game is over, the slower opponent takes the turn before the black ball falls on
the own table, judges it as the own shot, and both clients show a defeat.

**Fairness.**  `GameServer`: weak fairness of the server's steps, because
`Server::Run` is an endless loop and its calls do not block for ever; nothing is
assumed of clients.  `Match`: weak fairness of handling a packet that is there,
of a frame while balls roll, and of the server, because frames and TCP go on;
players need not act, so no fairness for an idle frame.  `PoolSystem`, `World`,
`QuadTree` and `Collision` state safety only and need none.

## What is proved

TLAPS checks these for all constants that satisfy the `ASSUME`s of the modules:
types of the constants; `NoPort`, `NoName`, `Null` and `Dead` distinct from what
they stand beside; a positive preallocation, as passes everyone in the repository
who creates a body, because a vector of size 0 doubles to 0; rectangles that are
not inverted, radii that are not negative, positive masses and restitutions from 0
to 1.

`GameServerProofs`:

* `TypeCorrect`: `Spec => []TypeOK`, from one lemma per handler and per action.
* `SeatsInOrder`: `SeatOrder`, inductive given the types.
* `OrderKept`: `Orderly`, the inductive invariant for the next.  While nobody has
  left, every accepted socket is connected, every seat and every pending call
  holds the port of such a socket, pending calls precede slots still to be read,
  and no pending `ClearLobby` precedes the start packets of a join.  The last
  part is what makes it inductive: without it a `SendToSeat` could meet a seat
  that has just been freed.
* `FaultsNeedDepartures`: `FaultNeedsDeparture` follows.
* `OneWinnerPerGame` and `VerdictsComeFirst`: `OneWinner` and `VerdictBeforeClear`,
  from `VerdictsInOrder`, an invariant about handlers nested in one another to any
  depth.  What a handler still owes is on the stack: sends of verdicts, and behind
  them its `ClearLobby` with no other in between.  For every pending `ClearLobby`
  each player of the lobby has been told, is due a verdict before it, or has left;
  two winners of a lobby, told or due, are the same port or one has left; the winner
  sits in the lobby until it is cleared; and no seat is taken meanwhile, because
  slots are read only when no handler is left.  `RunSettles` is the step common to all
  calls: a handler takes the place of the call that made it.
* `HandlersTakeEffectAtOnce`: `HandlersAreAtomic`, the refinement.  The invariant is
  `FlatInv`: until a connection is reset one handler is on the stack at most, of no
  more than five calls, in front of the slots to be read; the start of a game is its
  last call, and nothing is cleared while it is due.  So the lobbies change only
  when a packet is handled, and that step maps to `Join`, `Move`, `Identify` or
  `EndGame`; a send, or a rating the database has not got, to `SendNext`; a clear, a
  start and a rating that is asked for to stutters, because the lobby counted as
  cleared, and the packets as due, from the moment the handler began.  This is what
  `Match` and `PoolSystem` take for granted of the server.

`WorldProofs`, from the inductive invariant `IInv`:

* `TypeCorrect`: `Spec => []TypeOK`.
* `PairedUp`: `ContactsPairUp`.  `ToldSoFar` gives `told` in every phase: between
  updates it is `_colliderPairs`; in the first loop `_colliderPairs` and the new
  pairs already handled; in the second the new pairs and the old ones still to be
  handled.  It needs no care of the owner.
* `ReferencesSafe` and `SameKind`: `ReferencesResolve` and `ExitAsEntered`.
  Unless the owner was careless the world is `Sound`: the references of all pairs
  resolve, so do those to the bodies of colliders that are enabled or in a pair,
  and a pair's flag is the one it was told with.  Every action keeps that:
  reused slots keep generation and flag, larger vectors keep the slots, a
  callback changes nothing but "enabled".  None of the three parts is inductive
  without the others.

`QuadTreeProofs`:

* `TypeCorrect`: `Spec => []TypeOK`.
* `BroadPhaseComplete`: `NoPairMissed`, for any boundary, wherever the shapes lie.
  The invariant behind it: nodes have their four quarters or none, a collider has
  come down through quarters it alone touches (`OnItsWay`), and colliders that
  touch are on one branch, stored or still on their way (`OnOneBranch`).  The
  step that needs an argument is a shape going down a quarter past another it
  touches (`CommonQuarter`): two shapes that touch each other and a quarter each
  touch a common quarter, even where they meet outside the boundary, since that
  is so for two intervals and the halves of a third, in each coordinate.
* `OnePlacePerCollider`: `StoredOnce`.  Besides what broad phase completeness needs,
  a collider is at one node at most (`AtOneNode`) and not both stored there and on
  its way (`StoredOrCalled`), which a division keeps because it empties the list.
* `NodesAreEnough`: `NodesSuffice`.  `nodeIndex` is the number of nodes in use, since a
  division adds four that were not there, and none is deeper than the limit
  (`SizeInv`); and the paths up to a depth are no more than `QuadCount`, which adds
  up `Math::Pow`.  Both are recursive functions: `RecursionExists` shows that such a
  function exists, `AllNaturals` is induction on a *set* of numbers, which needs no
  operator parameter, and `LevelSize` and `TreeSize` count.

`GameProofs` says what each operator of `Game` keeps: types, and what a world step,
the mouse, the end of a turn and a signal change of the flags.  The next two cite it.

`MatchProofs`:

* `TypeCorrect`: `Spec => []TypeOK`.
* `TurnIsAtOnePlace`: `OneTurn`, from `TurnInv`.  The turn is due to a client that
  has the flag, or to which a `kNewTurn` is under way on either side of the server.
  It is due to one client only and is at one of the three places, once; who
  has played has the flag; and the start of a game is the first packet a client
  gets, so that `InitGame` takes no turn away.  Without the places `OneTurn` is not
  inductive: a second `kNewTurn` would only be seen when it is delivered.
* `MatchPlaysInTurns`: `PlaysInTurns`, the refinement.  Initial states map to
  initial states; a frame maps to `Shoot`, `Pass`, `ShootAndPass` or a stutter,
  leaving and closing to `Lose` or a stutter, and packets to stutters, because a
  `kNewTurn` counts for its receiver from the moment it is sent.
* `TablesAgree`: `SameTable`.  The *fate* of a table is what is lost on it and what
  is still to be lost in the rolls it knows of, on it or under way to it; a shot
  adds to both fates when the server forwards it, and nothing else changes a fate
  while the tables have not diverged.

`MatchVerdicts`:

* `OneVictory`: `VerdictsAgree`.  The black ball is judged on each table by itself,
  so the argument is about two tables that are apart in time.  The invariant has
  three parts.  `MotionInv`: a table moves only in a turn that is played, and both
  are at rest when the turn is passed on and when it comes, so at most one shot is
  unsettled.  `LagInv`: one table is ahead of the other by the first steps of
  what the other has still to simulate, and scores are those of the balls that have
  fallen.  `VerdictInv`: where one table has shown the black ball and the other has
  not, it will, in a step in which it decides the opposite (`ToJudge`), or its window
  is closed; and claims and verdicts under way tell what a table has shown.  The
  verdicts cannot be compared without the lag, nor the lag kept without the motion.

`PoolProofs`, for any number of clients, lobbies and games.  A queue is described by
which classes of packets it has, which at most once, and which before which others
(`Has`, `Once`, `Precedes`); lemmas say what taking the head and appending do to
each, and `ServeEffects` and `ClientSteps` what each step does to queues and seats.

* `TypeCorrect`: `Spec => []TypeOK`.
* `WhoWaitsIsMatched`: `MatchedPromptly`, from `FilledInOrder`: unless one was
  freed below, the lobbies above one that is not complete are empty.
* `NamesComeFirst`: `IdentificationNeverInterrupts`, from `NameInv`: the menu is
  shown to the identified only, so names precede Plays on the way up, and answers
  to names precede answers and starts on the way down.  Nothing is assumed of the
  player here.
* `GamesDoNotMeet`, `OneTableAtATime`, `GamesAreNotOrphaned`, `WhoWaitsHasASeat`:
  `NoCrossing`, `OneTable`, `NoOrphanGame` and `WaiterHasSeat`, all from one
  invariant, `PatientInv`, which relates five things for each client while nobody
  is hasty: its screen and game, the packets it has sent, those under way to it,
  whether its socket is there, and its seat.  A client has one seat at most; what
  it sent and is about to get since it sits there is about that lobby's game
  (`AtTable`); who has asked for a seat has none, and sends nothing more (`Asks`);
  what is left of one game precedes the start of the next (`InOrder`); who waits has
  a seat or a start to come (`Waits`); a game has its lobby, or a verdict is behind
  it (`Ends`).  None of the four theorems goes through alone: that a claim meets its
  own game needs that the claimant sits at that table, which needs that the start
  of a game comes after the end of the last one, which needs that a verdict was
  sent when the lobby was cleared.
* `ShotsAlternate`: `AlternatingShots`, over any number of games and with cues drawn
  in the last one, from `TurnsInv` on top of `PatientInv`.  Every number of a game has
  one turn: of the two at a table one at most is `Engaged`, that is, holds the turn,
  has it under way in a queue to or from the server, or has its shot under way; and
  each is `Sided`: who may shoot was not the last to, and who was the last has played
  or has no turn.  Outside a game nobody has the turn, and who has played has it
  (`Flags`); no packet bears the number of a game that has not started (`Fresh`), so
  a new table starts with one turn.
  `PatientInv` says that a move is relayed in the game it was played in, and to the
  opponent.

`CollisionProofs`, for any shapes, sizes, offsets, masses, restitutions and
velocities, over the integers and so over fractions with a common denominator.  The
inductive invariant is `StepInv`: types, and that from the loop of `World::Update`
to the solver the bodies are where their velocities took them (`Moved(before)`).
It ties the bodies a contact works on to those the properties compare them with.

* `TypeCorrect`: `Spec => []TypeOK`.  The results of a resolved contact are
  vectors in a positive scale, whichever of the nine pairs of shapes it is about: the
  normal is not zero there, nor is the total inverse mass (`Solves`).  Where the latter
  is zero, the contact leaves both bodies as they are.
* `LawsKept`: `ConservationLaws`.  `Push` is what a contact adds to one body; two
  dynamic bodies are pushed by opposite amounts of momentum, and `PushOfTwo` says by
  how much a push lowers the energy of two bodies of any inverse masses, none being
  one of them, as a product of squares and of a factor that a restitution of at most 1
  keeps from being negative.  Kinematic bodies that move are left out: a ball takes
  energy off them.
* `SlowContacts`: `SlowContactsResolve`.  The normal is zero only if two centres
  coincide or a centre is in a rectangle.  If the shapes did not overlap before the
  step, the centre was then farther away than the radius (`WithinReach`), so the
  bodies moved towards each other by as much (`EndsFast`).
* `OrderIndifferent`: `OrderDoesNotMatter`.  The other order turns the normal, or
  swaps the shapes back to where they were (`NormalTurned`, `FirstOfTwo`); with it the
  separating velocity stays, and each body gets the same push.  Bodies that are both
  movable (`NoneStatic`) and a static one against a movable one (`OneStatic`) are
  different arguments, since the code swaps for different reasons; only the second
  needs the masses to be equal.
* `SolverSeparation`: `SolverSeparates`.  A correction along the normal changes the
  vector between two shapes by a factor (`DeltaGrows`, which for a circle and a
  rectangle needs that the closest point of a wall stays the closest one) or the
  overlap of two rectangles along one axis alone (`PenetrationGrows`).  The shares
  of the two bodies add up to the total inverse mass, one of them being zero at a wall,
  so the correction is always the factor with which they touch (`PushesApart`,
  `PushedToTouch`).  The change of the velocities along the normal is the separating
  velocity turned round, and grown by the restitution (`PartsOfVelocity`): they part, as
  they do if they were parting before (`PartsAgain`, `Parts`).
* `OverlapsFound`: `IntersectFindsOverlap` for every pair without a polygon, and
  `Game` creates none.  A point of a rectangle within the radius of a centre gives one
  of the four tests of the code and back (`CircleMeetsRectangle`); two rectangles
  overlap just when a vertex of one is in the other or a left edge crosses a bottom
  edge (`RectanglesMeet`, `LeftCrossesBottom`, `MeetingRectangles`).  A rectangle may
  be a line or a point: the reference definition first took any point on the line
  through a flat rectangle to be in it, and now looks at its bounds too (`Within`).
* `BoxesSuffice`: `BoxesCoverShapes` for every pair without a polygon.  If the squares
  of two distances add up to that of a radius, neither is more than the radius
  (`SquaresBound`), so the boxes meet (`BroadPhase`).

Only model-checked: `DepartedIsDropped` of `GameServer`, `TurnEnds` and
`GameIsSettled` of `Match`, all three liveness, and two properties of `Collision` where one
of the shapes is a polygon.  `IntersectFindsOverlap` compares with points of the half
grid there, a reference that holds for the edges of the run and not for all;
`BoxesCoverShapes` is true of convex polygons, which the axes of their edges separate,
and not of every sequence of vertices.
Liveness and `ENABLED` are beyond the
provers and stay with TLC.  The library's induction theorems take an operator as a
parameter, which the provers cannot instantiate; where an argument needs induction
or a least element of a set of numbers, it uses the well-foundedness of the naturals
in the form that has no such parameter (`WFMin`).
No module declares a RECURSIVE operator.

## What is not modelled, and why

* **Third-party code**: `externals/` (the Tracy profiler), four fifths of the
  lines that are compiled.  It measures and keeps no state of the program.
* **Floating point and the motion of many bodies**: `Match` and `PoolSystem` leave
  the outcome of a shot open; `Collision` is exact and looks at one contact.  So
  nothing here says that a roll ends at rest: `CheckEndTurnCondition` adds up
  velocities, and the sum of opposite ones is zero (`game.cpp:361`).  Nor what the
  solver does for a pair found before another contact of the step moved one of its
  bodies, or in the exit of a contact, where it runs on bodies that no longer touch
  (`World.cpp:331`): exact positions after two contacts leave TLC's integers.
* **The socket under the client**: after the connection breaks `ReceivePacket`
  reads a type from an empty packet in every frame
  (`client_network_manager.cpp:45`), and what the client does then hangs on an
  uninitialized variable alone.  A server that ends sends nothing more here.
* **A full send buffer**: `SendPacket` stops at `NotReady`, and a packet is lost or
  cut (`server_network_manager.cpp:103`); the kernel's buffer is not modelled.
* **Text, layout, drawing**: `GraphicsManager`, fonts, the widgets but for which of
  them can be clicked; the Elo arithmetic and the JSON of the database dialogue,
  of which the sequence of requests and the reply without a number are modelled.
* **`common`**: `SharedPtr` and `UniquePtr` are used by their own tests only, the
  allocators wrap the heap, the timer and the metrics keep no protocol.
* **The rest of `math`**: angles, matrices, 3D and 4D vectors and SIMD variants are
  used by no other part.
* **A world of size 0**: `World` assumes a positive preallocation (see above).

## Plan

1. `GameServer`, `Match`, `World`, `QuadTree`, `PoolSystem`, `Collision`: modelled and
   checked.  The safety of `GameServer` and `Match` (with their refinements) and `World`,
   the invariants of `PoolSystem` and of `QuadTree`, and those of `Collision`, two of
   them but for polygons: proved.
2. A step of the world with several contacts, on few enough positions to stay
   exact.
