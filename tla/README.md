# A verification project for TPServer

TPServer is a small game server in C++: TCP through Windows overlapped I/O and
one I/O completion port, worker threads that parse and answer packets, game
rooms in memory, logins checked against a database. This directory holds TLA+
models of its parts, the TLC configurations that check them on small instances,
and TLAPS proofs. The reference for every definition is the source under
`src/TPServer/`; `PROJECT.json` ("map") names the lines each one stands for.

## The system

| Part | Source | State | Operations |
|------|--------|-------|------------|
| Completion port server | `Core/TPServer.*` | a `PER_HANDLE_DATA` per connection, a `PER_IO_DATA` per operation, the threads | `Play` (`Initialize`, `Start`, `Close`), `Accept`, `ReadCompletionStatus`, `ProcCompletion` |
| Session pool | `Session/SessionPool.*` | `sessionMap`: socket to `Session*` | create, find, copy, delete, destroy |
| Session | `Session/Session.*` | user id, bytes kept between receives | `AddToBuff`, `ClearBuff`, `SetUserId` |
| Packet framing | `Packet/PacketGenerator.*` | none of its own (the session's buffer) | `Parse` |
| Packet processor | `Packet/PacketProcessor.*` | none | `Parse`, `SendPacket`, `SendPacketAll` |
| Request dispatch | `Packet/PacketService.*` | none | one handler per request |
| Rooms | `GameRoom/*` | `LAST_ROOM_ID`, `roomMap`, an `objUserMap` and an average per room | create a room, add, find and delete a player |
| Player objects | `Object/*`, `Component/*` | room id, hit points, death, posture, position, round trip times | setters, `ApplyDamage`, `UpdateRtt` |
| Battle | `Battle/*` | none | `PlayAbility`: find targets, damage them, broadcast |
| Outgoing packets | `Packet/PacketGeneratorServer.*`, `Packet/Packet.*` | a byte buffer per packet | one constructor per answer or broadcast |
| Database | `DB/*`, `SQLService/*` | one connection shared by all logins | connect, query, insert, disconnect |
| Logging, utilities, wire format, vendored code | `Util/*`, `TP_generated.h`, `flatbuffers/`, `timezone/` | | |

**How they interact.** One thread accepts clients: for each it allocates a
block, creates a `Session`, associates the socket with the port and posts the
first receive. One worker per processor takes completions from the port. For
a receive with bytes it finds the session, cuts the bytes into packets,
processes each packet (which may read and change rooms and players, call the
database, and send to one client or to every session), and posts the receive
again. For a receive without bytes it takes the player out of its room,
deletes the session, tells the others, closes the socket and frees the blocks.
For a send it frees the block. Everything the workers share (the pool, the
rooms, the players) is in plain containers and fields with no lock; hit points
alone are atomic.

**What makes it hard.** Per client the handling is sequential only because a
connection has one receive in flight. Between clients every pair of handlers
interleaves, down to single accesses of a map. Handles and heap blocks are
reused. A `Session*` outlives lookups and copies of the map. Sends and
receives fail, one step of several. TCP cuts packets anywhere. The answer to a
login is built before and sent after a broadcast. The list in `PROJECT.json`
("hazards") has each at its line, with the properties that watch it or the
reason none does.

## Modules

| Module | Models | Checked by |
|--------|--------|------------|
| `Connections` | what the I/O core promises: unique names, registration, one handler at a time | as a property of `CompletionPort` |
| `CompletionPort` | main, accept and worker threads, the port, the kernel, the part of the pool they use | `completion_port`, `completion_port_live` |
| `CompletionPortProofs` | its inductive invariant and theorems | TLAPS |
| `CompletionPortRefinement` | the proof that it implements `Connections` | TLAPS |
| `Presence` | what logins and disconnects promise: who is online, who plays which user | as a property of `LoginRoom` |
| `LoginRoom` | login, rooms, end of a session, enter and exit broadcasts | the `login_*` runs |
| `LoginRoomProofs` | its inductive invariant, its theorems, the refinement of `Presence` | TLAPS |
| `Requests` | all other requests in every state of a session, round trip times | `requests` |
| `RequestsProofs` | its inductive invariant and theorems, sums and windows of samples | TLAPS |
| `OutgoingPackets` | who owns the bytes of a packet, from its construction to `WSASend` and its destructor | the `outgoing*` runs |
| `OutgoingPacketsProofs` | its inductive invariant and theorems | TLAPS |
| `PacketFraming` | `PacketGenerator::Parse` with the session's buffer | the `framing*` runs |
| `PacketFramingProofs` | its invariants and theorems, streams of packets | TLAPS |
| `Battle` | concurrent melee attacks | `battle` |
| `BattleProofs` | its inductive invariant and theorems | TLAPS |
| `DBLogin` | the database half of a login, with failing calls and crashes | `db_login` |
| `DBLoginProofs` | its inductive invariant and theorems | TLAPS |
| `MC...` | constants and symmetry for TLC | |

They compose by promise. `CompletionPort` leaves open what a handler does
between receiving and posting again (any number of broadcasts to any cast group),
and `LoginRoom`, `PacketFraming`, `Requests` and `Battle` rely on what it
establishes: a connection is handled by one worker at a time (`OneReceive`), its
session stays in the pool meanwhile (`SessionStays`), and the pool has no entry
of another connection under its handle (`NoStaleEntry`). `LoginRoom` implements
`Presence` (`ImplementsPresence`), and `Requests` takes its logins and
disconnects from there: it has an `INSTANCE` of `Presence` whose steps are
parts of its own. `DBLogin` is what `LoginRoom` has as one step, the answer of
`LoginUser`; `OutgoingPackets` is what every other module has as one step, the
sending of a packet.

### CompletionPort and Connections

A connection `c` is a `PER_HANDLE_DATA` block with its socket in `sock[c]`;
`key[s]` is the completion key of a socket; `io[i]` is a `PER_IO_DATA` with
the operation, the key and whether bytes were transferred. `pending`, `port`
and `batch[w]` say where a block is: with the kernel, queued, in a worker's
array of `MAX_OVERLAPPED_ENTRY` completions; `cur[w]`, `session[w]` and
`targets[w]` are locals of a worker. Blocks and handles are reused the moment
they are free. `ProcCompletion` is one action per piece of shared state it
touches: look up, each broadcast (copy of the map, then one send at a time),
post again, erase, announce, close, free. `Init` to `JoinWorkersAndDestroy`
cover the main thread, including a failed `WSAStartup`, after which no worker
exists.

Properties: `Placed` (each block in exactly one place), `OneReceive`,
`KeyAlive` (the key of a queued receive is allocated, open, associated and has
a session), `SessionStays`, `NoStaleEntry`, `Disconnected` (liveness) and
`ImplementsConnections`, the refinement: a connection's name is its socket
until `closesocket`, it is registered while its session is in the pool, and
its handlers are the workers processing one of its receives.

Fairness (`FairSpec`), and why the code has it: each worker and the accept
thread that has a client is a running thread (weak fairness); the kernel
completes every operation it accepted (weak, per block); the port is a queue,
so a queued completion is not passed over for ever (strong, per block); the
bytes of one receive hold finitely many packets (strong fairness of
`ParseDone`). Nothing makes clients connect or leave, or an error happen.

### LoginRoom and Presence

A connection stands for its socket, its session and the handler it may have
running; `NumWorkers` bounds how many run. `pc[c]` is the piece of shared state
the handler of `c` touches next and `loc[c]` the record of its local variables.
Each access to `sessionMap`, `roomMap`, `objUserMap`, `LAST_ROOM_ID` or a shared
player is a step of its own, in the order of the code; `++LAST_ROOM_ID` is a load
and a store. Where the code is undefined (an erased iterator, the socket of a
deleted session, two threads in one container) the model may stop with
`status` "undefined"; it stops with "crashed" where a null pointer is
dereferenced. The database answers a login with a new player object or not at
all, and its id is taken to be the one requested (after a failed fetch it is
empty, see `DBLogin`; what an empty id does in the rooms is not modelled).

`died` holds the player objects that are dead. `Die` is what an attack comes to
here: a client that plays somebody has another player of that room killed
(`Battle` has the attack in its steps). `CreateResLogin` leaves the dead out, as
the code does, while the enter broadcast of a player that is alive reaches the
clients of the dead as well. A player that leaves and comes back has a new
object, alive; `Unreferenced` are the objects no `shared_ptr` holds any more.

The code keeps its promises in most runs and not in all, so three history
variables say which: `contended` (two handlers have been busy with the same user
id at once), `manyRooms` (`LAST_ROOM_ID` has been above 1) and `abandoned` (user
ids a session has exchanged for another by a second login). `OneRoom` is no
`manyRooms`: no two first logins have numbered a room each. It has to be a
history, for with three workers a late store takes `LAST_ROOM_ID` back, and the
number itself no longer tells. `Regular` is `OneRoom` and nothing contended.

| Property | Says | Of which runs |
|----------|------|---------------|
| `NoDuplicateLogin` | no two sessions carry one user id | all with one worker |
| `ClientsUpToDate` | when idle, each client knows all the living players | regular |
| | and nobody who has left | all with one worker |
| `NoGhost` | when the server is quiet, no player is without a session, except the abandoned | with one room, contended or not |
| `SessionsArePlayers` | the converse: who has logged in is a player | regular |
| `NoCrash` | no null pointer is dereferenced | regular |
| `Announced` | all who have logged in were told of each other, unless the other is dead | regular |
| `ImplementsPresence` | every step is one of `Presence` or changes nothing it sees | regular |

| Run | Case |
|-----|------|
| `login_serial` | one worker; three clients log in with any of three accounts, also again on one connection |
| `login_pair` | two workers; two clients share an account, the third has its own; no room exists at first |
| `login_shared` | as `login_pair` with two clients: `NoDuplicateLogin` is violated |

Outside regular runs the promises fail in ways the hazards name. After two
concurrent first logins a session can be without a player, and a null player is
dereferenced when it leaves; with a shared account in addition a player can be
left in a second room. The source says nothing about either. And the server
starts one worker per processor: with two, a client can be told of a player
that has left, when a `ResLogin` lists it and is sent after its exit broadcast.
A client is not told of a player that was dead when it logged in, which is what
the code means to do.

### PacketFraming

Bytes are of five kinds: the two of a valid header, the two of
`END_OF_PACKET`, any other. `wire` is what has been sent and not received; a
receive takes any prefix up to `MAX_BUFF_SIZE`; an iteration of `Parse`'s loop
is an action per outcome. `Framed`: between receives, what has been processed
is exactly the packets that arrived in full, and the session's buffer is the
start of the next; it speaks of clients that have sent legal packets only (no
longer than a receive, no end marker inside). `WellFormed`: whatever is sent,
what is processed has a
valid header and ends at its first end marker. `KeepsNoWholePacket`: whatever is
sent, also a packet without an end that fills the buffer to `MAX_BUFF_SIZE` and
is given up, or steps over that size and is kept, no whole packet waits for more
bytes. `FreedMemoryIntact` says
whether a deleted temporary still holds its bytes; the run `framing` has TRUE
and shows
that the algorithm is right apart from that; `framing_freed` has FALSE and
shows that the read after the delete matters.

### OutgoingPackets

`packet[w]` has the packets of a worker's handler under the names of their
variables: the request `Parse` allocated, the response and the broadcast a
handler builds, the one in the `TPResult` and the copy `Process` sends. Each is
absent, cleared, or a block of the heap with the bytes it is meant to have;
`heap` has what the block holds now. Constructors, `Alloc`, `~Packet`, `Send`
and the scopes that end are actions in the order of the code, and a block that
is freed is soon another worker's. A packet longer than
`MAX_BUFF_SIZE` is not `IsValid`: it is neither copied nor freed, so its block
stays behind, and an answer of that length is not sent.

Two things are choices of the model because the build and the network make
them. `Packet`'s copy constructor calls `Alloc`, which tests fields no
constructor has set: `GetPacket` finds there nothing valid, or any valid packet
at all. And `WSASend` takes the bytes at once, or returns with
`WSA_IO_PENDING` and takes them later (`MaxPending` at a time), or fails, which
`SendPacket` logs and forgets. Three history variables say what came of it: the
workers whose copy has found a valid packet (`stale`), the answers a handler owes
less those it sent (`owed`), the workers whose answer was `refused`.

`Owned`: until a copy has found a valid packet on its stack, every packet alive
has a block of its own with its bytes in it, and every block in use has an owner
or is too long. `SentAsBuilt`: as long, what `WSASend` takes at once is what was
built. Neither holds afterwards: the block of somebody else is freed.
`AnsweredOnce`: each answer that fits, an error too, is handed to `WSASend` exactly
once and sent unless refused, for every worker whose own copy has not gone
wrong. The run `outgoing` has the first such copy as its last step (the CONSTRAINT
`BeforeStale`): what comes after is any damage to the heap, and only
`AnsweredOnce` of the other workers still says something then, which is proved.
`outgoing_pending` shows a pending send reading a block that was freed.

### Requests

Every handler but the login, for a client that plays somebody and for one that
does not (yet). Before login the session's user id is null: a request looks up
no one while there is no room, and dereferences the null id once there is one
(`LookupFails`); a move dereferences it always. `ReqRoundTripTime` refuses
samples above `MAX_RTT_MS_C2S` only, so a client whose clock is ahead reports
negative ones. `UpdateRtt` is one step, for the player is changed by its own
handler alone; `GameRoom::UpdateRtt` is a walk over the players with one step
per turn, while others come and go, with `int64_t` sums of a small width
(`Half`) and division towards zero.

`NoCrash`: if clients log in before anything else (`early` is the history of
those that do not), nothing null is dereferenced and nothing divided by zero,
also when the last player leaves. `WindowMean`: the average of a player is the
mean of its latest samples, at most `MAX_RTT_COUNT`, and the answer carries it,
whenever the sum is an `int64_t`. Nothing is claimed of the room's average: it
may be taken over players that were not counted, and nothing reads it. Logins
are those of `Presence`; after two concurrent logins of one account two threads
would update one `ObjUser`, and a reset of its count between the other's
increment and division divides by zero.

### Battle

Each handler finds targets, and per target loads the hit points, exchanges
them, tests them again and sets the flag; then it serialises the targets one
by one and broadcasts. `DamageCounted` (nothing lost: a history variable
counts what the attacks did), `DeadIsEmpty`, `DeathShown`, `OnlyWorse` and, with
each handler scheduled and a weak exchange that does not fail for ever,
`Dies`.

### DBLogin

A worker's `pc` is the call of `DBService::Process` it makes next: the flag is
read by `DBService::DBConnect` and again by `DBServer::DBConnect`, the handle is
allocated, connected, and the flag set; then the statement, the lookup, the two
inserts and the commit or rollback; then the statement is freed, the connection
closed and freed, and the flag cleared. `isConnected`, `hDbc` and
`serviceDbc` (the `hDbc` of `DBService`, by reference in `InsertUser`) are
shared. Every call may fail, which is an action of its own (`...Fails`) with what
the code then does: `DBConnect` gives up and keeps what it allocated, `DBStart`
gives up and stays connected, a failed commit leaves its rows to the
disconnect. A failed `SQLFetch` counts as a row: an `ObjUser` without id and
password, so a login with the `Empty` password is accepted ("accepted unread")
and any other refused. `Crash` ends the process anywhere; only committed `rows`
survive.

External, and assumed as ODBC documents it: with autocommit off a connection's
inserts are `pending` until `SQLEndTran`; a key is inserted once; the first
statement executed, a SELECT too, opens a transaction (`inTrans`) that only
`SQLEndTran` ends; closing a connection frees its statements and may be refused
while its transaction is open; a handle that is still connected is not freed. The
environment handle is folded into the connection handle.

`RegisteredWhole`: a user has a transform or is not there. `AcceptedIsStored`: a
client is told yes only if the user is in the database with that password, or
its row could not be read and the client sent no password.
`ConnectedIsAlive`: between logins the flag is set only for a connection
that works, so no login makes all the later ones fail. `Disconnected`: a login
that is accepted or refused for its password leaves the flag cleared and no row
pending. One that registered a user, which ends with a commit, leaves its
connection closed and freed as well. After the others the transaction of their
SELECT is open; `DBDisconnect` does not look whether `SQLDisconnect` refused, and
the connection may stay behind with nobody to close it.
All four are stated of logins one after the other (`overlapped`, a
history variable): the model interleaves two, and without that condition TLC
violates each of them, because the two share the flag, the handles and the
transaction (one commits what the other has inserted so far, or
the flag stays set for a connection that is gone). The source claims nothing else.

## Findings

1. `login_shared`: the check "중복 로그인 방지" (prevent duplicate login,
   `PacketService.cpp:77`) does not prevent two concurrent logins.
2. `framing_freed`: `PacketGenerator.cpp:106` deletes the copy the loop goes on
   reading from.
3. `outgoing_pending`: `SendPacket` takes `WSA_IO_PENDING` for success
   (`PacketProcessor.cpp:68`), and its callers free the bytes the kernel has
   still to read.

## Bounds

- `completion_port`: 2 connections, 2 handles, 2 workers, 3 blocks, arrays of
  2. Two of each suffice for a conflict between two, a handle and a block can
  be reused, and three blocks let a broadcast be in flight beside a receive of
  each client. The liveness run has 2 blocks and arrays of 1, without symmetry
  (which is unsound for liveness).
- `login_*`: two handlers interleave in `login_pair`, in every way, and the
  third client is told of what they do or comes between; an account shared by
  two and one that is not show both kinds of conflict. Two objects are the
  players of the two accounts; a login waits for one while both are in use,
  which it does only when the shared account is contended. A run ends where
  a second room and a contended user id have both occurred (`NotBoth`): from
  there on only `TypeOK` claims anything, and that is proved. In `login_serial` any of
  three clients can log in as any of three users, and a fourth object lets one
  be abandoned while all three play. `RoomId` is bounded by the workers: each
  concurrent first login creates at most one room.
- `framing*`: receives of 8 bytes, packets of 4 to 8, up to four of them: a
  receive can hold one or two packets, or the end of one, a whole one and the
  beginning of a third. A packet without an end reaches the limit exactly or
  steps over it, as TCP cuts it.
- `outgoing*`: 2 workers and 4 blocks, what one login needs at once (request,
  answer, the result's copy, and one more for the broadcast or the copy that is
  sent), so each worker can finish alone and two compete for what the other
  frees. One pending send (`MaxPending`) is enough to outlive its packet.
  `BeforeStale` ends the exploration at the first copy that finds a valid packet;
  beyond it the theorems hold.
  Deadlock is not checked: packets that are too long leak, so the heap can run
  out, which the code does not survive either.
- `requests`: 2 clients and users, windows of 2 samples and at most 3 samples
  per login, so a window fills and restarts; `int64_t` is -4..3, so two samples
  of -4 overflow and 3 is refused. The walk meets rooms of zero, one and two
  players that come, go and come again.
- `battle`: 3 players with 2 hit points, two of them attacking as often as they
  like, so two attacks on one target, mutual attacks and attacks by the dead all
  happen. The safety properties are proved for any number of attackers.
- `db_login`: two workers, one user, two passwords of which one is empty, three
  handles. The second password shows that a wrong one is refused and what an
  empty one matches, the other handles what follows on connections that were
  left behind; with all left behind every login fails, which the model includes.
  Rows of several users do not meet in any call, and the theorems are for any
  number of them.

## Proofs

The modules `...Proofs` and `CompletionPortRefinement` hold proofs that TLAPS
checks for every value of the constants: any number of connections, users,
workers and blocks, any size of a window, an integer or a buffer. They state
every invariant the runs check, the action properties, and both refinements. What
they take is the named assumptions beside the constants: that null is none of the
values, that the numbers that are sizes are positive, that connections
(`LoginRoom`) and user ids (`Requests`) are finitely many (handles are, and an id
has a bounded length), that packets are sequences of bytes (`PacketFraming`). One theorem
has a condition beside the specification, that of the run it generalises: deleted
memory that keeps its bytes (`UnderstandsLegal`). The others hold of every
behaviour of their specification; where a promise is kept in some runs only, the
property says which (`Regular`, `overlapped`, `stale`, `early`), and so do the
sections above.

**CompletionPort.** None of the properties is inductive alone. `IInv` adds to
`TypeOK`, `Placed`, `OneReceive` and `KeyAlive`:

- `Holding`: a worker holds a block exactly from taking up a receive to posting
  or deleting it, and what it does next fits the bytes of that receive; its
  array is empty when it waits.
- `Handling`: while it serves a connection, that connection's socket is open and
  associated and its session is in the pool; after the erase the session is
  gone and the socket still open; before the free the session is gone.
- `Accepting`: the connection the accept thread sets up has no receive, and its
  session and key appear in the order of the code.
- `Pool`: a closed handle has no key, and every session is under the handle of
  its own connection.
- `Down`: without the network nothing is ever accepted.

The argument turns on `SoleHandler`: two workers never hold receives of one
connection, by `OneReceive` and `Placed`. So what one worker does to a socket, a
session or a key (erase, close, free) disturbs no other worker's part of
`Handling`, and no waiting receive's part of `KeyAlive`, since the one receive of
that connection is the one it holds. There is a lemma per action, with a step
per conjunct the action can disturb and one for the rest; `Invariance` collects
them, and the theorems (`TypeCorrect`, `BlocksPlaced`,
`ReceivesAreSequential`, `KeysAlive`, `SessionsStay`, `PoolFresh`,
`HandlersExclude`) follow from it.

**CompletionPort implements Connections.** `Name`, `Registered` and `Handlers`
are the mapped variables. The refinement needs one fact `IInv` does not have,
`Named`: without the network no connection has a socket (so emptying the pool in
`JoinWorkersAndDestroy` unregisters nobody), and a connection that is not closed
has an open socket it shares with closed ones only (so the handle `WSAAccept`
returns is a fresh name, although a block that is about to be deleted may still
carry it). `Unseen` says when a step changes nothing `Connections` sees, and
serves most actions. The nine others have lemmas that name the step of
`Connections` they are: `AcceptClient` opens, `CreateSession` registers, a receive
taken up begins, `EraseSession` unregisters, `CloseSocket` closes, and posting
the next receive, failing to, or deleting the blocks ends the handling.

**Battle.** `IInv` adds to `TypeOK` and `DamageCounted`: `Stages` (the targets
still to be damaged are among those still to be broadcast), `Dying` (only who has
no hit points is marked), `Killing` (whoever took the last hit points has yet to
test and mark) and `Showing` (a death not yet shown is in a list or a packet).
From it follow `DamageCounted`, `DeadIsEmpty`, `DeathShown` and, for each step,
`OnlyWorse`.

**DBLogin.** `IInv` is `TypeOK`, `Serving` (a worker has a request exactly while
it serves one) and, as long as no two logins have overlapped, `Apart`: one
worker at most is busy (`Alone`); only an open connection has rows pending
(`Unpending`); a user is stored with its transform or not at all (`Whole`); who
was accepted is stored (`Stored`); between logins the flag tells the truth
(`Between`); and `Working` says, call by call, what the login has brought about: the
flag, the handle's state, and exactly which rows are pending on it. The exact rows are
the point: a commit adds a whole user because `pending` is the two rows of this
request and nothing an earlier login left. `Solo` and `Join` reduce each action
to the one worker that is busy.

**OutgoingPackets.** `Heap`, while `stale` is empty, is three facts: a packet has
its bytes in its block (`Holding`), two valid packets never share one (`Distinct`),
a block in use that is not too long is some packet's (`Used`). `Present` says which
packets a handler has at each place, `Answering` where the answer it owes is: in
the response, then in the result, then in the copy that is sent. Lemmas about
the operations (a constructor, a copy, a destructor: `NewHeap`, `AllocHeap`,
`DestroyHeap`) carry `Heap` through every action. With a worker in `stale`
`Distinct` is what fails: a destructor frees another packet's block.
`Answering` needs no heap, so `AnswersOnce` also speaks of the workers that are
not stale themselves.

**LoginRoom.** `IInv` has four parts. `Types` is `TypeOK` with what it needs:
that room ids do not exceed the number of workers is a counting argument
(`Counted`: whoever numbers a room has found none, so is one of the workers
busy before the first room was in the map), and an object is used for one user
only (`OneUser`). `FirstRoom`, while there is one room: every player has a keeper, a
session that names it and has not passed the step that takes it out (`Kept`), and
a player without room id is about to be taken out (`Unsetting`); `NoGhost`
follows, contended or not. `OwnUsers`: while nothing is contended busy
handlers have different users. `Disciplined`, in regular runs: each handler
`Knows` whether its user plays, at every place between the check and the
use, because nobody else adds or removes that user's player (`OwnPlayer`);
`NoCrash`, `SessionsArePlayers` and `NoDuplicateLogin` follow. Two more invariants
rest on these: `ToldInTime` (of two players each has been told of the other, or
the snapshot or broadcast that will tell it is still to come and has it among its
targets, if the other is alive) for `Announced` and the first half of
`ClientsUpToDate`, with any number of workers: since nobody revives
(`NobodyRevives`), a snapshot that left out the dead has left out nobody it would
have to list later; and, with one worker, `OnlyPlayers` (nobody knows, or is
about to be told, of a player there is not, except those being told it has left)
for its second half. One worker makes every run regular (`SerialIsRegular`), so
`NoDuplicateLogin` is proved for it without a condition.

**LoginRoom implements Presence** (`RefinesPresence`). In regular runs the only
room says what is played, and a step changes it for the handler's own connection at
most (`OthersPlay`, `PlayerAt`); so each step is `Connect`, `Enter`, `Leave`,
`Disconnect`, or nothing `Presence` sees.

**Requests.** `OnePlayer` and `Place` (where a handler is and whether it has a
player, and that the room being walked was not empty) give `NoCrash`. `Measured`
ties the fields of an `ObjUser` to the history of its samples: `rttCount` is the
length of the window, and `totalRttMs` its sum up to a multiple of the number of
`int64_t` values, since an overflow wraps; so when the true sum is an `int64_t`
the two are equal and `WindowMean` follows. The lemmas before it say what a fold
of `+` over a sequence is (`FoldIsSum`, `SumAppend`) and how the window of a
sequence grows and restarts (`RecentAppend`).

**PacketFraming.** Whatever is sent, both lists hold whole packets only and what
the session keeps is `Begun` (no end in it, a valid header once it has one); that
is inductive with `TypeOK` and `Between`, and gives `WellFormed` and
`KeepsNoWholePacket`. For legal packets `Understood` says at every step of the loop
that the lists are the first `n` packets sent, and buffer, remaining bytes
and wire together the stream of those after. `FindsNext` and `AwaitsMore` are its
heart: bytes that begin such a stream and have an end have it where the next
packet ends, and bytes without one are shorter than that packet, so less than
`MAX_BUFF_SIZE`, and are kept. Streams are `FlattenSeq`; `FlattenHead` and
`FlattenAppend` say how they start and grow. `UnderstandsLegal` needs
`FreedMemoryIntact`, and `framing_freed` shows that without it the property fails.

Facts about sums, streams and room numbers are by induction on data. They use no
induction theorem with an operator parameter; instead a nonempty set of
counterexamples has a least one (`LeastElement`, from the well-foundedness of `<`).

TLC alone checks liveness (`Disconnected` of `CompletionPort`, and `Dies`),
which is out
of the prover's reach. The three findings are violations of single
properties, shown by TLC.

## Not modelled

Of some 30 000 lines in the repository about 27 000 are vendored (`flatbuffers/`,
`timezone/`) or generated (`TP_generated.h`), and the models treat them as
external: the accessors of a request are its fields, a time is a number. The
program's own code is about 3 500 lines, headers, includes and logging among
them, and most of what changes state in it is mapped. Left out:

- positions, postures and the geometry of an attack: no branch reads them but
  the choice of targets, which `Battle` has as any set;
- the SQL tables beyond their keys and passwords;
- console output, conversions between encodings and time formats, constants;
- `DeleteGameRoom`, `GetSession` by user id, `GetUserObjOnly` and
  `GetUserTransform`, which are never called.

## Plan

In this order; the first nine are done as above.

1. `Connections`, `CompletionPort`, its invariant and first theorems.
2. `LoginRoom`, `PacketFraming`.
3. `Battle`.
4. `DBLogin`.
5. `OutgoingPackets`: ownership of the bytes of a `Packet` through `Alloc`,
   copies, `WSASend` in progress and `TPResult`; the size limit of `IsValid`.
6. Every request in every state of a session, in `Requests`.
7. Round trip times, which share the state and the handlers of `Requests` and
   are part of it.
8. `Presence`, implemented by `LoginRoom` and instantiated by `Requests`.
9. Proofs: every safety invariant and action property, and that `CompletionPort`
   implements `Connections` and `LoginRoom` implements `Presence` (done).
10. Still to come: what of `DBLogin` and `LoginRoom` survives overlapping logins,
    as theorems under weaker conditions than one login at a time and `Regular`.
