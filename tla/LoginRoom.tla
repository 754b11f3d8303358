----------------------------- MODULE LoginRoom -----------------------------
(***************************************************************************)
(* How a client becomes a player and stops being one: the login request    *)
(* (PacketService::ProcReqLogin), the game rooms (GameRoomService and      *)
(* GameRoom), the end of a session (SessionPool::DeleteSession) and the    *)
(* broadcasts that tell the other clients (PacketProcessor).               *)
(*                                                                         *)
(* The worker threads run these handlers at the same time on plain         *)
(* std::maps without any lock, so each access to a map, to LAST_ROOM_ID or *)
(* to a shared ObjUser is a step of its own.  By KeyAlive, OneReceive and  *)
(* NoStaleEntry of CompletionPort a connection is handled by one worker at *)
(* a time and its session is in the pool under its own socket; so here a   *)
(* connection c stands for its socket, its Session and the worker          *)
(* handling it, and c is used again for a later connection once closed.    *)
(*                                                                         *)
(* Two steps that touch the same map at the same time, one of them writing,*)
(* are undefined behaviour: DataRace ends the run there, in addition to    *)
(* every interleaving in which each of the two happens to be whole.        *)
(***************************************************************************)
EXTENDS Naturals, FiniteSets

CONSTANTS
  Conn,        \* connections, that is socket handles
  User,        \* user ids
  Obj,         \* ObjUser objects, shared between rooms and handlers
  None,        \* no user, no object
  NumWorkers,  \* completion threads: handlers that can run at once
  Account      \* Account[c]: the user ids the client at c logs in with

ASSUME ConnAssumption == IsFiniteSet(Conn)
ASSUME WorkerAssumption == NumWorkers \in Nat \ {0}
ASSUME AccountAssumption == Account \in [Conn -> SUBSET User]
ASSUME ObjNoneAssumption == None \notin Obj \cup User

\* Every handler that finds no room creates one; 0 is "no room".
RoomId == 1..NumWorkers

VARIABLES
  status,        \* "running", "crashed" (null pointer) or "undefined"
  sessions,      \* SessionPool::sessionMap
  userId,        \* Session::userId
  LAST_ROOM_ID,  \* GameRoomService::LAST_ROOM_ID
  roomMap,       \* GameRoomService::roomMap: key -> GameRoom::roomId, or 0
  objUserMap,    \* GameRoom::objUserMap of the room at each key
  objRoom,       \* ObjUser::roomId
  died,          \* the objects whose CompUserCondition::isDied is set
  told,          \* the players a client has been told of and not told gone
  pc,            \* where the handler of a connection is
  loc,           \* its local variables
  contended,     \* history: two handlers have been busy with one user id
  manyRooms,     \* history: LAST_ROOM_ID has been above 1
  abandoned      \* history: user ids a session has exchanged for another

poolVars == <<sessions, userId>>
roomVars == <<LAST_ROOM_ID, roomMap, objUserMap, objRoom, died>>
sharedVars == <<status, poolVars, roomVars, told>>
historyVars == <<contended, manyRooms, abandoned>>
vars == <<sharedVars, pc, loc, historyVars>>

Pc == {"closed", "accepted", "idle",
       "check", "db", "setUser", "pick", "bump", "store", "newRoom", "insert",
       "read", "add", "addInsert", "snapshot", "enter", "sendEnter", "reply",
       "lookup", "leave", "unset", "unlist", "erase", "exit", "sendExit",
       "close"}

Locals == [
  user : User \cup {None},      \* wUserId
  obj : Obj \cup {None},        \* objUser
  room : RoomId \cup {0},       \* roomId, a number it read
  id : RoomId \cup {0},         \* the roomId of the GameRoom it is creating
  it : Obj \cup {None},         \* what its iterator into an objUserMap is at
  seen : SUBSET User,           \* the players in the ResLogin it has built
  targets : SUBSET Conn,        \* where its broadcast has still to be sent
  dangling : SUBSET Conn]       \* those of them whose Session is deleted since

Returned == [user |-> None, obj |-> None, room |-> 0, id |-> 0, it |-> None,
             seen |-> {}, targets |-> {}, dangling |-> {}]

TypeOK ==
  /\ status \in {"running", "crashed", "undefined"}
  /\ sessions \subseteq Conn
  /\ userId \in [Conn -> User \cup {None}]
  /\ LAST_ROOM_ID \in RoomId \cup {0}
  /\ roomMap \in [RoomId -> RoomId \cup {0}]
  /\ objUserMap \in [RoomId -> [User -> Obj \cup {None}]]
  /\ objRoom \in [Obj -> RoomId \cup {0}]
  /\ died \subseteq Obj
  /\ told \in [Conn -> SUBSET User]
  /\ pc \in [Conn -> Pc]
  /\ loc \in [Conn -> Locals]
  /\ contended \in BOOLEAN
  /\ manyRooms \in BOOLEAN
  /\ abandoned \subseteq User

Init ==
  /\ status = "running"
  /\ sessions = {}
  /\ userId = [c \in Conn |-> None]
  /\ LAST_ROOM_ID = 0
  /\ roomMap = [k \in RoomId |-> 0]
  /\ objUserMap = [k \in RoomId |-> [u \in User |-> None]]
  /\ objRoom = [o \in Obj |-> 0]
  /\ died = {}
  /\ told = [c \in Conn |-> {}]
  /\ pc = [c \in Conn |-> "closed"]
  /\ loc = [c \in Conn |-> Returned]
  /\ contended = FALSE
  /\ manyRooms = FALSE
  /\ abandoned = {}

-----------------------------------------------------------------------------
(* Helpers. *)

Goto(c, label) == pc' = [pc EXCEPT ![c] = label]

Idle(c) == pc[c] \in {"closed", "accepted", "idle"}
Busy == {c \in Conn : ~Idle(c)}

\* A handler starts only on a free worker.
FreeWorker == Cardinality(Busy) < NumWorkers

Rooms == {k \in RoomId : roomMap[k] # 0}
Begin == CHOOSE k \in Rooms : \A j \in Rooms : k <= j

\* GameRoomService::GetObjUser: the first room that has the user.
Holding(u) == {k \in Rooms : objUserMap[k][u] # None}
GetObjUser(u) ==
  IF Holding(u) = {} THEN None
  ELSE objUserMap[CHOOSE k \in Holding(u) : \A j \in Holding(u) : k <= j][u]

\* Objects no shared_ptr refers to.
Unreferenced ==
  {o \in Obj :
     /\ \A c \in Conn : loc[c].obj # o /\ loc[c].it # o
     /\ \A k \in RoomId, u \in User : objUserMap[k][u] # o}

\* A handler returns: its locals go out of scope.
Return(c, next) == Goto(c, next) /\ loc' = [loc EXCEPT ![c] = Returned]

-----------------------------------------------------------------------------
(* The accept thread, one client at a time: a new socket, CreateSession. *)

AcceptClient(c) ==
  /\ pc[c] = "closed"
  /\ \A d \in Conn : pc[d] # "accepted"
  /\ Goto(c, "accepted")
  /\ UNCHANGED <<sharedVars, loc>>

CreateSession(c) ==
  /\ pc[c] = "accepted"
  /\ sessions' = sessions \cup {c}
  /\ userId' = [userId EXCEPT ![c] = None]
  /\ Goto(c, "idle")
  /\ UNCHANGED <<status, roomVars, told, loc>>

-----------------------------------------------------------------------------
(* A worker with a login request: ProcReqLogin. *)

ReqLogin(c, u) ==
  /\ pc[c] = "idle"
  /\ FreeWorker
  /\ u \in Account[c]
  /\ loc' = [loc EXCEPT ![c].user = u]
  /\ Goto(c, "check")
  /\ UNCHANGED sharedVars

\* Mutant: nobody is refused.
CheckDuplicate_Dropped(c) ==
  /\ pc[c] = "check"
  /\ Goto(c, "db")
  /\ UNCHANGED <<sharedVars, loc>>

\* Mutant: the session is given its user id before the database has answered.
CheckDuplicate_SetsUserId(c) ==
  /\ pc[c] = "check"
  /\ IF GetObjUser(loc[c].user) # None
     THEN Return(c, "idle") /\ UNCHANGED userId
     ELSE /\ Goto(c, "db")
          /\ userId' = [userId EXCEPT ![c] = loc[c].user]
          /\ UNCHANGED loc
  /\ UNCHANGED <<status, sessions, roomVars, told>>

\* A user some room has already is refused with DUPLICATE_LOGIN.
CheckDuplicate(c) ==
  /\ pc[c] = "check"
  /\ IF GetObjUser(loc[c].user) # None
     THEN Return(c, "idle")
     ELSE Goto(c, "db") /\ UNCHANGED loc
  /\ UNCHANGED sharedVars

\* DBService::LoginUser answers with a new ObjUser, alive, whose id is taken to
\* be the requested one: after a failed fetch (DBLogin) it would be empty.
LoginUser(c) ==
  /\ pc[c] = "db"
  /\ \E o \in Unreferenced :
       /\ loc' = [loc EXCEPT ![c].obj = o]
       /\ objRoom' = [objRoom EXCEPT ![o] = 0]
       /\ died' = died \ {o}
  /\ Goto(c, "setUser")
  /\ UNCHANGED <<status, poolVars, LAST_ROOM_ID, roomMap, objUserMap, told>>

\* Wrong password or database error.
LoginUserFails(c) ==
  /\ pc[c] = "db"
  /\ Return(c, "idle")
  /\ UNCHANGED sharedVars

SetUserId(c) ==
  /\ pc[c] = "setUser"
  /\ userId' = [userId EXCEPT ![c] = loc[c].user]
  /\ Goto(c, "pick")
  /\ UNCHANGED <<status, sessions, roomVars, told, loc>>

\* Mutant: every login creates a room.
PickRoom_AlwaysNew(c) ==
  /\ pc[c] = "pick"
  /\ Goto(c, "bump")
  /\ UNCHANGED <<sharedVars, loc>>

\* GameRoomService::AddObjUser(objUser): the first room, or a new one.
PickRoom(c) ==
  /\ pc[c] = "pick"
  /\ IF Rooms = {}
     THEN Goto(c, "bump") /\ UNCHANGED loc
     ELSE Goto(c, "add") /\ loc' = [loc EXCEPT ![c].room = roomMap[Begin]]
  /\ UNCHANGED sharedVars

\* ++LAST_ROOM_ID is a load ...
LoadLastRoomId(c) ==
  /\ pc[c] = "bump"
  /\ loc' = [loc EXCEPT ![c].room = LAST_ROOM_ID]
  /\ Goto(c, "store")
  /\ UNCHANGED sharedVars

\* ... and a store.
StoreLastRoomId(c) ==
  /\ pc[c] = "store"
  /\ LAST_ROOM_ID' = loc[c].room + 1
  /\ Goto(c, "newRoom")
  /\ UNCHANGED <<status, poolVars, roomMap, objUserMap, objRoom, died, told,
                 loc>>

\* new GameRoom(LAST_ROOM_ID)
NewGameRoom(c) ==
  /\ pc[c] = "newRoom"
  /\ loc' = [loc EXCEPT ![c].id = LAST_ROOM_ID]
  /\ Goto(c, "insert")
  /\ UNCHANGED sharedVars

\* roomMap.insert under LAST_ROOM_ID; an entry that is there is kept.
InsertGameRoom(c) ==
  /\ pc[c] = "insert"
  /\ roomMap' = IF roomMap[LAST_ROOM_ID] = 0
                THEN [roomMap EXCEPT ![LAST_ROOM_ID] = loc[c].id]
                ELSE roomMap
  /\ loc' = [loc EXCEPT ![c].id = 0]
  /\ Goto(c, "read")
  /\ UNCHANGED <<status, poolVars, LAST_ROOM_ID, objUserMap, objRoom, died,
                 told>>

ReadLastRoomId(c) ==
  /\ pc[c] = "read"
  /\ loc' = [loc EXCEPT ![c].room = LAST_ROOM_ID]
  /\ Goto(c, "add")
  /\ UNCHANGED sharedVars

\* roomMap.find(roomId), then objUserMap.find(userId); either way to fail
\* leaves the userId of the session set.
AddObjUser(c) ==
  /\ pc[c] = "add"
  /\ IF loc[c].room \in Rooms /\ objUserMap[loc[c].room][loc[c].user] = None
     THEN Goto(c, "addInsert") /\ UNCHANGED loc
     ELSE Return(c, "idle")
  /\ UNCHANGED sharedVars

\* SetRoomId and insert, which keeps an entry made since the find.
AddInsert(c) ==
  /\ pc[c] = "addInsert"
  /\ LET room == loc[c].room  user == loc[c].user IN
       /\ objRoom' = [objRoom EXCEPT ![loc[c].obj] = roomMap[room]]
       /\ objUserMap' =
            IF objUserMap[room][user] = None
            THEN [objUserMap EXCEPT ![room][user] = loc[c].obj]
            ELSE objUserMap
  /\ Goto(c, "snapshot")
  /\ UNCHANGED <<status, poolVars, LAST_ROOM_ID, roomMap, died, told, loc>>

\* CreateResLogin of the first room: its players, less those that have died.
\* GetGameRoom is null when the room at the front of the map has another id
\* than its key and no room has that id for a key.
CreateResLogin(c) ==
  /\ pc[c] = "snapshot"
  /\ LET first == roomMap[Begin] IN
       IF first \in Rooms
       THEN /\ loc' = [loc EXCEPT ![c].seen =
                 {u \in User : objUserMap[first][u] \notin died \cup {None}}]
            /\ Goto(c, "enter")
            /\ UNCHANGED status
       ELSE status' = "crashed" /\ UNCHANGED <<pc, loc>>
  /\ UNCHANGED <<poolVars, roomVars, told>>

\* Mutant: the test of the cast group is the other way round.
CopyForEnter_Inverted(c) ==
  /\ pc[c] = "enter"
  /\ loc' = [loc EXCEPT ![c].targets = sessions \cap {c}]
  /\ Goto(c, "sendEnter")
  /\ UNCHANGED sharedVars

\* SendPacketAll of the enter packet: a copy of the sessions, less the owner.
CopyForEnter(c) ==
  /\ pc[c] = "enter"
  /\ loc' = [loc EXCEPT ![c].targets = sessions \ {c}]
  /\ Goto(c, "sendEnter")
  /\ UNCHANGED sharedVars

\* What is written to a socket reaches the client that has it now, if any.
Reaches(d) == pc[d] # "closed"

Sent(c, d) ==
  loc' = [loc EXCEPT ![c].targets = @ \ {d}, ![c].dangling = @ \ {d}]

SendEnter(c, d) ==
  /\ pc[c] = "sendEnter"
  /\ d \in loc[c].targets
  /\ told' = IF Reaches(d)
             THEN [told EXCEPT ![d] = @ \cup {loc[c].user}] ELSE told
  /\ Sent(c, d)
  /\ UNCHANGED <<status, poolVars, roomVars, pc>>

\* The loop reads the socket of a Session that was deleted after the copy: it
\* may read the owner's socket and send nothing, or fault.
SendEnterDangling(c, d) ==
  /\ pc[c] = "sendEnter"
  /\ d \in loc[c].dangling
  /\ \/ Sent(c, d) /\ UNCHANGED status
     \/ status' = "undefined" /\ UNCHANGED loc
  /\ UNCHANGED <<poolVars, roomVars, told, pc>>

SendEnterDone(c) ==
  /\ pc[c] = "sendEnter"
  /\ loc[c].targets = {}
  /\ Goto(c, "reply")
  /\ UNCHANGED <<sharedVars, loc>>

\* PacketService::Process sends the result, built before the enter packet.
SendResLogin(c) ==
  /\ pc[c] = "reply"
  /\ told' = [told EXCEPT ![c] = @ \cup loc[c].seen]
  /\ Return(c, "idle")
  /\ UNCHANGED <<status, poolVars, roomVars>>

-----------------------------------------------------------------------------
(* A worker with an attack: ProcReqAbility, BattleService::Hit, ApplyDamage. *)

\* The attacks and the hit points are those of Battle; here an attack of the
\* client at c has killed another player of its player's room.  Nobody revives.
Die(c, u) ==
  /\ pc[c] = "idle"
  /\ FreeWorker
  /\ userId[c] \notin {u, None}
  /\ GetObjUser(userId[c]) # None
  /\ LET room == objRoom[GetObjUser(userId[c])] IN
       /\ room \in Rooms
       /\ objUserMap[room][u] \notin died \cup {None}
       /\ died' = died \cup {objUserMap[room][u]}
  /\ UNCHANGED <<status, poolVars, LAST_ROOM_ID, roomMap, objUserMap, objRoom,
                 told, pc, loc>>

-----------------------------------------------------------------------------
(* A worker with an empty receive: SessionPool::DeleteSession, closesocket. *)

Disconnect(c) ==
  /\ pc[c] = "idle"
  /\ FreeWorker
  /\ loc' = [loc EXCEPT ![c].user = userId[c]]
  /\ Goto(c, IF userId[c] = None THEN "erase" ELSE "lookup")
  /\ UNCHANGED sharedVars

\* Mutant: the player's room id is reset before its room is looked up with it.
LookupObjUser_UnsetsFirst(c) ==
  /\ pc[c] = "lookup"
  /\ LET o == GetObjUser(loc[c].user) IN
       IF o = None
       THEN status' = "crashed" /\ UNCHANGED <<pc, loc, objRoom>>
       ELSE /\ loc' = [loc EXCEPT ![c].obj = o]
            /\ objRoom' = [objRoom EXCEPT ![o] = 0]
            /\ Goto(c, "leave")
            /\ UNCHANGED status
  /\ UNCHANGED <<poolVars, LAST_ROOM_ID, roomMap, objUserMap, died, told>>

\* GameRoomService::GetObjUser(userId), handed to DeleteObjUser, which
\* dereferences it.
LookupObjUser(c) ==
  /\ pc[c] = "lookup"
  /\ LET o == GetObjUser(loc[c].user) IN
       IF o = None
       THEN status' = "crashed" /\ UNCHANGED <<pc, loc>>
       ELSE /\ loc' = [loc EXCEPT ![c].obj = o]
            /\ Goto(c, "leave")
            /\ UNCHANGED status
  /\ UNCHANGED <<poolVars, roomVars, told>>

\* roomMap.find(objUser->GetRoomId()), objUserMap.find(userId).
LeaveRoom(c) ==
  /\ pc[c] = "leave"
  /\ LET k == objRoom[loc[c].obj] IN
       IF k \in Rooms /\ objUserMap[k][loc[c].user] # None
       THEN /\ loc' = [loc EXCEPT ![c].room = k,
                                  ![c].it = objUserMap[k][loc[c].user]]
            /\ Goto(c, "unset")
       ELSE Goto(c, "erase") /\ UNCHANGED loc
  /\ UNCHANGED sharedVars

UnsetRoomId(c) ==
  /\ pc[c] = "unset"
  /\ objRoom' = [objRoom EXCEPT ![loc[c].it] = 0]
  /\ Goto(c, "unlist")
  /\ UNCHANGED <<status, poolVars, LAST_ROOM_ID, roomMap, objUserMap, died,
                 told, loc>>

\* objUserMap.erase(it): undefined if another thread has erased that entry.
Unlist(c) ==
  /\ pc[c] = "unlist"
  /\ LET room == loc[c].room  user == loc[c].user IN
       IF objUserMap[room][user] = loc[c].it
       THEN /\ objUserMap' = [objUserMap EXCEPT ![room][user] = None]
            /\ loc' = [loc EXCEPT ![c].it = None]
            /\ Goto(c, "erase")
            /\ UNCHANGED status
       ELSE status' = "undefined" /\ UNCHANGED <<objUserMap, loc, pc>>
  /\ UNCHANGED <<poolVars, LAST_ROOM_ID, roomMap, objRoom, died, told>>

\* delete session, sessionMap.erase.  Copies of the map still point to it.
EraseSession(c) ==
  /\ pc[c] = "erase"
  /\ sessions' = sessions \ {c}
  /\ userId' = [userId EXCEPT ![c] = None]
  /\ loc' = [d \in Conn |->
              IF c \in loc[d].targets
              THEN [loc[d] EXCEPT !.dangling = @ \cup {c}] ELSE loc[d]]
  /\ Goto(c, IF loc[c].obj = None THEN "close" ELSE "exit")
  /\ UNCHANGED <<status, roomVars, told>>

CopyForExit(c) ==
  /\ pc[c] = "exit"
  /\ loc' = [loc EXCEPT ![c].targets = sessions]
  /\ Goto(c, "sendExit")
  /\ UNCHANGED sharedVars

\* The cast group is empty, so no Session is read here.
SendExit(c, d) ==
  /\ pc[c] = "sendExit"
  /\ d \in loc[c].targets
  /\ told' = IF Reaches(d)
             THEN [told EXCEPT ![d] = @ \ {loc[c].user}] ELSE told
  /\ Sent(c, d)
  /\ UNCHANGED <<status, poolVars, roomVars, pc>>

SendExitDone(c) ==
  /\ pc[c] = "sendExit"
  /\ loc[c].targets = {}
  /\ Goto(c, "close")
  /\ UNCHANGED <<sharedVars, loc>>

\* The last shared_ptr to an object may have gone: there is no isDied any more.
CloseSocket(c) ==
  /\ pc[c] = "close"
  /\ told' = [told EXCEPT ![c] = {}]
  /\ Return(c, "closed")
  /\ UNCHANGED <<status, poolVars, LAST_ROOM_ID, roomMap, objUserMap, objRoom>>
  /\ died' = died \ Unreferenced'

-----------------------------------------------------------------------------
(* Data races: the next steps of two threads touch one map, one writing. *)

Reads(map) ==
  CASE map = "sessionMap" -> {"enter", "exit"}
    [] map = "roomMap"    -> {"check", "pick", "add", "snapshot", "lookup",
                              "leave"}
    [] map = "objUserMap" -> {"check", "add", "snapshot", "lookup", "leave"}

Writes(map) ==
  CASE map = "sessionMap" -> {"accepted", "erase"}
    [] map = "roomMap"    -> {"insert"}
    [] map = "objUserMap" -> {"addInsert", "unlist"}

DataRace ==
  /\ \E map \in {"sessionMap", "roomMap", "objUserMap"} :
       \E c \in Conn : \E d \in Conn \ {c} :
         /\ pc[c] \in Writes(map)
         /\ pc[d] \in Reads(map) \cup Writes(map)
  /\ status' = "undefined"
  /\ UNCHANGED <<poolVars, roomVars, told, pc, loc>>

Login(c) ==
  \/ \E u \in User : ReqLogin(c, u)
  \/ CheckDuplicate(c)
  \/ LoginUser(c)
  \/ LoginUserFails(c)
  \/ SetUserId(c)
  \/ PickRoom(c)
  \/ LoadLastRoomId(c)
  \/ StoreLastRoomId(c)
  \/ NewGameRoom(c)
  \/ InsertGameRoom(c)
  \/ ReadLastRoomId(c)
  \/ AddObjUser(c)
  \/ AddInsert(c)
  \/ CreateResLogin(c)
  \/ CopyForEnter(c)
  \/ \E d \in Conn : SendEnter(c, d) \/ SendEnterDangling(c, d)
  \/ SendEnterDone(c)
  \/ SendResLogin(c)

DeleteSession(c) ==
  \/ Disconnect(c)
  \/ LookupObjUser(c)
  \/ LeaveRoom(c)
  \/ UnsetRoomId(c)
  \/ Unlist(c)
  \/ EraseSession(c)
  \/ CopyForExit(c)
  \/ \E d \in Conn : SendExit(c, d)
  \/ SendExitDone(c)
  \/ CloseSocket(c)

Running ==
  \/ \E c \in Conn :
       \/ AcceptClient(c)
       \/ CreateSession(c)
       \/ Login(c)
       \/ \E u \in User : Die(c, u)
       \/ DeleteSession(c)
  \/ DataRace

\* What the properties are conditional on.
History ==
  /\ contended' = (contended \/ \E c, d \in Busy' :
                     /\ c # d
                     /\ loc'[c].user = loc'[d].user
                     /\ loc'[c].user # None)
  /\ manyRooms' = (manyRooms \/ LAST_ROOM_ID' > 1)
  /\ abandoned' = abandoned \cup
       ({userId[c] : c \in {d \in sessions \cap sessions' :
                            userId'[d] # userId[d]}} \ {None})

\* After a crash or undefined behaviour the model says no more.
Halted == status # "running" /\ UNCHANGED vars

Next == (status = "running" /\ Running /\ History) \/ Halted

Spec == Init /\ [][Next]_vars

-----------------------------------------------------------------------------
(* Properties.  Regular excludes two cases in which some of them fail: two  *)
(* handlers that deal with the same user id at the same time, and two first *)
(* logins that each create a room.                                          *)

OneRoom == ~manyRooms
Regular == ~contended /\ OneRoom

Players == {u \in User : Holding(u) # {}}
Alive == {u \in Players : GetObjUser(u) \notin died}

\* Two sessions never carry the same user id: a user already logged in is
\* refused (PacketService::ProcReqLogin, "prevent duplicate login").
NoDuplicateLogin ==
  \A c, d \in sessions : userId[c] = userId[d] /\ userId[c] # None => c = d

\* No handler ever dereferences a null pointer: DeleteSession finds the player
\* its session names, and a successful login finds the first room.
NoCrash == Regular => status # "crashed"

\* A handler that no longer changes the membership of its connection.
Settled(c) == pc[c] \in {"closed", "accepted", "idle", "snapshot", "enter",
                         "sendEnter", "reply", "exit", "sendExit", "close"}

Quiet == status = "running" /\ \A c \in Conn : Settled(c)
SessionUsers == {userId[c] : c \in sessions} \ {None}

\* No player stays behind in a room when its client has gone: DeleteSession
\* takes the player out before it erases the session, and a handler that skips
\* that leaves it to another that is about to.  Only a login on a connection
\* that is logged in already leaves a player behind.
NoGhost == Quiet /\ OneRoom => Players \subseteq SessionUsers \cup abandoned

\* A client that has logged in is a player in some room until it leaves: no
\* other handler takes its player out.
SessionsArePlayers == Quiet /\ Regular => SessionUsers \subseteq Players

\* Once a client has logged in it has been told of every living player whose
\* own login has finished, by its ResLogin or by that player's enter broadcast,
\* and of none of them that it is gone.
Announced ==
  status = "running" /\ Regular =>
    \A c, d \in sessions :
      pc[c] = "idle" /\ pc[d] = "idle"
        /\ userId[c] \in Players /\ userId[d] \in Alive
      => userId[d] \in told[c]

\* When nothing is going on every client that has logged in knows all the
\* living players and, if the program has one worker, nobody who has left.
\* With more a ResLogin can come after the exit of a player it lists.
ClientsUpToDate ==
  status = "running" /\ Busy = {} =>
    \A c \in sessions : userId[c] # None =>
      /\ Regular => Alive \subseteq told[c]
      /\ NumWorkers = 1 => told[c] \subseteq Players

\* What a connection plays: the user id of its session once a room has it.
Plays(c) == IF userId[c] \in Players THEN userId[c] ELSE None

Abstract == INSTANCE Presence
  WITH online <- sessions, player <- [c \in Conn |-> Plays(c)]

\* In regular runs logins and disconnects keep the promises of Presence: every
\* step is one of its steps or changes neither who is online nor who plays.
ImplementsPresence ==
  Abstract!Init /\ [][Regular' => Abstract!Next]_(Abstract!vars)
=============================================================================
