-------------------------- MODULE LoginRoomProofs --------------------------
(***************************************************************************)
(* Proofs about LoginRoom, for any number of connections, users and        *)
(* objects and any number of workers, unless a theorem says otherwise.     *)
(***************************************************************************)
EXTENDS LoginRoom, FiniteSetTheorems, WellFoundedInduction, TLAPS

-----------------------------------------------------------------------------
(* Counting rooms. *)

\* Handlers that are about to increment LAST_ROOM_ID, and to use it.
Bumping == {c \in Conn : pc[c] \in {"bump", "store"}}
Making == {c \in Conn : pc[c] \in {"newRoom", "insert"}}

\* No more rooms are numbered than there are workers: who creates a room has
\* found none, so they all create it before the first of them has returned.
Counted ==
  /\ Cardinality(Busy) <= NumWorkers
  /\ LAST_ROOM_ID + Cardinality(Bumping) <= NumWorkers
  /\ \A c \in Conn :
       /\ pc[c] = "store" =>
            loc[c].room + Cardinality(Bumping) <= NumWorkers
       /\ pc[c] = "store" /\ Rooms = {} => loc[c].room <= Cardinality(Making)
       /\ pc[c] \in {"newRoom", "insert", "read"} => LAST_ROOM_ID # 0
       /\ pc[c] = "insert" => loc[c].id # 0
  /\ Rooms = {} => LAST_ROOM_ID <= Cardinality(Making)

-----------------------------------------------------------------------------
(* What a handler has in its local variables, and who has a session. *)

Deciding == {"check", "db", "setUser"}
Joining == {"pick", "bump", "store", "newRoom", "insert", "read", "add",
            "addInsert"}
Telling == {"snapshot", "enter", "sendEnter", "reply"}
Leaving == {"lookup", "leave", "unset", "unlist"}
Gone == {"closed", "accepted", "exit", "sendExit", "close"}

Phase(c) ==
  /\ Idle(c) => loc[c] = Returned
  /\ pc[c] \in Gone <=> c \notin sessions
  /\ c \notin sessions => userId[c] = None
  /\ pc[c] \in Deciding \cup Joining \cup Telling \cup Leaving
               \cup {"exit", "sendExit"} => loc[c].user # None
  /\ pc[c] \in Joining \cup Telling \cup Leaving \cup {"erase"} =>
       userId[c] = loc[c].user
  /\ pc[c] \in {"check", "db", "lookup"} => loc[c].obj = None
  /\ pc[c] \in {"setUser", "leave", "unset", "unlist", "exit", "sendExit"}
               \cup Joining \cup Telling => loc[c].obj # None
  /\ pc[c] \in {"unset", "unlist"} <=> loc[c].it # None
  /\ pc[c] = "erase" => (loc[c].obj = None <=> loc[c].user = None)
  /\ pc[c] \in {"addInsert", "unset", "unlist"} => loc[c].room \in Rooms
  /\ loc[c].targets # {} => pc[c] \in {"sendEnter", "sendExit"}
  /\ loc[c].dangling \subseteq loc[c].targets

\* Every reference to an object is for the same user.
Refers(o, u) ==
  \/ \E k \in RoomId : objUserMap[k][u] = o
  \/ \E c \in Conn : loc[c].user = u /\ o \in {loc[c].obj, loc[c].it}

OneUser ==
  \A o \in Obj, u, v \in User : Refers(o, u) /\ Refers(o, v) => u = v

Types == TypeOK /\ Counted /\ (\A c \in Conn : Phase(c)) /\ OneUser

-----------------------------------------------------------------------------
(* What the operators of the model return. *)

\* The front of a std::map: a nonempty set of numbers has a least element.
LEMMA LeastElement ==
  ASSUME NEW S \in SUBSET Nat, S # {}
  PROVE  \E k \in S : \A j \in S : k <= j
<1>1. PICK k \in S : \A j \in S : <<j, k>> \notin OpToRel(<, Nat)
  BY WFMin, NatLessThanWellFounded, Zenon
<1>2. \A j \in S : ~ (j < k)
  BY <1>1, Zenon DEF OpToRel
<1>3. QED
  BY <1>2

\* roomMap.begin() is a room when there is one.
LEMMA FrontRoom ==
  ASSUME Rooms # {}
  PROVE  Begin \in Rooms
<1>1. Rooms \in SUBSET Nat
  BY DEF Rooms, RoomId
<1>2. \E k \in Rooms : \A j \in Rooms : k <= j
  BY <1>1, LeastElement
<1>3. QED
  BY <1>2 DEF Begin

\* GameRoomService::GetObjUser returns an entry for the user, if there is one.
LEMMA FoundEntry ==
  ASSUME TypeOK
  PROVE  \A u \in User :
           \/ GetObjUser(u) = None /\ Holding(u) = {}
           \/ /\ GetObjUser(u) \in Obj
              /\ \E k \in Holding(u) : GetObjUser(u) = objUserMap[k][u]
<1>1. SUFFICES ASSUME NEW u \in User, Holding(u) # {}
               PROVE  /\ GetObjUser(u) \in Obj
                      /\ \E k \in Holding(u) : GetObjUser(u) = objUserMap[k][u]
  BY DEF GetObjUser
<1>2. Holding(u) \in SUBSET Nat
  BY DEF Holding, Rooms, RoomId
<1>3. \E k \in Holding(u) : \A j \in Holding(u) : k <= j
  BY <1>1, <1>2, LeastElement
<1>4. PICK k \in Holding(u) : GetObjUser(u) = objUserMap[k][u]
  BY <1>1, <1>3 DEF GetObjUser
<1>5. k \in RoomId /\ objUserMap[k][u] # None
  BY DEF Holding, Rooms
<1>6. QED
  BY <1>4, <1>5 DEF TypeOK

-----------------------------------------------------------------------------
(* Types and counts. *)

\* Every step keeps the types: an id is counted before it is stored, and an
\* entry or an object is looked up before it is used.
LEMMA TypeStep ==
  ASSUME Types, Running, History
  PROVE  TypeOK'
<1>1. /\ contended' \in BOOLEAN /\ manyRooms' \in BOOLEAN
      /\ abandoned' \subseteq User
  BY DEF Types, TypeOK, History
<1>2. Returned \in Locals /\ loc \in [Conn -> Locals]
  BY DEF Returned, Locals, Types, TypeOK
<1>3. ASSUME NEW c \in Conn, AcceptClient(c)
      PROVE  TypeOK'
  BY <1>1, <1>2, <1>3
     DEF Types, TypeOK, AcceptClient, Goto, Return, Locals, Pc, sharedVars,
         poolVars, roomVars
<1>4. ASSUME NEW c \in Conn, CreateSession(c)
      PROVE  TypeOK'
  BY <1>1, <1>2, <1>4
     DEF Types, TypeOK, CreateSession, Goto, Return, Locals, Pc, sharedVars,
         poolVars, roomVars
<1>5. ASSUME NEW c \in Conn, NEW u \in User, ReqLogin(c, u)
      PROVE  TypeOK'
  BY <1>1, <1>2, <1>5
     DEF Types, TypeOK, ReqLogin, Goto, Return, Locals, Pc, sharedVars,
         poolVars, roomVars
<1>6. ASSUME NEW c \in Conn, CheckDuplicate(c)
      PROVE  TypeOK'
  <2>1. loc' \in [Conn -> Locals]
    BY <1>2, <1>6 DEF Types, TypeOK, CheckDuplicate, Return
  <2>2. pc' \in [Conn -> Pc]
    BY <1>6 DEF Types, TypeOK, CheckDuplicate, Return, Goto, Pc
  <2>3. QED
    BY <1>1, <1>6, <2>1, <2>2
       DEF Types, TypeOK, CheckDuplicate, sharedVars, poolVars, roomVars
<1>7. ASSUME NEW c \in Conn, LoginUser(c)
      PROVE  TypeOK'
  <2>1. PICK o \in Obj : /\ loc' = [loc EXCEPT ![c].obj = o]
                      /\ objRoom' = [objRoom EXCEPT ![o] = 0]
    BY <1>7 DEF LoginUser, Unreferenced
  <2>2. loc' \in [Conn -> Locals]
    BY <1>2, <2>1 DEF Locals
  <2>3. objRoom' \in [Obj -> RoomId \cup {0}]
    BY <2>1 DEF Types, TypeOK
  <2>4. pc' \in [Conn -> Pc]
    BY <1>7 DEF Types, TypeOK, LoginUser, Goto, Pc
  <2>5. QED
    BY <1>1, <1>7, <2>2, <2>3, <2>4 DEF Types, TypeOK, LoginUser, poolVars
<1>8. ASSUME NEW c \in Conn, LoginUserFails(c)
      PROVE  TypeOK'
  BY <1>1, <1>2, <1>8
     DEF Types, TypeOK, LoginUserFails, Goto, Return, Locals, Pc, sharedVars,
         poolVars, roomVars
<1>9. ASSUME NEW c \in Conn, SetUserId(c)
      PROVE  TypeOK'
  BY <1>1, <1>2, <1>9
     DEF Types, TypeOK, SetUserId, Goto, Return, Locals, Pc, sharedVars,
         poolVars, roomVars
<1>10. ASSUME NEW c \in Conn, PickRoom(c)
      PROVE  TypeOK'
  <2>1. Rooms # {} => roomMap[Begin] \in RoomId \cup {0}
    BY FrontRoom DEF Types, TypeOK, Rooms
  <2>2. loc' \in [Conn -> Locals]
    BY <1>2, <1>10, <2>1 DEF PickRoom, Locals
  <2>3. pc' \in [Conn -> Pc]
    BY <1>10 DEF Types, TypeOK, PickRoom, Goto, Pc
  <2>4. QED
    BY <1>1, <1>10, <2>2, <2>3
       DEF Types, TypeOK, PickRoom, sharedVars, poolVars, roomVars
<1>11. ASSUME NEW c \in Conn, LoadLastRoomId(c)
      PROVE  TypeOK'
  BY <1>1, <1>2, <1>11
     DEF Types, TypeOK, LoadLastRoomId, Goto, Return, Locals, Pc, sharedVars,
         poolVars, roomVars
<1>12. ASSUME NEW c \in Conn, StoreLastRoomId(c)
      PROVE  TypeOK'
  <2>1. IsFiniteSet(Bumping) /\ Cardinality(Bumping) # 0
    BY <1>12, ConnAssumption, FS_Subset, FS_EmptySet
       DEF Bumping, StoreLastRoomId
  <2>2. Cardinality(Bumping) \in Nat
    BY <2>1, FS_CardinalityType
  <2>3. loc[c].room + Cardinality(Bumping) <= NumWorkers
    BY <1>12 DEF Types, Counted, StoreLastRoomId
  <2>4. LAST_ROOM_ID' \in RoomId
    BY <1>12, WorkerAssumption, <2>1, <2>2, <2>3
       DEF Types, TypeOK, Locals, RoomId, StoreLastRoomId
  <2>5. QED
    BY <1>1, <1>12, <2>4
       DEF Types, TypeOK, StoreLastRoomId, Goto, Pc, roomVars, poolVars
<1>13. ASSUME NEW c \in Conn, NewGameRoom(c)
      PROVE  TypeOK'
  BY <1>1, <1>2, <1>13
     DEF Types, TypeOK, NewGameRoom, Goto, Return, Locals, Pc, sharedVars,
         poolVars, roomVars
<1>14. ASSUME NEW c \in Conn, InsertGameRoom(c)
      PROVE  TypeOK'
  <2>1. LAST_ROOM_ID \in RoomId
    BY <1>14 DEF Types, TypeOK, Counted, InsertGameRoom
  <2>2. roomMap' \in [RoomId -> RoomId \cup {0}]
    BY <1>14, <2>1 DEF Types, TypeOK, InsertGameRoom, Locals
  <2>3. loc' \in [Conn -> Locals]
    BY <1>2, <1>14 DEF InsertGameRoom, Locals
  <2>4. pc' \in [Conn -> Pc]
    BY <1>14 DEF Types, TypeOK, InsertGameRoom, Goto, Pc
  <2>5. QED
    BY <1>1, <1>14, <2>2, <2>3, <2>4
       DEF Types, TypeOK, InsertGameRoom, poolVars
<1>15. ASSUME NEW c \in Conn, ReadLastRoomId(c)
      PROVE  TypeOK'
  BY <1>1, <1>2, <1>15
     DEF Types, TypeOK, ReadLastRoomId, Goto, Return, Locals, Pc, sharedVars,
         poolVars, roomVars
<1>16. ASSUME NEW c \in Conn, AddObjUser(c)
      PROVE  TypeOK'
  BY <1>1, <1>2, <1>16
     DEF Types, TypeOK, AddObjUser, Goto, Return, Locals, Pc, sharedVars,
         poolVars, roomVars, Rooms
<1>17. ASSUME NEW c \in Conn, AddInsert(c)
      PROVE  TypeOK'
  <2>1. loc[c].user \in User /\ loc[c].obj \in Obj
    BY <1>17 DEF Types, TypeOK, Phase, Joining, AddInsert, Locals
  <2>2. roomMap[loc[c].room] \in RoomId \cup {0}
    BY <1>17 DEF Types, TypeOK, Phase, Rooms, AddInsert
  <2>3. objRoom' \in [Obj -> RoomId \cup {0}]
    BY <1>17, <2>1, <2>2 DEF Types, TypeOK, AddInsert
  <2>4. objUserMap' \in [RoomId -> [User -> Obj \cup {None}]]
    BY <1>17, <2>1 DEF Types, TypeOK, AddInsert
  <2>5. pc' \in [Conn -> Pc]
    BY <1>17 DEF Types, TypeOK, AddInsert, Goto, Pc
  <2>6. QED
    BY <1>1, <1>17, <2>3, <2>4, <2>5 DEF Types, TypeOK, AddInsert, poolVars
<1>18. ASSUME NEW c \in Conn, CreateResLogin(c)
      PROVE  TypeOK'
  <2>1. loc' \in [Conn -> Locals]
    BY <1>2, <1>18 DEF CreateResLogin, Locals
  <2>2. pc' \in [Conn -> Pc] /\ status' \in {"crashed"} \cup {status}
    BY <1>18 DEF Types, TypeOK, CreateResLogin, Goto, Pc
  <2>3. QED
    BY <1>1, <1>18, <2>1, <2>2
       DEF Types, TypeOK, CreateResLogin, poolVars, roomVars
<1>19. ASSUME NEW c \in Conn, CopyForEnter(c)
      PROVE  TypeOK'
  BY <1>1, <1>2, <1>19
     DEF Types, TypeOK, CopyForEnter, Goto, Return, Locals, Pc, sharedVars,
         poolVars, roomVars
<1>20. ASSUME NEW c \in Conn, NEW d \in Conn, SendEnter(c, d)
      PROVE  TypeOK'
  <2>1. loc' \in [Conn -> Locals]
    <3>1. Sent(c, d)
      BY <1>20 DEF SendEnter
    <3>2. QED
      BY <1>2, <3>1 DEF Sent, Locals
  <2>2. told' \in [Conn -> SUBSET User]
    <3>1. CASE Reaches(d)
      <4>1. told[d] \cup {loc[c].user} \in SUBSET User
        BY <1>20 DEF Types, TypeOK, Phase, Telling, SendEnter, Locals
      <4>2. QED
        BY <1>20, <3>1, <4>1 DEF Types, TypeOK, SendEnter
    <3>2. CASE ~Reaches(d)
      BY <1>20, <3>2 DEF Types, TypeOK, SendEnter
    <3>3. QED
      BY <3>1, <3>2
  <2>3. QED
    BY <1>1, <1>20, <2>1, <2>2 DEF Types, TypeOK, SendEnter, poolVars, roomVars
<1>21. ASSUME NEW c \in Conn, NEW d \in Conn, SendEnterDangling(c, d)
      PROVE  TypeOK'
  BY <1>1, <1>2, <1>21
     DEF Types, TypeOK, SendEnterDangling, Goto, Return, Locals, Pc,
         sharedVars, poolVars, roomVars, Sent, Reaches
<1>22. ASSUME NEW c \in Conn, SendEnterDone(c)
      PROVE  TypeOK'
  BY <1>1, <1>2, <1>22
     DEF Types, TypeOK, SendEnterDone, Goto, Return, Locals, Pc, sharedVars,
         poolVars, roomVars
<1>23. ASSUME NEW c \in Conn, SendResLogin(c)
      PROVE  TypeOK'
  BY <1>1, <1>2, <1>23
     DEF Types, TypeOK, SendResLogin, Goto, Return, Locals, Pc, sharedVars,
         poolVars, roomVars
<1>24. ASSUME NEW c \in Conn, Disconnect(c)
      PROVE  TypeOK'
  BY <1>1, <1>2, <1>24
     DEF Types, TypeOK, Disconnect, Goto, Return, Locals, Pc, sharedVars,
         poolVars, roomVars
<1>25. ASSUME NEW c \in Conn, LookupObjUser(c)
      PROVE  TypeOK'
  <2>1. loc[c].user \in User
    BY <1>25 DEF Types, TypeOK, Phase, Leaving, LookupObjUser, Locals
  <2>2. GetObjUser(loc[c].user) \in Obj \cup {None}
    BY <2>1, FoundEntry DEF Types
  <2>3. loc' \in [Conn -> Locals]
    BY <1>2, <1>25, <2>2 DEF LookupObjUser, Locals
  <2>4. pc' \in [Conn -> Pc] /\ status' \in {"crashed"} \cup {status}
    BY <1>25 DEF Types, TypeOK, LookupObjUser, Goto, Pc
  <2>5. QED
    BY <1>1, <1>25, <2>3, <2>4
       DEF Types, TypeOK, LookupObjUser, poolVars, roomVars
<1>26. ASSUME NEW c \in Conn, LeaveRoom(c)
      PROVE  TypeOK'
  <2>1. loc[c].user \in User /\ loc[c].obj \in Obj
    BY <1>26 DEF Types, TypeOK, Phase, Leaving, LeaveRoom, Locals
  <2>2. \A k \in Rooms :
          k \in RoomId /\ objUserMap[k][loc[c].user] \in Obj \cup {None}
    BY <2>1 DEF Types, TypeOK, Rooms
  <2>3. loc' \in [Conn -> Locals]
    BY <1>2, <1>26, <2>1, <2>2 DEF LeaveRoom, Locals
  <2>4. pc' \in [Conn -> Pc]
    BY <1>26 DEF Types, TypeOK, LeaveRoom, Goto, Pc
  <2>5. QED
    BY <1>1, <1>26, <2>3, <2>4
       DEF Types, TypeOK, LeaveRoom, sharedVars, poolVars, roomVars
<1>27. ASSUME NEW c \in Conn, UnsetRoomId(c)
      PROVE  TypeOK'
  BY <1>1, <1>2, <1>27
     DEF Types, TypeOK, UnsetRoomId, Goto, Return, Locals, Pc, sharedVars,
         poolVars, roomVars, Phase, Joining, Telling, Leaving, Deciding
<1>28. ASSUME NEW c \in Conn, Unlist(c)
      PROVE  TypeOK'
  <2>1. loc[c].user \in User
    BY <1>28 DEF Types, TypeOK, Phase, Leaving, Unlist, Locals
  <2>2. loc' \in [Conn -> Locals]
    BY <1>2, <1>28 DEF Unlist, Locals
  <2>3. objUserMap' \in [RoomId -> [User -> Obj \cup {None}]]
    <3>1. \/ objUserMap' = objUserMap
          \/ objUserMap' = [objUserMap EXCEPT
                              ![loc[c].room][loc[c].user] = None]
      BY <1>28 DEF Unlist
    <3>2. QED
      BY <2>1, <3>1 DEF Types, TypeOK
  <2>4. /\ pc' \in [Conn -> Pc]
        /\ status' \in {"running", "undefined"} \cup {status}
    BY <1>28 DEF Types, TypeOK, Unlist, Goto, Pc
  <2>5. QED
    BY <1>1, <1>28, <2>2, <2>3, <2>4 DEF Types, TypeOK, Unlist, poolVars
<1>29. ASSUME NEW c \in Conn, EraseSession(c)
      PROVE  TypeOK'
  BY <1>1, <1>2, <1>29
     DEF Types, TypeOK, EraseSession, Goto, Return, Locals, Pc, sharedVars,
         poolVars, roomVars
<1>30. ASSUME NEW c \in Conn, CopyForExit(c)
      PROVE  TypeOK'
  BY <1>1, <1>2, <1>30
     DEF Types, TypeOK, CopyForExit, Goto, Return, Locals, Pc, sharedVars,
         poolVars, roomVars
<1>31. ASSUME NEW c \in Conn, NEW d \in Conn, SendExit(c, d)
      PROVE  TypeOK'
  <2>1. loc' \in [Conn -> Locals]
    <3>1. Sent(c, d)
      BY <1>31 DEF SendExit
    <3>2. QED
      BY <1>2, <3>1 DEF Sent, Locals
  <2>2. told' \in [Conn -> SUBSET User]
    <3>1. CASE Reaches(d)
      <4>1. told[d] \ {loc[c].user} \in SUBSET User
        BY DEF Types, TypeOK
      <4>2. QED
        BY <1>31, <3>1, <4>1 DEF Types, TypeOK, SendExit
    <3>2. CASE ~Reaches(d)
      BY <1>31, <3>2 DEF Types, TypeOK, SendExit
    <3>3. QED
      BY <3>1, <3>2
  <2>3. QED
    BY <1>1, <1>31, <2>1, <2>2 DEF Types, TypeOK, SendExit, poolVars, roomVars
<1>32. ASSUME NEW c \in Conn, SendExitDone(c)
      PROVE  TypeOK'
  BY <1>1, <1>2, <1>32
     DEF Types, TypeOK, SendExitDone, Goto, Return, Locals, Pc, sharedVars,
         poolVars, roomVars
<1>33. ASSUME NEW c \in Conn, CloseSocket(c)
      PROVE  TypeOK'
  BY <1>1, <1>2, <1>33
     DEF Types, TypeOK, CloseSocket, Goto, Return, Locals, Pc, sharedVars,
         poolVars, roomVars
<1>34. CASE DataRace
  BY <1>1, <1>34 DEF Types, TypeOK, DataRace, poolVars, roomVars
<1>35. ASSUME NEW c \in Conn, NEW u \in User, Die(c, u)
       PROVE  TypeOK'
  <2>1. PICK k \in Rooms : /\ objUserMap[k][u] # None
                           /\ died' = died \cup {objUserMap[k][u]}
    BY <1>35 DEF Die
  <2>2. died' \subseteq Obj
    BY <2>1 DEF Types, TypeOK, Rooms
  <2>3. QED
    BY <1>1, <1>35, <2>2 DEF Types, TypeOK, Die, poolVars
<1>36. QED
  BY <1>3, <1>4, <1>5, <1>6, <1>7, <1>8, <1>9, <1>10, <1>11, <1>12, <1>13,
     <1>14, <1>15, <1>16, <1>17, <1>18, <1>19, <1>20, <1>21, <1>22, <1>23,
     <1>24, <1>25, <1>26, <1>27, <1>28, <1>29, <1>30, <1>31, <1>32, <1>33,
     <1>34, <1>35
     DEF Running, Login, DeleteSession

-----------------------------------------------------------------------------
(* What a step of one handler leaves alone. *)

\* A handler at d goes on as before; only that a Session of its broadcast is
\* gone may be new to it.
Untouched(d) ==
  /\ pc'[d] = pc[d]
  /\ d \in sessions' <=> d \in sessions
  /\ userId'[d] = userId[d]
  /\ loc'[d].user = loc[d].user /\ loc'[d].obj = loc[d].obj
  /\ loc'[d].room = loc[d].room /\ loc'[d].id = loc[d].id
  /\ loc'[d].it = loc[d].it /\ loc'[d].seen = loc[d].seen
  /\ loc'[d].targets = loc[d].targets
  /\ loc'[d].dangling \subseteq loc[d].dangling \cup loc[d].targets

\* What the handler of a connection does.
Handles(c) ==
  AcceptClient(c) \/ CreateSession(c) \/ Login(c) \/ DeleteSession(c)

\* No handler moves: undefined behaviour ends the run, or somebody dies.
Unmoved ==
  /\ UNCHANGED <<sessions, userId, LAST_ROOM_ID, roomMap, objUserMap>>
  /\ UNCHANGED <<objRoom, told, pc, loc>>
  /\ status' \in {status, "undefined"}
  /\ died \subseteq died'

\* A step is one of a handler, a data race or a death by an attack.
LEMMA SomeHandlerMoves ==
  ASSUME Running
  PROVE  Unmoved \/ \E c \in Conn : Handles(c)
<1>1. CASE DataRace
  BY <1>1 DEF DataRace, Unmoved, poolVars, roomVars
<1>2. ASSUME NEW c \in Conn, NEW u \in User, Die(c, u)
      PROVE  Unmoved
  BY <1>2 DEF Die, Unmoved, poolVars
<1>3. QED
  BY <1>1, <1>2 DEF Running, Handles

\* A step that changes nothing moves no handler either.
LEMMA NobodyMoves ==
  ASSUME UNCHANGED vars
  PROVE  Unmoved
  BY DEF vars, sharedVars, poolVars, roomVars, Unmoved

\* A step of a handler changes the place, the locals and the session of its
\* own connection only, whichever of the program's steps it is.
LEMMA OthersUntouched ==
  ASSUME Types, NEW c \in Conn, Handles(c)
  PROVE  \A e \in Conn \ {c} : Untouched(e)
<1>1. /\ loc \in [Conn -> Locals] /\ pc \in [Conn -> Pc]
      /\ userId \in [Conn -> User \cup {None}]
  BY DEF Types, TypeOK
<1>2. ASSUME AcceptClient(c)
      PROVE  \A e \in Conn \ {c} : Untouched(e)
  BY <1>1, <1>2
     DEF Untouched, AcceptClient, Goto, Return, Locals, sharedVars, poolVars,
         roomVars
<1>3. ASSUME CreateSession(c)
      PROVE  \A e \in Conn \ {c} : Untouched(e)
  BY <1>1, <1>3
     DEF Untouched, CreateSession, Goto, Return, Locals, sharedVars, poolVars,
         roomVars
<1>4. ASSUME NEW u \in User, ReqLogin(c, u)
      PROVE  \A e \in Conn \ {c} : Untouched(e)
  BY <1>1, <1>4
     DEF Untouched, ReqLogin, Goto, Return, Locals, sharedVars, poolVars,
         roomVars
<1>5. ASSUME CheckDuplicate(c)
      PROVE  \A e \in Conn \ {c} : Untouched(e)
  BY <1>1, <1>5
     DEF Untouched, CheckDuplicate, Goto, Return, Locals, sharedVars,
         poolVars, roomVars
<1>6. ASSUME LoginUser(c)
      PROVE  \A e \in Conn \ {c} : Untouched(e)
  BY <1>1, <1>6
     DEF Untouched, LoginUser, Goto, Return, Locals, sharedVars, poolVars,
         roomVars
<1>7. ASSUME LoginUserFails(c)
      PROVE  \A e \in Conn \ {c} : Untouched(e)
  BY <1>1, <1>7
     DEF Untouched, LoginUserFails, Goto, Return, Locals, sharedVars,
         poolVars, roomVars
<1>8. ASSUME SetUserId(c)
      PROVE  \A e \in Conn \ {c} : Untouched(e)
  BY <1>1, <1>8
     DEF Untouched, SetUserId, Goto, Return, Locals, sharedVars, poolVars,
         roomVars
<1>9. ASSUME PickRoom(c)
      PROVE  \A e \in Conn \ {c} : Untouched(e)
  BY <1>1, <1>9
     DEF Untouched, PickRoom, Goto, Return, Locals, sharedVars, poolVars,
         roomVars
<1>10. ASSUME LoadLastRoomId(c)
      PROVE  \A e \in Conn \ {c} : Untouched(e)
  BY <1>1, <1>10
     DEF Untouched, LoadLastRoomId, Goto, Return, Locals, sharedVars,
         poolVars, roomVars
<1>11. ASSUME StoreLastRoomId(c)
      PROVE  \A e \in Conn \ {c} : Untouched(e)
  BY <1>1, <1>11
     DEF Untouched, StoreLastRoomId, Goto, Return, Locals, sharedVars,
         poolVars, roomVars
<1>12. ASSUME NewGameRoom(c)
      PROVE  \A e \in Conn \ {c} : Untouched(e)
  BY <1>1, <1>12
     DEF Untouched, NewGameRoom, Goto, Return, Locals, sharedVars, poolVars,
         roomVars
<1>13. ASSUME InsertGameRoom(c)
      PROVE  \A e \in Conn \ {c} : Untouched(e)
  BY <1>1, <1>13
     DEF Untouched, InsertGameRoom, Goto, Return, Locals, sharedVars,
         poolVars, roomVars
<1>14. ASSUME ReadLastRoomId(c)
      PROVE  \A e \in Conn \ {c} : Untouched(e)
  BY <1>1, <1>14
     DEF Untouched, ReadLastRoomId, Goto, Return, Locals, sharedVars,
         poolVars, roomVars
<1>15. ASSUME AddObjUser(c)
      PROVE  \A e \in Conn \ {c} : Untouched(e)
  BY <1>1, <1>15
     DEF Untouched, AddObjUser, Goto, Return, Locals, sharedVars, poolVars,
         roomVars
<1>16. ASSUME AddInsert(c)
      PROVE  \A e \in Conn \ {c} : Untouched(e)
  BY <1>1, <1>16
     DEF Untouched, AddInsert, Goto, Return, Locals, sharedVars, poolVars,
         roomVars
<1>17. ASSUME CreateResLogin(c)
      PROVE  \A e \in Conn \ {c} : Untouched(e)
  BY <1>1, <1>17
     DEF Untouched, CreateResLogin, Goto, Return, Locals, sharedVars,
         poolVars, roomVars
<1>18. ASSUME CopyForEnter(c)
      PROVE  \A e \in Conn \ {c} : Untouched(e)
  BY <1>1, <1>18
     DEF Untouched, CopyForEnter, Goto, Return, Locals, sharedVars, poolVars,
         roomVars
<1>19. ASSUME NEW d \in Conn, SendEnter(c, d)
      PROVE  \A e \in Conn \ {c} : Untouched(e)
  BY <1>1, <1>19
     DEF Untouched, SendEnter, Goto, Return, Sent, Locals, sharedVars,
         poolVars, roomVars
<1>20. ASSUME NEW d \in Conn, SendEnterDangling(c, d)
      PROVE  \A e \in Conn \ {c} : Untouched(e)
  BY <1>1, <1>20
     DEF Untouched, SendEnterDangling, Goto, Return, Sent, Locals, sharedVars,
         poolVars, roomVars
<1>21. ASSUME SendEnterDone(c)
      PROVE  \A e \in Conn \ {c} : Untouched(e)
  BY <1>1, <1>21
     DEF Untouched, SendEnterDone, Goto, Return, Locals, sharedVars, poolVars,
         roomVars
<1>22. ASSUME SendResLogin(c)
      PROVE  \A e \in Conn \ {c} : Untouched(e)
  BY <1>1, <1>22
     DEF Untouched, SendResLogin, Goto, Return, Locals, sharedVars, poolVars,
         roomVars
<1>23. ASSUME Disconnect(c)
      PROVE  \A e \in Conn \ {c} : Untouched(e)
  BY <1>1, <1>23
     DEF Untouched, Disconnect, Goto, Return, Locals, sharedVars, poolVars,
         roomVars
<1>24. ASSUME LookupObjUser(c)
      PROVE  \A e \in Conn \ {c} : Untouched(e)
  BY <1>1, <1>24
     DEF Untouched, LookupObjUser, Goto, Return, Locals, sharedVars, poolVars,
         roomVars
<1>25. ASSUME LeaveRoom(c)
      PROVE  \A e \in Conn \ {c} : Untouched(e)
  BY <1>1, <1>25
     DEF Untouched, LeaveRoom, Goto, Return, Locals, sharedVars, poolVars,
         roomVars
<1>26. ASSUME UnsetRoomId(c)
      PROVE  \A e \in Conn \ {c} : Untouched(e)
  BY <1>1, <1>26
     DEF Untouched, UnsetRoomId, Goto, Return, Locals, sharedVars, poolVars,
         roomVars
<1>27. ASSUME Unlist(c)
      PROVE  \A e \in Conn \ {c} : Untouched(e)
  BY <1>1, <1>27
     DEF Untouched, Unlist, Goto, Return, Locals, sharedVars, poolVars,
         roomVars
<1>28. ASSUME EraseSession(c)
      PROVE  \A e \in Conn \ {c} : Untouched(e)
  BY <1>1, <1>28
     DEF Untouched, EraseSession, Goto, Return, Locals, sharedVars, poolVars,
         roomVars
<1>29. ASSUME CopyForExit(c)
      PROVE  \A e \in Conn \ {c} : Untouched(e)
  BY <1>1, <1>29
     DEF Untouched, CopyForExit, Goto, Return, Locals, sharedVars, poolVars,
         roomVars
<1>30. ASSUME NEW d \in Conn, SendExit(c, d)
      PROVE  \A e \in Conn \ {c} : Untouched(e)
  BY <1>1, <1>30
     DEF Untouched, SendExit, Goto, Return, Sent, Locals, sharedVars,
         poolVars, roomVars
<1>31. ASSUME SendExitDone(c)
      PROVE  \A e \in Conn \ {c} : Untouched(e)
  BY <1>1, <1>31
     DEF Untouched, SendExitDone, Goto, Return, Locals, sharedVars, poolVars,
         roomVars
<1>32. ASSUME CloseSocket(c)
      PROVE  \A e \in Conn \ {c} : Untouched(e)
  BY <1>1, <1>32
     DEF Untouched, CloseSocket, Goto, Return, Locals, sharedVars, poolVars,
         roomVars
<1>33. QED
  BY <1>2, <1>3, <1>4, <1>5, <1>6, <1>7, <1>8, <1>9, <1>10, <1>11, <1>12,
     <1>13, <1>14, <1>15, <1>16, <1>17, <1>18, <1>19, <1>20, <1>21, <1>22,
     <1>23, <1>24, <1>25, <1>26, <1>27, <1>28, <1>29, <1>30, <1>31, <1>32
     DEF Handles, Login, DeleteSession

\* A room stays in the map, under its key, for ever.
LEMMA RoomsStay ==
  ASSUME Types, Running
  PROVE  \A k \in RoomId : roomMap[k] # 0 => roomMap'[k] = roomMap[k]
<1>1. roomMap \in [RoomId -> RoomId \cup {0}]
  BY DEF Types, TypeOK
<1>2. ASSUME NEW c \in Conn, InsertGameRoom(c)
      PROVE  \A k \in RoomId : roomMap[k] # 0 => roomMap'[k] = roomMap[k]
  BY <1>1, <1>2 DEF InsertGameRoom
<1>3. CASE Unmoved
  BY <1>3 DEF Unmoved
<1>4. ASSUME NEW c \in Conn, Handles(c), ~InsertGameRoom(c)
      PROVE  roomMap' = roomMap
  BY <1>4
     DEF Handles, Login, DeleteSession, AcceptClient, CreateSession,
         ReqLogin, CheckDuplicate, LoginUser, LoginUserFails, SetUserId,
         PickRoom, LoadLastRoomId, StoreLastRoomId, NewGameRoom,
         ReadLastRoomId, AddObjUser, AddInsert, CreateResLogin, CopyForEnter,
         SendEnter, SendEnterDangling, SendEnterDone, SendResLogin,
         Disconnect, LookupObjUser, LeaveRoom, UnsetRoomId, Unlist,
         EraseSession, CopyForExit, SendExit, SendExitDone, CloseSocket,
         sharedVars, poolVars, roomVars
<1>5. QED
  BY <1>2, <1>3, <1>4, SomeHandlerMoves

-----------------------------------------------------------------------------
(* What handlers have in their local variables. *)

\* The locals of the other handlers fit their places after a step as before.
LEMMA PhaseOfOthers ==
  ASSUME Types, TypeOK', Running, NEW c \in Conn, Handles(c),
         NEW e \in Conn \ {c}
  PROVE  Phase(e)'
<1>1. Untouched(e) /\ Phase(e)
  BY OthersUntouched DEF Types
<1>2. loc[e].room \in Rooms => (loc[e].room \in Rooms)'
  BY <1>1, RoomsStay DEF Rooms, Untouched
<1>3. loc[e] \in Locals /\ loc'[e] \in Locals
  BY DEF Types, TypeOK
<1>4. Idle(e) => loc'[e] = loc[e]
  <2>1. Idle(e) => loc'[e].dangling = loc[e].dangling
    <3>1. Idle(e) => loc[e] = Returned
      BY <1>1 DEF Phase
    <3>2. Returned.targets = {} /\ Returned.dangling = {}
      BY DEF Returned
    <3>3. QED
      BY <1>1, <3>1, <3>2 DEF Untouched
  <2>2. QED
    BY <1>1, <1>3, <2>1 DEF Untouched, Locals
<1>5. QED
  BY <1>1, <1>2, <1>4 DEF Phase, Untouched, Idle, Deciding, Joining, Telling,
     Leaving, Gone

\* A handler leaves each place with the locals of the next.
LEMMA PhaseOfHandler ==
  ASSUME Types, TypeOK', NEW c \in Conn, Handles(c)
  PROVE  Phase(c)'
<1>1. /\ loc \in [Conn -> Locals] /\ pc \in [Conn -> Pc]
      /\ userId \in [Conn -> User \cup {None}] /\ c \in Conn
      /\ sessions \subseteq Conn
  BY DEF Types, TypeOK
<1>2. Phase(c)
  BY DEF Types
<1>3. ASSUME AcceptClient(c)
      PROVE  Phase(c)'
  BY <1>1, <1>2, <1>3
     DEF Phase, Idle, Deciding, Joining, Telling, Leaving, Gone, AcceptClient,
         Goto, Return, Returned, Locals, sharedVars, poolVars, roomVars
<1>4. ASSUME CreateSession(c)
      PROVE  Phase(c)'
  BY <1>1, <1>2, <1>4
     DEF Phase, Idle, Deciding, Joining, Telling, Leaving, Gone,
         CreateSession, Goto, Return, Returned, Locals, sharedVars, poolVars,
         roomVars
<1>5. ASSUME NEW u \in User, ReqLogin(c, u)
      PROVE  Phase(c)'
  BY <1>1, <1>2, <1>5, ObjNoneAssumption
     DEF Phase, Idle, Deciding, Joining, Telling, Leaving, Gone, ReqLogin,
         Goto, Return, Returned, Locals, sharedVars, poolVars, roomVars
<1>6. ASSUME CheckDuplicate(c)
      PROVE  Phase(c)'
  <2>1. CASE GetObjUser(loc[c].user) # None
    BY <1>1, <1>2, <1>6, <2>1
       DEF Phase, Idle, Deciding, Joining, Telling, Leaving, Gone,
           CheckDuplicate, Goto, Return, Returned, Locals, sharedVars,
           poolVars, roomVars
  <2>2. CASE ~(GetObjUser(loc[c].user) # None)
    BY <1>1, <1>2, <1>6, <2>2
       DEF Phase, Idle, Deciding, Joining, Telling, Leaving, Gone,
           CheckDuplicate, Goto, Return, Returned, Locals, sharedVars,
           poolVars, roomVars
  <2>3. QED
    BY <2>1, <2>2
<1>7. ASSUME LoginUser(c)
      PROVE  Phase(c)'
  BY <1>1, <1>2, <1>7
     DEF Phase, Idle, Deciding, Joining, Telling, Leaving, Gone, LoginUser,
         Goto, Return, Returned, Unreferenced, Locals, sharedVars, poolVars,
         roomVars
<1>8. ASSUME LoginUserFails(c)
      PROVE  Phase(c)'
  BY <1>1, <1>2, <1>8
     DEF Phase, Idle, Deciding, Joining, Telling, Leaving, Gone,
         LoginUserFails, Goto, Return, Returned, Locals, sharedVars, poolVars,
         roomVars
<1>9. ASSUME SetUserId(c)
      PROVE  Phase(c)'
  BY <1>1, <1>2, <1>9
     DEF Phase, Idle, Deciding, Joining, Telling, Leaving, Gone, SetUserId,
         Goto, Return, Returned, Locals, sharedVars, poolVars, roomVars
<1>10. ASSUME PickRoom(c)
      PROVE  Phase(c)'
  BY <1>1, <1>2, <1>10
     DEF Phase, Idle, Deciding, Joining, Telling, Leaving, Gone, PickRoom,
         Goto, Return, Returned, Locals, sharedVars, poolVars, roomVars
<1>11. ASSUME LoadLastRoomId(c)
      PROVE  Phase(c)'
  BY <1>1, <1>2, <1>11
     DEF Phase, Idle, Deciding, Joining, Telling, Leaving, Gone,
         LoadLastRoomId, Goto, Return, Returned, Locals, sharedVars, poolVars,
         roomVars
<1>12. ASSUME StoreLastRoomId(c)
      PROVE  Phase(c)'
  BY <1>1, <1>2, <1>12
     DEF Phase, Idle, Deciding, Joining, Telling, Leaving, Gone,
         StoreLastRoomId, Goto, Return, Returned, Locals, sharedVars,
         poolVars, roomVars
<1>13. ASSUME NewGameRoom(c)
      PROVE  Phase(c)'
  BY <1>1, <1>2, <1>13
     DEF Phase, Idle, Deciding, Joining, Telling, Leaving, Gone, NewGameRoom,
         Goto, Return, Returned, Locals, sharedVars, poolVars, roomVars
<1>14. ASSUME InsertGameRoom(c)
      PROVE  Phase(c)'
  BY <1>1, <1>2, <1>14
     DEF Phase, Idle, Deciding, Joining, Telling, Leaving, Gone,
         InsertGameRoom, Goto, Return, Returned, Rooms, Locals, sharedVars,
         poolVars, roomVars
<1>15. ASSUME ReadLastRoomId(c)
      PROVE  Phase(c)'
  BY <1>1, <1>2, <1>15
     DEF Phase, Idle, Deciding, Joining, Telling, Leaving, Gone,
         ReadLastRoomId, Goto, Return, Returned, Locals, sharedVars, poolVars,
         roomVars
<1>16. ASSUME AddObjUser(c)
      PROVE  Phase(c)'
  <2>1. CASE loc[c].room \in Rooms
            /\ objUserMap[loc[c].room][loc[c].user] = None
    BY <1>1, <1>2, <1>16, <2>1
       DEF Phase, Idle, Deciding, Joining, Telling, Leaving, Gone, AddObjUser,
           Goto, Return, Returned, Rooms, Locals, sharedVars, poolVars,
           roomVars
  <2>2. CASE ~(loc[c].room \in Rooms
              /\ objUserMap[loc[c].room][loc[c].user] = None)
    <3>1. Return(c, "idle") /\ UNCHANGED sharedVars
      BY <1>16, <2>2 DEF AddObjUser
    <3>2. QED
      BY <1>1, <1>2, <1>16, <3>1
         DEF Phase, Idle, Deciding, Joining, Telling, Leaving, Gone,
             AddObjUser, Goto, Return, Returned, Locals, sharedVars, poolVars,
             roomVars
  <2>3. QED
    BY <2>1, <2>2
<1>17. ASSUME AddInsert(c)
      PROVE  Phase(c)'
  BY <1>1, <1>2, <1>17
     DEF Phase, Idle, Deciding, Joining, Telling, Leaving, Gone, AddInsert,
         Goto, Return, Returned, Locals, sharedVars, poolVars, roomVars
<1>18. ASSUME CreateResLogin(c)
      PROVE  Phase(c)'
  BY <1>1, <1>2, <1>18
     DEF Phase, Idle, Deciding, Joining, Telling, Leaving, Gone,
         CreateResLogin, Goto, Return, Returned, Locals, sharedVars, poolVars,
         roomVars
<1>19. ASSUME CopyForEnter(c)
      PROVE  Phase(c)'
  BY <1>1, <1>2, <1>19
     DEF Phase, Idle, Deciding, Joining, Telling, Leaving, Gone, CopyForEnter,
         Goto, Return, Returned, Locals, sharedVars, poolVars, roomVars
<1>20. ASSUME NEW d \in Conn, SendEnter(c, d)
      PROVE  Phase(c)'
  BY <1>1, <1>2, <1>20
     DEF Phase, Idle, Deciding, Joining, Telling, Leaving, Gone, SendEnter,
         Goto, Return, Returned, Sent, Locals, sharedVars, poolVars, roomVars
<1>21. ASSUME NEW d \in Conn, SendEnterDangling(c, d)
      PROVE  Phase(c)'
  BY <1>1, <1>2, <1>21
     DEF Phase, Idle, Deciding, Joining, Telling, Leaving, Gone,
         SendEnterDangling, Goto, Return, Returned, Sent, Locals, sharedVars,
         poolVars, roomVars
<1>22. ASSUME SendEnterDone(c)
      PROVE  Phase(c)'
  BY <1>1, <1>2, <1>22
     DEF Phase, Idle, Deciding, Joining, Telling, Leaving, Gone,
         SendEnterDone, Goto, Return, Returned, Locals, sharedVars, poolVars,
         roomVars
<1>23. ASSUME SendResLogin(c)
      PROVE  Phase(c)'
  BY <1>1, <1>2, <1>23
     DEF Phase, Idle, Deciding, Joining, Telling, Leaving, Gone, SendResLogin,
         Goto, Return, Returned, Locals, sharedVars, poolVars, roomVars
<1>24. ASSUME Disconnect(c)
      PROVE  Phase(c)'
  BY <1>1, <1>2, <1>24
     DEF Phase, Idle, Deciding, Joining, Telling, Leaving, Gone, Disconnect,
         Goto, Return, Returned, Locals, sharedVars, poolVars, roomVars
<1>25. ASSUME LookupObjUser(c)
      PROVE  Phase(c)'
  <2>1. CASE GetObjUser(loc[c].user) = None
    BY <1>1, <1>2, <1>25, <2>1
       DEF Phase, Idle, Deciding, Joining, Telling, Leaving, Gone,
           LookupObjUser, Goto, Return, Returned, Locals, sharedVars,
           poolVars, roomVars
  <2>2. CASE ~(GetObjUser(loc[c].user) = None)
    BY <1>1, <1>2, <1>25, <2>2
       DEF Phase, Idle, Deciding, Joining, Telling, Leaving, Gone,
           LookupObjUser, Goto, Return, Returned, Locals, sharedVars,
           poolVars, roomVars, Rooms
  <2>3. QED
    BY <2>1, <2>2
<1>26. ASSUME LeaveRoom(c)
      PROVE  Phase(c)'
  BY <1>1, <1>2, <1>26
     DEF Phase, Idle, Deciding, Joining, Telling, Leaving, Gone, LeaveRoom,
         Goto, Return, Returned, Rooms, Locals, sharedVars, poolVars, roomVars
<1>27. ASSUME UnsetRoomId(c)
      PROVE  Phase(c)'
  BY <1>1, <1>2, <1>27
     DEF Phase, Idle, Deciding, Joining, Telling, Leaving, Gone, UnsetRoomId,
         Goto, Return, Returned, Rooms, Locals, sharedVars, poolVars, roomVars
<1>28. ASSUME Unlist(c)
      PROVE  Phase(c)'
  <2>1. CASE objUserMap[loc[c].room][loc[c].user] = loc[c].it
    BY <1>1, <1>2, <1>28, <2>1
       DEF Phase, Idle, Deciding, Joining, Telling, Leaving, Gone, Unlist,
           Goto, Return, Returned, Locals, sharedVars, poolVars, roomVars
  <2>2. CASE ~(objUserMap[loc[c].room][loc[c].user] = loc[c].it)
    BY <1>1, <1>2, <1>28, <2>2
       DEF Phase, Idle, Deciding, Joining, Telling, Leaving, Gone, Unlist,
           Goto, Return, Returned, Locals, sharedVars, poolVars, roomVars,
           Rooms
  <2>3. QED
    BY <2>1, <2>2
<1>29. ASSUME EraseSession(c)
      PROVE  Phase(c)'
  <2>1. CASE loc[c].obj = None
    BY <1>1, <1>2, <1>29, <2>1
       DEF Phase, Idle, Deciding, Joining, Telling, Leaving, Gone,
           EraseSession, Goto, Return, Returned, Locals, sharedVars, poolVars,
           roomVars
  <2>2. CASE loc[c].obj # None
    <3>1. loc'[c] = loc[c]
      BY <1>1, <1>2, <1>29 DEF Phase, EraseSession
    <3>2. QED
      BY <1>1, <1>2, <1>29, <2>2, <3>1
         DEF Phase, Idle, Deciding, Joining, Telling, Leaving, Gone,
             EraseSession, Goto, Locals, roomVars
  <2>3. QED
    BY <2>1, <2>2
<1>30. ASSUME CopyForExit(c)
      PROVE  Phase(c)'
  BY <1>1, <1>2, <1>30
     DEF Phase, Idle, Deciding, Joining, Telling, Leaving, Gone, CopyForExit,
         Goto, Return, Returned, Locals, sharedVars, poolVars, roomVars
<1>31. ASSUME NEW d \in Conn, SendExit(c, d)
      PROVE  Phase(c)'
  BY <1>1, <1>2, <1>31
     DEF Phase, Idle, Deciding, Joining, Telling, Leaving, Gone, SendExit,
         Goto, Return, Returned, Sent, Locals, sharedVars, poolVars, roomVars
<1>32. ASSUME SendExitDone(c)
      PROVE  Phase(c)'
  BY <1>1, <1>2, <1>32
     DEF Phase, Idle, Deciding, Joining, Telling, Leaving, Gone, SendExitDone,
         Goto, Return, Returned, Locals, sharedVars, poolVars, roomVars
<1>33. ASSUME CloseSocket(c)
      PROVE  Phase(c)'
  BY <1>1, <1>2, <1>33
     DEF Phase, Idle, Deciding, Joining, Telling, Leaving, Gone, CloseSocket,
         Goto, Return, Returned, Locals, sharedVars, poolVars, roomVars
<1>34. QED
  BY <1>3, <1>4, <1>5, <1>6, <1>7, <1>8, <1>9, <1>10, <1>11, <1>12, <1>13,
     <1>14, <1>15, <1>16, <1>17, <1>18, <1>19, <1>20, <1>21, <1>22, <1>23,
     <1>24, <1>25, <1>26, <1>27, <1>28, <1>29, <1>30, <1>31, <1>32, <1>33
     DEF Handles, Login, DeleteSession
-----------------------------------------------------------------------------
(* An ObjUser is shared, but never by handlers of different users. *)

\* Every reference there is after a step was one for the same user before.
Passes(c) ==
  /\ \A k \in RoomId, u \in User :
       objUserMap'[k][u] \in Obj => Refers(objUserMap'[k][u], u)
  /\ \A o \in {loc'[c].obj, loc'[c].it} \cap Obj : Refers(o, loc'[c].user)

\* A step that adds no reference to an object keeps every object's
\* references for one user.
LEMMA OneUserKept ==
  ASSUME Types, NEW c \in Conn, Handles(c), Passes(c)
  PROVE  OneUser'
<1>1. SUFFICES ASSUME NEW o \in Obj, NEW u \in User, NEW v \in User,
                      Refers(o, u)', Refers(o, v)'
               PROVE  u = v
  BY DEF OneUser
<1>2. ASSUME NEW w \in User, Refers(o, w)'
      PROVE  Refers(o, w)
  <2>1. CASE \E k \in RoomId : objUserMap'[k][w] = o
    BY <2>1 DEF Passes
  <2>2. CASE \E e \in Conn :
               loc'[e].user = w /\ o \in {loc'[e].obj, loc'[e].it}
    <3>1. PICK e \in Conn :
                 loc'[e].user = w /\ o \in {loc'[e].obj, loc'[e].it}
      BY <2>2
    <3>2. CASE e = c
      BY <3>1, <3>2 DEF Passes
    <3>3. CASE e # c
      BY <3>1, <3>3, OthersUntouched DEF Untouched, Refers
    <3>4. QED
      BY <3>2, <3>3
  <2>3. QED
    BY <1>2, <2>1, <2>2 DEF Refers
<1>3. QED
  BY <1>1, <1>2 DEF Types, OneUser

\* The one step that makes a reference to another object, a successful
\* LoginUser, takes one that nothing refers to.
LEMMA OneUserStep ==
  ASSUME Types, NEW c \in Conn, Handles(c)
  PROVE  OneUser'
<1>1. /\ loc \in [Conn -> Locals] /\ c \in Conn
      /\ objUserMap \in [RoomId -> [User -> Obj \cup {None}]]
  BY DEF Types, TypeOK
<1>2. Phase(c)
  BY DEF Types
<1>3. ASSUME AcceptClient(c)
      PROVE  OneUser'
  <2>1. Passes(c)
    BY <1>1, <1>2, <1>3, ObjNoneAssumption
       DEF Passes, Refers, Phase, Idle, Joining, Telling, Leaving, Deciding,
           AcceptClient, Goto, Return, Returned, Locals, sharedVars, poolVars,
           roomVars
  <2>2. QED
    BY <2>1, OneUserKept
<1>4. ASSUME CreateSession(c)
      PROVE  OneUser'
  <2>1. Passes(c)
    BY <1>1, <1>2, <1>4, ObjNoneAssumption
       DEF Passes, Refers, Phase, Idle, Joining, Telling, Leaving, Deciding,
           CreateSession, Goto, Return, Returned, Locals, sharedVars,
           poolVars, roomVars
  <2>2. QED
    BY <2>1, OneUserKept
<1>5. ASSUME NEW u \in User, ReqLogin(c, u)
      PROVE  OneUser'
  <2>1. Passes(c)
    BY <1>1, <1>2, <1>5, ObjNoneAssumption
       DEF Passes, Refers, Phase, Idle, Joining, Telling, Leaving, Deciding,
           ReqLogin, Goto, Return, Returned, Locals, sharedVars, poolVars,
           roomVars
  <2>2. QED
    BY <2>1, OneUserKept
<1>6. ASSUME CheckDuplicate(c)
      PROVE  OneUser'
  <2>1. Passes(c)
    BY <1>1, <1>2, <1>6, ObjNoneAssumption
       DEF Passes, Refers, Phase, Idle, Joining, Telling, Leaving, Deciding,
           CheckDuplicate, Goto, Return, Returned, Locals, sharedVars,
           poolVars, roomVars
  <2>2. QED
    BY <2>1, OneUserKept
<1>7. ASSUME LoginUser(c)
      PROVE  OneUser'
  <2>1. PICK o \in Unreferenced : loc' = [loc EXCEPT ![c].obj = o]
    BY <1>7 DEF LoginUser
  <2>2. SUFFICES ASSUME NEW q \in Obj, NEW u \in User, NEW v \in User,
                        Refers(q, u)', Refers(q, v)'
                 PROVE  u = v
    BY DEF OneUser
  <2>3. /\ \A e \in Conn : loc'[e].user = loc[e].user /\ loc'[e].it = loc[e].it
        /\ \A e \in Conn : loc'[e].obj = IF e = c THEN o ELSE loc[e].obj
        /\ objUserMap' = objUserMap
    BY <1>1, <1>7, <2>1 DEF LoginUser, Locals
  <2>4. CASE q = o
    <3>1. \A w \in User : Refers(o, w)' => w = loc[c].user
      BY <2>1, <2>3 DEF Refers, Unreferenced
    <3>2. QED
      BY <2>2, <2>4, <3>1
  <2>5. CASE q # o
    <3>1. \A w \in User : Refers(q, w)' => Refers(q, w)
      BY <2>3, <2>5, <1>2, <1>7, ObjNoneAssumption DEF Refers
    <3>2. QED
      BY <2>2, <3>1 DEF Types, OneUser
  <2>6. QED
    BY <2>4, <2>5
<1>8. ASSUME LoginUserFails(c)
      PROVE  OneUser'
  <2>1. Passes(c)
    BY <1>1, <1>2, <1>8, ObjNoneAssumption
       DEF Passes, Refers, Phase, Idle, Joining, Telling, Leaving, Deciding,
           LoginUserFails, Goto, Return, Returned, Locals, sharedVars,
           poolVars, roomVars
  <2>2. QED
    BY <2>1, OneUserKept
<1>9. ASSUME SetUserId(c)
      PROVE  OneUser'
  <2>1. Passes(c)
    BY <1>1, <1>2, <1>9, ObjNoneAssumption
       DEF Passes, Refers, Phase, Idle, Joining, Telling, Leaving, Deciding,
           SetUserId, Goto, Return, Returned, Locals, sharedVars, poolVars,
           roomVars
  <2>2. QED
    BY <2>1, OneUserKept
<1>10. ASSUME PickRoom(c)
      PROVE  OneUser'
  <2>1. Passes(c)
    BY <1>1, <1>2, <1>10, ObjNoneAssumption
       DEF Passes, Refers, Phase, Idle, Joining, Telling, Leaving, Deciding,
           PickRoom, Goto, Return, Returned, Locals, sharedVars, poolVars,
           roomVars
  <2>2. QED
    BY <2>1, OneUserKept
<1>11. ASSUME LoadLastRoomId(c)
      PROVE  OneUser'
  <2>1. Passes(c)
    BY <1>1, <1>2, <1>11, ObjNoneAssumption
       DEF Passes, Refers, Phase, Idle, Joining, Telling, Leaving, Deciding,
           LoadLastRoomId, Goto, Return, Returned, Locals, sharedVars,
           poolVars, roomVars
  <2>2. QED
    BY <2>1, OneUserKept
<1>12. ASSUME StoreLastRoomId(c)
      PROVE  OneUser'
  <2>1. Passes(c)
    BY <1>1, <1>2, <1>12, ObjNoneAssumption
       DEF Passes, Refers, Phase, Idle, Joining, Telling, Leaving, Deciding,
           StoreLastRoomId, Goto, Return, Returned, Locals, sharedVars,
           poolVars, roomVars
  <2>2. QED
    BY <2>1, OneUserKept
<1>13. ASSUME NewGameRoom(c)
      PROVE  OneUser'
  <2>1. Passes(c)
    BY <1>1, <1>2, <1>13, ObjNoneAssumption
       DEF Passes, Refers, Phase, Idle, Joining, Telling, Leaving, Deciding,
           NewGameRoom, Goto, Return, Returned, Locals, sharedVars, poolVars,
           roomVars
  <2>2. QED
    BY <2>1, OneUserKept
<1>14. ASSUME InsertGameRoom(c)
      PROVE  OneUser'
  <2>1. Passes(c)
    BY <1>1, <1>2, <1>14, ObjNoneAssumption
       DEF Passes, Refers, Phase, Idle, Joining, Telling, Leaving, Deciding,
           InsertGameRoom, Goto, Return, Returned, Rooms, Locals, sharedVars,
           poolVars, roomVars
  <2>2. QED
    BY <2>1, OneUserKept
<1>15. ASSUME ReadLastRoomId(c)
      PROVE  OneUser'
  <2>1. Passes(c)
    BY <1>1, <1>2, <1>15, ObjNoneAssumption
       DEF Passes, Refers, Phase, Idle, Joining, Telling, Leaving, Deciding,
           ReadLastRoomId, Goto, Return, Returned, Locals, sharedVars,
           poolVars, roomVars
  <2>2. QED
    BY <2>1, OneUserKept
<1>16. ASSUME AddObjUser(c)
      PROVE  OneUser'
  <2>1. Passes(c)
    BY <1>1, <1>2, <1>16, ObjNoneAssumption
       DEF Passes, Refers, Phase, Idle, Joining, Telling, Leaving, Deciding,
           AddObjUser, Goto, Return, Returned, Rooms, Locals, sharedVars,
           poolVars, roomVars
  <2>2. QED
    BY <2>1, OneUserKept
<1>17. ASSUME AddInsert(c)
      PROVE  OneUser'
  <2>1. Passes(c)
    BY <1>1, <1>2, <1>17, ObjNoneAssumption
       DEF Passes, Refers, Phase, Idle, Joining, Telling, Leaving, Deciding,
           AddInsert, Goto, Return, Returned, Locals, sharedVars, poolVars,
           roomVars
  <2>2. QED
    BY <2>1, OneUserKept
<1>18. ASSUME CreateResLogin(c)
      PROVE  OneUser'
  <2>1. Passes(c)
    BY <1>1, <1>2, <1>18, ObjNoneAssumption
       DEF Passes, Refers, Phase, Idle, Joining, Telling, Leaving, Deciding,
           CreateResLogin, Goto, Return, Returned, Locals, sharedVars,
           poolVars, roomVars
  <2>2. QED
    BY <2>1, OneUserKept
<1>19. ASSUME CopyForEnter(c)
      PROVE  OneUser'
  <2>1. Passes(c)
    BY <1>1, <1>2, <1>19, ObjNoneAssumption
       DEF Passes, Refers, Phase, Idle, Joining, Telling, Leaving, Deciding,
           CopyForEnter, Goto, Return, Returned, Locals, sharedVars, poolVars,
           roomVars
  <2>2. QED
    BY <2>1, OneUserKept
<1>20. ASSUME NEW d \in Conn, SendEnter(c, d)
      PROVE  OneUser'
  <2>1. Passes(c)
    BY <1>1, <1>2, <1>20, ObjNoneAssumption
       DEF Passes, Refers, Phase, Idle, Joining, Telling, Leaving, Deciding,
           SendEnter, Goto, Return, Returned, Sent, Locals, sharedVars,
           poolVars, roomVars
  <2>2. QED
    BY <2>1, OneUserKept
<1>21. ASSUME NEW d \in Conn, SendEnterDangling(c, d)
      PROVE  OneUser'
  <2>1. Passes(c)
    BY <1>1, <1>2, <1>21, ObjNoneAssumption
       DEF Passes, Refers, Phase, Idle, Joining, Telling, Leaving, Deciding,
           SendEnterDangling, Goto, Return, Returned, Sent, Locals,
           sharedVars, poolVars, roomVars
  <2>2. QED
    BY <2>1, OneUserKept
<1>22. ASSUME SendEnterDone(c)
      PROVE  OneUser'
  <2>1. Passes(c)
    BY <1>1, <1>2, <1>22, ObjNoneAssumption
       DEF Passes, Refers, Phase, Idle, Joining, Telling, Leaving, Deciding,
           SendEnterDone, Goto, Return, Returned, Locals, sharedVars,
           poolVars, roomVars
  <2>2. QED
    BY <2>1, OneUserKept
<1>23. ASSUME SendResLogin(c)
      PROVE  OneUser'
  <2>1. Passes(c)
    BY <1>1, <1>2, <1>23, ObjNoneAssumption
       DEF Passes, Refers, Phase, Idle, Joining, Telling, Leaving, Deciding,
           SendResLogin, Goto, Return, Returned, Locals, sharedVars, poolVars,
           roomVars
  <2>2. QED
    BY <2>1, OneUserKept
<1>24. ASSUME Disconnect(c)
      PROVE  OneUser'
  <2>1. Passes(c)
    BY <1>1, <1>2, <1>24, ObjNoneAssumption
       DEF Passes, Refers, Phase, Idle, Joining, Telling, Leaving, Deciding,
           Disconnect, Goto, Return, Returned, Locals, sharedVars, poolVars,
           roomVars
  <2>2. QED
    BY <2>1, OneUserKept
<1>25. ASSUME LookupObjUser(c)
      PROVE  OneUser'
  <2>1. loc[c].user \in User
    BY <1>1, <1>2, <1>25 DEF Phase, Leaving, LookupObjUser, Locals
  <2>2. PICK o \in Obj \cup {None} : o = GetObjUser(loc[c].user)
    BY <2>1, FoundEntry DEF Types
  <2>3. o \in Obj => \E k \in RoomId : objUserMap[k][loc[c].user] = o
    <3>1. \A k \in Holding(loc[c].user) : k \in RoomId
      BY DEF Holding, Rooms
    <3>2. QED
      BY <2>1, <2>2, <3>1, FoundEntry, ObjNoneAssumption DEF Types
  <2>4. /\ loc'[c].obj \in {o, loc[c].obj} /\ loc'[c].it = loc[c].it
        /\ loc'[c].user = loc[c].user /\ objUserMap' = objUserMap
    BY <1>1, <2>2, <1>25 DEF LookupObjUser, roomVars, Locals
  <2>5. Passes(c)
    BY <1>1, <2>3, <2>4 DEF Passes, Refers
  <2>6. QED
    BY <2>5, OneUserKept
<1>26. ASSUME LeaveRoom(c)
      PROVE  OneUser'
  <2>1. Passes(c)
    BY <1>1, <1>2, <1>26, ObjNoneAssumption
       DEF Passes, Refers, Phase, Idle, Joining, Telling, Leaving, Deciding,
           LeaveRoom, Goto, Return, Returned, Rooms, Locals, sharedVars,
           poolVars, roomVars
  <2>2. QED
    BY <2>1, OneUserKept
<1>27. ASSUME UnsetRoomId(c)
      PROVE  OneUser'
  <2>1. Passes(c)
    BY <1>1, <1>2, <1>27, ObjNoneAssumption
       DEF Passes, Refers, Phase, Idle, Joining, Telling, Leaving, Deciding,
           UnsetRoomId, Goto, Return, Returned, Locals, sharedVars, poolVars,
           roomVars
  <2>2. QED
    BY <2>1, OneUserKept
<1>28. ASSUME Unlist(c)
      PROVE  OneUser'
  <2>1. Passes(c)
    <3>1. /\ loc'[c].user = loc[c].user /\ loc'[c].obj = loc[c].obj
          /\ loc'[c].it \in {None, loc[c].it}
      BY <1>1, <1>28 DEF Unlist, Locals
    <3>2. \A k \in RoomId, u \in User :
            objUserMap'[k][u] \in {None, objUserMap[k][u]}
      BY <1>1, <1>28 DEF Unlist
    <3>3. QED
      BY <1>1, <3>1, <3>2, ObjNoneAssumption DEF Passes, Refers
  <2>2. QED
    BY <2>1, OneUserKept
<1>29. ASSUME EraseSession(c)
      PROVE  OneUser'
  <2>1. Passes(c)
    BY <1>1, <1>2, <1>29, ObjNoneAssumption
       DEF Passes, Refers, Phase, Idle, Joining, Telling, Leaving, Deciding,
           EraseSession, Goto, Return, Returned, Locals, sharedVars, poolVars,
           roomVars
  <2>2. QED
    BY <2>1, OneUserKept
<1>30. ASSUME CopyForExit(c)
      PROVE  OneUser'
  <2>1. Passes(c)
    BY <1>1, <1>2, <1>30, ObjNoneAssumption
       DEF Passes, Refers, Phase, Idle, Joining, Telling, Leaving, Deciding,
           CopyForExit, Goto, Return, Returned, Locals, sharedVars, poolVars,
           roomVars
  <2>2. QED
    BY <2>1, OneUserKept
<1>31. ASSUME NEW d \in Conn, SendExit(c, d)
      PROVE  OneUser'
  <2>1. Passes(c)
    BY <1>1, <1>2, <1>31, ObjNoneAssumption
       DEF Passes, Refers, Phase, Idle, Joining, Telling, Leaving, Deciding,
           SendExit, Goto, Return, Returned, Sent, Locals, sharedVars,
           poolVars, roomVars
  <2>2. QED
    BY <2>1, OneUserKept
<1>32. ASSUME SendExitDone(c)
      PROVE  OneUser'
  <2>1. Passes(c)
    BY <1>1, <1>2, <1>32, ObjNoneAssumption
       DEF Passes, Refers, Phase, Idle, Joining, Telling, Leaving, Deciding,
           SendExitDone, Goto, Return, Returned, Locals, sharedVars, poolVars,
           roomVars
  <2>2. QED
    BY <2>1, OneUserKept
<1>33. ASSUME CloseSocket(c)
      PROVE  OneUser'
  <2>1. Passes(c)
    BY <1>1, <1>2, <1>33, ObjNoneAssumption
       DEF Passes, Refers, Phase, Idle, Joining, Telling, Leaving, Deciding,
           CloseSocket, Goto, Return, Returned, Locals, sharedVars, poolVars,
           roomVars
  <2>2. QED
    BY <2>1, OneUserKept
<1>34. QED
  BY <1>3, <1>4, <1>5, <1>6, <1>7, <1>8, <1>9, <1>10, <1>11, <1>12, <1>13,
     <1>14, <1>15, <1>16, <1>17, <1>18, <1>19, <1>20, <1>21, <1>22, <1>23,
     <1>24, <1>25, <1>26, <1>27, <1>28, <1>29, <1>30, <1>31, <1>32, <1>33
     DEF Handles, Login, DeleteSession
-----------------------------------------------------------------------------
(* No more rooms are numbered than there are workers. *)

\* The handlers that are counted are finitely many, and each that increments
\* LAST_ROOM_ID or creates a room is busy.
LEMMA HandlersCount ==
  ASSUME TypeOK
  PROVE  /\ IsFiniteSet(Busy) /\ IsFiniteSet(Bumping) /\ IsFiniteSet(Making)
         /\ Cardinality(Busy) \in Nat
         /\ Cardinality(Bumping) \in Nat /\ Cardinality(Making) \in Nat
         /\ \A S \in SUBSET Conn :
              /\ S \subseteq Busy => Cardinality(S) <= Cardinality(Busy)
              /\ S \subseteq Bumping => Cardinality(S) <= Cardinality(Bumping)
              /\ Making \subseteq S => Cardinality(Making) <= Cardinality(S)
<1>1. \A S \in SUBSET Conn : IsFiniteSet(S)
  BY ConnAssumption, FS_Subset
<1>2. /\ Busy \in SUBSET Conn /\ Bumping \in SUBSET Conn
      /\ Making \in SUBSET Conn
  BY DEF Busy, Bumping, Making
<1>3. QED
  BY <1>1, <1>2, FS_Subset, FS_CardinalityType

\* A worker that has found no room and one that is creating the first one are
\* two workers.
LEMMA BumpersAndMakers ==
  ASSUME TypeOK, NEW c \in Busy \ (Bumping \cup Making)
  PROVE  Cardinality(Bumping) + Cardinality(Making) + 1 <= Cardinality(Busy)
<1>1. Bumping \cup Making \cup {c} \subseteq Busy
  BY DEF Bumping, Making, Busy, Idle
<1>2. /\ IsFiniteSet(Bumping) /\ IsFiniteSet(Making) /\ IsFiniteSet(Busy)
      /\ Cardinality(Bumping) \in Nat /\ Cardinality(Making) \in Nat
  BY HandlersCount
<1>3. Bumping \cap Making = {}
  BY DEF Bumping, Making
<1>4. /\ IsFiniteSet(Bumping \cup Making)
      /\ Cardinality(Bumping \cup Making)
           = Cardinality(Bumping) + Cardinality(Making)
  BY <1>2, <1>3, FS_Union, FS_EmptySet
<1>5. Cardinality((Bumping \cup Making) \cup {c})
        = Cardinality(Bumping \cup Making) + 1
  BY <1>4, FS_AddElement
<1>6. Cardinality((Bumping \cup Making) \cup {c}) <= Cardinality(Busy)
  BY <1>1, <1>2, FS_Subset
<1>7. QED
  BY <1>4, <1>5, <1>6

\* A handler starts only on a free worker.
LEMMA BusyStep ==
  ASSUME Types, TypeOK', NEW c \in Conn, Handles(c)
  PROVE  Cardinality(Busy') <= NumWorkers
<1>1. pc \in [Conn -> Pc] /\ c \in Conn
  BY DEF Types, TypeOK
<1>2. Busy' \subseteq Busy \cup {c}
  BY OthersUntouched DEF Busy, Idle, Untouched
<1>3. Cardinality(Busy) \in Nat /\ IsFiniteSet(Busy) /\ Busy' \in SUBSET Conn
  BY HandlersCount DEF Types, Busy
<1>4. CASE FreeWorker
  <2>1. IsFiniteSet(Busy \cup {c}) /\ Busy' \in SUBSET (Busy \cup {c})
    BY <1>2, <1>3, FS_AddElement
  <2>2. /\ Cardinality(Busy \cup {c}) <= Cardinality(Busy) + 1
        /\ Cardinality(Busy \cup {c}) \in Nat
    <3>1. Cardinality(Busy \cup {c}) \in Nat
      BY <2>1, FS_CardinalityType
    <3>2. Cardinality(Busy \cup {c})
            = IF c \in Busy THEN Cardinality(Busy) ELSE Cardinality(Busy) + 1
      BY <1>3, FS_AddElement
    <3>3. QED
      BY <1>3, <3>1, <3>2
  <2>3. /\ Cardinality(Busy') <= Cardinality(Busy \cup {c})
        /\ Cardinality(Busy') \in Nat
    BY <2>1, FS_Subset, FS_CardinalityType
  <2>4. QED
    BY <1>3, <1>4, <2>2, <2>3, WorkerAssumption DEF FreeWorker
<1>5. CASE ~FreeWorker
  <2>1. Idle(c) => Idle(c)'
    <3>1. CASE AcceptClient(c) \/ CreateSession(c)
      BY <1>1, <3>1 DEF AcceptClient, CreateSession, Idle, Goto
    <3>2. CASE Login(c)
      BY <1>1, <1>5, <3>2
         DEF Login, Idle, Goto, Return, ReqLogin, CheckDuplicate, LoginUser,
             LoginUserFails, SetUserId, PickRoom, LoadLastRoomId,
             StoreLastRoomId, NewGameRoom, InsertGameRoom, ReadLastRoomId,
             AddObjUser, AddInsert, CreateResLogin, CopyForEnter, SendEnter,
             SendEnterDangling, SendEnterDone, SendResLogin
    <3>3. CASE DeleteSession(c)
      BY <1>1, <1>5, <3>3
         DEF DeleteSession, Idle, Goto, Return, Disconnect, LookupObjUser,
             LeaveRoom, UnsetRoomId, Unlist, EraseSession, CopyForExit,
             SendExit, SendExitDone, CloseSocket
    <3>4. QED
      BY <3>1, <3>2, <3>3 DEF Handles
  <2>2. Busy' \subseteq Busy
    BY <1>2, <2>1 DEF Busy
  <2>3. QED
    BY <1>3, <2>2, FS_Subset, HandlersCount, FS_CardinalityType,
       WorkerAssumption DEF Types, Counted
<1>6. QED
  BY <1>4, <1>5

\* A step of a handler that is not creating a room counts nothing.
LEMMA CountedOtherwise ==
  ASSUME Types, TypeOK', NEW c \in Conn, Handles(c),
         pc[c] \notin {"bump", "store", "newRoom", "insert"},
         pc'[c] \notin {"bump", "store", "newRoom", "insert", "read"},
         LAST_ROOM_ID' = LAST_ROOM_ID, roomMap' = roomMap
  PROVE  Counted'
<1>1. Bumping' = Bumping /\ Making' = Making /\ Rooms' = Rooms
  BY OthersUntouched DEF Bumping, Making, Rooms, Untouched
<1>2. \A e \in Conn :
        pc'[e] \in {"store", "newRoom", "insert", "read"} =>
          /\ pc'[e] = pc[e] /\ loc'[e].room = loc[e].room
          /\ loc'[e].id = loc[e].id
  BY OthersUntouched DEF Untouched
<1>3. QED
  BY <1>1, <1>2, BusyStep DEF Types, Counted

\* Each step that creates the first rooms keeps their count.
LEMMA CountedStep ==
  ASSUME Types, TypeOK', NEW c \in Conn, Handles(c)
  PROVE  Counted'
<1>1. /\ loc \in [Conn -> Locals] /\ pc \in [Conn -> Pc] /\ c \in Conn
      /\ LAST_ROOM_ID \in Nat /\ LAST_ROOM_ID' \in Nat
      /\ \A e \in Conn : loc[e].room \in Nat /\ loc'[e].room \in Nat
  <2>1. RoomId \cup {0} \subseteq Nat
    BY WorkerAssumption DEF RoomId
  <2>2. QED
    BY <2>1 DEF Types, TypeOK, Locals
<1>2. /\ Cardinality(Bumping) \in Nat /\ Cardinality(Making) \in Nat
      /\ IsFiniteSet(Bumping) /\ IsFiniteSet(Making)
      /\ Cardinality(Busy) \in Nat /\ NumWorkers \in Nat
  BY HandlersCount, WorkerAssumption DEF Types
<1>3. Counted /\ Cardinality(Busy') <= NumWorkers
  BY BusyStep DEF Types
<1>4. \A e \in Conn \ {c} : /\ pc'[e] = pc[e] /\ loc'[e].room = loc[e].room
                            /\ loc'[e].id = loc[e].id
  BY OthersUntouched DEF Untouched
<1>5. CASE PickRoom(c)
  <2>1. CASE Rooms = {}
    <3>1. /\ c \in Busy \ (Bumping \cup Making)
          /\ Bumping' = Bumping \cup {c} /\ Making' = Making
      BY <1>1, <1>4, <1>5, <2>1
         DEF PickRoom, Busy, Bumping, Making, Idle, Goto
    <3>2. Cardinality(Bumping') = Cardinality(Bumping) + 1
      BY <1>2, <3>1, FS_AddElement
    <3>3. Cardinality(Bumping) + Cardinality(Making) + 1 <= NumWorkers
      <4>1. Cardinality(Bumping) + Cardinality(Making) + 1 <= Cardinality(Busy)
        BY <3>1, BumpersAndMakers DEF Types
      <4>2. QED
        BY <1>2, <1>3, <4>1 DEF Counted
    <3>4. /\ LAST_ROOM_ID' = LAST_ROOM_ID /\ roomMap' = roomMap /\ loc' = loc
          /\ pc'[c] = "bump" /\ Rooms' = Rooms
      BY <1>1, <1>5, <2>1 DEF PickRoom, Goto, sharedVars, roomVars, Rooms
    <3>5. \A e \in Conn : pc[e] = "store" =>
            loc[e].room + Cardinality(Bumping') <= NumWorkers
      BY <1>1, <1>2, <1>3, <2>1, <3>2, <3>3 DEF Counted
    <3>6. LAST_ROOM_ID + Cardinality(Bumping') <= NumWorkers
      BY <1>1, <1>2, <1>3, <2>1, <3>2, <3>3 DEF Counted
    <3>7. QED
      BY <1>3, <1>4, <3>1, <3>4, <3>5, <3>6 DEF Counted
  <2>2. CASE Rooms # {}
    BY <1>1, <1>5, <2>2, CountedOtherwise
       DEF PickRoom, Goto, sharedVars, roomVars
  <2>3. QED
    BY <2>1, <2>2
<1>6. CASE LoadLastRoomId(c)
  <2>1. /\ LAST_ROOM_ID' = LAST_ROOM_ID /\ Rooms' = Rooms
        /\ pc[c] = "bump" /\ pc'[c] = "store" /\ loc'[c].room = LAST_ROOM_ID
    BY <1>1, <1>6
       DEF LoadLastRoomId, Goto, Locals, sharedVars, roomVars, Rooms
  <2>2. Bumping' = Bumping /\ Making' = Making
    BY <1>4, <2>1 DEF Bumping, Making
  <2>3. QED
    BY <1>3, <1>4, <2>1, <2>2 DEF Counted
<1>7. CASE StoreLastRoomId(c)
  <2>1. /\ LAST_ROOM_ID' = loc[c].room + 1 /\ Rooms' = Rooms
        /\ pc[c] = "store" /\ pc'[c] = "newRoom"
    BY <1>1, <1>7 DEF StoreLastRoomId, Goto, Rooms
  <2>2. Bumping' = Bumping \ {c} /\ Making' = Making \cup {c}
    BY <1>4, <2>1 DEF Bumping, Making
  <2>3. c \in Bumping /\ c \notin Making
    BY <2>1 DEF Bumping, Making
  <2>4. /\ Cardinality(Bumping') = Cardinality(Bumping) - 1
        /\ Cardinality(Making') = Cardinality(Making) + 1
    BY <1>2, <2>2, <2>3, FS_AddElement, FS_RemoveElement
  <2>5. LAST_ROOM_ID' + Cardinality(Bumping') <= NumWorkers
    BY <1>1, <1>2, <1>3, <2>1, <2>4 DEF Counted
  <2>6. Rooms' = {} => LAST_ROOM_ID' <= Cardinality(Making')
    BY <1>1, <1>2, <1>3, <2>1, <2>4 DEF Counted
  <2>7. \A e \in Conn \ {c} : pc[e] = "store" =>
          /\ loc[e].room + Cardinality(Bumping') <= NumWorkers
          /\ Rooms = {} => loc[e].room <= Cardinality(Making')
    BY <1>1, <1>2, <1>3, <2>4 DEF Counted
  <2>8. QED
    BY <1>1, <1>3, <1>4, <2>1, <2>5, <2>6, <2>7 DEF Counted
<1>8. CASE NewGameRoom(c)
  <2>1. /\ LAST_ROOM_ID' = LAST_ROOM_ID /\ Rooms' = Rooms
        /\ pc[c] = "newRoom" /\ pc'[c] = "insert" /\ loc'[c].id = LAST_ROOM_ID
    BY <1>1, <1>8
       DEF NewGameRoom, Goto, Locals, sharedVars, roomVars, Rooms
  <2>2. Bumping' = Bumping /\ Making' = Making
    BY <1>4, <2>1 DEF Bumping, Making
  <2>3. QED
    BY <1>3, <1>4, <2>1, <2>2 DEF Counted
<1>9. CASE InsertGameRoom(c)
  <2>1. /\ LAST_ROOM_ID' = LAST_ROOM_ID
        /\ pc[c] = "insert" /\ pc'[c] = "read"
    BY <1>1, <1>9 DEF InsertGameRoom, Goto
  <2>2. Bumping' = Bumping
    BY <1>4, <2>1 DEF Bumping
  <2>3. LAST_ROOM_ID \in RoomId /\ loc[c].id # 0 /\ LAST_ROOM_ID # 0
    BY <1>3, <2>1 DEF Types, TypeOK, Counted
  <2>4. roomMap'[LAST_ROOM_ID] # 0
    BY <1>9, <2>3 DEF InsertGameRoom, Types, TypeOK
  <2>5. Rooms' # {}
    BY <2>3, <2>4 DEF Rooms
  <2>6. QED
    BY <1>3, <1>4, <2>1, <2>2, <2>3, <2>5 DEF Counted
<1>10. CASE /\ ~PickRoom(c) /\ ~LoadLastRoomId(c) /\ ~StoreLastRoomId(c)
            /\ ~NewGameRoom(c) /\ ~InsertGameRoom(c)
  <2>1. /\ pc[c] \notin {"bump", "store", "newRoom", "insert"}
        /\ pc'[c] \notin {"bump", "store", "newRoom", "insert", "read"}
        /\ LAST_ROOM_ID' = LAST_ROOM_ID /\ roomMap' = roomMap
    <3>1. CASE AcceptClient(c) \/ CreateSession(c)
      BY <1>1, <3>1
         DEF AcceptClient, CreateSession, Goto, sharedVars, roomVars
    <3>2. CASE Login(c)
      BY <1>1, <1>10, <3>2
         DEF Login, Goto, Return, ReqLogin, CheckDuplicate, LoginUser,
             LoginUserFails, SetUserId, ReadLastRoomId, AddObjUser, AddInsert,
             CreateResLogin, CopyForEnter, SendEnter, SendEnterDangling,
             SendEnterDone, SendResLogin, sharedVars, roomVars
    <3>3. CASE DeleteSession(c)
      BY <1>1, <1>10, <3>3
         DEF DeleteSession, Goto, Return, Disconnect, LookupObjUser,
             LeaveRoom, UnsetRoomId, Unlist, EraseSession, CopyForExit,
             SendExit, SendExitDone, CloseSocket, sharedVars, roomVars
    <3>4. QED
      BY <3>1, <3>2, <3>3 DEF Handles
  <2>2. QED
    BY <2>1, CountedOtherwise
<1>11. QED
  BY <1>5, <1>6, <1>7, <1>8, <1>9, <1>10
-----------------------------------------------------------------------------
(* The types. *)

\* At first there is no session, no room and no handler.
LEMMA TypesInit ==
  ASSUME Init
  PROVE  Types
<1>1. /\ \A c \in Conn : loc[c] = Returned /\ pc[c] = "closed"
                         /\ userId[c] = None
      /\ sessions = {} /\ LAST_ROOM_ID = 0
      /\ \A k \in RoomId, u \in User : objUserMap[k][u] = None
  BY DEF Init
<1>2. TypeOK
  <2>1. Returned \in Locals
    BY DEF Returned, Locals
  <2>2. QED
    BY <2>1 DEF Init, TypeOK, Pc
<1>3. Counted
  <2>1. Busy = {} /\ Bumping = {} /\ Making = {}
    BY <1>1 DEF Busy, Idle, Bumping, Making
  <2>2. QED
    BY <1>1, <2>1, FS_EmptySet, WorkerAssumption DEF Counted
<1>4. /\ Returned.user = None /\ Returned.obj = None /\ Returned.it = None
      /\ Returned.targets = {} /\ Returned.dangling = {}
  BY DEF Returned
<1>5. \A c \in Conn : Phase(c)
  BY <1>1, <1>4 DEF Phase, Idle, Deciding, Joining, Telling, Leaving, Gone
<1>6. OneUser
  BY <1>1, <1>4, ObjNoneAssumption DEF OneUser, Refers
<1>7. QED
  BY <1>2, <1>3, <1>5, <1>6 DEF Types

\* A step in which no handler moves: a race, a death, or none at all.
LEMMA TypesUnmoved ==
  ASSUME Types, TypeOK', Unmoved
  PROVE  Types'
<1>1. /\ UNCHANGED <<sessions, userId, LAST_ROOM_ID, roomMap, objUserMap>>
      /\ UNCHANGED <<objRoom, told, pc, loc>>
  BY DEF Unmoved
<1>2. Counted'
  BY <1>1 DEF Types, Counted, Busy, Idle, Bumping, Making, Rooms
<1>3. \A c \in Conn : Phase(c)'
  BY <1>1 DEF Types, Phase, Idle, Rooms
<1>4. OneUser'
  BY <1>1 DEF Types, OneUser, Refers
<1>5. QED
  BY <1>2, <1>3, <1>4 DEF Types

\* Every step, of the handlers and of the races, keeps the typing facts.
LEMMA TypesStep ==
  ASSUME Types, [Next]_vars
  PROVE  Types'
<1>1. CASE Running /\ History
  <2>1. TypeOK'
    BY <1>1, TypeStep
  <2>2. CASE Unmoved
    BY <2>1, <2>2, TypesUnmoved
  <2>3. CASE \E c \in Conn : Handles(c)
    <3>1. PICK c \in Conn : Handles(c)
      BY <2>3
    <3>2. \A e \in Conn : Phase(e)'
      BY <1>1, <2>1, <3>1, PhaseOfOthers, PhaseOfHandler
    <3>3. QED
      BY <2>1, <3>1, <3>2, CountedStep, OneUserStep DEF Types
  <2>4. QED
    BY <1>1, <2>2, <2>3, SomeHandlerMoves
<1>2. CASE UNCHANGED vars
  <2>1. TypeOK'
    BY <1>2 DEF Types, TypeOK, vars, sharedVars, poolVars, roomVars,
       historyVars
  <2>2. QED
    BY <1>2, <2>1, TypesUnmoved, NobodyMoves
<1>3. QED
  BY <1>1, <1>2 DEF Next, Halted

\* For any number of clients and workers the rooms, the sessions, the players
\* and the locals of every handler have their types in every reachable state:
\* above all a room id never exceeds the number of workers.
THEOREM TypeCorrect == Spec => []TypeOK
<1>1. Init => Types
  BY TypesInit
<1>2. Types /\ [Next]_vars => Types'
  BY TypesStep
<1>3. Types => TypeOK
  BY DEF Types
<1>4. QED
  BY <1>1, <1>2, <1>3, PTL DEF Spec

-----------------------------------------------------------------------------
(* While LAST_ROOM_ID has not been above 1. *)

\* There is no other room than the first.
OnlyRoom ==
  /\ LAST_ROOM_ID <= 1
  /\ \A k \in RoomId : roomMap[k] # 0 => k = 1 /\ roomMap[k] = 1
  /\ \A k \in RoomId, u \in User :
       objUserMap[k][u] # None => k = 1 /\ roomMap[k] = 1
  /\ \A o \in Obj : objRoom[o] \in {0, 1}

\* A handler creates, joins and leaves no other.
InOnlyRoom(c) ==
  /\ pc[c] = "insert" => loc[c].id = 1
  /\ pc[c] \in {"read", "add", "addInsert", "snapshot"} => roomMap[1] = 1
  /\ pc[c] \in {"add", "addInsert", "unset", "unlist"} => loc[c].room = 1

Single == OnlyRoom /\ \A c \in Conn : InOnlyRoom(c)

\* The player of a user, if there is one.
Player(u) == objUserMap[1][u]

\* c has a session for u and takes the player of u out before it gives it up.
Keeper(c, u) ==
  /\ c \in sessions
  /\ userId[c] = u
  /\ pc[c] # "erase"
  /\ pc[c] = "leave" => loc[c].obj = Player(u)
  /\ pc[c] \in {"unset", "unlist"} => loc[c].it = Player(u)

\* Every player has a keeper, unless its session has been given another user.
Kept ==
  \A u \in User :
    Player(u) # None => u \in abandoned \/ \E c \in Conn : Keeper(c, u)

\* The player without a room is about to be taken out.
Unsetting ==
  \A u \in User :
    Player(u) # None /\ objRoom[Player(u)] = 0 =>
      \E c \in Conn : Keeper(c, u) /\ pc[c] = "unlist"

\* The first number is a key of roomMap.
LEMMA FirstKey == 1 \in RoomId
  BY WorkerAssumption DEF RoomId

\* The only room is at the front, and who is in a room is in that one.
LEMMA InFront ==
  ASSUME TypeOK, OnlyRoom
  PROVE  /\ Rooms # {} => Begin = 1 /\ roomMap[1] = 1
         /\ \A u \in User : /\ Holding(u) # {} <=> Player(u) # None
                            /\ GetObjUser(u) = Player(u)
<1>1. Rooms # {} => Begin = 1 /\ roomMap[1] = 1
  BY FrontRoom DEF OnlyRoom, Rooms
<1>2. ASSUME NEW u \in User
      PROVE  Holding(u) = IF Player(u) # None THEN {1} ELSE {}
  BY FirstKey DEF OnlyRoom, Holding, Rooms, Player
<1>3. ASSUME NEW u \in User
      PROVE  GetObjUser(u) = Player(u)
  BY <1>2, FoundEntry DEF Player
<1>4. QED
  BY <1>1, <1>2, <1>3

\* A player enters by the insert of its login and leaves by the erase of its
\* client's disconnect.
LEMMA PlayersChange ==
  ASSUME Types, Single, NEW c \in Conn, Handles(c), NEW u \in User
  PROVE  \/ Player(u)' = Player(u)
         \/ /\ pc[c] = "addInsert" /\ pc'[c] = "snapshot"
            /\ u = loc[c].user /\ loc[c].obj \in Obj
            /\ Player(u) = None /\ Player(u)' = loc[c].obj
         \/ /\ pc[c] = "unlist" /\ pc'[c] = "erase"
            /\ u = loc[c].user /\ loc[c].it \in Obj
            /\ Player(u) = loc[c].it /\ Player(u)' = None
<1>1. /\ objUserMap \in [RoomId -> [User -> Obj \cup {None}]]
      /\ pc \in [Conn -> Pc] /\ loc[c] \in Locals /\ 1 \in RoomId
  BY FirstKey DEF Types, TypeOK
<1>2. Phase(c) /\ InOnlyRoom(c)
  BY DEF Types, Single
<1>3. CASE AddInsert(c)
  <2>1. /\ loc[c].room = 1 /\ loc[c].obj \in Obj
        /\ pc[c] = "addInsert" /\ pc'[c] = "snapshot"
    BY <1>1, <1>2, <1>3
       DEF Phase, InOnlyRoom, Joining, AddInsert, Goto, Locals
  <2>2. QED
    BY <1>1, <1>3, <2>1 DEF AddInsert, Player
<1>4. CASE Unlist(c)
  <2>1. /\ loc[c].room = 1 /\ loc[c].it \in Obj /\ pc[c] = "unlist"
    BY <1>1, <1>2, <1>4 DEF Phase, InOnlyRoom, Unlist, Locals
  <2>2. CASE objUserMap[1][loc[c].user] = loc[c].it
    BY <1>1, <1>4, <2>1, <2>2 DEF Unlist, Goto, Player
  <2>3. CASE objUserMap[1][loc[c].user] # loc[c].it
    BY <1>1, <1>4, <2>1, <2>3 DEF Unlist, Player
  <2>4. QED
    BY <2>2, <2>3
<1>5. CASE ~AddInsert(c) /\ ~Unlist(c)
  <2>1. objUserMap' = objUserMap
    BY <1>5
       DEF Handles, Login, DeleteSession, AcceptClient, CreateSession,
           ReqLogin, CheckDuplicate, LoginUser, LoginUserFails, SetUserId,
           PickRoom, LoadLastRoomId, StoreLastRoomId, NewGameRoom,
           InsertGameRoom, ReadLastRoomId, AddObjUser, CreateResLogin,
           CopyForEnter, SendEnter, SendEnterDangling, SendEnterDone,
           SendResLogin, Disconnect, LookupObjUser, LeaveRoom, UnsetRoomId,
           EraseSession, CopyForExit, SendExit, SendExitDone, CloseSocket,
           sharedVars, poolVars, roomVars
  <2>2. QED
    BY <2>1 DEF Player
<1>6. QED
  BY <1>3, <1>4, <1>5

\* An object gets its room id from the login that inserts it, and loses it to
\* a disconnect; a new object has none.
LEMMA RoomIdsChange ==
  ASSUME Types, Single, NEW c \in Conn, Handles(c), NEW o \in Obj
  PROVE  \/ objRoom'[o] = objRoom[o]
         \/ pc[c] = "db" /\ o \in Unreferenced /\ objRoom'[o] = 0
         \/ pc[c] = "addInsert" /\ o = loc[c].obj /\ objRoom'[o] = 1
         \/ /\ pc[c] = "unset" /\ pc'[c] = "unlist" /\ o = loc[c].it
            /\ objRoom'[o] = 0
<1>1. /\ objRoom \in [Obj -> RoomId \cup {0}]
      /\ pc \in [Conn -> Pc] /\ loc[c] \in Locals /\ 1 \in RoomId
  BY FirstKey DEF Types, TypeOK
<1>2. Phase(c) /\ InOnlyRoom(c)
  BY DEF Types, Single
<1>3. CASE LoginUser(c)
  BY <1>1, <1>3 DEF LoginUser
<1>4. CASE AddInsert(c)
  <2>1. loc[c].room = 1 /\ loc[c].room \in Rooms /\ pc[c] = "addInsert"
    BY <1>2, <1>4 DEF Phase, InOnlyRoom, AddInsert
  <2>2. roomMap[1] = 1
    BY <2>1 DEF Single, OnlyRoom, Rooms
  <2>3. QED
    BY <1>1, <1>4, <2>1, <2>2 DEF AddInsert
<1>5. CASE UnsetRoomId(c)
  BY <1>1, <1>5 DEF UnsetRoomId, Goto
<1>6. CASE ~LoginUser(c) /\ ~AddInsert(c) /\ ~UnsetRoomId(c)
  BY <1>6
     DEF Handles, Login, DeleteSession, AcceptClient, CreateSession, ReqLogin,
         CheckDuplicate, LoginUserFails, SetUserId, PickRoom, LoadLastRoomId,
         StoreLastRoomId, NewGameRoom, InsertGameRoom, ReadLastRoomId,
         AddObjUser, CreateResLogin, CopyForEnter, SendEnter,
         SendEnterDangling, SendEnterDone, SendResLogin, Disconnect,
         LookupObjUser, LeaveRoom, Unlist, EraseSession, CopyForExit,
         SendExit, SendExitDone, CloseSocket, sharedVars, poolVars, roomVars
<1>7. QED
  BY <1>3, <1>4, <1>5, <1>6

\* While LAST_ROOM_ID is not above 1, who inserts a room inserts the first.
LEMMA OnlyRoomStep ==
  ASSUME Types, Types', Running, Single, NEW c \in Conn, Handles(c),
         LAST_ROOM_ID' <= 1
  PROVE  OnlyRoom'
<1>1. /\ objUserMap \in [RoomId -> [User -> Obj \cup {None}]]
      /\ roomMap \in [RoomId -> RoomId \cup {0}] /\ 1 \in RoomId
  BY FirstKey DEF Types, TypeOK
<1>2. /\ Phase(c) /\ InOnlyRoom(c) /\ OnlyRoom /\ Counted
  BY DEF Types, Single
<1>3. \A k \in RoomId : roomMap'[k] # 0 => k = 1 /\ roomMap'[k] = 1
  <2>1. CASE InsertGameRoom(c)
    <3>1. LAST_ROOM_ID = 1
      <4>1. LAST_ROOM_ID # 0 /\ LAST_ROOM_ID <= 1
        BY <1>2, <2>1 DEF InsertGameRoom, Counted, OnlyRoom
      <4>2. LAST_ROOM_ID \in Nat
        BY DEF Types, TypeOK, RoomId
      <4>3. QED
        BY <4>1, <4>2
    <3>2. loc[c].id = 1
      BY <1>2, <2>1 DEF InsertGameRoom, InOnlyRoom
    <3>3. QED
      BY <1>1, <1>2, <2>1, <3>1, <3>2 DEF InsertGameRoom, OnlyRoom
  <2>2. CASE ~InsertGameRoom(c)
    <3>1. roomMap' = roomMap
      BY <2>2
         DEF Handles, Login, DeleteSession, AcceptClient, CreateSession,
             ReqLogin, CheckDuplicate, LoginUser, LoginUserFails, SetUserId,
             PickRoom, LoadLastRoomId, StoreLastRoomId, NewGameRoom,
             ReadLastRoomId, AddObjUser, AddInsert, CreateResLogin,
             CopyForEnter, SendEnter, SendEnterDangling, SendEnterDone,
             SendResLogin, Disconnect, LookupObjUser, LeaveRoom, UnsetRoomId,
             Unlist, EraseSession, CopyForExit, SendExit, SendExitDone,
             CloseSocket, sharedVars, poolVars, roomVars
    <3>2. QED
      BY <1>2, <3>1 DEF OnlyRoom
  <2>3. QED
    BY <2>1, <2>2
<1>4. \A k \in RoomId, u \in User :
        objUserMap'[k][u] # None => k = 1 /\ roomMap'[k] = 1
  <2>1. CASE AddInsert(c)
    <3>1. loc[c].room = 1 /\ loc[c].room \in Rooms /\ roomMap' = roomMap
      BY <1>2, <2>1 DEF Phase, InOnlyRoom, AddInsert
    <3>2. roomMap[1] = 1
      BY <1>2, <3>1 DEF OnlyRoom, Rooms
    <3>3. QED
      BY <1>1, <1>2, <2>1, <3>1, <3>2 DEF AddInsert, OnlyRoom
  <2>2. CASE ~AddInsert(c)
    <3>1. \A k \in RoomId, u \in User :
            objUserMap'[k][u] \in {None, objUserMap[k][u]}
      <4>1. CASE Unlist(c)
        BY <1>1, <4>1 DEF Unlist
      <4>2. CASE ~Unlist(c)
        BY <2>2, <4>2
           DEF Handles, Login, DeleteSession, AcceptClient, CreateSession,
               ReqLogin, CheckDuplicate, LoginUser, LoginUserFails, SetUserId,
               PickRoom, LoadLastRoomId, StoreLastRoomId, NewGameRoom,
               InsertGameRoom, ReadLastRoomId, AddObjUser, CreateResLogin,
               CopyForEnter, SendEnter, SendEnterDangling, SendEnterDone,
               SendResLogin, Disconnect, LookupObjUser, LeaveRoom,
               UnsetRoomId, EraseSession, CopyForExit, SendExit, SendExitDone,
               CloseSocket, sharedVars, poolVars, roomVars
      <4>3. QED
        BY <4>1, <4>2
    <3>2. QED
      BY <1>2, <3>1, RoomsStay DEF OnlyRoom
  <2>3. QED
    BY <2>1, <2>2
<1>5. \A o \in Obj : objRoom'[o] \in {0, 1}
  BY <1>2, RoomIdsChange DEF OnlyRoom
<1>6. QED
  BY <1>3, <1>4, <1>5 DEF OnlyRoom

\* A handler takes its room from the map or from LAST_ROOM_ID.
LEMMA SingleStep ==
  ASSUME Types, Types', Running, Single, NEW c \in Conn, Handles(c),
         LAST_ROOM_ID' <= 1
  PROVE  Single'
<1>1. /\ loc \in [Conn -> Locals] /\ pc \in [Conn -> Pc] /\ c \in Conn
      /\ LAST_ROOM_ID \in Nat
      /\ roomMap \in [RoomId -> RoomId \cup {0}] /\ 1 \in RoomId
  BY FirstKey, WorkerAssumption DEF Types, TypeOK, RoomId
<1>2. Phase(c) /\ InOnlyRoom(c) /\ OnlyRoom /\ Counted
  BY DEF Types, Single
<1>3. pc[c] \in {"newRoom", "insert", "read"} => LAST_ROOM_ID = 1
  <2>1. pc[c] \in {"newRoom", "insert", "read"} => LAST_ROOM_ID # 0
    BY <1>2 DEF Counted
  <2>2. LAST_ROOM_ID <= 1
    BY <1>2 DEF OnlyRoom
  <2>3. QED
    BY <1>1, <2>1, <2>2
<1>4. ASSUME NEW e \in Conn \ {c}
      PROVE  InOnlyRoom(e)'
  <2>1. Untouched(e) /\ InOnlyRoom(e) /\ (roomMap[1] = 1 => roomMap'[1] = 1)
    BY <1>1, OthersUntouched, RoomsStay DEF Single
  <2>2. QED
    BY <2>1 DEF Untouched, InOnlyRoom
<1>5. InOnlyRoom(c)'
  <2>1. CASE CheckDuplicate(c)
    BY <1>1, <1>2, <2>1
       DEF InOnlyRoom, CheckDuplicate, Goto, Return, Returned, Locals,
           sharedVars, poolVars, roomVars
  <2>2. CASE PickRoom(c)
    BY <1>1, <1>2, <2>2, InFront
       DEF InOnlyRoom, Types, PickRoom, Goto, Return, Returned, Locals, Rooms,
           sharedVars, poolVars, roomVars
  <2>3. CASE NewGameRoom(c)
    BY <1>1, <1>2, <2>3, <1>3
       DEF InOnlyRoom, NewGameRoom, Goto, Return, Returned, Locals,
           sharedVars, poolVars, roomVars
  <2>4. CASE InsertGameRoom(c)
    BY <1>1, <1>2, <2>4, <1>3
       DEF InOnlyRoom, InsertGameRoom, Goto, Return, Returned, Locals,
           OnlyRoom, sharedVars, poolVars, roomVars
  <2>5. CASE ReadLastRoomId(c)
    BY <1>1, <1>2, <2>5, <1>3
       DEF InOnlyRoom, ReadLastRoomId, Goto, Return, Returned, Locals,
           sharedVars, poolVars, roomVars
  <2>6. CASE AddObjUser(c)
    BY <1>1, <1>2, <2>6
       DEF InOnlyRoom, AddObjUser, Goto, Return, Returned, Locals, Rooms,
           OnlyRoom, sharedVars, poolVars, roomVars
  <2>7. CASE AddInsert(c)
    BY <1>1, <1>2, <2>7
       DEF InOnlyRoom, AddInsert, Goto, Return, Returned, Locals, Phase,
           Rooms, OnlyRoom, sharedVars, poolVars, roomVars
  <2>8. CASE CreateResLogin(c)
    BY <1>1, <1>2, <2>8
       DEF InOnlyRoom, CreateResLogin, Goto, Return, Returned, Locals,
           sharedVars, poolVars, roomVars
  <2>9. CASE LookupObjUser(c)
    BY <1>1, <1>2, <2>9
       DEF InOnlyRoom, LookupObjUser, Goto, Return, Returned, Locals,
           sharedVars, poolVars, roomVars
  <2>10. CASE LeaveRoom(c)
    BY <1>1, <1>2, <2>10
       DEF InOnlyRoom, LeaveRoom, Goto, Return, Returned, Locals, Rooms,
           OnlyRoom, sharedVars, poolVars, roomVars
  <2>11. CASE UnsetRoomId(c)
    BY <1>1, <1>2, <2>11
       DEF InOnlyRoom, UnsetRoomId, Goto, Return, Returned, Locals,
           sharedVars, poolVars, roomVars
  <2>12. CASE Unlist(c)
    BY <1>1, <1>2, <2>12
       DEF InOnlyRoom, Unlist, Goto, Return, Returned, Locals, sharedVars,
           poolVars, roomVars
  <2>13. CASE pc'[c] \notin {"insert", "read", "add", "addInsert",
                          "snapshot", "unset", "unlist"}
    BY <2>13 DEF InOnlyRoom
  <2>14. CASE /\ ~CheckDuplicate(c)
             /\ ~PickRoom(c)
             /\ ~NewGameRoom(c)
             /\ ~InsertGameRoom(c)
             /\ ~ReadLastRoomId(c)
             /\ ~AddObjUser(c)
             /\ ~AddInsert(c)
             /\ ~CreateResLogin(c)
             /\ ~LookupObjUser(c)
             /\ ~LeaveRoom(c)
             /\ ~UnsetRoomId(c)
             /\ ~Unlist(c)
    <3>1. pc'[c] \notin {"insert", "read", "add", "addInsert",
                      "snapshot", "unset", "unlist"}
      BY <1>1, <2>14
         DEF Handles, Login, DeleteSession, Goto, Return, AcceptClient,
             CreateSession, ReqLogin, LoginUser, LoginUserFails, SetUserId,
             LoadLastRoomId, StoreLastRoomId, CopyForEnter, SendEnter,
             SendEnterDangling, SendEnterDone, SendResLogin, Disconnect,
             EraseSession, CopyForExit, SendExit, SendExitDone, CloseSocket
    <3>2. QED
      BY <2>13, <3>1
  <2>15. QED
    BY <2>1, <2>2, <2>3, <2>4, <2>5, <2>6, <2>7, <2>8, <2>9, <2>10, <2>11,
       <2>12, <2>13, <2>14
<1>6. QED
  BY <1>4, <1>5, OnlyRoomStep DEF Single

\* A connection that is to take a player out goes on to while others move.
LEMMA KeeperStays ==
  ASSUME Types, NEW c \in Conn, Handles(c), NEW u \in User,
         Player(u)' = Player(u), NEW e \in Conn \ {c}, Keeper(e, u)
  PROVE  Keeper(e, u)'
  BY OthersUntouched DEF Keeper, Untouched

\* A handler that has a player to take out goes on to, or its session has been
\* given another user.
LEMMA KeeperGoesOn ==
  ASSUME Types, Running, History, Single, Unsetting,
         NEW c \in Conn, Handles(c),
         NEW u \in User, Player(u)' = Player(u), Player(u) # None, Keeper(c, u)
  PROVE  u \in abandoned' \/ \E e \in Conn : Keeper(e, u)'
<1>1. /\ loc \in [Conn -> Locals] /\ pc \in [Conn -> Pc]
      /\ userId \in [Conn -> User \cup {None}] /\ sessions \subseteq Conn
      /\ 1 \in RoomId /\ Player(u) \in Obj
  BY FirstKey DEF Types, TypeOK, Player
<1>2. /\ Phase(c) /\ TypeOK /\ OnlyRoom /\ c \in sessions /\ userId[c] = u
      /\ pc[c] # "erase" /\ u # None
  BY ObjNoneAssumption DEF Types, Single, Keeper
<1>3. CASE SetUserId(c)
  <2>1. CASE loc[c].user = u
    BY <1>1, <1>2, <1>3, <2>1 DEF SetUserId, Goto, Keeper
  <2>2. CASE loc[c].user # u
    <3>1. c \in sessions \cap sessions' /\ userId'[c] # userId[c]
      BY <1>1, <1>2, <1>3, <2>2 DEF SetUserId
    <3>2. u \in {userId[d] : d \in {e \in sessions \cap sessions' :
                                    userId'[e] # userId[e]}} \ {None}
      BY <1>2, <3>1
    <3>3. QED
      BY <3>2 DEF History
  <2>3. QED
    BY <2>1, <2>2
<1>4. CASE LookupObjUser(c)
  <2>1. loc[c].user = u /\ GetObjUser(u) = Player(u)
    BY <1>2, <1>4, InFront DEF LookupObjUser, Phase, Leaving
  <2>2. loc'[c].obj = Player(u) /\ pc'[c] = "leave" /\ UNCHANGED poolVars
    BY <1>1, <1>2, <1>4, <2>1 DEF LookupObjUser, Goto, Locals
  <2>3. QED
    BY <1>2, <2>2 DEF Keeper, poolVars
<1>5. CASE LeaveRoom(c)
  <2>1. /\ loc[c].user = u /\ loc[c].obj = Player(u) /\ pc[c] = "leave"
        /\ roomMap[1] = 1 /\ objUserMap[1][u] = Player(u)
    BY <1>1, <1>2, <1>5 DEF LeaveRoom, Phase, Leaving, Keeper, Player, OnlyRoom
  <2>2. CASE objRoom[Player(u)] = 1
    <3>1. loc'[c].it = Player(u) /\ pc'[c] = "unset" /\ UNCHANGED poolVars
      BY <1>1, <1>2, <1>5, <2>1, <2>2
         DEF LeaveRoom, Goto, Locals, Rooms, sharedVars
    <3>2. QED
      BY <1>2, <3>1 DEF Keeper, poolVars
  <2>3. CASE objRoom[Player(u)] = 0
    <3>1. PICK e \in Conn : Keeper(e, u) /\ pc[e] = "unlist"
      BY <1>2, <2>3 DEF Unsetting
    <3>2. e # c
      BY <2>1, <3>1
    <3>3. QED
      BY <3>1, <3>2, KeeperStays
  <2>4. QED
    BY <1>1, <1>2, <2>2, <2>3 DEF OnlyRoom
<1>6. CASE Unlist(c)
  <2>1. /\ loc[c].user = u /\ loc[c].room = 1 /\ loc[c].it = Player(u)
    BY <1>1, <1>2, <1>6
       DEF Unlist, Phase, Leaving, Keeper, Single, InOnlyRoom
  <2>2. objUserMap[1][u] = loc[c].it
    BY <2>1 DEF Player
  <2>3. Player(u)' = None
    BY <1>1, <1>2, <1>6, <2>1, <2>2 DEF Unlist, Player, TypeOK
  <2>4. QED
    BY <2>3
<1>7. CASE UnsetRoomId(c)
  BY <1>1, <1>2, <1>7 DEF UnsetRoomId, Goto, Keeper, poolVars
<1>8. CASE Disconnect(c)
  BY <1>1, <1>2, <1>8 DEF Disconnect, Goto, Keeper, sharedVars, poolVars
<1>9. CASE /\ ~SetUserId(c) /\ ~LookupObjUser(c) /\ ~LeaveRoom(c)
           /\ ~Unlist(c) /\ ~UnsetRoomId(c) /\ ~Disconnect(c)
  <2>1. /\ c \in sessions' /\ userId'[c] = userId[c]
        /\ pc'[c] \notin {"erase", "leave", "unset", "unlist"}
    BY <1>1, <1>2, <1>9
       DEF Handles, Login, DeleteSession, Goto, Return, Phase, Gone,
           AcceptClient, CreateSession, ReqLogin, CheckDuplicate, LoginUser,
           LoginUserFails, PickRoom, LoadLastRoomId, StoreLastRoomId,
           NewGameRoom, InsertGameRoom, ReadLastRoomId, AddObjUser, AddInsert,
           CreateResLogin, CopyForEnter, SendEnter, SendEnterDangling,
           SendEnterDone, SendResLogin, EraseSession, CopyForExit, SendExit,
           SendExitDone, CloseSocket, sharedVars, poolVars
  <2>2. QED
    BY <1>2, <2>1 DEF Keeper
<1>10. QED
  BY <1>3, <1>4, <1>5, <1>6, <1>7, <1>8, <1>9

\* A player comes in with a keeper, the session that has logged in, and goes
\* on to have one.
LEMMA KeptStep ==
  ASSUME Types, Running, History, Single, Kept, Unsetting,
         NEW c \in Conn, Handles(c)
  PROVE  Kept'
<1>1. SUFFICES ASSUME NEW u \in User, Player(u)' # None
               PROVE  u \in abandoned' \/ \E e \in Conn : Keeper(e, u)'
  BY DEF Kept
<1>2. CASE Player(u)' = Player(u)
  <2>1. abandoned \subseteq abandoned'
    BY DEF History
  <2>2. CASE u \in abandoned
    BY <2>1, <2>2
  <2>3. CASE \E e \in Conn : Keeper(e, u)
    <3>1. PICK e \in Conn : Keeper(e, u)
      BY <2>3
    <3>2. CASE e = c
      BY <1>1, <1>2, <3>1, <3>2, KeeperGoesOn
    <3>3. CASE e # c
      BY <1>2, <3>1, <3>3, KeeperStays
    <3>4. QED
      BY <3>2, <3>3
  <2>4. QED
    BY <1>1, <1>2, <2>2, <2>3 DEF Kept
<1>3. CASE Player(u)' # Player(u)
  <2>1. pc[c] = "addInsert" /\ pc'[c] = "snapshot" /\ u = loc[c].user
    BY <1>1, <1>3, PlayersChange
  <2>2. Phase(c)
    BY DEF Types
  <2>3. c \in sessions /\ userId[c] = u
    BY <2>1, <2>2 DEF Phase, Gone, Joining
  <2>4. UNCHANGED poolVars
    BY <2>1
       DEF Handles, Login, DeleteSession, Goto, Return, AcceptClient,
           CreateSession, ReqLogin, CheckDuplicate, LoginUser, LoginUserFails,
           SetUserId, PickRoom, LoadLastRoomId, StoreLastRoomId, NewGameRoom,
           InsertGameRoom, ReadLastRoomId, AddObjUser, AddInsert,
           CreateResLogin, CopyForEnter, SendEnter, SendEnterDangling,
           SendEnterDone, SendResLogin, Disconnect, LookupObjUser, LeaveRoom,
           UnsetRoomId, Unlist, EraseSession, CopyForExit, SendExit,
           SendExitDone, CloseSocket, sharedVars
  <2>5. QED
    BY <2>1, <2>3, <2>4 DEF Keeper, poolVars
<1>4. QED
  BY <1>2, <1>3

\* The object of a player loses its room id to the disconnect that has found
\* the player, and that one takes the player out next.
LEMMA UnsettingStep ==
  ASSUME Types, Running, Single, Unsetting, NEW c \in Conn, Handles(c)
  PROVE  Unsetting'
<1>1. SUFFICES ASSUME NEW u \in User, Player(u)' # None,
                      objRoom'[Player(u)'] = 0
               PROVE  \E e \in Conn : Keeper(e, u)' /\ pc'[e] = "unlist"
  BY DEF Unsetting
<1>2. /\ Phase(c) /\ loc[c] \in Locals /\ OneUser /\ pc \in [Conn -> Pc]
      /\ Player(u) \in Obj \cup {None} /\ 1 \in RoomId
  BY FirstKey DEF Types, TypeOK, Player
<1>3. CASE AddInsert(c)
  <2>1. pc[c] = "addInsert" /\ InOnlyRoom(c) /\ loc[c].obj \in Obj
    BY <1>2, <1>3 DEF AddInsert, Phase, Joining, Locals, Single
  <2>2. objRoom'[loc[c].obj] = 1
    <3>1. loc[c].room = 1 /\ roomMap[1] = 1
      BY <2>1 DEF InOnlyRoom
    <3>2. QED
      BY <1>3, <2>1, <3>1 DEF AddInsert, Types, TypeOK
  <2>3. Player(u)' = Player(u) /\ Player(u) # loc[c].obj /\ Player(u) \in Obj
    BY <1>1, <1>2, <2>2, PlayersChange
  <2>4. objRoom[Player(u)] = 0
    BY <1>1, <2>1, <2>3, RoomIdsChange
  <2>5. PICK e \in Conn : Keeper(e, u) /\ pc[e] = "unlist"
    BY <1>1, <2>3, <2>4 DEF Unsetting
  <2>6. e # c
    BY <2>1, <2>5
  <2>7. QED
    BY <2>3, <2>5, <2>6, KeeperStays, OthersUntouched DEF Untouched
<1>4. CASE pc[c] # "addInsert"
  <2>1. Player(u)' = Player(u) /\ Player(u) \in Obj
    BY <1>1, <1>2, <1>4, PlayersChange
  <2>2. Player(u) \notin Unreferenced
    BY <1>2, <2>1 DEF Unreferenced, Player
  <2>3. CASE objRoom[Player(u)] = 0
    <3>1. PICK e \in Conn : Keeper(e, u) /\ pc[e] = "unlist"
      BY <1>1, <2>1, <2>3 DEF Unsetting
    <3>2. CASE e # c
      BY <2>1, <3>1, <3>2, KeeperStays, OthersUntouched DEF Untouched
    <3>3. CASE e = c
      <4>1. Unlist(c)
        BY <3>1, <3>3
           DEF Handles, Login, DeleteSession, Goto, Return, AcceptClient,
               CreateSession, ReqLogin, CheckDuplicate, LoginUser,
               LoginUserFails, SetUserId, PickRoom, LoadLastRoomId,
               StoreLastRoomId, NewGameRoom, InsertGameRoom, ReadLastRoomId,
               AddObjUser, AddInsert, CreateResLogin, CopyForEnter, SendEnter,
               SendEnterDangling, SendEnterDone, SendResLogin, Disconnect,
               LookupObjUser, LeaveRoom, UnsetRoomId, EraseSession,
               CopyForExit, SendExit, SendExitDone, CloseSocket
      <4>2. /\ loc[c].user = u /\ loc[c].room = 1 /\ loc[c].it = Player(u)
        BY <1>2, <3>1, <3>3 DEF Phase, Leaving, Keeper, Single, InOnlyRoom
      <4>3. objUserMap[1][u] = loc[c].it
        BY <4>2 DEF Player
      <4>4. Player(u)' = None
        BY <1>2, <4>1, <4>2, <4>3 DEF Unlist, Player, Types, TypeOK
      <4>5. QED
        BY <1>1, <4>4
    <3>4. QED
      BY <3>2, <3>3
  <2>4. CASE objRoom[Player(u)] # 0
    <3>1. /\ pc[c] = "unset" /\ pc'[c] = "unlist" /\ Player(u) = loc[c].it
      BY <1>1, <1>4, <2>1, <2>2, <2>4, RoomIdsChange
    <3>2. loc[c].user \in User
      BY <1>2, <3>1 DEF Phase, Leaving, Locals
    <3>3. Refers(Player(u), u) /\ Refers(Player(u), loc[c].user)
      BY <1>2, <3>1 DEF Refers, Player
    <3>4. loc[c].user = u
      BY <1>2, <2>1, <3>2, <3>3 DEF OneUser
    <3>5. c \in sessions /\ userId[c] = u
      BY <1>2, <3>1, <3>4 DEF Phase, Leaving, Gone
    <3>6. UnsetRoomId(c)
      BY <3>1
         DEF Handles, Login, DeleteSession, Goto, Return, AcceptClient,
             CreateSession, ReqLogin, CheckDuplicate, LoginUser,
             LoginUserFails, SetUserId, PickRoom, LoadLastRoomId,
             StoreLastRoomId, NewGameRoom, InsertGameRoom, ReadLastRoomId,
             AddObjUser, AddInsert, CreateResLogin, CopyForEnter, SendEnter,
             SendEnterDangling, SendEnterDone, SendResLogin, Disconnect,
             LookupObjUser, LeaveRoom, Unlist, EraseSession, CopyForExit,
             SendExit, SendExitDone, CloseSocket
    <3>7. QED
      BY <2>1, <3>1, <3>5, <3>6 DEF UnsetRoomId, Keeper, poolVars
  <2>5. QED
    BY <2>3, <2>4
<1>5. CASE pc[c] = "addInsert" /\ ~AddInsert(c)
  BY <1>5
     DEF Handles, Login, DeleteSession, Goto, Return, AcceptClient,
         CreateSession, ReqLogin, CheckDuplicate, LoginUser, LoginUserFails,
         SetUserId, PickRoom, LoadLastRoomId, StoreLastRoomId, NewGameRoom,
         InsertGameRoom, ReadLastRoomId, AddObjUser, CreateResLogin,
         CopyForEnter, SendEnter, SendEnterDangling, SendEnterDone,
         SendResLogin, Disconnect, LookupObjUser, LeaveRoom, UnsetRoomId,
         Unlist, EraseSession, CopyForExit, SendExit, SendExitDone,
         CloseSocket
<1>6. QED
  BY <1>3, <1>4, <1>5

\* While LAST_ROOM_ID has not been above 1.
FirstRoom == ~manyRooms => Single /\ Kept /\ Unsetting

\* At the start there is no room and no player.
LEMMA FirstRoomInit ==
  ASSUME Init
  PROVE  FirstRoom
<1>1. /\ \A c \in Conn : pc[c] = "closed"
      /\ \A k \in RoomId, u \in User : objUserMap[k][u] = None
      /\ \A k \in RoomId : roomMap[k] = 0
      /\ \A o \in Obj : objRoom[o] = 0
      /\ LAST_ROOM_ID = 0
  BY DEF Init
<1>2. Single
  BY <1>1 DEF Single, OnlyRoom, InOnlyRoom
<1>3. \A u \in User : Player(u) = None
  BY <1>1, FirstKey DEF Player
<1>4. QED
  BY <1>2, <1>3 DEF FirstRoom, Kept, Unsetting

\* A step that changes neither the rooms nor a handler keeps what holds
\* while LAST_ROOM_ID has not been above 1.
LEMMA FirstRoomUnmoved ==
  ASSUME FirstRoom, Unmoved, ~manyRooms' => ~manyRooms,
         abandoned \subseteq abandoned'
  PROVE  FirstRoom'
<1>1. /\ UNCHANGED <<sessions, userId, LAST_ROOM_ID, roomMap, objUserMap>>
      /\ UNCHANGED <<objRoom, told, pc, loc>>
  BY DEF Unmoved
<1>2. Single => Single'
  BY <1>1 DEF Single, OnlyRoom, InOnlyRoom
<1>3. Kept /\ Unsetting => Kept' /\ Unsetting'
  BY <1>1 DEF Kept, Unsetting, Keeper, Player
<1>4. QED
  BY <1>2, <1>3 DEF FirstRoom

\* While LAST_ROOM_ID has not been above 1 every step keeps one room, a
\* keeper for every player and no player left without its room.
LEMMA FirstRoomStep ==
  ASSUME Types, Types', FirstRoom, [Next]_vars
  PROVE  FirstRoom'
<1>1. CASE Running /\ History
  <2>1. SUFFICES ASSUME ~manyRooms'
                 PROVE  FirstRoom'
    BY DEF FirstRoom
  <2>2. /\ ~manyRooms /\ abandoned \subseteq abandoned'
        /\ Single /\ Kept /\ Unsetting
    BY <1>1, <2>1 DEF History, FirstRoom
  <2>3. LAST_ROOM_ID' <= 1
    <3>1. ~(LAST_ROOM_ID' > 1)
      BY <1>1, <2>1, Zenon DEF History
    <3>2. LAST_ROOM_ID' \in Nat
      BY WorkerAssumption DEF Types, TypeOK, RoomId
    <3>3. QED
      BY <3>1, <3>2
  <2>4. CASE Unmoved
    BY <2>2, <2>4, <2>1, FirstRoomUnmoved
  <2>5. CASE \E c \in Conn : Handles(c)
    BY <1>1, <2>2, <2>3, <2>5, SingleStep, KeptStep, UnsettingStep
       DEF FirstRoom
  <2>6. QED
    BY <1>1, <2>4, <2>5, SomeHandlerMoves
<1>2. CASE UNCHANGED vars
  BY <1>2, FirstRoomUnmoved, NobodyMoves DEF vars, historyVars
<1>3. QED
  BY <1>1, <1>2 DEF Next, Halted

\* While LAST_ROOM_ID has not been above 1, every player has a session,
\* whatever the logins and disconnects of other clients, of the same user even,
\* are at: nobody is left behind in a room, unless its session has logged in
\* again as someone else.
THEOREM NobodyLeftBehind == Spec => []NoGhost
<1>1. Init => Types /\ FirstRoom
  BY TypesInit, FirstRoomInit
<1>2. Types /\ FirstRoom /\ [Next]_vars => (Types /\ FirstRoom)'
  BY TypesStep, FirstRoomStep
<1>3. Types /\ FirstRoom => NoGhost
  <2>1. SUFFICES ASSUME Types, FirstRoom, OneRoom, NEW u \in Players
                 PROVE  u \in SessionUsers \cup abandoned
    BY DEF NoGhost
  <2>2. Single /\ Kept
    BY <2>1 DEF FirstRoom, OneRoom
  <2>3. u \in User /\ Player(u) # None
    BY <2>1, <2>2, InFront DEF Players, Single, Types
  <2>4. \A e \in Conn : Keeper(e, u) => u \in SessionUsers
    BY <2>3, ObjNoneAssumption DEF Keeper, SessionUsers
  <2>5. QED
    BY <2>2, <2>3, <2>4 DEF Kept
<1>4. QED
  BY <1>1, <1>2, <1>3, PTL DEF Spec

-----------------------------------------------------------------------------
(* While, besides, no two handlers have been busy with one user. *)

Separate ==
  \A c, d \in Busy :
    c # d => loc[c].user # loc[d].user \/ loc[c].user = None

\* A handler knows whether its user plays.
Knows(c) ==
  /\ pc[c] \in {"db", "setUser"} \cup Joining => Player(loc[c].user) = None
  /\ pc[c] \in Telling \cup {"leave"} => Player(loc[c].user) = loc[c].obj
  /\ pc[c] = "lookup" => Player(loc[c].user) # None
  /\ pc[c] = "leave" => objRoom[loc[c].obj] = 1
  /\ pc[c] \in {"unset", "unlist"} => Player(loc[c].user) = loc[c].it
  /\ pc[c] \in {"erase", "exit", "sendExit", "close"} /\ loc[c].user # None =>
       Player(loc[c].user) = None
  /\ c \in sessions /\ userId[c] # None =>
       pc[c] \in Joining \cup {"erase"} \/ Player(userId[c]) # None

Orderly ==
  /\ status # "crashed"
  /\ \A c \in Conn : Knows(c)
  /\ NoDuplicateLogin

\* What the steps of regular runs start from.
Settling == Types /\ Single /\ Unsetting /\ Separate /\ Orderly

\* No other handler brings in or takes out the player a handler deals with.
LEMMA OwnPlayer ==
  ASSUME Settling, NEW c \in Conn, Handles(c), NEW e \in Busy \ {c},
         NEW u \in User, loc[e].user = u
  PROVE  Player(u)' = Player(u)
<1>1. SUFFICES ASSUME Player(u)' # Player(u)
               PROVE  FALSE
  OBVIOUS
<1>2. pc[c] \in {"addInsert", "unlist"} /\ loc[c].user = u
  BY <1>1, PlayersChange DEF Settling
<1>3. c \in Busy /\ c # e /\ u # None
  BY <1>2, ObjNoneAssumption DEF Busy, Idle
<1>4. QED
  BY <1>2, <1>3 DEF Settling, Separate

\* Nor does it take out the player of another session.
LEMMA OwnSession ==
  ASSUME Settling, NEW c \in Conn, Handles(c), NEW e \in sessions \ {c},
         NEW u \in User, userId[e] = u, Player(u) # None
  PROVE  Player(u)' # None
<1>1. SUFFICES ASSUME Player(u)' = None
               PROVE  FALSE
  OBVIOUS
<1>2. pc[c] = "unlist" /\ loc[c].user = u
  BY <1>1, PlayersChange DEF Settling
<1>3. Phase(c) /\ u # None
  BY ObjNoneAssumption DEF Settling, Types
<1>4. c \in sessions /\ userId[c] = u
  BY <1>2, <1>3 DEF Phase, Gone, Leaving
<1>5. QED
  BY <1>3, <1>4 DEF Settling, Orderly, NoDuplicateLogin

\* What a handler knows stays true while another one moves.
LEMMA KnowsOfOthers ==
  ASSUME Settling, NEW c \in Conn, Handles(c), NEW e \in Conn \ {c}
  PROVE  Knows(e)'
<1>1. /\ Untouched(e) /\ Knows(e) /\ Phase(e) /\ OneUser
      /\ loc[e] \in Locals /\ loc[c] \in Locals
      /\ userId[e] \in User \cup {None} /\ sessions \subseteq Conn
  BY OthersUntouched DEF Settling, Orderly, Types, TypeOK
<1>2. CASE Idle(e)
  <2>1. Idle(e)' /\ pc'[e] = pc[e]
    BY <1>1, <1>2 DEF Untouched, Idle
  <2>2. ASSUME e \in sessions', userId'[e] # None
        PROVE  objUserMap'[1][userId'[e]] # None
    <3>1. e \in sessions /\ userId'[e] = userId[e] /\ Player(userId[e]) # None
      BY <1>1, <1>2, <2>2 DEF Untouched, Knows, Idle, Joining
    <3>2. PICK u \in User : u = userId[e]
      BY <1>1, <2>2, <3>1
    <3>3. Player(u)' # None
      BY <3>1, <3>2, OwnSession
    <3>4. QED
      BY <3>1, <3>2, <3>3 DEF Player
  <2>3. QED
    BY <1>2, <2>1, <2>2
       DEF Knows, Idle, Joining, Telling, Player
<1>3. CASE ~Idle(e) /\ loc[e].user = None
  <2>1. /\ pc[e] \notin Deciding \cup Joining \cup Telling \cup Leaving
                      \cup {"exit", "sendExit"}
        /\ pc[e] = "erase" => userId[e] = None
        /\ pc'[e] = pc[e] /\ loc'[e].user = None /\ userId'[e] = userId[e]
        /\ e \in sessions' => pc[e] \notin Gone
    BY <1>1, <1>3 DEF Phase, Untouched
  <2>2. pc[e] = "close" \/ pc[e] = "erase"
    <3>1. pc[e] \in Pc
      BY DEF Settling, Types, TypeOK
    <3>2. QED
      BY <1>3, <2>1, <3>1
         DEF Pc, Idle, Deciding, Joining, Telling, Leaving
  <2>3. QED
    BY <1>3, <2>1, <2>2
       DEF Knows, Idle, Deciding, Joining, Telling, Leaving, Gone
<1>4. CASE ~Idle(e) /\ loc[e].user # None
  <2>1. PICK u \in User : u = loc[e].user
    BY <1>1, <1>4 DEF Locals
  <2>2. e \in Busy
    BY <1>4 DEF Busy
  <2>3. Player(u)' = Player(u)
    BY <2>1, <2>2, OwnPlayer
  <2>4. objUserMap'[1][loc'[e].user] = Player(loc[e].user)
    BY <1>1, <2>1, <2>3 DEF Untouched, Player
  <2>5. pc[e] = "leave" => objRoom'[loc[e].obj] = 1
    <3>1. SUFFICES ASSUME pc[e] = "leave"
                   PROVE  objRoom'[loc[e].obj] = 1
      OBVIOUS
    <3>2. PICK o \in Obj : o = loc[e].obj /\ objRoom[o] = 1
      BY <1>1, <3>1 DEF Phase, Knows, Locals
    <3>3. o \notin Unreferenced
      BY <3>2 DEF Unreferenced
    <3>4. pc[c] = "unset" => o # loc[c].it
      <4>1. SUFFICES ASSUME pc[c] = "unset", o = loc[c].it
                     PROVE  FALSE
        OBVIOUS
      <4>2. loc[c].user \in User /\ c \in Busy
        BY <1>1, <4>1 DEF Settling, Types, Phase, Leaving, Locals, Busy, Idle
      <4>3. Refers(o, loc[c].user) /\ Refers(o, u)
        BY <2>1, <3>2, <4>1 DEF Refers
      <4>4. loc[c].user = u
        BY <1>1, <4>2, <4>3 DEF OneUser
      <4>5. QED
        BY <1>4, <2>1, <2>2, <4>2, <4>4 DEF Settling, Separate
    <3>5. QED
      BY <3>2, <3>3, <3>4, RoomIdsChange DEF Settling
  <2>6. ASSUME e \in sessions', userId'[e] # None,
               pc'[e] \notin Joining \cup {"erase"}
        PROVE  objUserMap'[1][userId'[e]] # None
    <3>1. /\ e \in sessions /\ userId'[e] = userId[e]
          /\ Player(userId[e]) # None
      BY <1>1, <2>6 DEF Untouched, Knows
    <3>2. PICK v \in User : v = userId[e]
      BY <1>1, <2>6, <3>1
    <3>3. Player(v)' # None
      BY <3>1, <3>2, OwnSession
    <3>4. QED
      BY <3>1, <3>2, <3>3 DEF Player
  <2>7. QED
    BY <1>1, <2>4, <2>5, <2>6 DEF Untouched, Knows, Player
<1>5. QED
  BY <1>2, <1>3, <1>4

\* What a handler finds out it knows: the login that has found no player of
\* its user, and the disconnect that has found its own.
LEMMA KnowsOfHandler ==
  ASSUME Settling, Types', NEW c \in Conn, Handles(c)
  PROVE  Knows(c)'
<1>1. /\ loc \in [Conn -> Locals] /\ pc \in [Conn -> Pc] /\ c \in Conn
      /\ userId \in [Conn -> User \cup {None}] /\ loc[c] \in Locals
      /\ sessions \subseteq Conn /\ None \notin Obj \cup User
      /\ objUserMap \in [RoomId -> [User -> Obj \cup {None}]] /\ 1 \in RoomId
      /\ objRoom \in [Obj -> RoomId \cup {0}]
  BY FirstKey, ObjNoneAssumption DEF Settling, Types, TypeOK
<1>2. Phase(c) /\ Knows(c) /\ InOnlyRoom(c)
  BY DEF Settling, Types, Single, Orderly
<1>3. ASSUME AcceptClient(c)
      PROVE  Knows(c)'
  BY <1>1, <1>2, <1>3
     DEF Knows, Player, Phase, Deciding, Joining, Telling, Leaving, Gone,
         AcceptClient, Goto, Return, Returned, Locals, sharedVars, poolVars,
         roomVars
<1>4. ASSUME CreateSession(c)
      PROVE  Knows(c)'
  BY <1>1, <1>2, <1>4
     DEF Knows, Player, Phase, Deciding, Joining, Telling, Leaving, Gone,
         CreateSession, Goto, Return, Returned, Locals, sharedVars, poolVars,
         roomVars
<1>5. ASSUME NEW u \in User, ReqLogin(c, u)
      PROVE  Knows(c)'
  BY <1>1, <1>2, <1>5
     DEF Knows, Player, Phase, Deciding, Joining, Telling, Leaving, Gone,
         ReqLogin, Goto, Return, Returned, Locals, sharedVars, poolVars,
         roomVars
<1>6. ASSUME CheckDuplicate(c)
      PROVE  Knows(c)'
  <2>1. PICK u \in User : u = loc[c].user
    BY <1>1, <1>2, <1>6 DEF CheckDuplicate, Phase, Deciding, Locals
  <2>2. GetObjUser(loc[c].user) = Player(loc[c].user)
    BY <2>1, InFront DEF Settling, Types, Single
  <2>3. CASE Player(loc[c].user) = None
    <3>1. pc'[c] = "db" /\ UNCHANGED <<loc, sharedVars>> /\ pc[c] = "check"
      BY <1>1, <1>6, <2>2, <2>3 DEF CheckDuplicate, Goto
    <3>2. QED
      BY <1>2, <2>3, <3>1
         DEF Knows, Joining, Telling, Player, sharedVars, poolVars, roomVars
  <2>4. CASE Player(loc[c].user) # None
    <3>1. pc'[c] = "idle" /\ UNCHANGED sharedVars /\ pc[c] = "check"
      BY <1>1, <1>6, <2>2, <2>4 DEF CheckDuplicate, Return, Goto
    <3>2. QED
      BY <1>2, <3>1
         DEF Knows, Joining, Telling, Player, sharedVars, poolVars, roomVars
  <2>5. QED
    BY <2>3, <2>4
<1>7. ASSUME LoginUser(c)
      PROVE  Knows(c)'
  BY <1>1, <1>2, <1>7
     DEF Knows, Player, Phase, Deciding, Joining, Telling, Leaving, Gone,
         LoginUser, Goto, Return, Returned, Locals, sharedVars, poolVars,
         roomVars
<1>8. ASSUME LoginUserFails(c)
      PROVE  Knows(c)'
  BY <1>1, <1>2, <1>8
     DEF Knows, Player, Phase, Deciding, Joining, Telling, Leaving, Gone,
         LoginUserFails, Goto, Return, Returned, Locals, sharedVars, poolVars,
         roomVars
<1>9. ASSUME SetUserId(c)
      PROVE  Knows(c)'
  BY <1>1, <1>2, <1>9
     DEF Knows, Player, Phase, Deciding, Joining, Telling, Leaving, Gone,
         SetUserId, Goto, Return, Returned, Locals, sharedVars, poolVars,
         roomVars
<1>10. ASSUME PickRoom(c)
      PROVE  Knows(c)'
  BY <1>1, <1>2, <1>10
     DEF Knows, Player, Phase, Deciding, Joining, Telling, Leaving, Gone,
         PickRoom, Goto, Return, Returned, Locals, sharedVars, poolVars,
         roomVars
<1>11. ASSUME LoadLastRoomId(c)
      PROVE  Knows(c)'
  BY <1>1, <1>2, <1>11
     DEF Knows, Player, Phase, Deciding, Joining, Telling, Leaving, Gone,
         LoadLastRoomId, Goto, Return, Returned, Locals, sharedVars, poolVars,
         roomVars
<1>12. ASSUME StoreLastRoomId(c)
      PROVE  Knows(c)'
  BY <1>1, <1>2, <1>12
     DEF Knows, Player, Phase, Deciding, Joining, Telling, Leaving, Gone,
         StoreLastRoomId, Goto, Return, Returned, Locals, sharedVars,
         poolVars, roomVars
<1>13. ASSUME NewGameRoom(c)
      PROVE  Knows(c)'
  BY <1>1, <1>2, <1>13
     DEF Knows, Player, Phase, Deciding, Joining, Telling, Leaving, Gone,
         NewGameRoom, Goto, Return, Returned, Locals, sharedVars, poolVars,
         roomVars
<1>14. ASSUME InsertGameRoom(c)
      PROVE  Knows(c)'
  BY <1>1, <1>2, <1>14
     DEF Knows, Player, Phase, Deciding, Joining, Telling, Leaving, Gone,
         InsertGameRoom, Goto, Return, Returned, Locals, sharedVars, poolVars,
         roomVars
<1>15. ASSUME ReadLastRoomId(c)
      PROVE  Knows(c)'
  BY <1>1, <1>2, <1>15
     DEF Knows, Player, Phase, Deciding, Joining, Telling, Leaving, Gone,
         ReadLastRoomId, Goto, Return, Returned, Locals, sharedVars, poolVars,
         roomVars
<1>16. ASSUME AddObjUser(c)
      PROVE  Knows(c)'
  <2>1. loc[c].room = 1 /\ roomMap[1] = 1 /\ Player(loc[c].user) = None
    BY <1>2, <1>16 DEF AddObjUser, InOnlyRoom, Knows, Joining
  <2>2. /\ pc[c] = "add" /\ pc'[c] = "addInsert"
        /\ UNCHANGED <<loc, sharedVars>>
    BY <1>1, <1>16, <2>1 DEF AddObjUser, Goto, Rooms, Player
  <2>3. QED
    BY <1>2, <2>1, <2>2
       DEF Knows, Joining, Telling, Player, sharedVars, poolVars, roomVars
<1>17. ASSUME AddInsert(c)
      PROVE  Knows(c)'
  <2>1. /\ loc[c].user \in User /\ loc[c].obj \in Obj /\ loc[c].room = 1
        /\ Player(loc[c].user) = None /\ userId[c] = loc[c].user
    BY <1>1, <1>2, <1>17
       DEF AddInsert, Phase, Joining, Locals, Knows, InOnlyRoom
  <2>2. /\ pc'[c] = "snapshot" /\ UNCHANGED <<loc, poolVars>>
        /\ objUserMap'[1][loc[c].user] = loc[c].obj
    BY <1>1, <1>17, <2>1 DEF AddInsert, Goto, Player
  <2>3. QED
    BY <1>1, <2>1, <2>2 DEF Knows, Joining, Telling, Player, poolVars
<1>18. ASSUME CreateResLogin(c)
      PROVE  Knows(c)'
  <2>1. /\ pc[c] = "snapshot" /\ pc'[c] \in {"snapshot", "enter"}
        /\ loc'[c].user = loc[c].user /\ loc'[c].obj = loc[c].obj
        /\ UNCHANGED <<poolVars, roomVars>>
    BY <1>1, <1>18 DEF CreateResLogin, Goto, Locals
  <2>2. QED
    BY <1>2, <2>1
       DEF Knows, Joining, Telling, Player, poolVars, roomVars
<1>19. ASSUME CopyForEnter(c)
      PROVE  Knows(c)'
  BY <1>1, <1>2, <1>19
     DEF Knows, Player, Phase, Deciding, Joining, Telling, Leaving, Gone,
         CopyForEnter, Goto, Return, Returned, Locals, sharedVars, poolVars,
         roomVars
<1>20. ASSUME NEW d \in Conn, SendEnter(c, d)
      PROVE  Knows(c)'
  BY <1>1, <1>2, <1>20
     DEF Knows, Player, Phase, Deciding, Joining, Telling, Leaving, Gone,
         SendEnter, Goto, Return, Returned, Sent, Locals, sharedVars,
         poolVars, roomVars
<1>21. ASSUME NEW d \in Conn, SendEnterDangling(c, d)
      PROVE  Knows(c)'
  BY <1>1, <1>2, <1>21
     DEF Knows, Player, Phase, Deciding, Joining, Telling, Leaving, Gone,
         SendEnterDangling, Goto, Return, Returned, Sent, Locals, sharedVars,
         poolVars, roomVars
<1>22. ASSUME SendEnterDone(c)
      PROVE  Knows(c)'
  BY <1>1, <1>2, <1>22
     DEF Knows, Player, Phase, Deciding, Joining, Telling, Leaving, Gone,
         SendEnterDone, Goto, Return, Returned, Locals, sharedVars, poolVars,
         roomVars
<1>23. ASSUME SendResLogin(c)
      PROVE  Knows(c)'
  BY <1>1, <1>2, <1>23
     DEF Knows, Player, Phase, Deciding, Joining, Telling, Leaving, Gone,
         SendResLogin, Goto, Return, Returned, Locals, sharedVars, poolVars,
         roomVars
<1>24. ASSUME Disconnect(c)
      PROVE  Knows(c)'
  BY <1>1, <1>2, <1>24
     DEF Knows, Player, Phase, Deciding, Joining, Telling, Leaving, Gone,
         Disconnect, Goto, Return, Returned, Locals, sharedVars, poolVars,
         roomVars
<1>25. ASSUME LookupObjUser(c)
      PROVE  Knows(c)'
  <2>1. PICK u \in User : u = loc[c].user
    BY <1>1, <1>2, <1>25 DEF LookupObjUser, Phase, Leaving, Locals
  <2>2. GetObjUser(loc[c].user) = Player(loc[c].user)
    BY <2>1, InFront DEF Settling, Types, Single
  <2>3. /\ pc[c] = "lookup" /\ Player(u) # None /\ Player(u) \in Obj
        /\ userId[c] = u
    BY <1>1, <1>2, <1>25, <2>1 DEF LookupObjUser, Knows, Player, Phase, Leaving
  <2>4. /\ pc'[c] = "leave" /\ loc'[c].obj = Player(u) /\ loc'[c].user = u
        /\ UNCHANGED <<poolVars, roomVars>>
    BY <1>1, <1>25, <2>1, <2>2, <2>3 DEF LookupObjUser, Goto, Locals
  <2>5. objRoom[Player(u)] = 1
    <3>1. SUFFICES ASSUME objRoom[Player(u)] = 0
                   PROVE  FALSE
      BY <2>3 DEF Settling, Single, OnlyRoom
    <3>2. PICK e \in Conn : Keeper(e, u) /\ pc[e] = "unlist"
      BY <2>3, <3>1 DEF Settling, Unsetting
    <3>3. Phase(e)
      BY DEF Settling, Types
    <3>4. loc[e].user = u /\ e \in Busy /\ c \in Busy /\ e # c
      BY <2>3, <3>2, <3>3 DEF Phase, Leaving, Keeper, Busy, Idle
    <3>5. QED
      BY <1>1, <2>1, <3>4 DEF Settling, Separate
  <2>6. QED
    BY <2>3, <2>4, <2>5
       DEF Knows, Joining, Telling, Player, poolVars, roomVars
<1>26. ASSUME LeaveRoom(c)
      PROVE  Knows(c)'
  <2>1. /\ loc[c].user \in User /\ pc[c] = "leave"
        /\ Player(loc[c].user) = loc[c].obj /\ objRoom[loc[c].obj] = 1
        /\ loc[c].obj # None /\ userId[c] = loc[c].user
    BY <1>1, <1>2, <1>26 DEF LeaveRoom, Phase, Leaving, Locals, Knows
  <2>2. 1 \in Rooms /\ objUserMap[1][loc[c].user] = loc[c].obj
    BY <1>1, <2>1 DEF Player, Settling, Single, OnlyRoom, Rooms
  <2>3. /\ pc'[c] = "unset" /\ loc'[c].it = loc[c].obj
        /\ loc'[c].user = loc[c].user /\ UNCHANGED sharedVars
    BY <1>1, <1>26, <2>1, <2>2 DEF LeaveRoom, Goto, Locals
  <2>4. QED
    BY <2>1, <2>3
       DEF Knows, Joining, Telling, Player, sharedVars, poolVars, roomVars
<1>27. ASSUME UnsetRoomId(c)
      PROVE  Knows(c)'
  BY <1>1, <1>2, <1>27
     DEF Knows, Player, Phase, Deciding, Joining, Telling, Leaving, Gone,
         UnsetRoomId, Goto, Return, Returned, Locals, sharedVars, poolVars,
         roomVars
<1>28. ASSUME Unlist(c)
      PROVE  Knows(c)'
  <2>1. /\ loc[c].user \in User /\ loc[c].room = 1 /\ pc[c] = "unlist"
        /\ Player(loc[c].user) = loc[c].it
    BY <1>1, <1>2, <1>28 DEF Unlist, Phase, Leaving, Locals, Knows, InOnlyRoom
  <2>2. objUserMap[1][loc[c].user] = loc[c].it
    BY <2>1 DEF Player
  <2>3. /\ pc'[c] = "erase" /\ loc'[c].user = loc[c].user
        /\ objUserMap'[1][loc[c].user] = None
    BY <1>1, <1>28, <2>1, <2>2 DEF Unlist, Goto, Locals
  <2>4. QED
    BY <2>3 DEF Knows, Joining, Telling, Player
<1>29. ASSUME EraseSession(c)
      PROVE  Knows(c)'
  <2>1. loc'[c].user = loc[c].user
    BY <1>1, <1>29 DEF EraseSession, Locals
  <2>2. /\ c \notin sessions' /\ UNCHANGED objUserMap /\ pc[c] = "erase"
        /\ pc'[c] \in {"close", "exit"}
    BY <1>1, <1>29 DEF EraseSession, Goto, roomVars
  <2>3. QED
    BY <1>2, <2>1, <2>2 DEF Knows, Joining, Telling, Player
<1>30. ASSUME CopyForExit(c)
      PROVE  Knows(c)'
  BY <1>1, <1>2, <1>30
     DEF Knows, Player, Phase, Deciding, Joining, Telling, Leaving, Gone,
         CopyForExit, Goto, Return, Returned, Locals, sharedVars, poolVars,
         roomVars
<1>31. ASSUME NEW d \in Conn, SendExit(c, d)
      PROVE  Knows(c)'
  BY <1>1, <1>2, <1>31
     DEF Knows, Player, Phase, Deciding, Joining, Telling, Leaving, Gone,
         SendExit, Goto, Return, Returned, Sent, Locals, sharedVars, poolVars,
         roomVars
<1>32. ASSUME SendExitDone(c)
      PROVE  Knows(c)'
  BY <1>1, <1>2, <1>32
     DEF Knows, Player, Phase, Deciding, Joining, Telling, Leaving, Gone,
         SendExitDone, Goto, Return, Returned, Locals, sharedVars, poolVars,
         roomVars
<1>33. ASSUME CloseSocket(c)
      PROVE  Knows(c)'
  BY <1>1, <1>2, <1>33
     DEF Knows, Player, Phase, Deciding, Joining, Telling, Leaving, Gone,
         CloseSocket, Goto, Return, Returned, Locals, sharedVars, poolVars,
         roomVars
<1>34. QED
  BY <1>3, <1>4, <1>5, <1>6, <1>7, <1>8, <1>9, <1>10, <1>11, <1>12, <1>13,
     <1>14, <1>15, <1>16, <1>17, <1>18, <1>19, <1>20, <1>21, <1>22, <1>23,
     <1>24, <1>25, <1>26, <1>27, <1>28, <1>29, <1>30, <1>31, <1>32, <1>33
     DEF Handles, Login, DeleteSession
-----------------------------------------------------------------------------
(* Who has been told of whom. *)

\* v has a player that has not died.
Lives(v) == Player(v) \notin died \cup {None}

\* A client with a player has been told of the player of v, or will be: by its
\* own ResLogin, or by the broadcast of the login of v.
Informed(c, v) ==
  \/ v \in told[c]
  \/ pc[c] = "snapshot"
  \/ pc[c] \in {"enter", "sendEnter", "reply"} /\ v \in loc[c].seen
  \/ \E d \in Conn \ {c} :
       /\ loc[d].user = v
       /\ \/ pc[d] \in {"snapshot", "enter"}
          \/ pc[d] = "sendEnter" /\ c \in loc[d].targets \ loc[d].dangling

Playing(c) == c \in sessions /\ userId[c] # None /\ Player(userId[c]) # None

Telltale ==
  \A c \in Conn, v \in User : Playing(c) /\ Lives(v) => Informed(c, v)

\* A user is given to a session by a login that has found no player of it, and
\* no other session that has it waits for its own player.
LEMMA NoDuplicateStep ==
  ASSUME Settling, NEW c \in Conn, Handles(c)
  PROVE  NoDuplicateLogin'
<1>1. /\ userId \in [Conn -> User \cup {None}] /\ sessions \subseteq Conn
      /\ pc \in [Conn -> Pc] /\ loc[c] \in Locals /\ Phase(c) /\ Knows(c)
      /\ NoDuplicateLogin
  BY DEF Settling, Types, TypeOK, Orderly
<1>2. CASE SetUserId(c)
  <2>1. /\ userId' = [userId EXCEPT ![c] = loc[c].user] /\ sessions' = sessions
        /\ loc[c].user \in User /\ Player(loc[c].user) = None /\ c \in Busy
    BY <1>1, <1>2
       DEF SetUserId, Phase, Deciding, Locals, Knows, Joining, Busy, Idle
  <2>2. ASSUME NEW d \in sessions \ {c}
        PROVE  userId[d] # loc[c].user
    <3>1. SUFFICES ASSUME userId[d] = loc[c].user
                   PROVE  FALSE
      OBVIOUS
    <3>2. Knows(d) /\ Phase(d) /\ d \in Conn
      BY <1>1 DEF Settling, Types, Orderly
    <3>3. pc[d] \in Joining \cup {"erase"} /\ loc[c].user # None
      BY <2>1, <3>1, <3>2, ObjNoneAssumption DEF Knows
    <3>4. d \in Busy /\ loc[d].user = userId[d]
      BY <3>2, <3>3 DEF Phase, Busy, Idle, Joining
    <3>5. QED
      BY <2>1, <3>1, <3>3, <3>4 DEF Settling, Separate
  <2>3. QED
    BY <1>1, <2>1, <2>2 DEF NoDuplicateLogin
<1>3. CASE ~SetUserId(c)
  <2>1. \A d \in sessions' :
          userId'[d] # None => d \in sessions /\ userId'[d] = userId[d]
    <3>1. CASE CreateSession(c) \/ EraseSession(c)
      BY <1>1, <3>1 DEF CreateSession, EraseSession
    <3>2. CASE ~CreateSession(c) /\ ~EraseSession(c)
      <4>1. UNCHANGED poolVars
        BY <1>3, <3>2
           DEF Handles, Login, DeleteSession, AcceptClient, ReqLogin,
               CheckDuplicate, LoginUser, LoginUserFails, PickRoom,
               LoadLastRoomId, StoreLastRoomId, NewGameRoom, InsertGameRoom,
               ReadLastRoomId, AddObjUser, AddInsert, CreateResLogin,
               CopyForEnter, SendEnter, SendEnterDangling, SendEnterDone,
               SendResLogin, Disconnect, LookupObjUser, LeaveRoom,
               UnsetRoomId, Unlist, CopyForExit, SendExit, SendExitDone,
               CloseSocket, sharedVars
      <4>2. QED
        BY <4>1 DEF poolVars
    <3>3. QED
      BY <3>1, <3>2
  <2>2. QED
    BY <1>1, <2>1 DEF NoDuplicateLogin
<1>4. QED
  BY <1>2, <1>3

\* Neither lookup that is taken for granted can fail.
LEMMA NeverNull ==
  ASSUME Settling, NEW c \in Conn, Handles(c)
  PROVE  status' # "crashed"
<1>1. /\ Phase(c) /\ Knows(c) /\ InOnlyRoom(c) /\ loc[c] \in Locals
      /\ status # "crashed" /\ 1 \in RoomId
  BY FirstKey DEF Settling, Types, TypeOK, Single, Orderly
<1>2. CASE LookupObjUser(c)
  <2>1. PICK u \in User : u = loc[c].user
    BY <1>1, <1>2 DEF LookupObjUser, Phase, Leaving, Locals
  <2>2. GetObjUser(u) # None
    BY <1>1, <1>2, <2>1, InFront
       DEF LookupObjUser, Knows, Settling, Single, Types
  <2>3. QED
    BY <1>1, <1>2, <2>1, <2>2 DEF LookupObjUser
<1>3. CASE CreateResLogin(c)
  <2>1. roomMap[1] = 1
    BY <1>1, <1>3 DEF CreateResLogin, InOnlyRoom
  <2>2. 1 \in Rooms
    BY <1>1, <2>1 DEF Rooms
  <2>3. Begin = 1
    BY <2>2, InFront DEF Settling, Types, Single
  <2>4. QED
    BY <1>1, <1>3, <2>1, <2>2, <2>3 DEF CreateResLogin
<1>4. CASE ~LookupObjUser(c) /\ ~CreateResLogin(c)
  BY <1>1, <1>4
     DEF Handles, Login, DeleteSession, AcceptClient, CreateSession, ReqLogin,
         CheckDuplicate, LoginUser, LoginUserFails, SetUserId, PickRoom,
         LoadLastRoomId, StoreLastRoomId, NewGameRoom, InsertGameRoom,
         ReadLastRoomId, AddObjUser, AddInsert, CopyForEnter, SendEnter,
         SendEnterDangling, SendEnterDone, SendResLogin, Disconnect,
         LeaveRoom, UnsetRoomId, Unlist, EraseSession, CopyForExit, SendExit,
         SendExitDone, CloseSocket, sharedVars
<1>5. QED
  BY <1>2, <1>3, <1>4

\* The steps of regular runs keep what every handler knows of its user.
LEMMA OrderlyStep ==
  ASSUME Settling, Types', NEW c \in Conn, Handles(c)
  PROVE  Orderly'
<1>1. \A e \in Conn : Knows(e)'
  BY KnowsOfOthers, KnowsOfHandler
<1>2. QED
  BY <1>1, NeverNull, NoDuplicateStep DEF Orderly

OwnUsers == ~contended => Separate
Disciplined == Regular => Orderly

\* At the start nobody is busy and no session has a user.
LEMMA DisciplinedInit ==
  ASSUME Init
  PROVE  OwnUsers /\ Disciplined
<1>1. /\ \A c \in Conn : pc[c] = "closed" /\ loc[c].user = None
      /\ sessions = {} /\ status = "running"
  BY DEF Init, Returned
<1>2. Busy = {}
  BY <1>1 DEF Busy, Idle
<1>3. Separate
  BY <1>2 DEF Separate
<1>4. Orderly
  BY <1>1 DEF Orderly, Knows, Joining, Telling, NoDuplicateLogin
<1>5. QED
  BY <1>3, <1>4 DEF OwnUsers, Disciplined

\* The history variable contended tells whether handlers share a user.
LEMMA OwnUsersStep ==
  ASSUME OwnUsers, [Next]_vars
  PROVE  OwnUsers'
<1>1. CASE Running /\ History
  <2>1. SUFFICES ASSUME ~contended'
                 PROVE  Separate'
    BY DEF OwnUsers
  <2>2. ~(\E c, d \in Busy' : /\ c # d
                              /\ loc'[c].user = loc'[d].user
                              /\ loc'[c].user # None)
    BY <1>1, <2>1, Zenon DEF History
  <2>3. QED
    BY <2>2 DEF Separate
<1>2. CASE UNCHANGED vars
  BY <1>2 DEF OwnUsers, Separate, Busy, Idle, vars, sharedVars, historyVars
<1>3. QED
  BY <1>1, <1>2 DEF Next, Halted

\* Every step keeps the handlers orderly as long as the run is regular.
LEMMA DisciplinedStep ==
  ASSUME Types, Types', FirstRoom, OwnUsers, Disciplined, [Next]_vars
  PROVE  Disciplined'
<1>1. CASE status = "running" /\ Running /\ History
  <2>1. SUFFICES ASSUME Regular'
                 PROVE  Orderly'
    BY DEF Disciplined
  <2>2. ~contended /\ ~manyRooms
    BY <1>1, <2>1, Zenon DEF Regular, OneRoom, History
  <2>3. Settling
    BY <2>2 DEF Settling, FirstRoom, OwnUsers, Disciplined, Regular, OneRoom
  <2>4. CASE Unmoved
    <3>1. /\ UNCHANGED <<sessions, userId, objUserMap, objRoom, pc, loc>>
          /\ status' \in {status, "undefined"}
      BY <2>4 DEF Unmoved
    <3>2. QED
      BY <2>3, <3>1 DEF Settling, Orderly, Knows, Player, NoDuplicateLogin
  <2>5. CASE \E c \in Conn : Handles(c)
    BY <2>3, <2>5, OrderlyStep
  <2>6. QED
    BY <1>1, <2>4, <2>5, SomeHandlerMoves
<1>2. CASE UNCHANGED vars
  <2>1. UNCHANGED <<status, sessions, userId, objUserMap, objRoom, pc, loc,
                    contended, manyRooms>>
    BY <1>2 DEF vars, sharedVars, poolVars, roomVars, historyVars
  <2>2. QED
    BY <2>1 DEF Disciplined, Regular, OneRoom, Orderly, Knows, Player,
       NoDuplicateLogin
<1>3. QED
  BY <1>1, <1>2 DEF Next, Halted

\* The inductive invariant: the typing facts, and what holds as long as the
\* run has one room, shares no user between handlers, or both.
IInv == Types /\ FirstRoom /\ OwnUsers /\ Disciplined

\* It holds at the start, and no step of the handlers or the races breaks it.
LEMMA Inductive ==
  /\ Init => IInv
  /\ IInv /\ [Next]_vars => IInv'
  BY TypesInit, FirstRoomInit, DisciplinedInit, TypesStep, FirstRoomStep,
     OwnUsersStep, DisciplinedStep DEF IInv

\* DeleteSession finds the player its session names, and CreateResLogin finds
\* the first room: in regular runs no handler dereferences null.
THEOREM NeverCrashes == Spec => []NoCrash
<1>1. IInv => NoCrash
  BY DEF IInv, Disciplined, Orderly, NoCrash
<1>2. QED
  BY <1>1, Inductive, PTL DEF Spec

\* In regular runs the player of a client that has logged in stays in its room
\* until the client's own disconnect takes it out.
THEOREM SessionsPlay == Spec => []SessionsArePlayers
<1>1. ASSUME IInv
      PROVE  SessionsArePlayers
  <2>1. SUFFICES ASSUME Quiet, Regular, NEW c \in sessions, userId[c] # None
                 PROVE  userId[c] \in Players
    BY DEF SessionsArePlayers, SessionUsers
  <2>2. /\ Knows(c) /\ c \in Conn /\ userId[c] \in User /\ Settled(c)
        /\ OnlyRoom /\ TypeOK
    BY <1>1, <2>1
       DEF IInv, Types, TypeOK, Disciplined, Orderly, FirstRoom, Single,
           Regular, OneRoom, Quiet
  <2>3. Player(userId[c]) # None
    BY <2>1, <2>2 DEF Knows, Settled, Joining
  <2>4. QED
    BY <2>2, <2>3, InFront DEF Players
<1>2. QED
  BY <1>1, Inductive, PTL DEF Spec

\* With one worker no two handlers are busy.
OneHandler == \A c, d \in Busy : c = d

\* A handler starts on a free worker only.
LEMMA SoleHandler ==
  ASSUME NumWorkers = 1
  PROVE  (Types => OneHandler) /\ (Types' => OneHandler')
<1>1. ASSUME NEW S \in SUBSET Conn, Cardinality(S) <= 1
      PROVE  \A c, d \in S : c = d
  <2>1. IsFiniteSet(S) /\ Cardinality(S) \in Nat
    BY ConnAssumption, FS_Subset, FS_CardinalityType
  <2>2. Cardinality(S) = 0 \/ Cardinality(S) = 1
    BY <1>1, <2>1
  <2>3. S = {} \/ \E x : S = {x}
    BY <2>1, <2>2, FS_EmptySet, FS_Singleton
  <2>4. QED
    BY <2>3
<1>2. Busy \in SUBSET Conn /\ Busy' \in SUBSET Conn
  BY DEF Busy
<1>3. QED
  BY <1>1, <1>2 DEF Types, Counted, OneHandler

\* With one worker every run is regular: one handler at a time is busy, and
\* the one that finds no room creates the only one.
LEMMA SerialIsRegular ==
  ASSUME NumWorkers = 1
  PROVE  /\ Init => Regular
         /\ Types' /\ Regular /\ [Next]_vars => Regular'
<1>1. Init => Regular
  BY DEF Init, Regular, OneRoom
<1>2. ASSUME Types', Regular, [Next]_vars
      PROVE  Regular'
  <2>1. CASE UNCHANGED vars
    BY <1>2, <2>1 DEF Regular, OneRoom, vars, historyVars
  <2>2. CASE History
    <3>1. ~(LAST_ROOM_ID' > 1)
      BY <1>2 DEF Types, TypeOK, RoomId
    <3>2. OneHandler'
      BY <1>2, SoleHandler
    <3>3. QED
      BY <1>2, <2>2, <3>1, <3>2, Zenon
         DEF History, Regular, OneRoom, OneHandler
  <2>3. QED
    BY <1>2, <2>1, <2>2 DEF Next, Halted
<1>3. QED
  BY <1>1, <1>2

\* With one worker two sessions never carry the same user id; with more, they
\* do not in regular runs.
THEOREM OneSessionPerUser ==
  /\ Spec => [](Regular => NoDuplicateLogin)
  /\ NumWorkers = 1 => (Spec => []NoDuplicateLogin)
<1>1. IInv => (Regular => NoDuplicateLogin)
  BY DEF IInv, Disciplined, Orderly
<1>2. Spec => [](Regular => NoDuplicateLogin)
  BY <1>1, Inductive, PTL DEF Spec
<1>3. ASSUME NumWorkers = 1
      PROVE  Spec => []NoDuplicateLogin
  <2>1. Init => IInv /\ Regular
    BY <1>3, Inductive, SerialIsRegular
  <2>2. IInv /\ Regular /\ [Next]_vars => (IInv /\ Regular)'
    BY <1>3, Inductive, SerialIsRegular DEF IInv
  <2>3. QED
    BY <1>1, <2>1, <2>2, PTL DEF Spec
<1>4. QED
  BY <1>2, <1>3

\* Who plays after a step played before, as the same user, or has just come in.
LEMMA PlayingChange ==
  ASSUME Settling, Orderly', NEW c \in Conn, Handles(c), NEW e \in Conn,
         Playing(e)'
  PROVE  \/ Playing(e) /\ userId'[e] = userId[e]
         \/ e = c /\ pc[c] = "addInsert" /\ pc'[c] = "snapshot"
<1>1. /\ userId \in [Conn -> User \cup {None}] /\ sessions \subseteq Conn
      /\ pc \in [Conn -> Pc] /\ Phase(c) /\ loc[c] \in Locals
      /\ None \notin User /\ Knows(c) /\ c \in Conn
  BY ObjNoneAssumption DEF Settling, Types, TypeOK, Orderly
<1>2. e \in sessions' /\ userId'[e] # None /\ objUserMap'[1][userId'[e]] # None
  BY DEF Playing, Player
<1>3. CASE e \in sessions /\ userId'[e] = userId[e]
  <2>1. PICK u \in User : u = userId[e]
    BY <1>1, <1>2, <1>3
  <2>2. Player(u)' # None
    BY <1>2, <1>3, <2>1 DEF Player
  <2>3. CASE Player(u) # None
    BY <1>2, <1>3, <2>1, <2>3 DEF Playing
  <2>4. CASE Player(u) = None
    <3>1. pc[c] = "addInsert" /\ pc'[c] = "snapshot" /\ u = loc[c].user
      BY <2>2, <2>4, PlayersChange DEF Settling
    <3>2. c \in sessions /\ userId[c] = u
      BY <1>1, <3>1 DEF Phase, Gone, Joining
    <3>3. c = e
      BY <1>1, <1>3, <2>1, <3>2 DEF Settling, Orderly, NoDuplicateLogin
    <3>4. QED
      BY <3>1, <3>3
  <2>5. QED
    BY <2>3, <2>4
<1>4. CASE ~(e \in sessions /\ userId'[e] = userId[e])
  <2>1. CASE SetUserId(c)
    <3>1. e = c /\ userId'[c] = loc[c].user /\ objUserMap' = objUserMap
      BY <1>1, <1>2, <1>4, <2>1 DEF SetUserId, roomVars
    <3>2. Player(loc[c].user) = None
      BY <1>1, <2>1 DEF SetUserId, Knows
    <3>3. QED
      BY <1>2, <3>1, <3>2 DEF Player
  <2>2. CASE CreateSession(c) \/ EraseSession(c)
    BY <1>1, <1>2, <1>4, <2>2 DEF CreateSession, EraseSession
  <2>3. CASE ~SetUserId(c) /\ ~CreateSession(c) /\ ~EraseSession(c)
    <3>1. UNCHANGED poolVars
      BY <2>3
         DEF Handles, Login, DeleteSession, AcceptClient, ReqLogin,
             CheckDuplicate, LoginUser, LoginUserFails, PickRoom,
             LoadLastRoomId, StoreLastRoomId, NewGameRoom, InsertGameRoom,
             ReadLastRoomId, AddObjUser, AddInsert, CreateResLogin,
             CopyForEnter, SendEnter, SendEnterDangling, SendEnterDone,
             SendResLogin, Disconnect, LookupObjUser, LeaveRoom, UnsetRoomId,
             Unlist, CopyForExit, SendExit, SendExitDone, CloseSocket,
             sharedVars
    <3>2. QED
      BY <1>2, <1>4, <3>1 DEF poolVars
  <2>4. QED
    BY <2>1, <2>2, <2>3
<1>5. QED
  BY <1>3, <1>4

\* A client that has been told of a player is told that it is gone by the
\* player's own disconnect only, or loses its own session.
LEMMA ToldStays ==
  ASSUME Settling, NEW a \in Conn, Handles(a), NEW c \in sessions,
         NEW v \in told[c], v \in User, Player(v) # None
  PROVE  v \in told'[c]
<1>1. /\ told \in [Conn -> SUBSET User] /\ sessions \subseteq Conn
      /\ Phase(a) /\ Phase(c) /\ Knows(a) /\ loc[a] \in Locals
  BY DEF Settling, Types, TypeOK, Orderly
<1>2. ASSUME NEW e \in Conn, SendEnter(a, e)
      PROVE  v \in told'[c]
  BY <1>1, <1>2 DEF SendEnter
<1>3. ASSUME NEW e \in Conn, SendExit(a, e)
      PROVE  v \in told'[c]
  <2>1. loc[a].user # v
    BY <1>1, <1>3 DEF SendExit, Phase, Knows
  <2>2. QED
    BY <1>1, <1>3, <2>1 DEF SendExit
<1>4. CASE SendResLogin(a)
  BY <1>1, <1>4 DEF SendResLogin
<1>5. CASE CloseSocket(a)
  <2>1. a # c
    BY <1>1, <1>5 DEF CloseSocket, Phase, Gone
  <2>2. QED
    BY <1>1, <1>5, <2>1 DEF CloseSocket
<1>6. CASE ~(\/ \E e \in Conn : SendEnter(a, e) \/ SendExit(a, e)
             \/ SendResLogin(a) \/ CloseSocket(a))
  <2>1. told' = told
    BY <1>6
       DEF Handles, Login, DeleteSession, AcceptClient, CreateSession,
           ReqLogin, CheckDuplicate, LoginUser, LoginUserFails, SetUserId,
           PickRoom, LoadLastRoomId, StoreLastRoomId, NewGameRoom,
           InsertGameRoom, ReadLastRoomId, AddObjUser, AddInsert,
           CreateResLogin, CopyForEnter, SendEnterDangling, SendEnterDone,
           Disconnect, LookupObjUser, LeaveRoom, UnsetRoomId, Unlist,
           EraseSession, CopyForExit, SendExitDone, sharedVars
  <2>2. QED
    BY <2>1
<1>7. QED
  BY <1>2, <1>3, <1>4, <1>5, <1>6

\* Nobody revives: the isDied that is gone was of an object nobody plays.
LEMMA NobodyRevives ==
  ASSUME Types, NEW a \in Conn, Handles(a), NEW v \in User, Player(v) # None,
         Player(v)' = Player(v), Lives(v)'
  PROVE  Lives(v)
<1>1. 1 \in RoomId /\ Player(v) \notin died'
  BY FirstKey DEF Lives
<1>2. CASE LoginUser(a)
  <2>1. PICK o \in Unreferenced : died' = died \ {o}
    BY <1>2 DEF LoginUser
  <2>2. Player(v) # o
    BY <1>1, <2>1 DEF Unreferenced, Player
  <2>3. QED
    BY <1>1, <2>1, <2>2 DEF Lives
<1>3. CASE CloseSocket(a)
  <2>1. died' = died \ Unreferenced' /\ objUserMap' = objUserMap
    BY <1>3 DEF CloseSocket
  <2>2. Player(v) \notin Unreferenced'
    BY <1>1, <2>1 DEF Unreferenced, Player
  <2>3. QED
    BY <1>1, <2>1, <2>2 DEF Lives
<1>4. CASE ~LoginUser(a) /\ ~CloseSocket(a)
  <2>1. died' = died
    BY <1>4
       DEF Handles, Login, DeleteSession, AcceptClient, CreateSession,
           ReqLogin, CheckDuplicate, LoginUserFails, SetUserId, PickRoom,
           LoadLastRoomId, StoreLastRoomId, NewGameRoom, InsertGameRoom,
           ReadLastRoomId, AddObjUser, AddInsert, CreateResLogin,
           CopyForEnter, SendEnter, SendEnterDangling, SendEnterDone,
           SendResLogin, Disconnect, LookupObjUser, LeaveRoom, UnsetRoomId,
           Unlist, EraseSession, CopyForExit, SendExit, SendExitDone,
           sharedVars, roomVars
  <2>2. QED
    BY <1>1, <2>1 DEF Lives
<1>5. QED
  BY <1>2, <1>3, <1>4

\* A client goes on to be told of another one's player: by its own ResLogin,
\* whose list is made when both play, or by the enter broadcast of the other
\* one, whose list of sessions is made when both have one.
LEMMA InformedStep ==
  ASSUME Settling, NEW a \in Conn, Handles(a), NEW c \in Conn,
         c \in sessions', Playing(c), NEW v \in User, Lives(v),
         Informed(c, v)
  PROVE  Informed(c, v)'
<1>1. /\ told \in [Conn -> SUBSET User] /\ sessions \subseteq Conn
      /\ userId \in [Conn -> User \cup {None}]
      /\ loc \in [Conn -> Locals] /\ pc \in [Conn -> Pc]
      /\ c \in sessions /\ 1 \in RoomId /\ Player(v) # None
  BY FirstKey DEF Settling, Types, TypeOK, Playing, Lives
<1>2. /\ Phase(c) /\ InOnlyRoom(c) /\ pc[c] # "closed"
      /\ status # "crashed"
  BY <1>1 DEF Settling, Types, Single, Phase, Gone, Orderly
<1>3. CASE v \in told[c]
  BY <1>1, <1>3, ToldStays DEF Informed
<1>4. CASE pc[c] = "snapshot"
  <2>1. CASE a # c
    BY <1>4, <2>1, OthersUntouched DEF Settling, Untouched, Informed
  <2>2. CASE a = c
    <3>1. CreateResLogin(c)
      BY <1>4, <2>2
         DEF Handles, Login, DeleteSession, AcceptClient, CreateSession,
             ReqLogin, CheckDuplicate, LoginUser, LoginUserFails, SetUserId,
             PickRoom, LoadLastRoomId, StoreLastRoomId, NewGameRoom,
             InsertGameRoom, ReadLastRoomId, AddObjUser, AddInsert,
             CopyForEnter, SendEnter, SendEnterDangling, SendEnterDone,
             SendResLogin, Disconnect, LookupObjUser, LeaveRoom, UnsetRoomId,
             Unlist, EraseSession, CopyForExit, SendExit, SendExitDone,
             CloseSocket
    <3>2. roomMap[1] = 1 /\ 1 \in Rooms
      BY <1>1, <1>2, <1>4 DEF InOnlyRoom, Rooms
    <3>3. Begin = 1
      BY <3>2, InFront DEF Settling, Types, Single
    <3>4. /\ loc'[c].seen
               = {u \in User : objUserMap[1][u] \notin died \cup {None}}
          /\ pc'[c] = "enter"
      BY <1>1, <3>1, <3>2, <3>3 DEF CreateResLogin, Goto, Locals
    <3>5. v \in loc'[c].seen
      BY <3>4 DEF Player, Lives
    <3>6. QED
      BY <3>4, <3>5 DEF Informed
  <2>3. QED
    BY <2>1, <2>2
<1>5. CASE pc[c] \in {"enter", "sendEnter", "reply"} /\ v \in loc[c].seen
  <2>1. CASE a # c
    BY <1>5, <2>1, OthersUntouched DEF Settling, Untouched, Informed
  <2>2. CASE a = c /\ SendResLogin(c)
    BY <1>1, <1>5, <2>2 DEF SendResLogin, Informed
  <2>3. CASE a = c /\ ~SendResLogin(c)
    <3>1. pc'[c] \in {"sendEnter", "reply"} /\ loc'[c].seen = loc[c].seen
      <4>1. CASE CopyForEnter(c)
        BY <1>1, <4>1 DEF CopyForEnter, Goto, Locals
      <4>2. ASSUME NEW e \in Conn, SendEnter(c, e) \/ SendEnterDangling(c, e)
            PROVE  pc'[c] = "sendEnter" /\ loc'[c].seen = loc[c].seen
        BY <1>1, <4>2 DEF SendEnter, SendEnterDangling, Sent, Locals
      <4>3. CASE SendEnterDone(c)
        BY <1>1, <4>3 DEF SendEnterDone, Goto, Locals
      <4>4. CASE ~(\/ CopyForEnter(c) \/ SendEnterDone(c)
                   \/ \E e \in Conn :
                        SendEnter(c, e) \/ SendEnterDangling(c, e))
        BY <1>5, <2>3, <4>4
           DEF Handles, Login, DeleteSession, AcceptClient, CreateSession,
               ReqLogin, CheckDuplicate, LoginUser, LoginUserFails, SetUserId,
               PickRoom, LoadLastRoomId, StoreLastRoomId, NewGameRoom,
               InsertGameRoom, ReadLastRoomId, AddObjUser, AddInsert,
               CreateResLogin, Disconnect, LookupObjUser, LeaveRoom,
               UnsetRoomId, Unlist, EraseSession, CopyForExit, SendExit,
               SendExitDone, CloseSocket
      <4>5. QED
        BY <4>1, <4>2, <4>3, <4>4
    <3>2. QED
      BY <1>5, <3>1 DEF Informed
  <2>4. QED
    BY <2>1, <2>2, <2>3
<1>6. ASSUME NEW d \in Conn \ {c}, loc[d].user = v,
             pc[d] \in {"snapshot", "enter"}
      PROVE  Informed(c, v)'
  <2>1. Phase(d) /\ InOnlyRoom(d)
    BY DEF Settling, Types, Single
  <2>2. CASE a # d
    BY <1>6, <2>2, OthersUntouched DEF Settling, Untouched, Informed
  <2>3. CASE a = d /\ CreateResLogin(d)
    <3>1. roomMap[1] = 1 /\ 1 \in Rooms
      BY <1>1, <2>1, <2>3 DEF InOnlyRoom, Rooms, CreateResLogin
    <3>2. Begin = 1
      BY <3>1, InFront DEF Settling, Types, Single
    <3>3. pc'[d] = "enter" /\ loc'[d].user = v
      BY <1>1, <1>6, <2>3, <3>1, <3>2 DEF CreateResLogin, Goto, Locals
    <3>4. QED
      BY <1>6, <3>3 DEF Informed
  <2>4. CASE a = d /\ CopyForEnter(d)
    <3>1. loc[d].dangling = {}
      BY <2>1, <2>4 DEF Phase, CopyForEnter
    <3>2. /\ pc'[d] = "sendEnter" /\ loc'[d].dangling = {}
          /\ loc'[d].targets = sessions \ {d} /\ loc'[d].user = v
      BY <1>1, <1>6, <2>4, <3>1 DEF CopyForEnter, Goto, Locals
    <3>3. c \in loc'[d].targets \ loc'[d].dangling
      BY <1>1, <1>6, <3>2
    <3>4. QED
      BY <1>6, <3>2, <3>3 DEF Informed
  <2>5. CASE a = d /\ ~CreateResLogin(d) /\ ~CopyForEnter(d)
    BY <1>6, <2>5
       DEF Handles, Login, DeleteSession, AcceptClient, CreateSession,
           ReqLogin, CheckDuplicate, LoginUser, LoginUserFails, SetUserId,
           PickRoom, LoadLastRoomId, StoreLastRoomId, NewGameRoom,
           InsertGameRoom, ReadLastRoomId, AddObjUser, AddInsert, SendEnter,
           SendEnterDangling, SendEnterDone, SendResLogin, Disconnect,
           LookupObjUser, LeaveRoom, UnsetRoomId, Unlist, EraseSession,
           CopyForExit, SendExit, SendExitDone, CloseSocket
  <2>6. QED
    BY <2>2, <2>3, <2>4, <2>5
<1>7. ASSUME NEW d \in Conn \ {c}, loc[d].user = v, pc[d] = "sendEnter",
             c \in loc[d].targets \ loc[d].dangling
      PROVE  Informed(c, v)'
  <2>1. SUFFICES \/ v \in told'[c]
                 \/ /\ loc'[d].user = v /\ pc'[d] = "sendEnter"
                    /\ c \in loc'[d].targets /\ c \notin loc'[d].dangling
    BY <1>7 DEF Informed
  <2>2. CASE a # d
    <3>1. /\ loc'[d].targets = loc[d].targets /\ pc'[d] = "sendEnter"
          /\ loc'[d].user = v
      BY <1>7, <2>2, OthersUntouched DEF Settling, Untouched
    <3>2. c \notin loc'[d].dangling
      <4>1. CASE EraseSession(a)
        <5>1. c # a
          BY <1>1, <4>1 DEF EraseSession
        <5>2. QED
          BY <1>1, <1>7, <4>1, <5>1 DEF EraseSession, Locals
      <4>2. CASE ~EraseSession(a)
        <5>1. loc'[d] = loc[d]
          BY <1>1, <2>2, <4>2
             DEF Handles, Login, DeleteSession, Return, Sent, AcceptClient,
                 CreateSession, ReqLogin, CheckDuplicate, LoginUser,
                 LoginUserFails, SetUserId, PickRoom, LoadLastRoomId,
                 StoreLastRoomId, NewGameRoom, InsertGameRoom, ReadLastRoomId,
                 AddObjUser, AddInsert, CreateResLogin, CopyForEnter,
                 SendEnter, SendEnterDangling, SendEnterDone, SendResLogin,
                 Disconnect, LookupObjUser, LeaveRoom, UnsetRoomId, Unlist,
                 CopyForExit, SendExit, SendExitDone, CloseSocket
        <5>2. QED
          BY <1>7, <5>1
      <4>3. QED
        BY <4>1, <4>2
    <3>3. QED
      BY <1>7, <3>1, <3>2
  <2>3. ASSUME a = d, NEW e \in Conn, SendEnter(d, e)
        PROVE  \/ v \in told'[c]
               \/ /\ loc'[d].user = v /\ pc'[d] = "sendEnter"
                  /\ c \in loc'[d].targets /\ c \notin loc'[d].dangling
    <3>1. CASE e = c
      BY <1>1, <1>2, <1>7, <2>3, <3>1 DEF SendEnter, Reaches
    <3>2. CASE e # c
      BY <1>1, <1>7, <2>3, <3>2 DEF SendEnter, Sent, Locals
    <3>3. QED
      BY <3>1, <3>2
  <2>4. ASSUME a = d, NEW e \in Conn, SendEnterDangling(d, e)
        PROVE  /\ loc'[d].user = v /\ pc'[d] = "sendEnter"
               /\ c \in loc'[d].targets /\ c \notin loc'[d].dangling
    <3>1. e # c
      BY <1>7, <2>4 DEF SendEnterDangling
    <3>2. QED
      BY <1>1, <1>7, <2>4, <3>1 DEF SendEnterDangling, Sent, Locals
  <2>5. ASSUME a = d, ~(\E e \in Conn :
                          SendEnter(d, e) \/ SendEnterDangling(d, e))
        PROVE  FALSE
    BY <1>7, <2>5
       DEF Handles, Login, DeleteSession, AcceptClient, CreateSession,
           ReqLogin, CheckDuplicate, LoginUser, LoginUserFails, SetUserId,
           PickRoom, LoadLastRoomId, StoreLastRoomId, NewGameRoom,
           InsertGameRoom, ReadLastRoomId, AddObjUser, AddInsert,
           CreateResLogin, CopyForEnter, SendEnterDone, SendResLogin,
           Disconnect, LookupObjUser, LeaveRoom, UnsetRoomId, Unlist,
           EraseSession, CopyForExit, SendExit, SendExitDone, CloseSocket
  <2>6. QED
    BY <2>2, <2>3, <2>4, <2>5
<1>8. QED
  BY <1>3, <1>4, <1>5, <1>6, <1>7 DEF Informed

\* Every step of a regular run leaves clients informed of the living players.
LEMMA TelltaleStep ==
  ASSUME Settling, Telltale, Orderly', NEW a \in Conn, Handles(a)
  PROVE  Telltale'
<1> SUFFICES ASSUME NEW c \in Conn, NEW v \in User,
                    Playing(c)', Lives(v)'
             PROVE  Informed(c, v)'
  BY DEF Telltale
<1>1. Playing(c)' /\ Player(v)' # None
  BY DEF Lives
<1>2. CASE c = a /\ pc'[a] = "snapshot"
  BY <1>2 DEF Informed
<1>3. CASE Playing(c) /\ Player(v) # None
  <2>1. c \in sessions'
    BY <1>1 DEF Playing
  <2>2. Player(v)' = Player(v)
    BY <1>1, <1>3, PlayersChange DEF Settling, Orderly, Knows
  <2>3. Lives(v)
    BY <1>3, <2>2, NobodyRevives DEF Settling
  <2>4. QED
    BY <1>3, <2>1, <2>3, InformedStep DEF Telltale
<1>4. CASE c # a /\ Player(v) = None
  <2>1. /\ pc[a] = "addInsert" /\ pc'[a] = "snapshot" /\ loc[a].user = v
    BY <1>1, <1>4, PlayersChange DEF Settling
  <2>2. AddInsert(a)
    BY <2>1
       DEF Handles, Login, DeleteSession, AcceptClient, CreateSession,
           ReqLogin, CheckDuplicate, LoginUser, LoginUserFails, SetUserId,
           PickRoom, LoadLastRoomId, StoreLastRoomId, NewGameRoom,
           InsertGameRoom, ReadLastRoomId, AddObjUser, CreateResLogin,
           CopyForEnter, SendEnter, SendEnterDangling, SendEnterDone,
           SendResLogin, Disconnect, LookupObjUser, LeaveRoom, UnsetRoomId,
           Unlist, EraseSession, CopyForExit, SendExit, SendExitDone,
           CloseSocket
  <2>3. loc' = loc
    BY <2>2 DEF AddInsert
  <2>4. QED
    BY <1>4, <2>1, <2>3 DEF Informed
<1>5. CASE c = a /\ Player(v) = None /\ pc'[a] # "snapshot"
  BY <1>1, <1>5, PlayersChange DEF Settling
<1>6. QED
  BY <1>1, <1>2, <1>3, <1>4, <1>5, PlayingChange

\* In regular runs every client that plays has been told of every living one,
\* or the handler that tells it is on its way.
ToldInTime == Regular => Telltale

\* Every step keeps clients informed as long as the run is regular.
LEMMA ToldInTimeStep ==
  ASSUME IInv, IInv', ToldInTime, [Next]_vars
  PROVE  ToldInTime'
<1>1. CASE status = "running" /\ Running /\ History
  <2>1. SUFFICES ASSUME Regular'
                 PROVE  Telltale'
    BY DEF ToldInTime
  <2>2. ~contended /\ ~manyRooms
    BY <1>1, <2>1, Zenon DEF Regular, OneRoom, History
  <2>3. Settling /\ Telltale /\ Orderly'
    BY <2>1, <2>2
       DEF IInv, Settling, FirstRoom, OwnUsers, Disciplined, ToldInTime,
           Regular, OneRoom
  <2>4. CASE Unmoved
    <3>1. /\ UNCHANGED <<sessions, userId, objUserMap, told, pc, loc>>
          /\ died \subseteq died'
      BY <2>4 DEF Unmoved
    <3>2. QED
      BY <2>3, <3>1 DEF Telltale, Playing, Player, Lives, Informed
  <2>5. CASE \E c \in Conn : Handles(c)
    BY <2>3, <2>5, TelltaleStep
  <2>6. QED
    BY <1>1, <2>4, <2>5, SomeHandlerMoves
<1>2. CASE UNCHANGED vars
  <2>1. UNCHANGED <<sessions, userId, objUserMap, died, told, pc, loc,
                    contended, manyRooms>>
    BY <1>2 DEF vars, sharedVars, poolVars, roomVars, historyVars
  <2>2. QED
    BY <2>1 DEF ToldInTime, Regular, OneRoom, Telltale, Playing, Player,
       Lives, Informed
<1>3. QED
  BY <1>1, <1>2 DEF Next, Halted

\* In regular runs (one room, no two handlers busy with one user id) two
\* clients that have logged in have been told of each other's players, unless
\* these have died, however their logins, and the logins, deaths and
\* disconnects of the others, overlapped.
THEOREM EveryoneAnnounced == Spec => []Announced
<1>1. Init => ToldInTime
  BY DEF Init, ToldInTime, Telltale, Playing
<1>2. IInv /\ ToldInTime => Announced
  <2>1. SUFFICES ASSUME IInv, ToldInTime, Regular,
                        NEW c \in sessions, NEW d \in sessions,
                        pc[c] = "idle", pc[d] = "idle",
                        userId[c] \in Players, userId[d] \in Alive
                 PROVE  userId[d] \in told[c]
    BY DEF Announced
  <2>2. /\ OnlyRoom /\ TypeOK /\ Telltale /\ c \in Conn /\ d \in Conn
        /\ userId[c] \in User /\ userId[d] \in User
    BY <2>1
       DEF IInv, Types, TypeOK, FirstRoom, Single, ToldInTime, Regular,
           OneRoom, Players, Alive
  <2>3. Playing(c) /\ Lives(userId[d])
    BY <2>1, <2>2, InFront, ObjNoneAssumption
       DEF Playing, Players, Alive, Lives
  <2>4. ASSUME NEW e \in Conn, pc[e] \in Telling
        PROVE  loc[e].user # userId[d]
    <3>1. Phase(e) /\ NoDuplicateLogin
      BY <2>1 DEF IInv, Types, Disciplined, Orderly
    <3>2. e \in sessions /\ loc[e].user = userId[e] /\ e # d
      BY <2>1, <2>4, <3>1 DEF Phase, Gone, Telling
    <3>3. QED
      BY <2>1, <2>2, <3>1, <3>2, ObjNoneAssumption DEF NoDuplicateLogin
  <2>5. QED
    BY <2>1, <2>2, <2>3, <2>4 DEF Telltale, Informed, Telling
<1>3. IInv /\ ToldInTime /\ [Next]_vars => (IInv /\ ToldInTime)'
  BY Inductive, ToldInTimeStep
<1>4. QED
  BY <1>1, <1>2, <1>3, Inductive, PTL DEF Spec

-----------------------------------------------------------------------------
(* With one worker. *)

\* A client is being told that the player of v is gone, or is about to be.
Farewell(c, v) ==
  \E b \in Conn :
    /\ loc[b].user = v
    /\ \/ pc[b] \in {"erase", "exit"}
       \/ pc[b] = "sendExit" /\ c \in loc[b].targets

\* No client knows, or is about to be told, of a player there is not.
Truthful(c) ==
  /\ pc[c] \in {"closed", "accepted"} => told[c] = {}
  /\ pc[c] \in {"sendEnter", "sendExit"} => loc[c].targets \subseteq sessions
  /\ pc[c] \in {"enter", "sendEnter", "reply"} =>
       \A v \in loc[c].seen : Player(v) # None
  /\ c \in sessions =>
       \A v \in told[c] : Player(v) # None \/ Farewell(c, v)

OnlyPlayers == \A c \in Conn : Truthful(c)

\* While a handler is busy nothing happens but on the accept thread.
LEMMA OtherIsAccept ==
  ASSUME Types, OneHandler, OneHandler', NEW a \in Conn, Handles(a),
         NEW e \in Busy \ {a}
  PROVE  AcceptClient(a) \/ CreateSession(a)
<1>1. pc \in [Conn -> Pc]
  BY DEF Types, TypeOK
<1>2. e \in Conn /\ e \in Busy'
  BY OthersUntouched DEF Untouched, Busy, Idle
<1>3. Idle(a) /\ Idle(a)'
  BY <1>2 DEF OneHandler, Busy
<1>4. CASE Login(a)
  BY <1>1, <1>3, <1>4
     DEF Login, Idle, Goto, ReqLogin, CheckDuplicate, LoginUser,
         LoginUserFails, SetUserId, PickRoom, LoadLastRoomId, StoreLastRoomId,
         NewGameRoom, InsertGameRoom, ReadLastRoomId, AddObjUser, AddInsert,
         CreateResLogin, CopyForEnter, SendEnter, SendEnterDangling,
         SendEnterDone, SendResLogin
<1>5. CASE DeleteSession(a)
  BY <1>1, <1>3, <1>5
     DEF DeleteSession, Idle, Goto, Disconnect, LookupObjUser, LeaveRoom,
         UnsetRoomId, Unlist, EraseSession, CopyForExit, SendExit,
         SendExitDone, CloseSocket
<1>6. QED
  BY <1>4, <1>5 DEF Handles

\* The accept thread tells nobody anything.
LEMMA TruthfulAccept ==
  ASSUME Types, OnlyPlayers, NEW a \in Conn,
         AcceptClient(a) \/ CreateSession(a), NEW c \in Conn
  PROVE  Truthful(c)'
<1>1. /\ pc \in [Conn -> Pc] /\ sessions \subseteq Conn /\ Phase(a)
      /\ Truthful(c)
  BY DEF Types, TypeOK, OnlyPlayers
<1>2. /\ UNCHANGED <<loc, told, objUserMap>> /\ sessions \subseteq sessions'
      /\ pc[a] \in {"closed", "accepted"} /\ pc'[a] \in {"accepted", "idle"}
      /\ \A e \in Conn \ {a} :
           pc'[e] = pc[e] /\ (e \in sessions' <=> e \in sessions)
      /\ pc'[a] = "accepted" => (a \in sessions' <=> a \in sessions)
  BY <1>1 DEF AcceptClient, CreateSession, Goto, sharedVars, poolVars, roomVars
<1>3. \A v : Farewell(c, v) => Farewell(c, v)'
  BY <1>2 DEF Farewell
<1>4. CASE c = a
  BY <1>1, <1>2, <1>4 DEF Truthful
<1>5. CASE c # a
  BY <1>1, <1>2, <1>3, <1>5 DEF Truthful, Player
<1>6. QED
  BY <1>4, <1>5

\* What the busy handler of a leaves alone, when no other one is busy.
LEMMA TruthfulAside ==
  ASSUME Settling, OneHandler, OnlyPlayers, NEW a \in Conn, Handles(a),
         \A e \in Conn \ {a} : Idle(e), NEW c \in Conn \ {a}
  PROVE  /\ pc'[c] = pc[c] /\ Idle(c)
         /\ c \in sessions' => c \in sessions /\ c \in sessions \ {a}
         /\ pc[c] \in {"closed", "accepted"} => told'[c] = {}
<1>1. /\ Untouched(c) /\ Truthful(c) /\ Truthful(a) /\ Phase(c) /\ Phase(a)
      /\ told \in [Conn -> SUBSET User]
  BY OthersUntouched DEF Settling, Types, TypeOK, OnlyPlayers
<1>2. ASSUME pc[c] \in {"closed", "accepted"}
      PROVE  told'[c] = {}
  <2>1. told[c] = {} /\ c \notin sessions
    BY <1>1, <1>2 DEF Truthful, Phase, Gone
  <2>2. ASSUME NEW e \in Conn, SendEnter(a, e) \/ SendExit(a, e)
        PROVE  told'[c] = {}
    <3>1. e # c
      BY <1>1, <2>1, <2>2 DEF SendEnter, SendExit, Truthful
    <3>2. QED
      BY <1>1, <2>1, <2>2, <3>1 DEF SendEnter, SendExit
  <2>3. CASE SendResLogin(a) \/ CloseSocket(a)
    BY <1>1, <2>1, <2>3 DEF SendResLogin, CloseSocket
  <2>4. CASE ~(\/ \E e \in Conn : SendEnter(a, e) \/ SendExit(a, e)
               \/ SendResLogin(a) \/ CloseSocket(a))
    <3>1. told' = told
      BY <2>4
         DEF Handles, Login, DeleteSession, AcceptClient, CreateSession,
             ReqLogin, CheckDuplicate, LoginUser, LoginUserFails, SetUserId,
             PickRoom, LoadLastRoomId, StoreLastRoomId, NewGameRoom,
             InsertGameRoom, ReadLastRoomId, AddObjUser, AddInsert,
             CreateResLogin, CopyForEnter, SendEnterDangling, SendEnterDone,
             Disconnect, LookupObjUser, LeaveRoom, UnsetRoomId, Unlist,
             EraseSession, CopyForExit, SendExitDone, sharedVars
    <3>2. QED
      BY <2>1, <3>1
  <2>5. QED
    BY <2>2, <2>3, <2>4
<1>3. QED
  BY <1>1, <1>2 DEF Untouched

\* What the busy handler sends to, and what it has put into its ResLogin.
LEMMA TruthfulSelf ==
  ASSUME Settling, OnlyPlayers, NEW a \in Conn, Login(a) \/ DeleteSession(a)
  PROVE  /\ pc'[a] \in {"closed", "accepted"} => told'[a] = {}
         /\ pc'[a] \in {"sendEnter", "sendExit"} =>
              loc'[a].targets \subseteq sessions'
         /\ pc'[a] \in {"enter", "sendEnter", "reply"} =>
              \A v \in loc'[a].seen : objUserMap'[1][v] # None
<1>1. /\ loc \in [Conn -> Locals] /\ pc \in [Conn -> Pc] /\ loc[a] \in Locals
      /\ told \in [Conn -> SUBSET User] /\ Phase(a) /\ Truthful(a)
      /\ InOnlyRoom(a) /\ 1 \in RoomId /\ status # "crashed"
  BY FirstKey DEF Settling, Types, TypeOK, Single, OnlyPlayers, Orderly
<1>2. CASE CreateResLogin(a)
  <2>1. roomMap[1] = 1 /\ 1 \in Rooms
    BY <1>1, <1>2 DEF CreateResLogin, InOnlyRoom, Rooms
  <2>2. Begin = 1
    BY <2>1, InFront DEF Settling, Types, Single
  <2>3. /\ loc'[a].seen
             = {u \in User : objUserMap[1][u] \notin died \cup {None}}
        /\ pc'[a] = "enter" /\ objUserMap' = objUserMap
    BY <1>1, <1>2, <2>1, <2>2 DEF CreateResLogin, Goto, Locals, roomVars
  <2>4. QED
    BY <2>3
<1>3. CASE CopyForEnter(a) \/ CopyForExit(a)
  <2>1. UNCHANGED <<sessions, objUserMap, told>> /\ loc'[a].seen = loc[a].seen
    BY <1>1, <1>3
       DEF CopyForEnter, CopyForExit, Locals, sharedVars, poolVars, roomVars
  <2>2. /\ pc[a] = "enter" => pc'[a] = "sendEnter"
        /\ pc[a] # "enter" => pc'[a] = "sendExit"
        /\ loc'[a].targets \subseteq sessions
    BY <1>1, <1>3 DEF CopyForEnter, CopyForExit, Goto, Locals
  <2>3. QED
    BY <1>1, <2>1, <2>2 DEF Truthful, Player
<1>4. ASSUME NEW d \in Conn,
             SendEnter(a, d) \/ SendEnterDangling(a, d) \/ SendExit(a, d)
      PROVE  /\ pc'[a] \in {"sendEnter", "sendExit"}
             /\ loc'[a].targets \subseteq sessions'
             /\ pc'[a] = "sendEnter" =>
                  \A v \in loc'[a].seen : objUserMap'[1][v] # None
  BY <1>1, <1>4
     DEF SendEnter, SendEnterDangling, SendExit, Sent, Locals, Truthful,
         Player, poolVars, roomVars
<1>5. CASE SendEnterDone(a) \/ SendExitDone(a)
  BY <1>1, <1>5
     DEF SendEnterDone, SendExitDone, Goto, Truthful, Player, sharedVars,
         poolVars, roomVars
<1>6. CASE CloseSocket(a)
  BY <1>1, <1>6 DEF CloseSocket, Return, Goto
<1>7. CASE ~(\/ CreateResLogin(a) \/ CopyForEnter(a) \/ CopyForExit(a)
             \/ SendEnterDone(a) \/ SendExitDone(a) \/ CloseSocket(a)
             \/ \E d \in Conn : SendEnter(a, d) \/ SendEnterDangling(a, d)
                                \/ SendExit(a, d))
  <2>1. pc'[a] \notin {"closed", "accepted", "sendEnter", "sendExit", "enter",
                       "reply"}
    BY <1>1, <1>7
       DEF Login, DeleteSession, Goto, Return, ReqLogin, CheckDuplicate,
           LoginUser, LoginUserFails, SetUserId, PickRoom, LoadLastRoomId,
           StoreLastRoomId, NewGameRoom, InsertGameRoom, ReadLastRoomId,
           AddObjUser, AddInsert, SendResLogin, Disconnect, LookupObjUser,
           LeaveRoom, UnsetRoomId, Unlist, EraseSession
  <2>2. QED
    BY <2>1
<1>8. QED
  BY <1>2, <1>3, <1>4, <1>5, <1>6, <1>7

\* Who has been told of a player is told when it is gone.
LEMMA TruthfulTold ==
  ASSUME Settling, OnlyPlayers, NEW a \in Conn, Login(a) \/ DeleteSession(a),
         \A e \in Conn \ {a} : Idle(e), NEW c \in sessions',
         NEW v \in told'[c]
  PROVE  objUserMap'[1][v] # None \/ Farewell(c, v)'
<1>1. /\ loc \in [Conn -> Locals] /\ pc \in [Conn -> Pc] /\ loc[a] \in Locals
      /\ told \in [Conn -> SUBSET User] /\ Phase(a) /\ Truthful(a) /\ Knows(a)
      /\ InOnlyRoom(a) /\ 1 \in RoomId /\ None \notin User
      /\ sessions \subseteq Conn
      /\ objUserMap \in [RoomId -> [User -> Obj \cup {None}]]
  BY FirstKey, ObjNoneAssumption
     DEF Settling, Types, TypeOK, Single, OnlyPlayers, Orderly
<1>2. c \in sessions /\ c \in Conn
  BY <1>1
     DEF Login, DeleteSession, ReqLogin, CheckDuplicate, LoginUser,
         LoginUserFails, SetUserId, PickRoom, LoadLastRoomId, StoreLastRoomId,
         NewGameRoom, InsertGameRoom, ReadLastRoomId, AddObjUser, AddInsert,
         CreateResLogin, CopyForEnter, SendEnter, SendEnterDangling,
         SendEnterDone, SendResLogin, Disconnect, LookupObjUser, LeaveRoom,
         UnsetRoomId, Unlist, EraseSession, CopyForExit, SendExit,
         SendExitDone, CloseSocket, sharedVars, poolVars
<1>3. Truthful(c)
  BY <1>2 DEF OnlyPlayers
<1>4. \A u : Farewell(c, u) =>
        /\ loc[a].user = u
        /\ \/ pc[a] \in {"erase", "exit"}
           \/ pc[a] = "sendExit" /\ c \in loc[a].targets
  BY DEF Farewell, Idle
<1>5. CASE AddInsert(a)
  <2>1. v \in told[c] /\ v \in User /\ Player(v) # None
    BY <1>1, <1>2, <1>3, <1>4, <1>5 DEF AddInsert, Truthful
  <2>2. Handles(a) /\ Types /\ Single /\ pc[a] = "addInsert"
    BY <1>5 DEF Settling, Handles, Login, AddInsert
  <2>3. Player(v)' = Player(v) \/ Player(v)' \in Obj
    BY <2>1, <2>2, PlayersChange
  <2>4. Player(v)' # None
    BY <2>1, <2>3, ObjNoneAssumption
  <2>5. QED
    BY <2>4 DEF Player
<1>6. CASE Unlist(a)
  <2>1. v \in told[c] /\ v \in User /\ Player(v) # None
    BY <1>1, <1>2, <1>3, <1>4, <1>6 DEF Unlist, Truthful
  <2>2. \/ Player(v)' = Player(v)
        \/ pc'[a] = "erase" /\ v = loc[a].user
    BY <1>6, <2>1, PlayersChange DEF Settling, Handles, Unlist
  <2>3. loc'[a].user = loc[a].user
    BY <1>1, <1>6 DEF Unlist, Locals
  <2>4. QED
    BY <2>1, <2>2, <2>3 DEF Player, Farewell
<1>7. CASE EraseSession(a)
  <2>1. v \in told[c] /\ objUserMap' = objUserMap
    BY <1>7 DEF EraseSession, roomVars
  <2>2. CASE Player(v) # None
    BY <2>1, <2>2 DEF Player
  <2>3. CASE Player(v) = None
    <3>1. loc[a].user = v /\ v # None
      BY <1>1, <1>2, <1>3, <1>4, <2>1, <2>3 DEF Truthful
    <3>2. loc[a].obj # None /\ pc[a] = "erase"
      BY <1>1, <1>7, <3>1 DEF EraseSession, Phase
    <3>3. pc'[a] = "exit" /\ loc'[a].user = v
      BY <1>1, <1>7, <3>1, <3>2 DEF EraseSession, Goto, Locals
    <3>4. QED
      BY <3>3 DEF Farewell
  <2>4. QED
    BY <2>2, <2>3
<1>8. CASE CopyForExit(a)
  <2>1. /\ v \in told[c] /\ objUserMap' = objUserMap /\ pc'[a] = "sendExit"
        /\ loc'[a].targets = sessions /\ loc'[a].user = loc[a].user
    BY <1>1, <1>8 DEF CopyForExit, Goto, Locals, sharedVars, roomVars
  <2>2. QED
    BY <1>2, <1>3, <1>4, <2>1 DEF Truthful, Farewell, Player
<1>9. ASSUME NEW d \in Conn, SendExit(a, d)
      PROVE  objUserMap'[1][v] # None \/ Farewell(c, v)'
  <2>1. /\ v \in told[c] /\ objUserMap' = objUserMap /\ pc'[a] = "sendExit"
        /\ loc'[a].targets = loc[a].targets \ {d}
        /\ loc'[a].user = loc[a].user
    BY <1>1, <1>2, <1>9 DEF SendExit, Sent, Locals, roomVars
  <2>2. c = d => v # loc[a].user
    <3>1. pc[c] # "closed"
      BY <1>2 DEF Settling, Types, Phase, Gone
    <3>2. QED
      BY <1>1, <1>2, <1>9, <3>1 DEF SendExit, Reaches
  <2>3. CASE Player(v) # None
    BY <2>1, <2>3 DEF Player
  <2>4. CASE Player(v) = None
    <3>1. /\ loc[a].user = v
          /\ pc[a] \in {"erase", "exit"} \/ c \in loc[a].targets
      BY <1>2, <1>3, <1>4, <2>1, <2>4 DEF Truthful
    <3>2. pc[a] = "sendExit"
      BY <1>9 DEF SendExit
    <3>3. c \in loc'[a].targets /\ loc'[a].user = v
      BY <2>1, <2>2, <3>1, <3>2
    <3>4. QED
      BY <2>1, <3>3 DEF Farewell
  <2>5. QED
    BY <2>3, <2>4
<1>10. CASE SendExitDone(a)
  BY <1>1, <1>2, <1>3, <1>4, <1>10
     DEF SendExitDone, Truthful, Player, sharedVars, roomVars
<1>11. ASSUME NEW d \in Conn, SendEnter(a, d)
       PROVE  objUserMap'[1][v] # None
  <2>1. v \in told[c] \/ v = loc[a].user
    BY <1>1, <1>2, <1>11 DEF SendEnter
  <2>2. Player(loc[a].user) # None
    BY <1>1, <1>11 DEF SendEnter, Knows, Phase, Telling
  <2>3. QED
    BY <1>2, <1>3, <1>4, <1>11, <2>1, <2>2
       DEF SendEnter, Truthful, Player, roomVars
<1>12. CASE SendResLogin(a)
  <2>1. v \in told[c] \/ v \in loc[a].seen
    BY <1>1, <1>2, <1>12 DEF SendResLogin
  <2>2. QED
    BY <1>1, <1>2, <1>3, <1>4, <1>12, <2>1
       DEF SendResLogin, Truthful, Player, roomVars
<1>13. CASE CloseSocket(a)
  <2>1. a # c
    BY <1>1, <1>2, <1>13 DEF CloseSocket, Phase, Gone
  <2>2. QED
    BY <1>1, <1>2, <1>3, <1>4, <1>13, <2>1
       DEF CloseSocket, Truthful, Player, roomVars
<1>14. CASE ~(\/ AddInsert(a) \/ Unlist(a) \/ EraseSession(a) \/ CopyForExit(a)
              \/ SendExitDone(a) \/ SendResLogin(a) \/ CloseSocket(a)
              \/ \E d \in Conn : SendEnter(a, d) \/ SendExit(a, d))
  <2>1. /\ told' = told /\ objUserMap' = objUserMap
        /\ pc[a] \notin {"erase", "exit", "sendExit"}
    BY <1>14
       DEF Login, DeleteSession, sharedVars, poolVars, roomVars, ReqLogin,
           CheckDuplicate, LoginUser, LoginUserFails, SetUserId, PickRoom,
           LoadLastRoomId, StoreLastRoomId, NewGameRoom, InsertGameRoom,
           ReadLastRoomId, AddObjUser, CreateResLogin, CopyForEnter,
           SendEnterDangling, SendEnterDone, Disconnect, LookupObjUser,
           LeaveRoom, UnsetRoomId
  <2>2. QED
    BY <1>2, <1>3, <1>4, <2>1 DEF Truthful, Player
<1>15. QED
  BY <1>5, <1>6, <1>7, <1>8, <1>9, <1>10, <1>11, <1>12, <1>13, <1>14

\* The busy handler keeps what it and the others have told.
LEMMA TruthfulHandler ==
  ASSUME Settling, OneHandler, OneHandler', OnlyPlayers,
         NEW a \in Conn, Handles(a)
  PROVE  OnlyPlayers'
<1>1. Types
  BY DEF Settling
<1>2. CASE AcceptClient(a) \/ CreateSession(a)
  BY <1>1, <1>2, TruthfulAccept DEF OnlyPlayers
<1>3. CASE ~(AcceptClient(a) \/ CreateSession(a))
  <2>1. \A e \in Conn \ {a} : Idle(e)
    BY <1>1, <1>3, OtherIsAccept DEF Busy
  <2>2. Login(a) \/ DeleteSession(a)
    BY <1>3 DEF Handles
  <2>3. \A c \in Conn : c \in sessions' =>
          \A v \in told'[c] : objUserMap'[1][v] # None \/ Farewell(c, v)'
    BY <2>1, <2>2, TruthfulTold
  <2>4. Truthful(a)'
    BY <2>2, <2>3, TruthfulSelf DEF Truthful, Player
  <2>5. ASSUME NEW c \in Conn \ {a}
        PROVE  Truthful(c)'
    <3>1. /\ pc'[c] = pc[c] /\ pc[c] \in {"closed", "accepted", "idle"}
          /\ pc[c] \in {"closed", "accepted"} => told'[c] = {}
      BY <1>1, <2>1, TruthfulAside DEF Idle
    <3>2. QED
      BY <2>3, <3>1 DEF Truthful, Player
  <2>6. QED
    BY <2>4, <2>5 DEF OnlyPlayers
<1>4. QED
  BY <1>2, <1>3

\* With one worker no step changes that clients know of nobody but players.
LEMMA OnlyPlayersStep ==
  ASSUME IInv, Regular, Types', OneHandler, OneHandler', OnlyPlayers,
         Regular', [Next]_vars
  PROVE  OnlyPlayers'
<1>1. CASE Running
  <2>1. Types /\ Settling
    BY DEF IInv, FirstRoom, OwnUsers, Disciplined, Regular, OneRoom, Settling
  <2>2. ASSUME NEW a \in Conn, Handles(a)
        PROVE  OnlyPlayers'
    BY <2>1, <2>2, TruthfulHandler
  <2>3. CASE Unmoved
    BY <2>3 DEF Unmoved, OnlyPlayers, Truthful, Farewell, Player
  <2>4. QED
    BY <1>1, <2>2, <2>3, SomeHandlerMoves
<1>2. CASE UNCHANGED vars
  BY <1>2
     DEF vars, sharedVars, poolVars, roomVars, OnlyPlayers, Truthful, Farewell,
         Player
<1>3. QED
  BY <1>1, <1>2 DEF Next, Halted

\* When nothing is going on every client that has logged in knows the living
\* players of its login and of all logins since, for any number of workers in
\* regular runs; that it knows nobody who has left holds with one worker only,
\* while the program starts one per processor.
THEOREM AllUpToDate == Spec => []ClientsUpToDate
<1> DEFINE Serial == NumWorkers = 1 => Regular /\ OnlyPlayers
           UpToDate == IInv /\ ToldInTime /\ Serial
<1>1. Init => UpToDate
  <2>1. Init => ToldInTime
    BY DEF Init, ToldInTime, Telltale, Playing
  <2>2. Init => OnlyPlayers
    BY DEF Init, OnlyPlayers, Truthful
  <2>3. QED
    BY <2>1, <2>2, Inductive, SerialIsRegular
<1>2. UpToDate /\ [Next]_vars => UpToDate'
  <2>1. SUFFICES ASSUME UpToDate, [Next]_vars
                 PROVE  UpToDate'
    OBVIOUS
  <2>2. IInv' /\ ToldInTime'
    BY <2>1, Inductive, ToldInTimeStep
  <2>3. ASSUME NumWorkers = 1
        PROVE  Regular' /\ OnlyPlayers'
    <3>1. Types /\ Types' /\ IInv /\ Regular /\ OnlyPlayers
      BY <2>1, <2>2, <2>3 DEF IInv
    <3>2. Regular'
      BY <2>1, <2>3, <3>1, SerialIsRegular
    <3>3. OneHandler /\ OneHandler'
      BY <2>3, <3>1, SoleHandler
    <3>4. QED
      BY <2>1, <3>1, <3>2, <3>3, OnlyPlayersStep
  <2>4. QED
    BY <2>2, <2>3
<1>3. UpToDate => ClientsUpToDate
  <2>1. SUFFICES ASSUME UpToDate, Busy = {}, NEW c \in sessions,
                        userId[c] # None
                 PROVE  /\ Regular => Alive \subseteq told[c]
                        /\ NumWorkers = 1 => told[c] \subseteq Players
    BY DEF ClientsUpToDate
  <2>2. \A e \in Conn : Idle(e)
    BY <2>1 DEF Busy
  <2>3. ASSUME Regular
        PROVE  /\ OnlyRoom /\ TypeOK /\ Telltale /\ c \in Conn
               /\ Playing(c) /\ told[c] \subseteq User /\ pc[c] = "idle"
    <3>1. /\ OnlyRoom /\ TypeOK /\ Telltale /\ c \in Conn /\ Knows(c)
          /\ Phase(c) /\ told[c] \subseteq User
      BY <2>1, <2>3
         DEF IInv, Types, TypeOK, FirstRoom, Single, ToldInTime, Regular,
             OneRoom, Disciplined, Orderly
    <3>2. pc[c] = "idle"
      BY <2>1, <2>2, <3>1 DEF Idle, Phase, Gone
    <3>3. Playing(c)
      BY <2>1, <3>1, <3>2 DEF Knows, Joining, Playing
    <3>4. QED
      BY <3>1, <3>2, <3>3
  <2>4. ASSUME Regular
        PROVE  Alive \subseteq told[c]
    <3>1. \A v \in User : Lives(v) => v \in told[c]
      BY <2>2, <2>3, <2>4 DEF Telltale, Informed, Idle
    <3>2. \A v \in Alive : v \in User /\ Lives(v)
      BY <2>3, <2>4, InFront DEF Alive, Players, Lives
    <3>3. QED
      BY <3>1, <3>2
  <2>5. ASSUME NumWorkers = 1
        PROVE  told[c] \subseteq Players
    <3>1. Regular /\ Truthful(c) /\ c \in Conn
      BY <2>1, <2>5 DEF OnlyPlayers, IInv, Types, TypeOK
    <3>2. told[c] \subseteq {v \in User : Player(v) # None}
      BY <2>1, <2>2, <2>3, <3>1 DEF Truthful, Farewell, Idle
    <3>3. Players = {v \in User : Player(v) # None}
      BY <2>3, <3>1, InFront DEF Players
    <3>4. QED
      BY <3>2, <3>3
  <2>6. QED
    BY <2>4, <2>5
<1>4. QED
  BY <1>1, <1>2, <1>3, PTL DEF Spec
-----------------------------------------------------------------------------
(* Logins and disconnects keep the promises of Presence. *)

\* What a connection plays, said by the only room, before and after a step.
LEMMA PlaysWhom ==
  ASSUME TypeOK, OnlyRoom, TypeOK', OnlyRoom', NEW e \in Conn
  PROVE  /\ Plays(e) = IF userId[e] # None /\ Player(userId[e]) # None
                       THEN userId[e] ELSE None
         /\ Plays(e)' = IF userId'[e] # None
                            /\ objUserMap'[1][userId'[e]] # None
                        THEN userId'[e] ELSE None
<1>1. /\ userId[e] \in User \cup {None} /\ userId'[e] \in User \cup {None}
      /\ None \notin User /\ 1 \in RoomId
  BY FirstKey, ObjNoneAssumption DEF TypeOK
<1>2. Players = {u \in User : objUserMap[1][u] # None}
  BY <1>1 DEF Players, Holding, Rooms, OnlyRoom
<1>3. Players' = {u \in User : objUserMap'[1][u] # None}
  BY <1>1 DEF Players, Holding, Rooms, OnlyRoom
<1>4. QED
  BY <1>1, <1>2, <1>3 DEF Plays, Player

\* A step of one handler leaves what the other connections play alone.
LEMMA OthersPlay ==
  ASSUME Settling, Settling', NEW c \in Conn, Handles(c), NEW e \in Conn \ {c}
  PROVE  Plays(e)' = Plays(e)
<1>1. /\ userId'[e] = userId[e] /\ userId[e] \in User \cup {None}
      /\ Phase(c) /\ Phase(e) /\ NoDuplicateLogin
      /\ TypeOK /\ OnlyRoom /\ TypeOK' /\ OnlyRoom'
  BY OthersUntouched
     DEF Untouched, Settling, Types, TypeOK, Single, Orderly
<1>2. SUFFICES ASSUME NEW u \in User, u = userId[e], u # None,
                      Player(u)' # Player(u)
               PROVE  FALSE
  BY <1>1, PlaysWhom DEF Player
<1>3. pc[c] \in {"addInsert", "unlist"} /\ loc[c].user = u
  BY <1>2, PlayersChange DEF Settling
<1>4. c \in sessions /\ userId[c] = u /\ e \in sessions
  BY <1>1, <1>2, <1>3 DEF Phase, Gone, Joining, Leaving
<1>5. QED
  BY <1>1, <1>2, <1>4 DEF NoDuplicateLogin

\* So the whole of what is played changes at the handler's connection only.
LEMMA PlayerAt ==
  ASSUME Settling, Settling', NEW c \in Conn, Handles(c), NEW p, Plays(c)' = p
  PROVE  [e \in Conn |-> Plays(e)]'
           = [[e \in Conn |-> Plays(e)] EXCEPT ![c] = p]
  BY OthersPlay

\* Every step of a regular run is a step of Presence or changes neither who
\* is online nor who plays.
LEMMA PresenceStep ==
  ASSUME Settling, Settling', NEW c \in Conn, Handles(c)
  PROVE  Abstract!Next \/ UNCHANGED Abstract!vars
<1>1. /\ userId \in [Conn -> User \cup {None}] /\ sessions \subseteq Conn
      /\ pc \in [Conn -> Pc] /\ loc \in [Conn -> Locals]
      /\ Phase(c) /\ Knows(c) /\ InOnlyRoom(c) /\ None \notin User
      /\ TypeOK /\ OnlyRoom /\ TypeOK' /\ OnlyRoom' /\ 1 \in RoomId
  BY FirstKey, ObjNoneAssumption DEF Settling, Types, TypeOK, Single, Orderly
<1>2. ASSUME Plays(c)' = Plays(c)
      PROVE  [e \in Conn |-> Plays(e)]' = [e \in Conn |-> Plays(e)]
  BY <1>2, OthersPlay
<1>3. CASE CreateSession(c)
  <2>1. /\ c \notin sessions /\ sessions' = sessions \cup {c}
        /\ userId[c] = None /\ userId'[c] = None
    BY <1>1, <1>3 DEF CreateSession, Phase, Gone
  <2>2. Plays(c)' = Plays(c)
    BY <1>1, <2>1, PlaysWhom
  <2>3. Abstract!Connect(c)
    BY <1>2, <2>1, <2>2 DEF Abstract!Connect
  <2>4. QED
    BY <2>3 DEF Abstract!Next
<1>4. CASE EraseSession(c)
  <2>1. /\ c \in sessions /\ sessions' = sessions \ {c} /\ userId'[c] = None
        /\ userId[c] # None => Player(userId[c]) = None
    BY <1>1, <1>4 DEF EraseSession, Phase, Gone, Knows
  <2>2. Plays(c) = None /\ Plays(c)' = None
    BY <1>1, <2>1, PlaysWhom
  <2>3. Abstract!Disconnect(c)
    BY <1>2, <2>1, <2>2 DEF Abstract!Disconnect
  <2>4. QED
    BY <2>3 DEF Abstract!Next
<1>5. CASE SetUserId(c)
  <2>1. /\ sessions' = sessions /\ userId'[c] = loc[c].user
        /\ objUserMap' = objUserMap /\ Player(loc[c].user) = None
    BY <1>1, <1>5 DEF SetUserId, Knows, roomVars
  <2>2. Plays(c)' = None
    BY <1>1, <2>1, PlaysWhom DEF Player
  <2>3. CASE Plays(c) = None
    BY <1>2, <2>1, <2>2, <2>3 DEF Abstract!vars
  <2>4. CASE Plays(c) # None
    <3>1. [e \in Conn |-> Plays(e)]'
            = [[e \in Conn |-> Plays(e)] EXCEPT ![c] = None]
      BY <2>2, PlayerAt
    <3>2. Abstract!Leave(c)
      BY <2>1, <2>4, <3>1 DEF Abstract!Leave
    <3>3. QED
      BY <3>2 DEF Abstract!Next
  <2>5. QED
    BY <2>3, <2>4
<1>6. CASE AddInsert(c)
  <2>1. PICK u \in User : u = loc[c].user
    BY <1>1, <1>6 DEF AddInsert, Phase, Joining, Locals
  <2>2. /\ sessions' = sessions /\ c \in sessions /\ userId[c] = u
        /\ userId'[c] = u /\ Player(u) = None
        /\ loc[c].room = 1 /\ loc[c].obj \in Obj
    BY <1>1, <1>6, <2>1
       DEF AddInsert, Phase, Joining, Gone, Knows, InOnlyRoom, poolVars, Locals
  <2>3. objUserMap'[1][u] # None
    BY <1>1, <1>6, <2>1, <2>2, ObjNoneAssumption
       DEF AddInsert, Player, TypeOK
  <2>4. Plays(c) = None /\ Plays(c)' = u
    BY <1>1, <2>2, <2>3, PlaysWhom
  <2>5. \A e \in Conn : Plays(e) # u
    BY <1>1, <2>2, PlaysWhom
  <2>6. [e \in Conn |-> Plays(e)]'
          = [[e \in Conn |-> Plays(e)] EXCEPT ![c] = u]
    BY <2>4, PlayerAt
  <2>7. Abstract!Enter(c, u)
    BY <2>2, <2>4, <2>5, <2>6 DEF Abstract!Enter
  <2>8. QED
    BY <2>7 DEF Abstract!Next
<1>7. CASE Unlist(c)
  <2>1. PICK u \in User : u = loc[c].user
    BY <1>1, <1>7 DEF Unlist, Phase, Leaving, Locals
  <2>2. /\ sessions' = sessions /\ userId[c] = u /\ userId'[c] = u
        /\ loc[c].room = 1 /\ loc[c].it # None /\ Player(u) = loc[c].it
    BY <1>1, <1>7, <2>1
       DEF Unlist, Phase, Leaving, Knows, InOnlyRoom, poolVars
  <2>3. objUserMap'[1][u] = None
    BY <1>1, <1>7, <2>1, <2>2 DEF Unlist, Player, TypeOK
  <2>4. Plays(c) = u /\ Plays(c)' = None
    BY <1>1, <2>2, <2>3, PlaysWhom
  <2>5. [e \in Conn |-> Plays(e)]'
          = [[e \in Conn |-> Plays(e)] EXCEPT ![c] = None]
    BY <2>4, PlayerAt
  <2>6. Abstract!Leave(c)
    BY <1>1, <2>2, <2>4, <2>5 DEF Abstract!Leave
  <2>7. QED
    BY <2>6 DEF Abstract!Next
<1>8. CASE /\ ~CreateSession(c) /\ ~EraseSession(c) /\ ~SetUserId(c)
           /\ ~AddInsert(c) /\ ~Unlist(c)
  <2>1. UNCHANGED <<sessions, userId, objUserMap>>
    BY <1>8
       DEF Handles, Login, DeleteSession, sharedVars, poolVars, roomVars,
           AcceptClient, ReqLogin, CheckDuplicate, LoginUser, LoginUserFails,
           PickRoom, LoadLastRoomId, StoreLastRoomId, NewGameRoom,
           InsertGameRoom, ReadLastRoomId, AddObjUser, CreateResLogin,
           CopyForEnter, SendEnter, SendEnterDangling, SendEnterDone,
           SendResLogin, Disconnect, LookupObjUser, LeaveRoom, UnsetRoomId,
           CopyForExit, SendExit, SendExitDone, CloseSocket
  <2>2. Plays(c)' = Plays(c)
    BY <1>1, <2>1, PlaysWhom DEF Player
  <2>3. QED
    BY <1>2, <2>1, <2>2 DEF Abstract!vars
<1>9. QED
  BY <1>3, <1>4, <1>5, <1>6, <1>7, <1>8

\* In regular runs the handlers, whatever they interleave, implement Presence:
\* every step is one of its steps or changes neither who is online nor who
\* plays whom.
THEOREM RefinesPresence == Spec => ImplementsPresence
<1>1. ASSUME Init
      PROVE  Abstract!Init
  <2>1. \A c \in Conn : Plays(c) = None
    BY <1>1 DEF Init, Plays
  <2>2. QED
    BY <1>1, <2>1 DEF Init, Abstract!Init
<1>2. ASSUME IInv, IInv', [Next]_vars
      PROVE  [Regular' => Abstract!Next]_(Abstract!vars)
  <2>1. CASE status = "running" /\ Running /\ History
    <3>1. SUFFICES ASSUME Regular'
                   PROVE  Abstract!Next \/ UNCHANGED Abstract!vars
      OBVIOUS
    <3>2. ~contended /\ ~manyRooms
      BY <2>1, <3>1, Zenon DEF Regular, OneRoom, History
    <3>3. Settling /\ Settling'
      BY <1>2, <3>1, <3>2
         DEF IInv, Settling, FirstRoom, OwnUsers, Disciplined, Regular, OneRoom
    <3>4. CASE Unmoved
      <4>1. UNCHANGED <<sessions, userId, roomMap, objUserMap>>
        BY <3>4 DEF Unmoved
      <4>2. QED
        BY <4>1 DEF Abstract!vars, Plays, Players, Holding, Rooms
    <3>5. CASE \E c \in Conn : Handles(c)
      BY <3>3, <3>5, PresenceStep
    <3>6. QED
      BY <2>1, <3>4, <3>5, SomeHandlerMoves
  <2>2. CASE UNCHANGED vars
    <3>1. UNCHANGED <<sessions, userId, roomMap, objUserMap>>
      BY <2>2 DEF vars, sharedVars, poolVars, roomVars
    <3>2. QED
      BY <3>1 DEF Abstract!vars, Plays, Players, Holding, Rooms
  <2>3. QED
    BY <1>2, <2>1, <2>2 DEF Next, Halted
<1>3. QED
  BY <1>1, <1>2, Inductive, PTL DEF Spec, ImplementsPresence

=============================================================================
