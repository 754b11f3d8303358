------------------------------ MODULE DBLogin ------------------------------
(***************************************************************************)
(* The database half of a login: DBService::LoginUser, which connects      *)
(* through DBServer, looks the user up and registers one it does not find, *)
(* and disconnects.  Any ODBC call may fail, and the process may crash and *)
(* start again.                                                            *)
(*                                                                         *)
(* ODBC and the tables behind it are external.  Autocommit is off, so the  *)
(* rows a connection inserts are its own until SQLEndTran; a row with the  *)
(* key of another one cannot be inserted.  The first statement executed,   *)
(* also a SELECT, begins a transaction, which only SQLEndTran ends, and    *)
(* while it is open SQLDisconnect may refuse; when it does not, it frees   *)
(* the statements of the connection.  A call on a handle that is gone      *)
(* fails.  The environment handle comes and goes with the connection's.    *)
(***************************************************************************)

CONSTANTS
  Worker,    \* threads that serve logins
  User,      \* user ids
  Password,  \* passwords
  Empty,     \* the empty one
  Dbc,       \* connection handles
  None       \* null, or no value

\* What a login is accepted as: the user that was found, the ObjUser without an
\* id and a password that comes of a row that was not read, or a new user.
Accepted == {"accepted", "accepted unread", "registered"}

\* What a login comes to.
Ending ==
  Accepted \cup {"incorrect password", "not registered", "no database"}

ASSUME EmptyAssumption == Empty \in Password

ASSUME NoneAssumption ==
  None \notin Worker \cup User \cup Password \cup Dbc \cup Ending

VARIABLES
  isConnected, \* DBServer::isConnected
  hDbc,        \* DBServer::hDbc
  serviceDbc,  \* DBService::hDbc
  dbc,         \* dbc[d]: whether d is "free", "allocated" or "connected"
  inTrans,     \* the handles that have a transaction open
  pending,     \* pending[d]: rows inserted and not committed
  rows,        \* rows committed, which outlive the process
  pc,          \* where a worker is
  req,         \* the user id and the password it serves
  hStmt,       \* the connection of its statement, None when it has none
  result,      \* the outcome of its last login
  overlapped   \* history: whether two logins were ever served at once

serverVars == <<isConnected, hDbc, serviceDbc>>
dbVars     == <<dbc, inTrans, pending, rows>>
localVars  == <<req, hStmt, result>>
vars       == <<serverVars, dbVars, pc, localVars, overlapped>>

UserRow      == [table : {"user"}, id : User, password : Password]
TransformRow == [table : {"user_transform"}, id : User]
Row          == UserRow \cup TransformRow

Pc == {"idle", "isConnected", "check", "alloc", "connect", "connected",
       "stmt", "find", "fetch", "insertUser", "insertTransform", "rollback",
       "commit", "freeStmt", "disconnect", "freeDbc", "clear"}

TypeOK ==
  /\ isConnected \in BOOLEAN
  /\ hDbc \in Dbc \cup {None}
  /\ serviceDbc \in Dbc \cup {None}
  /\ dbc \in [Dbc -> {"free", "allocated", "connected"}]
  /\ inTrans \subseteq Dbc
  /\ pending \in [Dbc -> SUBSET Row]
  /\ rows \subseteq Row
  /\ pc \in [Worker -> Pc]
  /\ req \in [Worker -> [id : User \cup {None},
                       password : Password \cup {None}]]
  /\ hStmt \in [Worker -> Dbc \cup {None}]
  /\ result \in [Worker -> Ending \cup {None}]
  /\ overlapped \in BOOLEAN

NoReq == [id |-> None, password |-> None]

Init ==
  /\ isConnected = FALSE
  /\ hDbc = None
  /\ serviceDbc = None
  /\ dbc = [d \in Dbc |-> "free"]
  /\ inTrans = {}
  /\ pending = [d \in Dbc |-> {}]
  /\ rows = {}
  /\ pc = [w \in Worker |-> "idle"]
  /\ req = [w \in Worker |-> NoReq]
  /\ hStmt = [w \in Worker |-> None]
  /\ result = [w \in Worker |-> None]
  /\ overlapped = FALSE

-----------------------------------------------------------------------------
(* Connecting: DBService::DBStart and DBServer::DBConnect. *)

Goto(w, place) ==
  /\ pc' = [pc EXCEPT ![w] = place]
  /\ overlapped' = (overlapped \/ \E v \in Worker \ {w} :
                                   pc[v] # "idle" /\ place # "idle")

Step(w, from, to) == pc[w] = from /\ Goto(w, to)

Outcome(w, outcome) == result' = [result EXCEPT ![w] = outcome]

\* DBStart has no statement: the login is over, and DBEnd is not called.
NoDatabase(w) ==
  /\ Goto(w, "idle")
  /\ Outcome(w, "no database")
  /\ req' = [req EXCEPT ![w] = NoReq]

LoginUser(w, u, p) ==
  /\ Step(w, "idle", "isConnected")
  /\ req' = [req EXCEPT ![w] = [id |-> u, password |-> p]]
  /\ Outcome(w, None)
  /\ UNCHANGED <<serverVars, dbVars, hStmt>>

\* DBService::DBConnect.
GetIsConnected(w) ==
  /\ Step(w, "isConnected", IF isConnected THEN "stmt" ELSE "check")
  /\ UNCHANGED <<serverVars, dbVars, localVars>>

\* DBServer::DBConnect looks again, and fails when somebody else was faster.
CheckIsConnected(w) ==
  /\ pc[w] = "check"
  /\ \/ /\ isConnected
        /\ NoDatabase(w)
     \/ /\ ~isConnected
        /\ Goto(w, "alloc")
        /\ UNCHANGED <<req, result>>
  /\ UNCHANGED <<serverVars, dbVars, hStmt>>

AllocDbc(w, d) ==
  /\ Step(w, "alloc", "connect")
  /\ dbc[d] = "free"
  /\ dbc' = [dbc EXCEPT ![d] = "allocated"]
  /\ hDbc' = d
  /\ UNCHANGED <<isConnected, serviceDbc, inTrans, pending, rows, localVars>>

SQLConnect(w) ==
  /\ Step(w, "connect", "connected")
  /\ hDbc # None /\ dbc[hDbc] = "allocated"
  /\ dbc' = [dbc EXCEPT ![hDbc] = "connected"]
  /\ UNCHANGED <<serverVars, inTrans, pending, rows, localVars>>

\* Any call of DBServer::DBConnect fails: what was allocated stays behind.  An
\* SQLAllocHandle that fails has set its handle to null.
AllocDbcFails(w) ==
  /\ pc[w] = "alloc"
  /\ NoDatabase(w)
  /\ hDbc' \in {hDbc, None}
  /\ UNCHANGED <<isConnected, serviceDbc, dbVars, hStmt>>

SQLConnectFails(w) ==
  /\ pc[w] = "connect"
  /\ NoDatabase(w)
  /\ UNCHANGED <<serverVars, dbVars, hStmt>>

SetIsConnected(w) ==
  /\ Step(w, "connected", "stmt")
  /\ isConnected' = TRUE
  /\ UNCHANGED <<hDbc, serviceDbc, dbVars, localVars>>

\* GetHDBC and SQLAllocHandle for the statement.
AllocStmt(w) ==
  /\ Step(w, "stmt", "find")
  /\ hDbc # None /\ dbc[hDbc] = "connected"
  /\ serviceDbc' = hDbc
  /\ hStmt' = [hStmt EXCEPT ![w] = hDbc]
  /\ UNCHANGED <<isConnected, hDbc, dbVars, req, result>>

AllocStmtFails(w) ==
  /\ pc[w] = "stmt"
  /\ serviceDbc' = hDbc
  /\ NoDatabase(w)
  /\ UNCHANGED <<isConnected, hDbc, dbVars, hStmt>>

-----------------------------------------------------------------------------
(* Looking up and registering: SQLServiceUser. *)

\* The rows a statement on the connection sees.
Visible(d) == rows \cup pending[d]

\* A statement is executed on the connection: its transaction is open.
Executes(w) == hStmt[w] # None /\ inTrans' = inTrans \cup {hStmt[w]}

\* A call that fails may have executed nothing.
ExecuteFails(w) == Executes(w) \/ UNCHANGED inTrans

\* SQLPrepare and SQLExecute in GetUserObj; when they fail there is no user.
FindUser(w) ==
  /\ pc[w] = "find"
  /\ \/ Executes(w) /\ Goto(w, "fetch")
     \/ ExecuteFails(w) /\ Goto(w, "insertUser")
  /\ UNCHANGED <<serverVars, dbc, pending, rows, localVars>>

\* SQLFetch finds the user, and the passwords are compared.
FetchUser(w) ==
  /\ Step(w, "fetch", "freeStmt")
  /\ hStmt[w] # None
  /\ \E r \in Visible(hStmt[w]) \cap UserRow :
       /\ r.id = req[w].id
       /\ Outcome(w, IF r.password = req[w].password
                     THEN "accepted" ELSE "incorrect password")
  /\ UNCHANGED <<serverVars, dbVars, req, hStmt>>

FetchNoUser(w) ==
  /\ Step(w, "fetch", "insertUser")
  /\ hStmt[w] # None
  /\ \A r \in Visible(hStmt[w]) \cap UserRow : r.id # req[w].id
  /\ UNCHANGED <<serverVars, dbVars, localVars>>

\* Whatever is not SQL_NO_DATA counts as a row.  A fetch that fails leaves the
\* columns as they were initialised: a user without an id, whose password is
\* the empty one.
FetchFails(w) ==
  /\ Step(w, "fetch", "freeStmt")
  /\ Outcome(w, IF req[w].password = Empty
                THEN "accepted unread" ELSE "incorrect password")
  /\ UNCHANGED <<serverVars, dbVars, req, hStmt>>

\* No row, committed or not, has the key.
KeyFree(table, u) ==
  \A r \in rows \cup UNION {pending[d] : d \in Dbc} :
    ~(r.table = table /\ r.id = u)

Insert(w, row) ==
  /\ Executes(w)
  /\ KeyFree(row.table, row.id)
  /\ pending' = [pending EXCEPT ![hStmt[w]] = @ \cup {row}]

NewUser(w) ==
  [table |-> "user", id |-> req[w].id, password |-> req[w].password]

\* Mutant: the row of the user is committed before that of its transform.
InsertUserOnly_Autocommit(w) ==
  /\ Step(w, "insertUser", "insertTransform")
  /\ Executes(w)
  /\ KeyFree("user", req[w].id)
  /\ rows' = rows \cup {NewUser(w)}
  /\ UNCHANGED <<serverVars, dbc, pending, localVars>>

\* Mutant: the parameter of the password is not bound.
InsertUserOnly_NoPassword(w) ==
  /\ Step(w, "insertUser", "insertTransform")
  /\ Insert(w, [NewUser(w) EXCEPT !.password = None])
  /\ UNCHANGED <<serverVars, dbc, rows, localVars>>

InsertUserOnly(w) ==
  /\ Step(w, "insertUser", "insertTransform")
  /\ Insert(w, NewUser(w))
  /\ UNCHANGED <<serverVars, dbc, rows, localVars>>

InsertUserTransform(w) ==
  /\ Step(w, "insertTransform", "commit")
  /\ Insert(w, [table |-> "user_transform", id |-> req[w].id])
  /\ UNCHANGED <<serverVars, dbc, rows, localVars>>

InsertUserFails(w) ==
  /\ Step(w, "insertUser", "freeStmt")
  /\ ExecuteFails(w)
  /\ Outcome(w, "not registered")
  /\ UNCHANGED <<serverVars, dbc, pending, rows, req, hStmt>>

InsertTransformFails(w) ==
  /\ Step(w, "insertTransform", "rollback")
  /\ ExecuteFails(w)
  /\ Outcome(w, "not registered")
  /\ UNCHANGED <<serverVars, dbc, pending, rows, req, hStmt>>

\* SQLEndTran takes DBService::hDbc as it is now.
EndTran ==
  /\ serviceDbc # None
  /\ pending' = [pending EXCEPT ![serviceDbc] = {}]
  /\ inTrans' = inTrans \ {serviceDbc}

\* The rollback may fail.
Rollback(w) ==
  /\ Step(w, "rollback", "freeStmt")
  /\ EndTran \/ UNCHANGED <<pending, inTrans>>
  /\ UNCHANGED <<serverVars, dbc, rows, localVars>>

CommitPending ==
  /\ EndTran
  /\ dbc[serviceDbc] = "connected"
  /\ rows' = rows \cup pending[serviceDbc]

Commit(w) ==
  /\ Step(w, "commit", "freeStmt")
  /\ CommitPending
  /\ Outcome(w, "registered")
  /\ UNCHANGED <<serverVars, dbc, req, hStmt>>

\* Mutant: the result of the commit is not looked at.
CommitFails_Accepted(w) ==
  /\ Step(w, "commit", "freeStmt")
  /\ CommitPending \/ UNCHANGED <<inTrans, pending, rows>>
  /\ Outcome(w, "registered")
  /\ UNCHANGED <<serverVars, dbc, req, hStmt>>

\* A commit that fails may have been done by the database nevertheless.
CommitFails(w) ==
  /\ Step(w, "commit", "freeStmt")
  /\ CommitPending \/ UNCHANGED <<inTrans, pending, rows>>
  /\ Outcome(w, "not registered")
  /\ UNCHANGED <<serverVars, dbc, req, hStmt>>

-----------------------------------------------------------------------------
(* Disconnecting: DBService::DBEnd and DBServer::DBDisconnect. *)

\* Mutant: DBEnd only frees the statement.
FreeStmt_Returns(w) ==
  /\ Step(w, "freeStmt", "idle")
  /\ hStmt' = [hStmt EXCEPT ![w] = None]
  /\ req' = [req EXCEPT ![w] = NoReq]
  /\ UNCHANGED <<serverVars, dbVars, result>>

FreeStmt(w) ==
  /\ Step(w, "freeStmt", "disconnect")
  /\ hStmt' = [hStmt EXCEPT ![w] = None]
  /\ UNCHANGED <<serverVars, dbVars, req, result>>

NothingToDisconnect(w) ==
  /\ Step(w, "disconnect", "idle")
  /\ ~isConnected
  /\ req' = [req EXCEPT ![w] = NoReq]
  /\ UNCHANGED <<serverVars, dbVars, hStmt, result>>

\* A connection that is closed forgets its statements and its transaction.
SQLDisconnect(w) ==
  /\ Step(w, "disconnect", "freeDbc")
  /\ isConnected /\ hDbc # None
  /\ dbc[hDbc] = "connected"
  /\ dbc' = [dbc EXCEPT ![hDbc] = "allocated"]
  /\ inTrans' = inTrans \ {hDbc}
  /\ pending' = [pending EXCEPT ![hDbc] = {}]
  /\ hStmt' = [v \in Worker |-> IF hStmt[v] = hDbc THEN None ELSE hStmt[v]]
  /\ UNCHANGED <<serverVars, rows, req, result>>

\* There is no handle, or it is not connected, or has its transaction open.
SQLDisconnectFails(w) ==
  /\ Step(w, "disconnect", "freeDbc")
  /\ isConnected
  /\ hDbc # None => dbc[hDbc] # "connected" \/ hDbc \in inTrans
  /\ UNCHANGED <<serverVars, dbVars, localVars>>

\* A handle that is still connected is not freed.
FreeDbc(w) ==
  /\ Step(w, "freeDbc", "clear")
  /\ dbc' = IF hDbc # None /\ dbc[hDbc] = "allocated"
            THEN [dbc EXCEPT ![hDbc] = "free"] ELSE dbc
  /\ UNCHANGED <<serverVars, inTrans, pending, rows, localVars>>

\* Mutant: the flag is left set.
ClearIsConnected_Kept(w) ==
  /\ Step(w, "clear", "idle")
  /\ req' = [req EXCEPT ![w] = NoReq]
  /\ UNCHANGED <<serverVars, dbVars, hStmt, result>>

ClearIsConnected(w) ==
  /\ Step(w, "clear", "idle")
  /\ isConnected' = FALSE
  /\ req' = [req EXCEPT ![w] = NoReq]
  /\ UNCHANGED <<hDbc, serviceDbc, dbVars, hStmt, result>>

\* The process ends at any point, and a new one starts: only rows survive.
Crash ==
  /\ isConnected' = FALSE
  /\ hDbc' = None
  /\ serviceDbc' = None
  /\ dbc' = [d \in Dbc |-> "free"]
  /\ inTrans' = {}
  /\ pending' = [d \in Dbc |-> {}]
  /\ pc' = [w \in Worker |-> "idle"]
  /\ req' = [w \in Worker |-> NoReq]
  /\ hStmt' = [w \in Worker |-> None]
  /\ result' = [w \in Worker |-> None]
  /\ UNCHANGED <<rows, overlapped>>

DBStart(w) ==
  \/ \E u \in User, p \in Password : LoginUser(w, u, p)
  \/ GetIsConnected(w)
  \/ CheckIsConnected(w)
  \/ \E d \in Dbc : AllocDbc(w, d)
  \/ SQLConnect(w)
  \/ AllocDbcFails(w)
  \/ SQLConnectFails(w)
  \/ SetIsConnected(w)
  \/ AllocStmt(w)
  \/ AllocStmtFails(w)

GetOrInsertUser(w) ==
  \/ FindUser(w)
  \/ FetchUser(w)
  \/ FetchNoUser(w)
  \/ FetchFails(w)
  \/ InsertUserOnly(w)
  \/ InsertUserFails(w)
  \/ InsertUserTransform(w)
  \/ InsertTransformFails(w)
  \/ Rollback(w)
  \/ Commit(w)
  \/ CommitFails(w)

DBEnd(w) ==
  \/ FreeStmt(w)
  \/ NothingToDisconnect(w)
  \/ SQLDisconnect(w)
  \/ SQLDisconnectFails(w)
  \/ FreeDbc(w)
  \/ ClearIsConnected(w)

Process(w) == DBStart(w) \/ GetOrInsertUser(w) \/ DBEnd(w)

Next == Crash \/ \E w \in Worker : Process(w)

Spec == Init /\ [][Next]_vars

-----------------------------------------------------------------------------
(* Properties.  All but TypeOK are about logins one after the other: two    *)
(* at once share the flag, the handles and the transaction, and break them. *)

\* A user is registered with its transform or not at all, whichever call fails
\* and wherever the process stops (the transaction of InsertUser).
RegisteredWhole ==
  ~overlapped => \A u \in User :
    (\E r \in rows \cap UserRow : r.id = u) <=>
      [table |-> "user_transform", id |-> u] \in rows

\* A login that is accepted, also one that registered, is for a user the
\* database has with that password, until the client is told; but when the row
\* could not be read anybody without a password is accepted (LoginUser).
AcceptedIsStored ==
  ~overlapped => \A w \in Worker :
    result[w] \in Accepted /\ req[w].id # None =>
      \/ NewUser(w) \in rows
      \/ result[w] = "accepted unread" /\ req[w].password = Empty

\* Between logins isConnected is true only of a connection that works: what a
\* failed login leaves never makes the next ones fail (DBServer::isConnected).
ConnectedIsAlive ==
  ~overlapped /\ (\A w \in Worker : pc[w] = "idle") /\ isConnected =>
    /\ hDbc # None /\ dbc[hDbc] = "connected"
    /\ pending[hDbc] = {} /\ hDbc \notin inTrans

\* A login that ends, accepted or refused for its password, leaves the flag
\* cleared and no row pending.  One that registered leaves its connection
\* closed and freed; the others may have left it behind: nothing ends the
\* transaction of their SELECT, and DBDisconnect ignores a refusal (DBEnd).
Disconnected ==
  [][\A w \in Worker :
       /\ ~overlapped'
       /\ pc[w] # "idle" /\ pc'[w] = "idle"
       /\ result'[w] \in Accepted \cup {"incorrect password"}
       => /\ ~isConnected' /\ pending'[hDbc'] = {}
          /\ \/ dbc'[hDbc'] = "free"
             \/ result'[w] # "registered" /\ hDbc' \in inTrans']_vars
=============================================================================
