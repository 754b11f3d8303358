---------------------------- MODULE DBLoginProofs ----------------------------
(***************************************************************************)
(* Proofs about DBLogin, for any number of workers, users, passwords and   *)
(* connection handles, with every failure of a call and crashes anywhere.  *)
(***************************************************************************)
EXTENDS DBLogin, TLAPS

\* A worker has a request exactly while it serves one.
Serving ==
  \A w \in Worker :
    IF pc[w] = "idle" THEN req[w] = NoReq
    ELSE req[w] \in [id : User, password : Password]

\* One login at a time.
Alone == \A v, w \in Worker : v # w => pc[v] = "idle" \/ pc[w] = "idle"

\* Only a connection that is open has a transaction, and rows pending.
Unpending ==
  \A d \in Dbc : dbc[d] # "connected" => pending[d] = {} /\ d \notin inTrans

HasUser(u) == \E r \in rows \cap UserRow : r.id = u
TransformOf(u) == [table |-> "user_transform", id |-> u]

Whole == \A u \in User : HasUser(u) <=> TransformOf(u) \in rows

Stored ==
  \A w \in Worker :
    result[w] \in Accepted /\ req[w].id # None =>
      \/ NewUser(w) \in rows
      \/ result[w] = "accepted unread" /\ req[w].password = Empty

\* The connection of the server is open and has exactly these rows pending.
Open == hDbc # None /\ dbc[hDbc] = "connected"
OpenWith(R) == Open /\ pending[hDbc] = R
Fresh == OpenWith({}) /\ hDbc \notin inTrans

\* A login that one of these ends: the database has said yes or no to it.
Decided == Accepted \cup {"incorrect password"}

\* What the flag promises when nobody is connecting.
Alive == isConnected => Fresh

\* The statement of w and the connection SQLEndTran takes are the server's.
Using(w) == isConnected /\ Open /\ hStmt[w] = hDbc /\ serviceDbc = hDbc

\* What a worker that is alone has brought about where it is.
Connecting(w) ==
  /\ pc[w] = "isConnected" => Alive
  /\ pc[w] \in {"check", "alloc", "connect", "connected"} => ~isConnected
  /\ pc[w] = "connect" => hDbc # None /\ dbc[hDbc] = "allocated"
  /\ pc[w] = "connected" => Fresh
  /\ pc[w] = "stmt" => isConnected /\ Fresh

Registering(w) ==
  /\ pc[w] \in {"find", "fetch", "insertUser", "insertTransform", "commit",
                "rollback"} => Using(w)
  /\ pc[w] \in {"find", "fetch", "insertUser"} => OpenWith({})
  /\ pc[w] = "insertTransform" => OpenWith({NewUser(w)})
  /\ pc[w] = "commit" => OpenWith({NewUser(w), TransformOf(req[w].id)})

Disconnecting(w) ==
  /\ pc[w] \in {"freeStmt", "disconnect"} => isConnected /\ Open
  /\ result[w] \in Decided =>
       /\ pc[w] \in {"idle", "freeStmt", "disconnect", "freeDbc", "clear"}
       /\ pc[w] \in {"freeStmt", "disconnect"} => OpenWith({})
       /\ pc[w] \in {"freeDbc", "clear"} =>
            /\ hDbc # None /\ pending[hDbc] = {}
            /\ \/ dbc[hDbc] = IF pc[w] = "clear" THEN "free" ELSE "allocated"
               \/ result[w] # "registered" /\ hDbc \in inTrans
  /\ result[w] = "registered" /\ pc[w] \in {"freeStmt", "disconnect"} =>
       hDbc \notin inTrans

Working ==
  \A w \in Worker : Connecting(w) /\ Registering(w) /\ Disconnecting(w)

Between == (\A w \in Worker : pc[w] = "idle") => Alive

Apart == Alone /\ Unpending /\ Whole /\ Stored /\ Working /\ Between

IInv == TypeOK /\ Serving /\ (~overlapped => Apart)

USE DEF serverVars, dbVars, localVars

\* A step of w while logins come one at a time: the others are idle.
LEMMA Solo ==
  ASSUME IInv, NEW w \in Worker, NEW place,
         Goto(w, place), pc[w] # "idle" \/ place # "idle", ~overlapped'
  PROVE  /\ Apart
         /\ \A v \in Worker \ {w} : pc[v] = "idle" /\ pc'[v] = "idle"
<1>1. Apart
  BY DEF IInv, TypeOK, Goto
<1>2. \A v \in Worker \ {w} : pc[v] = "idle"
  <2>1. CASE pc[w] # "idle"
    BY <1>1, <2>1 DEF Apart, Alone
  <2>2. CASE place # "idle"
    BY <2>2 DEF IInv, TypeOK, Goto
  <2> QED
    BY <2>1, <2>2
<1> QED
  BY <1>1, <1>2 DEF IInv, TypeOK, Goto

\* What a login must have brought about at w when the others are idle.
Owing(w) ==
  /\ result[w] \in Accepted /\ req[w].id # None =>
       \/ NewUser(w) \in rows
       \/ result[w] = "accepted unread" /\ req[w].password = Empty
  /\ Connecting(w) /\ Registering(w) /\ Disconnecting(w)
  /\ pc[w] = "idle" => Alive

\* After a step in which the others are idle only w has anything to keep.
LEMMA Join ==
  ASSUME NEW w \in Worker, Serving',
         \A v \in Worker \ {w} : pc'[v] = "idle",
         Unpending', Whole', Owing(w)'
  PROVE  Apart'
<1>1. ASSUME NEW v \in Worker \ {w}
      PROVE  /\ req'[v].id = None
             /\ Connecting(v)' /\ Registering(v)' /\ Disconnecting(v)'
  <2>1. pc'[v] = "idle" /\ req'[v] = NoReq
    BY <1>1 DEF Serving
  <2> QED
    BY <2>1 DEF NoReq, Connecting, Registering, Disconnecting
<1>2. Alone'
  BY DEF Alone
<1>3. Stored'
  BY <1>1 DEF Stored, Owing
<1>4. Working'
  BY <1>1 DEF Working, Owing
<1>5. Between'
  BY DEF Between, Owing
<1> QED
  BY <1>2, <1>3, <1>4, <1>5 DEF Apart

\* A login that begins: the others are idle and the flag can be trusted.
LEMMA LoginUserStep ==
  ASSUME IInv, NEW w \in Worker, NEW u \in User, NEW p \in Password,
         LoginUser(w, u, p)
  PROVE  IInv'
<1>1. TypeOK'
  BY DEF IInv, TypeOK, LoginUser, Step, Goto, Outcome, Pc, Ending, Accepted,
         Decided
<1>2. Serving'
  BY DEF IInv, TypeOK, Serving, LoginUser, Step, Goto
<1>3. ASSUME ~overlapped' PROVE Apart'
  <2>1. Apart /\ \A v \in Worker \ {w} : pc[v] = "idle" /\ pc'[v] = "idle"
    BY <1>3, Solo DEF LoginUser, Step
  <2>2. Owing(w)'
    BY <2>1, NoneAssumption
       DEF IInv, TypeOK, Apart, Between, Alive, Open, OpenWith, Fresh, Owing,
           Ending, Accepted, Decided, LoginUser, Step, Goto, Outcome,
           Connecting, Registering, Disconnecting
  <2>3. Unpending' /\ Whole'
    BY <2>1 DEF Apart, Unpending, Whole, HasUser, LoginUser
  <2> QED
    BY <1>2, <2>1, <2>2, <2>3, Join
<1> QED
  BY <1>1, <1>2, <1>3 DEF IInv

\* The flag that is read tells whether there is a connection that works.
LEMMA GetIsConnectedStep ==
  ASSUME IInv, NEW w \in Worker, GetIsConnected(w)
  PROVE  IInv'
<1>1. TypeOK'
  BY DEF IInv, TypeOK, GetIsConnected, Step, Goto, Pc
<1>2. Serving'
  BY DEF IInv, TypeOK, Serving, GetIsConnected, Step, Goto
<1>3. ASSUME ~overlapped' PROVE Apart'
  <2>1. Apart /\ \A v \in Worker \ {w} : pc[v] = "idle" /\ pc'[v] = "idle"
    BY <1>3, Solo DEF GetIsConnected, Step
  <2>2. Owing(w)'
    BY <2>1
       DEF IInv, TypeOK, Apart, Working, Stored, Alive, Open, OpenWith, Fresh,
                Owing, NewUser, GetIsConnected, Step, Goto, 
                Connecting, Registering, Disconnecting
  <2>3. Unpending' /\ Whole'
    BY <2>1 DEF Apart, Unpending, Whole, HasUser, GetIsConnected
  <2> QED
    BY <1>2, <2>1, <2>2, <2>3, Join
<1> QED
  BY <1>1, <1>2, <1>3 DEF IInv

\* A login that is refused leaves its worker as one that has no login.
LEMMA NoDatabaseTypeOK ==
  ASSUME IInv, NEW w \in Worker, NoDatabase(w)
  PROVE  /\ pc' \in [Worker -> Pc]
         /\ req' \in [Worker -> [id : User \cup {None},
                                password : Password \cup {None}]]
         /\ result' \in [Worker -> Ending \cup {None}]
         /\ overlapped' \in BOOLEAN
<1>1. pc' \in [Worker -> Pc] /\ overlapped' \in BOOLEAN
  BY DEF IInv, TypeOK, NoDatabase, Goto, Pc
<1>2. req' \in [Worker -> [id : User \cup {None},
                          password : Password \cup {None}]]
  BY DEF IInv, TypeOK, NoDatabase, NoReq
<1>3. result' \in [Worker -> Ending \cup {None}]
  BY DEF IInv, TypeOK, NoDatabase, Outcome, Ending, Accepted, Decided
<1> QED
  BY <1>1, <1>2, <1>3

\* The second look at the flag finds what the first one did.
LEMMA CheckIsConnectedStep ==
  ASSUME IInv, NEW w \in Worker, CheckIsConnected(w)
  PROVE  IInv'
<1>1. TypeOK'
  <2>1. CASE isConnected
    BY <2>1, NoDatabaseTypeOK DEF IInv, TypeOK, CheckIsConnected
  <2>2. CASE ~isConnected
    BY <2>2 DEF IInv, TypeOK, CheckIsConnected, Goto, Pc
  <2> QED
    BY <2>1, <2>2
<1>2. Serving'
  BY DEF IInv, TypeOK, Serving, CheckIsConnected, Goto, NoDatabase, NoReq
<1>3. ASSUME ~overlapped' PROVE Apart'
  <2>1. Apart /\ \A v \in Worker \ {w} : pc[v] = "idle" /\ pc'[v] = "idle"
    BY <1>3, Solo DEF CheckIsConnected, NoDatabase
  <2>2. Owing(w)'
    BY <2>1, NoneAssumption
       DEF IInv, TypeOK, Apart, Working, Alive, Open, OpenWith, Fresh, Stored,
           NewUser, Owing, CheckIsConnected, Goto, NoDatabase, Outcome, NoReq,
           Ending, Accepted, Decided, Connecting, Registering, Disconnecting
  <2>3. Unpending' /\ Whole'
    BY <2>1 DEF Apart, Unpending, Whole, HasUser, CheckIsConnected
  <2> QED
    BY <1>2, <2>1, <2>2, <2>3, Join
<1> QED
  BY <1>1, <1>2, <1>3 DEF IInv

\* A handle that was free has nothing pending on it.
LEMMA AllocDbcStep ==
  ASSUME IInv, NEW w \in Worker, NEW d \in Dbc, AllocDbc(w, d)
  PROVE  IInv'
<1>1. TypeOK'
  BY DEF IInv, TypeOK, AllocDbc, Step, Goto, Pc
<1>2. Serving'
  BY DEF IInv, TypeOK, Serving, AllocDbc, Step, Goto
<1>3. ASSUME ~overlapped' PROVE Apart'
  <2>1. Apart /\ \A v \in Worker \ {w} : pc[v] = "idle" /\ pc'[v] = "idle"
    BY <1>3, Solo DEF AllocDbc, Step
  <2>2. Owing(w)'
    BY <2>1, NoneAssumption
       DEF IInv, TypeOK, Apart, Working, Alive, Open, OpenWith, Fresh, Stored,
           NewUser, Owing, AllocDbc, Step, Goto, Connecting, Registering,
           Disconnecting
  <2>3. Unpending' /\ Whole'
    BY <2>1 DEF Apart, Unpending, Whole, HasUser, AllocDbc
  <2> QED
    BY <1>2, <2>1, <2>2, <2>3, Join
<1> QED
  BY <1>1, <1>2, <1>3 DEF IInv

\* The connection is opened on the handle that was allocated, with nothing
\* pending.
LEMMA SQLConnectStep ==
  ASSUME IInv, NEW w \in Worker, SQLConnect(w)
  PROVE  IInv'
<1>1. TypeOK'
  BY DEF IInv, TypeOK, SQLConnect, Step, Goto, Pc
<1>2. Serving'
  BY DEF IInv, TypeOK, Serving, SQLConnect, Step, Goto
<1>3. ASSUME ~overlapped' PROVE Apart'
  <2>1. Apart /\ \A v \in Worker \ {w} : pc[v] = "idle" /\ pc'[v] = "idle"
    BY <1>3, Solo DEF SQLConnect, Step
  <2>2. Owing(w)'
    BY <2>1, NoneAssumption
       DEF IInv, TypeOK, Apart, Working, Alive, Open, OpenWith, Fresh, Stored,
           NewUser, Unpending, Owing, SQLConnect, Step, Goto, Connecting,
           Registering, Disconnecting
  <2>3. Unpending' /\ Whole'
    BY <2>1 DEF Apart, Unpending, Whole, HasUser, SQLConnect
  <2> QED
    BY <1>2, <2>1, <2>2, <2>3, Join
<1> QED
  BY <1>1, <1>2, <1>3 DEF IInv

\* A handle that cannot be allocated leaves the flag cleared.
LEMMA AllocDbcFailsStep ==
  ASSUME IInv, NEW w \in Worker, AllocDbcFails(w)
  PROVE  IInv'
<1>1. TypeOK'
  BY DEF IInv, TypeOK, AllocDbcFails, Goto, NoDatabase, Outcome, NoReq, Pc,
         Ending, Accepted, Decided
<1>2. Serving'
  BY DEF IInv, TypeOK, Serving, AllocDbcFails, Goto, NoDatabase, NoReq
<1>3. ASSUME ~overlapped' PROVE Apart'
  <2>1. Apart /\ \A v \in Worker \ {w} : pc[v] = "idle" /\ pc'[v] = "idle"
    BY <1>3, Solo DEF AllocDbcFails, NoDatabase
  <2>2. Owing(w)'
    BY <2>1, NoneAssumption
       DEF IInv, TypeOK, Apart, Working, Alive, Open, OpenWith, Fresh, Owing,
           AllocDbcFails, Goto, NoDatabase, Outcome, NoReq, Ending, Accepted,
           Decided, Connecting, Registering, Disconnecting
  <2>3. Unpending' /\ Whole'
    BY <2>1 DEF Apart, Unpending, Whole, HasUser, AllocDbcFails
  <2> QED
    BY <1>2, <2>1, <2>2, <2>3, Join
<1> QED
  BY <1>1, <1>2, <1>3 DEF IInv

\* Nor does a connection that cannot be opened set it.
LEMMA SQLConnectFailsStep ==
  ASSUME IInv, NEW w \in Worker, SQLConnectFails(w)
  PROVE  IInv'
<1>1. TypeOK'
  BY DEF IInv, TypeOK, SQLConnectFails, Goto, NoDatabase, Outcome, NoReq, Pc,
         Ending, Accepted, Decided
<1>2. Serving'
  BY DEF IInv, TypeOK, Serving, SQLConnectFails, Goto, NoDatabase, NoReq
<1>3. ASSUME ~overlapped' PROVE Apart'
  <2>1. Apart /\ \A v \in Worker \ {w} : pc[v] = "idle" /\ pc'[v] = "idle"
    BY <1>3, Solo DEF SQLConnectFails, NoDatabase
  <2>2. Owing(w)'
    BY <2>1, NoneAssumption
       DEF IInv, TypeOK, Apart, Working, Alive, Open, OpenWith, Fresh, Owing,
           SQLConnectFails, Goto, NoDatabase, Outcome, NoReq, Ending,
           Accepted, Decided, Connecting, Registering, Disconnecting
  <2>3. Unpending' /\ Whole'
    BY <2>1 DEF Apart, Unpending, Whole, HasUser, SQLConnectFails
  <2> QED
    BY <1>2, <2>1, <2>2, <2>3, Join
<1> QED
  BY <1>1, <1>2, <1>3 DEF IInv

\* The flag is set when the connection works.
LEMMA SetIsConnectedStep ==
  ASSUME IInv, NEW w \in Worker, SetIsConnected(w)
  PROVE  IInv'
<1>1. TypeOK'
  BY DEF IInv, TypeOK, SetIsConnected, Step, Goto, Pc
<1>2. Serving'
  BY DEF IInv, TypeOK, Serving, SetIsConnected, Step, Goto
<1>3. ASSUME ~overlapped' PROVE Apart'
  <2>1. Apart /\ \A v \in Worker \ {w} : pc[v] = "idle" /\ pc'[v] = "idle"
    BY <1>3, Solo DEF SetIsConnected, Step
  <2>2. Owing(w)'
    BY <2>1, NoneAssumption
       DEF IInv, TypeOK, Apart, Working, Alive, Open, OpenWith, Fresh, Stored,
           NewUser, Owing, SetIsConnected, Step, Goto, Connecting, Registering,
           Disconnecting
  <2>3. Unpending' /\ Whole'
    BY <2>1 DEF Apart, Unpending, Whole, HasUser, SetIsConnected
  <2> QED
    BY <1>2, <2>1, <2>2, <2>3, Join
<1> QED
  BY <1>1, <1>2, <1>3 DEF IInv

\* The statement and the transaction are on the server's connection.
LEMMA AllocStmtStep ==
  ASSUME IInv, NEW w \in Worker, AllocStmt(w)
  PROVE  IInv'
<1>1. TypeOK'
  BY DEF IInv, TypeOK, AllocStmt, Step, Goto, Pc
<1>2. Serving'
  BY DEF IInv, TypeOK, Serving, AllocStmt, Step, Goto
<1>3. ASSUME ~overlapped' PROVE Apart'
  <2>1. Apart /\ \A v \in Worker \ {w} : pc[v] = "idle" /\ pc'[v] = "idle"
    BY <1>3, Solo DEF AllocStmt, Step
  <2>2. Owing(w)'
    BY <2>1, NoneAssumption
       DEF IInv, TypeOK, Apart, Working, Alive, Open, OpenWith, Fresh, Stored,
           NewUser, Using, Owing, AllocStmt, Step, Goto, Connecting,
           Registering, Disconnecting
  <2>3. Unpending' /\ Whole'
    BY <2>1 DEF Apart, Unpending, Whole, HasUser, AllocStmt
  <2> QED
    BY <1>2, <2>1, <2>2, <2>3, Join
<1> QED
  BY <1>1, <1>2, <1>3 DEF IInv

\* Without a statement the login ends, and its connection still works.
LEMMA AllocStmtFailsStep ==
  ASSUME IInv, NEW w \in Worker, AllocStmtFails(w)
  PROVE  IInv'
<1>1. TypeOK'
  BY DEF IInv, TypeOK, AllocStmtFails, Goto, NoDatabase, Outcome, NoReq, Pc,
         Ending, Accepted, Decided
<1>2. Serving'
  BY DEF IInv, TypeOK, Serving, AllocStmtFails, Goto, NoDatabase, NoReq
<1>3. ASSUME ~overlapped' PROVE Apart'
  <2>1. Apart /\ \A v \in Worker \ {w} : pc[v] = "idle" /\ pc'[v] = "idle"
    BY <1>3, Solo DEF AllocStmtFails, NoDatabase
  <2>2. Owing(w)'
    BY <2>1, NoneAssumption
       DEF IInv, TypeOK, Apart, Working, Alive, Open, OpenWith, Fresh, Owing,
           AllocStmtFails, Goto, NoDatabase, Outcome, NoReq, Ending, Accepted,
           Decided, Connecting, Registering, Disconnecting
  <2>3. Unpending' /\ Whole'
    BY <2>1 DEF Apart, Unpending, Whole, HasUser, AllocStmtFails
  <2> QED
    BY <1>2, <2>1, <2>2, <2>3, Join
<1> QED
  BY <1>1, <1>2, <1>3 DEF IInv

\* A statement begins a transaction only on the connection it belongs to.
LEMMA Executing ==
  ASSUME IInv, NEW w \in Worker, ExecuteFails(w)
  PROVE  /\ inTrans' \subseteq Dbc
         /\ \A d \in Dbc : d \in inTrans' => d \in inTrans \/ d = hStmt[w]
  BY DEF IInv, TypeOK, ExecuteFails, Executes

\* Which is open while the login uses it.
LEMMA ExecutingUnpending ==
  ASSUME IInv, Apart, NEW w \in Worker, Using(w), ExecuteFails(w),
         dbc' = dbc, \A d \in Dbc \ {hStmt[w]} : pending'[d] = pending[d]
  PROVE  Unpending'
  BY Executing DEF Apart, Unpending, Using, Open

\* Looking for the user changes nothing but that a transaction begins.
LEMMA FindUserStep ==
  ASSUME IInv, NEW w \in Worker, FindUser(w)
  PROVE  IInv'
<1>0. /\ pc[w] = "find" /\ ExecuteFails(w)
      /\ Goto(w, "fetch") \/ Goto(w, "insertUser")
      /\ UNCHANGED <<serverVars, dbc, pending, rows, localVars>>
  BY DEF FindUser, ExecuteFails
<1>1. TypeOK'
  <2>1. pc' \in [Worker -> Pc] /\ overlapped' \in BOOLEAN
    BY <1>0 DEF IInv, TypeOK, Goto, Pc
  <2> QED
    BY <1>0, <2>1, Executing DEF IInv, TypeOK
<1>2. Serving'
  BY <1>0 DEF IInv, TypeOK, Serving, Goto
<1>3. ASSUME ~overlapped' PROVE Apart'
  <2>1. Apart /\ \A v \in Worker \ {w} : pc[v] = "idle" /\ pc'[v] = "idle"
    BY <1>0, <1>3, Solo
  <2>2. Owing(w)'
    <3>1. Using(w) /\ OpenWith({}) /\ result[w] \notin Decided
      BY <1>0, <2>1 DEF Apart, Working, Registering, Disconnecting
    <3>2. pc'[w] \in {"fetch", "insertUser"}
      BY <1>0 DEF IInv, TypeOK, Goto
    <3>3. Using(w)' /\ OpenWith({})' /\ result'[w] \notin Decided
      BY <1>0, <3>1 DEF Using, Open, OpenWith
    <3> QED
      BY <3>2, <3>3
         DEF Owing, Connecting, Registering, Disconnecting, Decided
  <2>3. Unpending' /\ Whole'
    <3>1. Using(w)
      BY <1>0, <2>1 DEF Apart, Working, Registering
    <3>2. Unpending'
      BY <1>0, <2>1, <3>1, ExecutingUnpending
    <3> QED
      BY <1>0, <2>1, <3>2 DEF Apart, Whole, HasUser
  <2> QED
    BY <1>2, <2>1, <2>2, <2>3, Join
<1> QED
  BY <1>1, <1>2, <1>3 DEF IInv

\* A user that is found was committed, as nothing is pending: accepted means
\* that it has the password.
LEMMA FetchUserStep ==
  ASSUME IInv, NEW w \in Worker, FetchUser(w)
  PROVE  IInv'
<1>1. TypeOK'
  BY DEF IInv, TypeOK, FetchUser, Step, Goto, Outcome, Pc, Ending, Accepted,
         Decided
<1>2. Serving'
  BY DEF IInv, TypeOK, Serving, FetchUser, Step, Goto
<1>3. ASSUME ~overlapped' PROVE Apart'
  <2>1. Apart /\ \A v \in Worker \ {w} : pc[v] = "idle" /\ pc'[v] = "idle"
    BY <1>3, Solo DEF FetchUser, Step
  <2>a. /\ pc' = [pc EXCEPT ![w] = "freeStmt"]
        /\ rows' = rows /\ req' = req /\ pc[w] = "fetch"
        /\ req[w] \in [id : User, password : Password]
    BY DEF IInv, Serving, FetchUser, Step, Goto
  <2>b. ASSUME result'[w] = "accepted" PROVE NewUser(w) \in rows
    <3>1. Visible(hStmt[w]) = rows
      BY <2>1, <2>a DEF Apart, Working, Registering, Using, OpenWith, Visible
    <3>2. PICK r \in rows \cap UserRow :
            /\ r.id = req[w].id
            /\ result' = [result EXCEPT ![w] =
                            IF r.password = req[w].password
                            THEN "accepted" ELSE "incorrect password"]
      BY <3>1 DEF FetchUser, Outcome
    <3>3. r.password = req[w].password
      BY <2>b, <3>2 DEF IInv, TypeOK
    <3>4. r = NewUser(w)
      BY <3>2, <3>3 DEF UserRow, NewUser
    <3> QED
      BY <3>2, <3>4
  <2>2. Owing(w)'
    <3>0. result'[w] \in {"accepted", "incorrect password"}
      BY DEF IInv, TypeOK, FetchUser, Outcome
    <3>1. result'[w] \in Accepted => NewUser(w)' \in rows'
      BY <2>a, <2>b, <3>0 DEF NewUser, Accepted
    <3>2. Connecting(w)' /\ Registering(w)' /\ pc'[w] # "idle"
      BY <2>a DEF IInv, TypeOK, Connecting, Registering
    <3>3. isConnected' /\ OpenWith({})'
      BY <2>1, <2>a DEF Apart, Working, Registering, Using, Open, OpenWith,
                        FetchUser
    <3>4. Disconnecting(w)'
      BY <2>a, <3>0, <3>3 DEF IInv, TypeOK, OpenWith, Disconnecting
    <3> QED
      BY <3>1, <3>2, <3>4 DEF Owing
  <2>3. Unpending' /\ Whole'
    BY <2>1 DEF Apart, Unpending, Whole, HasUser, FetchUser
  <2> QED
    BY <1>2, <2>1, <2>2, <2>3, Join
<1> QED
  BY <1>1, <1>2, <1>3 DEF IInv

\* A user that is not found is about to be inserted.
LEMMA FetchNoUserStep ==
  ASSUME IInv, NEW w \in Worker, FetchNoUser(w)
  PROVE  IInv'
<1>1. TypeOK'
  BY DEF IInv, TypeOK, FetchNoUser, Step, Goto, Pc
<1>2. Serving'
  BY DEF IInv, TypeOK, Serving, FetchNoUser, Step, Goto
<1>3. ASSUME ~overlapped' PROVE Apart'
  <2>1. Apart /\ \A v \in Worker \ {w} : pc[v] = "idle" /\ pc'[v] = "idle"
    BY <1>3, Solo DEF FetchNoUser, Step
  <2>2. Owing(w)'
    BY <2>1, NoneAssumption
       DEF IInv, TypeOK, Apart, Working, Open, OpenWith, Fresh, Stored,
           NewUser, Using, Owing, FetchNoUser, Step, Goto, Connecting,
           Registering, Disconnecting
  <2>3. Unpending' /\ Whole'
    BY <2>1 DEF Apart, Unpending, Whole, HasUser, FetchNoUser
  <2> QED
    BY <1>2, <2>1, <2>2, <2>3, Join
<1> QED
  BY <1>1, <1>2, <1>3 DEF IInv

\* A row that cannot be read accepts only an empty password.
LEMMA FetchFailsStep ==
  ASSUME IInv, NEW w \in Worker, FetchFails(w)
  PROVE  IInv'
<1>1. TypeOK'
  BY DEF IInv, TypeOK, FetchFails, Step, Goto, Outcome, Pc, Ending, Accepted,
         Decided
<1>2. Serving'
  BY DEF IInv, TypeOK, Serving, FetchFails, Step, Goto
<1>3. ASSUME ~overlapped' PROVE Apart'
  <2>1. Apart /\ \A v \in Worker \ {w} : pc[v] = "idle" /\ pc'[v] = "idle"
    BY <1>3, Solo DEF FetchFails, Step
  <2>2. Owing(w)'
    BY <2>1, NoneAssumption
       DEF IInv, TypeOK, Apart, Working, Open, OpenWith, Fresh, Stored,
           NewUser, Using, Owing, FetchFails, Step, Goto, Outcome, Ending,
           Accepted, Decided, Connecting, Registering, Disconnecting
  <2>3. Unpending' /\ Whole'
    BY <2>1 DEF Apart, Unpending, Whole, HasUser, FetchFails
  <2> QED
    BY <1>2, <2>1, <2>2, <2>3, Join
<1> QED
  BY <1>1, <1>2, <1>3 DEF IInv

\* A user that cannot be inserted is not registered.
LEMMA InsertUserFailsStep ==
  ASSUME IInv, NEW w \in Worker, InsertUserFails(w)
  PROVE  IInv'
<1>1. TypeOK'
  <2>1. inTrans' \subseteq Dbc
    BY Executing DEF InsertUserFails
  <2> QED
    BY <2>1 DEF IInv, TypeOK, InsertUserFails, Step, Goto, Outcome, Pc, Ending
<1>2. Serving'
  BY DEF IInv, TypeOK, Serving, InsertUserFails, Step, Goto
<1>3. ASSUME ~overlapped' PROVE Apart'
  <2>1. Apart /\ \A v \in Worker \ {w} : pc[v] = "idle" /\ pc'[v] = "idle"
    BY <1>3, Solo DEF InsertUserFails, Step
  <2>2. Owing(w)'
    BY <2>1, NoneAssumption
       DEF IInv, TypeOK, Apart, Working, Open, OpenWith, Fresh, Stored,
           NewUser, Using, Owing, InsertUserFails, Step, Goto, Outcome,
           Ending, Accepted, Decided, Connecting, Registering, Disconnecting
  <2>3. Unpending' /\ Whole'
    <3>1. Using(w)
      BY <2>1 DEF Apart, Working, Registering, InsertUserFails, Step
    <3>2. Unpending'
      BY <2>1, <3>1, ExecutingUnpending DEF InsertUserFails
    <3> QED
      BY <2>1, <3>2 DEF Apart, Whole, HasUser, InsertUserFails
  <2> QED
    BY <1>2, <2>1, <2>2, <2>3, Join
<1> QED
  BY <1>1, <1>2, <1>3 DEF IInv

\* Nor is one without its transform.
LEMMA InsertTransformFailsStep ==
  ASSUME IInv, NEW w \in Worker, InsertTransformFails(w)
  PROVE  IInv'
<1>1. TypeOK'
  <2>1. inTrans' \subseteq Dbc
    BY Executing DEF InsertTransformFails
  <2> QED
    BY <2>1
       DEF IInv, TypeOK, InsertTransformFails, Step, Goto, Outcome, Pc, Ending
<1>2. Serving'
  BY DEF IInv, TypeOK, Serving, InsertTransformFails, Step, Goto
<1>3. ASSUME ~overlapped' PROVE Apart'
  <2>1. Apart /\ \A v \in Worker \ {w} : pc[v] = "idle" /\ pc'[v] = "idle"
    BY <1>3, Solo DEF InsertTransformFails, Step
  <2>2. Owing(w)'
    BY <2>1, NoneAssumption
       DEF IInv, TypeOK, Apart, Working, Open, OpenWith, Fresh, Stored,
           NewUser, Using, Owing, InsertTransformFails, Step, Goto, Outcome,
           Ending, Accepted, Decided, Connecting, Registering, Disconnecting
  <2>3. Unpending' /\ Whole'
    <3>1. Using(w)
      BY <2>1 DEF Apart, Working, Registering, InsertTransformFails, Step
    <3>2. Unpending'
      BY <2>1, <3>1, ExecutingUnpending DEF InsertTransformFails
    <3> QED
      BY <2>1, <3>2 DEF Apart, Whole, HasUser, InsertTransformFails
  <2> QED
    BY <1>2, <2>1, <2>2, <2>3, Join
<1> QED
  BY <1>1, <1>2, <1>3 DEF IInv

\* The rows a registration inserts.
LEMMA NewRows ==
  ASSUME IInv, NEW w \in Worker, pc[w] # "idle"
  PROVE  /\ req[w].id \in User
         /\ NewUser(w) \in UserRow
         /\ TransformOf(req[w].id) \in TransformRow \ UserRow
  BY DEF IInv, Serving, NewUser, UserRow, TransformOf, TransformRow

\* The row of the user is pending on the connection of the server.
LEMMA InsertUserOnlyStep ==
  ASSUME IInv, NEW w \in Worker, InsertUserOnly(w)
  PROVE  IInv'
<1>1. TypeOK'
  <2>1. NewUser(w) \in Row
    BY NewRows DEF InsertUserOnly, Step, Row
  <2>2. pending' \in [Dbc -> SUBSET Row]
    BY <2>1 DEF IInv, TypeOK, InsertUserOnly, Insert, TransformOf
  <2>3. inTrans' \subseteq Dbc
    BY Executing DEF InsertUserOnly, Insert, ExecuteFails
  <2> QED
    BY <2>2, <2>3 DEF IInv, TypeOK, InsertUserOnly, Step, Goto, Pc
<1>2. Serving'
  BY DEF IInv, TypeOK, Serving, InsertUserOnly, Step, Goto
<1>3. ASSUME ~overlapped' PROVE Apart'
  <2>1. Apart /\ \A v \in Worker \ {w} : pc[v] = "idle" /\ pc'[v] = "idle"
    BY <1>3, Solo DEF InsertUserOnly, Step
  <2>a. /\ pc[w] = "insertUser"
        /\ pc' = [pc EXCEPT ![w] = "insertTransform"]
        /\ Using(w) /\ UNCHANGED <<serverVars, dbc, rows, localVars>>
    BY <2>1 DEF Apart, Working, Registering, InsertUserOnly, Step, Goto
  <2>b. pending'[hDbc] = {NewUser(w)}
    BY <2>1, <2>a DEF IInv, TypeOK, Apart, Working, Registering, Using, Open,
                      OpenWith, InsertUserOnly, Insert, TransformOf
  <2>2. Owing(w)'
    <3>1. OpenWith({NewUser(w)})'
      BY <2>a, <2>b DEF Using, Open, OpenWith, Fresh, NewUser, TransformOf
    <3>2. Using(w)' /\ pc'[w] = "insertTransform"
      BY <2>a DEF IInv, TypeOK, Using, Open
    <3>3. result'[w] \notin Decided /\ "registered" \in Decided
      BY <2>1, <2>a DEF Apart, Working, Disconnecting, Decided, Accepted
    <3> QED
      BY <3>1, <3>2, <3>3
         DEF Owing, Connecting, Registering, Disconnecting, Decided
  <2>3. Unpending' /\ Whole'
    <3>1. /\ ExecuteFails(w)
          /\ \A d \in Dbc \ {hStmt[w]} : pending'[d] = pending[d]
      BY DEF IInv, TypeOK, InsertUserOnly, Insert, ExecuteFails
    <3>2. Unpending'
      BY <2>1, <2>a, <3>1, ExecutingUnpending
    <3> QED
      BY <2>1, <2>a, <3>2 DEF Apart, Whole, HasUser
  <2> QED
    BY <1>2, <2>1, <2>2, <2>3, Join
<1> QED
  BY <1>1, <1>2, <1>3 DEF IInv

\* Then that of its transform is, too.
LEMMA InsertUserTransformStep ==
  ASSUME IInv, NEW w \in Worker, InsertUserTransform(w)
  PROVE  IInv'
<1>1. TypeOK'
  <2>1. TransformOf(req[w].id) \in Row
    BY NewRows DEF InsertUserTransform, Step, Row
  <2>2. pending' \in [Dbc -> SUBSET Row]
    BY <2>1 DEF IInv, TypeOK, InsertUserTransform, Insert, TransformOf
  <2>3. inTrans' \subseteq Dbc
    BY Executing DEF InsertUserTransform, Insert, ExecuteFails
  <2> QED
    BY <2>2, <2>3 DEF IInv, TypeOK, InsertUserTransform, Step, Goto, Pc
<1>2. Serving'
  BY DEF IInv, TypeOK, Serving, InsertUserTransform, Step, Goto
<1>3. ASSUME ~overlapped' PROVE Apart'
  <2>1. Apart /\ \A v \in Worker \ {w} : pc[v] = "idle" /\ pc'[v] = "idle"
    BY <1>3, Solo DEF InsertUserTransform, Step
  <2>a. /\ pc[w] = "insertTransform"
        /\ pc' = [pc EXCEPT ![w] = "commit"]
        /\ Using(w) /\ UNCHANGED <<serverVars, dbc, rows, localVars>>
    BY <2>1 DEF Apart, Working, Registering, InsertUserTransform, Step, Goto
  <2>b. pending'[hDbc] = {NewUser(w), TransformOf(req[w].id)}
    BY <2>1, <2>a DEF IInv, TypeOK, Apart, Working, Registering, Using, Open,
                      OpenWith, InsertUserTransform, Insert, TransformOf
  <2>2. Owing(w)'
    <3>1. OpenWith({NewUser(w), TransformOf(req[w].id)})'
      BY <2>a, <2>b DEF Using, Open, OpenWith, Fresh, NewUser, TransformOf
    <3>2. Using(w)' /\ pc'[w] = "commit"
      BY <2>a DEF IInv, TypeOK, Using, Open
    <3>3. result'[w] \notin Decided /\ "registered" \in Decided
      BY <2>1, <2>a DEF Apart, Working, Disconnecting, Decided, Accepted
    <3> QED
      BY <3>1, <3>2, <3>3
         DEF Owing, Connecting, Registering, Disconnecting, Decided
  <2>3. Unpending' /\ Whole'
    <3>1. /\ ExecuteFails(w)
          /\ \A d \in Dbc \ {hStmt[w]} : pending'[d] = pending[d]
      BY DEF IInv, TypeOK, InsertUserTransform, Insert, ExecuteFails
    <3>2. Unpending'
      BY <2>1, <2>a, <3>1, ExecutingUnpending
    <3> QED
      BY <2>1, <2>a, <3>2 DEF Apart, Whole, HasUser
  <2> QED
    BY <1>2, <2>1, <2>2, <2>3, Join
<1> QED
  BY <1>1, <1>2, <1>3 DEF IInv

\* A commit registers the user whole: both rows or neither.
LEMMA CommitPendingWhole ==
  ASSUME IInv, Apart, NEW w \in Worker, pc[w] = "commit", CommitPending,
         UNCHANGED <<dbc, hDbc>>
  PROVE  /\ NewUser(w) \in rows'
         /\ Whole'
         /\ Unpending'
         /\ Fresh'
<1>1. /\ serviceDbc = hDbc
      /\ OpenWith({NewUser(w), TransformOf(req[w].id)})
  BY DEF Apart, Working, Registering, Using
<1>2. rows' = rows \cup {NewUser(w), TransformOf(req[w].id)}
  BY <1>1 DEF CommitPending, OpenWith
<1>3. Whole'
  <2> SUFFICES ASSUME NEW u \in User
               PROVE  HasUser(u)' <=> TransformOf(u) \in rows'
    BY DEF Whole, TransformOf
  <2>1. HasUser(u)' <=> HasUser(u) \/ u = req[w].id
    <3>1. rows' \cap UserRow = (rows \cap UserRow) \cup {NewUser(w)}
      BY <1>2, NewRows
    <3>2. NewUser(w).id = req[w].id
      BY DEF NewUser
    <3> QED
      BY <3>1, <3>2 DEF HasUser
  <2>2. TransformOf(u) \in rows' <=>
          TransformOf(u) \in rows \/ u = req[w].id
    BY <1>2 DEF TransformOf, NewUser
  <2> QED
    BY <2>1, <2>2 DEF Apart, Whole
<1>4. Unpending'
  BY DEF IInv, TypeOK, Apart, Unpending, CommitPending, EndTran
<1>5. Fresh'
  BY <1>1 DEF IInv, TypeOK, Open, OpenWith, Fresh, CommitPending, EndTran
<1> QED
  BY <1>2, <1>3, <1>4, <1>5

\* What a commit leaves behind has the type it had.
LEMMA CommitPendingTypeOK ==
  ASSUME IInv, CommitPending
  PROVE  /\ rows' \subseteq Row /\ pending' \in [Dbc -> SUBSET Row]
         /\ inTrans' \subseteq Dbc
  BY DEF IInv, TypeOK, CommitPending, EndTran

\* A rollback leaves the connection open.
LEMMA RollbackStep ==
  ASSUME IInv, NEW w \in Worker, Rollback(w)
  PROVE  IInv'
<1>1. TypeOK'
  <2>1. pending' \in [Dbc -> SUBSET Row] /\ inTrans' \subseteq Dbc
    BY DEF IInv, TypeOK, Rollback, EndTran
  <2> QED
    BY <2>1 DEF IInv, TypeOK, Rollback, Step, Goto, Pc
<1>2. Serving'
  BY DEF IInv, TypeOK, Serving, Rollback, Step, Goto
<1>3. ASSUME ~overlapped' PROVE Apart'
  <2>1. Apart /\ \A v \in Worker \ {w} : pc[v] = "idle" /\ pc'[v] = "idle"
    BY <1>3, Solo DEF Rollback, Step
  <2>2. Owing(w)'
    <3>1. pc[w] = "rollback" /\ pc'[w] = "freeStmt"
      BY DEF IInv, TypeOK, Rollback, Step, Goto
    <3>2. isConnected' /\ Open'
      BY <2>1, <3>1 DEF Apart, Working, Registering, Using, Open, Rollback
    <3>3. result'[w] \notin Decided
      BY <2>1, <3>1 DEF Apart, Working, Disconnecting, Decided, Rollback
    <3> QED
      BY <3>1, <3>2, <3>3
         DEF Owing, Connecting, Registering, Disconnecting,
             Decided, Accepted
  <2>3. Unpending' /\ Whole'
    BY <2>1 DEF IInv, TypeOK, Apart, Unpending, Whole, HasUser,
                Rollback, EndTran
  <2> QED
    BY <1>2, <2>1, <2>2, <2>3, Join
<1> QED
  BY <1>1, <1>2, <1>3 DEF IInv

\* A login that registered is accepted, and its user is stored.
LEMMA CommitStep ==
  ASSUME IInv, NEW w \in Worker, Commit(w)
  PROVE  IInv'
<1>1. TypeOK'
  BY CommitPendingTypeOK
     DEF IInv, TypeOK, Commit, Step, Goto, Outcome, Pc, Ending, Accepted,
         Decided
<1>2. Serving'
  BY DEF IInv, TypeOK, Serving, Commit, Step, Goto
<1>3. ASSUME ~overlapped' PROVE Apart'
  <2>1. Apart /\ \A v \in Worker \ {w} : pc[v] = "idle" /\ pc'[v] = "idle"
    BY <1>3, Solo DEF Commit, Step
  <2>a. /\ pc[w] = "commit" /\ pc'[w] = "freeStmt"
        /\ UNCHANGED <<isConnected, hDbc, dbc, req>>
    BY DEF IInv, TypeOK, Commit, Step, Goto
  <2>b. NewUser(w) \in rows' /\ Whole' /\ Unpending' /\ Fresh'
    BY <2>1, <2>a, CommitPendingWhole DEF Commit
  <2>2. Owing(w)'
    <3>1. isConnected'
      BY <2>1, <2>a DEF Apart, Working, Registering, Using
    <3>2. NewUser(w)' \in rows'
      BY <2>a, <2>b DEF NewUser
    <3> QED
      BY <2>a, <2>b, <3>1, <3>2
         DEF Fresh, OpenWith, Owing, Connecting, Registering, Disconnecting
  <2>3. Unpending' /\ Whole'
    BY <2>b
  <2> QED
    BY <1>2, <2>1, <2>2, <2>3, Join
<1> QED
  BY <1>1, <1>2, <1>3 DEF IInv

\* A commit that fails was done or not; the login is not accepted.
LEMMA CommitFailsStep ==
  ASSUME IInv, NEW w \in Worker, CommitFails(w)
  PROVE  IInv'
<1>1. TypeOK'
  <2>1. /\ rows' \subseteq Row /\ pending' \in [Dbc -> SUBSET Row]
        /\ inTrans' \subseteq Dbc
    <3>1. CASE CommitPending
      BY <3>1, CommitPendingTypeOK
    <3>2. CASE UNCHANGED <<inTrans, pending, rows>>
      BY <3>2 DEF IInv, TypeOK
    <3> QED
      BY <3>1, <3>2 DEF CommitFails
  <2> QED
    BY <2>1
       DEF IInv, TypeOK, CommitFails, Step, Goto, Outcome, Pc, Ending,
           Accepted, Decided
<1>2. Serving'
  BY DEF IInv, TypeOK, Serving, CommitFails, Step, Goto
<1>3. ASSUME ~overlapped' PROVE Apart'
  <2>1. Apart /\ \A v \in Worker \ {w} : pc[v] = "idle" /\ pc'[v] = "idle"
    BY <1>3, Solo DEF CommitFails, Step
  <2>a. /\ pc[w] = "commit" /\ pc'[w] = "freeStmt"
        /\ result'[w] = "not registered"
        /\ UNCHANGED <<isConnected, hDbc, dbc, req>>
    BY DEF IInv, TypeOK, CommitFails, Step, Goto, Outcome
  <2>2. Owing(w)'
    BY <2>1, <2>a
       DEF Apart, Working, Using, Open,
           Owing, Connecting, Registering, Disconnecting,
           Decided, Accepted
  <2>3. Unpending' /\ Whole'
    <3>1. CASE CommitPending
      BY <2>1, <2>a, <3>1, CommitPendingWhole
    <3>2. CASE UNCHANGED <<inTrans, pending, rows>>
      BY <2>1, <2>a, <3>2 DEF Apart, Unpending, Whole, HasUser
    <3> QED
      BY <3>1, <3>2 DEF CommitFails
  <2> QED
    BY <1>2, <2>1, <2>2, <2>3, Join
<1> QED
  BY <1>1, <1>2, <1>3 DEF IInv

\* Freeing the statement leaves the connection as it is.
LEMMA FreeStmtStep ==
  ASSUME IInv, NEW w \in Worker, FreeStmt(w)
  PROVE  IInv'
<1>1. TypeOK'
  BY DEF IInv, TypeOK, FreeStmt, Step, Goto, Pc
<1>2. Serving'
  BY DEF IInv, TypeOK, Serving, FreeStmt, Step, Goto
<1>3. ASSUME ~overlapped' PROVE Apart'
  <2>1. Apart /\ \A v \in Worker \ {w} : pc[v] = "idle" /\ pc'[v] = "idle"
    BY <1>3, Solo DEF FreeStmt, Step
  <2>2. Owing(w)'
    BY <2>1, NoneAssumption
       DEF IInv, TypeOK, Apart, Working, Open, OpenWith, Fresh, Stored,
           NewUser, Owing, FreeStmt, Step, Goto, Connecting, Registering,
           Disconnecting
  <2>3. Unpending' /\ Whole'
    BY <2>1 DEF Apart, Unpending, Whole, HasUser, FreeStmt
  <2> QED
    BY <1>2, <2>1, <2>2, <2>3, Join
<1> QED
  BY <1>1, <1>2, <1>3 DEF IInv

\* A login that has got this far has a connection to close.
LEMMA NothingToDisconnectStep ==
  ASSUME IInv, NEW w \in Worker, NothingToDisconnect(w)
  PROVE  IInv'
<1>1. TypeOK'
  BY DEF IInv, TypeOK, NothingToDisconnect, Step, Goto, NoReq, Pc
<1>2. Serving'
  BY DEF IInv, TypeOK, Serving, NothingToDisconnect, Step, Goto, NoReq
<1>3. ASSUME ~overlapped' PROVE Apart'
  <2>1. Apart /\ \A v \in Worker \ {w} : pc[v] = "idle" /\ pc'[v] = "idle"
    BY <1>3, Solo DEF NothingToDisconnect, Step
  <2>2. Owing(w)'
    BY <2>1, NoneAssumption
       DEF IInv, TypeOK, Apart, Working, Alive, Owing, NothingToDisconnect,
           Step, Goto, NoReq, Connecting, Registering, Disconnecting
  <2>3. Unpending' /\ Whole'
    BY <2>1 DEF Apart, Unpending, Whole, HasUser, NothingToDisconnect
  <2> QED
    BY <1>2, <2>1, <2>2, <2>3, Join
<1> QED
  BY <1>1, <1>2, <1>3 DEF IInv

\* Closing the connection forgets what is pending on it.
LEMMA SQLDisconnectStep ==
  ASSUME IInv, NEW w \in Worker, SQLDisconnect(w)
  PROVE  IInv'
<1>1. TypeOK'
  BY DEF IInv, TypeOK, SQLDisconnect, Step, Goto, Pc
<1>2. Serving'
  BY DEF IInv, TypeOK, Serving, SQLDisconnect, Step, Goto
<1>3. ASSUME ~overlapped' PROVE Apart'
  <2>1. Apart /\ \A v \in Worker \ {w} : pc[v] = "idle" /\ pc'[v] = "idle"
    BY <1>3, Solo DEF SQLDisconnect, Step
  <2>2. Owing(w)'
    <3>1. /\ pc[w] = "disconnect" /\ pc'[w] = "freeDbc" /\ hDbc # None
          /\ dbc'[hDbc] = "allocated" /\ pending'[hDbc] = {}
          /\ UNCHANGED <<hDbc, rows, req, result>>
      BY DEF IInv, TypeOK, SQLDisconnect, Step, Goto
    <3>2. Connecting(w)' /\ Registering(w)'
      BY <3>1 DEF Connecting, Registering
    <3>3. Disconnecting(w)'
      BY <3>1 DEF Disconnecting
    <3> QED
      BY <2>1, <3>1, <3>2, <3>3 DEF Apart, Stored, NewUser, Owing
  <2>3. Unpending' /\ Whole'
    BY <2>1 DEF IInv, TypeOK, Apart, Unpending, Whole, HasUser, SQLDisconnect
  <2> QED
    BY <1>2, <2>1, <2>2, <2>3, Join
<1> QED
  BY <1>1, <1>2, <1>3 DEF IInv

\* A refusal leaves the connection open, with its transaction: not one of a
\* login that registered, as the commit has ended that.
LEMMA SQLDisconnectFailsStep ==
  ASSUME IInv, NEW w \in Worker, SQLDisconnectFails(w)
  PROVE  IInv'
<1>1. TypeOK'
  BY DEF IInv, TypeOK, SQLDisconnectFails, Step, Goto, Pc
<1>2. Serving'
  BY DEF IInv, TypeOK, Serving, SQLDisconnectFails, Step, Goto
<1>3. ASSUME ~overlapped' PROVE Apart'
  <2>1. Apart /\ \A v \in Worker \ {w} : pc[v] = "idle" /\ pc'[v] = "idle"
    BY <1>3, Solo DEF SQLDisconnectFails, Step
  <2>2. Owing(w)'
    BY <2>1, NoneAssumption
       DEF IInv, TypeOK, Apart, Working, Open, OpenWith, Fresh, Stored,
           NewUser, Owing, SQLDisconnectFails, Step, Goto, Connecting,
           Registering, Disconnecting
  <2>3. Unpending' /\ Whole'
    BY <2>1 DEF Apart, Unpending, Whole, HasUser, SQLDisconnectFails
  <2> QED
    BY <1>2, <2>1, <2>2, <2>3, Join
<1> QED
  BY <1>1, <1>2, <1>3 DEF IInv

\* The handle of a connection that is closed is freed, one left open is not.
LEMMA FreeDbcStep ==
  ASSUME IInv, NEW w \in Worker, FreeDbc(w)
  PROVE  IInv'
<1>1. TypeOK'
  BY DEF IInv, TypeOK, FreeDbc, Step, Goto, Pc
<1>2. Serving'
  BY DEF IInv, TypeOK, Serving, FreeDbc, Step, Goto
<1>3. ASSUME ~overlapped' PROVE Apart'
  <2>1. Apart /\ \A v \in Worker \ {w} : pc[v] = "idle" /\ pc'[v] = "idle"
    BY <1>3, Solo DEF FreeDbc, Step
  <2>2. Owing(w)'
    BY <2>1, NoneAssumption
       DEF IInv, TypeOK, Apart, Working, Open, OpenWith, Fresh, Stored,
           NewUser, Owing, FreeDbc, Step, Goto, Connecting, Registering,
           Disconnecting
  <2>3. Unpending' /\ Whole'
    BY <2>1 DEF IInv, TypeOK, Apart, Unpending, Whole, HasUser, FreeDbc
  <2> QED
    BY <1>2, <2>1, <2>2, <2>3, Join
<1> QED
  BY <1>1, <1>2, <1>3 DEF IInv

\* The flag is cleared last.
LEMMA ClearIsConnectedStep ==
  ASSUME IInv, NEW w \in Worker, ClearIsConnected(w)
  PROVE  IInv'
<1>1. TypeOK'
  BY DEF IInv, TypeOK, ClearIsConnected, Step, Goto, NoReq, Pc
<1>2. Serving'
  BY DEF IInv, TypeOK, Serving, ClearIsConnected, Step, Goto, NoReq
<1>3. ASSUME ~overlapped' PROVE Apart'
  <2>1. Apart /\ \A v \in Worker \ {w} : pc[v] = "idle" /\ pc'[v] = "idle"
    BY <1>3, Solo DEF ClearIsConnected, Step
  <2>2. Owing(w)'
    BY <2>1, NoneAssumption
       DEF IInv, TypeOK, Apart, Working, Alive, Owing, ClearIsConnected, Step,
           Goto, NoReq, Connecting, Registering, Disconnecting
  <2>3. Unpending' /\ Whole'
    BY <2>1 DEF Apart, Unpending, Whole, HasUser, ClearIsConnected
  <2> QED
    BY <1>2, <2>1, <2>2, <2>3, Join
<1> QED
  BY <1>1, <1>2, <1>3 DEF IInv

\* After a crash nothing is left but the rows, which were whole already.
LEMMA CrashStep ==
  ASSUME IInv, Crash
  PROVE  IInv'
<1>1. TypeOK'
  BY DEF IInv, TypeOK, Crash, NoReq, Pc
<1>2. Serving'
  BY DEF Serving, Crash
<1>3. ASSUME ~overlapped' PROVE Apart'
  <2>1. Whole'
    BY <1>3 DEF IInv, Apart, Whole, HasUser, Crash
  <2>2. Alone' /\ Unpending' /\ Between'
    BY DEF Alone, Unpending, Between, Alive, Crash
  <2>3. Stored' /\ Working'
    BY NoneAssumption
       DEF Crash, NoReq, Ending, Accepted, Decided, Stored, Working,
                          Connecting, Registering, Disconnecting
  <2> QED
    BY <2>1, <2>2, <2>3 DEF Apart
<1> QED
  BY <1>1, <1>2, <1>3 DEF IInv

\* Nothing is connected when the process starts.
LEMMA InitInv ==
  ASSUME Init
  PROVE  IInv
<1>1. TypeOK
  BY DEF Init, TypeOK, NoReq, Pc
<1>2. Serving
  BY DEF Init, Serving
<1>3. Alone /\ Unpending /\ Between
  BY DEF Init, Alone, Unpending, Between, Alive
<1>4. Whole
  BY DEF Init, Whole, HasUser
<1>5. Stored /\ Working
  BY NoneAssumption
     DEF Init, NoReq, Ending, Accepted, Decided, Stored, Working,
                        Connecting, Registering, Disconnecting
<1> QED
  BY <1>1, <1>2, <1>3, <1>4, <1>5 DEF IInv, Apart

\* Every step of a worker, of a crash or of nobody keeps the invariant.
LEMMA NextInv ==
  ASSUME IInv, [Next]_vars
  PROVE  IInv'
<1>1. CASE UNCHANGED vars
  <2>1. TypeOK' /\ Serving'
    BY <1>1 DEF IInv, TypeOK, Serving, vars
  <2>2. ASSUME ~overlapped' PROVE Apart'
    <3>1. Apart
      BY <1>1, <2>2 DEF IInv, vars
    <3>2. Alone' /\ Unpending' /\ Whole' /\ Stored'
      BY <1>1, <3>1
         DEF Apart, Alone, Unpending, Whole, HasUser, Stored, NewUser, vars
    <3>3. Between'
      BY <1>1, <3>1 DEF Apart, Between, Alive, Fresh, Open, OpenWith, vars
    <3>4. Working'
      <4> SUFFICES ASSUME NEW w \in Worker
                   PROVE  /\ Connecting(w)' /\ Registering(w)'
                          /\ Disconnecting(w)'
        BY DEF Working
      <4>1. Connecting(w) /\ Registering(w) /\ Disconnecting(w)
        BY <3>1 DEF Apart, Working
      <4>2. Connecting(w)' /\ Registering(w)'
        BY <1>1, <4>1 DEF Alive, Fresh, Open, OpenWith, Using, NewUser,
                          Connecting, Registering, vars
      <4>3. Disconnecting(w)'
        BY <1>1, <4>1 DEF Open, OpenWith, Disconnecting, vars
      <4> QED
        BY <4>2, <4>3
    <3> QED
      BY <3>2, <3>3, <3>4 DEF Apart
  <2> QED
    BY <2>1, <2>2 DEF IInv
<1>2. ASSUME NEW w \in Worker, DBStart(w) PROVE IInv'
  BY <1>2, LoginUserStep, GetIsConnectedStep, CheckIsConnectedStep,
     AllocDbcStep, SQLConnectStep, AllocDbcFailsStep, SQLConnectFailsStep,
     SetIsConnectedStep, AllocStmtStep, AllocStmtFailsStep
     DEF DBStart
<1>3. ASSUME NEW w \in Worker, GetOrInsertUser(w) PROVE IInv'
  BY <1>3, FindUserStep, FetchUserStep, FetchNoUserStep, FetchFailsStep,
     InsertUserOnlyStep, InsertUserFailsStep, InsertUserTransformStep,
     InsertTransformFailsStep, RollbackStep, CommitStep, CommitFailsStep
     DEF GetOrInsertUser
<1>4. ASSUME NEW w \in Worker, DBEnd(w) PROVE IInv'
  BY <1>4, FreeStmtStep, NothingToDisconnectStep, SQLDisconnectStep,
     SQLDisconnectFailsStep, FreeDbcStep, ClearIsConnectedStep
     DEF DBEnd
<1> QED
  BY <1>1, <1>2, <1>3, <1>4, CrashStep DEF Next, Process

\* The invariant holds throughout.
LEMMA Invariance == Spec => []IInv
  BY InitInv, NextInv, PTL DEF Spec

\* Every value the service and the database keep is one the code can store,
\* also when logins overlap.
THEOREM TypeCorrect == Spec => []TypeOK
<1>1. IInv => TypeOK
  BY DEF IInv
<1> QED
  BY <1>1, Invariance, PTL

\* While logins come one at a time a user is registered with its transform or
\* not at all, whichever call fails and wherever the process stops.
THEOREM RegistersWhole == Spec => []RegisteredWhole
<1>1. IInv => RegisteredWhole
  BY DEF IInv, Apart, Whole, HasUser, TransformOf, RegisteredWhole
<1> QED
  BY <1>1, Invariance, PTL

\* A login that is accepted is for a user the database has with that password,
\* unless the row was not read and the password of the client is empty.
THEOREM AcceptsStored == Spec => []AcceptedIsStored
<1>1. IInv => AcceptedIsStored
  BY DEF IInv, Apart, Stored, AcceptedIsStored
<1> QED
  BY <1>1, Invariance, PTL

\* Between logins DBServer::isConnected is true only of a connection that
\* works: a login that failed does not make the next ones fail.
THEOREM StaysAlive == Spec => []ConnectedIsAlive
<1>1. IInv => ConnectedIsAlive
  BY DEF IInv, Apart, Between, Alive, Open, OpenWith, Fresh,
     ConnectedIsAlive
<1> QED
  BY <1>1, Invariance, PTL

\* What Disconnected says of a step.
DisconnectedStep ==
  \A w \in Worker :
    /\ ~overlapped'
    /\ pc[w] # "idle" /\ pc'[w] = "idle"
    /\ result'[w] \in Decided
    => /\ ~isConnected' /\ pending'[hDbc'] = {}
       /\ \/ dbc'[hDbc'] = "free"
          \/ result'[w] # "registered" /\ hDbc' \in inTrans'

\* A login ends without a database, in a crash, or where the flag is cleared
\* of a connection that has been freed.
LEMMA NextDisconnects ==
  ASSUME IInv, IInv', [Next]_vars
  PROVE  [DisconnectedStep]_vars
<1> SUFFICES ASSUME Next,
                    NEW w \in Worker,
                    ~overlapped',
                    pc[w] # "idle", pc'[w] = "idle",
                    result'[w] \in Decided
             PROVE  /\ ~isConnected' /\ pending'[hDbc'] = {}
                    /\ \/ dbc'[hDbc'] = "free"
                       \/ result'[w] # "registered" /\ hDbc' \in inTrans'
  BY DEF DisconnectedStep
<1>1. result'[w] \notin {None, "no database"}
  BY NoneAssumption DEF Ending, Accepted, Decided
<1>2. ~Crash
  BY <1>1 DEF Crash
<1>3. ASSUME NEW v \in Worker, DBStart(v)
      PROVE  FALSE
  <2>1. \/ NoDatabase(v)
        \/ \E place \in Pc \ {"idle"} : Goto(v, place)
    BY <1>3 DEF DBStart, LoginUser, GetIsConnected, CheckIsConnected, AllocDbc,
                SQLConnect, AllocDbcFails, SQLConnectFails, SetIsConnected,
                AllocStmt, AllocStmtFails, Step, Pc
  <2> QED
    BY <1>1, <2>1 DEF IInv, TypeOK, NoDatabase, Goto, Outcome
<1>4. ASSUME NEW v \in Worker, GetOrInsertUser(v)
      PROVE  FALSE
  <2>1. \E place \in Pc \ {"idle"} : Goto(v, place)
    BY <1>4 DEF GetOrInsertUser, FindUser, FetchUser, FetchNoUser, FetchFails,
                InsertUserOnly, InsertUserFails, InsertUserTransform,
                InsertTransformFails, Rollback, Commit, CommitFails, Step, Pc
  <2> QED
    BY <2>1 DEF IInv, TypeOK, Goto
<1>5. ASSUME NEW v \in Worker, DBEnd(v)
      PROVE  v = w /\ (NothingToDisconnect(w) \/ ClearIsConnected(w))
  BY <1>5 DEF IInv, TypeOK, DBEnd, FreeStmt, SQLDisconnect, SQLDisconnectFails,
              FreeDbc, NothingToDisconnect, ClearIsConnected, Step, Goto
<1>6. NothingToDisconnect(w) \/ ClearIsConnected(w)
  BY <1>2, <1>3, <1>4, <1>5 DEF Next, Process
<1>7. Apart
  BY <1>6 DEF IInv, TypeOK, NothingToDisconnect, ClearIsConnected, Step, Goto
<1>8. ClearIsConnected(w)
  BY <1>6, <1>7 DEF Apart, Working, Disconnecting, NothingToDisconnect, Step
<1>9. result[w] \in Decided
  BY <1>8 DEF ClearIsConnected
<1>10. /\ pending[hDbc] = {}
       /\ \/ dbc[hDbc] = "free"
          \/ result[w] # "registered" /\ hDbc \in inTrans
  BY <1>7, <1>8, <1>9
     DEF Apart, Working, Disconnecting, ClearIsConnected, Step
<1> QED
  BY <1>8, <1>10 DEF ClearIsConnected

\* A login that ends, accepted or refused for its password, leaves the flag
\* cleared and no row pending.  One that registered leaves its connection
\* closed and freed; one of the others whose SQLDisconnect was refused leaves
\* it behind with the transaction of its SELECT (DBEnd).
THEOREM Disconnects == Spec => Disconnected
<1>1. IInv /\ IInv' /\ [Next]_vars => [DisconnectedStep]_vars
  BY NextDisconnects
<1>2. Spec => [][DisconnectedStep]_vars
  BY <1>1, Invariance, PTL DEF Spec
<1> QED
  BY <1>2 DEF DisconnectedStep, Disconnected, Decided
=============================================================================
