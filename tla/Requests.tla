------------------------------ MODULE Requests ------------------------------
(***************************************************************************)
(* The requests of a client besides its login (PacketService), in every    *)
(* state of its session, and the round trip times they measure: the window *)
(* of ObjUser::UpdateRtt and the average of GameRoom::UpdateRtt, which     *)
(* walks the players of the room while others come and go.                 *)
(*                                                                         *)
(* Logins and disconnects are the steps of Presence, which LoginRoom       *)
(* implements in regular runs: a user is played by one client, handled by  *)
(* one worker (OneReceive), so only that worker changes its ObjUser, and   *)
(* UpdateRtt is one step.  The session's user id is null while its client  *)
(* plays nobody.  A connection stands for the worker handling it too.      *)
(***************************************************************************)
EXTENDS Integers, Sequences, FiniteSets, SequencesExt, FiniteSetsExt

CONSTANTS
  Conn,            \* connections
  User,            \* user ids
  None,            \* nobody
  MAX_RTT_COUNT,   \* samples after which the window restarts
  MAX_RTT_MS_C2S,  \* the largest sample accepted
  Half,            \* int64_t is -Half..Half - 1
  Rtts,            \* samples: the time now less the time in the request
  MaxSamples       \* bound: samples of a player

Int64 == -Half..(Half - 1)

ASSUME NoneAssumption == None \notin User
ASSUME UserAssumption == IsFiniteSet(User)  \* an id has a bounded length
ASSUME CountAssumption == MAX_RTT_COUNT \in Nat \ {0}
ASSUME RttAssumption == Half \in Nat \ {0} /\ MAX_RTT_MS_C2S \in Int64
ASSUME SampleAssumption == Rtts \subseteq Int64 /\ MaxSamples \in Nat

VARIABLES
  online,   \* the connections with a session
  player,   \* the user a connection plays: it is in objUserMap of the room
  room,     \* whether the first login has created the room
  times,    \* totalRttMs, rttCount and avgRttMs of a user's ObjUser
  average,  \* avgRttMs of the room
  status,   \* "running", "crashed" (null or division by zero) or "undefined"
  pc,       \* where the handler of a connection is
  loc,      \* its local variables
  samples,  \* history: the samples of a user's ObjUser
  early     \* history: a client has sent a request before it was a player

presenceVars == <<online, player>>
historyVars == <<samples, early>>
vars == <<presenceVars, room, times, average, status, pc, loc, historyVars>>

Times == [total : Int64, count : 0..MAX_RTT_COUNT, avg : Int64]
NewTimes == [total |-> 0, count |-> 0, avg |-> 0]

Locals == [
  rtt : Int64,                     \* rttMsC2S
  userNum : 0..Cardinality(User),  \* userNum of GameRoom::UpdateRtt
  total : Int64,                   \* its totalRttMs
  it : User \cup {None},           \* where its iterator is
  seen : SUBSET User,              \* where it has been
  answer : Int64]                  \* the average in the last answer

NewLocals == [rtt |-> 0, userNum |-> 0, total |-> 0, it |-> None, seen |-> {},
              answer |-> 0]

TypeOK ==
  /\ online \subseteq Conn
  /\ player \in [Conn -> User \cup {None}]
  /\ room \in BOOLEAN
  /\ times \in [User -> Times]
  /\ average \in Int64
  /\ status \in {"running", "crashed", "undefined"}
  /\ pc \in [Conn -> {"idle", "update", "size", "walk", "store", "answer",
                      "close"}]
  /\ loc \in [Conn -> Locals]
  /\ samples \in [User -> Seq(Int64)]
  /\ early \in BOOLEAN

Presence == INSTANCE Presence

Init ==
  /\ Presence!Init
  /\ room = FALSE
  /\ times = [u \in User |-> NewTimes]
  /\ average = 0
  /\ status = "running"
  /\ pc = [c \in Conn |-> "idle"]
  /\ loc = [c \in Conn |-> NewLocals]
  /\ samples = [u \in User |-> <<>>]
  /\ early = FALSE

-----------------------------------------------------------------------------
(* Arithmetic of int64_t. *)

Wrap(n) == ((n + Half) % (2 * Half)) - Half

\* Division rounds towards zero.
Div(m, n) == IF m >= 0 THEN m \div n ELSE -((-m) \div n)

-----------------------------------------------------------------------------

Step(c, from, to) == pc[c] = from /\ pc' = [pc EXCEPT ![c] = to]

Players == {player[c] : c \in Conn} \ {None}

Connect(c) ==
  /\ Presence!Connect(c)
  /\ UNCHANGED <<room, times, average, status, pc, loc, historyVars>>

\* A login, with a new ObjUser; the first one creates the room.
Login(c, u) ==
  /\ pc[c] = "idle"
  /\ Presence!Enter(c, u)
  /\ room' = TRUE
  /\ times' = [times EXCEPT ![u] = NewTimes]
  /\ samples' = [samples EXCEPT ![u] = <<>>]
  /\ UNCHANGED <<average, status, pc, loc, early>>

\* GetObjUser of a null user id: no room is asked when there is none, and the
\* first one faults when it makes a string of it.
LookupFails(c) ==
  IF room
  THEN status' = "crashed" /\ UNCHANGED pc
  ELSE UNCHANGED <<status, pc>>

\* ProcReqMove, which copies the user id of the session into its broadcast.
ReqMove(c) ==
  /\ pc[c] = "idle" /\ c \in online
  /\ early' = (early \/ player[c] = None)
  /\ status' = IF player[c] = None THEN "crashed" ELSE status
  /\ UNCHANGED <<presenceVars, room, times, average, pc, loc, samples>>

\* ProcReqLocationSync, ProcReqAction, ProcReqAbility and ProcReqRotationSync
\* look the player up, change what nothing here depends on, and broadcast it.
ReqObject(c) ==
  /\ pc[c] = "idle" /\ c \in online
  /\ early' = (early \/ player[c] = None)
  /\ IF player[c] = None THEN LookupFails(c) ELSE UNCHANGED <<status, pc>>
  /\ UNCHANGED <<presenceVars, room, times, average, loc, samples>>

\* ProcReqRoundTripTime: only a sample that is too large is refused.
ReqRoundTripTime(c, rtt) ==
  /\ c \in online
  /\ IF rtt > MAX_RTT_MS_C2S
     THEN pc[c] = "idle" /\ UNCHANGED <<pc, status, loc>>
     ELSE IF player[c] = None
     THEN pc[c] = "idle" /\ LookupFails(c) /\ UNCHANGED loc
     ELSE /\ Len(samples[player[c]]) < MaxSamples
          /\ Step(c, "idle", "update")
          /\ loc' = [loc EXCEPT ![c].rtt = rtt]
          /\ UNCHANGED status
  /\ early' = (early \/ player[c] = None)
  /\ UNCHANGED <<presenceVars, room, times, average, samples>>

\* Mutant: the count is not reset with the total.
Added_KeepsCount(t, rtt) ==
  LET full == t.count >= MAX_RTT_COUNT
      total == Wrap((IF full THEN 0 ELSE t.total) + rtt)
      count == IF full THEN t.count ELSE t.count + 1 IN
    [total |-> total, count |-> count, avg |-> Div(total, count)]

\* Mutant: a full window is noticed one sample late.
Added_OneLate(t, rtt) ==
  LET full == t.count > MAX_RTT_COUNT
      total == Wrap((IF full THEN 0 ELSE t.total) + rtt)
      count == (IF full THEN 0 ELSE t.count) + 1 IN
    [total |-> total, count |-> count, avg |-> Div(total, count)]

\* ObjUser::UpdateRtt
Added(t, rtt) ==
  LET full == t.count >= MAX_RTT_COUNT
      total == Wrap((IF full THEN 0 ELSE t.total) + rtt)
      count == (IF full THEN 0 ELSE t.count) + 1 IN
    [total |-> total, count |-> count, avg |-> Div(total, count)]

UpdateRtt(c) ==
  /\ Step(c, "update", "size")
  /\ times' = [times EXCEPT ![player[c]] = Added(@, loc[c].rtt)]
  /\ samples' = [samples EXCEPT ![player[c]] = Append(@, loc[c].rtt)]
  /\ UNCHANGED <<presenceVars, room, average, status, loc, early>>

-----------------------------------------------------------------------------
(* GameRoom::UpdateRtt, for a sample and when a player has left. *)

\* Where the handler goes on: to the answer, or to the end of the session.
After(c) == IF player[c] = None THEN "close" ELSE "answer"

\* Mutant: an empty room is not told apart.
RoomSize_Any(c) ==
  /\ Step(c, "size", IF Players = {} THEN "store" ELSE "walk")
  /\ \E u \in IF Players = {} THEN {None} ELSE Players :
       loc' = [loc EXCEPT ![c].userNum = Cardinality(Players),
                          ![c].total = 0, ![c].seen = {}, ![c].it = u]
  /\ UNCHANGED <<presenceVars, room, times, average, status, historyVars>>

\* objUserMap.size(), and begin() unless the room is empty.
RoomSize(c) ==
  /\ IF Players = {}
     THEN Step(c, "size", After(c)) /\ UNCHANGED loc
     ELSE /\ Step(c, "size", "walk")
          /\ \E u \in Players :
               loc' = [loc EXCEPT ![c].userNum = Cardinality(Players),
                                  ![c].total = 0, ![c].seen = {}, ![c].it = u]
  /\ UNCHANGED <<presenceVars, room, times, average, status, historyVars>>

\* One turn of the loop.  The iterator goes to some player it has not been at,
\* also to one who has come since; one who has been erased is undefined to read.
Walk(c) ==
  /\ pc[c] = "walk"
  /\ LET u == loc[c].it
         ahead == Players \ (loc[c].seen \cup {u}) IN
       IF u \notin Players
       THEN status' = "undefined" /\ UNCHANGED <<pc, loc>>
       ELSE /\ \E next \in IF ahead = {} THEN {None} ELSE ahead :
                 loc' = [loc EXCEPT ![c].total = Wrap(@ + times[u].avg),
                                    ![c].seen = @ \cup {u}, ![c].it = next]
            /\ pc' = IF ahead = {} THEN [pc EXCEPT ![c] = "store"] ELSE pc
            /\ UNCHANGED status
  /\ UNCHANGED <<presenceVars, room, times, average, historyVars>>

StoreAverage(c) ==
  /\ IF loc[c].userNum = 0
     THEN pc[c] = "store" /\ status' = "crashed" /\ UNCHANGED <<pc, average>>
     ELSE /\ Step(c, "store", After(c))
          /\ average' = Div(loc[c].total, loc[c].userNum)
          /\ UNCHANGED status
  /\ UNCHANGED <<presenceVars, room, times, loc, historyVars>>

\* CreateResRoundTripTime of the average.
Answer(c) ==
  /\ Step(c, "answer", "idle")
  /\ loc' = [loc EXCEPT
               ![c] = [NewLocals EXCEPT !.answer = times[player[c]].avg]]
  /\ UNCHANGED <<presenceVars, room, times, average, status, historyVars>>

-----------------------------------------------------------------------------
(* The end of a session: the player is erased, then the room is updated. *)

Leave(c) ==
  /\ Step(c, "idle", "size")
  /\ Presence!Leave(c)
  /\ UNCHANGED <<room, times, average, status, loc, historyVars>>

Disconnect(c) ==
  /\ pc[c] \in {"idle", "close"}
  /\ Presence!Disconnect(c)
  /\ pc' = [pc EXCEPT ![c] = "idle"]
  /\ loc' = [loc EXCEPT ![c] = NewLocals]
  /\ UNCHANGED <<room, times, average, status, historyVars>>

Running ==
  \E c \in Conn :
    \/ Connect(c)
    \/ \E u \in User : Login(c, u)
    \/ ReqMove(c)
    \/ ReqObject(c)
    \/ \E rtt \in Rtts : ReqRoundTripTime(c, rtt)
    \/ UpdateRtt(c)
    \/ RoomSize(c)
    \/ Walk(c)
    \/ StoreAverage(c)
    \/ Answer(c)
    \/ Leave(c)
    \/ Disconnect(c)

Next ==
  \/ status = "running" /\ Running
  \/ status # "running" /\ UNCHANGED vars

Spec == Init /\ [][Next]_vars

-----------------------------------------------------------------------------
(* Properties. *)

\* Nothing is dereferenced or divided by that is null or zero as long as clients
\* wait for their login before they send anything else: also when the room is
\* empty for a while, or players come and go while their times are added up.
NoCrash == ~early => status # "crashed"

\* The samples since the window was last restarted.
Window(u) ==
  LET n == Len(samples[u]) IN
    SubSeq(samples[u], n - ((n - 1) % MAX_RTT_COUNT), n)

\* The average of a player is the mean of its last samples, at most
\* MAX_RTT_COUNT of them and the newest among them, and that is what the answer
\* to a request carries, whatever else the server does meanwhile
\* (ObjUser::UpdateRtt), unless their sum is no int64_t.
WindowMean ==
  /\ \A u \in Players :
       LET sum == FoldSeq(+, 0, Window(u)) IN
         samples[u] # <<>> /\ sum \in Int64 =>
           times[u].avg = Div(sum, Len(Window(u)))
  /\ \A c \in Conn :
       player[c] # None /\ pc[c] = "idle" /\ samples[player[c]] # <<>> =>
         loc[c].answer = times[player[c]].avg
=============================================================================
