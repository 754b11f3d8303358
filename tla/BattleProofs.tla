---------------------------- MODULE BattleProofs ----------------------------
(***************************************************************************)
(* Proofs about Battle, for any number of players and any hit points.      *)
(***************************************************************************)
EXTENDS Battle, TLAPS

\* What a handler has left to do at each place: while it damages its targets
\* they are all still to be included in its broadcast.
Stages ==
  \A a \in Player :
    /\ pc[a] \in {"load", "exchange", "test", "die"} =>
         target[a] \in hitList[a]
    /\ pc[a] \in {"idle", "create", "send"} => toHit[a] = {}
    /\ pc[a] \in {"idle", "send"} => hitList[a] = {}
    /\ pc[a] = "idle" => packet[a] = {}
    /\ toHit[a] \subseteq hitList[a]

\* Only a player without hit points is, or is about to be, marked dead.
Dying ==
  /\ \A p \in Player : isDied[p] => hp[p] = 0
  /\ \A a \in Player : pc[a] = "die" => hp[target[a]] = 0

\* The attack that took the last hit points has yet to mark its target dead.
Killing ==
  \A p \in Player :
    hp[p] = 0 /\ ~isDied[p] =>
      \E a \in Player : target[a] = p /\ pc[a] \in {"test", "die"}

\* A death nobody has been shown is in some broadcast, or will be.
Showing ==
  \A p \in Player :
    isDied[p] /\ p \notin shownDead =>
      \E a \in Player : p \in hitList[a] \/ p \in packet[a]

IInv ==
  /\ TypeOK
  /\ DamageCounted
  /\ Stages
  /\ Dying
  /\ Killing
  /\ Showing

\* An attack starts in a handler that had nothing left to do.
LEMMA MeleeAttackStep ==
  ASSUME IInv, NEW a \in Player, NEW d \in Damage, NEW T \in SUBSET Player,
         MeleeAttack(a, d, T)
  PROVE  IInv'
<1>1. TypeOK'
  BY DEF IInv, MeleeAttack, TypeOK, Goto, charVars
<1>2. Stages'
  BY DEF IInv, MeleeAttack, TypeOK, Stages, Goto
<1>3. Dying'
  BY DEF IInv, MeleeAttack, Dying, Goto, charVars
<1>4. Killing'
  BY DEF IInv, MeleeAttack, Killing, Goto, charVars
<1>5. Showing'
  BY DEF IInv, MeleeAttack, Stages, Showing, charVars
<1>6. DamageCounted'
  BY DEF IInv, MeleeAttack, charVars, DamageCounted
<1> QED
  BY <1>1, <1>2, <1>3, <1>4, <1>5, <1>6 DEF IInv

\* Choosing the next target keeps it among those to be shown.
LEMMA ApplyDamageStep ==
  ASSUME IInv, NEW a \in Player, NEW t \in Player, ApplyDamage(a, t)
  PROVE  IInv'
<1>1. TypeOK'
  BY DEF IInv, ApplyDamage, TypeOK, Goto, charVars
<1>2. Stages'
  BY DEF IInv, ApplyDamage, TypeOK, Stages, Goto
<1>3. Dying'
  BY DEF IInv, ApplyDamage, TypeOK, Dying, Goto, charVars
<1>4. Killing'
  BY DEF IInv, ApplyDamage, TypeOK, Killing, Goto, charVars
<1>5. DamageCounted' /\ Showing'
  BY DEF IInv, ApplyDamage, charVars, DamageCounted, Showing
<1> QED
  BY <1>1, <1>2, <1>3, <1>4, <1>5 DEF IInv

\* Reading the hit points changes only what the handler knows.
LEMMA LoadHpStep ==
  ASSUME IInv, NEW a \in Player, LoadHp(a)
  PROVE  IInv'
<1>1. TypeOK'
  BY DEF IInv, LoadHp, TypeOK, Stages, Goto, charVars
<1>2. Stages'
  BY DEF IInv, LoadHp, Stages, Goto
<1>3. Dying'
  BY DEF IInv, LoadHp, Dying, Goto, charVars
<1>4. Killing'
  BY DEF IInv, LoadHp, Killing, Goto, charVars
<1>5. DamageCounted' /\ Showing'
  BY DEF IInv, LoadHp, charVars, DamageCounted, Showing
<1> QED
  BY <1>1, <1>2, <1>3, <1>4, <1>5 DEF IInv

\* What an attack leaves is never negative and never more than there was.
LEMMA LessRange ==
  ASSUME NEW h \in 0..HP, NEW d \in Nat
  PROVE  Less(h, d) \in 0..h
  BY DEF Less

\* The damage of an attack is a natural number.
LEMMA DamageType ==
  ASSUME IInv, NEW a \in Player
  PROVE  damage[a] \in Nat
<1>1. damage \in [Player -> Damage \cup {0}]
  BY DEF IInv, TypeOK
<1>2. Damage \cup {0} \subseteq Nat
  BY DamageAssumption
<1> QED
  BY <1>1, <1>2

\* Who is damaged is a player.
LEMMA TargetType ==
  ASSUME IInv, NEW a \in Player, ExchangeHp(a)
  PROVE  target[a] \in Player
<1>1. target[a] \in hitList[a]
  BY DEF IInv, Stages, ExchangeHp
<1>2. hitList[a] \subseteq Player
  BY DEF IInv, TypeOK
<1> QED
  BY <1>1, <1>2

\* A successful exchange takes from the target what is counted as taken, and
\* when that was the last of it the handler has yet to test for it.
LEMMA ExchangeHpStep ==
  ASSUME IInv, NEW a \in Player, ExchangeHp(a)
  PROVE  IInv'
<1> DEFINE t == target[a]
           left == Less(oldHp[a], damage[a])
<1>a. /\ t \in Player
      /\ damage[a] \in Nat
      /\ oldHp[a] \in 0..HP
      /\ hp[t] = oldHp[a]
      /\ taken[t] \in 0..HP
      /\ HP - taken[t] = oldHp[a]
  <2>1. t \in Player
    BY TargetType
  <2>2. damage[a] \in Nat
    BY DamageType
  <2>3. oldHp[a] \in 0..HP /\ taken[t] \in 0..HP
    BY <2>1 DEF IInv, TypeOK
  <2>4. hp[t] = oldHp[a]
    BY DEF ExchangeHp
  <2>5. hp[t] = HP - taken[t]
    BY <2>1 DEF IInv, DamageCounted
  <2>6. QED
    BY <2>1, <2>2, <2>3, <2>4, <2>5
<1>b. left \in 0..oldHp[a] /\ HP - left \in 0..HP
  <2>1. left \in 0..oldHp[a]
    BY <1>a, LessRange
  <2> HIDE DEF left
  <2> QED
    BY <1>a, <2>1, HPAssumption
<1>c. /\ hp' = [hp EXCEPT ![t] = left]
      /\ taken' = [taken EXCEPT ![t] = HP - left]
  <2>1. HP - taken[target[a]] = oldHp[a]
    BY <1>a
  <2>2. QED
    BY <2>1 DEF ExchangeHp
<1> HIDE DEF t, left
<1>1. TypeOK'
  <2>1. hp' \in [Player -> 0..HP] /\ taken' \in [Player -> 0..HP]
    BY <1>a, <1>b, <1>c, HPAssumption DEF IInv, TypeOK
  <2>2. QED
    BY <2>1, HPAssumption DEF IInv, TypeOK, ExchangeHp, Goto
<1>2. DamageCounted'
  BY <1>a, <1>b, <1>c, HPAssumption DEF IInv, TypeOK, DamageCounted
<1>3. Stages'
  BY DEF IInv, ExchangeHp, Stages, Goto
<1>4. Dying'
  <2>1. ASSUME NEW p \in Player, hp[p] = 0
        PROVE  hp'[p] = 0
    BY <2>1, <1>a, <1>b, <1>c
  <2>2. ASSUME NEW b \in Player, pc'[b] = "die"
        PROVE  pc[b] = "die" /\ target[b] \in Player /\ target'[b] = target[b]
    BY <2>2 DEF IInv, TypeOK, Stages, ExchangeHp, Goto
  <2>3. isDied' = isDied
    BY DEF ExchangeHp
  <2>4. QED
    BY <2>1, <2>2, <2>3 DEF IInv, Dying
<1>5. Killing'
  BY <1>c DEF IInv, TypeOK, Killing, ExchangeHp, Goto
<1>6. Showing'
  BY DEF IInv, ExchangeHp, Showing
<1> QED
  BY <1>1, <1>2, <1>3, <1>4, <1>5, <1>6 DEF IInv

\* One that fails changes nothing but what the handler knows.
LEMMA ExchangeHpFailsStep ==
  ASSUME IInv, NEW a \in Player, ExchangeHpFails(a)
  PROVE  IInv'
<1>1. TypeOK'
  BY HPAssumption DEF IInv, ExchangeHpFails, TypeOK, Goto, charVars
<1>2. Stages'
  BY DEF IInv, ExchangeHpFails, Stages, Goto
<1>3. Dying'
  BY DEF IInv, ExchangeHpFails, Dying, Goto, charVars
<1>4. Killing'
  BY DEF IInv, ExchangeHpFails, Killing, Goto, charVars
<1>5. DamageCounted' /\ Showing'
  BY DEF IInv, ExchangeHpFails, charVars, DamageCounted, Showing
<1> QED
  BY <1>1, <1>2, <1>3, <1>4, <1>5 DEF IInv

\* The handler that goes on to mark its target dead saw no hit points left.
LEMMA TestHpStep ==
  ASSUME IInv, NEW a \in Player, TestHp(a)
  PROVE  IInv'
<1>1. TypeOK'
  BY DEF IInv, TestHp, TypeOK, Goto, charVars
<1>2. Stages'
  BY DEF IInv, TestHp, Stages, Goto
<1>3. Dying'
  BY DEF IInv, TestHp, TypeOK, Stages, Dying, Goto, charVars
<1>4. Killing'
  BY DEF IInv, TestHp, Killing, Goto, charVars
<1>5. DamageCounted' /\ Showing'
  BY DEF IInv, TestHp, charVars, DamageCounted, Showing
<1> QED
  BY <1>1, <1>2, <1>3, <1>4, <1>5 DEF IInv

\* Marking a target dead leaves it among those to be shown.
LEMMA SetIsDiedStep ==
  ASSUME IInv, NEW a \in Player, SetIsDied(a)
  PROVE  IInv'
<1>1. TypeOK'
  BY DEF IInv, SetIsDied, TypeOK, Goto
<1>2. Stages'
  BY DEF IInv, SetIsDied, Stages, Goto
<1>3. Dying'
  BY DEF IInv, SetIsDied, Dying, Goto
<1>4. Killing'
  BY DEF IInv, SetIsDied, TypeOK, Killing, Goto
<1>5. Showing'
  BY DEF IInv, SetIsDied, Stages, Showing
<1>6. DamageCounted'
  BY DEF IInv, SetIsDied, DamageCounted
<1> QED
  BY <1>1, <1>2, <1>3, <1>4, <1>5, <1>6 DEF IInv

\* When all targets are damaged, those to be shown are still there.
LEMMA AllDamagedStep ==
  ASSUME IInv, NEW a \in Player, AllDamaged(a)
  PROVE  IInv'
<1>1. TypeOK'
  BY DEF IInv, AllDamaged, TypeOK, Goto, charVars
<1>2. Stages'
  BY DEF IInv, AllDamaged, Stages, Goto
<1>3. Dying'
  BY DEF IInv, AllDamaged, Dying, Goto, charVars
<1>4. Killing'
  BY DEF IInv, AllDamaged, Killing, Goto, charVars
<1>5. DamageCounted' /\ Showing'
  BY DEF IInv, AllDamaged, charVars, DamageCounted, Showing
<1> QED
  BY <1>1, <1>2, <1>3, <1>4, <1>5 DEF IInv

\* A target leaves the list of those to be shown for the packet.
LEMMA SerializeHitStep ==
  ASSUME IInv, NEW a \in Player, NEW t \in Player, SerializeHit(a, t)
  PROVE  IInv'
<1>1. TypeOK'
  BY DEF IInv, SerializeHit, TypeOK, charVars
<1>2. Stages'
  BY DEF IInv, SerializeHit, Stages
<1>3. Showing'
  BY DEF IInv, SerializeHit, TypeOK, Showing, charVars
<1>4. DamageCounted' /\ Dying' /\ Killing'
  BY DEF IInv, SerializeHit, charVars, DamageCounted, Dying, Killing
<1> QED
  BY <1>1, <1>2, <1>3, <1>4 DEF IInv

\* The finished packet keeps everybody in it.
LEMMA CreateBcastHitStep ==
  ASSUME IInv, NEW a \in Player, CreateBcastHit(a)
  PROVE  IInv'
<1>1. TypeOK'
  BY DEF IInv, CreateBcastHit, TypeOK, Goto, charVars
<1>2. Stages'
  BY DEF IInv, CreateBcastHit, Stages, Goto
<1>3. Dying'
  BY DEF IInv, CreateBcastHit, Dying, Goto, charVars
<1>4. Killing'
  BY DEF IInv, CreateBcastHit, Killing, Goto, charVars
<1>5. DamageCounted' /\ Showing'
  BY DEF IInv, CreateBcastHit, charVars, DamageCounted, Showing
<1> QED
  BY <1>1, <1>2, <1>3, <1>4, <1>5 DEF IInv

\* Sending the packet shows the deaths in it.
LEMMA SendBcastHitStep ==
  ASSUME IInv, NEW a \in Player, SendBcastHit(a)
  PROVE  IInv'
<1>1. TypeOK'
  BY DEF IInv, SendBcastHit, TypeOK, Goto
<1>2. Stages'
  BY DEF IInv, SendBcastHit, TypeOK, Stages, Goto
<1>3. Dying'
  BY DEF IInv, SendBcastHit, Dying, Goto
<1>4. Killing'
  BY DEF IInv, SendBcastHit, Killing, Goto
<1>5. Showing'
  BY DEF IInv, SendBcastHit, Showing
<1>6. DamageCounted'
  BY DEF IInv, SendBcastHit, DamageCounted
<1> QED
  BY <1>1, <1>2, <1>3, <1>4, <1>5, <1>6 DEF IInv

-----------------------------------------------------------------------------
(* The invariant. *)

\* IInv holds before the first attack.
LEMMA InitInv == Init => IInv
  BY HPAssumption
     DEF Init, IInv, TypeOK, DamageCounted, Stages, Dying, Killing, Showing

\* No step of any handler breaks IInv.
LEMMA NextInv == IInv /\ [Next]_vars => IInv'
<1> SUFFICES ASSUME IInv, [Next]_vars
             PROVE  IInv'
  OBVIOUS
<1>1. ASSUME NEW a \in Attacker, NEW d \in Damage, NEW T \in SUBSET Player,
             MeleeAttack(a, d, T)
      PROVE  IInv'
  BY <1>1, AttackerAssumption, MeleeAttackStep
<1>2. ASSUME NEW a \in Attacker, Handler(a)
      PROVE  IInv'
  <2>1. a \in Player
    BY AttackerAssumption
  <2> QED
    BY <1>2, <2>1, ApplyDamageStep, LoadHpStep, ExchangeHpStep,
       ExchangeHpFailsStep, TestHpStep, SetIsDiedStep, AllDamagedStep,
       SerializeHitStep, CreateBcastHitStep, SendBcastHitStep
       DEF Handler
<1>3. CASE UNCHANGED vars
  BY <1>3
     DEF vars, charVars, IInv, TypeOK, DamageCounted, Stages, Dying, Killing,
         Showing
<1> QED
  BY <1>1, <1>2, <1>3 DEF Next

\* IInv holds in every reachable state.
THEOREM Invariance == Spec => []IInv
  BY InitInv, NextInv, PTL DEF Spec

-----------------------------------------------------------------------------
(* What it says of CompUserAttribute, CompUserCondition and BattleService. *)

\* Every variable keeps its type: hit points stay between 0 and HP.
THEOREM TypeCorrect == Spec => []TypeOK
<1>1. IInv => TypeOK
  BY DEF IInv
<1> QED
  BY <1>1, Invariance, PTL

\* The compare-and-exchange loop of CompUserAttribute::ApplyDamage loses no
\* damage and counts none twice, for any number of attackers.
THEOREM NoDamageLost == Spec => []DamageCounted
<1>1. IInv => DamageCounted
  BY DEF IInv
<1> QED
  BY <1>1, Invariance, PTL

\* A player marked dead has no hit points left, and when all attacks have been
\* handled one without hit points is marked dead (BattleService::ApplyDamage).
THEOREM DeadExactly == Spec => []DeadIsEmpty
<1>1. IInv => DeadIsEmpty
  BY DEF IInv, Dying, Killing, DeadIsEmpty, Attacking
<1> QED
  BY <1>1, Invariance, PTL

\* When all attacks have been handled every dead player has been shown as dead
\* in a hit broadcast (BattleService::MeleeAttack).
THEOREM DeathsShown == Spec => []DeathShown
<1>1. IInv => DeathShown
  BY DEF IInv, Stages, Showing, DeathShown, Attacking
<1> QED
  BY <1>1, Invariance, PTL

\* No step gives hit points back or takes a death back.
THEOREM Worsens == Spec => OnlyWorse
<1>1. IInv /\ [Next]_vars =>
        [\A p \in Player : hp'[p] <= hp[p] /\ (isDied[p] => isDied'[p])]_vars
  <2> SUFFICES ASSUME IInv, Next
               PROVE  \A p \in Player :
                        hp'[p] <= hp[p] /\ (isDied[p] => isDied'[p])
    OBVIOUS
  <2>1. PICK a \in Player :
          \/ \E d \in Damage, T \in SUBSET Player : MeleeAttack(a, d, T)
          \/ Handler(a)
    BY AttackerAssumption DEF Next
  <2>2. CASE ExchangeHp(a)
    <3>1. target[a] \in Player
      BY <2>2, TargetType
    <3>2. Less(oldHp[a], damage[a]) <= hp[target[a]]
      <4>1. oldHp[a] \in 0..HP /\ damage[a] \in Nat
        <5>1. oldHp[a] \in 0..HP
          BY DEF IInv, TypeOK
        <5> QED
          BY <5>1, DamageType
      <4> QED
        BY <2>2, <4>1, LessRange DEF ExchangeHp
    <3>3. hp' = [hp EXCEPT ![target[a]] = Less(oldHp[a], damage[a])]
      BY <2>2 DEF ExchangeHp
    <3>4. \A p \in Player : hp[p] \in Int
      BY DEF IInv, TypeOK
    <3>5. \A p \in Player : hp'[p] <= hp[p]
      BY <3>1, <3>2, <3>3, <3>4
    <3> QED
      BY <2>2, <3>5 DEF ExchangeHp
  <2>3. CASE SetIsDied(a)
    <3>1. \A p \in Player : hp[p] \in Int /\ hp'[p] = hp[p]
      BY <2>3 DEF IInv, TypeOK, SetIsDied
    <3>2. \A p \in Player : isDied[p] => isDied'[p]
      BY <2>3 DEF SetIsDied
    <3> QED
      BY <3>1, <3>2
  <2>4. CASE ~ExchangeHp(a) /\ ~SetIsDied(a)
    <3>1. hp' = hp /\ isDied' = isDied
      BY <2>1, <2>4
         DEF Handler, MeleeAttack, ApplyDamage, LoadHp, ExchangeHpFails,
             TestHp, AllDamaged, SerializeHit, CreateBcastHit, SendBcastHit,
             charVars
    <3>2. \A p \in Player : hp[p] \in Int
      BY DEF IInv, TypeOK
    <3> QED
      BY <3>1, <3>2
  <2> QED
    BY <2>2, <2>3, <2>4
<1> QED
  BY <1>1, Invariance, PTL DEF Spec, OnlyWorse
=============================================================================
