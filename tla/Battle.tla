------------------------------- MODULE Battle -------------------------------
(***************************************************************************)
(* Melee attacks (PacketService::ProcReqAbility, BattleService,            *)
(* CompUserAttribute, CompUserCondition).  Each player's connection has a  *)
(* handler; the handlers run at the same time and may hit the same target. *)
(* Hit points are an atomic that is lowered in a compare-and-exchange      *)
(* loop; whether the player has died is a plain flag beside it.            *)
(*                                                                         *)
(* Whom an attack reaches depends on positions: here it is any set of      *)
(* living players other than the attacker.  Damage and hit points are      *)
(* whole numbers (every attack of BattleService.h does 1.f).               *)
(***************************************************************************)
EXTENDS Integers

CONSTANTS
  Player,    \* the players of one room
  Attacker,  \* those whose clients attack
  HP,        \* hit points a player starts with
  Damage,    \* what an attack can do
  None       \* no target

ASSUME AttackerAssumption == Attacker \subseteq Player
ASSUME HPAssumption == HP \in Nat \ {0}
ASSUME DamageAssumption == Damage \subseteq Nat
ASSUME TargetAssumption == None \notin Player

VARIABLES
  hp,         \* CompUserAttribute::hp
  isDied,     \* CompUserCondition::isDied
  taken,      \* history: the hit points the attacks on a player have cost it
  shownDead,  \* the players some BcastHit has shown as dead
  pc,         \* where the handler of a player's request is
  damage,     \* damage of its attack
  toHit,      \* targets it has still to damage
  hitList,    \* targets its BcastHit has still to include
  target,     \* the target it is damaging
  oldHp,      \* oldHp of CompUserAttribute::ApplyDamage
  packet      \* the targets its BcastHit shows as dead

charVars == <<hp, isDied, taken, shownDead>>
vars == <<charVars, pc, damage, toHit, hitList, target, oldHp, packet>>

TypeOK ==
  /\ hp \in [Player -> 0..HP]
  /\ isDied \in [Player -> BOOLEAN]
  /\ taken \in [Player -> 0..HP]
  /\ shownDead \subseteq Player
  /\ pc \in [Player -> {"idle", "next", "load", "exchange", "test", "die",
                        "create", "send"}]
  /\ damage \in [Player -> Damage \cup {0}]
  /\ toHit \in [Player -> SUBSET Player]
  /\ hitList \in [Player -> SUBSET Player]
  /\ target \in [Player -> Player \cup {None}]
  /\ oldHp \in [Player -> 0..HP]
  /\ packet \in [Player -> SUBSET Player]

Init ==
  /\ hp = [p \in Player |-> HP]
  /\ isDied = [p \in Player |-> FALSE]
  /\ taken = [p \in Player |-> 0]
  /\ shownDead = {}
  /\ pc = [p \in Player |-> "idle"]
  /\ damage = [p \in Player |-> 0]
  /\ toHit = [p \in Player |-> {}]
  /\ hitList = [p \in Player |-> {}]
  /\ target = [p \in Player |-> None]
  /\ oldHp = [p \in Player |-> 0]
  /\ packet = [p \in Player |-> {}]

Goto(a, label) == pc' = [pc EXCEPT ![a] = label]

\* Mutant: hit points go below zero.
Less_Unclamped(h, d) == h - d

\* Hit points after d more damage.
Less(h, d) == IF h < d THEN 0 ELSE h - d

-----------------------------------------------------------------------------

\* ProcReqAbility, PlayAbility and Hit: the attack reaches some of those that
\* have not died.  An attack that reaches nobody ends there.  A dead caster is
\* not stopped.
MeleeAttack(a, d, T) ==
  /\ pc[a] = "idle"
  /\ T # {}
  /\ T \subseteq {t \in Player \ {a} : ~isDied[t]}
  /\ damage' = [damage EXCEPT ![a] = d]
  /\ toHit' = [toHit EXCEPT ![a] = T]
  /\ hitList' = [hitList EXCEPT ![a] = T]
  /\ Goto(a, "next")
  /\ UNCHANGED <<charVars, target, oldHp, packet>>

\* BattleService::ApplyDamage returns early for a target that has died since.
ApplyDamage(a, t) ==
  /\ pc[a] = "next"
  /\ t \in toHit[a]
  /\ toHit' = [toHit EXCEPT ![a] = @ \ {t}]
  /\ IF isDied[t]
     THEN UNCHANGED <<pc, target>>
     ELSE target' = [target EXCEPT ![a] = t] /\ Goto(a, "load")
  /\ UNCHANGED <<charVars, damage, hitList, oldHp, packet>>

LoadHp(a) ==
  /\ pc[a] = "load"
  /\ oldHp' = [oldHp EXCEPT ![a] = hp[target[a]]]
  /\ Goto(a, "exchange")
  /\ UNCHANGED <<charVars, damage, toHit, hitList, target, packet>>

\* Mutant: the new value is stored without comparing.
ExchangeHp_Store(a) ==
  /\ pc[a] = "exchange"
  /\ hp' = [hp EXCEPT ![target[a]] = Less(oldHp[a], damage[a])]
  /\ taken' = [taken EXCEPT ![target[a]] = HP - Less(HP - @, damage[a])]
  /\ oldHp' = [oldHp EXCEPT ![a] = 0]
  /\ Goto(a, "test")
  /\ UNCHANGED <<isDied, shownDead, damage, toHit, hitList, target, packet>>

\* compare_exchange_weak succeeds ...
ExchangeHp(a) ==
  /\ pc[a] = "exchange"
  /\ hp[target[a]] = oldHp[a]
  /\ hp' = [hp EXCEPT ![target[a]] = Less(oldHp[a], damage[a])]
  /\ taken' = [taken EXCEPT ![target[a]] = HP - Less(HP - @, damage[a])]
  /\ oldHp' = [oldHp EXCEPT ![a] = 0]
  /\ Goto(a, "test")
  /\ UNCHANGED <<isDied, shownDead, damage, toHit, hitList, target, packet>>

\* ... or fails, as it may at any time, and the loop starts again.
ExchangeHpFails(a) ==
  /\ pc[a] = "exchange"
  /\ oldHp' = [oldHp EXCEPT ![a] = 0]
  /\ Goto(a, "load")
  /\ UNCHANGED <<charVars, damage, toHit, hitList, target, packet>>

\* Mutant: only the attack that sees less than nothing left kills.
TestHp_Strict(a) ==
  /\ pc[a] = "test"
  /\ Goto(a, IF hp[target[a]] < 0 /\ ~isDied[target[a]] THEN "die" ELSE "next")
  /\ UNCHANGED <<charVars, damage, toHit, hitList, target, oldHp, packet>>

\* GetHp() <= 0 and not yet dead: the hit points may be another attack's doing.
TestHp(a) ==
  /\ pc[a] = "test"
  /\ Goto(a, IF hp[target[a]] <= 0 /\ ~isDied[target[a]] THEN "die" ELSE "next")
  /\ UNCHANGED <<charVars, damage, toHit, hitList, target, oldHp, packet>>

\* Mutant: a target that has died is taken out of the hit list.
SetIsDied_Unlists(a) ==
  /\ pc[a] = "die"
  /\ isDied' = [isDied EXCEPT ![target[a]] = TRUE]
  /\ hitList' = [hitList EXCEPT ![a] = @ \ {target[a]}]
  /\ Goto(a, "next")
  /\ UNCHANGED <<hp, taken, shownDead, damage, toHit, target, oldHp, packet>>

SetIsDied(a) ==
  /\ pc[a] = "die"
  /\ isDied' = [isDied EXCEPT ![target[a]] = TRUE]
  /\ Goto(a, "next")
  /\ UNCHANGED <<hp, taken, shownDead, damage, toHit, hitList, target, oldHp,
                 packet>>

AllDamaged(a) ==
  /\ pc[a] = "next"
  /\ toHit[a] = {}
  /\ target' = [target EXCEPT ![a] = None]
  /\ Goto(a, "create")
  /\ UNCHANGED <<charVars, damage, toHit, hitList, oldHp, packet>>

\* CreateBcastHit serialises one target after the other.
SerializeHit(a, t) ==
  /\ pc[a] = "create"
  /\ t \in hitList[a]
  /\ hitList' = [hitList EXCEPT ![a] = @ \ {t}]
  /\ packet' = [packet EXCEPT ![a] = IF isDied[t] THEN @ \cup {t} ELSE @]
  /\ UNCHANGED <<charVars, pc, damage, toHit, target, oldHp>>

CreateBcastHit(a) ==
  /\ pc[a] = "create"
  /\ hitList[a] = {}
  /\ Goto(a, "send")
  /\ UNCHANGED <<charVars, damage, toHit, hitList, target, oldHp, packet>>

SendBcastHit(a) ==
  /\ pc[a] = "send"
  /\ shownDead' = shownDead \cup packet[a]
  /\ packet' = [packet EXCEPT ![a] = {}]
  /\ damage' = [damage EXCEPT ![a] = 0]
  /\ Goto(a, "idle")
  /\ UNCHANGED <<hp, isDied, taken, toHit, hitList, target, oldHp>>

Handler(a) ==
  \/ \E t \in Player : ApplyDamage(a, t) \/ SerializeHit(a, t)
  \/ LoadHp(a)
  \/ ExchangeHp(a)
  \/ ExchangeHpFails(a)
  \/ TestHp(a)
  \/ SetIsDied(a)
  \/ AllDamaged(a)
  \/ CreateBcastHit(a)
  \/ SendBcastHit(a)

Next ==
  \E a \in Attacker :
    \/ \E d \in Damage, T \in SUBSET Player : MeleeAttack(a, d, T)
    \/ Handler(a)

Spec == Init /\ [][Next]_vars

\* A handler is a running thread; nobody has to attack.  A weak exchange may
\* fail for no reason, but not for ever.
FairSpec ==
  /\ Spec
  /\ \A a \in Attacker : WF_vars(Handler(a)) /\ SF_vars(ExchangeHp(a))

-----------------------------------------------------------------------------
(* Properties. *)

Attacking == \E a \in Player : pc[a] # "idle"

\* No damage is lost or counted twice, however the attacks on one target
\* overlap: what a player has left is what the attacks have not taken.
DamageCounted == \A p \in Player : hp[p] = HP - taken[p]

\* A player is dead exactly when it has no hit points left, except while the
\* attack that took the last of them is still being handled.
DeadIsEmpty ==
  /\ \A p \in Player : isDied[p] => hp[p] = 0
  /\ ~Attacking => \A p \in Player : hp[p] = 0 => isDied[p]

\* Every death is shown to the players: some hit broadcast built after the
\* flag was set includes the target.
DeathShown == ~Attacking => \A p \in Player : isDied[p] => p \in shownDead

\* Wounds do not heal and the dead stay dead.
OnlyWorse ==
  [][\A p \in Player : hp'[p] <= hp[p] /\ (isDied[p] => isDied'[p])]_vars

\* A player without hit points is marked dead in the end.
Dies == \A p \in Player : hp[p] = 0 ~> isDied[p]
=============================================================================
