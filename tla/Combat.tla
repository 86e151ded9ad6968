------------------------------- MODULE Combat -------------------------------
(***************************************************************************)
(* Roles, their skills and the kill streaks.                               *)
(*                                                                         *)
(* A profile owns a Role, which a new choice replaces; an Engineer owns    *)
(* the tower he built, a streamed object that is destroyed with its owner. *)
(* Everything runs on the main thread: every callback is one action.       *)
(*                                                                         *)
(* External: the game (who is alive, who shoots whom, whether one sits in  *)
(* a car), the streamer's object ids (the lowest free one), and time,      *)
(* which passes in steps of a unit that divides the intervals.             *)
(*                                                                         *)
(* Left out: health, weapons and what lies on the ground; the war for a    *)
(* zone, which TurfWar counts; money, which Sessions follows.              *)
(***************************************************************************)
EXTENDS Integers, Sequences, FiniteSets, FiniteSetsExt

CONSTANTS
    Players,   \* player slots
    Limit,     \* the seconds between two uses of a role's skill, in units
    Interval,  \* Gaming.killinterval, in units
    MaxKills   \* bound on the kills counted for a profile

Kinds == {"assault", "medic", "mechanic", "engineer"}

ASSUME CombatAssumption ==
    /\ IsFiniteSet(Players)
    /\ Limit \in [Kinds -> Nat]
    /\ Interval \in Nat
    /\ MaxKills \in Nat

VARIABLES
    life,      \* what the game knows of each slot
    profiles,  \* slots with a profile in ProfileMgr
    role,      \* `_role` of each profile
    streak,    \* `_killcounter` of each profile
    standing,  \* ids of the towers in the streamer
    gaps,      \* history: time between the counted kills of a profile
    since,     \* history: time since the profile's last counted kill
    rested,    \* history: time since the profile's last skill
    chose,     \* history: profiles with a role chosen since their last skill
    stale      \* history: slots whose last OnPlayerDisconnect threw

code == <<life, profiles, role, streak, standing>>
history == <<gaps, since, rested, chose, stale>>
vars == <<code, history>>

\* Time is counted up to the point where nothing depends on it any more.
Rested == Max({Limit[k] : k \in Kinds})
Past == Interval + 1
Later(t, cap) == Min({t + 1, cap})

Towers == 1 .. Cardinality(Players) + 1
NoTower == 0

\* idle: time since `_skilllastuse`, which starts in 1970.
NewRole(k) == [kind |-> k, idle |-> Rested, tower |-> NoTower]
NoRole == NewRole("none")

NoStreak == [counter |-> 0, ago |-> Past]

Init ==
    /\ life = [p \in Players |-> "out"]
    /\ profiles = {}
    /\ role = [p \in Players |-> NoRole]
    /\ streak = [p \in Players |-> NoStreak]
    /\ standing = {}
    /\ gaps = [p \in Players |-> <<>>]
    /\ since = [p \in Players |-> Past]
    /\ rested = [p \in Players |-> Rested]
    /\ chose = {}
    /\ stale = {}

\* What is left of p's Role once it is destroyed, or its tower reset.
Without(p) == standing \ {role[p].tower}

(***************************************************************************)
(* Coming and going.                                                       *)
(***************************************************************************)

\* ProfileMgr.Add keeps a profile that is already there.
OnPlayerConnect(p) ==
    /\ life[p] = "out"
    /\ life' = [life EXCEPT ![p] = "choosing"]
    /\ profiles' = profiles \cup {p}
    /\ UNCHANGED <<role, streak, standing, history>>

\* The profile goes with all it owns.
OnPlayerDisconnect(p) ==
    /\ life[p] # "out"
    /\ life' = [life EXCEPT ![p] = "out"]
    /\ profiles' = profiles \ {p}
    /\ role' = [role EXCEPT ![p] = NoRole]
    /\ streak' = [streak EXCEPT ![p] = NoStreak]
    /\ standing' = Without(p)
    /\ gaps' = [gaps EXCEPT ![p] = <<>>]
    /\ since' = [since EXCEPT ![p] = Past]
    /\ rested' = [rested EXCEPT ![p] = Rested]
    /\ chose' = chose \ {p}
    /\ stale' = stale \ {p}

\* Sync or Quit throws, and the profile stays.
OnPlayerDisconnectFails(p) ==
    /\ life[p] # "out"
    /\ life' = [life EXCEPT ![p] = "out"]
    /\ stale' = stale \cup {p}
    /\ UNCHANGED <<profiles, role, streak, standing, gaps, since, rested, chose>>

(***************************************************************************)
(* Roles.                                                                  *)
(***************************************************************************)

\* Mutant: the Role is changed in place and keeps its tower.
RoleSelect_InPlace(p, k) ==
    /\ life[p] = "choosing"
    /\ role' = [role EXCEPT ![p].kind = k]
    /\ chose' = chose \cup {p}
    /\ life' = [life EXCEPT ![p] = "alive"]
    /\ UNCHANGED <<profiles, streak, standing, gaps, since, rested, stale>>

\* SetRole destroys the old Role; the player spawns.
RoleSelect(p, k) ==
    /\ life[p] = "choosing"
    /\ role' = [role EXCEPT ![p] = NewRole(k)]
    /\ standing' = Without(p)
    /\ chose' = chose \cup {p}
    /\ life' = [life EXCEPT ![p] = "alive"]
    /\ UNCHANGED <<profiles, streak, gaps, since, rested, stale>>

\* The settings dialog: no death, and the old role until a new one is chosen.
ForceClassSelection(p) ==
    /\ life[p] = "alive"
    /\ life' = [life EXCEPT ![p] = "choosing"]
    /\ UNCHANGED <<profiles, role, streak, standing, history>>

OnPlayerSpawn(p) ==
    /\ life[p] = "dead"
    /\ life' = [life EXCEPT ![p] = "alive"]
    /\ UNCHANGED <<profiles, role, streak, standing, history>>

CanPerformSkill(p) == role[p].idle >= Limit[role[p].kind]

\* Mutant: the base class is not called.
Used_NotNoted(p, tower) ==
    /\ role' = [role EXCEPT ![p].tower = tower]
    /\ rested' = [rested EXCEPT ![p] = 0]
    /\ chose' = chose \ {p}
    /\ UNCHANGED <<life, profiles, streak, gaps, since, stale>>

\* Role::PerformSpecialSkill, at the end of every skill.
Used(p, tower) ==
    /\ role' = [role EXCEPT ![p].tower = tower, ![p].idle = 0]
    /\ rested' = [rested EXCEPT ![p] = 0]
    /\ chose' = chose \ {p}
    /\ UNCHANGED <<life, profiles, streak, gaps, since, stale>>

\* The no key.  A skill that throws (no target, the target's profile is gone, in
\* or out of a car, no point in front) changes nothing.
PerformSpecialSkill(p) ==
    /\ life[p] = "alive" /\ CanPerformSkill(p)
    /\ role[p].kind # "engineer"
    /\ role[p].kind \in {"assault", "medic"} => \E t \in profiles \ {p} : life[t] # "out"
    /\ Used(p, NoTower)
    /\ UNCHANGED standing

\* The new tower is made before the old one is destroyed.
BuildTower(p) ==
    /\ life[p] = "alive" /\ CanPerformSkill(p)
    /\ role[p].kind = "engineer"
    /\ LET new == Min(Towers \ standing)
       IN  Used(p, new) /\ standing' = Without(p) \cup {new}

(***************************************************************************)
(* Kills.                                                                  *)
(***************************************************************************)

\* Mutant: the time of the last kill is noted only when a streak begins.
KillCounter_FirstOnly(s) ==
    IF s.counter = 0 \/ s.ago > Interval
    THEN [counter |-> 1, ago |-> 0]
    ELSE [s EXCEPT !.counter = @ + 1]

KillCounter(s) ==
    [counter |-> IF s.counter = 0 \/ s.ago > Interval THEN 1 ELSE s.counter + 1, ago |-> 0]

Dies(p) ==
    /\ life[p] = "alive"
    /\ life' = [life EXCEPT ![p] = "dead"]
    /\ UNCHANGED <<profiles, rested, chose, stale>>

\* OnDeath of the victim's role comes first, whatever follows.
OnDeath(p) ==
    /\ standing' = Without(p)
    /\ role' = [role EXCEPT ![p].tower = NoTower]

\* Mutant: the killer is looked up first.
OnPlayerDeath_KillerFirst(p) ==
    /\ Dies(p)
    /\ UNCHANGED <<role, streak, standing, gaps, since>>

\* Nobody killed him; or the killer's profile is gone, or the killer faces 360
\* degrees and GenerateDirectionalPoint throws.
OnPlayerDeath(p) ==
    /\ Dies(p)
    /\ OnDeath(p)
    /\ UNCHANGED <<streak, gaps, since>>

\* The kill is counted for a killer who may be dead, or choosing, by now.  His
\* reward is not registered with PickupMgr and goes out of scope here.
OnPlayerDeathBy(p, k) ==
    /\ k \in profiles \ {p} /\ life[k] # "out"
    /\ Len(gaps[k]) < MaxKills
    /\ Dies(p)
    /\ OnDeath(p)
    /\ streak' = [streak EXCEPT ![k] = KillCounter(@)]
    /\ gaps' = [gaps EXCEPT ![k] = Append(@, since[k])]
    /\ since' = [since EXCEPT ![k] = 0]

Tick ==
    /\ role' = [p \in Players |-> [role[p] EXCEPT !.idle = Later(@, Rested)]]
    /\ streak' = [p \in Players |-> [streak[p] EXCEPT !.ago = Later(@, Past)]]
    /\ since' = [p \in Players |-> Later(since[p], Past)]
    /\ rested' = [p \in Players |-> Later(rested[p], Rested)]
    /\ UNCHANGED <<life, profiles, standing, gaps, chose, stale>>

Next ==
    \/ Tick
    \/ \E p \in Players :
          \/ OnPlayerConnect(p) \/ OnPlayerDisconnect(p) \/ OnPlayerDisconnectFails(p)
          \/ \E k \in Kinds : RoleSelect(p, k)
          \/ ForceClassSelection(p) \/ OnPlayerSpawn(p)
          \/ PerformSpecialSkill(p) \/ BuildTower(p)
          \/ OnPlayerDeath(p)
          \/ \E k \in Players : OnPlayerDeathBy(p, k)

Spec == Init /\ [][Next]_vars

(***************************************************************************)
(* Properties.                                                             *)
(***************************************************************************)

\* A profile's role is chosen before its player first lives, and a skill that
\* is not an engineer's never has a tower.
TypeOK ==
    /\ life \in [Players -> {"out", "choosing", "alive", "dead"}]
    /\ profiles \in SUBSET Players
    /\ role \in [Players -> [kind : Kinds \cup {"none"}, idle : 0 .. Rested,
                             tower : Towers \cup {NoTower}]]
    /\ streak \in [Players -> [counter : 0 .. MaxKills, ago : 0 .. Past]]
    /\ standing \in SUBSET Towers
    /\ \A p \in Players : gaps[p] \in Seq(0 .. Past) /\ Len(gaps[p]) <= MaxKills
    /\ since \in [Players -> 0 .. Past]
    /\ rested \in [Players -> 0 .. Rested]
    /\ chose \in SUBSET Players
    /\ stale \in SUBSET Players
    /\ \A p \in Players : life[p] \in {"alive", "dead"} => role[p].kind # "none"
    /\ \A p \in Players : role[p].tower # NoTower => role[p].kind = "engineer"

\* "Returns the amount of killing in a row" (KillCounter): the number of last
\* kills each of which came at most killinterval after the one before, through
\* deaths, new roles and kills that could not be counted.
StreakCounts ==
    \A p \in Players : gaps[p] # <<>> =>
        LET n == Len(gaps[p])
            InARow(i) == \A j \in i + 1 .. n : gaps[p][j] <= Interval
        IN  streak[p].counter = n + 1 - Min({i \in 1 .. n : InARow(i)})

\* Every tower on the map is the one tower of an engineer who has not died since
\* he built it, and has not left unless OnPlayerDisconnect threw.
TowersFollow ==
    /\ standing = {role[p].tower : p \in Players} \ {NoTower}
    /\ \A p, q \in Players : p # q /\ role[p].tower = role[q].tower => role[p].tower = NoTower
    /\ \A p \in Players : role[p].tower # NoTower =>
          life[p] \in {"alive", "choosing"} \/ p \in stale

\* A player's skills are as far apart as his role demands, through deaths and
\* respawns, unless he chose a role in between.
SkillsSpaced ==
    [][\A p \in Players :
          PerformSpecialSkill(p) \/ BuildTower(p) =>
              rested[p] >= Limit[role[p].kind] \/ p \in chose]_vars

=============================================================================
