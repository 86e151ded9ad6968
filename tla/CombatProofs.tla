---------------------------- MODULE CombatProofs ----------------------------
(***************************************************************************)
(* For any number of players, any limits and any kill interval: streaks    *)
(* count kills in a row, towers go with their builders, and skills keep    *)
(* their distance.                                                         *)
(***************************************************************************)
EXTENDS Combat, FiniteSetTheorems, SequenceTheorems, TLAPS

-----------------------------------------------------------------------------
(***************************************************************************)
(* Least and greatest elements.                                            *)
(***************************************************************************)

\* The least element of a set of naturals.
LEMMA LeastNatural ==
    ASSUME NEW S \in SUBSET Nat, S # {}
    PROVE  \E n \in S : \A m \in S : n <= m
<1> DEFINE R == {ss \in Nat \X Nat : ss[1] < ss[2]}
<1>1. IsWellFoundedOn(R, Nat)
  BY NatLessThanWellFounded DEF OpToRel
<1> HIDE DEF R
<1>2. PICK x \in S : \A y \in S : ~ (<<y, x>> \in R)
  BY <1>1, WFMin
<1>3. ASSUME NEW y \in S, y < x PROVE FALSE
  <2>1. <<y, x>> \in R
    BY <1>3 DEF R
  <2> QED
    BY <1>2, <2>1
<1> QED
  BY <1>2, <1>3

\* Min is the least element, if there is one.
LEMMA MinIs ==
    ASSUME NEW S \in SUBSET Nat, S # {}
    PROVE  Min(S) \in S /\ \A m \in S : Min(S) <= m
  BY LeastNatural DEF Min

\* Min is the least element, known by what it is.
LEMMA MinIsIt ==
    ASSUME NEW S \in SUBSET Nat, NEW n \in S, \A m \in S : n <= m
    PROVE  Min(S) = n
<1>1. Min(S) \in S /\ Min(S) <= n
  BY MinIs
<1>2. Min(S) \in Nat /\ n \in Nat /\ n <= Min(S)
  BY <1>1
<1> QED
  BY <1>1, <1>2

\* Time passes, up to the point where nothing depends on it.
LEMMA LaterIs ==
    ASSUME NEW t \in Nat, NEW cap \in Nat
    PROVE  Later(t, cap) = IF t + 1 <= cap THEN t + 1 ELSE cap
<1>1. CASE t + 1 <= cap
  <2>1. Min({t + 1, cap}) = t + 1
    BY <1>1, MinIsIt
  <2> QED
    BY <1>1, <2>1 DEF Later
<1>2. CASE ~ (t + 1 <= cap)
  <2>1. Min({t + 1, cap}) = cap
    BY <1>2, MinIsIt
  <2> QED
    BY <1>2, <2>1 DEF Later
<1> QED
  BY <1>1, <1>2

\* Every limit is a number of units of time, and so is the greatest.
LEMMA RestedIs ==
    /\ Rested \in Nat /\ Past \in Nat /\ Interval \in Nat /\ Past > Interval
    /\ \A k \in Kinds : Limit[k] \in Nat /\ Limit[k] <= Rested
<1> DEFINE S == {Limit[k] : k \in Kinds}
<1>1. \A k \in Kinds : Limit[k] \in Nat
  BY CombatAssumption
<1>2. \E x \in S : \A y \in S : x >= y
  <2>1. PICK x \in S : x \in {Limit["assault"], Limit["medic"], Limit["mechanic"], Limit["engineer"]}
           /\ x >= Limit["assault"] /\ x >= Limit["medic"] /\ x >= Limit["mechanic"] /\ x >= Limit["engineer"]
    <3>1. /\ Limit["assault"] \in Nat /\ Limit["medic"] \in Nat
          /\ Limit["mechanic"] \in Nat /\ Limit["engineer"] \in Nat
      BY <1>1 DEF Kinds
    <3>2. /\ Limit["assault"] \in S /\ Limit["medic"] \in S
          /\ Limit["mechanic"] \in S /\ Limit["engineer"] \in S
      BY DEF Kinds
    <3> HIDE DEF S
    <3> QED
      BY <3>1, <3>2
  <2>2. \A y \in S : y \in {Limit["assault"], Limit["medic"], Limit["mechanic"], Limit["engineer"]}
    BY DEF Kinds
  <2> HIDE DEF S
  <2> QED
    BY <2>1, <2>2
<1>3. Max(S) \in S /\ \A y \in S : Max(S) >= y
  <2> HIDE DEF S
  <2> QED
    BY <1>2 DEF Max
<1>4. Rested \in S /\ \A y \in S : Rested >= y
  BY <1>3 DEF Rested
<1>5. \A k \in Kinds : Limit[k] \in S
  OBVIOUS
<1>6. S \in SUBSET Nat
  BY <1>1
<1> HIDE DEF S
<1>7. \A k \in Kinds : Limit[k] <= Rested
  BY <1>1, <1>4, <1>5, <1>6
<1> QED
  BY <1>1, <1>4, <1>6, <1>7, CombatAssumption DEF Past

-----------------------------------------------------------------------------
(***************************************************************************)
(* Kill streaks.                                                           *)
(***************************************************************************)

GapsType == gaps \in [Players -> Seq(0 .. Past)]

\* The streak of a profile began with its kill number `first`: no long gap came
\* after it, and one before it.
StreakFrom(p, first) ==
    /\ streak[p].counter = Len(gaps[p]) + 1 - first
    /\ \A j \in first + 1 .. Len(gaps[p]) : gaps[p][j] <= Interval
    /\ first > 1 => gaps[p][first] > Interval

Shape(p) ==
    /\ streak[p].ago = since[p]
    /\ Len(gaps[p]) = 0 => streak[p].counter = 0
    /\ Len(gaps[p]) > 0 => \E first \in 1 .. Len(gaps[p]) : StreakFrom(p, first)

Shapes == \A p \in Players : Shape(p)

StreakTypes ==
    /\ streak \in [Players -> [counter : 0 .. MaxKills, ago : 0 .. Past]]
    /\ \A p \in Players : gaps[p] \in Seq(0 .. Past) /\ Len(gaps[p]) <= MaxKills
    /\ since \in [Players -> 0 .. Past]

\* A step that leaves the streaks alone.
LEMMA StreaksSame ==
    ASSUME StreakTypes, GapsType, Shapes, UNCHANGED <<streak, gaps, since>>
    PROVE  StreakTypes' /\ GapsType' /\ Shapes'
  BY DEF StreakTypes, GapsType, Shapes, Shape, StreakFrom

\* A new profile has no streak.
LEMMA StreakReset ==
    ASSUME StreakTypes, GapsType, Shapes, NEW p \in Players,
           streak' = [streak EXCEPT ![p] = NoStreak],
           gaps' = [gaps EXCEPT ![p] = <<>>],
           since' = [since EXCEPT ![p] = Past]
    PROVE  StreakTypes' /\ GapsType' /\ Shapes'
<1>0. Past \in Nat /\ Interval \in Nat /\ Interval < Past /\ MaxKills \in Nat
  BY RestedIs, CombatAssumption
<1> USE <1>0
<1>1. GapsType'
  BY DEF GapsType
<1>2. NoStreak \in [counter : 0 .. MaxKills, ago : 0 .. Past]
  BY DEF NoStreak
<1>3. /\ gaps'[p] \in Seq(0 .. Past) /\ Len(gaps'[p]) = 0
      /\ \A q \in Players : q # p => gaps'[q] = gaps[q]
  <2>1. <<>> \in Seq(0 .. Past) /\ Len(<<>>) = 0
    BY EmptySeq
  <2> QED
    BY <2>1 DEF GapsType
<1>4. StreakTypes'
  <2>1. \A q \in Players : gaps'[q] \in Seq(0 .. Past) /\ Len(gaps'[q]) <= MaxKills
    BY <1>3 DEF StreakTypes
  <2> QED
    BY <1>2, <2>1 DEF StreakTypes
<1>5. ASSUME NEW q \in Players PROVE Shape(q)'
  <2>1. CASE q = p
    BY <1>3, <2>1 DEF StreakTypes, Shape, NoStreak
  <2>2. CASE q # p
    BY <1>3, <2>2 DEF StreakTypes, Shapes, Shape, StreakFrom
  <2> QED
    BY <2>1, <2>2
<1> QED
  BY <1>1, <1>4, <1>5 DEF Shapes

\* A counted kill.
LEMMA StreakKill ==
    ASSUME StreakTypes, GapsType, Shapes, NEW k \in Players, Len(gaps[k]) < MaxKills,
           streak' = [streak EXCEPT ![k] = KillCounter(@)],
           gaps' = [gaps EXCEPT ![k] = Append(@, since[k])],
           since' = [since EXCEPT ![k] = 0]
    PROVE  StreakTypes' /\ GapsType' /\ Shapes'
<1>0. Past \in Nat /\ Interval \in Nat /\ Interval < Past /\ MaxKills \in Nat
  BY RestedIs, CombatAssumption
<1>n. PICK n \in Nat : n = Len(gaps[k])
  BY DEF StreakTypes
<1> USE <1>0, <1>n
<1>1. gaps[k] \in Seq(0 .. Past) /\ since[k] \in 0 .. Past
      /\ streak[k].counter \in Nat /\ streak[k].ago = since[k]
  BY DEF StreakTypes, Shapes, Shape
<1>2. gaps'[k] = Append(gaps[k], since[k]) /\ \A q \in Players : q # k => gaps'[q] = gaps[q]
  BY DEF GapsType
<1>3. /\ gaps'[k] \in Seq(0 .. Past) /\ Len(gaps'[k]) = n + 1
      /\ gaps'[k][n + 1] = since[k] /\ \A j \in 1 .. n : gaps'[k][j] = gaps[k][j]
  <2>1. /\ Append(gaps[k], since[k]) \in Seq(0 .. Past)
        /\ Len(Append(gaps[k], since[k])) = n + 1
        /\ \A j \in 1 .. n : Append(gaps[k], since[k])[j] = gaps[k][j]
        /\ Append(gaps[k], since[k])[n + 1] = since[k]
    BY <1>1, AppendProperties
  <2> QED
    BY <1>2, <2>1
<1>4. GapsType'
  BY <1>1 DEF GapsType
<1>5. /\ streak'[k].ago = 0 /\ since'[k] = 0
      /\ streak'[k].counter = IF streak[k].counter = 0 \/ since[k] > Interval
                              THEN 1 ELSE streak[k].counter + 1
      /\ streak'[k] = [counter |-> streak'[k].counter, ago |-> 0]
  BY <1>1 DEF StreakTypes, KillCounter
<1>6. n = 0 => streak[k].counter = 0
  BY DEF Shapes, Shape
<1>7. n > 0 => \E first \in 1 .. n : StreakFrom(k, first)
  BY DEF Shapes, Shape
<1>8. streak[k].counter <= n /\ (n > 0 => streak[k].counter > 0)
  BY <1>1, <1>6, <1>7 DEF StreakFrom
<1>9. StreakTypes'
  <2>1. streak'[k] \in [counter : 0 .. MaxKills, ago : 0 .. Past]
    <3>1. streak'[k].counter \in 0 .. MaxKills
      BY <1>1, <1>5, <1>8
    <3> QED
      BY <1>5, <3>1
  <2>2. \A q \in Players : gaps'[q] \in Seq(0 .. Past) /\ Len(gaps'[q]) <= MaxKills
    BY <1>1, <1>2, <1>3 DEF StreakTypes
  <2>3. streak' \in [Players -> [counter : 0 .. MaxKills, ago : 0 .. Past]]
    BY <2>1 DEF StreakTypes
  <2> QED
    BY <2>2, <2>3 DEF StreakTypes
<1>10. Shape(k)'
  <2>1. \E first \in 1 .. n + 1 : StreakFrom(k, first)'
    <3>1. CASE streak[k].counter = 0 \/ since[k] > Interval
      <4>1. streak'[k].counter = 1
        BY <1>5, <3>1
      <4>2. n + 1 > 1 => gaps'[k][n + 1] > Interval
        BY <1>1, <1>3, <1>8, <3>1
      <4>3. StreakFrom(k, n + 1)'
        BY <1>1, <1>3, <4>1, <4>2 DEF StreakFrom
      <4> QED
        BY <1>1, <4>3
    <3>2. CASE ~ (streak[k].counter = 0 \/ since[k] > Interval)
      <4>1. PICK first \in 1 .. n : StreakFrom(k, first)
        BY <1>1, <1>6, <1>7, <3>2
      <4>2. streak'[k].counter = n + 2 - first
        BY <1>1, <1>5, <3>2, <4>1 DEF StreakFrom
      <4>3. ASSUME NEW j \in first + 1 .. n + 1 PROVE gaps'[k][j] <= Interval
        <5>1. CASE j = n + 1
          BY <1>1, <1>3, <3>2, <5>1
        <5>2. CASE j # n + 1
          <6>1. j \in Nat /\ j <= n + 1 /\ j >= first + 1 /\ first >= 1
            BY <4>3
          <6>2. j <= n
            BY <5>2, <6>1
          <6>3. j \in 1 .. n /\ j \in first + 1 .. n
            BY <6>1, <6>2
          <6> QED
            BY <1>3, <4>1, <6>3 DEF StreakFrom
        <5> QED
          BY <5>1, <5>2
      <4>4. first > 1 => gaps'[k][first] > Interval
        BY <1>3, <4>1 DEF StreakFrom
      <4>5. StreakFrom(k, first)'
        <5>1. streak'[k].counter = Len(gaps'[k]) + 1 - first
          BY <1>3, <4>2
        <5>2. \A j \in first + 1 .. Len(gaps'[k]) : gaps'[k][j] <= Interval
          BY <1>3, <4>3
        <5> QED
          BY <4>4, <5>1, <5>2 DEF StreakFrom
      <4> QED
        BY <1>1, <4>5
    <3> QED
      BY <3>1, <3>2
  <2> QED
    BY <1>1, <1>3, <1>5, <2>1 DEF Shape
<1>11. ASSUME NEW q \in Players, q # k PROVE Shape(q)'
  BY <1>2, <1>11 DEF StreakTypes, Shapes, Shape, StreakFrom
<1> QED
  BY <1>4, <1>9, <1>10, <1>11 DEF Shapes

\* Time passes alike for both.
LEMMA StreakTick ==
    ASSUME StreakTypes, GapsType, Shapes, gaps' = gaps,
           streak' = [p \in Players |-> [streak[p] EXCEPT !.ago = Later(@, Past)]],
           since' = [p \in Players |-> Later(since[p], Past)]
    PROVE  StreakTypes' /\ GapsType' /\ Shapes'
<1>0. Past \in Nat /\ Interval \in Nat /\ Interval < Past /\ MaxKills \in Nat
  BY RestedIs, CombatAssumption
<1> USE <1>0
<1>1. \A t \in 0 .. Past : Later(t, Past) \in 0 .. Past
  BY LaterIs
<1>2. ASSUME NEW p \in Players
      PROVE  /\ streak'[p] = [counter |-> streak[p].counter, ago |-> Later(streak[p].ago, Past)]
             /\ since'[p] = Later(since[p], Past)
  BY DEF StreakTypes
<1>3. StreakTypes'
  BY <1>1, <1>2 DEF StreakTypes
<1>4. ASSUME NEW p \in Players PROVE Shape(p)'
  <2>1. streak'[p].counter = streak[p].counter /\ streak'[p].ago = since'[p]
    BY <1>2 DEF Shapes, Shape
  <2>2. \A f : StreakFrom(p, f) => StreakFrom(p, f)'
    BY <2>1 DEF StreakFrom
  <2> QED
    BY <2>1, <2>2 DEF Shapes, Shape
<1> QED
  BY <1>3, <1>4 DEF GapsType, Shapes

-----------------------------------------------------------------------------
(***************************************************************************)
(* Roles and towers.                                                       *)
(***************************************************************************)

Roles ==
    [kind : Kinds \cup {"none"}, idle : 0 .. Rested, tower : Towers \cup {NoTower}]

RoleTypes ==
    /\ life \in [Players -> {"out", "choosing", "alive", "dead"}]
    /\ profiles \in SUBSET Players
    /\ role \in [Players -> Roles]
    /\ standing \in SUBSET Towers
    /\ rested \in [Players -> 0 .. Rested]
    /\ chose \in SUBSET Players
    /\ stale \in SUBSET Players
    /\ \A p \in Players : life[p] \in {"alive", "dead"} => role[p].kind # "none"
    /\ \A p \in Players : role[p].tower # NoTower => role[p].kind = "engineer"

\* The type invariant in its two parts.
LEMMA Types == TypeOK <=> RoleTypes /\ StreakTypes
  BY DEF TypeOK, RoleTypes, StreakTypes, Roles

\* A role is idle at most as long as its player has rested, unless the player
\* chose it since.
Cooldowns == \A p \in Players \ chose : role[p].idle <= rested[p]

RoleInv == RoleTypes /\ TowersFollow /\ Cooldowns

\* Numbers of towers are positive, and what a new role is.
LEMMA TowersAre ==
    /\ Cardinality(Players) \in Nat
    /\ Towers \in SUBSET Nat /\ NoTower \notin Towers
    /\ NoRole \in Roles /\ NoRole.tower = NoTower
    /\ \A k \in Kinds : /\ NewRole(k) \in Roles /\ NewRole(k).tower = NoTower
                        /\ NewRole(k).kind = k /\ k # "none"
<1>1. Cardinality(Players) \in Nat
  BY FS_CardinalityType, CombatAssumption
<1> QED
  BY <1>1, RestedIs DEF Towers, NoTower, NoRole, NewRole, Roles, Kinds

\* There are never more towers than players, so one number is free, and
\* CreateDynamicObject gives the lowest.
LEMMA TowerIsFree ==
    ASSUME RoleTypes, TowersFollow
    PROVE  Min(Towers \ standing) \in Towers \ standing
<1> DEFINE N == Cardinality(Players)
           Builders == {p \in Players : role[p].tower # NoTower}
           f == [p \in Builders |-> role[p].tower]
<1>1. IsFiniteSet(Players) /\ N \in Nat
  BY FS_CardinalityType, CombatAssumption
<1>2. IsFiniteSet(Builders) /\ Cardinality(Builders) <= N
  <2>1. Builders \in SUBSET Players
    OBVIOUS
  <2> HIDE DEF Builders
  <2> QED
    BY <1>1, <2>1, FS_Subset
<1>3. f \in Surjection(Builders, standing)
  <2>1. \A p \in Builders : role[p].tower \in standing
    BY DEF TowersFollow
  <2>2. \A t \in standing : \E p \in Builders : role[p].tower = t
    BY DEF TowersFollow
  <2> HIDE DEF Builders
  <2> QED
    BY <2>1, <2>2 DEF Surjection
<1>4. IsFiniteSet(standing) /\ Cardinality(standing) <= Cardinality(Builders)
  <2> HIDE DEF Builders, f
  <2> QED
    BY <1>2, <1>3, FS_Surjection
<1>5. IsFiniteSet(Towers) /\ Cardinality(Towers) = N + 1
  <2>1. 1 \in Int /\ N + 1 \in Int /\ ~ (1 > N + 1) /\ N + 1 - 1 + 1 = N + 1
    BY <1>1
  <2> QED
    BY <2>1, FS_Interval DEF Towers
<1>6. Cardinality(standing) \in Nat /\ Cardinality(Builders) \in Nat
  <2> HIDE DEF Builders
  <2> QED
    BY <1>2, <1>4, FS_CardinalityType
<1>7. standing # Towers
  <2> HIDE DEF Builders, N
  <2> QED
    BY <1>1, <1>2, <1>4, <1>5, <1>6
<1>8. Towers \ standing # {} /\ Towers \ standing \in SUBSET Nat
  BY <1>7, TowersAre DEF RoleTypes
<1> QED
  BY <1>8, MinIs

\* A role whose skill is used.
LEMMA RoleUsed ==
    ASSUME NEW r \in Roles, NEW t \in Towers \cup {NoTower}
    PROVE  /\ [r EXCEPT !.tower = t, !.idle = 0] \in Roles
           /\ [r EXCEPT !.tower = t, !.idle = 0].kind = r.kind
           /\ [r EXCEPT !.tower = t, !.idle = 0].tower = t
           /\ [r EXCEPT !.tower = t, !.idle = 0].idle = 0
<1>1. 0 \in 0 .. Rested
  BY RestedIs
<1>2. [r EXCEPT !.tower = t, !.idle = 0] = [kind |-> r.kind, idle |-> 0, tower |-> t]
  <2>1. PICK u : u = [r EXCEPT !.tower = t]
    OBVIOUS
  <2>2. u = [kind |-> r.kind, idle |-> r.idle, tower |-> t]
    BY <2>1 DEF Roles
  <2>3. [u EXCEPT !.idle = 0] = [kind |-> r.kind, idle |-> 0, tower |-> t]
    BY <2>2
  <2> QED
    BY <2>1, <2>3 DEF Roles
<1>3. r.kind \in Kinds \cup {"none"}
  BY DEF Roles
<1> QED
  BY <1>1, <1>2, <1>3 DEF Roles

\* The initial roles.
LEMMA InitRoles == Init => RoleInv
<1> SUFFICES ASSUME Init PROVE RoleInv
  OBVIOUS
<1> USE TowersAre, RestedIs
<1>1. RoleTypes
  BY DEF Init, RoleTypes
<1>2. TowersFollow
  BY DEF Init, TowersFollow
<1>3. Cooldowns
  BY DEF Init, Cooldowns, NoRole, NewRole
<1> QED
  BY <1>1, <1>2, <1>3 DEF RoleInv

\* A role without a tower takes the place of p's role: a new choice, a death, a
\* profile that goes.
LEMMA RoleReplaced ==
    ASSUME RoleInv, NEW p \in Players, NEW r \in Roles, r.tower = NoTower,
           role' = [role EXCEPT ![p] = r], standing' = Without(p),
           \A q \in Players : q # p => life'[q] = life[q] /\ (q \in stale => q \in stale')
    PROVE  TowersFollow' /\ standing' \in SUBSET Towers /\ role' \in [Players -> Roles]
<1> USE TowersAre
<1>1. role'[p] = r /\ \A q \in Players : q # p => role'[q] = role[q]
  BY DEF RoleInv, RoleTypes
<1>2. role' \in [Players -> Roles]
  BY DEF RoleInv, RoleTypes
<1>3. standing' \in SUBSET Towers
  BY DEF RoleInv, RoleTypes, Without
<1>4. standing' = {role'[q].tower : q \in Players} \ {NoTower}
  <2>1. ASSUME NEW t \in standing' PROVE t \in {role'[q].tower : q \in Players} \ {NoTower}
    <3>1. t \in standing /\ t # role[p].tower
      BY <2>1 DEF Without
    <3>2. PICK q \in Players : role[q].tower = t /\ t # NoTower
      BY <3>1 DEF RoleInv, TowersFollow
    <3> QED
      BY <1>1, <3>1, <3>2
  <2>2. ASSUME NEW q \in Players, role'[q].tower # NoTower PROVE role'[q].tower \in standing'
    <3>1. q # p /\ role'[q] = role[q]
      BY <1>1, <2>2
    <3>2. role[q].tower \in standing /\ role[q].tower # role[p].tower
      BY <2>2, <3>1 DEF RoleInv, TowersFollow
    <3> QED
      BY <3>1, <3>2 DEF Without
  <2> QED
    BY <2>1, <2>2
<1>5. \A q, u \in Players : q # u /\ role'[q].tower = role'[u].tower => role'[q].tower = NoTower
  BY <1>1 DEF RoleInv, TowersFollow
<1>6. \A q \in Players : role'[q].tower # NoTower => life'[q] \in {"alive", "choosing"} \/ q \in stale'
  BY <1>1 DEF RoleInv, TowersFollow
<1> QED
  BY <1>2, <1>3, <1>4, <1>5, <1>6 DEF TowersFollow

\* Every step keeps roles, towers and cooldowns in order.
LEMMA RolesNext == RoleInv /\ [Next]_vars => RoleInv'
<1> SUFFICES ASSUME RoleInv, [Next]_vars PROVE RoleInv'
  OBVIOUS
<1>t. RoleTypes /\ TowersFollow /\ Cooldowns
  BY DEF RoleInv
<1>1. CASE UNCHANGED vars
  BY <1>1, <1>t DEF vars, code, history, RoleInv, RoleTypes, TowersFollow, Cooldowns
<1>2. CASE Tick
  <2>1. \A t \in 0 .. Rested : Later(t, Rested) \in 0 .. Rested
    BY RestedIs, LaterIs
  <2>2. \A t, u \in 0 .. Rested : t <= u => Later(t, Rested) <= Later(u, Rested)
    BY RestedIs, LaterIs
  <2>3. \A p \in Players :
           /\ role[p] \in Roles
           /\ role'[p] = [kind |-> role[p].kind, idle |-> Later(role[p].idle, Rested),
                          tower |-> role[p].tower]
           /\ rested'[p] = Later(rested[p], Rested)
    BY <1>2, <1>t DEF Tick, RoleTypes, Roles
  <2>4. /\ role' \in [Players -> Roles]
        /\ \A p \in Players : role'[p].kind = role[p].kind /\ role'[p].tower = role[p].tower
    BY <1>2, <2>1, <2>3 DEF Tick, Roles
  <2>5. rested' \in [Players -> 0 .. Rested]
    BY <1>2, <1>t, <2>1 DEF Tick, RoleTypes
  <2>6. RoleTypes'
    BY <1>2, <1>t, <2>4, <2>5 DEF Tick, RoleTypes
  <2>7. TowersFollow'
    <3>1. {role'[p].tower : p \in Players} = {role[p].tower : p \in Players}
      BY <2>4
    <3>2. standing' = standing /\ life' = life /\ stale' = stale
      BY <1>2 DEF Tick
    <3>3. standing' = {role'[p].tower : p \in Players} \ {NoTower}
      BY <1>t, <3>1, <3>2 DEF TowersFollow
    <3>4. \A p, q \in Players : p # q /\ role'[p].tower = role'[q].tower => role'[p].tower = NoTower
      BY <1>t, <2>4 DEF TowersFollow
    <3>5. \A p \in Players : role'[p].tower # NoTower => life'[p] \in {"alive", "choosing"} \/ p \in stale'
      BY <1>t, <2>4, <3>2 DEF TowersFollow
    <3> QED
      BY <3>3, <3>4, <3>5 DEF TowersFollow
  <2>8. Cooldowns'
    <3> SUFFICES ASSUME NEW p \in Players \ chose PROVE role'[p].idle <= rested'[p]
      BY <1>2 DEF Tick, Cooldowns
    <3>1. role[p].idle \in 0 .. Rested /\ rested[p] \in 0 .. Rested /\ role[p].idle <= rested[p]
      BY <1>t DEF RoleTypes, Roles, Cooldowns
    <3>p. p \in Players
      OBVIOUS
    <3>2. rested'[p] = Later(rested[p], Rested)
      BY <3>p, <2>3
    <3>4. role'[p] = [kind |-> role[p].kind, idle |-> Later(role[p].idle, Rested),
                      tower |-> role[p].tower]
      BY <3>p, <2>3
    <3>5. role'[p].idle = Later(role[p].idle, Rested)
      BY <3>4
    <3>3. Later(role[p].idle, Rested) <= Later(rested[p], Rested)
      BY <2>2, <3>1
    <3> QED
      BY <3>2, <3>3, <3>5
  <2> QED
    BY <2>6, <2>7, <2>8 DEF RoleInv
<1>3. ASSUME NEW p \in Players, OnPlayerConnect(p) PROVE RoleInv'
  <2>1. RoleTypes'
    BY <1>3, <1>t DEF OnPlayerConnect, history, RoleTypes
  <2>2. TowersFollow'
    BY <1>3, <1>t DEF OnPlayerConnect, history, RoleTypes, TowersFollow
  <2>3. Cooldowns'
    BY <1>3, <1>t DEF OnPlayerConnect, history, Cooldowns
  <2> QED
    BY <2>1, <2>2, <2>3 DEF RoleInv
<1>4. ASSUME NEW p \in Players, OnPlayerDisconnect(p) PROVE RoleInv'
  <2>1. TowersFollow' /\ standing' \in SUBSET Towers /\ role' \in [Players -> Roles]
    <3>1. \A q \in Players : q # p => life'[q] = life[q] /\ (q \in stale => q \in stale')
      BY <1>4, <1>t DEF OnPlayerDisconnect, RoleTypes
    <3> QED
      BY <1>4, <3>1, TowersAre, RoleReplaced DEF OnPlayerDisconnect
  <2>2. \A q \in Players : role'[q] = IF q = p THEN NoRole ELSE role[q]
    BY <1>4, <1>t DEF OnPlayerDisconnect, RoleTypes
  <2>3. RoleTypes'
    BY <1>4, <1>t, <2>1, <2>2, TowersAre, RestedIs DEF OnPlayerDisconnect, RoleTypes
  <2>4. Cooldowns'
    BY <1>4, <1>t, <2>2, RestedIs DEF OnPlayerDisconnect, RoleTypes, Cooldowns, NoRole, NewRole
  <2> QED
    BY <2>1, <2>3, <2>4 DEF RoleInv
<1>5. ASSUME NEW p \in Players, OnPlayerDisconnectFails(p) PROVE RoleInv'
  <2>1. RoleTypes'
    BY <1>5, <1>t DEF OnPlayerDisconnectFails, RoleTypes
  <2>2. TowersFollow'
    BY <1>5, <1>t DEF OnPlayerDisconnectFails, RoleTypes, TowersFollow
  <2>3. Cooldowns'
    BY <1>5, <1>t DEF OnPlayerDisconnectFails, Cooldowns
  <2> QED
    BY <2>1, <2>2, <2>3 DEF RoleInv
<1>6. ASSUME NEW p \in Players, NEW k \in Kinds, RoleSelect(p, k) PROVE RoleInv'
  <2>1. TowersFollow' /\ standing' \in SUBSET Towers /\ role' \in [Players -> Roles]
    <3>1. \A q \in Players : q # p => life'[q] = life[q] /\ (q \in stale => q \in stale')
      BY <1>6, <1>t DEF RoleSelect, RoleTypes
    <3> QED
      BY <1>6, <3>1, TowersAre, RoleReplaced DEF RoleSelect
  <2>2. \A q \in Players : role'[q] = IF q = p THEN NewRole(k) ELSE role[q]
    BY <1>6, <1>t DEF RoleSelect, RoleTypes
  <2>3. RoleTypes'
    BY <1>6, <1>t, <2>1, <2>2, TowersAre DEF RoleSelect, RoleTypes
  <2>4. Cooldowns'
    BY <1>6, <1>t, <2>2 DEF RoleSelect, RoleTypes, Cooldowns
  <2> QED
    BY <2>1, <2>3, <2>4 DEF RoleInv
<1>7. ASSUME NEW p \in Players, ForceClassSelection(p) \/ OnPlayerSpawn(p) PROVE RoleInv'
  <2>1. RoleTypes'
    BY <1>7, <1>t DEF ForceClassSelection, OnPlayerSpawn, history, RoleTypes
  <2>2. TowersFollow'
    BY <1>7, <1>t DEF ForceClassSelection, OnPlayerSpawn, history, RoleTypes, TowersFollow
  <2>3. Cooldowns'
    BY <1>7, <1>t DEF ForceClassSelection, OnPlayerSpawn, history, Cooldowns
  <2> QED
    BY <2>1, <2>2, <2>3 DEF RoleInv
<1>8. ASSUME NEW p \in Players, PerformSpecialSkill(p) PROVE RoleInv'
  <2>1. role[p] \in Roles /\ role[p].tower = NoTower
    BY <1>8, <1>t DEF PerformSpecialSkill, RoleTypes
  <2>2. \A q \in Players : role'[q] = IF q = p THEN [role[p] EXCEPT !.tower = NoTower, !.idle = 0]
                                      ELSE role[q]
    BY <1>8, <1>t DEF PerformSpecialSkill, Used, RoleTypes
  <2>3. /\ role' \in [Players -> Roles]
        /\ \A q \in Players : role'[q].kind = role[q].kind /\ role'[q].tower = role[q].tower
        /\ role'[p].idle = 0
    <3>1. /\ role'[p] \in Roles /\ role'[p].kind = role[p].kind
          /\ role'[p].tower = NoTower /\ role'[p].idle = 0
      <4>1. NoTower \in Towers \cup {NoTower}
        OBVIOUS
      <4>2. PICK u : u = [role[p] EXCEPT !.tower = NoTower, !.idle = 0]
        OBVIOUS
      <4>3. u \in Roles /\ u.kind = role[p].kind /\ u.tower = NoTower /\ u.idle = 0
        BY <2>1, <4>1, <4>2, RoleUsed
      <4> QED
        BY <2>2, <4>2, <4>3
    <3>2. \A q \in Players : role'[q] \in Roles
      BY <1>t, <2>2, <3>1 DEF RoleTypes
    <3>3. role' \in [Players -> Roles]
      BY <1>8, <1>t, <3>2 DEF PerformSpecialSkill, Used, RoleTypes
    <3> QED
      BY <2>1, <2>2, <3>1, <3>3
  <2>4. RoleTypes'
    BY <1>8, <1>t, <2>3, RestedIs DEF PerformSpecialSkill, Used, RoleTypes
  <2>5. TowersFollow'
    <3>1. {role'[q].tower : q \in Players} = {role[q].tower : q \in Players}
      BY <2>3
    <3> QED
      BY <1>8, <1>t, <2>3, <3>1 DEF PerformSpecialSkill, Used, TowersFollow
  <2>6. Cooldowns'
    BY <1>8, <1>t, <2>2, <2>3 DEF PerformSpecialSkill, Used, RoleTypes, Cooldowns
  <2> QED
    BY <2>4, <2>5, <2>6 DEF RoleInv
<1>9. ASSUME NEW p \in Players, BuildTower(p) PROVE RoleInv'
  <2>1. PICK new : new = Min(Towers \ standing)
    OBVIOUS
  <2>2. new \in Towers /\ new \notin standing /\ new # NoTower
    BY <1>t, <2>1, TowerIsFree, TowersAre
  <2>3. Used(p, new) /\ standing' = Without(p) \cup {new} /\ role[p].kind = "engineer"
    BY <1>9, <2>1 DEF BuildTower
  <2>4. role[p] \in Roles
    BY <1>t DEF RoleTypes
  <2>5. \A q \in Players : role'[q] = IF q = p THEN [role[p] EXCEPT !.tower = new, !.idle = 0]
                                      ELSE role[q]
    BY <2>3, <1>t DEF Used, RoleTypes
  <2>6. /\ role' \in [Players -> Roles]
        /\ \A q \in Players : role'[q].kind = role[q].kind
        /\ \A q \in Players : role'[q].tower = IF q = p THEN new ELSE role[q].tower
        /\ role'[p].idle = 0
    <3>1. /\ role'[p] \in Roles /\ role'[p].kind = role[p].kind
          /\ role'[p].tower = new /\ role'[p].idle = 0
      <4>1. new \in Towers \cup {NoTower}
        BY <2>2
      <4>2. PICK u : u = [role[p] EXCEPT !.tower = new, !.idle = 0]
        OBVIOUS
      <4>3. u \in Roles /\ u.kind = role[p].kind /\ u.tower = new /\ u.idle = 0
        BY <2>4, <4>1, <4>2, RoleUsed
      <4> QED
        BY <2>5, <4>2, <4>3
    <3>2. \A q \in Players : role'[q] \in Roles
      BY <1>t, <2>5, <3>1 DEF RoleTypes
    <3>3. role' \in [Players -> Roles]
      BY <1>t, <2>3, <3>2 DEF Used, RoleTypes
    <3> QED
      BY <2>5, <3>1, <3>3
  <2>7. RoleTypes'
    BY <1>t, <2>2, <2>3, <2>6, RestedIs DEF Used, Without, RoleTypes
  <2>8. TowersFollow'
    <3>1. standing' = {role'[q].tower : q \in Players} \ {NoTower}
      <4>1. ASSUME NEW t \in standing' PROVE t \in {role'[q].tower : q \in Players} \ {NoTower}
        <5>1. CASE t = new
          BY <2>2, <2>6, <5>1
        <5>2. CASE t # new
          <6>1. t \in standing /\ t # role[p].tower
            BY <2>3, <4>1, <5>2 DEF Without
          <6>2. PICK q \in Players : role[q].tower = t /\ t # NoTower
            BY <1>t, <6>1 DEF TowersFollow
          <6> QED
            BY <2>6, <6>1, <6>2
        <5> QED
          BY <5>1, <5>2
      <4>2. ASSUME NEW q \in Players, role'[q].tower # NoTower PROVE role'[q].tower \in standing'
        <5>1. CASE q = p
          BY <2>3, <2>6, <5>1
        <5>2. CASE q # p
          <6>1. role[q].tower \in standing /\ role[q].tower # role[p].tower
            BY <1>t, <2>6, <4>2, <5>2 DEF TowersFollow
          <6> QED
            BY <2>3, <2>6, <5>2, <6>1 DEF Without
        <5> QED
          BY <5>1, <5>2
      <4> QED
        BY <4>1, <4>2
    <3>2. \A q \in Players : role[q].tower # new
      BY <1>t, <2>2 DEF TowersFollow
    <3>3. \A q, u \in Players :
             q # u /\ role'[q].tower = role'[u].tower => role'[q].tower = NoTower
      BY <1>t, <2>6, <3>2 DEF TowersFollow
    <3>4. \A q \in Players : role'[q].tower # NoTower =>
             life'[q] \in {"alive", "choosing"} \/ q \in stale'
      BY <1>t, <1>9, <2>3, <2>6 DEF BuildTower, Used, TowersFollow
    <3> QED
      BY <3>1, <3>3, <3>4 DEF TowersFollow
  <2>9. Cooldowns'
    BY <1>t, <2>3, <2>5, <2>6 DEF Used, RoleTypes, Cooldowns
  <2> QED
    BY <2>7, <2>8, <2>9 DEF RoleInv
<1>10. ASSUME NEW p \in Players, Dies(p), OnDeath(p) PROVE RoleInv'
  <2>1. role[p] \in Roles /\ [role[p] EXCEPT !.tower = NoTower] \in Roles
        /\ [role[p] EXCEPT !.tower = NoTower].tower = NoTower
    BY <1>t DEF RoleTypes, Roles
  <2>2. role' = [role EXCEPT ![p] = [role[p] EXCEPT !.tower = NoTower]]
    BY <1>10, <1>t DEF OnDeath, RoleTypes
  <2>3. TowersFollow' /\ standing' \in SUBSET Towers /\ role' \in [Players -> Roles]
    <3>1. \A q \in Players : q # p => life'[q] = life[q] /\ (q \in stale => q \in stale')
      BY <1>10, <1>t DEF Dies, RoleTypes
    <3> QED
      BY <1>10, <2>1, <2>2, <3>1, RoleReplaced DEF OnDeath
  <2>4. \A q \in Players : /\ role'[q].kind = role[q].kind /\ role'[q].idle = role[q].idle
                           /\ role'[q].tower # NoTower => role[q].tower # NoTower
    BY <1>t, <2>1, <2>2 DEF RoleTypes, Roles
  <2>5. RoleTypes'
    BY <1>10, <1>t, <2>3, <2>4 DEF Dies, RoleTypes
  <2>6. Cooldowns'
    BY <1>10, <1>t, <2>4 DEF Dies, Cooldowns
  <2> QED
    BY <2>3, <2>5, <2>6 DEF RoleInv
<1> QED
  BY <1>1, <1>2, <1>3, <1>4, <1>5, <1>6, <1>7, <1>8, <1>9, <1>10
     DEF Next, OnPlayerDeath, OnPlayerDeathBy

-----------------------------------------------------------------------------
(***************************************************************************)
(* The inductive invariant and the theorems.                               *)
(***************************************************************************)

StreakInv == StreakTypes /\ GapsType /\ Shapes

CombatInv == RoleInv /\ StreakInv

\* No profile starts with a streak.
LEMMA InitStreaks == Init => StreakInv
<1> SUFFICES ASSUME Init PROVE StreakInv
  OBVIOUS
<1>0. Past \in Nat /\ Interval \in Nat /\ MaxKills \in Nat
  BY RestedIs, CombatAssumption
<1>1. <<>> \in Seq(0 .. Past) /\ Len(<<>>) = 0
  BY EmptySeq
<1>2. \A p \in Players : gaps[p] \in Seq(0 .. Past) /\ Len(gaps[p]) = 0
  BY <1>1 DEF Init
<1>3. GapsType
  BY <1>1 DEF Init, GapsType
<1>4. \A p \in Players : streak[p] = NoStreak /\ since[p] = Past
  BY DEF Init
<1>5. StreakTypes
  BY <1>0, <1>2 DEF Init, StreakTypes, NoStreak
<1>6. Shapes
  BY <1>2, <1>4 DEF Shapes, Shape, NoStreak
<1> QED
  BY <1>3, <1>5, <1>6 DEF StreakInv

\* Every step keeps the streaks in order.
LEMMA StreaksNext == StreakInv /\ [Next]_vars => StreakInv'
<1> SUFFICES ASSUME StreakInv, [Next]_vars PROVE StreakInv'
  OBVIOUS
<1>t. StreakTypes /\ GapsType /\ Shapes
  BY DEF StreakInv
<1>u. ASSUME UNCHANGED <<streak, gaps, since>> PROVE StreakInv'
  BY <1>t, <1>u, StreaksSame DEF StreakInv
<1>1. CASE UNCHANGED vars
  BY <1>1, <1>u DEF vars, code, history
<1>2. CASE Tick
  <2>1. StreakTypes' /\ GapsType' /\ Shapes'
    BY <1>2, <1>t, StreakTick DEF Tick
  <2> QED
    BY <2>1 DEF StreakInv
<1>3. ASSUME NEW p \in Players, OnPlayerDisconnect(p) PROVE StreakInv'
  <2>1. StreakTypes' /\ GapsType' /\ Shapes'
    BY <1>3, <1>t, StreakReset DEF OnPlayerDisconnect
  <2> QED
    BY <2>1 DEF StreakInv
<1>4. ASSUME NEW p \in Players, NEW k \in Players, OnPlayerDeathBy(p, k) PROVE StreakInv'
  <2>1. StreakTypes' /\ GapsType' /\ Shapes'
    BY <1>4, <1>t, StreakKill DEF OnPlayerDeathBy
  <2> QED
    BY <2>1 DEF StreakInv
<1>5. ASSUME NEW p \in Players, NEW k \in Kinds,
             \/ OnPlayerConnect(p) \/ OnPlayerDisconnectFails(p) \/ RoleSelect(p, k)
             \/ ForceClassSelection(p) \/ OnPlayerSpawn(p)
             \/ PerformSpecialSkill(p) \/ BuildTower(p) \/ OnPlayerDeath(p)
      PROVE  StreakInv'
  <2>1. UNCHANGED <<streak, gaps, since>>
    BY <1>5 DEF OnPlayerConnect, OnPlayerDisconnectFails, RoleSelect, ForceClassSelection,
                OnPlayerSpawn, PerformSpecialSkill, BuildTower, Used, OnPlayerDeath, history
  <2> QED
    BY <2>1, <1>u
<1>k. "medic" \in Kinds
  BY DEF Kinds
<1> QED
  BY <1>1, <1>2, <1>3, <1>4, <1>5, <1>k DEF Next

\* What the shape of a streak says of its counter.
LEMMA ShapeCounts ==
    ASSUME StreakInv, NEW p \in Players, gaps[p] # <<>>
    PROVE  LET n == Len(gaps[p])
               InARow(i) == \A j \in i + 1 .. n : gaps[p][j] <= Interval
           IN  streak[p].counter = n + 1 - Min({i \in 1 .. n : InARow(i)})
<1>1. gaps[p] \in Seq(0 .. Past) /\ Past \in Nat /\ Interval \in Nat
  BY RestedIs DEF StreakInv, StreakTypes
<1>2. PICK n \in Nat : n = Len(gaps[p])
  BY <1>1
<1>3. n > 0
  BY <1>1, <1>2, EmptySeq
<1>4. PICK first \in 1 .. n : StreakFrom(p, first)
  BY <1>2, <1>3 DEF StreakInv, Shapes, Shape
<1> DEFINE S == {i \in 1 .. n : \A j \in i + 1 .. n : gaps[p][j] <= Interval}
<1>5. first \in S
  BY <1>2, <1>4 DEF StreakFrom
<1>6. ASSUME NEW m \in S, ~ (first <= m) PROVE FALSE
  <2>1. m \in Nat /\ m >= 1 /\ m < first /\ first <= n
    BY <1>6
  <2>2. first \in m + 1 .. n /\ first > 1 /\ first \in 1 .. n
    BY <2>1
  <2>3. gaps[p][first] <= Interval
    BY <1>6, <2>2
  <2>4. gaps[p][first] > Interval
    BY <1>4, <2>2 DEF StreakFrom
  <2>5. gaps[p][first] \in Nat
    BY <1>1, <1>2, <2>2
  <2> QED
    BY <1>1, <2>3, <2>4, <2>5
<1>7. S \in SUBSET Nat
  OBVIOUS
<1>8. Min(S) = first
  <2> HIDE DEF S
  <2> QED
    BY <1>5, <1>6, <1>7, MinIsIt
<1>9. streak[p].counter = n + 1 - first
  BY <1>2, <1>4 DEF StreakFrom
<1> QED
  BY <1>2, <1>8, <1>9

\* The invariant is inductive.
THEOREM CombatInvariant == Spec => []CombatInv
<1>1. Init => CombatInv
  BY InitRoles, InitStreaks DEF CombatInv
<1>2. CombatInv /\ [Next]_vars => CombatInv'
  BY RolesNext, StreaksNext DEF CombatInv
<1> QED
  BY <1>1, <1>2, PTL DEF Spec

\* TypeOK: every slot's life, role, streak and tower stay in range; a player who
\* lives has chosen a role, and only an engineer has a tower.
THEOREM TypeCorrect == Spec => []TypeOK
<1>1. CombatInv => TypeOK
  BY Types DEF CombatInv, RoleInv, StreakInv
<1> QED
  BY <1>1, CombatInvariant, PTL

\* StreakCounts: KillCounter returns the number of last kills each of which came
\* at most killinterval after the one before, whatever happens in between.
THEOREM StreaksCount == Spec => []StreakCounts
<1>1. CombatInv => StreakCounts
  BY ShapeCounts DEF CombatInv, StreakCounts
<1> QED
  BY <1>1, CombatInvariant, PTL

\* TowersFollow: the streamer's towers are those of the engineers who have
\* neither died nor left since they built them.
THEOREM TowersGoWithBuilders == Spec => []TowersFollow
<1>1. CombatInv => TowersFollow
  BY DEF CombatInv, RoleInv
<1> QED
  BY <1>1, CombatInvariant, PTL

\* SkillsSpaced: two skills of a player are as far apart as CanPerformSkill of
\* his role demands, unless SetRole gave him a new role in between.
THEOREM SkillsKeepDistance == Spec => SkillsSpaced
<1>1. ASSUME RoleInv, NEW p \in Players, PerformSpecialSkill(p) \/ BuildTower(p)
      PROVE  rested[p] >= Limit[role[p].kind] \/ p \in chose
  <2> SUFFICES ASSUME p \notin chose PROVE rested[p] >= Limit[role[p].kind]
    OBVIOUS
  <2>1. life[p] = "alive" /\ role[p].idle >= Limit[role[p].kind]
    BY <1>1 DEF PerformSpecialSkill, BuildTower, CanPerformSkill
  <2>2. /\ role[p] \in Roles /\ rested[p] \in 0 .. Rested /\ role[p].kind # "none"
        /\ role[p].idle <= rested[p]
    BY <1>1, <2>1 DEF RoleInv, RoleTypes, Cooldowns
  <2>3. role[p].kind \in Kinds /\ role[p].idle \in 0 .. Rested
    BY <2>2 DEF Roles
  <2>4. Limit[role[p].kind] \in Nat /\ Rested \in Nat
    BY <2>3, RestedIs
  <2> QED
    BY <2>1, <2>2, <2>3, <2>4
<1>2. CombatInv => [\A p \in Players :
                      PerformSpecialSkill(p) \/ BuildTower(p) =>
                          rested[p] >= Limit[role[p].kind] \/ p \in chose]_vars
  BY <1>1 DEF CombatInv
<1> QED
  BY <1>2, CombatInvariant, PTL DEF SkillsSpaced

=============================================================================
