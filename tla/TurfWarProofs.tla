--------------------------- MODULE TurfWarProofs ----------------------------
(***************************************************************************)
(* The safety of turf wars for any teams, players, number of objects and   *)
(* lengths of the two timers, and with a database that loses and delays    *)
(* writes; and that no two EndWar calls cross when the timeout is shorter  *)
(* than the war.                                                           *)
(***************************************************************************)
EXTENDS TurfWar, TLAPS

USE DEF NoObject, Kinds

\* The records a zone and a call are made of.
LEMMA NewZoneType ==
    ASSUME NEW owner \in AnyTeam
    PROVE  NewZone(owner) \in Zones /\ ~ NewZone(owner).inWar
BY TurfWarAssumption DEF NewZone, Zones, AnyTeam

LEMMA NoCallType == NoCall \in Calls /\ NoCall.at = "none"
BY DEF NoCall, Calls, AnyTeam

\* What every record of the model is made of, spelled out for the provers.
LEMMA ZonesType ==
    ASSUME NEW z \in Zones
    PROVE  /\ z.owner \in AnyTeam /\ z.attacker \in AnyTeam
           /\ z.inWar \in BOOLEAN
           /\ z.enemyKill \in 0 .. MaxKills /\ z.memberDeath \in 0 .. MaxKills
BY DEF Zones

(***************************************************************************)
(* Type correctness.                                                       *)
(***************************************************************************)

\* The first zone is owned by the team its document names.
LEMMA TypeInit == Init => TypeOK
<1> SUFFICES ASSUME Init PROVE TypeOK
    OBVIOUS
<1>1. saved \in AnyTeam
    BY DEF Init, AnyTeam
<1>2. NewZone(saved) \in Zones
    BY <1>1, NewZoneType
<1>3. 1 \in 0 .. MaxObjects /\ 1 \in 0 .. 1
    BY TurfWarAssumption
<1> QED
    BY <1>1, <1>2, <1>3, NoCallType DEF Init, TypeOK, AnyTeam

\* A restart on any of the teams.
LEMMA TypeStart ==
    ASSUME TypeOK, NEW teams \in SUBSET Teams, Start(teams, saved), 
           UNCHANGED document
    PROVE  TypeOK'
<1>1. (IF saved \in teams THEN saved ELSE NoTeam) \in AnyTeam
    BY DEF AnyTeam
<1>2. NewZone(IF saved \in teams THEN saved ELSE NoTeam) \in Zones
    BY <1>1, NewZoneType
<1>3. zone' \in [Objects -> Zones]
    BY <1>2 DEF Start
<1>4. made' \in 0 .. MaxObjects /\ cur' \in 0 .. made'
    BY TurfWarAssumption DEF Start
<1>5. call' \in [Objects -> [Kinds -> Calls]]
    BY NoCallType DEF Start
<1>6. stray' = stray /\ saved' = saved
    BY DEF document
<1> QED
    BY <1>3, <1>4, <1>5, <1>6 DEF Start, TypeOK, AnyTeam, Expected

\* MemberArrived leaves a zone and fewer timers.
LEMMA TypeMemberArrived ==
    ASSUME TypeOK, NEW o \in Objects, MemberArrived(o)
    PROVE  /\ zone' \in [Objects -> Zones]
           /\ timeouts' \in [Objects -> SUBSET (0 .. TurfWarTimeout)]
           /\ left' \in [Objects -> SUBSET (0 .. TurfWarTimeout)]
           /\ \A q \in Objects : left'[q] \subseteq timeouts'[q]
           /\ answered' \in [Objects -> BOOLEAN]
<1>0. zone[o] \in Zones
    BY DEF TypeOK
<1>1. [zone[o] EXCEPT !.ref = "zero"] \in Zones
    BY <1>0 DEF Zones
<1>2. zone' = [zone EXCEPT ![o] = [zone[o] EXCEPT !.ref = "zero"]]
    BY DEF MemberArrived, TypeOK
<1>3. zone' \in [Objects -> Zones]
    BY <1>1, <1>2 DEF TypeOK
<1>4. timeouts' \in [Objects -> SUBSET (0 .. TurfWarTimeout)]
    BY DEF MemberArrived, TypeOK
<1>5. left' \in [Objects -> SUBSET (0 .. TurfWarTimeout)]
    BY DEF MemberArrived, TypeOK
<1>6. \A q \in Objects : left'[q] \subseteq timeouts'[q]
    BY DEF MemberArrived, TypeOK
<1> QED
    BY <1>3, <1>4, <1>5, <1>6 DEF MemberArrived, TypeOK

\* The object StartWar and OnPlayerDeath refer to is one.
LEMMA CurIsObject ==
    ASSUME TypeOK, cur # NoObject
    PROVE  cur \in Objects
BY TurfWarAssumption DEF TypeOK, Objects


\* No step leaves the types: timers stop at 0, counters at their bound, and no
\* object is numbered past the last.
LEMMA TypeNext == TypeOK /\ [Next]_vars => TypeOK'
<1> SUFFICES ASSUME TypeOK, [Next]_vars PROVE TypeOK'
    OBVIOUS
<1> USE DEF history, document
<1>1. ASSUME NEW p \in Players, NEW t \in Teams, TeamSelect(p, t)
      PROVE  TypeOK'
    <2>1. (IF t \in loaded THEN t ELSE NoTeam) \in AnyTeam
        BY DEF AnyTeam
    <2>2. team' \in [Players -> AnyTeam]
        BY <1>1, <2>1 DEF TeamSelect, TypeOK
    <2>3. listed' \in SUBSET Players
        BY <1>1 DEF TeamSelect, TypeOK
    <2> QED
        BY <1>1, <2>2, <2>3 DEF TeamSelect, TypeOK, objects, timers
<1>2. ASSUME NEW p \in Players, OnPlayerDisconnect(p)
      PROVE  TypeOK'
    BY <1>2 DEF OnPlayerDisconnect, TypeOK, objects, timers, AnyTeam
<1>3. ASSUME NEW p \in Players, OnPlayerEnter(p)
      PROVE  TypeOK'
    <2>1. /\ zone' \in [Objects -> Zones]
          /\ timeouts' \in [Objects -> SUBSET (0 .. TurfWarTimeout)]
          /\ left' \in [Objects -> SUBSET (0 .. TurfWarTimeout)]
          /\ \A q \in Objects : left'[q] \subseteq timeouts'[q]
          /\ answered' \in [Objects -> BOOLEAN]
        <3>1. CASE cur # NoObject /\ MemberArrived(cur)
            BY <3>1, CurIsObject, TypeMemberArrived
        <3>2. CASE UNCHANGED <<timeouts, left, zone, answered>>
            BY <3>2 DEF TypeOK
        <3> QED
            BY <1>3, <3>1, <3>2 DEF OnPlayerEnter
    <2> QED
        BY <1>3, <2>1 DEF OnPlayerEnter, TypeOK
<1>4. ASSUME NEW p \in Players, OnPlayerExit(p)
      PROVE  TypeOK'
    BY <1>4 DEF OnPlayerExit, TypeOK, objects, timers
<1>5. ASSUME NEW p \in Players, StartWar(p)
      PROVE  TypeOK'
    <2> DEFINE inz == Members(zone[cur].owner) \cap inZone # {}
               z == [zone[cur] EXCEPT !.inWar = TRUE, !.attacker = team[p],
                                      !.ref = IF inz THEN @ ELSE "set"]
    <2>1. cur \in Objects
        BY <1>5, CurIsObject DEF StartWar
    <2>2. z \in Zones
        <3>1. zone[cur] \in Zones /\ team[p] \in AnyTeam
            BY <2>1 DEF TypeOK
        <3> HIDE DEF inz
        <3> QED
            BY <3>1 DEF Zones
    <2>3. zone' = [zone EXCEPT ![cur] = z]
        BY <1>5, <2>1 DEF StartWar, TypeOK
    <2>4. zone' \in [Objects -> Zones]
        BY <2>1, <2>2, <2>3 DEF TypeOK
    <2>5. endTimers' \in [Objects -> SUBSET (0 .. TurfWarLast)]
        <3>1. TurfWarLast \in 0 .. TurfWarLast
            BY TurfWarAssumption
        <3> QED
            BY <1>5, <2>1, <3>1 DEF StartWar, EndTimer, TypeOK
    <2>6. timeouts' \in [Objects -> SUBSET (0 .. TurfWarTimeout)]
        BY <1>5, <2>1, TurfWarAssumption DEF StartWar, TypeOK
    <2>7. answered' \in [Objects -> BOOLEAN]
        BY <1>5, <2>1 DEF StartWar, TypeOK
    <2>8. /\ left' \in [Objects -> SUBSET (0 .. TurfWarTimeout)]
          /\ \A q \in Objects : left'[q] \subseteq timeouts'[q]
        BY <1>5, <2>1 DEF StartWar, TypeOK
    <2> QED
        BY <1>5, <2>4, <2>5, <2>6, <2>7, <2>8 DEF StartWar, TypeOK, place
<1>6. ASSUME NEW owner \in AnyTeam, made < MaxObjects, Construct(owner)
      PROVE  /\ zone' \in [Objects -> Zones]
             /\ made' \in 0 .. MaxObjects
             /\ cur' \in 0 .. made'
    <2>1. zone' \in [Objects -> Zones]
        BY <1>6, NewZoneType DEF Construct, TypeOK
    <2> QED
        BY <1>6, <2>1, TurfWarAssumption DEF Construct, TypeOK
<1>7. ASSUME NEW p \in Players, CreateZone(p)
      PROVE  TypeOK'
    <2>1. team[p] \in AnyTeam
        BY DEF TypeOK
    <2>2. /\ zone' \in [Objects -> Zones]
          /\ made' \in 0 .. MaxObjects
          /\ cur' \in 0 .. made'
        <3>1. CASE Construct(team[p])
            BY <1>7, <2>1, <3>1, <1>6 DEF CreateZone
        <3>2. CASE UNCHANGED objects
            BY <3>2 DEF TypeOK, objects
        <3> QED
            BY <1>7, <3>1, <3>2 DEF CreateZone
    <2> QED
        BY <1>7, <2>1, <2>2 DEF CreateZone, TypeOK, place, timers, AnyTeam
<1>8. ASSUME NEW p \in Players, NEW k \in Players, OnPlayerDeath(p, k)
      PROVE  TypeOK'
    <2> DEFINE loss == zone[cur].inWar /\ team[p] = zone[cur].owner /\ team[k] = zone[cur].attacker
               gain == zone[cur].inWar /\ team[p] = zone[cur].attacker /\ team[k] = zone[cur].owner
               z == [zone[cur] EXCEPT !.memberDeath = IF loss THEN @ + 1 ELSE @,
                                      !.enemyKill = IF gain THEN @ + 1 ELSE @]
    <2>1. cur \in Objects
        BY <1>8, CurIsObject DEF OnPlayerDeath
    <2>2. zone[cur] \in Zones
        BY <2>1 DEF TypeOK
    <2>3. /\ loss => zone[cur].memberDeath < MaxKills
          /\ gain => zone[cur].enemyKill < MaxKills
        BY <1>8 DEF OnPlayerDeath
    <2>4. z \in Zones
        <3>1. (IF loss THEN zone[cur].memberDeath + 1 ELSE zone[cur].memberDeath) \in 0 .. MaxKills
            BY <2>2, <2>3, ZonesType, TurfWarAssumption
        <3>2. (IF gain THEN zone[cur].enemyKill + 1 ELSE zone[cur].enemyKill) \in 0 .. MaxKills
            BY <2>2, <2>3, ZonesType, TurfWarAssumption
        <3> HIDE DEF loss, gain
        <3> QED
            BY <2>2, <3>1, <3>2 DEF Zones
    <2>5. zone' = [zone EXCEPT ![cur] = z]
        BY <1>8, <2>1 DEF OnPlayerDeath, TypeOK
    <2>6. zone' \in [Objects -> Zones]
        BY <2>1, <2>4, <2>5 DEF TypeOK
    <2>7. late' \in [Objects -> BOOLEAN]
        BY <1>8, <2>1 DEF OnPlayerDeath, TypeOK
    <2> QED
        BY <1>8, <2>6, <2>7 DEF OnPlayerDeath, TypeOK, place, timers
<1>9. ASSUME NEW teams \in SUBSET Teams, ReloadTeams(teams)
      PROVE  TypeOK'
    BY <1>9 DEF ReloadTeams, TypeOK, objects, timers
<1>10. ASSUME NEW o \in Objects, NEW k \in Kinds, Dispatch(o, k)
       PROVE  TypeOK'
    <2>1. endTimers' \in [Objects -> SUBSET (0 .. TurfWarLast)]
        BY <1>10 DEF Dispatch, TypeOK
    <2>2. timeouts' \in [Objects -> SUBSET (0 .. TurfWarTimeout)]
        BY <1>10 DEF Dispatch, TypeOK
    <2>3. [at |-> "begin", won |-> NoTeam] \in Calls
        BY DEF Calls, AnyTeam
    <2>4. call' \in [Objects -> [Kinds -> Calls]]
        BY <1>10, <2>3 DEF Dispatch, TypeOK
    <2>5. /\ left' \in [Objects -> SUBSET (0 .. TurfWarTimeout)]
          /\ \A q \in Objects : left'[q] \subseteq timeouts'[q]
        BY <1>10 DEF Dispatch, TypeOK
    <2> QED
        BY <1>10, <2>1, <2>2, <2>4, <2>5 DEF Dispatch, TypeOK, place, objects
<1>11. ASSUME NEW o \in Objects, NEW k \in Kinds, EndWar(o, k)
       PROVE  TypeOK'
    <2>z. zone[o] \in Zones
        BY DEF TypeOK
    <2>c. call[o][k] \in Calls
        BY DEF TypeOK
    <2>1. CASE EndWarSkip(o, k)
        <3>1. call' \in [Objects -> [Kinds -> Calls]]
            BY <2>1, NoCallType DEF EndWarSkip, TypeOK
        <3> QED
            BY <2>1, <3>1 DEF EndWarSkip, TypeOK, place, objects
    <2>2. CASE EndWarDecide(o, k)
        <3>1. [at |-> IF AttackerWins(o, k) THEN "save" ELSE "reset",
               won |-> IF AttackerWins(o, k) THEN zone[o].attacker ELSE NoTeam] \in Calls
            BY <2>z, ZonesType DEF Calls, AnyTeam
        <3>2. call' \in [Objects -> [Kinds -> Calls]]
            BY <2>2, <3>1 DEF EndWarDecide, TypeOK
        <3>3. endTimers' \in [Objects -> SUBSET (0 .. TurfWarLast)]
            BY <2>2 DEF EndWarDecide, EndTimerDestroyed, TypeOK
        <3>4. crossed' \in [Objects -> BOOLEAN]
            BY <2>2 DEF EndWarDecide, Crosses, TypeOK
        <3> QED
            BY <2>2, <3>2, <3>3, <3>4 DEF EndWarDecide, TypeOK, place, objects
    <2>3. CASE EndWarThrows(o, k)
        BY <2>3, TypeStart DEF EndWarThrows, Crash
    <2>4. ASSUME NEW from, NEW to \in {"none", "begin", "save", "own", "reset", "clear", "end"},
                 Step(o, k, from, to)
          PROVE  call' \in [Objects -> [Kinds -> Calls]]
        <3>1. [call[o][k] EXCEPT !.at = to] \in Calls
            BY <2>c, <2>4 DEF Calls
        <3>2. call' = [call EXCEPT ![o] = [call[o] EXCEPT ![k] = [call[o][k] EXCEPT !.at = to]]]
            BY <2>4 DEF Step, TypeOK
        <3> QED
            BY <3>1, <3>2 DEF TypeOK
    <2>5. CASE EndWarSave(o, k)
        <3>1. call' \in [Objects -> [Kinds -> Calls]]
            BY <2>4, <2>5 DEF EndWarSave
        <3>2. /\ saved' \in AnyTeam \cup {Missing}
              /\ stray' \in AnyTeam \cup {Missing, NoWrite}
            BY <2>5, <2>z, ZonesType DEF EndWarSave, Delayed, TypeOK
        <3>3. unsure' \in BOOLEAN
            BY <2>5 DEF EndWarSave, Expected, TypeOK
        <3> QED
            BY <2>5, <3>1, <3>2, <3>3 DEF EndWarSave, TypeOK, place, objects
    <2>6. CASE EndWarOwn(o, k)
        <3>1. call' \in [Objects -> [Kinds -> Calls]]
            BY <2>4, <2>6 DEF EndWarOwn
        <3>2. [zone[o] EXCEPT !.owner = zone[o].attacker] \in Zones
            BY <2>z, ZonesType DEF Zones
        <3>3. zone' = [zone EXCEPT ![o] = [zone[o] EXCEPT !.owner = zone[o].attacker]]
            BY <2>6 DEF EndWarOwn, TypeOK
        <3>4. zone' \in [Objects -> Zones]
            BY <3>2, <3>3 DEF TypeOK
        <3> QED
            BY <2>6, <3>1, <3>4 DEF EndWarOwn, TypeOK, place
    <2>7. CASE EndWarReset(o, k)
        <3>1. call' \in [Objects -> [Kinds -> Calls]]
            BY <2>4, <2>7 DEF EndWarReset
        <3>2. [zone[o] EXCEPT !.enemyKill = 0, !.memberDeath = 0] \in Zones
            <4>1. 0 \in 0 .. MaxKills
                BY TurfWarAssumption
            <4> QED
                BY <2>z, <4>1 DEF Zones
        <3>3. zone' = [zone EXCEPT ![o] = [zone[o] EXCEPT !.enemyKill = 0, !.memberDeath = 0]]
            BY <2>7 DEF EndWarReset, TypeOK
        <3>4. zone' \in [Objects -> Zones]
            BY <3>2, <3>3 DEF TypeOK
        <3>5. late' \in [Objects -> BOOLEAN]
            BY <2>7 DEF EndWarReset, TypeOK
        <3> QED
            BY <2>7, <3>1, <3>4, <3>5 DEF EndWarReset, TypeOK, place
    <2>8. CASE EndWarClear(o, k)
        <3>1. call' \in [Objects -> [Kinds -> Calls]]
            BY <2>4, <2>8 DEF EndWarClear
        <3>2. [zone[o] EXCEPT !.attacker = NoTeam] \in Zones
            BY <2>z DEF Zones, AnyTeam
        <3>3. zone' = [zone EXCEPT ![o] = [zone[o] EXCEPT !.attacker = NoTeam]]
            BY <2>8 DEF EndWarClear, TypeOK
        <3>4. zone' \in [Objects -> Zones]
            BY <3>2, <3>3 DEF TypeOK
        <3> QED
            BY <2>8, <3>1, <3>4 DEF EndWarClear, TypeOK, place
    <2>9. CASE EndWarEnd(o, k)
        <3>1. call' \in [Objects -> [Kinds -> Calls]]
            BY <2>9, NoCallType DEF EndWarEnd, TypeOK
        <3>2. [zone[o] EXCEPT !.inWar = FALSE] \in Zones
            BY <2>z DEF Zones
        <3>3. zone' = [zone EXCEPT ![o] = [zone[o] EXCEPT !.inWar = FALSE]]
            BY <2>9 DEF EndWarEnd, TypeOK
        <3>4. zone' \in [Objects -> Zones]
            BY <3>2, <3>3 DEF TypeOK
        <3>5. /\ answered' \in [Objects -> BOOLEAN]
              /\ left' \in [Objects -> SUBSET (0 .. TurfWarTimeout)]
              /\ \A q \in Objects : left'[q] \subseteq timeouts'[q]
            BY <2>9 DEF EndWarEnd, TypeOK
        <3> QED
            BY <2>9, <3>1, <3>4, <3>5 DEF EndWarEnd, TypeOK, place
    <2> QED
        BY <1>11, <2>1, <2>2, <2>3, <2>5, <2>6, <2>7, <2>8, <2>9 DEF EndWar
<1>12. CASE Tick
    <2>1. ASSUME NEW n \in Nat, NEW minutes \in [Objects -> SUBSET (0 .. n)],
                 \A o \in Objects : 0 \notin minutes[o]
          PROVE  Minus1(minutes) \in [Objects -> SUBSET (0 .. n)]
        <3>1. ASSUME NEW o \in Objects, NEW m \in minutes[o]
              PROVE  m - 1 \in 0 .. n
            <4>1. m \in 0 .. n /\ m # 0
                BY <2>1
            <4> QED
                BY <4>1
        <3> QED
            BY <3>1 DEF Minus1
    <2>2. endTimers' \in [Objects -> SUBSET (0 .. TurfWarLast)]
        BY <1>12, <2>1, TurfWarAssumption DEF Tick, TypeOK
    <2>3. timeouts' \in [Objects -> SUBSET (0 .. TurfWarTimeout)]
        BY <1>12, <2>1, TurfWarAssumption DEF Tick, TypeOK
    <2>4. left' \in [Objects -> SUBSET (0 .. TurfWarTimeout)]
        <3>1. \A o \in Objects : 0 \notin left[o]
            BY <1>12 DEF Tick, TypeOK
        <3>2. left \in [Objects -> SUBSET (0 .. TurfWarTimeout)] /\ left' = Minus1(left)
            BY <1>12 DEF Tick, TypeOK
        <3> QED
            BY <2>1, <3>1, <3>2, TurfWarAssumption
    <2>5. \A o \in Objects : left'[o] \subseteq timeouts'[o]
        BY <1>12 DEF Tick, Minus1, TypeOK
    <2> QED
        BY <1>12, <2>2, <2>3, <2>4, <2>5 DEF Tick, TypeOK, place, objects
<1>13. CASE ReloadZones
    <2>1. /\ zone' \in [Objects -> Zones]
          /\ made' \in 0 .. MaxObjects
          /\ cur' \in 0 .. made'
        <3>1. CASE saved \in loaded /\ Construct(saved)
            BY <1>13, <3>1, <1>6 DEF ReloadZones, TypeOK, AnyTeam
        <3>2. CASE cur' = NoObject /\ UNCHANGED <<made, zone>>
            BY <3>2, TurfWarAssumption DEF TypeOK
        <3> QED
            BY <1>13, <3>1, <3>2 DEF ReloadZones
    <2>2. unsure' \in BOOLEAN
        BY <1>13 DEF ReloadZones, Expected
    <2>3. UNCHANGED <<team, listed, loaded, inZone, endTimers, timeouts, call, saved, stray,
                      answered, left, late, crossed>>
        BY <1>13 DEF ReloadZones, place, timers
    <2> QED
        BY <2>1, <2>2, <2>3 DEF TypeOK
<1>14. ASSUME NEW o \in Objects
       PROVE  Removed(o) \in Zones /\ [zone[o] EXCEPT !.doc = "unset"] \in Zones
    BY DEF TypeOK, Removed, Zones
<1>15. CASE RemoveZone
    <2>0. cur \in Objects
        BY <1>15, CurIsObject DEF RemoveZone
    <2> DEFINE Gone == [zone EXCEPT ![cur].doc = "unset"]
    <2>g. Gone \in [Objects -> Zones]
        <3>1. Gone = [zone EXCEPT ![cur] = [zone[cur] EXCEPT !.doc = "unset"]]
            BY <2>0 DEF TypeOK
        <3> QED
            BY <1>14, <2>0, <3>1 DEF TypeOK
    <2>1. zone' \in [Objects -> Zones]
        <3> HIDE DEF Gone
        <3>1. zone' = Gone \/ zone' = [o \in Objects |-> IF o = cur THEN Gone[o] ELSE Removed(o)]
            BY <1>15 DEF RemoveZone, Gone
        <3> QED
            BY <1>14, <2>g, <3>1
    <2>2. cur' \in 0 .. made'
        BY <1>15, TurfWarAssumption DEF RemoveZone, TypeOK
    <2>3. /\ saved' \in AnyTeam \cup {Missing}
          /\ stray' \in AnyTeam \cup {Missing, NoWrite}
        BY <1>15 DEF RemoveZone, DocumentRemoved, Delayed, TypeOK
    <2> QED
        BY <1>15, <2>1, <2>2, <2>3 DEF RemoveZone, Expected, TypeOK, place, timers
<1>16. CASE RemoveZoneFails
    <2>1. zone' \in [Objects -> Zones]
        BY <1>14, <1>16 DEF RemoveZoneFails, TypeOK
    <2>2. /\ saved' \in AnyTeam \cup {Missing}
          /\ stray' \in AnyTeam \cup {Missing, NoWrite}
        BY <1>16 DEF RemoveZoneFails, DocumentRemoved, Delayed, TypeOK
    <2> QED
        BY <1>16, <2>1, <2>2 DEF RemoveZoneFails, TypeOK, place, timers
<1>19. CASE LateWrite
    <2>1. zone' \in [Objects -> Zones]
        BY <1>14, <1>19 DEF LateWrite, TypeOK
    <2> QED
        BY <1>19, <2>1 DEF LateWrite, TypeOK, place, timers
<1>17. CASE Crash
    BY <1>17, TypeStart DEF Crash
<1>18. CASE UNCHANGED vars
    BY <1>18 DEF vars, TypeOK, place, objects, timers
<1> QED
    BY <1>1, <1>2, <1>3, <1>4, <1>5, <1>7, <1>8, <1>9, <1>10, <1>11, <1>12, <1>13, <1>15,
       <1>16, <1>17, <1>18, <1>19 DEF Next

\* The variables of TurfWar keep their types.
THEOREM TypeCorrect == Spec => []TypeOK
BY TypeInit, TypeNext, PTL DEF Spec

(***************************************************************************)
(* Every war has an end.  No strengthening is needed, and nothing about    *)
(* the lengths of the timers: the end timer is armed before InWar is set   *)
(* and goes off into a call, and a call ends by clearing InWar.            *)
(***************************************************************************)

\* A step that leaves an object's timers and calls alone and starts no war.
LEMMA EndFrame ==
    ASSUME NEW o \in Objects, WarHasAnEnd,
           zone'[o].inWar => zone[o].inWar,
           endTimers'[o] = endTimers[o], call'[o] = call[o]
    PROVE  zone'[o].inWar => endTimers'[o] # {} \/ \E k \in Kinds : call'[o][k].at # "none"
BY DEF WarHasAnEnd

\* A restart leaves no war.
LEMMA NoWarAtStart ==
    ASSUME NEW teams, NEW owner, Start(teams, owner), NEW o \in Objects
    PROVE  ~ zone'[o].inWar
BY DEF Start, NewZone

\* Every step keeps something that will end the war.
LEMMA EndNext == TypeOK /\ WarHasAnEnd /\ [Next]_vars => WarHasAnEnd'
<1> SUFFICES ASSUME TypeOK, WarHasAnEnd, [Next]_vars,
                    NEW q \in Objects, zone'[q].inWar
             PROVE  endTimers'[q] # {} \/ \E k \in Kinds : call'[q][k].at # "none"
    BY DEF WarHasAnEnd
<1> DEFINE Goal == endTimers'[q] # {} \/ \E k \in Kinds : call'[q][k].at # "none"
<1>z. zone \in [Objects -> Zones] /\ call \in [Objects -> [Kinds -> Calls]]
      /\ endTimers \in [Objects -> SUBSET (0 .. TurfWarLast)]
    BY DEF TypeOK
<1>1. CASE UNCHANGED <<zone, endTimers, call>>
    BY <1>1, EndFrame
<1>2. ASSUME NEW p \in Players, OnPlayerEnter(p)
      PROVE  Goal
    <2>1. zone'[q].inWar => zone[q].inWar
        BY <1>2, <1>z, CurIsObject DEF OnPlayerEnter, MemberArrived, Zones
    <2> QED
        BY <1>2, <2>1, EndFrame DEF OnPlayerEnter
<1>3. ASSUME NEW p \in Players, StartWar(p)
      PROVE  Goal
    <2>1. cur \in Objects
        BY <1>3, CurIsObject DEF StartWar
    <2>2. CASE q = cur
        BY <1>3, <1>z, <2>1, <2>2 DEF StartWar, EndTimer
    <2>3. CASE q # cur
        BY <1>3, <1>z, <2>1, <2>3, EndFrame DEF StartWar
    <2> QED
        BY <2>2, <2>3
<1>4. ASSUME NEW owner, Construct(owner), UNCHANGED <<endTimers, call>>
      PROVE  Goal
    <2>1. zone'[q].inWar => zone[q].inWar
        BY <1>4, <1>z DEF Construct, NewZone
    <2> QED
        BY <1>4, <2>1, EndFrame
<1>5. ASSUME NEW p \in Players, CreateZone(p)
      PROVE  Goal
    BY <1>1, <1>4, <1>5 DEF CreateZone, objects, timers
<1>6. ASSUME NEW p \in Players, NEW k \in Players, OnPlayerDeath(p, k)
      PROVE  Goal
    <2>1. zone'[q].inWar => zone[q].inWar
        BY <1>6, <1>z, CurIsObject DEF OnPlayerDeath, Zones
    <2> QED
        BY <1>6, <2>1, EndFrame DEF OnPlayerDeath, timers
<1>7. ASSUME NEW o \in Objects, NEW k \in Kinds, Dispatch(o, k)
      PROVE  Goal
    <2>1. CASE q = o
        BY <1>7, <1>z, <2>1 DEF Dispatch
    <2>2. CASE q # o
        <3>1. UNCHANGED <<zone[q], endTimers[q], call[q]>>
            BY <1>7, <1>z, <2>2 DEF Dispatch, objects
        <3> QED
            BY <3>1, EndFrame
    <2> QED
        BY <2>1, <2>2
<1>8. ASSUME NEW o \in Objects, NEW k \in Kinds, EndWar(o, k)
      PROVE  Goal
    <2>1. CASE EndWarSkip(o, k)
        <3>1. CASE q = o
            BY <2>1, <3>1 DEF EndWarSkip, objects
        <3>2. CASE q # o
            BY <2>1, <1>z, <3>2, EndFrame DEF EndWarSkip, objects
        <3> QED
            BY <3>1, <3>2
    <2>2. CASE EndWarDecide(o, k)
        <3>1. CASE q = o
            BY <2>2, <1>z, <3>1 DEF EndWarDecide, AttackerWins
        <3>2. CASE q # o
            BY <2>2, <1>z, <3>2, EndFrame DEF EndWarDecide, EndTimerDestroyed, objects
        <3> QED
            BY <3>1, <3>2
    <2>3. CASE EndWarThrows(o, k)
        BY <2>3, NoWarAtStart DEF EndWarThrows, Crash
    <2>4. ASSUME NEW from, NEW to, to # "none", Step(o, k, from, to),
                 zone'[q].inWar => zone[q].inWar, UNCHANGED endTimers
          PROVE  Goal
        <3>1. CASE q = o
            BY <2>4, <1>z, <3>1 DEF Step, Calls
        <3>2. CASE q # o
            BY <2>4, <1>z, <3>2, EndFrame DEF Step
        <3> QED
            BY <3>1, <3>2
    <2>5. CASE EndWarSave(o, k)
        BY <2>4, <2>5 DEF EndWarSave, objects
    <2>6. CASE EndWarOwn(o, k)
        BY <2>4, <2>6, <1>z DEF EndWarOwn, Zones
    <2>7. CASE EndWarReset(o, k)
        BY <2>4, <2>7, <1>z DEF EndWarReset, Zones
    <2>8. CASE EndWarClear(o, k)
        BY <2>4, <2>8, <1>z DEF EndWarClear, Zones
    <2>9. CASE EndWarEnd(o, k)
        <3>1. q # o
            BY <2>9, <1>z DEF EndWarEnd, Zones
        <3> QED
            BY <2>9, <1>z, <3>1, EndFrame DEF EndWarEnd
    <2> QED
        BY <1>8, <2>1, <2>2, <2>3, <2>5, <2>6, <2>7, <2>8, <2>9 DEF EndWar
<1>9. CASE Tick
    <2>1. endTimers'[q] = {m - 1 : m \in endTimers[q]}
        BY <1>9 DEF Tick, Minus1
    <2>2. endTimers[q] # {} => endTimers'[q] # {}
        BY <2>1
    <2> QED
        BY <1>9, <2>2 DEF Tick, WarHasAnEnd, objects
<1>10. CASE ReloadZones
    BY <1>1, <1>4, <1>10 DEF ReloadZones, timers
<1>11. ASSUME RemoveZone \/ RemoveZoneFails \/ LateWrite
       PROVE  Goal
    <2>1. zone'[q].inWar => zone[q].inWar
        BY <1>11, <1>z DEF RemoveZone, RemoveZoneFails, LateWrite, Removed, Zones
    <2> QED
        BY <1>11, <2>1, EndFrame DEF RemoveZone, RemoveZoneFails, LateWrite, timers
<1>12. CASE Crash
    BY <1>12, NoWarAtStart DEF Crash
<1> QED
    BY <1>1, <1>2, <1>3, <1>5, <1>6, <1>7, <1>8, <1>9, <1>10, <1>11, <1>12
    DEF Next, TeamSelect, OnPlayerDisconnect, OnPlayerExit, ReloadTeams, vars, objects, timers

\* A zone in war always has its end timer or an EndWar call, whichever of the
\* two timers is longer and however their calls overlap.
THEOREM WarsHaveAnEnd == Spec => []WarHasAnEnd
<1>1. Init => WarHasAnEnd
    BY DEF Init, WarHasAnEnd, NewZone
<1> QED
    BY <1>1, TypeInit, TypeNext, EndNext, PTL DEF Spec

(***************************************************************************)
(* What a war keeps, whatever the lengths of the two timers.               *)
(***************************************************************************)

Quiet(o) ==
    /\ endTimers[o] = {} /\ timeouts[o] = {}
    /\ \A k \in Kinds : call[o][k].at = "none"

Peace(o) == ~ zone[o].inWar /\ Quiet(o)

\* As long as no call crossed another, at most one is past the check, inside a
\* war; it knows the attacker until it has given him the zone, and a winner it
\* announced then has the zone.
Content(o) ==
    ~ crossed[o] =>
        \A k \in Kinds :
            /\ Past(call[o][k]) =>
                  zone[o].inWar /\ \A j \in Kinds \ {k} : ~ Past(call[o][j])
            /\ call[o][k].at \in {"save", "own"} => call[o][k].won = zone[o].attacker
            /\ call[o][k].at \in {"reset", "clear", "end"} =>
                  call[o][k].won = NoTeam \/ zone[o].owner = call[o][k].won

\* The counters from EndWar's reset to the next war.
Level(o) ==
    ~ late[o] /\ (~ zone[o].inWar \/ \E k \in Kinds : call[o][k].at \in {"clear", "end"}) =>
        zone[o].enemyKill = 0 /\ zone[o].memberDeath = 0

\* Until somebody answers, one timeout timer may be the war's own; it is the
\* one armed last and the one `_timeouttimerid` names.
Answer(o) ==
    zone[o].inWar =>
        \/ timeouts[o] \subseteq left[o]
        \/ /\ ~ answered[o] /\ zone[o].ref = "set"
           /\ \E m \in timeouts[o] :
                 timeouts[o] \ {m} \subseteq left[o] /\ \A n \in timeouts[o] : n <= m

War(o) == Content(o) /\ Level(o) /\ Answer(o)

Wars == \A o \in Objects : War(o)

\* Nothing happens to an object before it is made.
Unmade == \A o \in Objects : o > made => Peace(o)

\* What the invariants read of an object: all but the name of its document.
Same(o) ==
    /\ UNCHANGED <<zone[o].inWar, zone[o].attacker, zone[o].owner, zone[o].ref,
                   zone[o].enemyKill, zone[o].memberDeath>>
    /\ UNCHANGED <<endTimers[o], timeouts[o], call[o], answered[o], left[o], late[o],
                   crossed[o]>>

\* A step that leaves an object and its timers and calls alone.
LEMMA WarFrame ==
    ASSUME NEW o \in Objects, Same(o)
    PROVE  (War(o) => War(o)') /\ (Peace(o) => Peace(o)')
<1> USE DEF Same
<1>1. Content(o) => Content(o)'
    BY DEF Content, Past
<1>2. Level(o) => Level(o)'
    BY DEF Level
<1>3. Answer(o) => Answer(o)'
    BY DEF Answer
<1>4. Peace(o) => Peace(o)'
    BY DEF Peace, Quiet
<1> QED
    BY <1>1, <1>2, <1>3, <1>4 DEF War

\* The steps of the war concern one object.
WarStep(o) ==
    \/ /\ o = cur
       /\ \/ \E p \in Players : OnPlayerEnter(p) \/ StartWar(p)
          \/ \E p, k \in Players : OnPlayerDeath(p, k)
    \/ \E k \in Kinds : Dispatch(o, k) \/ (EndWar(o, k) /\ ~ EndWarThrows(o, k))

LEMMA Others ==
    ASSUME TypeOK, NEW o \in Objects, WarStep(o)
    PROVE  made' = made /\ cur' = cur /\ \A q \in Objects \ {o} : Same(q) /\ zone'[q] = zone[q]
<1>z. TypeOK
    OBVIOUS
<1>1. ASSUME NEW p \in Players, o = cur, OnPlayerEnter(p)
      PROVE  made' = made /\ cur' = cur /\ \A q \in Objects \ {o} : Same(q) /\ zone'[q] = zone[q]
    BY <1>1, <1>z DEF OnPlayerEnter, MemberArrived, TypeOK, Same
<1>2. ASSUME NEW p \in Players, o = cur, StartWar(p)
      PROVE  made' = made /\ cur' = cur /\ \A q \in Objects \ {o} : Same(q) /\ zone'[q] = zone[q]
    BY <1>2, <1>z DEF StartWar, TypeOK, Same
<1>3. ASSUME NEW p \in Players, NEW k \in Players, o = cur, OnPlayerDeath(p, k)
      PROVE  made' = made /\ cur' = cur /\ \A q \in Objects \ {o} : Same(q) /\ zone'[q] = zone[q]
    BY <1>3, <1>z DEF OnPlayerDeath, TypeOK, Same, timers
<1>4. ASSUME NEW k \in Kinds, Dispatch(o, k)
      PROVE  made' = made /\ cur' = cur /\ \A q \in Objects \ {o} : Same(q) /\ zone'[q] = zone[q]
    BY <1>4, <1>z DEF Dispatch, TypeOK, Same, objects
<1>5. ASSUME NEW k \in Kinds, EndWar(o, k), ~ EndWarThrows(o, k)
      PROVE  made' = made /\ cur' = cur /\ \A q \in Objects \ {o} : Same(q) /\ zone'[q] = zone[q]
    <2>1. CASE EndWarSkip(o, k) \/ EndWarDecide(o, k) \/ EndWarSave(o, k)
        BY <2>1, <1>z DEF EndWarSkip, EndWarDecide, EndTimerDestroyed, Crosses, EndWarSave, Step,
            TypeOK, Same, objects, history
    <2>2. CASE EndWarOwn(o, k) \/ EndWarReset(o, k)
        BY <2>2, <1>z DEF EndWarOwn, EndWarReset, Step, TypeOK, Same, history
    <2>3. CASE EndWarClear(o, k) \/ EndWarEnd(o, k)
        BY <2>3, <1>z DEF EndWarClear, EndWarEnd, Step, TypeOK, Same, history
    <2> QED
        BY <1>5, <2>1, <2>2, <2>3 DEF EndWar
<1> QED
    BY <1>1, <1>2, <1>3, <1>4, <1>5 DEF WarStep

\* The steps that concern no object's war.
PlaceStep ==
    \/ \E p \in Players, t \in Teams : TeamSelect(p, t)
    \/ \E p \in Players :
          \/ OnPlayerDisconnect(p) \/ OnPlayerExit(p)
          \/ cur = NoObject /\ OnPlayerEnter(p)
    \/ \E teams \in SUBSET Teams : ReloadTeams(teams)
    \/ UNCHANGED vars

DocumentStep == RemoveZone \/ RemoveZoneFails \/ LateWrite

LEMMA PlaceSame ==
    ASSUME TypeOK, PlaceStep
    PROVE  UNCHANGED <<objects, timers, document, history>>
BY DEF PlaceStep, TeamSelect, OnPlayerDisconnect, OnPlayerExit, OnPlayerEnter, ReloadTeams, vars,
       objects, timers, history

LEMMA DocumentSame ==
    ASSUME TypeOK, DocumentStep
    PROVE  made' = made /\ UNCHANGED timers /\ \A q \in Objects : Same(q)
<1>1. made' = made /\ UNCHANGED <<timers, answered, left, late, crossed>>
    BY DEF DocumentStep, RemoveZone, RemoveZoneFails, LateWrite, history
<1>2. ASSUME NEW q \in Objects
      PROVE  UNCHANGED <<zone[q].inWar, zone[q].attacker, zone[q].owner, zone[q].ref,
                         zone[q].enemyKill, zone[q].memberDeath>>
    <2>1. zone[q] \in Zones /\ zone \in [Objects -> Zones]
        BY DEF TypeOK
    <2>2. zone'[q] \in {zone[q], [zone[q] EXCEPT !.doc = "unset"], [zone[q] EXCEPT !.doc = "stale"]}
        BY <2>1 DEF DocumentStep, RemoveZone, RemoveZoneFails, LateWrite, Removed
    <2> QED
        BY <2>1, <2>2 DEF Zones
<1> QED
    BY <1>1, <1>2 DEF Same, timers

\* Next, by what a step concerns.
LEMMA Steps ==
    ASSUME TypeOK, [Next]_vars
    PROVE  \/ \E o \in Objects : o = cur /\ \E p \in Players : OnPlayerEnter(p) \/ StartWar(p)
           \/ \E o \in Objects : o = cur /\ \E p, k \in Players : OnPlayerDeath(p, k)
           \/ \E o \in Objects, k \in Kinds :
                 Dispatch(o, k) \/ (EndWar(o, k) /\ ~ EndWarThrows(o, k))
           \/ PlaceStep \/ DocumentStep \/ Tick \/ ReloadZones \/ Crash
           \/ \E p \in Players : CreateZone(p)
<1>1. ASSUME NEW p \in Players, OnPlayerEnter(p)
      PROVE  PlaceStep \/ \E o \in Objects : o = cur /\ OnPlayerEnter(p)
    BY <1>1, CurIsObject DEF PlaceStep
<1>2. ASSUME NEW p \in Players, StartWar(p)
      PROVE  \E o \in Objects : o = cur /\ StartWar(p)
    BY <1>2, CurIsObject DEF StartWar
<1>3. ASSUME NEW p \in Players, NEW k \in Players, OnPlayerDeath(p, k)
      PROVE  \E o \in Objects : o = cur /\ OnPlayerDeath(p, k)
    BY <1>3, CurIsObject DEF OnPlayerDeath
<1>4. ASSUME NEW o \in Objects, NEW k \in Kinds, EndWarThrows(o, k)
      PROVE  Crash
    BY <1>4 DEF EndWarThrows
<1> QED
    BY <1>1, <1>2, <1>3, <1>4 DEF Next, PlaceStep, DocumentStep

\* A restart: peace, and the counters are zero.
LEMMA WarsStart ==
    ASSUME NEW teams, NEW owner, Start(teams, owner)
    PROVE  Wars' /\ Unmade'
<1> SUFFICES ASSUME NEW o \in Objects PROVE War(o)' /\ Peace(o)'
    BY DEF Wars, Unmade
<1>1. /\ zone'[o].inWar = FALSE /\ zone'[o].enemyKill = 0 /\ zone'[o].memberDeath = 0
      /\ endTimers'[o] = {} /\ timeouts'[o] = {}
      /\ \A k \in Kinds : call'[o][k].at = "none"
    BY DEF Start, NewZone, NoCall
<1> QED
    BY <1>1 DEF Peace, Quiet, War, Content, Past, Level, Answer

LEMMA WarsInit == Init => Wars /\ Unmade
<1> SUFFICES ASSUME Init, NEW o \in Objects PROVE War(o) /\ Peace(o)
    BY DEF Wars, Unmade
<1>1. /\ zone[o].inWar = FALSE /\ zone[o].enemyKill = 0 /\ zone[o].memberDeath = 0
      /\ endTimers[o] = {} /\ timeouts[o] = {}
      /\ \A k \in Kinds : call[o][k].at = "none"
    BY DEF Init, NewZone, NoCall
<1> QED
    BY <1>1 DEF Peace, Quiet, War, Content, Past, Level, Answer

\* The greatest of a set of minutes that has one.
LEMMA MaxIs ==
    ASSUME NEW S \in SUBSET Nat, NEW m \in S, \A n \in S : n <= m
    PROVE  Max(S) = m
<1> DEFINE Greatest(x) == \A n \in S : x >= n
<1>1. Greatest(m)
    OBVIOUS
<1>2. \A x \in S : Greatest(x) => x = m
    OBVIOUS
<1> HIDE DEF Greatest
<1>3. m = CHOOSE x \in S : Greatest(x)
    BY <1>1, <1>2
<1> QED
    BY <1>3 DEF Max, Greatest

\* A member of the owner comes: the war's own timeout timer goes.
LEMMA WarMemberArrived ==
    ASSUME TypeOK, NEW o \in Objects, War(o), zone[o].inWar, MemberArrived(o),
           UNCHANGED <<endTimers, call, late, crossed>>
    PROVE  War(o)'
<1>1. zone[o] \in Zones /\ zone'[o] = [zone[o] EXCEPT !.ref = "zero"]
    BY DEF MemberArrived, TypeOK
<1>2. /\ zone'[o].inWar = zone[o].inWar /\ zone'[o].attacker = zone[o].attacker
      /\ zone'[o].owner = zone[o].owner /\ zone'[o].enemyKill = zone[o].enemyKill
      /\ zone'[o].memberDeath = zone[o].memberDeath
    BY <1>1 DEF Zones
<1>3. Content(o)' /\ Level(o)'
    BY <1>2 DEF War, Content, Past, Level
<1>4. timeouts'[o] \subseteq left'[o]
    <2>1. left'[o] = left[o] \cap timeouts'[o] /\ timeouts[o] \subseteq Nat
        BY TurfWarAssumption DEF MemberArrived, TypeOK
    <2>2. timeouts'[o] \subseteq timeouts[o]
        BY DEF MemberArrived, TypeOK
    <2>3. CASE timeouts[o] \subseteq left[o]
        BY <2>1, <2>2, <2>3
    <2>4. CASE ~ (timeouts[o] \subseteq left[o])
        <3>1. zone[o].ref = "set" /\ timeouts[o] # {}
            BY <2>4 DEF War, Answer
        <3>2. PICK m \in timeouts[o] :
                 timeouts[o] \ {m} \subseteq left[o] /\ \A n \in timeouts[o] : n <= m
            BY <2>4 DEF War, Answer
        <3>3. Max(timeouts[o]) = m
            BY <2>1, <3>2, MaxIs
        <3>4. timeouts'[o] = timeouts[o] \ {Max(timeouts[o])}
            BY <3>1 DEF MemberArrived, TypeOK
        <3> QED
            BY <2>1, <3>2, <3>3, <3>4
    <2> QED
        BY <2>3, <2>4
<1> QED
    BY <1>3, <1>4 DEF War, Answer

\* A war starts: no call is past the check, and the timers left from earlier wars
\* have less time than the one that is armed.
LEMMA WarStartWar ==
    ASSUME TypeOK, NEW o \in Objects, o = cur, War(o), NEW p \in Players, StartWar(p)
    PROVE  War(o)'
<1> DEFINE inz == Members(zone[o].owner) \cap inZone # {}
<1>2. zone[o] \in Zones
    BY DEF TypeOK
<1>3. zone'[o] = [zone[o] EXCEPT !.inWar = TRUE, !.attacker = team[p],
                                 !.ref = IF inz THEN @ ELSE "set"]
    BY DEF StartWar, TypeOK
<1>4. /\ zone'[o].inWar = TRUE /\ zone'[o].owner = zone[o].owner
      /\ zone'[o].enemyKill = zone[o].enemyKill /\ zone'[o].memberDeath = zone[o].memberDeath
      /\ ~ inz => zone'[o].ref = "set"
    BY <1>2, <1>3 DEF Zones
<1>5. UNCHANGED <<call, late, crossed>> /\ ~ zone[o].inWar
    BY DEF StartWar
<1>6. Content(o)'
    BY <1>4, <1>5 DEF War, Content, Past
<1>7. Level(o)'
    BY <1>4, <1>5 DEF War, Level
<1>8. Answer(o)'
    <2>1. /\ timeouts'[o] = IF inz THEN timeouts[o] ELSE timeouts[o] \cup {TurfWarTimeout}
          /\ left'[o] = timeouts[o] /\ answered'[o] = inz
        BY DEF StartWar, TypeOK
    <2>2. \A n \in timeouts[o] \cup {TurfWarTimeout} : n <= TurfWarTimeout
        BY TurfWarAssumption DEF TypeOK
    <2>3. CASE inz
        BY <2>1, <2>3 DEF Answer
    <2>4. CASE ~ inz
        BY <1>4, <2>1, <2>2, <2>4 DEF Answer
    <2> QED
        BY <2>3, <2>4
<1> QED
    BY <1>6, <1>7, <1>8 DEF War

\* A kill: counted in war only, and noted as late once the counters were reset.
LEMMA WarOnPlayerDeath ==
    ASSUME TypeOK, NEW o \in Objects, o = cur, War(o), NEW p \in Players, NEW k \in Players,
           OnPlayerDeath(p, k)
    PROVE  War(o)'
<1>2. zone[o] \in Zones /\ zone[o].inWar
    BY DEF TypeOK, OnPlayerDeath
<1>3. /\ zone'[o].inWar = zone[o].inWar /\ zone'[o].attacker = zone[o].attacker
      /\ zone'[o].owner = zone[o].owner /\ zone'[o].ref = zone[o].ref
    BY <1>2 DEF OnPlayerDeath, TypeOK, Zones
<1>4. UNCHANGED <<timeouts, call, answered, left, crossed>>
    BY DEF OnPlayerDeath, timers
<1>5. Content(o)' /\ Answer(o)'
    BY <1>3, <1>4 DEF War, Content, Past, Answer
<1>7. Level(o)'
    <2>1. late'[o] \/ \A c \in Kinds : call[o][c].at \notin {"clear", "end"}
        BY DEF OnPlayerDeath, TypeOK
    <2> QED
        BY <1>2, <1>3, <1>4, <2>1 DEF Level
<1> QED
    BY <1>5, <1>7 DEF War

\* A timer goes off.
LEMMA WarDispatch ==
    ASSUME TypeOK, NEW o \in Objects, NEW k \in Kinds, War(o), Dispatch(o, k)
    PROVE  War(o)'
<1>2. /\ call'[o][k].at = "begin" /\ call[o][k].at = "none"
      /\ \A j \in Kinds \ {k} : call'[o][j] = call[o][j]
    BY DEF Dispatch, TypeOK
<1>3. UNCHANGED <<zone, answered, late, crossed>>
    BY DEF Dispatch, objects
<1>4. Content(o)'
    BY <1>2, <1>3 DEF War, Content, Past
<1>5. Level(o)'
    BY <1>2, <1>3 DEF War, Level
<1>6. Answer(o)'
    <2>1. CASE k = "end"
        <3>1. UNCHANGED <<timeouts, left>>
            BY <2>1 DEF Dispatch
        <3> QED
            BY <1>3, <3>1 DEF War, Answer
    <2>2. CASE k = "timeout"
        <3>1. timeouts'[o] = timeouts[o] \ {0} /\ left'[o] = left[o] \ {0}
            BY <2>2 DEF Dispatch, TypeOK
        <3>2. CASE zone[o].inWar /\ ~ (timeouts[o] \subseteq left[o])
            <4>1. PICK m \in timeouts[o] :
                     timeouts[o] \ {m} \subseteq left[o] /\ \A n \in timeouts[o] : n <= m
                BY <3>2 DEF War, Answer
            <4>2. CASE m = 0
                BY <3>1, <4>1, <4>2 DEF Answer
            <4>3. CASE m # 0
                BY <1>3, <3>1, <3>2, <4>1, <4>3 DEF War, Answer
            <4> QED
                BY <4>2, <4>3
        <3>3. CASE zone[o].inWar => timeouts[o] \subseteq left[o]
            BY <1>3, <3>1, <3>3 DEF Answer
        <3> QED
            BY <3>2, <3>3
    <2> QED
        BY <2>1, <2>2
<1> QED
    BY <1>4, <1>5, <1>6 DEF War

\* A minute passes.
LEMMA WarTick ==
    ASSUME TypeOK, NEW o \in Objects, War(o), Tick
    PROVE  War(o)'
<1>1. /\ timeouts'[o] = {m - 1 : m \in timeouts[o]} /\ left'[o] = {m - 1 : m \in left[o]}
      /\ timeouts[o] \subseteq Nat
    BY TurfWarAssumption DEF Tick, Minus1, TypeOK
<1>2. UNCHANGED <<zone, call, answered, late, crossed>>
    BY DEF Tick, objects
<1>3. Content(o)' /\ Level(o)'
    BY <1>2 DEF War, Content, Past, Level
<1>4. Answer(o)'
    <2>1. CASE zone[o].inWar /\ ~ (timeouts[o] \subseteq left[o])
        <3>1. PICK m \in timeouts[o] :
                 timeouts[o] \ {m} \subseteq left[o] /\ \A n \in timeouts[o] : n <= m
            BY <2>1 DEF War, Answer
        <3>2. m - 1 \in timeouts'[o]
            BY <1>1
        <3>3. timeouts'[o] \ {m - 1} \subseteq left'[o]
            BY <1>1, <3>1
        <3>4. \A n \in timeouts'[o] : n <= m - 1
            BY <1>1, <3>1
        <3> QED
            BY <1>2, <2>1, <3>2, <3>3, <3>4 DEF War, Answer
    <2>2. CASE zone[o].inWar => timeouts[o] \subseteq left[o]
        BY <1>1, <1>2, <2>2 DEF Answer
    <2> QED
        BY <2>1, <2>2
<1> QED
    BY <1>3, <1>4 DEF War

\* What a statement that only moves its call on and writes some fields leaves.
LEMMA StepCall ==
    ASSUME TypeOK, NEW o \in Objects, NEW k \in Kinds, NEW from, NEW to, Step(o, k, from, to)
    PROVE  /\ call[o][k].at = from /\ call'[o][k].at = to
           /\ call'[o][k].won = call[o][k].won
           /\ \A j \in Kinds \ {k} : call'[o][j] = call[o][j]
<1>1. call[o] \in [Kinds -> Calls] /\ call[o][k] \in Calls
    BY DEF TypeOK
<1>2. call' = [call EXCEPT ![o] = [call[o] EXCEPT ![k] = [call[o][k] EXCEPT !.at = to]]]
    BY DEF Step, TypeOK
<1>3. call'[o] = [call[o] EXCEPT ![k] = [call[o][k] EXCEPT !.at = to]]
    BY <1>2 DEF TypeOK
<1>4. call'[o][k] = [call[o][k] EXCEPT !.at = to]
    BY <1>1, <1>3
<1> QED
    BY <1>1, <1>3, <1>4 DEF Step, Calls

\* One statement of EndWar.
LEMMA WarEndWar ==
    ASSUME TypeOK, NEW o \in Objects, NEW k \in Kinds, War(o), EndWar(o, k),
           ~ EndWarThrows(o, k)
    PROVE  War(o)'
<1>z. TypeOK /\ zone[o] \in Zones /\ call[o] \in [Kinds -> Calls] /\ crossed[o] \in BOOLEAN
    BY DEF TypeOK
<1>w. Content(o) /\ Level(o) /\ Answer(o)
    BY DEF War
<1>1. CASE EndWarSkip(o, k)
    <2>1. UNCHANGED <<zone, timeouts, answered, left, late, crossed>>
        BY <1>1 DEF EndWarSkip, objects, history
    <2>2. call'[o][k].at = "none" /\ \A j \in Kinds \ {k} : call'[o][j] = call[o][j]
        BY <1>1, <1>z, NoCallType DEF EndWarSkip, TypeOK
    <2>3. Content(o)'
        BY <1>w, <2>1, <2>2 DEF Content, Past
    <2>4. Level(o)' /\ Answer(o)'
        BY <1>w, <2>1, <2>2 DEF Level, Answer
    <2> QED
        BY <2>3, <2>4 DEF War
<1>2. CASE EndWarDecide(o, k)
    <2>1. UNCHANGED <<zone, timeouts, answered, left, late>> /\ zone[o].inWar
        BY <1>2 DEF EndWarDecide, objects
    <2>2. /\ call'[o][k].at = IF AttackerWins(o, k) THEN "save" ELSE "reset"
          /\ call'[o][k].won = IF AttackerWins(o, k) THEN zone[o].attacker ELSE NoTeam
          /\ \A j \in Kinds \ {k} : call'[o][j] = call[o][j]
        BY <1>2, <1>z DEF EndWarDecide, TypeOK
    <2>3. crossed'[o] = (crossed[o] \/ \E j \in Kinds \ {k} : Past(call[o][j]))
        BY <1>2 DEF EndWarDecide, Crosses, TypeOK
    <2>4. Content(o)'
        <3>1. SUFFICES ASSUME ~ crossed'[o] PROVE Content(o)'
            BY DEF Content
        <3>2. ~ crossed[o] /\ \A j \in Kinds \ {k} : ~ Past(call[o][j])
            BY <2>3, <3>1
        <3>3. \A j \in Kinds \ {k} : call'[o][j].at \in {"none", "begin"}
            BY <1>z, <2>2, <3>2 DEF Past, Calls
        <3> QED
            BY <2>1, <2>2, <3>3 DEF Content, Past
    <2>5. Level(o)' /\ Answer(o)'
        BY <1>w, <2>1, <2>2 DEF Level, Answer
    <2> QED
        BY <2>4, <2>5 DEF War
<1>3. CASE EndWarSave(o, k)
    <2>1. UNCHANGED <<zone, timeouts, answered, left, late, crossed>>
        BY <1>3 DEF EndWarSave, objects
    <2>2. /\ call[o][k].at = "save" /\ call'[o][k].at = "own"
          /\ call'[o][k].won = call[o][k].won
          /\ \A j \in Kinds \ {k} : call'[o][j] = call[o][j]
        BY <1>3, StepCall DEF EndWarSave
    <2>3. Content(o)'
        BY <1>w, <2>1, <2>2 DEF Content, Past
    <2>4. Level(o)' /\ Answer(o)'
        BY <1>w, <2>1, <2>2 DEF Level, Answer
    <2> QED
        BY <2>3, <2>4 DEF War
<1>4. CASE EndWarOwn(o, k)
    <2>1. UNCHANGED <<timeouts, answered, left, late, crossed>>
        BY <1>4 DEF EndWarOwn, history
    <2>2. /\ call[o][k].at = "own" /\ call'[o][k].at = "reset"
          /\ call'[o][k].won = call[o][k].won
          /\ \A j \in Kinds \ {k} : call'[o][j] = call[o][j]
        BY <1>4, StepCall DEF EndWarOwn
    <2>3. zone'[o] = [zone[o] EXCEPT !.owner = zone[o].attacker]
        BY <1>4, <1>z DEF EndWarOwn, TypeOK
    <2>4. /\ zone'[o].inWar = zone[o].inWar /\ zone'[o].attacker = zone[o].attacker
          /\ zone'[o].owner = zone[o].attacker /\ zone'[o].ref = zone[o].ref
          /\ zone'[o].enemyKill = zone[o].enemyKill
          /\ zone'[o].memberDeath = zone[o].memberDeath
        BY <1>z, <2>3 DEF Zones
    <2>5. Content(o)'
        <3>1. SUFFICES ASSUME ~ crossed[o] PROVE Content(o)'
            BY <2>1 DEF Content
        <3>2. zone[o].inWar /\ \A j \in Kinds \ {k} : ~ Past(call[o][j])
            BY <1>w, <2>2, <3>1 DEF Content, Past
        <3>3. call[o][k].won = zone[o].attacker
            BY <1>w, <2>2, <3>1 DEF Content
        <3>4. \A j \in Kinds \ {k} : call'[o][j].at \in {"none", "begin"}
            BY <1>z, <2>2, <3>2 DEF Past, Calls
        <3> QED
            BY <2>2, <2>4, <3>2, <3>3, <3>4 DEF Content, Past
    <2>6. Level(o)' /\ Answer(o)'
        BY <1>w, <2>1, <2>2, <2>4 DEF Level, Answer
    <2> QED
        BY <2>5, <2>6 DEF War
<1>5. CASE EndWarReset(o, k)
    <2>1. UNCHANGED <<timeouts, answered, left, crossed>>
        BY <1>5 DEF EndWarReset
    <2>2. /\ call[o][k].at = "reset" /\ call'[o][k].at = "clear"
          /\ call'[o][k].won = call[o][k].won
          /\ \A j \in Kinds \ {k} : call'[o][j] = call[o][j]
        BY <1>5, StepCall DEF EndWarReset
    <2>3. zone'[o] = [zone[o] EXCEPT !.enemyKill = 0, !.memberDeath = 0]
        BY <1>5, <1>z DEF EndWarReset, TypeOK
    <2>4. /\ zone'[o].inWar = zone[o].inWar /\ zone'[o].attacker = zone[o].attacker
          /\ zone'[o].owner = zone[o].owner /\ zone'[o].ref = zone[o].ref
          /\ zone'[o].enemyKill = 0 /\ zone'[o].memberDeath = 0
        BY <1>z, <2>3 DEF Zones
    <2>5. Content(o)'
        BY <1>w, <2>1, <2>2, <2>4 DEF Content, Past
    <2>6. Level(o)' /\ Answer(o)'
        BY <1>w, <2>1, <2>4 DEF Level, Answer
    <2> QED
        BY <2>5, <2>6 DEF War
<1>6. CASE EndWarClear(o, k)
    <2>1. UNCHANGED <<timeouts, answered, left, late, crossed>>
        BY <1>6 DEF EndWarClear, history
    <2>2. /\ call[o][k].at = "clear" /\ call'[o][k].at = "end"
          /\ call'[o][k].won = call[o][k].won
          /\ \A j \in Kinds \ {k} : call'[o][j] = call[o][j]
        BY <1>6, StepCall DEF EndWarClear
    <2>3. zone'[o] = [zone[o] EXCEPT !.attacker = NoTeam]
        BY <1>6, <1>z DEF EndWarClear, TypeOK
    <2>4. /\ zone'[o].inWar = zone[o].inWar /\ zone'[o].owner = zone[o].owner
          /\ zone'[o].ref = zone[o].ref /\ zone'[o].enemyKill = zone[o].enemyKill
          /\ zone'[o].memberDeath = zone[o].memberDeath
        BY <1>z, <2>3 DEF Zones
    <2>5. Content(o)'
        <3>1. SUFFICES ASSUME ~ crossed[o] PROVE Content(o)'
            BY <2>1 DEF Content
        <3>2. zone[o].inWar /\ \A j \in Kinds \ {k} : ~ Past(call[o][j])
            BY <1>w, <2>2, <3>1 DEF Content, Past
        <3>3. call[o][k].won = NoTeam \/ zone[o].owner = call[o][k].won
            BY <1>w, <2>2, <3>1 DEF Content
        <3>4. \A j \in Kinds \ {k} : call'[o][j].at \in {"none", "begin"}
            BY <1>z, <2>2, <3>2 DEF Past, Calls
        <3> QED
            BY <2>2, <2>4, <3>2, <3>3, <3>4 DEF Content, Past
    <2>6. Level(o)' /\ Answer(o)'
        BY <1>w, <2>1, <2>2, <2>4 DEF Level, Answer
    <2> QED
        BY <2>5, <2>6 DEF War
<1>7. CASE EndWarEnd(o, k)
    <2>1. UNCHANGED <<late, crossed>>
        BY <1>7 DEF EndWarEnd
    <2>2. /\ call[o][k].at = "end" /\ call'[o][k].at = "none"
          /\ \A j \in Kinds \ {k} : call'[o][j] = call[o][j]
        BY <1>7, <1>z, NoCallType DEF EndWarEnd, TypeOK
    <2>3. zone'[o] = [zone[o] EXCEPT !.inWar = FALSE]
        BY <1>7, <1>z DEF EndWarEnd, TypeOK
    <2>4. /\ zone'[o].inWar = FALSE /\ zone'[o].enemyKill = zone[o].enemyKill
          /\ zone'[o].memberDeath = zone[o].memberDeath
        BY <1>z, <2>3 DEF Zones
    <2>5. Content(o)'
        <3>1. SUFFICES ASSUME ~ crossed[o] PROVE Content(o)'
            BY <2>1 DEF Content
        <3>2. \A j \in Kinds \ {k} : ~ Past(call[o][j])
            BY <1>w, <2>2, <3>1 DEF Content, Past
        <3>3. \A j \in Kinds \ {k} : call'[o][j].at \in {"none", "begin"}
            BY <1>z, <2>2, <3>2 DEF Past, Calls
        <3> QED
            BY <2>2, <3>3 DEF Content, Past
    <2>6. Level(o)' /\ Answer(o)'
        BY <1>w, <2>1, <2>2, <2>4 DEF Level, Answer
    <2> QED
        BY <2>5, <2>6 DEF War
<1> QED
    BY <1>1, <1>2, <1>3, <1>4, <1>5, <1>6, <1>7 DEF EndWar

\* A new object is made from one nothing has happened to.
LEMMA WarConstruct ==
    ASSUME TypeOK, Wars, Unmade, NEW owner \in AnyTeam, made < MaxObjects, Construct(owner),
           UNCHANGED <<timers, answered, left, late, crossed>>
    PROVE  Wars' /\ Unmade'
<1>1. made \in Nat /\ made + 1 \in Objects
    BY TurfWarAssumption DEF TypeOK, Objects
<1>2. ASSUME NEW o \in Objects
      PROVE  War(o)' /\ (o > made' => Peace(o)')
    <2>1. CASE o = made + 1
        <3>1. Peace(o)
            BY <1>1, <2>1 DEF Unmade
        <3>2. /\ zone'[o].inWar = FALSE /\ zone'[o].enemyKill = 0
              /\ zone'[o].memberDeath = 0
            BY <1>1, <2>1 DEF Construct, NewZone, TypeOK
        <3>3. UNCHANGED <<endTimers, timeouts, call>>
            BY DEF timers
        <3> QED
            BY <3>1, <3>2, <3>3 DEF Peace, Quiet, War, Content, Past, Level, Answer
    <2>2. CASE o # made + 1
        <3>1. zone'[o] = zone[o]
            BY <2>2 DEF Construct, TypeOK
        <3>2. Same(o)
            BY <3>1 DEF Same, timers
        <3>3. o > made' => o > made
            BY <1>1 DEF Construct, Objects
        <3> QED
            BY <3>2, <3>3, WarFrame DEF Wars, Unmade
    <2> QED
        BY <2>1, <2>2
<1> QED
    BY <1>2 DEF Wars, Unmade

\* An object nothing has happened to is not in any war's step.
LEMMA MadeWarStep ==
    ASSUME TypeOK, Unmade, NEW o \in Objects, WarStep(o)
    PROVE  o <= made
<1>1. o \in Nat /\ made \in Nat /\ cur <= made
    BY TurfWarAssumption DEF TypeOK, Objects
<1>2. CASE o = cur
    BY <1>1, <1>2
<1>3. ASSUME NEW k \in Kinds, Dispatch(o, k) \/ EndWar(o, k), ~ EndWarThrows(o, k)
      PROVE  ~ Quiet(o)
    BY <1>3 DEF Dispatch, EndWar, EndWarSkip, EndWarDecide, EndWarSave, EndWarOwn, EndWarReset,
        EndWarClear, EndWarEnd, Step, Quiet
<1>4. CASE o # cur
    BY <1>1, <1>3, <1>4 DEF WarStep, Unmade, Peace, EndWarThrows, Dispatch
<1> QED
    BY <1>2, <1>4

LEMMA WarsNext == TypeOK /\ Wars /\ Unmade /\ [Next]_vars => Wars' /\ Unmade'
<1> SUFFICES ASSUME TypeOK, Wars, Unmade, [Next]_vars PROVE Wars' /\ Unmade'
    OBVIOUS
<1>z. TypeOK /\ Wars /\ Unmade
    OBVIOUS
<1>1. ASSUME NEW o \in Objects, WarStep(o), War(o)'
      PROVE  Wars' /\ Unmade'
    <2>1. made' = made /\ \A q \in Objects \ {o} : Same(q)
        BY <1>1, Others
    <2>2. o <= made /\ o \in Nat /\ made \in Nat
        BY <1>1, MadeWarStep DEF TypeOK, Objects
    <2> QED
        BY <1>1, <1>z, <2>1, <2>2, WarFrame DEF Wars, Unmade
<1>2. ASSUME made' = made, \A q \in Objects : Same(q)
      PROVE  Wars' /\ Unmade'
    BY <1>2, <1>z, WarFrame DEF Wars, Unmade
<1>3. ASSUME NEW o \in Objects, o = cur, NEW p \in Players, OnPlayerEnter(p)
      PROVE  Wars' /\ Unmade'
    <2>1. CASE zone[o].inWar /\ MemberArrived(o)
        <3>1. UNCHANGED <<endTimers, call, late, crossed>>
            BY <1>3 DEF OnPlayerEnter
        <3> QED
            BY <1>1, <1>3, <2>1, <3>1, WarMemberArrived DEF WarStep, Wars
    <2>2. CASE UNCHANGED <<timeouts, left, zone, answered>>
        <3>1. made' = made /\ \A q \in Objects : Same(q)
            BY <1>3, <2>2 DEF OnPlayerEnter, Same
        <3> QED
            BY <3>1, <1>2
    <2> QED
        BY <1>3, <2>1, <2>2 DEF OnPlayerEnter
<1>4. ASSUME NEW o \in Objects, o = cur, NEW p \in Players, StartWar(p)
      PROVE  Wars' /\ Unmade'
    BY <1>1, <1>4, WarStartWar DEF WarStep, Wars
<1>5. ASSUME NEW o \in Objects, o = cur, NEW p \in Players, NEW k \in Players,
             OnPlayerDeath(p, k)
      PROVE  Wars' /\ Unmade'
    BY <1>1, <1>5, WarOnPlayerDeath DEF WarStep, Wars
<1>6. ASSUME NEW o \in Objects, NEW k \in Kinds, Dispatch(o, k)
      PROVE  Wars' /\ Unmade'
    BY <1>1, <1>6, WarDispatch DEF WarStep, Wars
<1>7. ASSUME NEW o \in Objects, NEW k \in Kinds, EndWar(o, k), ~ EndWarThrows(o, k)
      PROVE  Wars' /\ Unmade'
    BY <1>1, <1>7, WarEndWar DEF WarStep, Wars
<1>8. CASE PlaceStep
    <2>1. UNCHANGED <<objects, timers, history>>
        BY <1>8, PlaceSame
    <2>2. made' = made /\ \A q \in Objects : Same(q)
        BY <2>1 DEF Same, objects, timers, history
    <2> QED
        BY <2>2, <1>2
<1>9. CASE DocumentStep
    BY <1>2, <1>9, DocumentSame
<1>10. CASE Tick
    <2>1. ASSUME NEW o \in Objects
          PROVE  War(o)' /\ (Peace(o) => Peace(o)')
        <3>1. War(o)'
            BY <1>10, WarTick DEF Wars
        <3>2. Peace(o) => Peace(o)'
            BY <1>10 DEF Tick, Minus1, Peace, Quiet, objects
        <3> QED
            BY <3>1, <3>2
    <2>2. made' = made
        BY <1>10 DEF Tick, objects
    <2> QED
        BY <1>z, <2>1, <2>2 DEF Wars, Unmade
<1>11. CASE ReloadZones
    <2>1. CASE saved \in loaded /\ Construct(saved)
        <3>1. saved \in AnyTeam
            BY <2>1 DEF TypeOK, AnyTeam
        <3> QED
            BY <1>11, <2>1, <3>1, WarConstruct DEF ReloadZones
    <2>2. CASE UNCHANGED <<made, zone>>
        <3>1. \A q \in Objects : Same(q)
            BY <1>11, <2>2 DEF ReloadZones, Same, timers
        <3> QED
            BY <2>2, <3>1, <1>2
    <2> QED
        BY <1>11, <2>1, <2>2 DEF ReloadZones
<1>12. CASE Crash
    BY <1>12, WarsStart DEF Crash
<1>13. ASSUME NEW p \in Players, CreateZone(p)
       PROVE  Wars' /\ Unmade'
    <2>1. CASE Construct(team[p])
        <3>1. team[p] \in AnyTeam
            BY DEF TypeOK
        <3> QED
            BY <1>13, <2>1, <3>1, WarConstruct DEF CreateZone
    <2>2. CASE UNCHANGED objects
        <3>1. made' = made /\ \A q \in Objects : Same(q)
            BY <1>13, <2>2 DEF CreateZone, Same, timers, objects
        <3> QED
            BY <3>1, <1>2
    <2> QED
        BY <1>13, <2>1, <2>2 DEF CreateZone
<1> QED
    BY <1>3, <1>4, <1>5, <1>6, <1>7, <1>8, <1>9, <1>10, <1>11, <1>12, <1>13, Steps

(***************************************************************************)
(* The document and the owner.                                             *)
(***************************************************************************)

\* The objects that name the document, the one in use among them, and what is
\* under way to it, are there only as long as it is.
LiveDocs ==
    /\ \A o \in Objects : o <= made /\ zone[o].doc = "live" => saved # Missing
    /\ cur # NoObject /\ saved # Missing => zone[cur].doc = "live"
    /\ saved = Missing => stray = NoWrite

\* What the document names, unless nobody can know.
SavedOwner ==
    /\ Expected => unsure
    /\ ~ unsure /\ cur # NoObject /\ saved # Missing /\ ~ crossed[cur] =>
          saved = IF \E k \in Kinds : call[cur][k].at = "own"
                  THEN zone[cur].attacker ELSE zone[cur].owner

LEMMA DocumentStart ==
    ASSUME TypeOK, LiveDocs, NEW teams \in SUBSET Teams, Start(teams, saved), UNCHANGED document
    PROVE  LiveDocs' /\ SavedOwner'
<1>0. saved' = saved /\ stray' = stray
    BY DEF document
<1>1. unsure' = Expected'
    BY <1>0 DEF Start, Expected
<1>2. CASE saved \in teams
    <2>1. made' = 1 /\ cur' = 1 /\ saved # Missing
        BY <1>2, MissingAssumption DEF Start, AnyTeam
    <2>2. 1 \in Objects
        BY TurfWarAssumption DEF Objects
    <2>3. zone'[1].owner = saved /\ zone'[1].doc = "live"
        BY <1>2, <2>2 DEF Start, NewZone
    <2>4. \A k \in Kinds : call'[1][k].at = "none"
        BY <2>2 DEF Start, NoCall
    <2> QED
        BY <1>0, <1>1, <2>1, <2>3, <2>4 DEF LiveDocs, SavedOwner
<1>3. CASE saved \notin teams
    <2>1. made' = 0 /\ cur' = 0
        BY <1>3 DEF Start
    <2>2. \A o \in Objects : ~ (o <= 0)
        BY TurfWarAssumption DEF Objects
    <2>3. saved = Missing => stray = NoWrite
        BY DEF LiveDocs
    <2> QED
        BY <1>0, <1>1, <2>1, <2>2, <2>3 DEF LiveDocs, SavedOwner
<1> QED
    BY <1>2, <1>3

LEMMA DocumentInit == Init => LiveDocs /\ SavedOwner
<1> SUFFICES ASSUME Init PROVE LiveDocs /\ SavedOwner
    OBVIOUS
<1>1. saved # Missing /\ cur = 1 /\ 1 \in Objects /\ ~ Expected
    BY MissingAssumption, TurfWarAssumption DEF Init, AnyTeam, Objects, Expected
<1>2. zone[1].owner = saved /\ zone[1].doc = "live"
    BY <1>1 DEF Init, NewZone
<1>3. \A k \in Kinds : call[1][k].at = "none"
    BY <1>1 DEF Init, NoCall
<1> QED
    BY <1>1, <1>2, <1>3 DEF LiveDocs, SavedOwner

\* Steps that neither make nor destroy an object leave its document's name.
LEMMA DocsKept ==
    ASSUME TypeOK, NEW o \in Objects, WarStep(o)
    PROVE  made' = made /\ cur' = cur /\ \A q \in Objects : zone'[q].doc = zone[q].doc
<1>0. made' = made /\ cur' = cur /\ \A q \in Objects \ {o} : zone'[q].doc = zone[q].doc
    BY Others
<1>z. zone \in [Objects -> Zones] /\ zone[o] \in Zones
    BY DEF TypeOK
<1>1. ASSUME NEW p \in Players, o = cur, OnPlayerEnter(p)
      PROVE  zone'[o].doc = zone[o].doc
    BY <1>1, <1>z DEF OnPlayerEnter, MemberArrived, Zones
<1>2. ASSUME NEW p \in Players, o = cur, StartWar(p)
      PROVE  zone'[o].doc = zone[o].doc
    BY <1>2, <1>z DEF StartWar, Zones
<1>3. ASSUME NEW p \in Players, NEW k \in Players, o = cur, OnPlayerDeath(p, k)
      PROVE  zone'[o].doc = zone[o].doc
    BY <1>3, <1>z DEF OnPlayerDeath, Zones
<1>4. ASSUME NEW k \in Kinds, Dispatch(o, k)
      PROVE  zone'[o].doc = zone[o].doc
    BY <1>4 DEF Dispatch, objects
<1>5. ASSUME NEW k \in Kinds, EndWar(o, k), ~ EndWarThrows(o, k)
      PROVE  zone'[o].doc = zone[o].doc
    <2>1. CASE EndWarSkip(o, k) \/ EndWarDecide(o, k) \/ EndWarSave(o, k)
        BY <2>1 DEF EndWarSkip, EndWarDecide, EndWarSave, objects
    <2>2. CASE EndWarOwn(o, k) \/ EndWarReset(o, k) \/ EndWarClear(o, k) \/ EndWarEnd(o, k)
        BY <2>2, <1>z DEF EndWarOwn, EndWarReset, EndWarClear, EndWarEnd, Zones
    <2> QED
        BY <1>5, <2>1, <2>2 DEF EndWar
<1>6. zone'[o].doc = zone[o].doc
    BY <1>1, <1>2, <1>3, <1>4, <1>5 DEF WarStep
<1> QED
    BY <1>0, <1>6

\* What the steps of a war do to the document: only EndWar's update writes it.
LEMMA DocumentKept ==
    ASSUME NEW o \in Objects, WarStep(o)
    PROVE  \/ \E k \in Kinds : EndWarSave(o, k)
           \/ UNCHANGED <<saved, stray, unsure>>
<1>1. ASSUME NEW k \in Kinds, EndWar(o, k), ~ EndWarThrows(o, k)
      PROVE  EndWarSave(o, k) \/ UNCHANGED <<saved, stray, unsure>>
    BY <1>1 DEF EndWar, EndWarSkip, EndWarDecide, EndWarOwn, EndWarReset, EndWarClear, EndWarEnd,
        document, history
<1> QED
    BY <1>1 DEF WarStep, OnPlayerEnter, StartWar, OnPlayerDeath, Dispatch, document

\* The object in use names the document as long as there is one.
LEMMA LiveDocsNext ==
    TypeOK /\ Unmade /\ LiveDocs /\ [Next]_vars => LiveDocs'
<1> SUFFICES ASSUME TypeOK, Unmade, LiveDocs, [Next]_vars PROVE LiveDocs'
    OBVIOUS
<1>z. TypeOK /\ Unmade /\ LiveDocs /\ zone \in [Objects -> Zones]
    BY DEF TypeOK
<1>1. ASSUME made' = made, cur' = cur, \A q \in Objects : zone'[q].doc = zone[q].doc,
             saved' = Missing <=> saved = Missing, saved = Missing => stray' = stray
      PROVE  LiveDocs'
    <2>1. cur # NoObject => zone'[cur].doc = zone[cur].doc
        BY <1>1, CurIsObject
    <2> QED
        BY <1>1, <2>1 DEF LiveDocs
<1>2. ASSUME NEW o \in Objects, WarStep(o)
      PROVE  LiveDocs'
    <2>1. made' = made /\ cur' = cur /\ \A q \in Objects : zone'[q].doc = zone[q].doc
        BY <1>2, DocsKept
    <2>2. ASSUME NEW k \in Kinds, EndWarSave(o, k), zone[o].doc = "live"
          PROVE  saved # Missing /\ saved' # Missing
        <3>1. saved # Missing
            BY <1>2, <2>2, MadeWarStep DEF LiveDocs
        <3>2. zone[o].attacker # Missing
            BY ZonesType, MissingAssumption DEF TypeOK
        <3> QED
            BY <2>2, <3>1, <3>2 DEF EndWarSave
    <2>3. ASSUME NEW k \in Kinds, EndWarSave(o, k), zone[o].doc # "live"
          PROVE  saved' = saved /\ stray' = stray
        BY <2>3 DEF EndWarSave, document
    <2>4. (saved' = Missing <=> saved = Missing) /\ (saved = Missing => stray' = stray)
        BY <1>2, <2>2, <2>3, DocumentKept
    <2> QED
        BY <1>1, <2>1, <2>4
<1>4. ASSUME NEW owner \in AnyTeam, made < MaxObjects, Construct(owner), saved' # Missing
      PROVE  LiveDocs'
    <2>1. made + 1 \in Objects /\ cur' = made + 1
        BY <1>4, TurfWarAssumption DEF Construct, TypeOK, Objects
    <2>2. zone'[made + 1].doc = "live"
        BY <1>4, <2>1 DEF Construct, NewZone, TypeOK
    <2> QED
        BY <1>4, <2>1, <2>2 DEF LiveDocs
<1>5. ASSUME NEW p \in Players, CreateZone(p)
      PROVE  LiveDocs'
    <2>1. saved' # Missing /\ cur = NoObject /\ saved = Missing
        BY <1>5, MissingAssumption DEF CreateZone, TypeOK
    <2>2. CASE Construct(team[p])
        BY <1>4, <1>5, <2>1, <2>2 DEF CreateZone, TypeOK
    <2>3. CASE UNCHANGED objects
        BY <2>1, <2>3 DEF LiveDocs, objects
    <2> QED
        BY <1>5, <2>2, <2>3 DEF CreateZone
<1>6. CASE ReloadZones
    <2>1. saved' = saved /\ stray' = stray
        BY <1>6 DEF ReloadZones, document
    <2>2. CASE saved \in loaded /\ Construct(saved)
        <3>1. saved \in AnyTeam /\ saved # Missing
            BY <2>2, MissingAssumption DEF TypeOK, AnyTeam
        <3> QED
            BY <1>4, <1>6, <2>1, <2>2, <3>1 DEF ReloadZones
    <2>3. CASE cur' = NoObject /\ UNCHANGED <<made, zone>>
        BY <2>1, <2>3 DEF LiveDocs
    <2> QED
        BY <1>6, <2>2, <2>3 DEF ReloadZones
<1>7. ASSUME saved' = Missing, stray' = NoWrite, \A q \in Objects : zone'[q].doc # "live"
      PROVE  LiveDocs'
    BY <1>7 DEF LiveDocs
<1>r. ASSUME NEW q \in Objects
      PROVE  Removed(q).doc # "live" /\ [zone[q] EXCEPT !.doc = "unset"].doc = "unset"
    BY <1>z DEF Removed, Zones
<1>8. CASE RemoveZone
    <2>0. cur \in Objects
        BY <1>8, CurIsObject DEF RemoveZone
    <2> DEFINE Gone == [zone EXCEPT ![cur].doc = "unset"]
    <2>g. /\ Gone[cur].doc = "unset"
          /\ \A q \in Objects \ {cur} : Gone[q] = zone[q]
        <3>1. Gone = [zone EXCEPT ![cur] = [zone[cur] EXCEPT !.doc = "unset"]]
            BY <1>z, <2>0
        <3> QED
            BY <1>z, <1>r, <2>0, <3>1
    <2> HIDE DEF Gone
    <2>1. CASE /\ zone[cur].doc = "live" /\ DocumentRemoved
               /\ zone' = [o \in Objects |-> IF o = cur THEN Gone[o] ELSE Removed(o)]
        <3>1. \A q \in Objects : zone'[q].doc # "live"
            BY <1>r, <2>1, <2>g
        <3> QED
            BY <1>7, <2>1, <3>1 DEF DocumentRemoved
    <2>2. CASE zone' = Gone /\ saved' = saved /\ (saved = Missing => stray' = stray)
        <3>1. cur' = NoObject /\ made' = made
            BY <1>8 DEF RemoveZone
        <3>2. \A q \in Objects : zone'[q].doc = "live" => zone[q].doc = "live"
            BY <2>2, <2>g
        <3> QED
            BY <1>z, <2>2, <3>1, <3>2 DEF LiveDocs
    <2>3. zone[cur].doc = "live" => saved # Missing
        BY <1>z, <2>0 DEF LiveDocs, TypeOK
    <2> QED
        BY <1>8, <2>1, <2>2, <2>3 DEF RemoveZone, Gone, document
<1>9. CASE RemoveZoneFails
    <2>1. CASE DocumentRemoved /\ zone' = [o \in Objects |-> Removed(o)]
        BY <1>7, <1>r, <2>1 DEF DocumentRemoved
    <2>2. CASE Delayed(Missing) /\ UNCHANGED <<saved, zone>>
        <3>1. saved # Missing
            BY <1>9, CurIsObject DEF RemoveZoneFails, LiveDocs, TypeOK
        <3> QED
            BY <1>1, <1>9, <2>2, <3>1 DEF RemoveZoneFails
    <2> QED
        BY <1>9, <2>1, <2>2 DEF RemoveZoneFails
<1>10. CASE LateWrite
    <2>1. CASE stray = Missing
        BY <1>7, <1>r, <1>10, <2>1 DEF LateWrite
    <2>2. CASE stray # Missing
        <3>1. saved # Missing /\ saved' # Missing
            BY <1>z, <1>10, <2>2 DEF LateWrite, LiveDocs
        <3> QED
            BY <1>1, <1>10, <2>2, <3>1 DEF LateWrite
    <2> QED
        BY <2>1, <2>2
<1>11. CASE Crash
    BY <1>11, DocumentStart DEF Crash
<1>12. CASE PlaceStep \/ Tick
    <2>1. UNCHANGED <<made, cur, zone, saved, stray>>
        BY <1>12, PlaceSame DEF Tick, objects, document
    <2> QED
        BY <1>1, <2>1
<1> QED
    BY <1>2, <1>5, <1>6, <1>8, <1>9, <1>10, <1>11, <1>12, Steps DEF DocumentStep, WarStep

\* A statement of EndWar for the object in use: the document gets the attacker
\* first, the object next, and no other call is past the check.
LEMMA SavedOwnerEndWar ==
    ASSUME TypeOK, LiveDocs, SavedOwner, cur \in Objects, War(cur), NEW k \in Kinds,
           EndWar(cur, k), ~ EndWarThrows(cur, k), saved # Missing, ~ unsure', ~ crossed'[cur]
    PROVE  saved' = IF \E j \in Kinds : call'[cur][j].at = "own"
                    THEN zone'[cur].attacker ELSE zone'[cur].owner
<1> DEFINE o == cur
<1>z. zone \in [Objects -> Zones] /\ zone[o] \in Zones /\ call \in [Objects -> [Kinds -> Calls]]
    BY DEF TypeOK
<1>n. cur # NoObject
    BY DEF Objects
<1>c. ~ crossed[o]
    BY DEF EndWar, EndWarSkip, EndWarDecide, Crosses, EndWarSave, EndWarOwn, EndWarReset,
           EndWarClear, EndWarEnd, history, TypeOK
<1>s. ~ unsure => saved = IF \E j \in Kinds : call[o][j].at = "own"
                          THEN zone[o].attacker ELSE zone[o].owner
    BY <1>c, <1>n DEF SavedOwner
<1>p. Past(call[o][k]) => \A j \in Kinds \ {k} : call[o][j].at # "own"
    BY <1>c DEF War, Content, Past
<1>1. ASSUME NEW from, NEW to, Step(o, k, from, to), Past(call[o][k])
      PROVE  /\ call[o][k].at = from
             /\ (\E j \in Kinds : call'[o][j].at = "own") <=> to = "own"
             /\ (\E j \in Kinds : call[o][j].at = "own") <=> from = "own"
    BY <1>1, <1>p, StepCall
<1>2. CASE EndWarSkip(o, k) \/ EndWarDecide(o, k)
    <2>1. call[o][k].at = "begin" /\ UNCHANGED <<zone, saved, unsure>>
        BY <1>2 DEF EndWarSkip, EndWarDecide, objects, document, history
    <2>2. call'[o][k].at # "own" /\ \A j \in Kinds \ {k} : call'[o][j] = call[o][j]
        BY <1>2, <1>z DEF EndWarSkip, EndWarDecide, NoCall
    <2>3. (\E j \in Kinds : call'[o][j].at = "own") <=> \E j \in Kinds : call[o][j].at = "own"
        BY <2>1, <2>2
    <2> QED
        BY <1>s, <2>1, <2>3
<1>3. CASE EndWarSave(o, k)
    <2>1. zone[o].doc = "live"
        BY <1>n DEF LiveDocs
    <2>2. saved' = zone[o].attacker /\ zone' = zone
        BY <1>3, <1>n, <2>1 DEF EndWarSave, objects
    <2>3. Step(o, k, "save", "own") /\ Past(call[o][k])
        BY <1>3 DEF EndWarSave, Step, Past
    <2> QED
        BY <1>1, <2>2, <2>3
<1>4. CASE EndWarOwn(o, k)
    <2>1. zone'[o].owner = zone[o].attacker /\ saved' = saved /\ unsure' = unsure
        BY <1>4, <1>z DEF EndWarOwn, Zones, document, history
    <2>2. Step(o, k, "own", "reset") /\ Past(call[o][k])
        BY <1>4 DEF EndWarOwn, Step, Past
    <2> QED
        BY <1>1, <1>s, <2>1, <2>2
<1>5. CASE EndWarReset(o, k)
    <2>1. zone'[o].owner = zone[o].owner /\ saved' = saved /\ unsure' = unsure
        BY <1>5, <1>z DEF EndWarReset, Zones, document
    <2>2. Step(o, k, "reset", "clear") /\ Past(call[o][k])
        BY <1>5 DEF EndWarReset, Step, Past
    <2> QED
        BY <1>1, <1>s, <2>1, <2>2
<1>6. CASE EndWarClear(o, k)
    <2>1. zone'[o].owner = zone[o].owner /\ saved' = saved /\ unsure' = unsure
        BY <1>6, <1>z DEF EndWarClear, Zones, document, history
    <2>2. Step(o, k, "clear", "end") /\ Past(call[o][k])
        BY <1>6 DEF EndWarClear, Step, Past
    <2> QED
        BY <1>1, <1>s, <2>1, <2>2
<1>7. CASE EndWarEnd(o, k)
    <2>1. /\ zone'[o].owner = zone[o].owner /\ saved' = saved /\ call[o][k].at = "end"
          /\ unsure' = unsure
        BY <1>7, <1>z DEF EndWarEnd, Zones, document
    <2>2. call'[o][k].at = "none" /\ \A j \in Kinds \ {k} : call'[o][j] = call[o][j]
        BY <1>7, <1>z, NoCallType DEF EndWarEnd
    <2>3. \A j \in Kinds : call'[o][j].at # "own" /\ call[o][j].at # "own"
        BY <1>p, <2>1, <2>2 DEF Past
    <2> QED
        BY <1>s, <2>1, <2>3
<1> QED
    BY <1>2, <1>3, <1>4, <1>5, <1>6, <1>7 DEF EndWar

\* The document names the owner, or the attacker that is about to be.
LEMMA SavedOwnerNext ==
    TypeOK /\ Wars /\ Unmade /\ LiveDocs /\ SavedOwner /\ [Next]_vars => SavedOwner'
<1> SUFFICES ASSUME TypeOK, Wars, Unmade, LiveDocs, SavedOwner, [Next]_vars
             PROVE  SavedOwner'
    OBVIOUS
<1>z. zone \in [Objects -> Zones] /\ call \in [Objects -> [Kinds -> Calls]]
      /\ TypeOK /\ SavedOwner
    BY DEF TypeOK
\* A step that leaves the object in use alone.
<1>1. ASSUME UNCHANGED <<cur, saved, stray, unsure>>,
             cur # NoObject =>
                /\ zone'[cur].owner = zone[cur].owner
                /\ zone'[cur].attacker = zone[cur].attacker
                /\ crossed'[cur] = crossed[cur]
                /\ (\E j \in Kinds : call'[cur][j].at = "own")
                       <=> \E j \in Kinds : call[cur][j].at = "own"
      PROVE  SavedOwner'
    BY <1>1 DEF SavedOwner, Expected
<1>2. ASSUME UNCHANGED <<cur, saved, stray, unsure>>, \A q \in Objects : Same(q)
      PROVE  SavedOwner'
    BY <1>1, <1>2, CurIsObject DEF Same
<1>3. ASSUME NEW o \in Objects, o = cur, NEW p \in Players, OnPlayerEnter(p)
      PROVE  SavedOwner'
    <2>1. UNCHANGED <<cur, saved, stray, unsure, call, crossed>>
        BY <1>3 DEF OnPlayerEnter, document
    <2>2. zone'[o].owner = zone[o].owner /\ zone'[o].attacker = zone[o].attacker
        BY <1>3, <1>z DEF OnPlayerEnter, MemberArrived, Zones
    <2> QED
        BY <1>1, <1>3, <2>1, <2>2
<1>4. ASSUME NEW o \in Objects, o = cur, NEW p \in Players, NEW k \in Players,
             OnPlayerDeath(p, k)
      PROVE  SavedOwner'
    <2>1. UNCHANGED <<cur, saved, stray, unsure, call, crossed>>
        BY <1>4 DEF OnPlayerDeath, timers, document
    <2>2. zone'[o].owner = zone[o].owner /\ zone'[o].attacker = zone[o].attacker
        BY <1>4, <1>z DEF OnPlayerDeath, Zones
    <2> QED
        BY <1>1, <1>4, <2>1, <2>2
<1>5. ASSUME NEW o \in Objects, o = cur, NEW p \in Players, StartWar(p)
      PROVE  SavedOwner'
    <2>1. UNCHANGED <<cur, saved, stray, unsure, call, crossed>> /\ ~ zone[o].inWar
        BY <1>5 DEF StartWar, document
    <2>2. ~ crossed[o] => \A k \in Kinds : call[o][k].at # "own"
        BY <2>1 DEF Wars, War, Content, Past
    <2>3. zone'[o].owner = zone[o].owner
        BY <1>5, <1>z DEF StartWar, Zones
    <2> QED
        BY <1>5, <2>1, <2>2, <2>3 DEF SavedOwner, Expected
<1>6. ASSUME NEW o \in Objects, NEW k \in Kinds, Dispatch(o, k)
      PROVE  SavedOwner'
    <2>1. UNCHANGED <<cur, zone, saved, stray, unsure, crossed>>
        BY <1>6 DEF Dispatch, objects, document
    <2>2. ASSUME NEW q \in Objects
          PROVE  (\E j \in Kinds : call'[q][j].at = "own") <=> \E j \in Kinds : call[q][j].at = "own"
        BY <1>6, <1>z DEF Dispatch
    <2> QED
        BY <1>1, <2>1, <2>2, CurIsObject
<1>7. ASSUME NEW o \in Objects, NEW k \in Kinds, EndWar(o, k), ~ EndWarThrows(o, k)
      PROVE  SavedOwner'
    <2>1. cur' = cur /\ \A q \in Objects \ {o} : Same(q)
        BY <1>7, Others DEF WarStep
    <2>2. EndWarSave(o, k) \/ UNCHANGED <<saved, stray, unsure>>
        BY <1>7 DEF EndWar, EndWarSkip, EndWarDecide, EndWarOwn, EndWarReset, EndWarClear,
            EndWarEnd, document, history
    <2>3. Expected' => unsure'
        BY <1>z, <2>2 DEF EndWarSave, SavedOwner, Expected, document
    <2>4. ASSUME ~ unsure', cur # NoObject, saved' # Missing, ~ crossed'[cur]
          PROVE  saved' = IF \E j \in Kinds : call'[cur][j].at = "own"
                          THEN zone'[cur].attacker ELSE zone'[cur].owner
        <3>0. cur \in Objects
            BY <2>4, CurIsObject
        <3>1. CASE o = cur
            <4>1. saved # Missing
                <5>1. CASE EndWarSave(o, k) /\ zone[o].doc = "live"
                    <6>1. o <= made
                        BY <3>0, <3>1 DEF TypeOK
                    <6> QED
                        BY <5>1, <6>1 DEF LiveDocs
                <5>2. CASE EndWarSave(o, k) /\ zone[o].doc # "live"
                    BY <2>4, <5>2 DEF EndWarSave, document
                <5>3. CASE UNCHANGED <<saved, stray, unsure>>
                    BY <2>4, <5>3
                <5> QED
                    BY <2>2, <5>1, <5>2, <5>3
            <4> QED
                BY <1>7, <2>4, <3>0, <3>1, <4>1, SavedOwnerEndWar DEF Wars
        <3>2. CASE o # cur
            <4>1. UNCHANGED <<saved, stray, unsure>>
                BY <2>2, <2>4, <3>2 DEF EndWarSave, document
            <4> QED
                BY <2>1, <2>4, <3>0, <3>2, <4>1 DEF SavedOwner, Same
        <3> QED
            BY <3>1, <3>2
    <2> QED
        BY <2>1, <2>3, <2>4 DEF SavedOwner
\* A new object has no call.
<1>8. ASSUME NEW owner \in AnyTeam, made < MaxObjects, Construct(owner), saved' = owner,
             UNCHANGED call, Expected' => unsure'
      PROVE  SavedOwner'
    <2>0. made + 1 \in Objects
        BY <1>8, TurfWarAssumption DEF TypeOK, Objects
    <2>1. PICK n \in Objects : n = made + 1 /\ n > made
        BY <2>0, TurfWarAssumption DEF TypeOK
    <2>2. \A k \in Kinds : call'[n][k].at = "none"
        BY <1>8, <2>1 DEF Unmade, Peace, Quiet
    <2>3. cur' = n /\ zone'[n].owner = owner
        BY <1>8, <1>z, <2>1 DEF Construct, NewZone
    <2> QED
        BY <1>8, <2>2, <2>3 DEF SavedOwner
<1>9. ASSUME NEW p \in Players, CreateZone(p)
      PROVE  SavedOwner'
    <2>0. ~ Expected' /\ cur = NoObject
        BY <1>9, MissingAssumption DEF CreateZone, LiveDocs, Expected
    <2>1. CASE Construct(team[p])
        BY <1>8, <1>9, <2>0, <2>1 DEF CreateZone, TypeOK, timers
    <2>2. CASE UNCHANGED objects
        BY <2>0, <2>2 DEF SavedOwner, objects
    <2> QED
        BY <1>9, <2>1, <2>2 DEF CreateZone
<1>10. CASE ReloadZones
    <2>0. unsure' = Expected'
        BY <1>10 DEF ReloadZones, Expected, document
    <2>1. CASE saved \in loaded /\ Construct(saved)
        <3>1. saved \in AnyTeam /\ saved' = saved /\ UNCHANGED call /\ made < MaxObjects
            BY <1>10, <2>1 DEF ReloadZones, TypeOK, AnyTeam, timers, document
        <3> QED
            BY <1>8, <2>0, <2>1, <3>1
    <2>2. CASE cur' = NoObject
        BY <2>0, <2>2 DEF SavedOwner
    <2> QED
        BY <1>10, <2>1, <2>2 DEF ReloadZones
<1>11. CASE RemoveZone
    BY <1>11 DEF RemoveZone, SavedOwner
<1>12. CASE RemoveZoneFails
    <2>1. ~ Expected'
        BY <1>12, MissingAssumption DEF RemoveZoneFails, DocumentRemoved, Delayed, Expected
    <2>2. CASE saved' = Missing
        BY <2>1, <2>2 DEF SavedOwner
    <2>3. CASE UNCHANGED <<saved, zone>>
        <3>1. UNCHANGED <<cur, call, crossed, unsure>>
            BY <1>12 DEF RemoveZoneFails, timers, history
        <3> QED
            BY <1>z, <2>1, <2>3, <3>1 DEF SavedOwner
    <2> QED
        BY <1>12, <2>2, <2>3 DEF RemoveZoneFails, DocumentRemoved
<1>13. CASE LateWrite
    <2>1. ~ Expected' /\ unsure' = unsure
        BY <1>13, MissingAssumption DEF LateWrite, Expected, history
    <2>2. unsure \/ saved' = Missing
        BY <1>13, <1>z DEF LateWrite, SavedOwner, Expected, TypeOK
    <2> QED
        BY <2>1, <2>2 DEF SavedOwner
<1>14. CASE Crash
    BY <1>14, DocumentStart DEF Crash
<1>15. CASE PlaceStep
    <2>1. UNCHANGED <<objects, timers, document, history>>
        BY <1>15, PlaceSame
    <2> QED
        BY <1>2, <2>1 DEF objects, timers, document, history, Same
<1>16. CASE Tick
    <2>1. UNCHANGED <<zone, call, crossed, cur, saved, stray, unsure>>
        BY <1>16 DEF Tick, objects, document
    <2> QED
        BY <1>1, <2>1
<1> QED
    BY <1>3, <1>4, <1>5, <1>6, <1>7, <1>9, <1>10, <1>11, <1>12, <1>13, <1>14, <1>15, <1>16,
       Steps DEF DocumentStep

(***************************************************************************)
(* The theorems that hold for any lengths of the two timers.               *)
(***************************************************************************)

IInv == TypeOK /\ Wars /\ Unmade /\ LiveDocs /\ SavedOwner

\* The conjuncts are inductive together.
LEMMA Inductive == Spec => []IInv
<1>1. Init => IInv
    BY TypeInit, WarsInit, DocumentInit DEF IInv
<1>2. IInv /\ [Next]_vars => IInv'
    BY TypeNext, WarsNext, LiveDocsNext, SavedOwnerNext DEF IInv
<1> QED
    BY <1>1, <1>2, PTL DEF Spec

\* The timeout timer of a war is armed only while no member of the owner has
\* come: MemberArrived deletes the right timer, though earlier wars' are armed.
THEOREM TimeoutsUnanswered == Spec => []TimeoutOnlyUnanswered
<1>1. IInv => TimeoutOnlyUnanswered
    BY DEF IInv, Wars, War, Answer, TimeoutOnlyUnanswered
<1> QED
    BY <1>1, Inductive, PTL

\* EndWar returns true only when the attacker it announced has the zone, unless
\* another call crossed it.
THEOREM WinnersOwn == Spec => []TrueMeansAttackerWins
<1>1. IInv => TrueMeansAttackerWins
    BY DEF IInv, Wars, War, Content, TrueMeansAttackerWins
<1> QED
    BY <1>1, Inductive, PTL

\* A war starts with both counters at zero, unless a kill came late.
THEOREM ScoresStartLevel == Spec => []ScoreStartsLevel
<1>1. IInv => ScoreStartsLevel
    BY DEF IInv, Wars, War, Level, ScoreStartsLevel
<1> QED
    BY <1>1, Inductive, PTL

\* The owner in memory is the owner in the database, but for the moment between
\* SetOwner's update and its assignment, unless a write was lost or late or came
\* from a destroyed object, or calls crossed.
THEOREM OwnersAreSaved == Spec => []OwnerSaved
<1>1. IInv => OwnerSaved
    BY DEF IInv, SavedOwner, OwnerSaved
<1> QED
    BY <1>1, Inductive, PTL

(***************************************************************************)
(* The phases of a war whose timeout is shorter: the timeout's call comes  *)
(* alone and takes the end timer with it, so no timer outlives its war.    *)
(***************************************************************************)

Armed(o) ==
    /\ zone[o].inWar /\ \A k \in Kinds : call[o][k].at = "none"
    /\ \E e \in endTimers[o] : endTimers[o] = {e} /\ \A m \in timeouts[o] : m < e
    /\ \A m, n \in timeouts[o] : m = n

Ending(o, k) ==
    /\ zone[o].inWar /\ call[o][k].at # "none"
    /\ \A j \in Kinds \ {k} : call[o][j].at = "none"
    /\ timeouts[o] = {}
    /\ \/ endTimers[o] = {}
       \/ /\ k = "timeout" /\ call[o][k].at = "begin"
          /\ \E e \in endTimers[o] : endTimers[o] = {e} /\ e > 0

Phase(o) ==
    /\ ~ crossed[o]
    /\ Peace(o) \/ Armed(o) \/ \E k \in Kinds : Ending(o, k)

Phases == \A o \in Objects : Phase(o)

LEMMA PhaseFrame ==
    ASSUME NEW o \in Objects, Phase(o),
           UNCHANGED <<zone[o].inWar, endTimers[o], timeouts[o], call[o], crossed[o]>>
    PROVE  Phase(o)'
BY DEF Phase, Peace, Quiet, Armed, Ending

\* One statement of EndWar: the call is the only one.
LEMMA PhaseEndWar ==
    ASSUME TypeOK, NEW o \in Objects, NEW k \in Kinds, Phase(o), EndWar(o, k),
           ~ EndWarThrows(o, k)
    PROVE  Phase(o)'
<1>z. /\ zone \in [Objects -> Zones] /\ zone[o] \in Zones
      /\ call \in [Objects -> [Kinds -> Calls]] /\ endTimers \in [Objects -> SUBSET Nat]
    BY TurfWarAssumption DEF TypeOK
<1>c. call[o][k].at # "none"
    BY DEF EndWar, EndWarSkip, EndWarDecide, EndWarSave, EndWarOwn, EndWarReset, EndWarClear,
           EndWarEnd, Step
<1>e. ~ crossed[o] /\ Ending(o, k)
    BY <1>c DEF Phase, Peace, Quiet, Armed, Ending
<1>1. ~ EndWarSkip(o, k)
    BY <1>e DEF EndWarSkip, Ending
<1>2. CASE EndWarDecide(o, k)
    <2>1. ~ crossed'[o]
        BY <1>2, <1>e DEF EndWarDecide, Crosses, Past, Ending, TypeOK
    <2>2. zone'[o].inWar /\ timeouts'[o] = {}
        BY <1>2, <1>e DEF EndWarDecide, Ending, objects
    <2>3. call'[o][k].at # "none" /\ \A j \in Kinds \ {k} : call'[o][j].at = "none"
        BY <1>2, <1>e, <1>z DEF EndWarDecide, Ending
    <2>4. endTimers'[o] = {}
        <3>1. CASE endTimers[o] = {}
            BY <1>2, <1>z, <3>1 DEF EndWarDecide, EndTimerDestroyed
        <3>2. CASE endTimers[o] # {}
            <4>1. PICK e \in endTimers[o] : endTimers[o] = {e} /\ k = "timeout"
                BY <1>e, <3>2 DEF Ending
            <4>2. endTimers[o] \in SUBSET Nat /\ \A n \in endTimers[o] : n <= e
                BY <1>z, <4>1
            <4>3. Max(endTimers[o]) = e
                BY <4>1, <4>2, MaxIs
            <4>4. endTimers'[o] = endTimers[o] \ {Max(endTimers[o])}
                BY <1>2, <1>z, <4>1 DEF EndWarDecide, EndTimerDestroyed
            <4> QED
                BY <4>1, <4>3, <4>4
        <3> QED
            BY <3>1, <3>2
    <2> QED
        BY <2>1, <2>2, <2>3, <2>4 DEF Phase, Ending
\* Past the check no end timer is armed, and the call goes on alone.
<1>3. ASSUME NEW from, NEW to, Step(o, k, from, to), from # "begin", to # "none",
             zone'[o].inWar, UNCHANGED <<endTimers, timeouts, crossed>>
      PROVE  Phase(o)'
    <2>1. /\ call[o][k].at = from /\ call'[o][k].at = to
          /\ \A j \in Kinds \ {k} : call'[o][j] = call[o][j]
        BY <1>3, StepCall
    <2> QED
        BY <1>3, <1>e, <2>1 DEF Phase, Ending
<1>4. CASE EndWarSave(o, k)
    BY <1>3, <1>4, <1>e DEF EndWarSave, Ending, objects
<1>5. CASE EndWarOwn(o, k)
    <2>1. zone'[o].inWar /\ UNCHANGED <<endTimers, timeouts, crossed>>
        BY <1>5, <1>e, <1>z DEF EndWarOwn, Ending, Zones, history
    <2> QED
        BY <1>3, <1>5, <2>1 DEF EndWarOwn
<1>6. CASE EndWarReset(o, k)
    <2>1. zone'[o].inWar /\ UNCHANGED <<endTimers, timeouts, crossed>>
        BY <1>6, <1>e, <1>z DEF EndWarReset, Ending, Zones
    <2> QED
        BY <1>3, <1>6, <2>1 DEF EndWarReset
<1>7. CASE EndWarClear(o, k)
    <2>1. zone'[o].inWar /\ UNCHANGED <<endTimers, timeouts, crossed>>
        BY <1>7, <1>e, <1>z DEF EndWarClear, Ending, Zones, history
    <2> QED
        BY <1>3, <1>7, <2>1 DEF EndWarClear
<1>8. CASE EndWarEnd(o, k)
    <2>1. ~ zone'[o].inWar /\ UNCHANGED <<endTimers, timeouts, crossed>>
        BY <1>8, <1>z DEF EndWarEnd, Zones
    <2>2. \A j \in Kinds : call'[o][j].at = "none"
        BY <1>8, <1>e, <1>z, NoCallType DEF EndWarEnd, Ending
    <2>3. call[o][k].at = "end"
        BY <1>8 DEF EndWarEnd
    <2> QED
        BY <1>e, <2>1, <2>2, <2>3 DEF Phase, Peace, Quiet, Ending
<1> QED
    BY <1>1, <1>2, <1>4, <1>5, <1>6, <1>7, <1>8 DEF EndWar

\* A timer goes off: of an armed war, with no other timer of its kind left.
LEMMA PhaseDispatch ==
    ASSUME TypeOK, NEW o \in Objects, NEW k \in Kinds, Phase(o), Dispatch(o, k)
    PROVE  Phase(o)'
<1>z. /\ call \in [Objects -> [Kinds -> Calls]] /\ endTimers[o] \in SUBSET Nat
      /\ timeouts[o] \in SUBSET Nat
    BY TurfWarAssumption DEF TypeOK
<1>1. zone' = zone /\ ~ crossed'[o]
    BY DEF Dispatch, objects, Phase
<1>2. call'[o][k].at = "begin" /\ \A j \in Kinds \ {k} : call'[o][j] = call[o][j]
    BY <1>z DEF Dispatch
<1>3. CASE Armed(o)
    <2>1. PICK e \in endTimers[o] : endTimers[o] = {e} /\ \A m \in timeouts[o] : m < e
        BY <1>3 DEF Armed
    <2>2. CASE k = "end"
        <3>1. e = 0 /\ endTimers'[o] = endTimers[o] \ {0} /\ timeouts' = timeouts
            BY <2>1, <2>2 DEF Dispatch, TypeOK
        <3>2. timeouts[o] = {}
            BY <1>z, <2>1, <3>1
        <3> QED
            BY <1>1, <1>2, <1>3, <2>1, <3>1, <3>2 DEF Phase, Ending, Armed
    <2>3. CASE k = "timeout"
        <3>1. 0 \in timeouts[o] /\ timeouts'[o] = timeouts[o] \ {0} /\ endTimers' = endTimers
            BY <2>3 DEF Dispatch, TypeOK
        <3>2. timeouts'[o] = {} /\ e > 0
            BY <1>3, <2>1, <3>1 DEF Armed
        <3> QED
            BY <1>1, <1>2, <1>3, <2>1, <2>3, <3>1, <3>2 DEF Phase, Ending, Armed
    <2> QED
        BY <2>2, <2>3
<1>4. ~ Peace(o)
    BY DEF Dispatch, Peace, Quiet
<1>5. \A j \in Kinds : ~ Ending(o, j)
    <2>1. CASE k = "timeout"
        BY <2>1 DEF Dispatch, Ending
    <2>2. CASE k = "end"
        BY <2>2 DEF Dispatch, Ending
    <2> QED
        BY <2>1, <2>2
<1> QED
    BY <1>3, <1>4, <1>5 DEF Phase

LEMMA PhasesNext ==
    ASSUME TurfWarTimeout < TurfWarLast
    PROVE  TypeOK /\ Unmade /\ Phases /\ [Next]_vars => Phases'
<1> SUFFICES ASSUME TypeOK, Unmade, Phases, [Next]_vars PROVE Phases'
    OBVIOUS
<1>z. /\ TypeOK /\ Unmade /\ Phases /\ zone \in [Objects -> Zones]
      /\ timeouts \in [Objects -> SUBSET Nat] /\ endTimers \in [Objects -> SUBSET Nat]
    BY TurfWarAssumption DEF TypeOK
<1>1. ASSUME NEW o \in Objects, WarStep(o), Phase(o)'
      PROVE  Phases'
    BY <1>1, <1>z, Others, PhaseFrame DEF Phases, Same
<1>2. ASSUME \A q \in Objects : Same(q)
      PROVE  Phases'
    BY <1>2, <1>z, PhaseFrame DEF Phases, Same
<1>3. ASSUME NEW o \in Objects, o = cur, NEW p \in Players, OnPlayerEnter(p)
      PROVE  Phases'
    <2>1. zone'[o].inWar = zone[o].inWar /\ UNCHANGED <<endTimers, call, crossed>>
        BY <1>3, <1>z DEF OnPlayerEnter, MemberArrived, Zones
    <2>2. timeouts'[o] \subseteq timeouts[o]
        BY <1>3, <1>z DEF OnPlayerEnter, MemberArrived
    <2>3. Phase(o)'
        BY <1>z, <2>1, <2>2 DEF Phases, Phase, Peace, Quiet, Armed, Ending
    <2> QED
        BY <1>1, <1>3, <2>3 DEF WarStep
<1>4. ASSUME NEW o \in Objects, o = cur, NEW p \in Players, NEW k \in Players,
             OnPlayerDeath(p, k)
      PROVE  Phases'
    <2>1. zone'[o].inWar = zone[o].inWar /\ UNCHANGED <<endTimers, timeouts, call, crossed>>
        BY <1>4, <1>z DEF OnPlayerDeath, Zones, timers
    <2>2. Phase(o)'
        BY <1>z, <2>1, PhaseFrame DEF Phases
    <2> QED
        BY <1>1, <1>4, <2>2 DEF WarStep
<1>5. ASSUME NEW o \in Objects, o = cur, NEW p \in Players, StartWar(p)
      PROVE  Phases'
    <2>1. ~ zone[o].inWar /\ UNCHANGED <<call, crossed>>
        BY <1>5 DEF StartWar
    <2>2. Peace(o) /\ ~ crossed[o]
        BY <1>z, <2>1 DEF Phases, Phase, Armed, Ending
    <2>3. zone'[o].inWar
        BY <1>5, <1>z DEF StartWar, Zones
    <2>4. endTimers'[o] = {TurfWarLast} /\ timeouts'[o] \in {{}, {TurfWarTimeout}}
        BY <1>5, <1>z, <2>2 DEF StartWar, EndTimer, Peace, Quiet
    <2>5. Armed(o)'
        BY <2>1, <2>2, <2>3, <2>4 DEF Armed, Peace, Quiet
    <2> QED
        BY <1>1, <1>5, <2>1, <2>2, <2>5 DEF WarStep, Phase
<1>6. ASSUME NEW o \in Objects, NEW k \in Kinds, Dispatch(o, k)
      PROVE  Phases'
    BY <1>1, <1>6, <1>z, PhaseDispatch DEF WarStep, Phases
<1>7. ASSUME NEW o \in Objects, NEW k \in Kinds, EndWar(o, k), ~ EndWarThrows(o, k)
      PROVE  Phases'
    BY <1>1, <1>7, <1>z, PhaseEndWar DEF WarStep, Phases
<1>8. ASSUME NEW owner, made < MaxObjects, Construct(owner), UNCHANGED <<timers, crossed>>
      PROVE  Phases'
    <2>1. ASSUME NEW q \in Objects, q = made + 1
          PROVE  Phase(q)'
        <3>1. Peace(q) /\ ~ crossed[q]
            BY <1>z, <2>1, TurfWarAssumption DEF Unmade, Phases, Phase, TypeOK
        <3>2. ~ zone'[q].inWar
            BY <1>8, <1>z, <2>1 DEF Construct, NewZone
        <3> QED
            BY <1>8, <3>1, <3>2 DEF Phase, Peace, Quiet, timers
    <2>2. ASSUME NEW q \in Objects, q # made + 1
          PROVE  Phase(q)'
        <3>1. zone'[q] = zone[q]
            BY <1>8, <1>z, <2>2 DEF Construct
        <3> QED
            BY <1>8, <1>z, <3>1, PhaseFrame DEF Phases, timers
    <2> QED
        BY <2>1, <2>2 DEF Phases
<1>9. ASSUME NEW p \in Players, CreateZone(p)
      PROVE  Phases'
    <2>1. CASE Construct(team[p])
        BY <1>8, <1>9, <2>1 DEF CreateZone
    <2>2. CASE UNCHANGED objects
        BY <1>2, <1>9, <2>2 DEF CreateZone, Same, timers, objects
    <2> QED
        BY <1>9, <2>1, <2>2 DEF CreateZone
<1>10. CASE ReloadZones
    <2>1. CASE saved \in loaded /\ Construct(saved)
        BY <1>8, <1>10, <2>1 DEF ReloadZones
    <2>2. CASE UNCHANGED <<made, zone>>
        BY <1>2, <1>10, <2>2 DEF ReloadZones, Same, timers
    <2> QED
        BY <1>10, <2>1, <2>2 DEF ReloadZones
<1>11. CASE DocumentStep
    BY <1>2, <1>11, <1>z, DocumentSame
<1>12. CASE PlaceStep
    <2>1. UNCHANGED <<objects, timers, document, history>>
        BY <1>12, <1>z, PlaceSame
    <2> QED
        BY <1>2, <2>1 DEF objects, timers, history, Same
<1>13. CASE Tick
    <2> SUFFICES ASSUME NEW o \in Objects PROVE Phase(o)'
        BY DEF Phases
    <2>1. /\ endTimers'[o] = {m - 1 : m \in endTimers[o]}
          /\ timeouts'[o] = {m - 1 : m \in timeouts[o]}
        BY <1>13 DEF Tick, Minus1
    <2>2. UNCHANGED <<zone, call, crossed>> /\ \A k \in Kinds : call[o][k].at = "none"
        BY <1>13 DEF Tick, Running, objects
    <2>3. CASE Peace(o)
        BY <1>z, <2>1, <2>2, <2>3 DEF Phases, Phase, Peace, Quiet
    <2>4. CASE Armed(o)
        <3>1. PICK e \in endTimers[o] : endTimers[o] = {e} /\ \A m \in timeouts[o] : m < e
            BY <2>4 DEF Armed
        <3>2. endTimers'[o] = {e - 1} /\ e \in Nat
            BY <1>z, <2>1, <3>1
        <3>3. \A m \in timeouts'[o] : m < e - 1
            BY <1>z, <2>1, <3>1, <3>2
        <3>4. \A m, n \in timeouts'[o] : m = n
            BY <2>1, <2>4 DEF Armed
        <3> QED
            BY <1>z, <2>2, <2>4, <3>2, <3>3, <3>4 DEF Phases, Phase, Armed
    <2>5. \A k \in Kinds : ~ Ending(o, k)
        BY <2>2 DEF Ending
    <2> QED
        BY <1>z, <2>3, <2>4, <2>5 DEF Phases, Phase
<1>14. CASE Crash
    <2>1. \A o \in Objects : ~ crossed'[o] /\ Peace(o)'
        BY <1>14 DEF Crash, Start, NewZone, NoCall, Peace, Quiet
    <2> QED
        BY <2>1 DEF Phases, Phase
<1> QED
    BY <1>3, <1>4, <1>5, <1>6, <1>7, <1>9, <1>10, <1>11, <1>12, <1>13, <1>14, <1>z, Steps

\* No two EndWar calls cross as long as turfwartimeout is below turfwarlast.
THEOREM WarsDoNotCross == Spec => []CallsDoNotCross
<1>1. CASE ~ (TurfWarTimeout < TurfWarLast)
    <2>1. TypeOK => CallsDoNotCross
        BY <1>1 DEF CallsDoNotCross
    <2> QED
        BY <2>1, TypeCorrect, PTL
<1>2. CASE TurfWarTimeout < TurfWarLast
    <2>1. Init => Phases
        BY DEF Init, NewZone, NoCall, Phases, Phase, Peace, Quiet
    <2>2. IInv /\ Phases /\ [Next]_vars => Phases'
        BY <1>2, PhasesNext DEF IInv
    <2>3. Phases => CallsDoNotCross
        BY DEF Phases, Phase, CallsDoNotCross
    <2> QED
        BY <2>1, <2>2, <2>3, Inductive, PTL DEF Spec
<1> QED
    BY <1>1, <1>2

=============================================================================
