--------------------------- MODULE SessionsProofs ---------------------------
(***************************************************************************)
(* For any number of slots, players, teams and documents: types, the       *)
(* agreement of rosters and profiles, the documents behind every save, and *)
(* as long as every disconnect ran to its end whose profile is on a slot   *)
(* and whose money it holds.                                               *)
(***************************************************************************)
EXTENDS Sessions, SequenceTheorems, WellFoundedInduction, TLAPS

\* How profiles, timers and callbacks in flight hang together: a uid names a
\* document, savers have one, a callback runs on a profile with a timer until
\* that profile is freed, and a slot without a profile has neither.
Linked ==
    \A s \in Slots :
        /\ prof[s].uid <= Len(docs)
        /\ prof[s].signedin \/ prof[s].timer => prof[s].uid # NoUid /\ prof[s].exists
        /\ saving[s].at \in {"begin", "write"} => prof[s].timer
        /\ saving[s].at \in {"write", "freed"} => saving[s].uid \in 1 .. Len(docs)

IInv == TypeOK /\ Linked /\ RosterHasProfiles

\* Arithmetic of one document more, apart from the sequence it counts.
LEMMA OneMore ==
    \A n \in Nat : /\ n + 1 >= n /\ n + 1 <= n + 1 /\ n + 1 # 0
                   /\ \A u \in Nat : u <= n => u <= n + 1
                   /\ n + 1 \in Nat
  OBVIOUS

\* findOne returns no document or the index of one.
LEMMA FindOneInRange ==
    ASSUME TypeOK, NEW n
    PROVE  FindOne(n) \in 0 .. Len(docs)
  <1> DEFINE T == {i \in 1 .. Len(docs) : docs[i].name = n}
  <1>0. Len(docs) \in Nat
    BY DEF TypeOK
  <1>1. CASE T = {}
    <2>1. FindOne(n) = 0
      BY <1>1 DEF FindOne, NoUid
    <2> QED
      BY <2>1, <1>0
  <1>2. CASE T # {}
    <2>1. T \subseteq Nat
      BY <1>0
    <2>2. PICK x \in T : \A y \in T : ~ (<<y, x>> \in OpToRel(<, Nat))
      <3> HIDE DEF T
      <3> QED
        BY <1>2, <2>1, WFMin, NatLessThanWellFounded
    <2>3. x \in 1 .. Len(docs) /\ docs[x].name = n
      BY <2>2
    <2>4. ASSUME NEW y \in T PROVE ~ (y < x)
      BY <2>1, <2>2, <2>4 DEF OpToRel
    <2>5. \A j \in 1 .. x - 1 : docs[j].name # n
      <3> SUFFICES ASSUME NEW j \in 1 .. x - 1, docs[j].name = n PROVE FALSE
        OBVIOUS
      <3>1. j \in T /\ j < x
        BY <1>0, <2>3
      <3> QED
        BY <3>1, <2>4
    <2>6. FindOne(n) \in 1 .. Len(docs)
      BY <2>3, <2>5 DEF FindOne
    <2> QED
      BY <2>6, <1>0
  <1> QED
    BY <1>1, <1>2

\* Update changes one document in place.
LEMMA WrittenOK ==
    ASSUME TypeOK, NEW p, p.uid \in 1 .. Len(docs), p.money \in Int
    PROVE  Written(p) \in Seq(Docs) /\ Len(Written(p)) = Len(docs)
  <1> DEFINE d == [docs[p.uid] EXCEPT !.money = p.money]
  <1>1. docs \in Seq(Docs) /\ docs[p.uid] \in Docs
    BY ElementOfSeq DEF TypeOK
  <1>2. d \in Docs
    BY <1>1 DEF Docs
  <1>3. Written(p) = [docs EXCEPT ![p.uid] = d]
    BY DEF Written
  <1> HIDE DEF d
  <1> QED
    BY <1>1, <1>2, <1>3, ExceptSeq

\* A registration appends one document.
LEMMA InsertOK ==
    ASSUME TypeOK, NEW s \in Slots, conn[s] # NoOne, NEW m \in Int
    PROVE  Insert(s, m) \in Seq(Docs) /\ Len(Insert(s, m)) = Len(docs) + 1
  <1>1. conn[s] \in Names
    BY DEF TypeOK
  <1>2. [name |-> conn[s], banned |-> FALSE, money |-> m] \in Docs
    BY <1>1 DEF Docs
  <1>3. docs \in Seq(Docs)
    BY DEF TypeOK
  <1> QED
    BY <1>2, <1>3, AppendProperties DEF Insert

\* The server starts with no profile, no roster entry and no callback.
LEMMA InitIInv == Init => IInv
  <1> SUFFICES ASSUME Init PROVE IInv
    OBVIOUS
  <1>1. docs \in Seq(Docs)
    BY SessionsAssumption DEF Init
  <1>2. NoProfile \in Profiles /\ NoSave \in Saves
    BY DEF NoProfile, Profiles, NoUid, NotLoaded, NoSave, Saves
  <1>3. TypeOK
    <2>1. prof \in [Slots -> Profiles] /\ saving \in [Slots -> Saves]
      BY <1>2 DEF Init
    <2>2. /\ conn \in [Slots -> Names \cup {NoOne}]
          /\ dlg \in [Slots -> Dialogs]
          /\ loaded \in SUBSET Teams
          /\ online \in [Teams -> SUBSET Slots]
          /\ earned \in [Names -> Nat]
      BY DEF Init, Dialogs
    <2>3. unclean \in BOOLEAN
      BY DEF Init
    <2> QED
      BY <1>1, <2>1, <2>2, <2>3 DEF TypeOK
  <1>4. Linked
    <2>1. Len(docs) \in Nat
      BY <1>1
    <2>2. \A s \in Slots : /\ prof[s].uid = 0 /\ ~ prof[s].signedin
                           /\ ~ prof[s].timer /\ saving[s].at = "none"
      BY DEF Init, NoProfile, NoSave, NoUid
    <2>3. \A s \in Slots : ~ (saving[s].at \in {"begin", "write"})
                           /\ ~ (saving[s].at \in {"write", "freed"})
      BY <2>2
    <2>4. \A s \in Slots : prof[s].uid <= Len(docs)
      <3>1. \A n \in Nat : 0 <= n
        OBVIOUS
      <3> QED
        BY <2>1, <2>2, <3>1, Zenon
    <2> QED
      BY <2>2, <2>3, <2>4, Zenon DEF Linked
  <1>5. RosterHasProfiles
    BY DEF Init, RosterHasProfiles
  <1> QED
    BY <1>3, <1>4, <1>5 DEF IInv

\* Replacing one profile by another that keeps the links keeps them all.
LEMMA ProfileStep ==
    ASSUME IInv, NEW s \in Slots, NEW q \in Profiles,
           prof' = [prof EXCEPT ![s] = q],
           docs' \in Seq(Docs), Len(docs') >= Len(docs), saving' = saving,
           q.uid <= Len(docs'),
           q.signedin \/ q.timer => q.uid # NoUid /\ q.exists,
           prof[s].timer => q.timer
    PROVE  prof' \in [Slots -> Profiles] /\ Linked'
  <1>1. Len(docs) \in Nat /\ Len(docs') \in Nat
    BY DEF IInv, TypeOK
  <1>2. \A r \in Slots : prof[r].uid \in Nat /\ saving[r].uid \in Nat /\ q.uid \in Nat
    BY DEF IInv, TypeOK, Profiles, Saves
  <1>3. prof' \in [Slots -> Profiles] /\ prof'[s] = q
        /\ \A r \in Slots : r # s => prof'[r] = prof[r]
    BY DEF IInv, TypeOK
  <1> QED
    BY <1>1, <1>2, <1>3 DEF IInv, Linked, NoUid

\* A step that leaves the rosters, and each profile's existence and team,
\* alone.
LEMMA RosterFrame ==
    ASSUME IInv, online' = online,
           \A s \in Slots : prof'[s].exists = prof[s].exists /\ prof'[s].team = prof[s].team
    PROVE  RosterHasProfiles'
  BY DEF IInv, TypeOK, RosterHasProfiles

\* A step that leaves profiles and callbacks alone.
LEMMA LinkedFrame ==
    ASSUME IInv, prof' = prof, saving' = saving, docs' \in Seq(Docs), Len(docs') >= Len(docs)
    PROVE  Linked'
  <1>1. Len(docs) \in Nat /\ Len(docs') \in Nat
    BY DEF IInv, TypeOK
  <1>2. \A r \in Slots : prof[r].uid \in Nat /\ saving[r].uid \in Nat
    BY DEF IInv, TypeOK, Profiles, Saves
  <1> QED
    BY <1>1, <1>2 DEF IInv, Linked

\* Destroying a profile hands its bytes to the callback that runs on it.
LEMMA FreeStep ==
    ASSUME IInv, NEW s \in Slots, prof' = [prof EXCEPT ![s] = NoProfile],
           docs' \in Seq(Docs), Len(docs') >= Len(docs), saving' = FreeSave(s)
    PROVE  saving' \in [Slots -> Saves] /\ prof' \in [Slots -> Profiles] /\ Linked'
  <1>1. Len(docs) \in Nat /\ Len(docs') \in Nat
    BY DEF IInv, TypeOK
  <1>2. \A r \in Slots : /\ prof[r].uid \in Nat /\ prof[r].money \in Int
                         /\ saving[r] \in Saves /\ saving[r].uid \in Nat /\ saving[r].money \in Int
    BY DEF IInv, TypeOK, Profiles, Saves
  <1>3. NoProfile \in Profiles
    BY DEF NoProfile, Profiles, NoUid, NotLoaded
  <1>4. /\ prof' \in [Slots -> Profiles] /\ prof'[s] = NoProfile
        /\ \A r \in Slots : r # s => prof'[r] = prof[r]
    BY <1>3 DEF IInv, TypeOK
  <1>5. CASE saving[s].at \in {"none", "freed"}
    <2>1. saving' = saving
      BY <1>5 DEF FreeSave
    <2> QED
      BY <1>1, <1>2, <1>4, <1>5, <2>1 DEF IInv, TypeOK, Linked, NoProfile, NoUid
  <1>6. CASE saving[s].at \notin {"none", "freed"}
    <2> DEFINE v == [at |-> "freed", uid |-> prof[s].uid,
                     money |-> IF saving[s].at = "write" THEN saving[s].money ELSE prof[s].money]
    <2>1. saving' = [saving EXCEPT ![s] = v]
      BY <1>6 DEF FreeSave
    <2>2. v \in Saves /\ v.at = "freed" /\ v.uid = prof[s].uid
      BY <1>2 DEF Saves
    <2> HIDE DEF v
    <2>3. /\ saving' \in [Slots -> Saves] /\ saving'[s] = v
          /\ \A r \in Slots : r # s => saving'[r] = saving[r]
      BY <2>1, <2>2 DEF IInv, TypeOK
    <2>4. saving[s].at \in {"begin", "write"}
      BY <1>2, <1>6 DEF Saves
    <2>5. prof[s].uid \in 1 .. Len(docs)
      BY <1>1, <1>2, <2>4 DEF IInv, Linked, NoUid
    <2>6. Linked'
      BY <1>1, <1>2, <1>4, <2>2, <2>3, <2>5 DEF IInv, Linked, NoProfile, NoUid
    <2> QED
      BY <1>4, <2>3, <2>6
  <1> QED
    BY <1>5, <1>6

\* Connecting: the slot's profile is created, or the one found there is kept.
LEMMA ConnectKeeps ==
    ASSUME IInv, NEW s \in Slots, NEW n \in Names, OnPlayerConnect(s, n)
    PROVE  IInv'
  <1> DEFINE q == ConnectedProfile(s, n)
  <1>1. Len(docs) \in Nat /\ docs \in Seq(Docs)
    BY DEF IInv, TypeOK
  <1>2. FindOne(n) \in 0 .. Len(docs)
    BY FindOneInRange DEF IInv
  <1>3. FindOne(n) # NoUid => docs[FindOne(n)].money \in Int
    <2> SUFFICES ASSUME FindOne(n) # NoUid PROVE docs[FindOne(n)].money \in Int
      OBVIOUS
    <2>1. FindOne(n) \in 1 .. Len(docs)
      BY <1>1, <1>2 DEF NoUid
    <2>2. docs[FindOne(n)] \in Docs
      BY <1>1, <2>1, ElementOfSeq
    <2> QED
      BY <2>2 DEF Docs
  <1>4. NewProfile(n) \in Profiles
    BY <1>1, <1>2, <1>3 DEF NewProfile, Profiles, NotLoaded
  <1>5. q \in Profiles
    BY <1>4 DEF ConnectedProfile, IInv, TypeOK, Profiles
  <1>6. /\ prof[s].exists => /\ q.exists /\ q.uid = prof[s].uid /\ q.team = prof[s].team
                             /\ (q.timer <=> prof[s].timer) /\ ~ q.signedin
        /\ ~ prof[s].exists => /\ q.exists /\ q.uid = FindOne(n) /\ q.team = NoTeam
                               /\ ~ q.timer /\ ~ q.signedin
    BY DEF ConnectedProfile, NewProfile, IInv, TypeOK, Profiles
  <1>7. /\ q.uid <= Len(docs)
        /\ q.timer => q.uid # NoUid
        /\ prof[s].timer => q.timer
    BY <1>1, <1>2, <1>6 DEF IInv, Linked
  <1>8. /\ prof' = [prof EXCEPT ![s] = q] /\ docs' = docs /\ saving' = saving /\ online' = online
    BY DEF OnPlayerConnect
  <1>9. Greeting(q) \in Dialogs
    BY DEF Greeting, Dialogs
  <1> HIDE DEF q
  <1>10. prof' \in [Slots -> Profiles] /\ Linked'
    <2>1. q.signedin \/ q.timer => q.uid # NoUid /\ q.exists
      BY <1>6, <1>7
    <2>2. docs' \in Seq(Docs) /\ Len(docs') >= Len(docs) /\ q.uid <= Len(docs')
      BY <1>1, <1>7, <1>8
    <2>3. prof[s].timer => q.timer
      BY <1>7
    <2> QED
      BY <1>5, <1>8, <2>1, <2>2, <2>3, ProfileStep
  <1>11. TypeOK'
    <2>1. conn' \in [Slots -> Names \cup {NoOne}] /\ dlg' \in [Slots -> Dialogs]
      BY <1>9 DEF IInv, TypeOK, OnPlayerConnect, q
    <2> QED
      BY <2>1, <1>8, <1>10 DEF IInv, TypeOK, OnPlayerConnect
  <1>12. RosterHasProfiles'
    <2>1. ASSUME NEW t \in Teams, NEW r \in online[t]
          PROVE  prof'[r].exists /\ prof'[r].team = t
      <3>1. r \in Slots /\ prof[r].exists /\ prof[r].team = t
        BY DEF IInv, TypeOK, RosterHasProfiles
      <3>2. CASE r = s
        BY <1>6, <1>8, <3>1, <3>2 DEF IInv, TypeOK
      <3>3. CASE r # s
        BY <1>8, <3>1, <3>3 DEF IInv, TypeOK
      <3> QED
        BY <3>2, <3>3
    <2> QED
      BY <1>8, <2>1 DEF RosterHasProfiles
  <1> QED
    BY <1>10, <1>11, <1>12 DEF IInv

\* Disconnecting, in each of its outcomes.
LEMMA DisconnectKeeps ==
    ASSUME IInv, NEW s \in Slots, NEW timeout \in BOOLEAN,
           \/ OnPlayerDisconnect(s, timeout)
           \/ OnPlayerDisconnectSyncFails(s)
           \/ OnPlayerDisconnectQuitFails(s, timeout)
           \/ OnPlayerDisconnectNoProfile(s)
    PROVE  IInv'
  <1>0. Len(docs) \in Nat /\ docs \in Seq(Docs) /\ prof[s] \in Profiles
    BY DEF IInv, TypeOK
  <1>1. prof[s].signedin =>
           /\ prof[s].uid \in 1 .. Len(docs)
           /\ Written(prof[s]) \in Seq(Docs) /\ Len(Written(prof[s])) = Len(docs)
    <2>1. prof[s].signedin => prof[s].uid \in 1 .. Len(docs)
      BY <1>0 DEF IInv, Linked, NoUid, Profiles
    <2>2. prof[s].money \in Int
      BY <1>0 DEF Profiles
    <2> QED
      BY <2>1, <2>2, WrittenOK DEF IInv
  <1>2. docs' \in Seq(Docs) /\ Len(docs') = Len(docs) /\ Len(docs') >= Len(docs)
    BY <1>0, <1>1 DEF OnPlayerDisconnect, OnPlayerDisconnectSyncFails, SyncsOnLeave,
       OnPlayerDisconnectQuitFails, OnPlayerDisconnectNoProfile
  <1>3. /\ conn' \in [Slots -> Names \cup {NoOne}] /\ dlg' \in [Slots -> Dialogs]
        /\ loaded' \in SUBSET Teams /\ earned' \in [Names -> Nat]
    BY DEF IInv, TypeOK, Leaves, OnPlayerDisconnect, OnPlayerDisconnectSyncFails,
       OnPlayerDisconnectQuitFails, OnPlayerDisconnectNoProfile, Dialogs
  <1>4. unclean' \in BOOLEAN
    BY DEF IInv, TypeOK, OnPlayerDisconnect, OnPlayerDisconnectSyncFails,
       OnPlayerDisconnectQuitFails, OnPlayerDisconnectNoProfile
  <1>5. CASE OnPlayerDisconnect(s, timeout)
    <2>1. saving' \in [Slots -> Saves] /\ prof' \in [Slots -> Profiles] /\ Linked'
      BY <1>2, <1>5, FreeStep DEF OnPlayerDisconnect
    <2>2. online' \in [Teams -> SUBSET Slots]
      BY <1>5 DEF OnPlayerDisconnect, IInv, TypeOK
    <2>3. RosterHasProfiles'
      <3> SUFFICES ASSUME NEW t \in Teams, NEW r \in online'[t]
                   PROVE  prof'[r].exists /\ prof'[r].team = t
        BY DEF RosterHasProfiles
      <3>1. r \in online[t] /\ (t = prof[s].team => r # s)
        BY <1>5 DEF OnPlayerDisconnect
      <3>2. r \in Slots /\ prof[r].exists /\ prof[r].team = t
        BY <3>1 DEF IInv, TypeOK, RosterHasProfiles
      <3>3. r # s
        BY <3>1, <3>2
      <3> QED
        BY <1>5, <3>2, <3>3 DEF OnPlayerDisconnect, IInv, TypeOK
    <2> QED
      BY <1>2, <1>3, <1>4, <2>1, <2>2, <2>3 DEF IInv, TypeOK
  <1>6. CASE OnPlayerDisconnectSyncFails(s) \/ OnPlayerDisconnectNoProfile(s)
    <2>1. prof' = prof /\ saving' = saving /\ online' = online
      BY <1>6 DEF OnPlayerDisconnectSyncFails, OnPlayerDisconnectNoProfile
    <2>2. Linked' /\ RosterHasProfiles'
      BY <1>2, <2>1, LinkedFrame, RosterFrame
    <2> QED
      BY <1>2, <1>3, <1>4, <2>1, <2>2 DEF IInv, TypeOK
  <1>7. CASE OnPlayerDisconnectQuitFails(s, timeout)
    <2> DEFINE q == [prof[s] EXCEPT !.archive =
                        IF ~ timeout /\ prof[s].signedin THEN prof[s].money ELSE @]
    <2>1. q \in Profiles /\ q.uid = prof[s].uid /\ q.signedin = prof[s].signedin
          /\ q.timer = prof[s].timer /\ q.exists = prof[s].exists /\ q.team = prof[s].team
      BY <1>0 DEF Profiles
    <2>2. prof' = [prof EXCEPT ![s] = q] /\ saving' = saving /\ online' = online
      BY <1>7 DEF OnPlayerDisconnectQuitFails
    <2> HIDE DEF q
    <2>3. prof' \in [Slots -> Profiles] /\ Linked'
      <3>1. q.uid <= Len(docs') /\ (q.signedin \/ q.timer => q.uid # NoUid /\ q.exists)
        BY <1>2, <2>1 DEF IInv, Linked
      <3> QED
        BY <1>2, <2>1, <2>2, <3>1, ProfileStep
    <2>4. RosterHasProfiles'
      BY <2>1, <2>2, RosterFrame DEF IInv, TypeOK
    <2> QED
      BY <1>2, <1>3, <1>4, <2>2, <2>3, <2>4 DEF IInv, TypeOK
  <1> QED
    BY <1>5, <1>6, <1>7

\* A main-thread step that replaces the profile of one slot, may change the
\* documents and that slot's dialog, and leaves the roster alone.
LEMMA OwnProfileKeeps ==
    ASSUME IInv, NEW s \in Slots, NEW q \in Profiles, NEW d \in Dialogs,
           prof' = [prof EXCEPT ![s] = q], dlg' = [dlg EXCEPT ![s] = d],
           docs' \in Seq(Docs), Len(docs') >= Len(docs),
           earned' \in [Names -> Nat],
           UNCHANGED <<conn, loaded, online, saving, unclean>>,
           q.uid <= Len(docs'),
           q.signedin \/ q.timer => q.uid # NoUid /\ q.exists,
           prof[s].timer => q.timer,
           q.exists = prof[s].exists, q.team = prof[s].team
    PROVE  IInv'
  <1>1. prof' \in [Slots -> Profiles] /\ Linked'
    BY ProfileStep
  <1>2. dlg' \in [Slots -> Dialogs]
    BY DEF IInv, TypeOK
  <1>3. TypeOK'
    BY <1>1, <1>2 DEF IInv, TypeOK
  <1>4. RosterHasProfiles'
    BY RosterFrame DEF IInv, TypeOK
  <1> QED
    BY <1>1, <1>3, <1>4 DEF IInv

\* Registration, complete or failing on the way.
LEMMA RegisterKeeps ==
    ASSUME IInv, NEW s \in Slots, Register(s) \/ RegisterFails(s)
    PROVE  IInv'
  <1>0. /\ Len(docs) \in Nat /\ docs \in Seq(Docs) /\ prof[s] \in Profiles
        /\ conn[s] # NoOne /\ NoAttribute \in Int /\ prof[s].money \in Int
        /\ dlg[s] \in Dialogs /\ prof[s].exists
    BY DEF IInv, TypeOK, Register, RegisterFails, Responds, NoAttribute, Profiles
  <1>1. \A m \in Int : Insert(s, m) \in Seq(Docs) /\ Len(Insert(s, m)) = Len(docs) + 1
    BY <1>0, InsertOK DEF IInv
  <1>2. CASE Register(s)
    <2> DEFINE u == Len(docs) + 1
               q == SignIn([prof[s] EXCEPT !.uid = u, !.read = TRUE,
                                           !.archive = prof[s].money])
    <2>1. /\ q \in Profiles /\ q.uid = Len(docs) + 1 /\ q.exists = prof[s].exists
          /\ q.team = prof[s].team /\ q.timer
      <3>1. u \in Nat
        BY <1>0, OneMore, Zenon
      <3> HIDE DEF u
      <3>2. /\ q \in Profiles /\ q.uid = u /\ q.exists = prof[s].exists
            /\ q.team = prof[s].team /\ q.timer
        BY <1>0, <3>1 DEF SignIn, Profiles
      <3> QED
        BY <3>2 DEF u
    <2>2. prof' = [prof EXCEPT ![s] = q] /\ dlg' = [dlg EXCEPT ![s] = "none"]
      BY <1>2 DEF Register
    <2>3. docs' \in Seq(Docs) /\ Len(docs') = Len(docs) + 1
      BY <1>0, <1>1, <1>2 DEF Register
    <2>4. earned' \in [Names -> Nat] /\ UNCHANGED <<conn, loaded, online, saving, unclean>>
      BY <1>2 DEF Register, IInv, TypeOK
    <2>5. "none" \in Dialogs
      BY DEF Dialogs
    <2> HIDE DEF q
    <2>6. /\ Len(docs') >= Len(docs) /\ q.uid <= Len(docs') /\ q.uid # NoUid
      BY <1>0, <2>1, <2>3, OneMore, Zenon DEF NoUid
    <2> QED
      BY <1>0, <2>1, <2>2, <2>3, <2>4, <2>5, <2>6, OwnProfileKeeps
  <1>3. CASE RegisterFails(s)
    <2>1. PICK at \in {"error", "refetch", "sync", "reread"} :
             /\ docs' = Insert(s, IF at = "reread" THEN prof[s].money ELSE NoAttribute)
             /\ prof' = [prof EXCEPT ![s].uid = IF at = "error" THEN @ ELSE Len(docs) + 1,
                                     ![s].read = at \in {"sync", "reread"}]
      BY <1>3 DEF RegisterFails
    <2> DEFINE u == IF at = "error" THEN prof[s].uid ELSE Len(docs) + 1
               b == at \in {"sync", "reread"}
               q == [prof[s] EXCEPT !.uid = u, !.read = b]
    <2>2. /\ q \in Profiles /\ q.exists = prof[s].exists /\ q.team = prof[s].team
          /\ (q.timer <=> prof[s].timer) /\ (q.signedin <=> prof[s].signedin)
          /\ q.uid = IF at = "error" THEN prof[s].uid ELSE Len(docs) + 1
      <3>1. u \in Nat
        <4>1. prof[s].uid \in Nat
          BY <1>0 DEF Profiles
        <4> QED
          BY <1>0, <4>1, OneMore, Zenon
      <3>3. b \in BOOLEAN
        OBVIOUS
      <3> HIDE DEF u, b
      <3>2. /\ q \in Profiles /\ q.exists = prof[s].exists /\ q.team = prof[s].team
            /\ (q.timer <=> prof[s].timer) /\ (q.signedin <=> prof[s].signedin)
            /\ q.uid = u
        BY <1>0, <3>1, <3>3 DEF Profiles
      <3> QED
        BY <3>2 DEF u
    <2>3. prof' = [prof EXCEPT ![s] = q] /\ dlg' = [dlg EXCEPT ![s] = dlg[s]]
      BY <1>3, <2>1 DEF RegisterFails, IInv, TypeOK
    <2>4. docs' \in Seq(Docs) /\ Len(docs') = Len(docs) + 1
      BY <1>0, <1>1, <2>1
    <2>5. earned' \in [Names -> Nat] /\ UNCHANGED <<conn, loaded, online, saving, unclean>>
      BY <1>3 DEF RegisterFails, IInv, TypeOK
    <2> HIDE DEF q
    <2>6. prof[s].uid \in Nat /\ prof[s].uid <= Len(docs)
          /\ (prof[s].signedin \/ prof[s].timer => prof[s].uid # NoUid)
      BY <1>0 DEF IInv, Linked, Profiles
    <2>7. /\ Len(docs') >= Len(docs) /\ q.uid <= Len(docs')
          /\ (q.signedin \/ q.timer => q.uid # NoUid)
      <3>1. Len(docs') >= Len(docs)
        BY <1>0, <2>4, OneMore, Zenon
      <3>2. CASE at = "error"
        <4>1. q.uid = prof[s].uid
          BY <2>2, <3>2
        <4> QED
          BY <1>0, <2>2, <2>4, <2>6, <3>1, <4>1, OneMore, Zenon
      <3>3. CASE at # "error"
        <4>1. q.uid = Len(docs) + 1
          BY <2>2, <3>3
        <4> QED
          BY <1>0, <2>4, <3>1, <4>1, OneMore, Zenon DEF NoUid
      <3> QED
        BY <3>2, <3>3
    <2> QED
      BY <1>0, <2>2, <2>3, <2>4, <2>5, <2>7, OwnProfileKeeps
  <1> QED
    BY <1>2, <1>3

\* Logging in and money given or taken change only the profile.
LEMMA LoginKeeps ==
    ASSUME IInv, NEW s \in Slots, Login(s) \/ Earn(s) \/ Spend(s)
    PROVE  IInv'
  <1>0. /\ Len(docs) \in Nat /\ docs \in Seq(Docs) /\ prof[s] \in Profiles
        /\ dlg[s] \in Dialogs /\ "none" \in Dialogs /\ prof[s].exists
        /\ docs' = docs /\ UNCHANGED <<conn, loaded, online, saving, unclean>>
    BY DEF IInv, TypeOK, Login, Earn, Spend, Responds, Dialogs
  <1>1. /\ prof[s].uid <= Len(docs)
        /\ prof[s].signedin \/ prof[s].timer => prof[s].uid # NoUid
    BY DEF IInv, Linked
  <1>2. Len(docs') >= Len(docs) /\ docs' \in Seq(Docs)
    <2>1. \A n \in Nat : n >= n
      OBVIOUS
    <2> QED
      BY <1>0, <2>1, Zenon
  <1>3. CASE Login(s)
    <2> DEFINE m == ApplyDataToPlayer(prof[s])
               q == SignIn([prof[s] EXCEPT !.money = m])
    <2>1. m \in Int
      BY <1>0 DEF ApplyDataToPlayer, Profiles
    <2>2. prof' = [prof EXCEPT ![s] = q] /\ dlg' = [dlg EXCEPT ![s] = "none"]
          /\ earned' \in [Names -> Nat]
      BY <1>3 DEF Login, IInv, TypeOK
    <2> HIDE DEF m
    <2>3. /\ q \in Profiles /\ q.uid = prof[s].uid /\ q.exists = prof[s].exists
          /\ q.team = prof[s].team /\ q.timer
      BY <1>0, <2>1 DEF SignIn, Profiles
    <2>4. q.uid # NoUid
      BY <1>3, <2>3 DEF Login
    <2> HIDE DEF q
    <2> QED
      BY <1>0, <1>1, <1>2, <2>2, <2>3, <2>4, OwnProfileKeeps
  <1>4. CASE Earn(s) \/ Spend(s)
    <2>1. PICK m \in Int : prof' = [prof EXCEPT ![s].money = m]
      <3>1. prof[s].money + 1 \in Int /\ prof[s].money - 1 \in Int
        BY <1>0 DEF Profiles
      <3> QED
        BY <1>4, <3>1 DEF Earn, Spend
    <2> DEFINE q == [prof[s] EXCEPT !.money = m]
    <2>2. prof' = [prof EXCEPT ![s] = q] /\ dlg' = [dlg EXCEPT ![s] = dlg[s]]
      BY <1>4, <2>1 DEF Earn, Spend, IInv, TypeOK
    <2>3. earned' \in [Names -> Nat]
      BY <1>4 DEF Earn, Spend, IInv, TypeOK
    <2>4. /\ q \in Profiles /\ q.uid = prof[s].uid /\ q.exists = prof[s].exists
          /\ q.team = prof[s].team
          /\ (q.timer <=> prof[s].timer) /\ (q.signedin <=> prof[s].signedin)
      BY <1>0 DEF Profiles
    <2> HIDE DEF q
    <2> QED
      BY <1>0, <1>1, <1>2, <2>2, <2>3, <2>4, OwnProfileKeeps
  <1> QED
    BY <1>3, <1>4

\* A step of the dialogs that leaves profiles, rosters and callbacks alone
\* and saves at most the asking profile.
LEMMA DialogKeeps ==
    ASSUME IInv, UNCHANGED <<conn, prof, loaded, online, saving, earned, unclean>>,
           dlg' \in [Slots -> Dialogs], docs' \in Seq(Docs), Len(docs') = Len(docs)
    PROVE  IInv'
  <1>1. Len(docs') >= Len(docs)
    <2>1. Len(docs) \in Nat /\ \A n \in Nat : n >= n
      BY DEF IInv, TypeOK
    <2> QED
      BY <2>1, Zenon
  <1>2. Linked' /\ RosterHasProfiles'
    BY <1>1, LinkedFrame, RosterFrame
  <1> QED
    BY <1>2 DEF IInv, TypeOK

\* Settings -> synchronise.
LEMMA SettingSyncKeeps ==
    ASSUME IInv, NEW s \in Slots, SettingSync(s) \/ SettingSyncFails(s)
    PROVE  IInv'
  <1>0. /\ Len(docs) \in Nat /\ docs \in Seq(Docs) /\ prof[s] \in Profiles
        /\ prof[s].uid \in Nat /\ prof[s].money \in Int /\ "none" \in Dialogs
        /\ prof[s].uid <= Len(docs)
    BY DEF IInv, TypeOK, Linked, Profiles, Dialogs
  <1>1. prof[s].uid # NoUid =>
           Written(prof[s]) \in Seq(Docs) /\ Len(Written(prof[s])) = Len(docs)
    <2>1. prof[s].uid # NoUid => prof[s].uid \in 1 .. Len(docs)
      BY <1>0 DEF NoUid
    <2> QED
      BY <1>0, <2>1, WrittenOK DEF IInv
  <1>2. docs' \in Seq(Docs) /\ Len(docs') = Len(docs)
    BY <1>0, <1>1 DEF SettingSync, SettingSyncFails
  <1>3. dlg' = [dlg EXCEPT ![s] = "none"] /\ dlg' \in [Slots -> Dialogs]
    BY <1>0 DEF SettingSync, SettingSyncFails, IInv, TypeOK
  <1>4. CASE SettingSyncFails(s)
    BY <1>2, <1>3, <1>4, DialogKeeps DEF SettingSyncFails
  <1>5. CASE SettingSync(s)
    <2> DEFINE q == [prof[s] EXCEPT !.archive = prof[s].money, !.read = TRUE]
    <2>1. prof' = [prof EXCEPT ![s] = q]
          /\ UNCHANGED <<conn, loaded, online, saving, unclean>> /\ earned' \in [Names -> Nat]
      BY <1>5 DEF SettingSync, IInv, TypeOK
    <2>2. /\ q \in Profiles /\ q.uid = prof[s].uid /\ q.exists = prof[s].exists
          /\ q.team = prof[s].team
          /\ (q.timer <=> prof[s].timer) /\ (q.signedin <=> prof[s].signedin)
      BY <1>0 DEF Profiles
    <2> HIDE DEF q
    <2>3. q.uid # NoUid /\ prof[s].exists
      BY <1>5, <2>2 DEF SettingSync, Responds
    <2>4. Len(docs') >= Len(docs) /\ q.uid <= Len(docs')
      <3>1. \A n \in Nat : n >= n
        OBVIOUS
      <3> QED
        BY <1>0, <1>2, <2>2, <3>1, Zenon
    <2> QED
      BY <1>0, <1>2, <1>3, <2>1, <2>2, <2>3, <2>4, OwnProfileKeeps
  <1> QED
    BY <1>4, <1>5

\* Changing teams moves the slot from one roster to the other, or fails and
\* leaves both as they were or the player without a team.
LEMMA TeamSelectKeeps ==
    ASSUME IInv, NEW s \in Slots, NEW t \in Teams, TeamSelect(s, t)
    PROVE  IInv'
  <1> DEFINE was == prof[s].team
             quits == was # t /\ was # NoTeam /\ CanQuit(s)
             joins == was # t /\ (was = NoTeam \/ CanQuit(s)) /\ CanJoin(s, t)
             team == IF joins THEN t ELSE IF quits THEN NoTeam ELSE was
             q == [prof[s] EXCEPT !.team = team]
  <1>0. /\ Len(docs) \in Nat /\ docs \in Seq(Docs) /\ prof[s] \in Profiles
        /\ was \in Teams \cup {NoTeam} /\ prof[s].exists
    BY DEF IInv, TypeOK, Profiles, TeamSelect, Responds
  <1>1. /\ online' = [u \in Teams |->
                        (IF quits /\ u = was THEN online[u] \ {s} ELSE online[u])
                           \cup (IF joins /\ u = t THEN {s} ELSE {})]
        /\ prof' = [prof EXCEPT ![s] = q]
        /\ dlg' = [dlg EXCEPT ![s] = IF joins \/ was = t THEN "other" ELSE "none"]
        /\ UNCHANGED <<conn, docs, loaded, saving, earned, unclean>>
    BY DEF TeamSelect
  <1>2. /\ q \in Profiles /\ q.uid = prof[s].uid /\ q.exists /\ q.team = team
        /\ (q.timer <=> prof[s].timer) /\ (q.signedin <=> prof[s].signedin)
    BY <1>0 DEF Profiles
  <1>3. dlg' \in [Slots -> Dialogs] /\ online' \in [Teams -> SUBSET Slots]
    BY <1>1 DEF IInv, TypeOK, Dialogs
  <1>4. /\ prof' \in [Slots -> Profiles] /\ prof'[s] = q
        /\ \A r \in Slots : r # s => prof'[r] = prof[r]
    <2> HIDE DEF q
    <2> QED
      BY <1>1, <1>2 DEF IInv, TypeOK
  <1>5. Linked'
    <2>1. /\ prof[s].uid <= Len(docs)
          /\ prof[s].signedin \/ prof[s].timer => prof[s].uid # NoUid
      BY DEF IInv, Linked
    <2>2. docs' \in Seq(Docs) /\ Len(docs') >= Len(docs) /\ q.uid <= Len(docs')
      <3>1. \A n \in Nat : n >= n
        OBVIOUS
      <3> QED
        BY <1>0, <1>1, <1>2, <2>1, <3>1, Zenon
    <2> HIDE DEF q
    <2> QED
      BY <1>1, <1>2, <2>1, <2>2, ProfileStep
  <1>6. RosterHasProfiles'
    <2> SUFFICES ASSUME NEW u \in Teams, NEW r \in online'[u]
                 PROVE  prof'[r].exists /\ prof'[r].team = u
      BY DEF RosterHasProfiles
    <2>1. r \in Slots
      BY <1>3
    <2>2. \/ r \in online[u] /\ ~ (quits /\ u = was /\ r = s)
          \/ joins /\ u = t /\ r = s
      BY <1>1
    <2>3. r \in online[u] => prof[r].exists /\ prof[r].team = u
      BY DEF IInv, RosterHasProfiles
    <2>4. CASE r # s
      BY <1>4, <2>1, <2>2, <2>3, <2>4
    <2>5. CASE r = s /\ joins /\ u = t
      BY <1>2, <1>4, <2>5
    <2>6. CASE r = s /\ ~ (joins /\ u = t)
      <3>1. r \in online[u] /\ was = u /\ ~ quits
        BY <2>2, <2>3, <2>6
      <3>2. u # NoTeam
        BY SessionsAssumption
      <3>3. ~ joins
        BY <2>6, <3>1, <3>2 DEF CanJoin
      <3> QED
        BY <1>2, <1>4, <2>6, <3>1, <3>3
    <2> QED
      BY <2>4, <2>5, <2>6, <2>2
  <1> QED
    BY <1>1, <1>3, <1>4, <1>5, <1>6 DEF IInv, TypeOK

\* The steps of the autosave callback.
LEMMA AutoSaveKeeps ==
    ASSUME IInv, NEW s \in Slots,
           AutoSaveBegin(s) \/ AutoSaveRead(s) \/ AutoSaveWrite(s) \/ AutoSaveFreed(s)
    PROVE  IInv'
  <1>0. /\ Len(docs) \in Nat /\ docs \in Seq(Docs) /\ prof[s] \in Profiles
        /\ saving[s] \in Saves /\ NoSave \in Saves
        /\ prof[s].uid \in Nat /\ prof[s].money \in Int
        /\ saving[s].uid \in Nat /\ saving[s].money \in Int
    BY DEF IInv, TypeOK, Profiles, Saves, NoSave, NoUid
  <1>1. /\ prof[s].uid <= Len(docs)
        /\ prof[s].signedin \/ prof[s].timer => prof[s].uid # NoUid /\ prof[s].exists
        /\ saving[s].at \in {"begin", "write"} => prof[s].timer
        /\ saving[s].at \in {"write", "freed"} => saving[s].uid \in 1 .. Len(docs)
    BY DEF IInv, Linked
  <1>2. CASE AutoSaveBegin(s) \/ AutoSaveRead(s)
    <2>1. PICK v \in Saves :
             /\ saving' = [saving EXCEPT ![s] = v]
             /\ v.at \in {"begin", "write"}
             /\ v.at = "write" => v.uid = prof[s].uid
      <3>1. CASE AutoSaveBegin(s)
        <4> DEFINE v == [saving[s] EXCEPT !.at = "begin"]
        <4>1. v \in Saves /\ v.at = "begin"
          BY <1>0 DEF Saves
        <4>2. saving' = [saving EXCEPT ![s] = v]
          BY <3>1 DEF AutoSaveBegin
        <4> HIDE DEF v
        <4>3. v.at \in {"begin", "write"} /\ v.at # "write"
          BY <4>1
        <4> QED
          BY <4>1, <4>2, <4>3
      <3>2. CASE AutoSaveRead(s)
        <4> DEFINE v == [at |-> "write", uid |-> prof[s].uid, money |-> prof[s].money]
        <4>1. v \in Saves /\ v.at = "write" /\ v.uid = prof[s].uid
          BY <1>0 DEF Saves
        <4>2. saving' = [saving EXCEPT ![s] = v]
          BY <3>2 DEF AutoSaveRead
        <4> HIDE DEF v
        <4> QED
          BY <4>1, <4>2
      <3> QED
        BY <1>2, <3>1, <3>2
    <2>2. prof[s].timer
      BY <1>1, <1>2 DEF AutoSaveBegin, AutoSaveRead
    <2>3. prof[s].uid \in 1 .. Len(docs)
      BY <1>0, <1>1, <2>2 DEF NoUid
    <2>4. UNCHANGED <<conn, prof, docs, dlg, loaded, online, earned, unclean>>
      BY <1>2 DEF AutoSaveBegin, AutoSaveRead
    <2>5. /\ saving' \in [Slots -> Saves] /\ saving'[s] = v
          /\ \A r \in Slots : r # s => saving'[r] = saving[r]
      BY <2>1 DEF IInv, TypeOK
    <2>6. v.at # "freed"
      BY <2>1
    <2>7. Linked'
      BY <2>1, <2>2, <2>3, <2>4, <2>5, <2>6 DEF IInv, Linked
    <2>8. RosterHasProfiles'
      BY <2>4 DEF IInv, RosterHasProfiles
    <2> QED
      BY <2>4, <2>5, <2>7, <2>8 DEF IInv, TypeOK
  <1>3. CASE AutoSaveWrite(s) \/ AutoSaveFreed(s)
    <2>1. saving[s].uid \in 1 .. Len(docs)
      BY <1>1, <1>3 DEF AutoSaveWrite, AutoSaveFreed
    <2>2. Written(saving[s]) \in Seq(Docs) /\ Len(Written(saving[s])) = Len(docs)
      BY <1>0, <2>1, WrittenOK DEF IInv
    <2>3. docs' \in Seq(Docs) /\ Len(docs') = Len(docs)
      BY <1>0, <1>3, <2>2 DEF AutoSaveWrite, AutoSaveFreed
    <2>4. /\ UNCHANGED <<conn, dlg, loaded, online, earned, unclean>>
          /\ saving' = [saving EXCEPT ![s] = NoSave]
      BY <1>3 DEF AutoSaveWrite, AutoSaveFreed
    <2>5. /\ saving' \in [Slots -> Saves] /\ saving'[s].at = "none"
          /\ \A r \in Slots : r # s => saving'[r] = saving[r]
      BY <1>0, <2>4 DEF IInv, TypeOK, NoSave
    <2>6. /\ prof' \in [Slots -> Profiles]
          /\ \A r \in Slots : /\ prof'[r].uid = prof[r].uid
                              /\ prof'[r].exists = prof[r].exists
                              /\ prof'[r].team = prof[r].team
                              /\ (prof'[r].timer <=> prof[r].timer)
                              /\ (prof'[r].signedin <=> prof[r].signedin)
      <3>1. CASE AutoSaveFreed(s)
        BY <3>1 DEF AutoSaveFreed, IInv, TypeOK
      <3>2. CASE AutoSaveWrite(s)
        <4> DEFINE q == [prof[s] EXCEPT !.archive = saving[s].money, !.read = TRUE]
        <4>1. /\ q \in Profiles /\ q.uid = prof[s].uid /\ q.exists = prof[s].exists
              /\ q.team = prof[s].team
              /\ (q.timer <=> prof[s].timer) /\ (q.signedin <=> prof[s].signedin)
          BY <1>0 DEF Profiles
        <4>2. prof' = [prof EXCEPT ![s] = q]
          BY <3>2 DEF AutoSaveWrite
        <4> HIDE DEF q
        <4>3. /\ prof' \in [Slots -> Profiles] /\ prof'[s] = q
              /\ \A r \in Slots : r # s => prof'[r] = prof[r]
          BY <4>1, <4>2 DEF IInv, TypeOK
        <4> QED
          BY <4>1, <4>3
      <3> QED
        BY <1>3, <3>1, <3>2
    <2>7. Linked'
      BY <2>3, <2>5, <2>6 DEF IInv, Linked
    <2>8. RosterHasProfiles'
      BY <2>4, <2>6, RosterFrame
    <2> QED
      BY <2>3, <2>4, <2>5, <2>6, <2>7, <2>8 DEF IInv, TypeOK
  <1> QED
    BY <1>2, <1>3

\* A crash empties the memory and leaves the documents.
LEMMA CrashKeeps ==
    ASSUME IInv, Crash
    PROVE  IInv'
  <1>1. NoProfile \in Profiles /\ NoSave \in Saves /\ "none" \in Dialogs
    BY DEF NoProfile, Profiles, NoUid, NotLoaded, NoSave, Saves, Dialogs
  <1>2. TypeOK'
    <2>1. prof' \in [Slots -> Profiles] /\ saving' \in [Slots -> Saves]
          /\ dlg' \in [Slots -> Dialogs]
      BY <1>1 DEF Crash
    <2>2. /\ conn' \in [Slots -> Names \cup {NoOne}]
          /\ online' \in [Teams -> SUBSET Slots] /\ loaded' \in SUBSET Teams
      BY DEF Crash
    <2> QED
      BY <2>1, <2>2 DEF Crash, IInv, TypeOK
  <1>3. Linked'
    <2>1. \A s \in Slots : /\ prof'[s].uid = 0 /\ ~ prof'[s].signedin
                           /\ ~ prof'[s].timer /\ saving'[s].at = "none"
      BY DEF Crash, NoProfile, NoSave, NoUid
    <2>2. \A s \in Slots : ~ (saving'[s].at \in {"begin", "write"})
                           /\ ~ (saving'[s].at \in {"write", "freed"})
      BY <2>1
    <2>3. \A s \in Slots : prof'[s].uid <= Len(docs')
      <3>1. \A n \in Nat : 0 <= n
        OBVIOUS
      <3>2. Len(docs') \in Nat
        BY DEF Crash, IInv, TypeOK
      <3> QED
        BY <2>1, <3>1, <3>2, Zenon
    <2> QED
      BY <2>1, <2>2, <2>3, Zenon DEF Linked
  <1>4. RosterHasProfiles'
    BY DEF Crash, RosterHasProfiles
  <1> QED
    BY <1>2, <1>3, <1>4 DEF IInv

\* Every step preserves the inductive invariant.
LEMMA NextIInv == IInv /\ [Next]_vars => IInv'
  <1> SUFFICES ASSUME IInv, [Next]_vars PROVE IInv'
    OBVIOUS
  <1>0. docs \in Seq(Docs)
    BY DEF IInv, TypeOK
  <1>1. CASE UNCHANGED vars
    BY <1>1 DEF vars, IInv, TypeOK, Linked, RosterHasProfiles
  <1>2. ASSUME NEW s \in Slots, NEW n \in Names, OnPlayerConnect(s, n) PROVE IInv'
    BY <1>2, ConnectKeeps
  <1>3. ASSUME NEW s \in Slots, NEW n \in Names, OnPlayerConnectFails(s, n) PROVE IInv'
    <2>1. /\ conn' \in [Slots -> Names \cup {NoOne}] /\ dlg' \in [Slots -> Dialogs]
          /\ UNCHANGED <<prof, docs, loaded, online, saving, earned, unclean>>
      BY <1>3 DEF OnPlayerConnectFails, IInv, TypeOK, Dialogs
    <2>2. Linked' /\ RosterHasProfiles'
      BY <2>1 DEF IInv, Linked, RosterHasProfiles
    <2> QED
      BY <2>1, <2>2 DEF IInv, TypeOK
  <1>4. ASSUME NEW s \in Slots, NEW timeout \in BOOLEAN,
               \/ OnPlayerDisconnect(s, timeout)
               \/ OnPlayerDisconnectQuitFails(s, timeout)
        PROVE  IInv'
    BY <1>4, DisconnectKeeps
  <1>5. ASSUME NEW s \in Slots,
               OnPlayerDisconnectSyncFails(s) \/ OnPlayerDisconnectNoProfile(s)
        PROVE  IInv'
    <2>1. TRUE \in BOOLEAN
      OBVIOUS
    <2> QED
      BY <1>5, <2>1, DisconnectKeeps
  <1>6. ASSUME NEW s \in Slots, NEW t \in Teams, TeamSelect(s, t) PROVE IInv'
    BY <1>6, TeamSelectKeeps
  <1>7. ASSUME NEW s \in Slots, Register(s) \/ RegisterFails(s) PROVE IInv'
    BY <1>7, RegisterKeeps
  <1>8. ASSUME NEW s \in Slots, Login(s) \/ Earn(s) \/ Spend(s) PROVE IInv'
    BY <1>8, LoginKeeps
  <1>9. ASSUME NEW s \in Slots, SettingSync(s) \/ SettingSyncFails(s) PROVE IInv'
    BY <1>9, SettingSyncKeeps
  <1>10. ASSUME NEW s \in Slots,
                \/ OnPlayerRequestSpawn(s)
                \/ \E d \in {"setting", "other"} : ShowDialog(s, d)
         PROVE  IInv'
    <2>1. /\ dlg' \in [Slots -> Dialogs] /\ docs' = docs
          /\ UNCHANGED <<conn, prof, loaded, online, saving, earned, unclean>>
      BY <1>10 DEF OnPlayerRequestSpawn, ShowDialog, IInv, TypeOK, Dialogs
    <2> QED
      BY <1>0, <2>1, DialogKeeps
  <1>11. ASSUME NEW s \in Slots,
                AutoSaveBegin(s) \/ AutoSaveRead(s) \/ AutoSaveWrite(s) \/ AutoSaveFreed(s)
         PROVE  IInv'
    BY <1>11, AutoSaveKeeps
  <1>12. CASE ReloadTeams
    BY <1>12 DEF ReloadTeams, IInv, TypeOK, Linked, RosterHasProfiles
  <1>13. CASE Crash
    BY <1>13, CrashKeeps
  <1> QED
    BY <1>1, <1>2, <1>3, <1>4, <1>5, <1>6, <1>7, <1>8, <1>9, <1>10, <1>11, <1>12, <1>13
       DEF Next

\* The inductive invariant holds throughout.
THEOREM Invariance == Spec => []IInv
  BY InitIInv, NextIInv, PTL DEF Spec

\* Sessions is type correct.
THEOREM TypeCorrect == Spec => []TypeOK
  <1>1. IInv => TypeOK
    BY DEF IInv
  <1> QED
    BY <1>1, Invariance, PTL

\* Whoever is on a roster has a profile on that team, in every reachable
\* state, for any number of slots, players and teams.
THEOREM RostersAgree == Spec => []RosterHasProfiles
  <1>1. IInv => RosterHasProfiles
    BY DEF IInv
  <1> QED
    BY <1>1, Invariance, PTL

\* Every Sync that can run, on either thread, has a document to write to.
THEOREM SavesHaveDocuments == Spec => []SaversHaveDocuments
  <1>1. IInv => SaversHaveDocuments
    <2> SUFFICES ASSUME IInv, NEW s \in Slots
                 PROVE  /\ prof[s].signedin \/ prof[s].timer => prof[s].uid \in 1 .. Len(docs)
                        /\ saving[s].at # "none" =>
                              (IF saving[s].at = "begin" THEN prof[s].uid ELSE saving[s].uid)
                                 \in 1 .. Len(docs)
      BY DEF SaversHaveDocuments
    <2>1. /\ Len(docs) \in Nat /\ prof[s].uid \in Nat
          /\ saving[s].at \in {"none", "begin", "write", "freed"}
      BY DEF IInv, TypeOK, Profiles, Saves
    <2>2. prof[s].signedin \/ prof[s].timer => prof[s].uid \in 1 .. Len(docs)
      BY <2>1 DEF IInv, Linked, NoUid
    <2>3. saving[s].at = "begin" => prof[s].uid \in 1 .. Len(docs)
      BY <2>2 DEF IInv, Linked
    <2>4. saving[s].at \in {"write", "freed"} => saving[s].uid \in 1 .. Len(docs)
      BY DEF IInv, Linked
    <2> QED
      BY <2>1, <2>2, <2>3, <2>4
  <1> QED
    BY <1>1, Invariance, PTL

-----------------------------------------------------------------------------
(***************************************************************************)
(* Whose profile, and whose money.                                         *)
(***************************************************************************)

\* While every disconnect runs to its end: the profile on a slot, and a save of
\* it, are those of the player connected there; the archive has not been given
\* out while the login dialog is open; a save that outlived its profile still
\* goes to the player it was made for.
Own(s) ==
    /\ prof[s].exists => /\ conn[s] # NoOne /\ prof[s].money <= earned[conn[s]]
                         /\ prof[s].uid # NoUid => docs[prof[s].uid].name = conn[s]
    /\ dlg[s] = "login" => /\ prof[s].exists /\ ~ prof[s].timer
                           /\ prof[s].money + prof[s].archive <= earned[conn[s]]
    /\ saving[s].at = "write" => /\ saving[s].money <= earned[conn[s]]
                                 /\ docs[saving[s].uid].name = conn[s]
    /\ saving[s].at = "freed" => saving[s].money <= earned[docs[saving[s].uid].name]

DocMoney == \A i \in 1 .. Len(docs) : docs[i].money <= earned[docs[i].name]

OwnInv == ~ unclean => DocMoney /\ \A s \in Slots : Own(s)

\* What no step does: rename a document, or take an earning back.
NamesKept == \A i \in 1 .. Len(docs) : docs'[i].name = docs[i].name

EarnedGrows == earned' \in [Names -> Nat] /\ \A n \in Names : earned[n] <= earned'[n]

\* findOne returns a document of the name it is asked for.
LEMMA FindOneNamed ==
    ASSUME TypeOK, NEW n, FindOne(n) # NoUid
    PROVE  FindOne(n) \in 1 .. Len(docs) /\ docs[FindOne(n)].name = n
  <1> DEFINE T == {i \in 1 .. Len(docs) : docs[i].name = n}
  <1>0. Len(docs) \in Nat
    BY DEF TypeOK
  <1>1. T # {}
    BY DEF FindOne
  <1>2. T \subseteq Nat
    BY <1>0
  <1>3. PICK x \in T : \A y \in T : ~ (<<y, x>> \in OpToRel(<, Nat))
    <2> HIDE DEF T
    <2> QED
      BY <1>1, <1>2, WFMin, NatLessThanWellFounded
  <1>4. x \in 1 .. Len(docs) /\ docs[x].name = n
    BY <1>3
  <1>5. ASSUME NEW y \in T PROVE ~ (y < x)
    BY <1>2, <1>3, <1>5 DEF OpToRel
  <1>6. \A j \in 1 .. x - 1 : docs[j].name # n
    <2> SUFFICES ASSUME NEW j \in 1 .. x - 1, docs[j].name = n PROVE FALSE
      OBVIOUS
    <2>1. j \in T /\ j < x
      BY <1>0, <1>4
    <2> QED
      BY <2>1, <1>5
  <1> QED
    BY <1>4, <1>6 DEF FindOne

\* What a document holds.
LEMMA DocsAre ==
    ASSUME TypeOK, NEW i \in 1 .. Len(docs)
    PROVE  docs[i] \in Docs /\ docs[i].name \in Names /\ docs[i].money \in Int
  <1>1. docs[i] \in Docs
    BY ElementOfSeq DEF TypeOK
  <1> QED
    BY <1>1 DEF Docs

\* A save of no more than was earned.
LEMMA WrittenMoney ==
    ASSUME TypeOK, DocMoney, NEW p, p.uid \in 1 .. Len(docs), p.money \in Int,
           p.money <= earned[docs[p.uid].name], docs' = Written(p), earned' = earned
    PROVE  NamesKept /\ DocMoney'
  <1> DEFINE d == [docs[p.uid] EXCEPT !.money = p.money]
  <1>1. docs \in Seq(Docs) /\ docs[p.uid] \in Docs
    BY DocsAre DEF TypeOK
  <1>2. d \in Docs /\ d.name = docs[p.uid].name /\ d.money = p.money
    BY <1>1 DEF Docs
  <1>3. docs' = [docs EXCEPT ![p.uid] = d]
    BY DEF Written
  <1> HIDE DEF d
  <1>4. /\ Len(docs') = Len(docs)
        /\ \A i \in 1 .. Len(docs) : docs'[i] = IF i = p.uid THEN d ELSE docs[i]
    BY <1>1, <1>2, <1>3, ExceptSeq
  <1>5. NamesKept
    BY <1>2, <1>4 DEF NamesKept
  <1>6. ASSUME NEW i \in 1 .. Len(docs) PROVE docs'[i].money <= earned'[docs'[i].name]
    BY <1>2, <1>4 DEF DocMoney
  <1>7. DocMoney'
    BY <1>4, <1>6 DEF DocMoney
  <1> QED
    BY <1>5, <1>7

\* A new document with no more than was earned.
LEMMA InsertMoney ==
    ASSUME TypeOK, DocMoney, NEW s \in Slots, conn[s] # NoOne, NEW m \in Int,
           m <= earned[conn[s]], docs' = Insert(s, m), earned' = earned
    PROVE  NamesKept /\ DocMoney' /\ docs'[Len(docs) + 1].name = conn[s]
  <1>0. PICK n \in Nat : n = Len(docs)
    BY DEF TypeOK
  <1>1. PICK d : d = [name |-> conn[s], banned |-> FALSE, money |-> m]
    OBVIOUS
  <1>2. conn[s] \in Names /\ docs \in Seq(Docs)
    BY DEF TypeOK
  <1>3. d \in Docs /\ d.name = conn[s] /\ d.money = m
    BY <1>1, <1>2 DEF Docs
  <1>4. docs' = Append(docs, d)
    BY <1>1 DEF Insert
  <1>5. /\ Len(docs') = n + 1 /\ docs'[n + 1] = d
        /\ \A i \in 1 .. n : docs'[i] = docs[i]
    BY <1>0, <1>2, <1>3, <1>4, AppendProperties
  <1>6. NamesKept
    BY <1>0, <1>5 DEF NamesKept
  <1>7. ASSUME NEW i \in 1 .. n + 1 PROVE docs'[i].money <= earned'[docs'[i].name]
    <2>1. CASE i = n + 1
      BY <1>3, <1>5, <2>1
    <2>2. CASE i # n + 1
      <3>1. i \in 1 .. n
        BY <2>2
      <3> QED
        BY <1>0, <1>5, <3>1 DEF DocMoney
    <2> QED
      BY <2>1, <2>2
  <1>8. DocMoney'
    BY <1>5, <1>7 DEF DocMoney
  <1> QED
    BY <1>0, <1>3, <1>5, <1>6, <1>8

\* Earning more never makes a document worth more than was earned.
LEMMA DocsSame ==
    ASSUME TypeOK, DocMoney, docs' = docs, EarnedGrows
    PROVE  NamesKept /\ DocMoney'
  <1>1. NamesKept
    BY DEF NamesKept
  <1>2. ASSUME NEW i \in 1 .. Len(docs) PROVE docs[i].money <= earned'[docs[i].name]
    <2>1. PICK x \in Names : x = docs[i].name
      BY DocsAre
    <2>2. PICK m \in Int : m = docs[i].money
      BY DocsAre
    <2>3. m <= earned[x] /\ earned[x] \in Nat /\ earned'[x] \in Nat /\ earned[x] <= earned'[x]
      BY <2>1, <2>2 DEF DocMoney, TypeOK, EarnedGrows
    <2>4. m <= earned'[x]
      BY <2>3
    <2> QED
      BY <2>1, <2>2, <2>4
  <1>3. DocMoney'
    BY <1>2 DEF DocMoney
  <1> QED
    BY <1>1, <1>3

\* What a slot refers to.
LEMMA SlotRefers ==
    ASSUME IInv, NEW s \in Slots, NamesKept
    PROVE  /\ prof[s].uid # NoUid => /\ prof[s].uid \in 1 .. Len(docs)
                                     /\ docs'[prof[s].uid].name = docs[prof[s].uid].name
           /\ saving[s].at \in {"write", "freed"} =>
                 /\ saving[s].uid \in 1 .. Len(docs) /\ docs[saving[s].uid].name \in Names
                 /\ docs'[saving[s].uid].name = docs[saving[s].uid].name
           /\ saving[s].at \in {"begin", "write"} =>
                 prof[s].timer /\ prof[s].exists /\ prof[s].uid # NoUid
           /\ conn[s] # NoOne => conn[s] \in Names
           /\ prof[s].money \in Int /\ prof[s].archive \in Int /\ saving[s].money \in Int
  <1>1. prof[s] \in Profiles /\ saving[s] \in Saves /\ Len(docs) \in Nat
    BY DEF IInv, TypeOK
  <1>2. prof[s].uid # NoUid => prof[s].uid \in 1 .. Len(docs)
    BY <1>1 DEF IInv, Linked, Profiles, NoUid
  <1>3. saving[s].at \in {"write", "freed"} => saving[s].uid \in 1 .. Len(docs)
    BY DEF IInv, Linked
  <1>4. saving[s].at \in {"write", "freed"} => docs[saving[s].uid].name \in Names
    BY <1>3, DocsAre DEF IInv
  <1>5. prof[s].money \in Int /\ prof[s].archive \in Int /\ saving[s].money \in Int
    BY <1>1 DEF Profiles, Saves
  <1>6. conn[s] # NoOne => conn[s] \in Names
    BY DEF IInv, TypeOK
  <1>7. saving[s].at \in {"begin", "write"} =>
           prof[s].timer /\ prof[s].exists /\ prof[s].uid # NoUid
    BY DEF IInv, Linked
  <1> QED
    BY <1>2, <1>3, <1>4, <1>5, <1>6, <1>7 DEF NamesKept

\* The connection and the save of a slot stay; its profile remains its own.
LEMMA SlotKept ==
    ASSUME IInv, NEW s \in Slots, Own(s), NamesKept, EarnedGrows,
           conn'[s] = conn[s], saving'[s] = saving[s],
           prof'[s].exists <=> prof[s].exists,
           prof[s].exists => prof'[s].money <= earned'[conn[s]],
           prof[s].exists /\ prof'[s].uid # NoUid => docs'[prof'[s].uid].name = conn[s],
           dlg'[s] = "login" => /\ prof'[s].exists /\ ~ prof'[s].timer
                                /\ prof'[s].money + prof'[s].archive <= earned'[conn[s]]
    PROVE  Own(s)'
  <1>1. saving[s].at = "write" => /\ saving[s].money <= earned'[conn[s]]
                                  /\ docs'[saving[s].uid].name = conn[s]
    <2> SUFFICES ASSUME saving[s].at = "write"
                 PROVE  saving[s].money <= earned'[conn[s]] /\ docs'[saving[s].uid].name = conn[s]
      OBVIOUS
    <2>1. saving[s].at \in {"write", "freed"} /\ saving[s].at \in {"begin", "write"}
      OBVIOUS
    <2>2. /\ prof[s].exists /\ docs'[saving[s].uid].name = docs[saving[s].uid].name
          /\ saving[s].money \in Int
      BY <2>1, SlotRefers
    <2>3. conn[s] \in Names
      BY <2>2, SlotRefers DEF Own
    <2>4. saving[s].money <= earned[conn[s]] /\ docs[saving[s].uid].name = conn[s]
      BY DEF Own
    <2>5. earned[conn[s]] \in Nat /\ earned'[conn[s]] \in Nat /\ earned[conn[s]] <= earned'[conn[s]]
      BY <2>3 DEF EarnedGrows, IInv, TypeOK
    <2> QED
      BY <2>2, <2>4, <2>5
  <1>2. saving[s].at = "freed" => saving[s].money <= earned'[docs'[saving[s].uid].name]
    <2> SUFFICES ASSUME saving[s].at = "freed"
                 PROVE  saving[s].money <= earned'[docs'[saving[s].uid].name]
      OBVIOUS
    <2>1. saving[s].at \in {"write", "freed"}
      OBVIOUS
    <2>2. PICK x \in Names : x = docs[saving[s].uid].name /\ x = docs'[saving[s].uid].name
      BY <2>1, SlotRefers
    <2>3. saving[s].money <= earned[x] /\ saving[s].money \in Int
      BY <2>2, SlotRefers DEF Own
    <2>4. earned[x] \in Nat /\ earned'[x] \in Nat /\ earned[x] <= earned'[x]
      BY DEF EarnedGrows, IInv, TypeOK
    <2>5. saving[s].money <= earned'[x]
      BY <2>3, <2>4
    <2> QED
      BY <2>2, <2>5
  <1> QED
    BY <1>1, <1>2 DEF Own

\* The slots that a step leaves alone.
LEMMA OtherSlot ==
    ASSUME IInv, NEW r \in Slots, Own(r), NamesKept, EarnedGrows,
           prof'[r] = prof[r], conn'[r] = conn[r], dlg'[r] = dlg[r], saving'[r] = saving[r]
    PROVE  Own(r)'
  <1>0. /\ prof[r].money \in Int /\ prof[r].archive \in Int
        /\ prof[r].uid # NoUid => docs'[prof[r].uid].name = docs[prof[r].uid].name
    BY SlotRefers
  <1>1. dlg[r] = "login" => prof[r].exists /\ ~ prof[r].timer
    BY DEF Own
  <1>2. prof[r].exists => /\ conn[r] \in Names /\ prof[r].money <= earned[conn[r]]
                          /\ earned[conn[r]] \in Nat /\ earned'[conn[r]] \in Nat
                          /\ earned[conn[r]] <= earned'[conn[r]]
    BY SlotRefers DEF Own, EarnedGrows, IInv, TypeOK
  <1>3. prof[r].exists => prof[r].money <= earned'[conn[r]]
    BY <1>0, <1>2
  <1>4. dlg[r] = "login" => prof[r].money + prof[r].archive <= earned'[conn[r]]
    <2>1. dlg[r] = "login" => prof[r].money + prof[r].archive <= earned[conn[r]]
      BY DEF Own
    <2> QED
      BY <1>0, <1>1, <1>2, <2>1
  <1>5. prof[r].exists /\ prof[r].uid # NoUid => docs'[prof[r].uid].name = conn[r]
    BY <1>0 DEF Own
  <1> QED
    BY <1>1, <1>3, <1>4, <1>5, SlotKept

\* A step on one slot.
LEMMA SlotStep ==
    ASSUME IInv, OwnInv, ~ unclean, NEW s \in Slots, NamesKept, EarnedGrows, DocMoney', Own(s)',
           \A r \in Slots : r # s => /\ prof'[r] = prof[r] /\ conn'[r] = conn[r]
                                     /\ dlg'[r] = dlg[r] /\ saving'[r] = saving[r]
    PROVE  OwnInv'
  <1>1. \A r \in Slots : r # s => Own(r)'
    BY OtherSlot DEF OwnInv
  <1> QED
    BY <1>1 DEF OwnInv

\* Steps that leave documents and earnings alone.
LEMMA MemoryStep ==
    ASSUME IInv, OwnInv, ~ unclean, NEW s \in Slots, Own(s)', UNCHANGED <<docs, earned>>,
           \A r \in Slots : r # s => /\ prof'[r] = prof[r] /\ conn'[r] = conn[r]
                                     /\ dlg'[r] = dlg[r] /\ saving'[r] = saving[r]
    PROVE  OwnInv'
  <1>1. EarnedGrows
    BY DEF EarnedGrows, IInv, TypeOK
  <1>2. NamesKept /\ DocMoney'
    BY <1>1, DocsSame DEF IInv, OwnInv
  <1> QED
    BY <1>1, <1>2, SlotStep

\* A free slot has no profile: the connecting player gets his own.
LEMMA ConnectOwn ==
    ASSUME IInv, OwnInv, ~ unclean, NEW s \in Slots, NEW n \in Names,
           OnPlayerConnect(s, n) \/ OnPlayerConnectFails(s, n)
    PROVE  OwnInv'
  <1>0. Own(s) /\ DocMoney
    BY DEF OwnInv
  <1>1. /\ ~ prof[s].exists /\ conn'[s] = n /\ n # NoOne
        /\ saving' = saving /\ UNCHANGED <<docs, earned>>
        /\ \A r \in Slots : r # s => /\ prof'[r] = prof[r] /\ conn'[r] = conn[r]
                                     /\ dlg'[r] = dlg[r] /\ saving'[r] = saving[r]
    BY <1>0, SessionsAssumption
       DEF Own, OnPlayerConnect, OnPlayerConnectFails, Free, IInv, TypeOK
  <1>2. ~ prof[s].timer
    BY <1>1 DEF IInv, Linked
  <1>3. saving[s].at # "write"
    BY <1>2 DEF IInv, Linked
  <1>4. saving[s].at = "freed" => saving[s].money <= earned[docs[saving[s].uid].name]
    BY <1>0 DEF Own
  <1>5. CASE OnPlayerConnectFails(s, n)
    <2>1. prof'[s] = prof[s] /\ dlg'[s] = "none"
      BY <1>5 DEF OnPlayerConnectFails, IInv, TypeOK
    <2>2. Own(s)'
      BY <1>1, <1>3, <1>4, <2>1 DEF Own
    <2> QED
      BY <1>1, <2>2, MemoryStep
  <1>6. CASE OnPlayerConnect(s, n)
    <2>1. PICK q : q = ConnectedProfile(s, n)
      OBVIOUS
    <2>2. prof'[s] = q
      BY <1>6, <2>1 DEF OnPlayerConnect, IInv, TypeOK
    <2>3. q = [NewProfile(n) EXCEPT !.signedin = FALSE]
      BY <1>1, <2>1 DEF ConnectedProfile
    <2>4. /\ q.exists /\ q.uid = FindOne(n) /\ ~ q.timer /\ q.money = 0
          /\ q.archive = IF FindOne(n) = NoUid THEN NotLoaded ELSE docs[FindOne(n)].money
      BY <2>3 DEF NewProfile
    <2>5. FindOne(n) # NoUid =>
             FindOne(n) \in 1 .. Len(docs) /\ docs[FindOne(n)].name = n
      BY FindOneNamed DEF IInv
    <2>6. earned[n] \in Nat
      BY DEF IInv, TypeOK
    <2>7. q.archive \in Int /\ q.archive <= earned[n]
      <3>1. CASE FindOne(n) = NoUid
        BY <2>4, <2>6, <3>1 DEF NotLoaded
      <3>2. CASE FindOne(n) # NoUid
        <4>1. PICK i \in 1 .. Len(docs) : i = FindOne(n)
          BY <2>5, <3>2
        <4>2. docs[i].money \in Int /\ docs[i].money <= earned[n]
          BY <1>0, <2>5, <3>2, <4>1, DocsAre DEF DocMoney, IInv
        <4>3. q.archive = docs[i].money
          BY <2>4, <3>2, <4>1
        <4> QED
          BY <4>2, <4>3
      <3> QED
        BY <3>1, <3>2
    <2>8. q.money <= earned[n] /\ q.money + q.archive <= earned[n]
      BY <2>4, <2>6, <2>7
    <2>9. Own(s)'
      BY <1>1, <1>3, <1>4, <2>2, <2>4, <2>5, <2>8 DEF Own
    <2> QED
      BY <1>1, <2>9, MemoryStep
  <1> QED
    BY <1>5, <1>6

\* A profile that is saved and destroyed, with a save in flight or without.
LEMMA DisconnectOwn ==
    ASSUME IInv, OwnInv, ~ unclean, NEW s \in Slots, NEW timeout \in BOOLEAN,
           OnPlayerDisconnect(s, timeout) \/ OnPlayerDisconnectNoProfile(s)
    PROVE  OwnInv'
  <1>0. Own(s) /\ DocMoney /\ TypeOK
    BY DEF OwnInv, IInv
  <1>1. /\ conn'[s] = NoOne /\ dlg'[s] = "none" /\ earned' = earned /\ EarnedGrows
        /\ \A r \in Slots : r # s => conn'[r] = conn[r] /\ dlg'[r] = dlg[r]
    BY <1>0 DEF OnPlayerDisconnect, OnPlayerDisconnectNoProfile, Leaves, TypeOK, EarnedGrows
  <1>2. CASE OnPlayerDisconnectNoProfile(s)
    <2>1. prof' = prof /\ saving' = saving /\ docs' = docs /\ ~ prof[s].exists
      BY <1>2 DEF OnPlayerDisconnectNoProfile
    <2>2. saving[s].at # "write"
      BY <2>1 DEF IInv, Linked
    <2>3. Own(s)'
      BY <1>0, <1>1, <2>1, <2>2 DEF Own
    <2> QED
      BY <1>1, <2>1, <2>3, MemoryStep
  <1>3. CASE OnPlayerDisconnect(s, timeout)
    <2>1. prof[s].exists /\ prof[s].money \in Int
      BY <1>0, <1>3 DEF OnPlayerDisconnect, TypeOK, Profiles
    <2>2. NamesKept /\ DocMoney'
      <3>1. CASE docs' = docs
        BY <1>0, <1>1, <3>1, DocsSame
      <3>2. CASE docs' = Written(prof[s]) /\ prof[s].signedin
        <4>1. prof[s].uid \in 1 .. Len(docs) /\ prof[s].uid # NoUid
          <5>1. prof[s].uid # NoUid /\ prof[s].uid <= Len(docs)
            BY <3>2 DEF IInv, Linked
          <5>2. prof[s].uid \in Nat /\ Len(docs) \in Nat
            BY <1>0 DEF TypeOK, Profiles
          <5> QED
            BY <5>1, <5>2 DEF NoUid
        <4>2. prof[s].money <= earned[docs[prof[s].uid].name]
          BY <1>0, <2>1, <4>1 DEF Own
        <4> QED
          BY <1>0, <1>1, <2>1, <3>2, <4>1, <4>2, WrittenMoney
      <3> QED
        BY <1>3, <3>1, <3>2 DEF OnPlayerDisconnect, SyncsOnLeave
    <2>3. ~ prof'[s].exists /\ \A r \in Slots : r # s => prof'[r] = prof[r]
      BY <1>0, <1>3 DEF OnPlayerDisconnect, TypeOK, NoProfile
    <2>4. \A r \in Slots : r # s => saving'[r] = saving[r]
      BY <1>0, <1>3 DEF OnPlayerDisconnect, FreeSave, TypeOK
    <2>5. saving'[s].at # "write"
      BY <1>0, <1>3 DEF OnPlayerDisconnect, FreeSave, TypeOK
    <2>6. saving'[s].at = "freed" => saving'[s].money <= earned'[docs'[saving'[s].uid].name]
      <3>1. CASE saving[s].at \in {"none", "freed"}
        <4>1. saving'[s] = saving[s]
          BY <1>3, <3>1 DEF OnPlayerDisconnect, FreeSave
        <4>2. saving[s].at = "freed" => docs'[saving[s].uid].name = docs[saving[s].uid].name
          BY <2>2, SlotRefers
        <4> QED
          BY <1>0, <1>1, <4>1, <4>2 DEF Own
      <3>2. CASE saving[s].at \notin {"none", "freed"}
        <4>1. saving'[s].uid = prof[s].uid
              /\ saving'[s].money = IF saving[s].at = "write" THEN saving[s].money ELSE prof[s].money
          BY <1>0, <1>3, <3>2 DEF OnPlayerDisconnect, FreeSave, TypeOK
        <4>2. saving[s].at \in {"begin", "write"}
          BY <1>0, <3>2 DEF TypeOK, Saves
        <4>3. prof[s].uid # NoUid /\ docs'[prof[s].uid].name = docs[prof[s].uid].name
          BY <2>2, <4>2, SlotRefers
        <4>4. docs[prof[s].uid].name = conn[s] /\ prof[s].money <= earned[conn[s]]
          BY <1>0, <2>1, <4>3 DEF Own
        <4>5. saving[s].at = "write" => saving[s].money <= earned[conn[s]]
          BY <1>0 DEF Own
        <4> QED
          BY <1>1, <4>1, <4>3, <4>4, <4>5
      <3> QED
        BY <3>1, <3>2
    <2>7. Own(s)'
      BY <1>1, <2>3, <2>5, <2>6 DEF Own
    <2> QED
      BY <1>1, <2>2, <2>3, <2>4, <2>7, SlotStep
  <1> QED
    BY <1>2, <1>3

\* A new document bears the name of the player who registers.
LEMMA RegisterOwn ==
    ASSUME IInv, OwnInv, ~ unclean, NEW s \in Slots, Register(s) \/ RegisterFails(s)
    PROVE  OwnInv'
  <1>0. Own(s) /\ DocMoney /\ TypeOK /\ prof[s] \in Profiles
    BY DEF OwnInv, IInv, TypeOK
  <1>1. /\ conn' = conn /\ saving' = saving /\ earned' = earned /\ EarnedGrows
        /\ conn[s] # NoOne /\ prof[s].exists /\ dlg[s] = "register"
        /\ dlg'[s] # "login" /\ \A r \in Slots : r # s => dlg'[r] = dlg[r]
    BY <1>0 DEF Register, RegisterFails, Responds, TypeOK, EarnedGrows
  <1>2. prof[s].money \in Int /\ prof[s].money <= earned[conn[s]] /\ conn[s] \in Names
    BY <1>0, <1>1 DEF Own, Profiles, TypeOK
  <1>3. earned[conn[s]] \in Nat
    BY <1>0, <1>2 DEF TypeOK
  <1>4. PICK m \in Int : m <= earned[conn[s]] /\ docs' = Insert(s, m)
    <2>1. NoAttribute \in Int /\ NoAttribute <= earned[conn[s]]
      BY <1>3 DEF NoAttribute
    <2> QED
      BY <1>2, <2>1 DEF Register, RegisterFails
  <1>5. NamesKept /\ DocMoney' /\ docs'[Len(docs) + 1].name = conn[s]
    BY <1>0, <1>1, <1>4, InsertMoney
  <1>6. /\ prof'[s].exists /\ prof'[s].money = prof[s].money
        /\ prof'[s].uid \in {prof[s].uid, Len(docs) + 1}
        /\ \A r \in Slots : r # s => prof'[r] = prof[r]
    <2>1. PICK u : u = Len(docs) + 1
      OBVIOUS
    <2>2. CASE Register(s)
      <3>1. prof' = [prof EXCEPT ![s] =
                        SignIn([prof[s] EXCEPT !.uid = u, !.read = TRUE, !.archive = prof[s].money])]
        BY <2>1, <2>2 DEF Register
      <3>2. prof'[s] = SignIn([prof[s] EXCEPT !.uid = u, !.read = TRUE, !.archive = prof[s].money])
            /\ \A r \in Slots : r # s => prof'[r] = prof[r]
        BY <1>0, <3>1 DEF TypeOK
      <3>3. prof'[s].exists /\ prof'[s].money = prof[s].money /\ prof'[s].uid = u
        BY <1>0, <1>1, <3>2 DEF SignIn, Profiles
      <3> QED
        BY <2>1, <3>2, <3>3
    <2>3. CASE RegisterFails(s)
      <3>1. PICK at \in {"error", "refetch", "sync", "reread"} :
               prof' = [prof EXCEPT ![s].uid = IF at = "error" THEN @ ELSE u,
                                    ![s].read = at \in {"sync", "reread"}]
        BY <2>1, <2>3 DEF RegisterFails
      <3> DEFINE v == IF at = "error" THEN prof[s].uid ELSE u
                 b == at \in {"sync", "reread"}
      <3>2. v \in {prof[s].uid, u} /\ b \in BOOLEAN
        OBVIOUS
      <3>4. prof' = [prof EXCEPT ![s].uid = v, ![s].read = b]
        BY <3>1
      <3> HIDE DEF v, b
      <3>5. prof'[s] = [prof[s] EXCEPT !.uid = v, !.read = b]
            /\ \A r \in Slots : r # s => prof'[r] = prof[r]
        BY <1>0, <3>4 DEF TypeOK
      <3>6. prof'[s].exists /\ prof'[s].money = prof[s].money /\ prof'[s].uid = v
        BY <1>0, <1>1, <3>2, <3>5 DEF Profiles
      <3> QED
        BY <2>1, <3>2, <3>5, <3>6
    <2> QED
      BY <2>2, <2>3
  <1>7. prof'[s].uid # NoUid => docs'[prof'[s].uid].name = conn[s]
    <2>1. CASE prof'[s].uid = prof[s].uid
      <3>1. prof[s].uid # NoUid => docs'[prof[s].uid].name = docs[prof[s].uid].name
        BY <1>5, SlotRefers
      <3> QED
        BY <1>0, <1>1, <2>1, <3>1 DEF Own
    <2>2. CASE prof'[s].uid = Len(docs) + 1
      BY <1>5, <2>2
    <2> QED
      BY <1>6, <2>1, <2>2
  <1>8. Own(s)'
    <2>1. prof'[s].money <= earned'[conn[s]]
      BY <1>1, <1>2, <1>6
    <2> QED
      BY <1>0, <1>1, <1>5, <1>6, <1>7, <2>1, SlotKept
  <1> QED
    BY <1>1, <1>5, <1>6, <1>8, SlotStep

\* ApplyDataToPlayer gives out the archive once, for the dialog closes.
LEMMA LoginOwn ==
    ASSUME IInv, OwnInv, ~ unclean, NEW s \in Slots, Login(s)
    PROVE  OwnInv'
  <1>0. Own(s) /\ TypeOK /\ prof[s] \in Profiles /\ conn[s] # NoOne /\ prof[s].exists
    BY DEF OwnInv, IInv, TypeOK, Login, Responds
  <1>1. /\ UNCHANGED <<conn, docs, saving, earned>> /\ dlg[s] = "login" /\ dlg'[s] = "none"
        /\ \A r \in Slots : r # s => dlg'[r] = dlg[r]
    BY <1>0 DEF Login, Responds, TypeOK
  <1>2. PICK m : m = ApplyDataToPlayer(prof[s])
    OBVIOUS
  <1>3. m <= earned[conn[s]]
    BY <1>0, <1>1, <1>2 DEF Own, ApplyDataToPlayer
  <1>4. prof'[s] = SignIn([prof[s] EXCEPT !.money = m])
        /\ \A r \in Slots : r # s => prof'[r] = prof[r]
    BY <1>0, <1>2 DEF Login, TypeOK
  <1>5. prof'[s].exists /\ prof'[s].money = m /\ prof'[s].uid = prof[s].uid
    BY <1>0, <1>4 DEF SignIn, Profiles
  <1>6. Own(s)'
    BY <1>0, <1>1, <1>3, <1>5 DEF Own
  <1> QED
    BY <1>1, <1>4, <1>6, MemoryStep

\* Money earned is earned, money spent is gone.
LEMMA MoneyOwn ==
    ASSUME IInv, OwnInv, ~ unclean, NEW s \in Slots, Earn(s) \/ Spend(s)
    PROVE  OwnInv'
  <1>0. Own(s) /\ TypeOK /\ DocMoney /\ prof[s] \in Profiles /\ conn[s] # NoOne /\ prof[s].exists
    BY DEF OwnInv, IInv, TypeOK, Earn, Spend
  <1>1. UNCHANGED <<conn, docs, dlg, saving>>
    BY DEF Earn, Spend
  <1>2. PICK x \in Names : x = conn[s]
    BY <1>0 DEF TypeOK
  <1>3. PICK a \in Int : a = prof[s].money
    BY <1>0 DEF Profiles
  <1>4. PICK e \in Nat : e = earned[x]
    BY <1>0 DEF TypeOK
  <1>5. EarnedGrows
    <2>1. earned \in [Names -> Nat]
      BY <1>0 DEF TypeOK
    <2>2. CASE earned' = earned
      BY <2>1, <2>2 DEF EarnedGrows
    <2>3. CASE earned' = [earned EXCEPT ![x] = e + 1]
      BY <1>4, <2>1, <2>3 DEF EarnedGrows
    <2> QED
      BY <1>2, <1>4, <2>2, <2>3 DEF Earn, Spend
  <1>6. PICK d \in {1, -1} : /\ prof' = [prof EXCEPT ![s].money = a + d]
                             /\ earned'[x] >= e + d
    BY <1>0, <1>2, <1>3, <1>4 DEF Earn, Spend, TypeOK
  <1>7. PICK b \in Int : b = a + d
    BY <1>6
  <1>8. prof'[s] = [prof[s] EXCEPT !.money = b] /\ \A r \in Slots : r # s => prof'[r] = prof[r]
    BY <1>0, <1>6, <1>7 DEF TypeOK
  <1>9. /\ prof'[s].exists /\ prof'[s].money = b /\ prof'[s].uid = prof[s].uid
        /\ (prof'[s].timer <=> prof[s].timer) /\ prof'[s].archive = prof[s].archive
        /\ prof[s].archive \in Int
    BY <1>0, <1>8 DEF Profiles
  <1>10. earned'[x] \in Nat
    BY <1>5 DEF EarnedGrows
  <1>11. prof'[s].money <= earned'[conn[s]]
    <2>1. a <= e
      BY <1>0, <1>2, <1>3, <1>4 DEF Own
    <2>2. b <= earned'[x]
      BY <1>6, <1>7, <1>10, <2>1
    <2> QED
      BY <1>2, <1>9, <2>2
  <1>12. dlg[s] = "login" => prof'[s].money + prof'[s].archive <= earned'[conn[s]]
    <2> SUFFICES ASSUME dlg[s] = "login" PROVE prof'[s].money + prof'[s].archive <= earned'[conn[s]]
      OBVIOUS
    <2>1. PICK c \in Int : c = prof[s].archive
      BY <1>9
    <2>2. a + c <= e
      BY <1>0, <1>2, <1>3, <1>4, <2>1 DEF Own
    <2>3. b + c <= earned'[x]
      BY <1>6, <1>7, <1>10, <2>2
    <2> QED
      BY <1>2, <1>9, <2>1, <2>3
  <1>13. NamesKept /\ DocMoney'
    BY <1>0, <1>1, <1>5, DocsSame
  <1>14. Own(s)'
    <2>1. dlg'[s] = "login" => prof'[s].exists /\ ~ prof'[s].timer
      BY <1>0, <1>1, <1>9 DEF Own
    <2>2. prof'[s].uid # NoUid => docs'[prof'[s].uid].name = conn[s]
      BY <1>0, <1>1, <1>9 DEF Own
    <2> QED
      BY <1>0, <1>1, <1>5, <1>9, <1>11, <1>12, <1>13, <2>1, <2>2, SlotKept
  <1> QED
    BY <1>1, <1>5, <1>8, <1>13, <1>14, SlotStep

\* Dialogs, and the Sync of the settings.
LEMMA DialogOwn ==
    ASSUME IInv, OwnInv, ~ unclean, NEW s \in Slots,
           \/ OnPlayerRequestSpawn(s)
           \/ \E d \in {"setting", "other"} : ShowDialog(s, d)
           \/ \E t \in Teams : TeamSelect(s, t)
           \/ SettingSync(s) \/ SettingSyncFails(s)
    PROVE  OwnInv'
  <1>0. Own(s) /\ TypeOK /\ DocMoney /\ prof[s] \in Profiles /\ prof[s].money \in Int
    BY DEF OwnInv, IInv, TypeOK, Profiles
  <1>1. /\ UNCHANGED <<conn, saving, earned>> /\ dlg'[s] # "login" /\ EarnedGrows
        /\ \A r \in Slots : r # s => dlg'[r] = dlg[r]
    BY <1>0 DEF OnPlayerRequestSpawn, ShowDialog, TeamSelect, SettingSync, SettingSyncFails,
                TypeOK, EarnedGrows
  <1>2. /\ (prof'[s].exists <=> prof[s].exists) /\ prof'[s].money = prof[s].money
        /\ prof'[s].uid = prof[s].uid /\ \A r \in Slots : r # s => prof'[r] = prof[r]
    <2>1. CASE prof' = prof
      BY <2>1
    <2>2. ASSUME NEW t \in Teams, TeamSelect(s, t)
          PROVE  /\ (prof'[s].exists <=> prof[s].exists) /\ prof'[s].money = prof[s].money
                 /\ prof'[s].uid = prof[s].uid /\ \A r \in Slots : r # s => prof'[r] = prof[r]
      <3>1. PICK v : prof' = [prof EXCEPT ![s].team = v]
        BY <2>2 DEF TeamSelect
      <3>2. prof'[s] = [prof[s] EXCEPT !.team = v] /\ \A r \in Slots : r # s => prof'[r] = prof[r]
        BY <1>0, <3>1 DEF TypeOK
      <3> QED
        BY <1>0, <3>2 DEF Profiles
    <2>3. CASE SettingSync(s)
      <3>1. prof' = [prof EXCEPT ![s].archive = prof[s].money, ![s].read = TRUE]
        BY <2>3 DEF SettingSync
      <3>2. prof'[s] = [prof[s] EXCEPT !.archive = prof[s].money, !.read = TRUE]
            /\ \A r \in Slots : r # s => prof'[r] = prof[r]
        BY <1>0, <3>1 DEF TypeOK
      <3> QED
        BY <1>0, <3>2 DEF Profiles
    <2> QED
      BY <2>1, <2>2, <2>3 DEF OnPlayerRequestSpawn, ShowDialog, SettingSyncFails
  <1>3. NamesKept /\ DocMoney'
    <2>1. CASE docs' = docs
      BY <1>0, <1>1, <2>1, DocsSame
    <2>2. CASE docs' = Written(prof[s]) /\ prof[s].uid # NoUid /\ prof[s].exists
      <3>1. prof[s].uid \in 1 .. Len(docs)
        <4>1. prof[s].uid <= Len(docs) /\ prof[s].uid \in Nat /\ Len(docs) \in Nat
          BY <1>0 DEF IInv, Linked, TypeOK, Profiles
        <4> QED
          BY <2>2, <4>1 DEF NoUid
      <3>2. prof[s].money <= earned[docs[prof[s].uid].name]
        BY <1>0, <2>2 DEF Own
      <3> QED
        BY <1>0, <1>1, <2>2, <3>1, <3>2, WrittenMoney
    <2> QED
      BY <2>1, <2>2 DEF OnPlayerRequestSpawn, ShowDialog, TeamSelect, SettingSync,
                        SettingSyncFails, Responds
  <1>4. Own(s)'
    <2>1. prof[s].exists => prof'[s].money <= earned'[conn[s]]
      BY <1>0, <1>1, <1>2 DEF Own
    <2>2. prof[s].uid # NoUid => docs'[prof[s].uid].name = docs[prof[s].uid].name
      BY <1>3, SlotRefers
    <2>3. prof[s].exists /\ prof'[s].uid # NoUid => docs'[prof'[s].uid].name = conn[s]
      BY <1>0, <1>2, <2>2 DEF Own
    <2> QED
      BY <1>0, <1>1, <1>2, <1>3, <2>1, <2>3, SlotKept
  <1> QED
    BY <1>1, <1>2, <1>3, <1>4, SlotStep

\* The autosave callback, on its profile and without it.
LEMMA AutoSaveOwn ==
    ASSUME IInv, OwnInv, ~ unclean, NEW s \in Slots,
           AutoSaveBegin(s) \/ AutoSaveRead(s) \/ AutoSaveWrite(s) \/ AutoSaveFreed(s)
    PROVE  OwnInv'
  <1>0. Own(s) /\ TypeOK /\ DocMoney /\ prof[s] \in Profiles /\ saving[s] \in Saves
    BY DEF OwnInv, IInv, TypeOK
  <1>1. /\ UNCHANGED <<conn, dlg, earned>> /\ EarnedGrows
        /\ \A r \in Slots : r # s => saving'[r] = saving[r]
    BY <1>0 DEF AutoSaveBegin, AutoSaveRead, AutoSaveWrite, AutoSaveFreed, TypeOK, EarnedGrows
  <1>2. CASE AutoSaveBegin(s) \/ AutoSaveRead(s)
    <2>1. UNCHANGED <<prof, docs>>
      BY <1>2 DEF AutoSaveBegin, AutoSaveRead
    <2>2. saving'[s].at # "freed" /\ (saving'[s].at = "write" =>
             /\ saving[s].at = "begin" /\ saving'[s].uid = prof[s].uid
             /\ saving'[s].money = prof[s].money)
      BY <1>0, <1>2 DEF AutoSaveBegin, AutoSaveRead, TypeOK, Saves
    <2>3. saving[s].at = "begin" => prof[s].exists /\ prof[s].uid # NoUid
      BY DEF IInv, Linked
    <2>4. Own(s)'
      BY <1>0, <1>1, <2>1, <2>2, <2>3 DEF Own
    <2> QED
      BY <1>1, <2>1, <2>4, MemoryStep
  <1>3. CASE AutoSaveWrite(s) \/ AutoSaveFreed(s)
    <2>1. saving[s].at \in {"write", "freed"} /\ saving'[s].at = "none"
      BY <1>0, <1>3 DEF AutoSaveWrite, AutoSaveFreed, TypeOK, NoSave
    <2>2. saving[s].uid \in 1 .. Len(docs) /\ saving[s].money \in Int
      BY <1>0, <2>1 DEF IInv, Linked, Saves
    <2>3. saving[s].money <= earned[docs[saving[s].uid].name]
      BY <1>0, <2>1 DEF Own
    <2>4. NamesKept /\ DocMoney'
      <3>1. CASE docs' = docs
        BY <1>0, <1>1, <3>1, DocsSame
      <3>2. CASE docs' = Written(saving[s])
        BY <1>0, <1>1, <2>2, <2>3, <3>2, WrittenMoney
      <3> QED
        BY <1>3, <3>1, <3>2 DEF AutoSaveWrite, AutoSaveFreed
    <2>5. /\ (prof'[s].exists <=> prof[s].exists) /\ prof'[s].money = prof[s].money
          /\ prof'[s].uid = prof[s].uid /\ (prof'[s].timer <=> prof[s].timer)
          /\ \A r \in Slots : r # s => prof'[r] = prof[r]
      <3>1. CASE AutoSaveFreed(s)
        BY <3>1 DEF AutoSaveFreed
      <3>2. CASE AutoSaveWrite(s)
        <4>1. PICK m \in Int : m = saving[s].money
          BY <2>2
        <4>2. prof' = [prof EXCEPT ![s].archive = m, ![s].read = TRUE]
          BY <3>2, <4>1 DEF AutoSaveWrite
        <4>3. prof'[s] = [prof[s] EXCEPT !.archive = m, !.read = TRUE]
              /\ \A r \in Slots : r # s => prof'[r] = prof[r]
          BY <1>0, <4>2 DEF TypeOK
        <4> QED
          BY <1>0, <4>3 DEF Profiles
      <3> QED
        BY <1>3, <3>1, <3>2
    <2>6. dlg[s] = "login" => prof'[s] = prof[s]
      <3>1. CASE AutoSaveFreed(s)
        BY <3>1 DEF AutoSaveFreed
      <3>2. CASE AutoSaveWrite(s)
        <4>1. saving[s].at \in {"begin", "write"}
          BY <3>2 DEF AutoSaveWrite
        <4>2. prof[s].timer
          BY <4>1 DEF IInv, Linked
        <4> QED
          BY <1>0, <4>2 DEF Own
      <3> QED
        BY <1>3, <3>1, <3>2
    <2>7. prof[s].uid # NoUid => docs'[prof[s].uid].name = docs[prof[s].uid].name
      BY <2>4, SlotRefers
    <2>8. Own(s)'
      BY <1>0, <1>1, <2>1, <2>5, <2>6, <2>7 DEF Own
    <2> QED
      BY <1>1, <2>4, <2>5, <2>8, SlotStep
  <1> QED
    BY <1>2, <1>3

\* Every step keeps profiles and money with their owners.
LEMMA NextOwn == IInv /\ OwnInv /\ [Next]_vars => OwnInv'
  <1> SUFFICES ASSUME IInv, OwnInv, [Next]_vars, ~ unclean' PROVE OwnInv'
    BY DEF OwnInv
  <1>u. ASSUME UNCHANGED unclean \/ unclean' = TRUE PROVE ~ unclean /\ unclean' # TRUE
    <2>1. unclean' # TRUE
      OBVIOUS
    <2>2. UNCHANGED unclean
      BY <1>u, <2>1
    <2>3. unclean = TRUE \/ unclean = FALSE
      BY DEF IInv, TypeOK
    <2>4. unclean = FALSE
      BY <2>1, <2>2, <2>3
    <2> QED
      BY <2>1, <2>4
  <1>0. ~ unclean /\ unclean' # TRUE
    <2>1. ASSUME NEW s \in Slots, NEW n \in Names,
                 OnPlayerConnect(s, n) \/ OnPlayerConnectFails(s, n)
          PROVE  UNCHANGED unclean
      BY <2>1 DEF OnPlayerConnect, OnPlayerConnectFails
    <2>2. ASSUME NEW s \in Slots, NEW timeout \in BOOLEAN,
                 OnPlayerDisconnect(s, timeout) \/ OnPlayerDisconnectQuitFails(s, timeout)
          PROVE  UNCHANGED unclean \/ unclean' = TRUE
      BY <2>2 DEF OnPlayerDisconnect, OnPlayerDisconnectQuitFails
    <2>3. ASSUME NEW s \in Slots,
                 \/ \E t \in Teams : TeamSelect(s, t)
                 \/ \E d \in {"setting", "other"} : ShowDialog(s, d)
                 \/ OnPlayerDisconnectSyncFails(s) \/ OnPlayerDisconnectNoProfile(s)
                 \/ Register(s) \/ RegisterFails(s) \/ Login(s) \/ OnPlayerRequestSpawn(s)
                 \/ SettingSync(s) \/ SettingSyncFails(s) \/ Earn(s) \/ Spend(s)
                 \/ AutoSaveBegin(s) \/ AutoSaveRead(s) \/ AutoSaveWrite(s) \/ AutoSaveFreed(s)
          PROVE  UNCHANGED unclean \/ unclean' = TRUE
      BY <2>3 DEF TeamSelect, ShowDialog, OnPlayerDisconnectSyncFails,
         OnPlayerDisconnectNoProfile, Register, RegisterFails, Login, OnPlayerRequestSpawn,
         SettingSync, SettingSyncFails, Earn, Spend, AutoSaveBegin, AutoSaveRead,
         AutoSaveWrite, AutoSaveFreed
    <2>4. CASE ReloadTeams \/ Crash \/ UNCHANGED vars
      BY <1>u, <2>4 DEF ReloadTeams, Crash, vars
    <2> QED
      BY <1>u, <2>1, <2>2, <2>3, <2>4 DEF Next
  <1>1. CASE UNCHANGED <<conn, prof, docs, dlg, saving, earned>>
    <2>1. EarnedGrows
      BY <1>1 DEF EarnedGrows, IInv, TypeOK
    <2>2. NamesKept /\ DocMoney'
      BY <1>0, <1>1, <2>1, DocsSame DEF IInv, OwnInv
    <2>3. \A s \in Slots : Own(s)'
      BY <1>0, <1>1, <2>1, <2>2, OtherSlot DEF OwnInv
    <2> QED
      BY <2>2, <2>3 DEF OwnInv
  <1>2. CASE Crash
    <2>1. EarnedGrows /\ docs' = docs
      BY <1>2 DEF Crash, EarnedGrows, IInv, TypeOK
    <2>2. NamesKept /\ DocMoney'
      BY <1>0, <2>1, DocsSame DEF IInv, OwnInv
    <2>3. \A s \in Slots : ~ prof'[s].exists /\ dlg'[s] = "none" /\ saving'[s].at = "none"
      BY <1>2 DEF Crash, NoProfile, NoSave
    <2>4. \A s \in Slots : Own(s)'
      BY <2>3 DEF Own
    <2> QED
      BY <2>2, <2>4 DEF OwnInv
  <1>3. CASE UNCHANGED vars \/ ReloadTeams
    BY <1>1, <1>3 DEF vars, ReloadTeams
  <1>4. ASSUME NEW s \in Slots, OnPlayerDisconnectNoProfile(s) PROVE OwnInv'
    <2>1. TRUE \in BOOLEAN
      OBVIOUS
    <2> QED
      BY <1>0, <1>4, <2>1, DisconnectOwn
  <1>5. ASSUME NEW s \in Slots, NEW timeout \in BOOLEAN,
               OnPlayerDisconnectSyncFails(s) \/ OnPlayerDisconnectQuitFails(s, timeout)
        PROVE  OwnInv'
    BY <1>0, <1>5 DEF OnPlayerDisconnectSyncFails, OnPlayerDisconnectQuitFails
  <1>6. ASSUME NEW s \in Slots, OnPlayerDisconnectSyncFails(s) PROVE OwnInv'
    BY <1>0, <1>6 DEF OnPlayerDisconnectSyncFails
  <1> QED
    BY <1>0, <1>2, <1>3, <1>4, <1>5, <1>6, ConnectOwn, DisconnectOwn, RegisterOwn, LoginOwn,
       MoneyOwn, DialogOwn, AutoSaveOwn DEF Next

\* The owners of profiles and money, throughout.
THEOREM OwnInvariance == Spec => []OwnInv
  <1>1. Init => OwnInv
    <2> SUFFICES ASSUME Init PROVE OwnInv
      OBVIOUS
    <2>1. TypeOK
      BY InitIInv DEF IInv
    <2>2. ASSUME NEW i \in 1 .. Len(docs) PROVE docs[i].money <= earned[docs[i].name]
      <3>1. docs[i].money <= 0 /\ docs[i].name \in Names /\ docs[i].money \in Int
        BY <2>1, <2>2, DocsAre, SessionsAssumption DEF Init
      <3>2. earned[docs[i].name] = 0
        BY <3>1 DEF Init
      <3> QED
        BY <3>1, <3>2
    <2>3. \A s \in Slots : ~ prof[s].exists /\ dlg[s] = "none" /\ saving[s].at = "none"
      BY DEF Init, NoProfile, NoSave
    <2>4. \A s \in Slots : Own(s)
      BY <2>3 DEF Own
    <2> QED
      BY <2>2, <2>4 DEF OwnInv, DocMoney
  <1> QED
    BY <1>1, NextOwn, Invariance, PTL DEF Spec

\* ProfileIsOwn: as long as every OnPlayerDisconnect ran to its end, the profile
\* found on a slot, and its document, are those of the player connected there.
THEOREM ProfilesAreOwn == Spec => []ProfileIsOwn
  <1>1. OwnInv => ProfileIsOwn
    BY DEF OwnInv, Own, ProfileIsOwn
  <1> QED
    BY <1>1, OwnInvariance, PTL

\* NoMoneyMinted: as long as every OnPlayerDisconnect ran to its end, neither
\* ApplyDataToPlayer nor Sync, on either thread, makes money.
THEOREM MoneyIsEarned == Spec => []NoMoneyMinted
  <1>1. ASSUME IInv, OwnInv PROVE NoMoneyMinted
    <2>1. \A s \in Slots : prof[s].signedin => prof[s].exists
      BY <1>1 DEF IInv, Linked
    <2> QED
      BY <1>1, <2>1 DEF OwnInv, Own, DocMoney, NoMoneyMinted
  <1> QED
    BY <1>1, OwnInvariance, Invariance, PTL

=============================================================================
