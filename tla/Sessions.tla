------------------------------ MODULE Sessions ------------------------------
(***************************************************************************)
(* Player sessions: the profile the server keeps for every player slot,    *)
(* its document in the database, the team rosters, and the autosave timer. *)
(*                                                                         *)
(* Callbacks of the game server run one at a time on the main thread and   *)
(* are single actions here.  The autosave callback runs on a pool thread   *)
(* and is split where the main thread can interleave.  A database call may *)
(* throw; the exception leaves the handler where the code catches it.      *)
(*                                                                         *)
(* External: the game server (which names connect to which slot, no name   *)
(* twice; a client answers the dialog shown last and knows only its own    *)
(* password) and the database (a sequence of documents, findOne returns    *)
(* the first match).  Money is counted in units of one reward.             *)
(***************************************************************************)
EXTENDS Integers, Sequences

CONSTANTS
    Slots,      \* player ids
    Names,      \* player names
    Teams,      \* documents of the team collection
    NoOne,      \* no name: the slot is free
    NoTeam,     \* an unset team object id
    InitDocs,   \* profile collections the server may be started on
    MaxDocs,    \* bound on documents
    MaxEarn,    \* bound on the rewards one player earns
    MaxMoney    \* bound on the money of one profile

Docs == [name : Names, banned : BOOLEAN, money : Int]

ASSUME SessionsAssumption ==
    /\ NoOne \notin Names
    /\ NoTeam \notin Teams
    /\ MaxDocs \in Nat
    /\ MaxEarn \in Nat
    /\ MaxMoney \in Nat
    /\ InitDocs \subseteq Seq(Docs)
    /\ \A d \in InitDocs : \A i \in 1 .. Len(d) : d[i].money <= 0

VARIABLES
    conn,     \* the name connected on each slot
    prof,     \* ProfileMgr: the Profile of each slot
    docs,     \* Database.profile
    dlg,      \* the dialog each client shows
    loaded,   \* the teams in TeamMgr
    online,   \* `_onlineplayers` of each team
    saving,   \* the autosave callback in flight on each slot's profile
    earned,   \* history: rewards each player has earned
    unclean   \* history: some OnPlayerDisconnect left its profile behind

vars == <<conn, prof, docs, dlg, loaded, online, saving, earned, unclean>>

NotLoaded == -2     \* `_gamearchive` (and the password hash) before _LoadMemberData
NoAttribute == -1   \* a document without archive.gtasa.attribute
NoUid == 0          \* an unset `_uniqueid`; a set one is a document's index

\* exists: the slot is in ProfileMgr.  read: `_rawdata` is not empty.
\* archive: the money in `_gamearchive`, or NotLoaded, or NoAttribute.
Profiles ==
    [exists : BOOLEAN, uid : Nat, read : BOOLEAN, archive : Int, signedin : BOOLEAN,
     timer : BOOLEAN, team : Teams \cup {NoTeam}, money : Int]

NoProfile ==
    [exists |-> FALSE, uid |-> NoUid, read |-> FALSE, archive |-> NotLoaded,
     signedin |-> FALSE, timer |-> FALSE, team |-> NoTeam, money |-> 0]

\* at: "none" no callback; "begin" dispatched; "write" the values are taken;
\* "freed" the Profile was destroyed under the callback, which still sees its
\* bytes.
Saves == [at : {"none", "begin", "write", "freed"}, uid : Nat, money : Int]

NoSave == [at |-> "none", uid |-> NoUid, money |-> 0]

Dialogs == {"none", "register", "login", "team", "setting", "other"}

(***************************************************************************)
(* Helpers.                                                                *)
(***************************************************************************)

\* findOne(auth.logname = n): the first document of that name, or none.
FindOne(n) ==
    IF \E i \in 1 .. Len(docs) : docs[i].name = n
    THEN CHOOSE i \in 1 .. Len(docs) :
            docs[i].name = n /\ \A j \in 1 .. i - 1 : docs[j].name # n
    ELSE NoUid

\* Profile(playerid, logname): the document is read if there is one.
NewProfile(n) ==
    LET i == FindOne(n)
    IN  [exists |-> TRUE, uid |-> i, read |-> i # NoUid,
         archive |-> IF i = NoUid THEN NotLoaded ELSE docs[i].money,
         signedin |-> FALSE, timer |-> FALSE, team |-> NoTeam, money |-> 0]

\* Documents after Update(money of p).
Written(p) ==
    [docs EXCEPT ![p.uid].money = p.money]

\* SetSignedIn(true): creates the autosave timer unless there is one.
SignIn(p) == [p EXCEPT !.signedin = TRUE, !.timer = TRUE]

\* The money after ApplyDataToPlayer, which adds what the archive holds; it
\* throws, and adds nothing, when the archive has no attribute.
ApplyDataToPlayer(p) ==
    IF p.archive = NoAttribute THEN p.money ELSE p.money + p.archive

\* Team::Quit and Team::Join throw unless these hold.
CanQuit(s) == prof[s].team \in loaded /\ s \in online[prof[s].team]
CanJoin(s, t) == t \in loaded /\ s \notin online[t]

\* ~Profile deletes the autosave timer without waiting for a running callback.
FreeSave(s) ==
    IF saving[s].at \in {"none", "freed"} THEN saving
    ELSE [saving EXCEPT ![s] =
             [at |-> "freed", uid |-> prof[s].uid,
              money |-> IF @.at = "write" THEN @.money ELSE prof[s].money]]

Init ==
    /\ conn = [s \in Slots |-> NoOne]
    /\ prof = [s \in Slots |-> NoProfile]
    /\ docs \in InitDocs
    /\ dlg = [s \in Slots |-> "none"]
    /\ loaded \in SUBSET Teams
    /\ online = [t \in Teams |-> {}]
    /\ saving = [s \in Slots |-> NoSave]
    /\ earned = [n \in Names |-> 0]
    /\ unclean = FALSE

(***************************************************************************)
(* Connecting.                                                             *)
(***************************************************************************)

Free(s, n) == conn[s] = NoOne /\ \A r \in Slots : conn[r] # n

\* ProfileMgr.Add keeps a profile that is already there; its result is ignored.
ConnectedProfile(s, n) ==
    [IF prof[s].exists THEN prof[s] ELSE NewProfile(n) EXCEPT !.signedin = FALSE]

\* Mutant: a banned player is shown a dialog that was never registered.
Greeting_Unregistered(p) ==
    IF ~ p.read THEN "register" ELSE IF docs[p.uid].banned THEN "banned" ELSE "login"

\* A kicked (banned) player gets no dialog.
Greeting(p) ==
    IF ~ p.read THEN "register" ELSE IF docs[p.uid].banned THEN "none" ELSE "login"

OnPlayerConnect(s, n) ==
    /\ Free(s, n)
    /\ conn' = [conn EXCEPT ![s] = n]
    /\ prof' = [prof EXCEPT ![s] = ConnectedProfile(s, n)]
    /\ dlg' = [dlg EXCEPT ![s] = Greeting(ConnectedProfile(s, n))]
    /\ UNCHANGED <<docs, loaded, online, saving, earned, unclean>>

\* The query throws while the Profile is constructed: nothing after it runs.
OnPlayerConnectFails(s, n) ==
    /\ Free(s, n)
    /\ conn' = [conn EXCEPT ![s] = n]
    /\ dlg' = [dlg EXCEPT ![s] = "none"]
    /\ UNCHANGED <<prof, docs, loaded, online, saving, earned, unclean>>

(***************************************************************************)
(* Disconnecting.                                                          *)
(***************************************************************************)

Leaves(s) ==
    /\ conn[s] # NoOne
    /\ conn' = [conn EXCEPT ![s] = NoOne]
    /\ dlg' = [dlg EXCEPT ![s] = "none"]
    /\ UNCHANGED <<loaded, earned>>

\* The Sync of a signed-in player, skipped when the connection timed out.
SyncsOnLeave(s, timeout) ==
    docs' = IF ~ timeout /\ prof[s].signedin THEN Written(prof[s]) ELSE docs

\* Mutant: the profile is not removed from ProfileMgr.
OnPlayerDisconnect_KeepsProfile(s, timeout) ==
    /\ Leaves(s)
    /\ prof[s].exists
    /\ prof[s].team # NoTeam => CanQuit(s)
    /\ SyncsOnLeave(s, timeout)
    /\ online' = [t \in Teams |-> IF t = prof[s].team THEN online[t] \ {s} ELSE online[t]]
    /\ prof' = [prof EXCEPT ![s].team = NoTeam]
    /\ UNCHANGED <<saving, unclean>>

\* Everything succeeds: saved, off the roster, profile destroyed.
OnPlayerDisconnect(s, timeout) ==
    /\ Leaves(s)
    /\ prof[s].exists
    /\ prof[s].team # NoTeam => CanQuit(s)
    /\ SyncsOnLeave(s, timeout)
    /\ online' = [t \in Teams |-> IF t = prof[s].team THEN online[t] \ {s} ELSE online[t]]
    /\ prof' = [prof EXCEPT ![s] = NoProfile]
    /\ saving' = FreeSave(s)
    /\ UNCHANGED unclean

\* Sync throws, before or after its update took effect: catch(...) returns
\* and the profile stays.
OnPlayerDisconnectSyncFails(s) ==
    /\ Leaves(s)
    /\ prof[s].signedin
    /\ docs' \in {docs, Written(prof[s])}
    /\ unclean' = TRUE
    /\ UNCHANGED <<prof, online, saving>>

\* The team is not loaded, or lost its roster in a reload: the profile stays.
OnPlayerDisconnectQuitFails(s, timeout) ==
    /\ Leaves(s)
    /\ prof[s].team # NoTeam /\ ~ CanQuit(s)
    /\ SyncsOnLeave(s, timeout)
    /\ prof' = [prof EXCEPT ![s].archive =
                   IF ~ timeout /\ prof[s].signedin THEN prof[s].money ELSE @]
    /\ unclean' = TRUE
    /\ UNCHANGED <<online, saving>>

\* A slot whose profile could not be created: ProfileMgr[] throws at once.
OnPlayerDisconnectNoProfile(s) ==
    /\ Leaves(s)
    /\ ~ prof[s].exists
    /\ UNCHANGED <<prof, docs, online, saving, unclean>>

(***************************************************************************)
(* Dialogs.                                                                *)
(***************************************************************************)

Responds(s, d) == conn[s] # NoOne /\ dlg[s] = d /\ prof[s].exists

Insert(s, money) == Append(docs, [name |-> conn[s], banned |-> FALSE, money |-> money])

\* Registration succeeds: document inserted and read back, Sync, signed in.
Register(s) ==
    /\ Responds(s, "register")
    /\ ~ prof[s].read /\ Len(docs) < MaxDocs
    /\ docs' = Insert(s, prof[s].money)
    /\ prof' = [prof EXCEPT ![s] =
                   SignIn([@ EXCEPT !.uid = Len(docs) + 1, !.read = TRUE, !.archive = prof[s].money])]
    /\ dlg' = [dlg EXCEPT ![s] = "none"]
    /\ UNCHANGED <<conn, loaded, online, saving, earned, unclean>>

\* Mutant: SetSignedIn comes before Create.
RegisterFails_SignedFirst(s) ==
    /\ Responds(s, "register")
    /\ ~ prof[s].read /\ Len(docs) < MaxDocs
    /\ docs' = Insert(s, NoAttribute)
    /\ prof' = [prof EXCEPT ![s] = SignIn(@)]
    /\ UNCHANGED <<conn, dlg, loaded, online, saving, earned, unclean>>

\* The call that throws after the insert: its getLastError (the id is not
\* kept), the read back, the update of Sync, or the read back of Sync.  The
\* dialog is shown again.  A failed insert, an empty password and a profile
\* already read change nothing.
RegisterFails(s) ==
    /\ Responds(s, "register")
    /\ ~ prof[s].read /\ Len(docs) < MaxDocs
    /\ \E at \in {"error", "refetch", "sync", "reread"} :
          /\ docs' = Insert(s, IF at = "reread" THEN prof[s].money ELSE NoAttribute)
          /\ prof' = [prof EXCEPT ![s].uid = IF at = "error" THEN @ ELSE Len(docs) + 1,
                                  ![s].read = at \in {"sync", "reread"}]
    /\ UNCHANGED <<conn, dlg, loaded, online, saving, earned, unclean>>

\* Mutant: the dialog stays open after a login.
Login_StaysOpen(s) ==
    /\ Responds(s, "login")
    /\ prof[s].archive # NotLoaded
    /\ prof[s].uid # NoUid /\ docs[prof[s].uid].name = conn[s]
    /\ prof[s].money + prof[s].archive <= MaxMoney
    /\ prof' = [prof EXCEPT ![s] = SignIn([@ EXCEPT !.money = ApplyDataToPlayer(prof[s])])]
    /\ UNCHANGED <<conn, docs, dlg, loaded, online, saving, earned, unclean>>

\* The right password: signed in, and only then ApplyDataToPlayer.  A wrong
\* password shows the dialog again and changes nothing.
Login(s) ==
    /\ Responds(s, "login")
    /\ prof[s].archive # NotLoaded
    /\ prof[s].uid # NoUid /\ docs[prof[s].uid].name = conn[s]
    /\ prof[s].money + prof[s].archive <= MaxMoney
    /\ prof' = [prof EXCEPT ![s] = SignIn([@ EXCEPT !.money = ApplyDataToPlayer(prof[s])])]
    /\ dlg' = [dlg EXCEPT ![s] = "none"]
    /\ UNCHANGED <<conn, docs, loaded, online, saving, earned, unclean>>

\* OnPlayerRequestSpawn lists the teams, whoever asks.
OnPlayerRequestSpawn(s) ==
    /\ conn[s] # NoOne
    /\ dlg' = [dlg EXCEPT ![s] = "team"]
    /\ UNCHANGED <<conn, prof, docs, loaded, online, saving, earned, unclean>>

\* Any other dialog (roles, spawn point, settings, menus) replaces the shown one.
ShowDialog(s, d) ==
    /\ conn[s] # NoOne /\ prof[s].exists
    /\ d \in {"setting", "other"}
    /\ dlg' = [dlg EXCEPT ![s] = d]
    /\ UNCHANGED <<conn, prof, docs, loaded, online, saving, earned, unclean>>

\* Mutant: joining a team without quitting the one before.
TeamSelect_NoQuit(s, t) ==
    /\ Responds(s, "team")
    /\ CanJoin(s, t)
    /\ online' = [online EXCEPT ![t] = @ \cup {s}]
    /\ prof' = [prof EXCEPT ![s].team = t]
    /\ dlg' = [dlg EXCEPT ![s] = "other"]
    /\ UNCHANGED <<conn, docs, loaded, saving, earned, unclean>>

TeamSelect(s, t) ==
    /\ Responds(s, "team")
    /\ LET was == prof[s].team
           quits == was # t /\ was # NoTeam /\ CanQuit(s)
           joins == was # t /\ (was = NoTeam \/ CanQuit(s)) /\ CanJoin(s, t)
       IN  /\ online' = [u \in Teams |->
                           (IF quits /\ u = was THEN online[u] \ {s} ELSE online[u])
                              \cup (IF joins /\ u = t THEN {s} ELSE {})]
           /\ prof' = [prof EXCEPT ![s].team =
                          IF joins THEN t ELSE IF quits THEN NoTeam ELSE @]
           /\ dlg' = [dlg EXCEPT ![s] = IF joins \/ was = t THEN "other" ELSE "none"]
    /\ UNCHANGED <<conn, docs, loaded, saving, earned, unclean>>

\* Settings -> synchronise: Sync on the main thread, signed in or not; a
\* profile without a document throws.
SettingSync(s) ==
    /\ Responds(s, "setting")
    /\ prof[s].uid # NoUid
    /\ docs' = Written(prof[s])
    /\ prof' = [prof EXCEPT ![s].archive = prof[s].money, ![s].read = TRUE]
    /\ dlg' = [dlg EXCEPT ![s] = "none"]
    /\ UNCHANGED <<conn, loaded, online, saving, earned, unclean>>

\* The same Sync when it throws, before or after its update took effect.
SettingSyncFails(s) ==
    /\ Responds(s, "setting")
    /\ docs' \in {docs} \cup (IF prof[s].uid = NoUid THEN {} ELSE {Written(prof[s])})
    /\ dlg' = [dlg EXCEPT ![s] = "none"]
    /\ UNCHANGED <<conn, prof, loaded, online, saving, earned, unclean>>

(***************************************************************************)
(* Play and administration.                                                *)
(***************************************************************************)

\* A reward (a kill, a wealth pickup): GiveMoney on the slot's profile.
Earn(s) ==
    /\ conn[s] # NoOne /\ prof[s].exists
    /\ earned[conn[s]] < MaxEarn /\ prof[s].money < MaxMoney
    /\ prof' = [prof EXCEPT ![s].money = @ + 1]
    /\ earned' = [earned EXCEPT ![conn[s]] = @ + 1]
    /\ UNCHANGED <<conn, docs, dlg, loaded, online, saving, unclean>>

\* A payment (a property bought), made only with money at hand.
Spend(s) ==
    /\ conn[s] # NoOne /\ prof[s].exists
    /\ prof[s].money > 0
    /\ prof' = [prof EXCEPT ![s].money = @ - 1]
    /\ UNCHANGED <<conn, docs, dlg, loaded, online, saving, earned, unclean>>

\* An administrator reloads the teams: new Team objects with empty rosters;
\* an exception on the way leaves only those read before it.
ReloadTeams ==
    /\ \E s \in Slots : conn[s] # NoOne /\ prof[s].signedin
    /\ loaded' \in SUBSET Teams
    /\ online' = [t \in Teams |-> {}]
    /\ UNCHANGED <<conn, prof, docs, dlg, saving, earned, unclean>>

(***************************************************************************)
(* Autosave, on a pool thread.                                             *)
(***************************************************************************)

AutoSaveBegin(s) ==
    /\ prof[s].timer /\ saving[s].at = "none"
    /\ saving' = [saving EXCEPT ![s].at = "begin"]
    /\ UNCHANGED <<conn, prof, docs, dlg, loaded, online, earned, unclean>>

\* Sync evaluates GetMoney() into the document it will send.
AutoSaveRead(s) ==
    /\ saving[s].at = "begin"
    /\ saving' = [saving EXCEPT ![s] =
                     [at |-> "write", uid |-> prof[s].uid, money |-> prof[s].money]]
    /\ UNCHANGED <<conn, prof, docs, dlg, loaded, online, earned, unclean>>

\* The update, the read back and _LoadMemberData.
AutoSaveWrite(s) ==
    /\ saving[s].at = "write"
    /\ docs' = Written(saving[s])
    /\ prof' = [prof EXCEPT ![s].archive = saving[s].money, ![s].read = TRUE]
    /\ saving' = [saving EXCEPT ![s] = NoSave]
    /\ UNCHANGED <<conn, dlg, loaded, online, earned, unclean>>

\* A callback whose Profile was destroyed under it may still go through.
AutoSaveFreed(s) ==
    /\ saving[s].at = "freed"
    /\ docs' \in {docs, Written(saving[s])}
    /\ saving' = [saving EXCEPT ![s] = NoSave]
    /\ UNCHANGED <<conn, prof, dlg, loaded, online, earned, unclean>>

\* The process dies: killed, or by an exception or a freed profile in a pool
\* callback.  It is started again on what the database holds.
Crash ==
    /\ conn' = [s \in Slots |-> NoOne]
    /\ prof' = [s \in Slots |-> NoProfile]
    /\ dlg' = [s \in Slots |-> "none"]
    /\ loaded' \in SUBSET Teams
    /\ online' = [t \in Teams |-> {}]
    /\ saving' = [s \in Slots |-> NoSave]
    /\ UNCHANGED <<docs, earned, unclean>>

Next ==
    \/ \E s \in Slots, n \in Names : OnPlayerConnect(s, n) \/ OnPlayerConnectFails(s, n)
    \/ \E s \in Slots, timeout \in BOOLEAN :
          OnPlayerDisconnect(s, timeout) \/ OnPlayerDisconnectQuitFails(s, timeout)
    \/ \E s \in Slots, t \in Teams : TeamSelect(s, t)
    \/ \E s \in Slots, d \in {"setting", "other"} : ShowDialog(s, d)
    \/ \E s \in Slots :
          \/ OnPlayerDisconnectSyncFails(s)
          \/ OnPlayerDisconnectNoProfile(s)
          \/ Register(s)
          \/ RegisterFails(s)
          \/ Login(s)
          \/ OnPlayerRequestSpawn(s)
          \/ SettingSync(s)
          \/ SettingSyncFails(s)
          \/ Earn(s)
          \/ Spend(s)
          \/ AutoSaveBegin(s)
          \/ AutoSaveRead(s)
          \/ AutoSaveWrite(s)
          \/ AutoSaveFreed(s)
    \/ ReloadTeams
    \/ Crash

Spec == Init /\ [][Next]_vars

(***************************************************************************)
(* Properties.                                                             *)
(***************************************************************************)

TypeOK ==
    /\ conn \in [Slots -> Names \cup {NoOne}]
    /\ prof \in [Slots -> Profiles]
    /\ docs \in Seq(Docs)
    /\ dlg \in [Slots -> Dialogs]
    /\ loaded \in SUBSET Teams
    /\ online \in [Teams -> SUBSET Slots]
    /\ saving \in [Slots -> Saves]
    /\ earned \in [Names -> Nat]
    /\ unclean \in BOOLEAN

\* Whoever is on a team's roster has a profile that says so, through team
\* changes, reloads, failed disconnects and reused slots.  GangZoneItem::StartWar
\* looks up the profile of every member of the roster and would otherwise throw
\* after it has armed the war's end timer.
RosterHasProfiles ==
    \A t \in Teams : \A s \in online[t] : prof[s].exists /\ prof[s].team = t

\* A profile that is signed in or has an autosave timer has its document: the
\* Sync of the pool thread, whose exceptions nobody catches, never runs
\* without one, not even on a profile inherited from an earlier player.
SaversHaveDocuments ==
    \A s \in Slots :
        /\ prof[s].signedin \/ prof[s].timer => prof[s].uid \in 1 .. Len(docs)
        /\ saving[s].at # "none" =>
              (IF saving[s].at = "begin" THEN prof[s].uid ELSE saving[s].uid)
                 \in 1 .. Len(docs)

\* As long as every disconnect ran to its end, a slot's profile is the one of
\* the player connected there.
ProfileIsOwn ==
    ~ unclean =>
        \A s \in Slots :
            /\ prof[s].exists => conn[s] # NoOne
            /\ prof[s].exists /\ prof[s].uid # NoUid => docs[prof[s].uid].name = conn[s]

\* As long as every disconnect ran to its end, logging in and saving create no
\* money: what a signed-in player holds, and what is saved for him, he earned.
NoMoneyMinted ==
    ~ unclean =>
        /\ \A s \in Slots : prof[s].signedin => prof[s].money <= earned[conn[s]]
        /\ \A i \in 1 .. Len(docs) : docs[i].money <= earned[docs[i].name]

\* The greeting of OnPlayerConnect, "welcome back, enter your password":
\* the login dialog asks for the password of the player who is connected.
LoginIsForOwnAccount ==
    \A s \in Slots : dlg[s] = "login" => docs[prof[s].uid].name = conn[s]

=============================================================================
